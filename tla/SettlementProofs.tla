-------------------------- MODULE SettlementProofs --------------------------
(***************************************************************************)
(* What holds of Settlement for any number of deals, users and payouts,    *)
(* any amounts, rates, caps and clocks.                                    *)
(***************************************************************************)
EXTENDS Settlement, FiniteSums

\* What the asset's books would have left over if every deal and every owed payout were paid.
Surplus(b) == b.cash + b.parked - b.owedTotal - b.held

\* Two books that differ only in where the backing is and whom it went to.
SameDeals(b, c) == c.held = b.held /\ c.promisedTotal = b.promisedTotal

-----------------------------------------------------------------------------
(* The cash desk. *)

LEMMA ShareIsNat ==
    ASSUME NEW x \in Nat, NEW y \in Nat
    PROVE  ShareOf(x, y) \in Nat
<1>1. x * y \in Nat
  OBVIOUS
<1>2. BPS \in Nat /\ BPS > 0
  BY SettlementAssumption
<1> DEFINE p == x * y
<1>3. p \div BPS \in Nat
  <2> HIDE DEF p
  <2> p \in Nat BY <1>1 DEF p
  <2> QED BY <1>2
<1> QED BY <1>3 DEF ShareOf

LEMMA PullKeeps ==
    ASSUME NEW b \in Books, NEW amount \in Nat, NEW r \in Pull(b, amount)
    PROVE  /\ r.books \in Books /\ SameDeals(b, r.books) /\ Surplus(r.books) = Surplus(b)
           /\ r.ok => r.books.cash = b.cash + amount
<1>1. CASE r = [ok |-> FALSE, books |-> b]
  <2>1. ~r.ok /\ r.books = b
    BY <1>1
  <2> QED BY <2>1 DEF SameDeals, Surplus
<1>2. CASE /\ amount <= b.parked
           /\ r = [ok |-> TRUE, books |-> [b EXCEPT !.parked = @ - amount, !.cash = @ + amount]]
  <2> DEFINE b1 == [b EXCEPT !.parked = @ - amount]
             c == [b EXCEPT !.parked = @ - amount, !.cash = @ + amount]
  <2>1. r.books = c
    BY <1>2
  <2>2. b1 \in Books /\ b1.cash = b.cash
    BY <1>2 DEF Books
  <2>3. [b1 EXCEPT !.cash = b.cash + amount] \in Books
    <3> HIDE DEF b1
    <3> QED BY <2>2 DEF Books
  <2>4. c \in Books
    BY <2>3
  <2>5. SameDeals(b, c) /\ Surplus(c) = Surplus(b) /\ c.cash = b.cash + amount
    BY <1>2 DEF Books, SameDeals, Surplus
  <2> HIDE DEF c
  <2> QED BY <2>1, <2>4, <2>5
<1> QED BY <1>1, <1>2 DEF Pull

LEMMA LiquidKeeps ==
    ASSUME NEW b \in Books, NEW amount \in Nat, NEW r \in Liquid(b, amount)
    PROVE  /\ r.books \in Books /\ SameDeals(b, r.books) /\ Surplus(r.books) = Surplus(b)
           /\ r.ok => r.books.cash >= amount
<1>1. CASE b.cash >= amount
  BY <1>1 DEF Liquid, SameDeals, Surplus
<1>2. CASE ~(b.cash >= amount)
  <2>1. amount - b.cash \in Nat /\ r \in Pull(b, amount - b.cash)
    BY <1>2 DEF Liquid, Books
  <2> QED BY <2>1, PullKeeps DEF Books
<1> QED BY <1>1, <1>2

LEMMA CreditedKeeps ==
    ASSUME NEW b \in Books, NEW to \in Users, NEW amount \in Nat
    PROVE  /\ Credited(b, to, amount) \in Books /\ SameDeals(b, Credited(b, to, amount))
           /\ Surplus(Credited(b, to, amount)) = Surplus(b) - amount
<1> DEFINE b1 == [b EXCEPT !.owed[to] = @ + amount]
<1>1. b1 \in Books /\ b1.owedTotal = b.owedTotal
  BY DEF Books
<1>2. [b1 EXCEPT !.owedTotal = b.owedTotal + amount] \in Books
  <2> HIDE DEF b1
  <2> QED BY <1>1 DEF Books
<1>3. Credited(b, to, amount) \in Books
  BY <1>2 DEF Credited
<1>4. /\ SameDeals(b, Credited(b, to, amount))
      /\ Surplus(Credited(b, to, amount)) = Surplus(b) - amount
  BY DEF Credited, Books, SameDeals, Surplus
<1> QED BY <1>3, <1>4

LEMMA TransferredKeeps ==
    ASSUME NEW b \in Books, NEW to \in Users, NEW amount \in Nat, amount <= b.cash
    PROVE  /\ Transferred(b, to, amount) \in Books /\ SameDeals(b, Transferred(b, to, amount))
           /\ Surplus(Transferred(b, to, amount)) = Surplus(b) - amount
<1> DEFINE b1 == [b EXCEPT !.cash = @ - amount]
<1>1. b1 \in Books /\ b1.wallet = b.wallet
  BY DEF Books
<1>2. [b1 EXCEPT !.wallet[to] = b.wallet[to] + amount] \in Books
  <2> HIDE DEF b1
  <2> QED BY <1>1 DEF Books
<1>3. Transferred(b, to, amount) \in Books
  BY <1>2 DEF Transferred
<1>4. /\ SameDeals(b, Transferred(b, to, amount))
      /\ Surplus(Transferred(b, to, amount)) = Surplus(b) - amount
  BY DEF Transferred, Books, SameDeals, Surplus
<1> QED BY <1>3, <1>4

LEMMA DeliverPays ==
    ASSUME NEW b \in Books, NEW to, NEW amount \in Nat, amount # 0 => to \in Users,
           NEW c \in Deliver(b, to, amount)
    PROVE  c \in Books /\ SameDeals(b, c) /\ Surplus(c) = Surplus(b) - amount
<1>1. CASE amount = 0
  BY <1>1 DEF Deliver, SameDeals, Surplus, Books
<1>2. CASE amount # 0
  <2>1. PICK r \in Liquid(b, amount) :
            \/ c = Credited(r.books, to, amount)
            \/ r.ok /\ c = Transferred(r.books, to, amount)
    BY <1>2 DEF Deliver
  <2>2. /\ r.books \in Books /\ SameDeals(b, r.books) /\ Surplus(r.books) = Surplus(b)
        /\ r.ok => r.books.cash >= amount
    BY LiquidKeeps
  <2>3. to \in Users
    BY <1>2
  <2>4. CASE c = Credited(r.books, to, amount)
    BY <2>2, <2>3, <2>4, CreditedKeeps DEF SameDeals
  <2>5. CASE r.ok /\ c = Transferred(r.books, to, amount)
    <3>1. amount <= r.books.cash
      BY <2>2, <2>5 DEF Books
    <3> QED BY <2>2, <2>3, <2>5, <3>1, TransferredKeeps DEF SameDeals
  <2> QED BY <2>1, <2>4, <2>5
<1> QED BY <1>1, <1>2

LEMMA TrimKeeps ==
    ASSUME NEW b \in Books, NEW d, NEW c \in Trim(b, d)
    PROVE  c \in Books /\ SameDeals(b, c) /\ Surplus(c) = Surplus(b)
<1>1. CASE c = b
  BY <1>1 DEF SameDeals, Surplus
<1>2. CASE b.parked > ParkTarget(b) /\ \E r \in Pull(b, b.parked - ParkTarget(b)) : c = r.books
  <2>1. b.parked - ParkTarget(b) \in Nat
    BY <1>2 DEF Books, ParkTarget, AtMost
  <2> QED BY <1>2, <2>1, PullKeeps
<1> QED BY <1>1, <1>2 DEF Trim

LEMMA TakenKeeps ==
    ASSUME terms \in [Deals -> Terms], NEW b \in Books, NEW d \in Deals,
           NEW amount \in Nat, amount <= b.held
    PROVE  /\ Taken(b, d, amount) \in Books
           /\ Surplus(Taken(b, d, amount)) = Surplus(b) + amount
           /\ Taken(b, d, amount).held = b.held - amount
           /\ Taken(b, d, amount).promisedTotal = b.promisedTotal
<1> DEFINE share == ShareOf(amount, terms[d].yieldBps)
           left == IF b.parkable > share THEN b.parkable - share ELSE 0
           b1 == [b EXCEPT !.held = @ - amount]
<1>1. share \in Nat
  BY ShareIsNat DEF Terms
<1>2. left \in Nat
  <2> HIDE DEF share
  <2> QED BY <1>1 DEF Books
<1>3. Taken(b, d, amount) = [b EXCEPT !.held = @ - amount, !.parkable = left]
  BY DEF Taken
<1> HIDE DEF left
<1>4. b1 \in Books
  BY DEF Books
<1>5. [b1 EXCEPT !.parkable = left] \in Books
  <2> HIDE DEF b1
  <2> QED BY <1>2, <1>4 DEF Books
<1> QED BY <1>2, <1>3, <1>5 DEF Surplus, Books

\* A payout lowers `held` by its amount and leaves the surplus as it was: what is paid out or
\* credited is what the deal gave up.
LEMMA PaidOutKeeps ==
    ASSUME terms \in [Deals -> Terms], assignment \in [Deals -> [Users -> Assignment]],
           NEW d \in Deals, NEW u \in Users, assignment[d][u].paid <= assignment[d][u].amount,
           NEW b \in Books, NEW amount \in Nat, amount <= b.held, NEW c \in PaidOut(b, d, u, amount)
    PROVE  /\ c \in Books /\ Surplus(c) = Surplus(b)
           /\ c.held = b.held - amount /\ c.promisedTotal = b.promisedTotal
<1>1. CASE amount = 0
  BY <1>1 DEF PaidOut, Books
<1>2. CASE amount # 0
  <2> DEFINE cut == AssigneeCut(d, u, amount)
             to == assignment[d][u].assignee
  <2>1. cut \in Nat /\ amount - cut \in Nat /\ (cut # 0 => to \in Users)
    BY DEF AssigneeCut, AtMost, Assignment
  <2>2. PICK b1 \in Trim(Taken(b, d, amount), d) :
            \E b2 \in Deliver(b1, to, cut) : c \in Deliver(b2, u, amount - cut)
    BY <1>2 DEF PaidOut
  <2>3. PICK b2 \in Deliver(b1, to, cut) : c \in Deliver(b2, u, amount - cut)
    BY <2>2
  <2> HIDE DEF cut, to
  <2>4. /\ b1 \in Books /\ Surplus(b1) = Surplus(b) + amount
        /\ b1.held = b.held - amount /\ b1.promisedTotal = b.promisedTotal
    BY TakenKeeps, TrimKeeps DEF SameDeals
  <2>5. /\ b2 \in Books /\ Surplus(b2) = Surplus(b1) - cut /\ SameDeals(b1, b2)
    BY <2>1, <2>4, DeliverPays
  <2>6. /\ c \in Books /\ Surplus(c) = Surplus(b2) - (amount - cut) /\ SameDeals(b2, c)
    BY <2>1, <2>3, <2>5, DeliverPays
  <2>7. Surplus(b) \in Int
    BY DEF Surplus, Books
  <2> QED BY <2>1, <2>4, <2>5, <2>6, <2>7 DEF SameDeals
<1> QED BY <1>1, <1>2

-----------------------------------------------------------------------------
(* The books: types, solvency and the assignments' bound are inductive together. *)

\* An assignee is never paid more than was signed over: without it the cut of a payout could be
\* negative, and the books would not balance.
CutBounded == \A d \in Deals, u \in Users : assignment[d][u].paid <= assignment[d][u].amount

\* The hold budget is never overdrawn: otherwise the next hold could have a negative length.
HoldUsedBounded == \A d \in Deals : holdUsed[d] <= HoldCap

\* A live deal has a payer, whose wallet it draws on.
PayerKnown == \A d \in Deals : Live(d) => Payer(d) \in Users

BooksInv == TypeOK /\ Solvent /\ CutBounded /\ HoldUsedBounded /\ PayerKnown

\* The deals' part of a step, for the steps that leave the books and the assignments alone.
LEMMA BooksUnchanged ==
    ASSUME BooksInv, UNCHANGED <<books, assignment, holdUsed, status, terms>>, TypeOK'
    PROVE  BooksInv'
BY DEF BooksInv, Solvent, CutBounded, HoldUsedBounded, PayerKnown, Live, Payer

LEMMA SolventMeansNoSurplus ==
    ASSUME BooksInv
    PROVE  /\ terms \in [Deals -> Terms] /\ assignment \in [Deals -> [Users -> Assignment]]
           /\ books \in Books /\ CutBounded /\ Surplus(books) = 0
<1>1. books \in Books /\ Solvent
  BY DEF BooksInv, TypeOK
<1>2. Surplus(books) = 0
  BY <1>1 DEF Solvent, Surplus, Books
<1> QED BY <1>1, <1>2 DEF BooksInv, TypeOK

LEMMA NoSurplusMeansSolvent ==
    ASSUME books' \in Books, Surplus(books') = 0
    PROVE  Solvent'
BY DEF Solvent, Surplus, Books

LEMMA OpenKeepsBooks ==
    ASSUME BooksInv, NEW d \in Deals, NEW payer \in Payers, NEW list \in Lists,
           NEW h \in now + 1..now + MaxHorizon, NEW fee \in FeeRates, NEW share \in YieldShares,
           NEW cap \in DealCaps, Open(d, payer, list, h, fee, share, cap)
    PROVE  BooksInv'
<1>1. list \in Seq(Users)
  <2>1. PICK n \in 0..MaxPayees : list \in [1..n -> Payees]
    BY DEF Lists
  <2>2. n \in Nat /\ Payees \subseteq Users
    BY SettlementAssumption
  <2> QED BY <2>1, <2>2
<1>2. status' \in [Deals -> {"None", "Live", "Closed"}] /\ payees' \in [Deals -> Seq(Users)]
  BY <1>1 DEF Open, BooksInv, TypeOK
<1>3. h \in Nat /\ fee \in Nat /\ share \in Nat /\ cap \in Nat /\ payer \in Users
  BY SettlementAssumption DEF BooksInv, TypeOK
<1>4. terms' \in [Deals -> Terms] /\ horizon' \in [Deals -> Nat]
  BY <1>3 DEF Open, BooksInv, TypeOK, Terms
<1>5. TypeOK'
  BY <1>2, <1>4 DEF Open, BooksInv, TypeOK, moneyVars, signVars, recVars
<1>6. PayerKnown'
  BY <1>3 DEF Open, BooksInv, TypeOK, PayerKnown, Live, Payer
<1> QED BY <1>5, <1>6 DEF Open, BooksInv, Solvent, CutBounded, HoldUsedBounded, signVars

\* Steps of a deal that move no money.
LEMMA QuietKeepsBooks ==
    ASSUME BooksInv, NEW d \in Deals, NEW u \in Users,
           \/ u \in Payees /\ AddPayee(d, u)
           \/ MarkConsent(d, u)
           \/ RecordOutcome(d, u)
           \/ RetryRecord(d, u)
           \/ Hold(d)
           \/ ReleaseHold(d)
           \/ \E h \in now + 1..now + MaxHorizon : ExtendHorizon(d, h)
    PROVE  BooksInv'
<1>1. CASE AddPayee(d, u)
  <2>1. payees' \in [Deals -> Seq(Users)]
    BY <1>1 DEF AddPayee, BooksInv, TypeOK
  <2> QED BY <1>1, <2>1, BooksUnchanged DEF AddPayee, BooksInv, TypeOK, moneyVars, clockVars, signVars, recVars
<1>2. CASE MarkConsent(d, u)
  BY <1>2, BooksUnchanged DEF MarkConsent, BooksInv, TypeOK, moneyVars, clockVars, signVars, recVars
<1>3. CASE RecordOutcome(d, u)
  <2>1. pending' \subseteq Deals \X Users /\ written' \subseteq Deals \X Users
    BY <1>3 DEF RecordOutcome, Record, Recordable, BooksInv, TypeOK
  <2> QED BY <1>3, <2>1, BooksUnchanged
          DEF RecordOutcome, BooksInv, TypeOK, dealVars, moneyVars, clockVars, signVars
<1>4. CASE RetryRecord(d, u)
  BY <1>4, BooksUnchanged DEF RetryRecord, BooksInv, TypeOK, dealVars, moneyVars, clockVars, signVars
<1>5. CASE Hold(d)
  <2>1. NextHold(d) \in Nat /\ holdUsed[d] + NextHold(d) <= HoldCap
    <3>1. /\ HoldStep \in Nat /\ HoldCap \in Nat
          /\ holdUsed[d] \in Nat /\ holdUsed[d] <= HoldCap
      BY SettlementAssumption DEF BooksInv, TypeOK, HoldUsedBounded
    <3> QED BY <3>1 DEF NextHold, AtMost
  <2>2. /\ holdUsed' \in [Deals -> Nat] /\ HoldUsedBounded'
        /\ holdUntil' \in [Deals -> Nat]
    BY <1>5, <2>1 DEF Hold, BooksInv, TypeOK, HoldUsedBounded
  <2>3. TypeOK'
    BY <1>5, <2>2 DEF Hold, BooksInv, TypeOK, dealVars, moneyVars, signVars, recVars
  <2> QED BY <1>5, <2>2, <2>3
          DEF Hold, BooksInv, Solvent, CutBounded, PayerKnown, Live, Payer, dealVars, signVars
<1>6. CASE ReleaseHold(d)
  BY <1>6, BooksUnchanged DEF ReleaseHold, BooksInv, TypeOK, dealVars, moneyVars, signVars, recVars
<1>7. CASE \E h \in now + 1..now + MaxHorizon : ExtendHorizon(d, h)
  <2>1. PICK h \in now + 1..now + MaxHorizon : ExtendHorizon(d, h)
    BY <1>7
  <2>2. now \in Nat /\ MaxHorizon \in Nat
    BY SettlementAssumption DEF BooksInv, TypeOK
  <2>3. h \in Nat
    BY <2>1, <2>2
  <2> QED BY <2>1, <2>3, BooksUnchanged DEF ExtendHorizon, BooksInv, TypeOK, dealVars, moneyVars, signVars, recVars
<1> QED BY <1>1, <1>2, <1>3, <1>4, <1>5, <1>6, <1>7

\* Money in: cash and `held` rise together.
LEMMA TakeInKeepsBooks ==
    ASSUME BooksInv, NEW d \in Deals, Payer(d) \in Users, NEW amount \in Nat, NEW unpromised \in Nat,
           unpromised <= books.promisedTotal, TakeIn(d, amount, unpromised),
           promised' \in [Deals -> Nat]
    PROVE  BooksInv'
<1> DEFINE share == ShareOf(amount, terms[d].yieldBps)
           u == Payer(d)
           b1 == [books EXCEPT !.held = @ + amount]
           b2 == [b1 EXCEPT !.cash = books.cash + amount]
           b3 == [b2 EXCEPT !.parkable = books.parkable + share]
           b4 == [b3 EXCEPT !.promisedTotal = books.promisedTotal - unpromised]
           b5 == [b4 EXCEPT !.wallet[u] = books.wallet[u] - amount]
<1>1. share \in Nat /\ books \in Books /\ books.wallet[u] >= amount
  BY ShareIsNat DEF BooksInv, TypeOK, Terms, TakeIn
<1> HIDE DEF share, u
<1>2. b1 \in Books /\ b1.cash = books.cash /\ b1.parkable = books.parkable
      /\ b1.promisedTotal = books.promisedTotal /\ b1.wallet = books.wallet
  BY <1>1 DEF Books
<1>3. b2 \in Books /\ b2.parkable = books.parkable
      /\ b2.promisedTotal = books.promisedTotal /\ b2.wallet = books.wallet
  <2> HIDE DEF b1
  <2> QED BY <1>1, <1>2 DEF Books
<1>4. b3 \in Books /\ b3.promisedTotal = books.promisedTotal /\ b3.wallet = books.wallet
  <2> HIDE DEF b2
  <2> QED BY <1>1, <1>3 DEF Books
<1>5. b4 \in Books /\ b4.wallet = books.wallet
  <2> HIDE DEF b3
  <2> QED BY <1>1, <1>4 DEF Books
<1>6. b5 \in Books
  <2>1. u \in Users
    BY DEF u
  <2> HIDE DEF b4
  <2> QED BY <1>1, <1>5, <2>1 DEF Books
<1>7. books' = [books EXCEPT !.held = @ + amount, !.cash = @ + amount, !.parkable = @ + share,
                             !.promisedTotal = @ - unpromised, !.wallet[u] = @ - amount]
  BY DEF TakeIn, share, u
<1>8. books' \in Books
  BY <1>6, <1>7
<1>9. Solvent'
  BY <1>1, <1>7 DEF Solvent, BooksInv, Books
<1>10. funded' \in [Deals -> Nat] /\ balance' \in [Deals -> Nat]
  <2>1. balance \in [Deals -> Nat] /\ funded \in [Deals -> Nat]
    BY DEF BooksInv, TypeOK
  <2>2. /\ funded' = [funded EXCEPT ![d] = @ + amount]
        /\ balance' = [balance EXCEPT ![d] = @ + amount]
    BY DEF TakeIn
  <2> QED BY <2>1, <2>2
<1>11. TypeOK'
  BY <1>8, <1>10 DEF TakeIn, BooksInv, TypeOK, dealVars, clockVars, signVars, recVars
<1>12. CutBounded' /\ HoldUsedBounded'
  BY DEF TakeIn, BooksInv, CutBounded, HoldUsedBounded, clockVars, signVars
<1>13. PayerKnown'
  BY DEF TakeIn, BooksInv, PayerKnown, Live, Payer, dealVars
<1> QED BY <1>9, <1>11, <1>12, <1>13 DEF BooksInv

LEMMA FundKeepsBooks ==
    ASSUME BooksInv, NEW d \in Deals, NEW amount \in Amounts,
           FundFresh(d, amount) \/ FundPromised(d, amount)
    PROVE  BooksInv'
<1>1. amount \in Nat /\ books.promisedTotal \in Nat
  <2>1. books \in Books
    BY DEF BooksInv, TypeOK
  <2>2. MaxAmount \in Nat
    BY SettlementAssumption
  <2> QED BY <2>1, <2>2 DEF Amounts, Books
<1>2. CASE FundFresh(d, amount)
  <2>1. Payer(d) \in Users /\ promised' \in [Deals -> Nat]
    BY <1>2 DEF FundFresh, BooksInv, TypeOK, PayerKnown
  <2> QED BY <1>1, <1>2, <2>1, TakeInKeepsBooks DEF FundFresh
<1>3. CASE FundPromised(d, amount)
  <2>1. Payer(d) \in Users /\ promised' \in [Deals -> Nat]
    BY <1>1, <1>3 DEF CanTakePromised, FundPromised, BooksInv, TypeOK, PayerKnown
  <2> QED BY <1>1, <1>3, <2>1, TakeInKeepsBooks DEF CanTakePromised, FundPromised
<1> QED BY <1>2, <1>3

LEMMA PledgeKeepsBooks ==
    ASSUME BooksInv, NEW d \in Deals, NEW amount \in Amounts, Pledge(d, amount)
    PROVE  BooksInv'
<1>1. amount \in Nat
  BY SettlementAssumption DEF Amounts
<1>2. books' \in Books /\ Solvent'
  <2>1. books \in Books /\ Solvent
    BY DEF BooksInv, TypeOK
  <2> QED BY <1>1, <2>1 DEF Pledge, Books, Solvent
<1>3. TypeOK'
  BY <1>1, <1>2 DEF Pledge, BooksInv, TypeOK, dealVars, clockVars, signVars, recVars
<1> QED BY <1>2, <1>3
        DEF Pledge, BooksInv, CutBounded, HoldUsedBounded, PayerKnown, Live, Payer, dealVars, clockVars, signVars

\* The assignment's side of a payout keeps every assignee within what was signed over.
LEMMA AssigneePaidKeeps ==
    ASSUME assignment \in [Deals -> [Users -> Assignment]], CutBounded,
           NEW g \in [Deals -> [Users -> Assignment]], NEW d \in Deals, NEW u \in Users,
           g[d][u] = assignment[d][u], NEW amount \in Nat,
           \A e \in Deals, v \in Users : g[e][v].paid <= g[e][v].amount
    PROVE  /\ AssigneePaid(g, d, u, amount) \in [Deals -> [Users -> Assignment]]
           /\ \A e \in Deals, v \in Users :
                  AssigneePaid(g, d, u, amount)[e][v].paid <= AssigneePaid(g, d, u, amount)[e][v].amount
<1> DEFINE cut == AssigneeCut(d, u, amount)
           x == [g[d][u] EXCEPT !.paid = @ + cut]
<1>1. cut \in Nat /\ g[d][u].paid + cut <= g[d][u].amount
  BY DEF AssigneeCut, AtMost, Assignment, CutBounded
<1> HIDE DEF cut
<1>2. x \in Assignment /\ x.paid <= x.amount
  <2> DEFINE y == g[d][u]
             n == y.paid + cut
  <2>1. y \in Assignment
    OBVIOUS
  <2>2. x \in Assignment
    <3>1. x = [y EXCEPT !.paid = n]
      OBVIOUS
    <3>2. n \in Nat
      BY <1>1, <2>1 DEF Assignment
    <3> HIDE DEF x, y, n
    <3> QED BY <2>1, <3>1, <3>2 DEF Assignment
  <2>3. x.paid = g[d][u].paid + cut /\ x.amount = g[d][u].amount
    BY <2>1 DEF Assignment
  <2> QED BY <1>1, <2>2, <2>3
<1>3. AssigneePaid(g, d, u, amount) = [g EXCEPT ![d][u] = x]
  BY DEF AssigneePaid, cut
<1> HIDE DEF x
<1> QED BY <1>2, <1>3

LEMMA PayToKeepsBooks ==
    ASSUME BooksInv, NEW d \in Deals, NEW u \in Users, NEW amount \in Nat, PayTo(d, u, amount)
    PROVE  BooksInv'
<1>1. /\ terms \in [Deals -> Terms] /\ assignment \in [Deals -> [Users -> Assignment]]
      /\ books \in Books /\ CutBounded /\ Surplus(books) = 0
      /\ amount <= books.held
  BY SolventMeansNoSurplus DEF CanPayTo, PayTo, Takes
<1>2. assignment[d][u].paid <= assignment[d][u].amount /\ books' \in PaidOut(books, d, u, amount)
  BY <1>1 DEF PayTo, CutBounded
<1>3. books' \in Books /\ Solvent'
  <2>1. books' \in Books /\ Surplus(books') = 0
    BY <1>1, <1>2, PaidOutKeeps
  <2> QED BY <2>1 DEF Solvent, Surplus, Books
<1>4. assignment' \in [Deals -> [Users -> Assignment]] /\ CutBounded'
  BY <1>1, AssigneePaidKeeps DEF PayTo, CutBounded
<1>5. balance' \in [Deals -> Nat]
  BY DEF CanPayTo, PayTo, Takes, BooksInv, TypeOK
<1>6. TypeOK'
  BY <1>3, <1>4, <1>5 DEF PayTo, BooksInv, TypeOK, dealVars, clockVars, recVars
<1> QED BY <1>3, <1>4, <1>6
        DEF PayTo, BooksInv, HoldUsedBounded, PayerKnown, Live, Payer, dealVars, clockVars

LEMMA PayFeeKeepsBooks ==
    ASSUME BooksInv, NEW d \in Deals, NEW amount \in Nat, PayFee(d, amount)
    PROVE  BooksInv'
<1>1. /\ terms \in [Deals -> Terms] /\ books \in Books /\ Surplus(books) = 0
      /\ amount <= books.held
  BY SolventMeansNoSurplus DEF PayFee, Takes
<1>2. PICK b \in Trim(Taken(books, d, amount), d) : books' \in Deliver(b, FeeRecipient, amount)
  BY DEF PayFee
<1>3. b \in Books /\ Surplus(b) = amount
  BY <1>1, <1>2, TakenKeeps, TrimKeeps
<1>4. books' \in Books /\ Surplus(books') = 0
  BY <1>2, <1>3, DeliverPays, SettlementAssumption
<1>5. Solvent'
  BY <1>4, NoSurplusMeansSolvent
<1>6. balance' \in [Deals -> Nat] /\ feePaid' \in [Deals -> Nat]
  BY DEF PayFee, Takes, BooksInv, TypeOK
<1>7. TypeOK'
  BY <1>4, <1>6 DEF PayFee, BooksInv, TypeOK, dealVars, clockVars, signVars, recVars
<1> QED BY <1>5, <1>7
        DEF PayFee, BooksInv, CutBounded, HoldUsedBounded, PayerKnown, Live, Payer, dealVars, clockVars, signVars

LEMMA WithdrawOwedKeepsBooks ==
    ASSUME BooksInv, NEW u \in Users, WithdrawOwed(u)
    PROVE  BooksInv'
<1> DEFINE amount == books.owed[u]
           b1 == [books EXCEPT !.owed[u] = 0]
           b == [books EXCEPT !.owed[u] = 0, !.owedTotal = @ - amount]
<1>1. books \in Books /\ Surplus(books) = 0
  BY SolventMeansNoSurplus
<1>2. amount \in Nat /\ amount <= books.owedTotal
  BY <1>1 DEF WithdrawOwed, Books
<1>3. books' \in OwedPaid(b, u, amount)
  BY DEF Cleared, WithdrawOwed
<1> HIDE DEF amount
<1>4. b1 \in Books /\ b1.owedTotal = books.owedTotal
  BY <1>1 DEF Books
<1>5. [b1 EXCEPT !.owedTotal = books.owedTotal - amount] \in Books
  <2> HIDE DEF b1
  <2> QED BY <1>2, <1>4 DEF Books
<1>6. b \in Books /\ Surplus(b) = amount
  BY <1>1, <1>2, <1>5 DEF Books, Surplus
<1> HIDE DEF b
<1>7. PICK r \in Liquid(b, amount) : r.ok /\ books' = Transferred(r.books, u, amount)
  BY <1>3 DEF OwedPaid
<1>8. r.books \in Books /\ Surplus(r.books) = amount /\ amount <= r.books.cash
  <2>1. r.books \in Books /\ Surplus(r.books) = amount /\ r.books.cash >= amount
    BY <1>2, <1>6, <1>7, LiquidKeeps
  <2> QED BY <1>2, <2>1 DEF Books
<1>9. books' \in Books /\ Surplus(books') = 0
  BY <1>2, <1>7, <1>8, TransferredKeeps
<1>10. Solvent'
  BY <1>9, NoSurplusMeansSolvent
<1> QED BY <1>9, <1>10
        DEF WithdrawOwed, BooksInv, TypeOK, CutBounded, HoldUsedBounded, PayerKnown, Live, Payer,
            dealVars, moneyVars, clockVars, signVars, recVars

LEMMA PromiseEndedKeeps ==
    ASSUME BooksInv, NEW d \in Deals, promised[d] <= books.promisedTotal
    PROVE  /\ PromiseEnded(books, d) \in Books /\ Surplus(PromiseEnded(books, d)) = 0
           /\ PromiseEnded(books, d).held = books.held
<1>1. books \in Books /\ Surplus(books) = 0 /\ promised[d] \in Nat
  BY SolventMeansNoSurplus DEF BooksInv, TypeOK
<1> QED BY <1>1 DEF PromiseEnded, Books, Surplus

LEMMA CloseKeepsBooks ==
    ASSUME BooksInv, NEW d \in Deals, Close(d)
    PROVE  BooksInv'
<1>1. books' \in Books /\ Surplus(books') = 0
  BY PromiseEndedKeeps DEF CanClose, Close
<1>2. Solvent'
  BY <1>1, NoSurplusMeansSolvent
<1>3. status' \in [Deals -> {"None", "Live", "Closed"}] /\ promised' \in [Deals -> Nat]
  BY DEF Close, BooksInv, TypeOK
<1>4. TypeOK'
  BY <1>1, <1>3 DEF Close, BooksInv, TypeOK, clockVars, signVars, recVars
<1>5. PayerKnown'
  BY DEF Close, BooksInv, TypeOK, PayerKnown, Live, Payer
<1> QED BY <1>2, <1>4, <1>5 DEF Close, BooksInv, CutBounded, HoldUsedBounded, clockVars, signVars

\* The long-stop is up to three payouts in a row; its parties are distinct, so each finds its
\* assignment as it was.
LEMMA LongstopKeepsBooks ==
    ASSUME BooksInv, NEW d \in Deals, NEW x \in Nat, NEW y \in Nat, NEW z \in Nat,
           \A i, j \in 1..Len(payees[d]) : i # j => payees[d][i] # payees[d][j],
           LongstopSplit(d, x, y, z)
    PROVE  BooksInv'
<1> DEFINE p1 == PayeeAt(d, 1)
           p2 == PayeeAt(d, 2)
           u0 == Payer(d)
           b == PromiseEnded(books, d)
<1>1. /\ terms \in [Deals -> Terms] /\ assignment \in [Deals -> [Users -> Assignment]] /\ CutBounded
      /\ balance[d] \in Nat /\ balance[d] <= books.held /\ books.held \in Nat
      /\ x + y + z = balance[d] /\ promised[d] <= books.promisedTotal
  BY SolventMeansNoSurplus DEF CanSplit, LongstopOpen, LongstopSplit, Takes, BooksInv, TypeOK, Books
<1>2. b \in Books /\ Surplus(b) = 0 /\ b.held = books.held
  BY <1>1, PromiseEndedKeeps
<1>3. u0 \in Users /\ p1 \in Users /\ p2 \in Users
  <2>1. u0 \in Users /\ payees[d] \in Seq(Users)
    BY DEF CanSplit, LongstopOpen, LongstopSplit, BooksInv, TypeOK, PayerKnown
  <2> QED BY <2>1 DEF PayeeAt
<1>4. \A u \in Users : assignment[d][u].paid <= assignment[d][u].amount
  BY <1>1 DEF CutBounded
<1>5. PICK b0 \in PaidOut(b, d, u0, x) :
          \E b1 \in PaidOut(b0, d, p1, y) : books' \in PaidOut(b1, d, p2, z)
  BY DEF LongstopSplit
<1>6. PICK b1 \in PaidOut(b0, d, p1, y) : books' \in PaidOut(b1, d, p2, z)
  BY <1>5
<1>7. assignment' = AssigneePaid(AssigneePaid(assignment, d, p1, y), d, p2, z)
  BY DEF LongstopSplit
<1>8. p1 # p2 \/ z = 0
  <2>1. payees[d] \in Seq(Users) /\ z = PayeeAmount(d, 2, z)
    BY DEF LongstopSplit, BooksInv, TypeOK
  <2>2. CASE 2 <= Len(payees[d])
    BY <2>1, <2>2 DEF PayeeAt
  <2>3. CASE ~(2 <= Len(payees[d]))
    BY <2>1, <2>3 DEF PayeeAmount
  <2> QED BY <2>2, <2>3
<1> HIDE DEF b, p1, p2, u0
<1>9. b0 \in Books /\ Surplus(b0) = 0 /\ b0.held = b.held - x
  <2>1. x \in Nat /\ x <= b.held
    BY <1>1, <1>2
  <2> QED BY <1>1, <1>2, <1>3, <1>4, <1>5, <2>1, PaidOutKeeps
<1>10. b1 \in Books /\ Surplus(b1) = 0 /\ b1.held = b0.held - y
  <2>1. y <= b0.held
    BY <1>1, <1>2, <1>9
  <2> QED BY <1>1, <1>3, <1>4, <1>6, <1>9, <2>1, PaidOutKeeps
<1>11. books' \in Books /\ Surplus(books') = 0
  <2>1. z <= b1.held
    BY <1>1, <1>2, <1>9, <1>10
  <2> QED BY <1>1, <1>3, <1>4, <1>6, <1>10, <2>1, PaidOutKeeps
<1>12. Solvent'
  BY <1>11, NoSurplusMeansSolvent
<1>13. assignment' \in [Deals -> [Users -> Assignment]] /\ CutBounded'
  <2> DEFINE g == AssigneePaid(assignment, d, p1, y)
  <2>1. /\ g \in [Deals -> [Users -> Assignment]]
        /\ \A e \in Deals, v \in Users : g[e][v].paid <= g[e][v].amount
        /\ \A v \in Users : v # p1 => g[d][v] = assignment[d][v]
    <3>1. \A e \in Deals, v \in Users : assignment[e][v].paid <= assignment[e][v].amount
      BY <1>1 DEF CutBounded
    <3> HIDE DEF g
    <3>2. assignment[d][p1] = assignment[d][p1]
      OBVIOUS
    <3>3. /\ AssigneePaid(assignment, d, p1, y) \in [Deals -> [Users -> Assignment]]
          /\ \A e \in Deals, v \in Users :
                 AssigneePaid(assignment, d, p1, y)[e][v].paid <= AssigneePaid(assignment, d, p1, y)[e][v].amount
      BY <1>1, <1>3, <3>1, <3>2, AssigneePaidKeeps
    <3>4. \A v \in Users : v # p1 => AssigneePaid(assignment, d, p1, y)[d][v] = assignment[d][v]
      BY <1>1, <1>3 DEF AssigneePaid
    <3> QED BY <3>3, <3>4 DEF g
  <2>2. CASE p1 # p2
    <3>1. g[d][p2] = assignment[d][p2]
      BY <1>3, <2>1, <2>2
    <3> HIDE DEF g
    <3>2. /\ AssigneePaid(g, d, p2, z) \in [Deals -> [Users -> Assignment]]
          /\ \A e \in Deals, v \in Users :
                 AssigneePaid(g, d, p2, z)[e][v].paid <= AssigneePaid(g, d, p2, z)[e][v].amount
      BY <1>1, <1>3, <2>1, <3>1, AssigneePaidKeeps
    <3> QED BY <1>7, <3>2 DEF CutBounded, g
  <2>3. CASE z = 0
    <3> HIDE DEF g
    <3>1. AssigneeCut(d, p2, 0) = 0
      BY <1>1, <1>3 DEF AssigneeCut, AtMost, Assignment, CutBounded
    <3>2. AssigneePaid(g, d, p2, 0) = g
      BY <1>3, <2>1, <3>1 DEF AssigneePaid, Assignment
    <3> QED BY <1>7, <2>1, <2>3, <3>2 DEF CutBounded, g
  <2> QED BY <1>8, <2>2, <2>3
<1>14. /\ status' \in [Deals -> {"None", "Live", "Closed"}] /\ promised' \in [Deals -> Nat]
       /\ balance' \in [Deals -> Nat] /\ PayerKnown'
  BY DEF LongstopSplit, BooksInv, TypeOK, PayerKnown, Live, Payer
<1>15. pending' \subseteq Deals \X Users /\ written' \subseteq Deals \X Users
  BY DEF LongstopSplit, Record, Recordable, BooksInv, TypeOK
<1>16. TypeOK'
  <2>1. /\ horizon' \in [Deals -> Nat] /\ holdUntil' \in [Deals -> Nat] /\ holdUsed' \in [Deals -> Nat]
        /\ UNCHANGED <<now, hub, terms, payees, consent, funded, feePaid, nonceUsed>>
    BY DEF LongstopSplit, BooksInv, TypeOK, clockVars
  <2> QED BY <1>11, <1>13, <1>14, <1>15, <2>1 DEF BooksInv, TypeOK
<1>17. HoldUsedBounded'
  BY DEF LongstopSplit, BooksInv, HoldUsedBounded, clockVars
<1> QED BY <1>12, <1>13, <1>14, <1>16, <1>17 DEF BooksInv

\* Payouts signed over, signatures, the hub's switches and the clock.
LEMMA AssignmentSetKeepsBooks ==
    ASSUME BooksInv, NEW d \in Deals, NEW u \in Users, NEW g \in Assignment, g.paid <= g.amount,
           assignment' = [assignment EXCEPT ![d][u] = g], nonceUsed' \subseteq Users \X Nonces,
           UNCHANGED <<now, hub, dealVars, moneyVars, clockVars, books, recVars>>
    PROVE  BooksInv'
<1>1. assignment' \in [Deals -> [Users -> Assignment]] /\ CutBounded'
  BY DEF BooksInv, TypeOK, CutBounded
<1>2. TypeOK'
  BY <1>1 DEF BooksInv, TypeOK, dealVars, moneyVars, clockVars, recVars
<1> QED BY <1>1, <1>2
        DEF BooksInv, Solvent, HoldUsedBounded, PayerKnown, Live, Payer, dealVars, clockVars

LEMMA AssignsKeepsBooks ==
    ASSUME BooksInv, NEW d \in Deals, NEW u \in Users, NEW a \in Assignees, NEW x \in Amounts,
           Assigns(d, u, a, x), nonceUsed' \subseteq Users \X Nonces
    PROVE  BooksInv'
<1> DEFINE g == [assignee |-> a, amount |-> x, paid |-> 0]
<1>1. a \in Users /\ x \in Nat
  BY SettlementAssumption DEF Amounts
<1>2. g \in Assignment /\ g.paid <= g.amount
  BY <1>1 DEF Assignment
<1>3. /\ assignment' = [assignment EXCEPT ![d][u] = g]
      /\ UNCHANGED <<now, hub, dealVars, moneyVars, clockVars, books, recVars>>
  BY DEF Assigns
<1> HIDE DEF g
<1> QED BY <1>2, <1>3, AssignmentSetKeepsBooks

LEMMA PayoutAssignedKeepsBooks ==
    ASSUME BooksInv, NEW d \in Deals, NEW u \in Users, NEW a \in Assignees, NEW x \in Amounts,
           AssignPayout(d, u, a, x) \/ \E n \in Nonces : AssignBySignature(d, u, a, x, n)
    PROVE  BooksInv'
<1>1. nonceUsed \subseteq Users \X Nonces
  BY DEF BooksInv, TypeOK
<1>2. CASE AssignPayout(d, u, a, x)
  BY <1>1, <1>2, AssignsKeepsBooks DEF AssignPayout
<1>3. CASE \E n \in Nonces : AssignBySignature(d, u, a, x, n)
  <2>1. PICK n \in Nonces : AssignBySignature(d, u, a, x, n)
    BY <1>3
  <2>2. nonceUsed' = nonceUsed \cup {<<u, n>>} /\ <<u, n>> \in Users \X Nonces
    BY <2>1 DEF AssignBySignature
  <2> QED BY <1>1, <2>1, <2>2, AssignsKeepsBooks DEF AssignBySignature
<1> QED BY <1>2, <1>3

LEMMA ReleaseKeepsBooks ==
    ASSUME BooksInv, NEW d \in Deals, NEW u \in Users, ReleaseAssignment(d, u)
    PROVE  BooksInv'
<1>1. NoAssignment \in Assignment /\ NoAssignment.paid <= NoAssignment.amount
  BY DEF NoAssignment, Assignment
<1>2. /\ assignment' = [assignment EXCEPT ![d][u] = NoAssignment]
      /\ nonceUsed' \subseteq Users \X Nonces
      /\ UNCHANGED <<now, hub, dealVars, moneyVars, clockVars, books, recVars>>
  BY DEF ReleaseAssignment, BooksInv, TypeOK
<1> QED BY <1>1, <1>2, AssignmentSetKeepsBooks

\* A cancelled nonce is spent.
LEMMA CancelNonceKeepsBooks ==
    ASSUME BooksInv, NEW u \in Users, NEW n \in Nonces, CancelNonce(u, n)
    PROVE  BooksInv'
<1>1. nonceUsed \subseteq Users \X Nonces /\ <<u, n>> \in Users \X Nonces
  BY DEF BooksInv, TypeOK
<1>2. nonceUsed' \subseteq Users \X Nonces
  BY <1>1 DEF CancelNonce
<1> QED BY <1>2, BooksUnchanged
        DEF CancelNonce, BooksInv, TypeOK, dealVars, moneyVars, clockVars, recVars

LEMMA RebalanceKeepsBooks ==
    ASSUME BooksInv, RebalanceYield
    PROVE  BooksInv'
<1>1. books \in Books /\ Surplus(books) = 0
  BY SolventMeansNoSurplus
<1> DEFINE target == IF TakesPromised THEN ParkTarget(books) ELSE 0
<1>2. target \in Nat
  BY <1>1 DEF ParkTarget, AtMost, Books
<1>3. \/ /\ books.parked < target /\ target - books.parked <= books.cash
         /\ books' = [books EXCEPT !.parked = target, !.cash = @ - (target - books.parked)]
      \/ /\ books.parked > target
         /\ books' \in {r.books : r \in Pull(books, books.parked - target)}
  BY DEF RebalanceYield
<1> HIDE DEF target
<1>4. ASSUME books.parked < target, target - books.parked <= books.cash,
             books' = [books EXCEPT !.parked = target, !.cash = @ - (target - books.parked)]
      PROVE  books' \in Books /\ Surplus(books') = 0
  <2> DEFINE b1 == [books EXCEPT !.parked = target]
             rest == books.cash - (target - books.parked)
  <2>1. b1 \in Books /\ b1.cash = books.cash /\ rest \in Nat
    BY <1>1, <1>2, <1>4 DEF Books
  <2>2. books' = [b1 EXCEPT !.cash = rest]
    BY <1>1, <1>4, <2>1
  <2>3. books' \in Books
    <3> HIDE DEF b1, rest
    <3> QED BY <2>1, <2>2 DEF Books
  <2>4. Surplus(books') = 0
    BY <1>1, <1>2, <1>4 DEF Books, Surplus
  <2> QED BY <2>3, <2>4
<1>5. ASSUME books.parked > target, books' \in {r.books : r \in Pull(books, books.parked - target)}
      PROVE  books' \in Books /\ Surplus(books') = 0
  <2>1. books.parked - target \in Nat
    BY <1>1, <1>2, <1>5 DEF Books
  <2> QED BY <1>1, <1>5, <2>1, PullKeeps
<1>6. books' \in Books /\ Surplus(books') = 0
  BY <1>3, <1>4, <1>5
<1>7. Solvent'
  BY <1>6, NoSurplusMeansSolvent
<1> QED BY <1>6, <1>7
        DEF RebalanceYield, BooksInv, TypeOK, CutBounded, HoldUsedBounded, PayerKnown, Live, Payer,
            dealVars, moneyVars, clockVars, signVars, recVars

LEMMA HubAndClockKeepBooks ==
    ASSUME BooksInv, Governance \/ Tick
    PROVE  BooksInv'
<1>1. CASE Governance
  <2>1. hub \in Hub /\ TotalCaps \subseteq Nat
    BY SettlementAssumption DEF BooksInv, TypeOK
  <2>2. /\ hub' \in Hub
        /\ UNCHANGED <<now, dealVars, moneyVars, clockVars, signVars, books, recVars>>
    BY <1>1, <2>1 DEF Governance, PauseFamily, ResumeFamily, RetireFamily, RevokeFamily, SetAsset,
                      SetCaps, SetHub, Hub
  <2> QED BY <2>2, BooksUnchanged
          DEF BooksInv, TypeOK, dealVars, moneyVars, clockVars, signVars, recVars
<1>2. CASE Tick
  <2>1. now' \in Nat
    BY <1>2 DEF Tick, BooksInv, TypeOK
  <2> QED BY <1>2, <2>1, BooksUnchanged
          DEF Tick, BooksInv, TypeOK, dealVars, moneyVars, clockVars, signVars, recVars
<1> QED BY <1>1, <1>2

-----------------------------------------------------------------------------
(* The payees of a deal are distinct, so a long-stop pays no assignment twice. *)

PayeesDistinct ==
    \A d \in Deals : \A i, j \in 1..Len(payees[d]) : i # j => payees[d][i] # payees[d][j]

LEMMA PayeesStayDistinct ==
    ASSUME TypeOK, PayeesDistinct, [Next]_vars
    PROVE  PayeesDistinct'
<1>1. ASSUME UNCHANGED payees PROVE PayeesDistinct'
  BY <1>1 DEF PayeesDistinct
<1>2. ASSUME NEW d \in Deals, NEW payer, NEW list \in Lists, NEW h, NEW fee, NEW share, NEW cap,
             Open(d, payer, list, h, fee, share, cap)
      PROVE  PayeesDistinct'
  <2>1. /\ payees' = [payees EXCEPT ![d] = list] /\ DOMAIN payees = Deals
        /\ \A i, j \in 1..Len(list) : i # j => list[i] # list[j]
    BY <1>2 DEF Open, TypeOK
  <2>2. ASSUME NEW e \in Deals
        PROVE  \A i, j \in 1..Len(payees'[e]) : i # j => payees'[e][i] # payees'[e][j]
    <3>1. CASE e = d
      <4>1. payees'[e] = list
        BY <2>1, <3>1
      <4> QED BY <2>1, <4>1
    <3>2. CASE e # d
      <4>1. payees'[e] = payees[e]
        BY <2>1, <3>2
      <4> QED BY <4>1 DEF PayeesDistinct
    <3> QED BY <3>1, <3>2
  <2> QED BY <2>2 DEF PayeesDistinct
<1>3. ASSUME NEW d \in Deals, NEW u \in Payees, AddPayee(d, u)
      PROVE  PayeesDistinct'
  <2>1. payees[d] \in Seq(Users) /\ ~IsPayee(d, u)
    BY <1>3 DEF AddPayee, IsParty, TypeOK
  <2>2. \A i, j \in 1..Len(Append(payees[d], u)) :
            i # j => Append(payees[d], u)[i] # Append(payees[d], u)[j]
    BY <2>1 DEF IsPayee, PayeesDistinct
  <2>3. payees' = [payees EXCEPT ![d] = Append(payees[d], u)] /\ DOMAIN payees = Deals
    BY <1>3 DEF AddPayee, TypeOK
  <2>4. ASSUME NEW e \in Deals
        PROVE  \A i, j \in 1..Len(payees'[e]) : i # j => payees'[e][i] # payees'[e][j]
    <3>1. CASE e = d
      <4>1. payees'[e] = Append(payees[d], u)
        BY <2>3, <3>1
      <4> QED BY <2>2, <4>1
    <3>2. CASE e # d
      <4>1. payees'[e] = payees[e]
        BY <2>3, <3>2
      <4> QED BY <4>1 DEF PayeesDistinct
    <3> QED BY <3>1, <3>2
  <2> QED BY <2>4 DEF PayeesDistinct
<1>4. CASE UNCHANGED vars
  BY <1>1, <1>4 DEF vars, dealVars
<1>5. ASSUME NEW d \in Deals, FamilyStep(d)
      PROVE  PayeesDistinct'
  <2>1. CASE \E u \in Subjects : MarkConsent(d, u) \/ RecordOutcome(d, u)
    BY <1>1, <2>1 DEF MarkConsent, RecordOutcome, dealVars
  <2>2. CASE \E x \in Amounts : FundFresh(d, x) \/ FundPromised(d, x)
    BY <1>1, <2>2 DEF FundFresh, FundPromised, TakeIn, dealVars
  <2>3. CASE \E x \in Amounts : Pledge(d, x) \/ PayFee(d, x)
    BY <1>1, <2>3 DEF Pledge, PayFee, dealVars
  <2>4. CASE \E u \in Users, x \in Amounts : PayTo(d, u, x)
    BY <1>1, <2>4 DEF PayTo, dealVars
  <2>5. CASE Close(d) \/ \E h \in now + 1..now + MaxHorizon : ExtendHorizon(d, h)
    BY <1>1, <2>5 DEF Close, ExtendHorizon, dealVars
  <2> QED BY <1>2, <1>3, <1>5, <2>1, <2>2, <2>3, <2>4, <2>5 DEF FamilyStep
<1>6. ASSUME NEW d \in Deals, PublicStep(d)
      PROVE  PayeesDistinct'
  BY <1>1, <1>6
     DEF PublicStep, AssignPayout, AssignBySignature, Assigns, ReleaseAssignment, RetryRecord, Hold,
         ReleaseHold, LongstopSplit, dealVars
<1>7. CASE \/ \E u \in Users : WithdrawOwed(u)
           \/ \E u \in Users, n \in Nonces : CancelNonce(u, n)
           \/ RebalanceYield \/ Governance \/ Tick
  BY <1>1, <1>7
     DEF WithdrawOwed, CancelNonce, RebalanceYield, Governance, PauseFamily, ResumeFamily,
         RetireFamily, RevokeFamily, SetAsset, SetCaps, SetHub, Tick, dealVars
<1> QED BY <1>4, <1>5, <1>6, <1>7 DEF Next

-----------------------------------------------------------------------------
(* Every step keeps the books. *)

LEMMA BooksHoldAtFirst ==
    ASSUME Init
    PROVE  BooksInv /\ PayeesDistinct
<1>1. \A cap \in TotalCaps : cap \in Nat
  BY SettlementAssumption
<1>2. hub \in Hub
  BY <1>1 DEF Init, Hub
<1>3. books \in Books /\ Solvent
  BY SettlementAssumption DEF Init, Books, Solvent
<1>4. NoTerms \in Terms /\ NoAssignment \in Assignment /\ None \notin Users
  BY SettlementAssumption DEF NoTerms, Terms, NoAssignment, Assignment
<1>5. TypeOK
  BY <1>2, <1>3, <1>4 DEF Init, TypeOK
<1>6. CutBounded /\ PayerKnown
  BY DEF Init, CutBounded, NoAssignment, PayerKnown, Live
<1>7. HoldUsedBounded
  BY SettlementAssumption DEF Init, HoldUsedBounded
<1>8. PayeesDistinct
  BY DEF Init, PayeesDistinct
<1> QED BY <1>3, <1>5, <1>6, <1>7, <1>8 DEF BooksInv

LEMMA StepKeepsBooks ==
    ASSUME BooksInv, PayeesDistinct, [Next]_vars
    PROVE  BooksInv'
<1>1. ASSUME NEW d \in Deals, FamilyStep(d)
      PROVE  BooksInv'
  <2>1. \A x \in Amounts : x \in Nat
    BY SettlementAssumption DEF Amounts
  <2>2. CASE \E payer \in Payers, list \in Lists, h \in now + 1..now + MaxHorizon,
                fee \in FeeRates, share \in YieldShares, cap \in DealCaps :
                    Open(d, payer, list, h, fee, share, cap)
    BY <2>2, OpenKeepsBooks
  <2>3. CASE \E u \in Payees : AddPayee(d, u)
    BY <2>3, QuietKeepsBooks, SettlementAssumption
  <2>4. CASE \E u \in Subjects : MarkConsent(d, u) \/ RecordOutcome(d, u)
    BY <2>4, QuietKeepsBooks, SettlementAssumption
  <2>5. CASE \/ \E x \in Amounts : FundFresh(d, x) /\ funded'[d] <= MaxFunded
             \/ \E x \in Amounts : FundPromised(d, x) /\ funded'[d] <= MaxFunded
    BY <2>5, FundKeepsBooks
  <2>6. CASE \E x \in Amounts : Pledge(d, x) \/ PayFee(d, x)
    BY <2>1, <2>6, PledgeKeepsBooks, PayFeeKeepsBooks
  <2>7. CASE \E u \in Users, x \in Amounts : PayTo(d, u, x)
    BY <2>1, <2>7, PayToKeepsBooks
  <2>8. CASE Close(d)
    BY <2>8, CloseKeepsBooks
  <2>9. CASE \E h \in now + 1..now + MaxHorizon : ExtendHorizon(d, h)
    BY <2>9, QuietKeepsBooks, SettlementAssumption
  <2> QED BY <1>1, <2>2, <2>3, <2>4, <2>5, <2>6, <2>7, <2>8, <2>9 DEF FamilyStep
<1>2. ASSUME NEW d \in Deals, PublicStep(d)
      PROVE  BooksInv'
  <2>1. CASE \E u \in Users, a \in Assignees, x \in Amounts : AssignPayout(d, u, a, x)
    BY <2>1, PayoutAssignedKeepsBooks
  <2>2. CASE \E u \in Users, a \in Assignees, x \in Amounts, n \in Nonces : AssignBySignature(d, u, a, x, n)
    BY <2>2, PayoutAssignedKeepsBooks
  <2>3. CASE \E u \in Users : ReleaseAssignment(d, u) \/ RetryRecord(d, u)
    BY <2>3, QuietKeepsBooks, ReleaseKeepsBooks
  <2>4. CASE Hold(d) \/ ReleaseHold(d)
    BY <2>4, QuietKeepsBooks, SettlementAssumption
  <2>5. CASE \E x, y, z \in 0..MaxAmount : LongstopSplit(d, x, y, z)
    <3>1. PICK x \in 0..MaxAmount, y \in 0..MaxAmount, z \in 0..MaxAmount : LongstopSplit(d, x, y, z)
      BY <2>5
    <3>2. x \in Nat /\ y \in Nat /\ z \in Nat
      BY SettlementAssumption
    <3> QED BY <3>1, <3>2, LongstopKeepsBooks DEF PayeesDistinct
  <2> QED BY <1>2, <2>1, <2>2, <2>3, <2>4, <2>5 DEF PublicStep
<1>3. CASE UNCHANGED vars
  BY <1>3, BooksUnchanged
     DEF vars, BooksInv, TypeOK, dealVars, moneyVars, clockVars, signVars, recVars
<1>4. CASE \/ \E u \in Users : WithdrawOwed(u)
           \/ \E u \in Users, n \in Nonces : CancelNonce(u, n)
           \/ RebalanceYield \/ Governance \/ Tick
  BY <1>4, WithdrawOwedKeepsBooks, CancelNonceKeepsBooks, RebalanceKeepsBooks, HubAndClockKeepBooks
<1> QED BY <1>1, <1>2, <1>3, <1>4 DEF Next

\* In every family, whatever it does with its deals, the books are typed and balance at every step.
THEOREM BooksAlwaysKept == Spec => [](BooksInv /\ PayeesDistinct)
<1>1. Init => BooksInv /\ PayeesDistinct
  BY BooksHoldAtFirst
<1>2. BooksInv /\ PayeesDistinct /\ [Next]_vars => (BooksInv /\ PayeesDistinct)'
  BY StepKeepsBooks, PayeesStayDistinct DEF BooksInv
<1> QED BY <1>1, <1>2, PTL DEF Spec

\* Every variable keeps its type.
THEOREM TypesHold == Spec => []TypeOK
<1>1. BooksInv => TypeOK
  BY DEF BooksInv
<1> QED BY <1>1, BooksAlwaysKept, PTL

\* S1, for any number of deals and any answers of the token and the pool: what the escrow has in
\* cash and in the pool is what its deals and its owed payouts are due.
THEOREM AlwaysSolvent == Spec => []Solvent
<1>1. BooksInv => Solvent
  BY DEF BooksInv
<1> QED BY <1>1, BooksAlwaysKept, PTL

-----------------------------------------------------------------------------
(* The fee a deal may come to. *)

\* More money in never lowers what the fee may come to.
LEMMA ShareMonotone ==
    ASSUME NEW x \in Nat, NEW y \in Nat, NEW r \in Nat, x <= y
    PROVE  ShareOf(x, r) <= ShareOf(y, r)
<1>1. x * r <= y * r /\ x * r \in Nat /\ y * r \in Nat
  OBVIOUS
<1>2. BPS \in Nat /\ BPS > 0
  BY SettlementAssumption
<1> DEFINE p == x * r
           q == y * r
<1>3. p \in Nat /\ q \in Nat /\ p <= q
  BY <1>1
<1> HIDE DEF p, q
<1>4. p \div BPS <= q \div BPS
  BY <1>2, <1>3, QuotientMonotone
<1> QED BY <1>4 DEF p, q, ShareOf

-----------------------------------------------------------------------------
(* One invariant for a deal's money. *)

\* Money in a deal is what entered and has not left; the fee is part of what left.
Accounted == \A d \in Deals : balance[d] + feePaid[d] <= funded[d]

\* A deal nobody opened has no history.
Untouched == \A d \in Deals : status[d] = "None" => funded[d] = 0 /\ feePaid[d] = 0

FeeBounded == \A d \in Deals : feePaid[d] <= ShareOf(funded[d], terms[d].feeBps)

DealInv == WithinDealCap /\ ClosedIsEmpty /\ Accounted /\ Untouched /\ FeeBounded

\* The invariant of one deal: DealInv says it of each.
DealOK(d) ==
    /\ balance[d] + promised[d] <= terms[d].cap
    /\ status[d] # "Live" => balance[d] = 0 /\ promised[d] = 0
    /\ balance[d] + feePaid[d] <= funded[d]
    /\ status[d] = "None" => funded[d] = 0 /\ feePaid[d] = 0
    /\ feePaid[d] <= ShareOf(funded[d], terms[d].feeBps)

LEMMA DealInvIsDealOK == DealInv <=> \A d \in Deals : DealOK(d)
BY DEF DealInv, DealOK, WithinDealCap, ClosedIsEmpty, Accounted, Untouched, FeeBounded

\* The types the steps below need, of one deal.
DealTyped(d) ==
    /\ status[d] \in {"None", "Live", "Closed"} /\ terms[d] \in Terms
    /\ funded[d] \in Nat /\ balance[d] \in Nat /\ feePaid[d] \in Nat /\ promised[d] \in Nat

LEMMA TypedDeals ==
    ASSUME TypeOK, NEW d \in Deals
    PROVE  DealTyped(d)
BY DEF TypeOK, DealTyped

\* A deal whose money, status and terms do not change stays as it is.
SameDeal(d) ==
    /\ status'[d] = status[d] /\ terms'[d] = terms[d]
    /\ funded'[d] = funded[d] /\ balance'[d] = balance[d]
    /\ feePaid'[d] = feePaid[d] /\ promised'[d] = promised[d]

LEMMA SameDealOK ==
    ASSUME NEW d \in Deals, DealOK(d), SameDeal(d)
    PROVE  DealOK(d)'
BY DEF DealOK, SameDeal

\* What a step may do to one deal's money: open it, take fresh or promised money, promise, pay a
\* party, pay the fee, or close it with nothing left.
OpensDeal(d) ==
    /\ status[d] = "None" /\ status'[d] = "Live" /\ terms'[d] \in Terms
    /\ funded'[d] = funded[d] /\ balance'[d] = balance[d]
    /\ feePaid'[d] = feePaid[d] /\ promised'[d] = promised[d]

FundsDeal(d, x) ==
    /\ Live(d) /\ status'[d] = status[d] /\ terms'[d] = terms[d] /\ feePaid'[d] = feePaid[d]
    /\ funded'[d] = funded[d] + x /\ balance'[d] = balance[d] + x
    /\ \/ promised[d] = 0 /\ promised'[d] = 0 /\ FitsDeal(d, x)
       \/ x <= promised[d] /\ promised'[d] = promised[d] - x

PledgesDeal(d, x) ==
    /\ Live(d) /\ status'[d] = status[d] /\ terms'[d] = terms[d] /\ feePaid'[d] = feePaid[d]
    /\ funded'[d] = funded[d] /\ balance'[d] = balance[d]
    /\ promised'[d] = x /\ FitsDeal(d, x)

PaysDeal(d, x, fee) ==
    /\ status'[d] = status[d] /\ terms'[d] = terms[d]
    /\ funded'[d] = funded[d] /\ promised'[d] = promised[d]
    /\ x > 0 /\ x <= balance[d] /\ balance'[d] = balance[d] - x
    /\ feePaid'[d] = feePaid[d] + fee /\ fee <= x /\ (fee = 0 \/ fee <= FeeLeft(d))

ClosesDeal(d) ==
    /\ Live(d) /\ status'[d] = "Closed" /\ terms'[d] = terms[d]
    /\ funded'[d] = funded[d] /\ feePaid'[d] = feePaid[d]
    /\ balance'[d] = 0 /\ promised'[d] = 0

DealStep(d) ==
    \/ SameDeal(d) \/ OpensDeal(d) \/ ClosesDeal(d)
    \/ \E x \in Amounts : FundsDeal(d, x) \/ PledgesDeal(d, x)
    \/ \E x \in Amounts, fee \in Nat : PaysDeal(d, x, fee)

LEMMA DealStepKeeps ==
    ASSUME NEW d \in Deals, DealTyped(d), DealOK(d), DealStep(d)
    PROVE  DealOK(d)'
<1>1. \A x \in Amounts : x \in Nat /\ x > 0
  BY SettlementAssumption DEF Amounts
<1>2. CASE SameDeal(d)
  BY <1>2, SameDealOK
<1>3. CASE OpensDeal(d)
  <2>1. ShareOf(0, terms'[d].feeBps) \in Nat
    BY <1>3, ShareIsNat DEF OpensDeal, Terms
  <2> QED BY <1>3, <2>1 DEF OpensDeal, DealOK, Terms
<1>4. CASE ClosesDeal(d)
  BY <1>4 DEF ClosesDeal, DealOK, DealTyped, Terms, Live
<1>5. CASE \E x \in Amounts : FundsDeal(d, x)
  <2>1. PICK x \in Amounts : FundsDeal(d, x)
    BY <1>5
  <2>2. /\ ShareOf(funded[d], terms[d].feeBps) <= ShareOf(funded[d] + x, terms[d].feeBps)
        /\ ShareOf(funded[d], terms[d].feeBps) \in Nat
        /\ ShareOf(funded[d] + x, terms[d].feeBps) \in Nat
    <3>1. /\ funded[d] \in Nat /\ funded[d] + x \in Nat /\ funded[d] <= funded[d] + x
          /\ terms[d].feeBps \in Nat
      BY <1>1 DEF DealTyped, Terms
    <3> QED BY <3>1, ShareMonotone, ShareIsNat
  <2> QED BY <1>1, <2>1, <2>2 DEF FundsDeal, DealOK, DealTyped, Terms, Live, FitsDeal
<1>6. CASE \E x \in Amounts : PledgesDeal(d, x)
  BY <1>1, <1>6 DEF PledgesDeal, DealOK, DealTyped, Terms, Live, FitsDeal
<1>7. CASE \E x \in Amounts, fee \in Nat : PaysDeal(d, x, fee)
  <2>1. PICK x \in Amounts, fee \in Nat : PaysDeal(d, x, fee)
    BY <1>7
  <2>2. ShareOf(funded[d], terms[d].feeBps) \in Nat
    BY ShareIsNat DEF DealTyped, Terms
  <2> QED BY <1>1, <2>1, <2>2 DEF PaysDeal, DealOK, DealTyped, Terms, Live, FeeLeft
<1> QED BY <1>2, <1>3, <1>4, <1>5, <1>6, <1>7 DEF DealStep

\* Every step of the family is one of these for every deal.
LEMMA FamilyStepIsDealStep ==
    ASSUME TypeOK, NEW d \in Deals, NEW e \in Deals, FamilyStep(e)
    PROVE  DealStep(d)
<1>1. \A x \in Amounts : x \in Nat /\ x > 0
  BY SettlementAssumption DEF Amounts
<1>2. ASSUME NEW payer \in Payers, NEW list \in Lists, NEW h, NEW fee \in FeeRates,
             NEW share \in YieldShares, NEW cap \in DealCaps,
             Open(e, payer, list, h, fee, share, cap)
      PROVE  DealStep(d)
  <2>1. [payer |-> payer, feeBps |-> fee, cap |-> cap,
         yieldBps |-> IF h >= now + MinYieldTerm THEN share ELSE 0] \in Terms
    BY SettlementAssumption DEF Terms
  <2>2. CASE d = e
    <3>1. OpensDeal(d)
      BY <1>2, <2>1, <2>2 DEF Open, TypeOK, OpensDeal, moneyVars
    <3> QED BY <3>1 DEF DealStep
  <2>3. CASE d # e
    <3>1. SameDeal(d)
      BY <1>2, <2>3 DEF Open, TypeOK, SameDeal, moneyVars
    <3> QED BY <3>1 DEF DealStep
  <2> QED BY <2>2, <2>3
<1>3. ASSUME NEW x \in Amounts, FundFresh(e, x) \/ FundPromised(e, x)
      PROVE  DealStep(d)
  <2>1. CASE d = e
    <3>1. FundsDeal(d, x)
      BY <1>1, <1>3, <2>1 DEF CanTakePromised, FundFresh, FundPromised, TakeIn, TypeOK, FundsDeal, dealVars
    <3> QED BY <3>1 DEF DealStep
  <2>2. CASE d # e
    <3>1. SameDeal(d)
      BY <1>3, <2>2 DEF FundFresh, FundPromised, TakeIn, TypeOK, SameDeal, dealVars
    <3> QED BY <3>1 DEF DealStep
  <2> QED BY <2>1, <2>2
<1>4. ASSUME NEW x \in Amounts, Pledge(e, x)
      PROVE  DealStep(d)
  <2>1. CASE d = e
    <3>1. PledgesDeal(d, x)
      BY <1>4, <2>1 DEF Pledge, TypeOK, PledgesDeal, dealVars
    <3> QED BY <3>1 DEF DealStep
  <2>2. CASE d # e
    <3>1. SameDeal(d)
      BY <1>4, <2>2 DEF Pledge, TypeOK, SameDeal, dealVars
    <3> QED BY <3>1 DEF DealStep
  <2> QED BY <2>1, <2>2
<1>5. ASSUME NEW x \in Amounts, PayFee(e, x) \/ \E u \in Users : PayTo(e, u, x)
      PROVE  DealStep(d)
  <2>1. CASE d = e /\ PayFee(e, x)
    <3>1. PaysDeal(d, x, x)
      BY <1>1, <2>1 DEF PayFee, Takes, TypeOK, PaysDeal, dealVars
    <3> QED BY <1>1, <3>1 DEF DealStep
  <2>2. CASE d = e /\ \E u \in Users : PayTo(e, u, x)
    <3>1. PaysDeal(d, x, 0)
      BY <1>1, <2>2 DEF CanPayTo, PayTo, Takes, TypeOK, PaysDeal, dealVars
    <3> QED BY <1>1, <3>1 DEF DealStep
  <2>3. CASE d # e
    <3>1. SameDeal(d)
      BY <1>5, <2>3 DEF PayFee, PayTo, TypeOK, SameDeal, dealVars
    <3> QED BY <3>1 DEF DealStep
  <2> QED BY <1>5, <2>1, <2>2, <2>3
<1>6. CASE Close(e)
  <2>1. CASE d = e
    <3>1. ClosesDeal(d)
      BY <1>6, <2>1 DEF CanClose, Close, TypeOK, ClosesDeal
    <3> QED BY <3>1 DEF DealStep
  <2>2. CASE d # e
    <3>1. SameDeal(d)
      BY <1>6, <2>2 DEF Close, TypeOK, SameDeal
    <3> QED BY <3>1 DEF DealStep
  <2> QED BY <2>1, <2>2
<1>7. CASE \/ \E u \in Payees : AddPayee(e, u)
           \/ \E u \in Subjects : MarkConsent(e, u) \/ RecordOutcome(e, u)
           \/ \E h \in now + 1..now + MaxHorizon : ExtendHorizon(e, h)
  <2>1. SameDeal(d)
    BY <1>7 DEF AddPayee, MarkConsent, RecordOutcome, ExtendHorizon, SameDeal, dealVars, moneyVars
  <2> QED BY <2>1 DEF DealStep
<1>8. CASE \E payer \in Payers, list \in Lists, h \in now + 1..now + MaxHorizon,
              fee \in FeeRates, share \in YieldShares, cap \in DealCaps :
                  Open(e, payer, list, h, fee, share, cap)
  BY <1>2, <1>8
<1>9. CASE \/ \E x \in Amounts : FundFresh(e, x) /\ funded'[e] <= MaxFunded
           \/ \E x \in Amounts : FundPromised(e, x) /\ funded'[e] <= MaxFunded
  BY <1>3, <1>9
<1>10. CASE \/ \E x \in Amounts : Pledge(e, x) \/ PayFee(e, x)
            \/ \E u \in Users, x \in Amounts : PayTo(e, u, x)
  BY <1>4, <1>5, <1>10
<1> QED BY <1>6, <1>7, <1>8, <1>9, <1>10 DEF FamilyStep

LEMMA NextIsDealStep ==
    ASSUME TypeOK, NEW d \in Deals, [Next]_vars
    PROVE  DealStep(d)
<1>1. ASSUME SameDeal(d) PROVE DealStep(d)
  BY <1>1 DEF DealStep
<1>2. ASSUME NEW e \in Deals, PublicStep(e)
      PROVE  DealStep(d)
  <2>1. CASE \E x, y, z \in 0..MaxAmount : LongstopSplit(e, x, y, z)
    <3>1. CASE d = e
      <4>1. ClosesDeal(d)
        BY <2>1, <3>1 DEF CanSplit, LongstopOpen, LongstopSplit, TypeOK, ClosesDeal
      <4> QED BY <4>1 DEF DealStep
    <3>2. CASE d # e
      <4>1. SameDeal(d)
        BY <2>1, <3>2 DEF LongstopSplit, TypeOK, SameDeal
      <4> QED BY <4>1, <1>1
    <3> QED BY <3>1, <3>2
  <2>2. CASE ~\E x, y, z \in 0..MaxAmount : LongstopSplit(e, x, y, z)
    <3>1. SameDeal(d)
      BY <1>2, <2>2
         DEF PublicStep, AssignPayout, AssignBySignature, Assigns, ReleaseAssignment, RetryRecord,
             Hold, ReleaseHold, SameDeal, dealVars, moneyVars
    <3> QED BY <3>1, <1>1
  <2> QED BY <2>1, <2>2
<1>3. CASE \/ \E u \in Users : WithdrawOwed(u)
           \/ \E u \in Users, n \in Nonces : CancelNonce(u, n)
           \/ RebalanceYield \/ Governance \/ Tick \/ UNCHANGED vars
  <2>1. SameDeal(d)
    BY <1>3
       DEF WithdrawOwed, CancelNonce, RebalanceYield, Governance, PauseFamily, ResumeFamily,
           RetireFamily, RevokeFamily, SetAsset, SetCaps, SetHub, Tick, vars, SameDeal, dealVars,
           moneyVars
  <2> QED BY <2>1, <1>1
<1> QED BY <1>2, <1>3, FamilyStepIsDealStep DEF Next

LEMMA DealsHoldAtFirst ==
    ASSUME Init
    PROVE  DealInv
<1>1. \A d \in Deals : ShareOf(0, terms[d].feeBps) \in Nat
  BY ShareIsNat DEF Init, NoTerms
<1>2. \A d \in Deals : DealOK(d)
  BY <1>1 DEF Init, DealOK, NoTerms
<1> QED BY <1>2, DealInvIsDealOK

LEMMA StepKeepsDeals ==
    ASSUME TypeOK, DealInv, [Next]_vars
    PROVE  DealInv'
<1>1. ASSUME NEW d \in Deals PROVE DealOK(d)'
  BY <1>1, DealInvIsDealOK, TypedDeals, NextIsDealStep, DealStepKeeps
<1>2. DealInv' <=> \A d \in Deals : DealOK(d)'
  BY DEF DealInv, DealOK, WithinDealCap, ClosedIsEmpty, Accounted, Untouched, FeeBounded
<1> QED BY <1>1, <1>2

\* Every deal's own account keeps its invariant: cap, emptiness once closed, fee within its rate.
THEOREM DealsAlwaysKept == Spec => []DealInv
<1>1. TypeOK /\ DealInv /\ [Next]_vars => DealInv'
  BY StepKeepsDeals
<1> QED BY <1>1, DealsHoldAtFirst, TypesHold, PTL DEF Spec

\* A deal never holds, with what is promised to it, more than the cap it copied at opening.
THEOREM CapsHold == Spec => []WithinDealCap
<1>1. DealInv => WithinDealCap
  BY DEF DealInv
<1> QED BY <1>1, DealsAlwaysKept, PTL

\* A closed deal holds nothing and is promised nothing.
THEOREM ClosedDealsAreEmpty == Spec => []ClosedIsEmpty
<1>1. DealInv => ClosedIsEmpty
  BY DEF DealInv
<1> QED BY <1>1, DealsAlwaysKept, PTL

\* No deal pays more fee than the rate it opened with, no assignee gets more than was signed over.
THEOREM FeesAndCutsBounded == Spec => []FeeAndCutBounded
<1>1. DealInv /\ BooksInv => FeeAndCutBounded
  BY DEF DealInv, FeeBounded, BooksInv, CutBounded, FeeAndCutBounded
<1> QED BY <1>1, DealsAlwaysKept, BooksAlwaysKept, PTL

-----------------------------------------------------------------------------
(* Every deal's account implements DealAccount. *)

LEMMA DealStepIsAccountStep ==
    ASSUME NEW d \in Deals, DealTyped(d), DealOK(d), DealOK(d)', DealStep(d)
    PROVE  [Account(d)!Next]_(Account(d)!accountVars)
<1>1. \A x \in Amounts : x \in Nat /\ x > 0
  BY SettlementAssumption DEF Amounts
<1>2. CASE SameDeal(d)
  BY <1>2 DEF SameDeal, Account!accountVars
<1>3. CASE OpensDeal(d)
  <2>1. Account(d)!Opens
    BY <1>3 DEF OpensDeal, DealOK, DealTyped, Account!Opens
  <2> QED BY <2>1 DEF Account!Next
<1>4. CASE ClosesDeal(d)
  <2>1. Account(d)!PaysOut
    BY <1>4 DEF ClosesDeal, DealOK, DealTyped, Live, Account!PaysOut, Account!FeeLimit, ShareOf
  <2> QED BY <2>1 DEF Account!Next
<1>5. CASE \E x \in Amounts : FundsDeal(d, x)
  <2>1. Account(d)!TakesMoney
    BY <1>1, <1>5 DEF FundsDeal, DealTyped, Live, Account!TakesMoney
  <2> QED BY <2>1 DEF Account!Next
<1>6. CASE \E x \in Amounts : PledgesDeal(d, x)
  BY <1>6 DEF PledgesDeal, Account!accountVars
<1>7. CASE \E x \in Amounts, fee \in Nat : PaysDeal(d, x, fee)
  <2>1. PICK x \in Amounts, fee \in Nat : PaysDeal(d, x, fee)
    BY <1>7
  <2>2. status[d] = "Live"
    BY <1>1, <2>1 DEF PaysDeal, DealOK, DealTyped
  <2>3. Account(d)!PaysOut
    BY <1>1, <2>1, <2>2 DEF PaysDeal, DealOK, DealTyped, Account!PaysOut, Account!FeeLimit, ShareOf
  <2> QED BY <2>3 DEF Account!Next
<1> QED BY <1>2, <1>3, <1>4, <1>5, <1>6, <1>7 DEF DealStep

\* Whatever the family does, every deal of Settlement is an account as DealAccount describes it.
THEOREM DealsImplementAccounts == Spec => DealsAreAccounts
<1>1. Init => \A d \in Deals : Account(d)!Init
  BY DEF Init, Account!Init
<1>2. ASSUME TypeOK, DealInv, DealInv', [Next]_vars
      PROVE  [\A d \in Deals : [Account(d)!Next]_(Account(d)!accountVars)]_vars
  <2>1. ASSUME NEW d \in Deals
        PROVE  [Account(d)!Next]_(Account(d)!accountVars)
    <3>1. DealOK(d) /\ DealOK(d)'
      BY <1>2 DEF DealInv, DealOK, WithinDealCap, ClosedIsEmpty, Accounted, Untouched, FeeBounded
    <3> QED BY <1>2, <3>1, TypedDeals, NextIsDealStep, DealStepIsAccountStep
  <2> QED BY <2>1
<1> QED BY <1>1, <1>2, TypesHold, DealsAlwaysKept, PTL DEF Spec, DealsAreAccounts

-----------------------------------------------------------------------------
(* The totals: each is the sum of what it totals. *)

\* What is owed in total is the sum of what is owed to each.
OwedAddsUp(b) == b.owedTotal = Total(b.owed)

LEMMA TotalIsSum ==
    ASSUME NEW S, NEW f \in [S -> Nat]
    PROVE  Total(f) = SumOn(f, S)
BY DEF Total, SumOn, FoldFunction, FoldFunctionOnSet, MapThenFoldSet

\* One deal's or one user's amount moves: the total moves with it.
LEMMA TotalChange ==
    ASSUME NEW S, IsFiniteSet(S), NEW f \in [S -> Nat], NEW g \in [S -> Nat], NEW x \in S,
           \A y \in S : y # x => g[y] = f[y]
    PROVE  Total(f) \in Nat /\ Total(g) = Total(f) + (g[x] - f[x])
<1>1. Total(f) = SumOn(f, S) /\ Total(g) = SumOn(g, S)
  BY TotalIsSum
<1>2. SumOn(f, S) \in Nat
  BY SumNat
<1>3. SumOn(g, S) = SumOn(f, S) + (g[x] - f[x])
  <2>1. \A y \in S : f[y] \in Int /\ g[y] \in Int
    OBVIOUS
  <2> QED BY <2>1, SumChange
<1> QED BY <1>1, <1>2, <1>3

\* What a user can call their own in books b, and what two books that owe and gave the same share.
ClaimIn(b, v) == b.wallet[v] + b.owed[v]
SameClaims(b, c) == c.owed = b.owed /\ c.owedTotal = b.owedTotal /\ c.wallet = b.wallet

LEMMA PullSameClaims ==
    ASSUME NEW b \in Books, NEW amount \in Nat, NEW r \in Pull(b, amount)
    PROVE  SameClaims(b, r.books)
<1>1. CASE r = [ok |-> FALSE, books |-> b]
  BY <1>1 DEF SameClaims
<1>2. CASE r = [ok |-> TRUE, books |-> [b EXCEPT !.parked = @ - amount, !.cash = @ + amount]]
  <2>1. r.books = [b EXCEPT !.parked = @ - amount, !.cash = @ + amount]
    BY <1>2
  <2> QED BY <2>1 DEF SameClaims, Books
<1> QED BY <1>1, <1>2 DEF Pull

LEMMA LiquidSameClaims ==
    ASSUME NEW b \in Books, NEW amount \in Nat, NEW r \in Liquid(b, amount)
    PROVE  SameClaims(b, r.books)
<1>1. CASE b.cash >= amount
  BY <1>1 DEF Liquid, SameClaims
<1>2. CASE ~(b.cash >= amount)
  <2>1. amount - b.cash \in Nat /\ r \in Pull(b, amount - b.cash)
    BY <1>2 DEF Liquid, Books
  <2> QED BY <2>1, PullSameClaims
<1> QED BY <1>1, <1>2

LEMMA TakenSameClaims ==
    ASSUME NEW b \in Books, NEW d, NEW amount
    PROVE  SameClaims(b, Taken(b, d, amount))
BY DEF Taken, SameClaims, Books

LEMMA TrimSameClaims ==
    ASSUME NEW b \in Books, NEW d, NEW c \in Trim(b, d)
    PROVE  SameClaims(b, c)
<1>1. CASE c = b
  BY <1>1 DEF SameClaims
<1>2. CASE b.parked > ParkTarget(b) /\ \E r \in Pull(b, b.parked - ParkTarget(b)) : c = r.books
  <2>1. b.parked - ParkTarget(b) \in Nat
    BY <1>2 DEF Books, ParkTarget, AtMost
  <2> QED BY <1>2, <2>1, PullSameClaims
<1> QED BY <1>1, <1>2 DEF Trim

\* A claim grows by what its owner is given.
Gives(b, c, to, amount) ==
    \A v \in Users : ClaimIn(c, v) = ClaimIn(b, v) + IF v = to THEN amount ELSE 0

LEMMA CreditedClaims ==
    ASSUME NEW b \in Books, NEW to \in Users, NEW amount \in Nat, OwedAddsUp(b)
    PROVE  OwedAddsUp(Credited(b, to, amount)) /\ Gives(b, Credited(b, to, amount), to, amount)
<1> DEFINE f == b.owed
           g == [f EXCEPT ![to] = @ + amount]
           c == Credited(b, to, amount)
<1>1. f \in [Users -> Nat] /\ b.owedTotal \in Nat /\ b.wallet \in [Users -> Nat]
  BY DEF Books
<1>2. c.owed = g /\ c.owedTotal = b.owedTotal + amount /\ c.wallet = b.wallet
  BY DEF Credited, Books
<1> HIDE DEF c, f
<1>3. g \in [Users -> Nat] /\ g[to] = f[to] + amount /\ \A v \in Users : v # to => g[v] = f[v]
  BY <1>1
<1>4. Total(g) = Total(f) + amount
  <2>1. Total(f) \in Nat /\ Total(g) = Total(f) + (g[to] - f[to])
    <3>1. IsFiniteSet(Users)
      BY SettlementAssumption
    <3> HIDE DEF g
    <3> QED BY <1>1, <1>3, <3>1, TotalChange
  <2> QED BY <1>1, <1>3, <2>1
<1>5. OwedAddsUp(c)
  BY <1>2, <1>4 DEF OwedAddsUp, f
<1>6. Gives(b, c, to, amount)
  <2> HIDE DEF g
  <2> QED BY <1>1, <1>2, <1>3 DEF Gives, ClaimIn, f
<1> QED BY <1>5, <1>6 DEF c

LEMMA TransferredClaims ==
    ASSUME NEW b \in Books, NEW to \in Users, NEW amount \in Nat, OwedAddsUp(b)
    PROVE  OwedAddsUp(Transferred(b, to, amount)) /\ Gives(b, Transferred(b, to, amount), to, amount)
<1> DEFINE c == Transferred(b, to, amount)
<1>1. /\ c.owed = b.owed /\ c.owedTotal = b.owedTotal
      /\ c.wallet = [b.wallet EXCEPT ![to] = @ + amount]
      /\ b.wallet \in [Users -> Nat] /\ b.owed \in [Users -> Nat]
  BY DEF Transferred, Books
<1> HIDE DEF c
<1>2. Gives(b, c, to, amount)
  BY <1>1 DEF Gives, ClaimIn
<1>3. OwedAddsUp(c)
  BY <1>1 DEF OwedAddsUp
<1> QED BY <1>2, <1>3 DEF c

LEMMA DeliverClaims ==
    ASSUME NEW b \in Books, NEW to, NEW amount \in Nat, amount # 0 => to \in Users, OwedAddsUp(b),
           NEW c \in Deliver(b, to, amount)
    PROVE  OwedAddsUp(c) /\ Gives(b, c, to, amount)
<1>1. CASE amount = 0
  <2>1. c = b /\ \A v \in Users : ClaimIn(b, v) \in Nat
    BY <1>1 DEF Deliver, ClaimIn, Books
  <2> QED BY <1>1, <2>1 DEF Gives
<1>2. CASE amount # 0
  <2>1. PICK r \in Liquid(b, amount) :
            \/ c = Credited(r.books, to, amount)
            \/ r.ok /\ c = Transferred(r.books, to, amount)
    BY <1>2 DEF Deliver
  <2>2. r.books \in Books /\ SameClaims(b, r.books)
    BY LiquidKeeps, LiquidSameClaims
  <2>3. to \in Users /\ OwedAddsUp(r.books)
    BY <1>2, <2>2 DEF OwedAddsUp, SameClaims
  <2>4. OwedAddsUp(c) /\ Gives(r.books, c, to, amount)
    BY <2>1, <2>2, <2>3, CreditedClaims, TransferredClaims
  <2>5. Gives(b, c, to, amount)
    BY <2>2, <2>4 DEF Gives, ClaimIn, SameClaims
  <2> QED BY <2>4, <2>5
<1> QED BY <1>1, <1>2

\* What user v receives of a payout of `amount` to party u of deal d.
Receives(d, u, amount, v) ==
    (IF v = u THEN amount - AssigneeCut(d, u, amount) ELSE 0)
    + (IF v = assignment[d][u].assignee THEN AssigneeCut(d, u, amount) ELSE 0)

\* A payout gives the assignee its cut and the party the rest.
LEMMA PaidOutClaims ==
    ASSUME terms \in [Deals -> Terms], assignment \in [Deals -> [Users -> Assignment]],
           NEW d \in Deals, NEW u \in Users, assignment[d][u].paid <= assignment[d][u].amount,
           NEW b \in Books, NEW amount \in Nat, amount <= b.held, OwedAddsUp(b),
           NEW c \in PaidOut(b, d, u, amount)
    PROVE  /\ OwedAddsUp(c)
           /\ AssigneeCut(d, u, amount) \in 0..amount
           /\ AssigneeCut(d, u, amount) # 0 => assignment[d][u].assignee \in Users
           /\ \A v \in Users : /\ Receives(d, u, amount, v) \in 0..amount
                               /\ ClaimIn(c, v) = ClaimIn(b, v) + Receives(d, u, amount, v)
<1> DEFINE cut == AssigneeCut(d, u, amount)
           to == assignment[d][u].assignee
<1>1. cut \in Nat /\ amount - cut \in Nat /\ cut <= amount /\ (cut # 0 => to \in Users)
  BY DEF AssigneeCut, AtMost, Assignment
<1>2. \A v \in Users : ClaimIn(b, v) \in Nat
  BY DEF ClaimIn, Books
<1>3. \A v : Receives(d, u, amount, v) \in 0..amount
             /\ Receives(d, u, amount, v) = (IF v = u THEN amount - cut ELSE 0) + (IF v = to THEN cut ELSE 0)
  <2>1. \A v : Receives(d, u, amount, v) = (IF v = u THEN amount - cut ELSE 0) + (IF v = to THEN cut ELSE 0)
    BY DEF Receives
  <2> HIDE DEF cut, to
  <2> QED BY <1>1, <2>1
<1>4. CASE amount = 0
  <2>1. c = b
    BY <1>4 DEF PaidOut
  <2> HIDE DEF cut, to
  <2>2. cut = 0
    BY <1>1, <1>4
  <2>3. \A v \in Users : ClaimIn(c, v) = ClaimIn(b, v) + Receives(d, u, amount, v)
    BY <1>2, <1>4, <1>3, <2>1
  <2> QED BY <1>1, <1>3, <2>1, <2>3 DEF cut, to
<1>5. CASE amount # 0
  <2>1. PICK b1 \in Trim(Taken(b, d, amount), d) :
            \E b2 \in Deliver(b1, to, cut) : c \in Deliver(b2, u, amount - cut)
    BY <1>5 DEF PaidOut
  <2>2. PICK b2 \in Deliver(b1, to, cut) : c \in Deliver(b2, u, amount - cut)
    BY <2>1
  <2> HIDE DEF cut, to
  <2>3. b1 \in Books /\ SameClaims(b, b1)
    <3>1. Taken(b, d, amount) \in Books /\ SameClaims(b, Taken(b, d, amount))
      BY TakenKeeps, TakenSameClaims
    <3>2. b1 \in Books /\ SameClaims(Taken(b, d, amount), b1)
      BY <3>1, TrimKeeps, TrimSameClaims
    <3> QED BY <3>1, <3>2 DEF SameClaims
  <2>4. OwedAddsUp(b1)
    BY <2>3 DEF OwedAddsUp, SameClaims
  <2>5. b2 \in Books /\ OwedAddsUp(b2) /\ Gives(b1, b2, to, cut)
    BY <1>1, <2>3, <2>4, DeliverPays, DeliverClaims
  <2>6. OwedAddsUp(c) /\ Gives(b2, c, u, amount - cut)
    BY <1>1, <2>2, <2>5, DeliverClaims
  <2>7. \A v \in Users : ClaimIn(c, v) = ClaimIn(b, v) + Receives(d, u, amount, v)
    <3>1. ASSUME NEW v \in Users
          PROVE  ClaimIn(c, v) = ClaimIn(b, v) + Receives(d, u, amount, v)
      <4>1. ClaimIn(b1, v) = ClaimIn(b, v)
        BY <2>3 DEF SameClaims, ClaimIn
      <4>2. ClaimIn(b2, v) = ClaimIn(b1, v) + IF v = to THEN cut ELSE 0
        BY <2>5 DEF Gives
      <4>3. ClaimIn(c, v) = ClaimIn(b2, v) + IF v = u THEN amount - cut ELSE 0
        BY <2>6 DEF Gives
      <4> QED BY <1>1, <1>2, <1>3, <4>1, <4>2, <4>3
    <3> QED BY <3>1
  <2> QED BY <1>1, <1>3, <2>6, <2>7 DEF cut, to
<1> QED BY <1>4, <1>5

\* A step on deal d moves the totals by what it moves of d, and what is owed still adds up.
BooksFollow(d) ==
    /\ \A e \in Deals : e # d => balance'[e] = balance[e] /\ promised'[e] = promised[e]
    /\ books'.held = books.held + (balance'[d] - balance[d])
    /\ books'.promisedTotal = books.promisedTotal + (promised'[d] - promised[d])
    /\ OwedAddsUp(books')

LEMMA TotalsFollow ==
    ASSUME TypeOK, TypeOK', TotalsAreSums, NEW d \in Deals, BooksFollow(d)
    PROVE  TotalsAreSums'
<1>1. /\ balance \in [Deals -> Nat] /\ balance' \in [Deals -> Nat]
      /\ promised \in [Deals -> Nat] /\ promised' \in [Deals -> Nat] /\ IsFiniteSet(Deals)
  BY SettlementAssumption DEF TypeOK
<1>2. Total(balance') = Total(balance) + (balance'[d] - balance[d])
  <2>1. \A e \in Deals : e # d => balance'[e] = balance[e]
    BY DEF BooksFollow
  <2> QED BY <1>1, <2>1, TotalChange
<1>3. Total(promised') = Total(promised) + (promised'[d] - promised[d])
  <2>1. \A e \in Deals : e # d => promised'[e] = promised[e]
    BY DEF BooksFollow
  <2> QED BY <1>1, <2>1, TotalChange
<1>4. books.held = Total(balance) /\ books.promisedTotal = Total(promised)
  BY DEF TotalsAreSums
<1>5. books'.held = Total(balance') /\ books'.promisedTotal = Total(promised')
  BY <1>2, <1>3, <1>4 DEF BooksFollow
<1>6. books'.owedTotal = Total(books'.owed)
  BY DEF BooksFollow, OwedAddsUp
<1> QED BY <1>5, <1>6 DEF TotalsAreSums

\* Who gains in a step on deal d may receive from it, and gains no more than it loses.
GainsWithin(d) ==
    \A v \in Users : ClaimIn(books', v) > ClaimIn(books, v) =>
        v \in MayReceive(d) /\ ClaimIn(books', v) - ClaimIn(books, v) <= balance[d] - balance'[d]

\* What the settlement's own invariants say of one payout.
LEMMA CutsBounded ==
    ASSUME BooksInv, NEW d \in Deals
    PROVE  /\ terms \in [Deals -> Terms] /\ assignment \in [Deals -> [Users -> Assignment]]
           /\ books \in Books /\ IsFiniteSet(Deals)
           /\ \A u \in Users : assignment[d][u].paid <= assignment[d][u].amount
           /\ balance[d] \in Nat /\ promised[d] \in Nat
           /\ books.held \in Nat /\ books.promisedTotal \in Nat
           /\ \A u \in Users : ClaimIn(books, u) \in Nat
<1>1. /\ terms \in [Deals -> Terms] /\ assignment \in [Deals -> [Users -> Assignment]]
      /\ books \in Books /\ balance \in [Deals -> Nat] /\ promised \in [Deals -> Nat]
  BY DEF BooksInv, TypeOK
<1>2. \A u \in Users : assignment[d][u].paid <= assignment[d][u].amount
  BY DEF BooksInv, CutBounded
<1>3. /\ books.held \in Nat /\ books.promisedTotal \in Nat
      /\ books.wallet \in [Users -> Nat] /\ books.owed \in [Users -> Nat]
  BY <1>1 DEF Books
<1>4. \A u \in Users : ClaimIn(books, u) \in Nat
  BY <1>3 DEF ClaimIn
<1> QED BY <1>1, <1>2, <1>3, <1>4, SettlementAssumption

LEMMA TakeInFollows ==
    ASSUME BooksInv, BooksInv', NEW d \in Deals, Payer(d) \in Users, OwedAddsUp(books),
           NEW amount \in Amounts, FundFresh(d, amount) \/ FundPromised(d, amount)
    PROVE  BooksFollow(d) /\ \A v \in Users : ClaimIn(books', v) <= ClaimIn(books, v)
<1> USE DEF FundFresh, FundPromised, CanTakePromised
<1>1. amount \in Nat
  BY SettlementAssumption DEF Amounts
<1> DEFINE p == Payer(d)
           unpromised == IF promised[d] = 0 THEN 0 ELSE amount
<1>2. /\ balance \in [Deals -> Nat] /\ promised \in [Deals -> Nat] /\ books \in Books
      /\ books.held \in Nat /\ books.promisedTotal \in Nat /\ books.wallet \in [Users -> Nat]
      /\ books.owed \in [Users -> Nat]
  BY DEF BooksInv, TypeOK, Books
<1>3. TakeIn(d, amount, unpromised)
  BY DEF BooksInv, TypeOK
<1>4. /\ books'.held = books.held + amount /\ books'.promisedTotal = books.promisedTotal - unpromised
      /\ books'.owed = books.owed /\ books'.owedTotal = books.owedTotal
      /\ books'.wallet = [books.wallet EXCEPT ![p] = @ - amount] /\ books.wallet[p] >= amount
  BY <1>2, <1>3 DEF TakeIn, Books
<1>5. /\ balance' = [balance EXCEPT ![d] = @ + amount]
      /\ promised' = [promised EXCEPT ![d] = @ - unpromised]
  BY <1>2 DEF TakeIn
<1>6. BooksFollow(d)
  <2>1. unpromised \in Nat
    BY <1>1
  <2> HIDE DEF unpromised
  <2>2. OwedAddsUp(books')
    BY <1>4 DEF OwedAddsUp
  <2>3. balance'[d] - balance[d] = amount /\ promised'[d] - promised[d] = 0 - unpromised
    BY <1>1, <1>2, <1>5, <2>1
  <2>4. \A e \in Deals : e # d => balance'[e] = balance[e] /\ promised'[e] = promised[e]
    BY <1>2, <1>5
  <2> QED BY <1>1, <1>2, <1>4, <2>1, <2>2, <2>3, <2>4 DEF BooksFollow
<1>7. \A v \in Users : ClaimIn(books', v) <= ClaimIn(books, v)
  <2> HIDE DEF p, unpromised
  <2> QED BY <1>1, <1>2, <1>4 DEF ClaimIn
<1> QED BY <1>6, <1>7

LEMMA ReceiversMayReceive ==
    ASSUME NEW d \in Deals, NEW u \in Users, NEW amount, NEW v \in Users,
           IsParty(d, u), Receives(d, u, amount, v) # 0
    PROVE  v \in MayReceive(d)
<1>1. v = u \/ v = assignment[d][u].assignee
  BY DEF Receives
<1> QED BY <1>1 DEF MayReceive

LEMMA PayToFollows ==
    ASSUME BooksInv, BooksInv', NEW d \in Deals, NEW u \in Users, NEW amount \in Nat,
           OwedAddsUp(books), PayTo(d, u, amount)
    PROVE  BooksFollow(d) /\ GainsWithin(d)
<1>1. books' \in PaidOut(books, d, u, amount) /\ amount <= balance[d] /\ amount <= books.held
  BY DEF CanPayTo, PayTo, Takes
<1>2. books'.held = books.held - amount /\ books'.promisedTotal = books.promisedTotal
  BY <1>1, CutsBounded, PaidOutKeeps
<1>3. /\ OwedAddsUp(books')
      /\ \A v \in Users : /\ Receives(d, u, amount, v) \in 0..amount
                          /\ ClaimIn(books', v) = ClaimIn(books, v) + Receives(d, u, amount, v)
  BY <1>1, CutsBounded, PaidOutClaims
<1>4. balance' = [balance EXCEPT ![d] = @ - amount] /\ promised' = promised
  BY DEF PayTo
<1>5. balance \in [Deals -> Nat] /\ promised \in [Deals -> Nat] /\ books.held \in Nat
      /\ books.promisedTotal \in Nat
  BY DEF BooksInv, TypeOK, Books
<1>6. BooksFollow(d)
  BY <1>1, <1>2, <1>3, <1>4, <1>5 DEF BooksFollow
<1>7. GainsWithin(d)
  <2>1. IsParty(d, u)
    BY DEF CanPayTo, PayTo
  <2>2. balance[d] - balance'[d] = amount
    BY <1>1, <1>4, <1>5
  <2>3. ASSUME NEW v \in Users, ClaimIn(books', v) > ClaimIn(books, v)
        PROVE  v \in MayReceive(d) /\ ClaimIn(books', v) - ClaimIn(books, v) <= amount
    <3>1. ClaimIn(books, v) \in Nat
      BY CutsBounded
    <3>2. Receives(d, u, amount, v) # 0
      BY <1>3, <2>3, <3>1
    <3> QED BY <1>3, <2>1, <3>1, <3>2, ReceiversMayReceive
  <2> QED BY <2>2, <2>3 DEF GainsWithin
<1> QED BY <1>6, <1>7

LEMMA PayFeeFollows ==
    ASSUME BooksInv, BooksInv', NEW d \in Deals, NEW amount \in Nat,
           OwedAddsUp(books), PayFee(d, amount)
    PROVE  BooksFollow(d) /\ GainsWithin(d)
<1>1. amount <= balance[d] /\ amount <= books.held
  BY DEF PayFee, Takes
<1>2. PICK b \in Trim(Taken(books, d, amount), d) : books' \in Deliver(b, FeeRecipient, amount)
  BY DEF PayFee
<1>3. FeeRecipient \in Users
  BY SettlementAssumption
<1>4. /\ Taken(books, d, amount) \in Books /\ SameClaims(books, Taken(books, d, amount))
      /\ Taken(books, d, amount).held = books.held - amount
      /\ Taken(books, d, amount).promisedTotal = books.promisedTotal
  BY <1>1, CutsBounded, TakenKeeps, TakenSameClaims
<1>5. /\ b \in Books /\ SameClaims(Taken(books, d, amount), b)
      /\ b.held = books.held - amount /\ b.promisedTotal = books.promisedTotal
  BY <1>2, <1>4, TrimKeeps, TrimSameClaims DEF SameDeals
<1>6. SameClaims(books, b) /\ OwedAddsUp(b)
  BY <1>4, <1>5 DEF SameClaims, OwedAddsUp
<1>7. OwedAddsUp(books') /\ Gives(b, books', FeeRecipient, amount)
  BY <1>2, <1>3, <1>5, <1>6, DeliverClaims
<1>8. books'.held = books.held - amount /\ books'.promisedTotal = books.promisedTotal
  BY <1>2, <1>3, <1>5, DeliverPays DEF SameDeals
<1>9. balance' = [balance EXCEPT ![d] = @ - amount] /\ promised' = promised
  BY DEF PayFee
<1>10. balance \in [Deals -> Nat] /\ promised \in [Deals -> Nat] /\ books.held \in Nat
       /\ books.promisedTotal \in Nat
  BY DEF BooksInv, TypeOK, Books
<1>11. BooksFollow(d)
  BY <1>1, <1>7, <1>8, <1>9, <1>10 DEF BooksFollow
<1>12. GainsWithin(d)
  <2>1. FeeRecipient \in MayReceive(d) /\ balance[d] - balance'[d] = amount
    BY <1>1, <1>9, <1>10 DEF MayReceive
  <2>2. ASSUME NEW v \in Users, ClaimIn(books', v) > ClaimIn(books, v)
        PROVE  v \in MayReceive(d) /\ ClaimIn(books', v) - ClaimIn(books, v) <= amount
    <3>1. ClaimIn(books, v) \in Nat /\ ClaimIn(b, v) = ClaimIn(books, v)
      BY <1>6, CutsBounded DEF SameClaims, ClaimIn
    <3>2. ClaimIn(books', v) = ClaimIn(b, v) + IF v = FeeRecipient THEN amount ELSE 0
      BY <1>7 DEF Gives
    <3> QED BY <2>1, <2>2, <3>1, <3>2
  <2> QED BY <2>1, <2>2 DEF GainsWithin
<1> QED BY <1>11, <1>12

LEMMA PledgeFollows ==
    ASSUME BooksInv, NEW d \in Deals, NEW amount \in Amounts, OwedAddsUp(books), Pledge(d, amount)
    PROVE  BooksFollow(d) /\ \A v \in Users : ClaimIn(books', v) = ClaimIn(books, v)
<1>1. amount \in Nat
  BY SettlementAssumption DEF Amounts
<1>2. /\ balance \in [Deals -> Nat] /\ promised \in [Deals -> Nat] /\ books \in Books
      /\ books.held \in Nat /\ books.promisedTotal \in Nat
  BY DEF BooksInv, TypeOK, Books
<1>3. /\ promised[d] = 0 /\ promised' = [promised EXCEPT ![d] = amount] /\ balance' = balance
      /\ books' = [books EXCEPT !.promisedTotal = @ + amount]
  BY DEF Pledge
<1>4. /\ books'.held = books.held /\ books'.promisedTotal = books.promisedTotal + amount
      /\ books'.owed = books.owed /\ books'.owedTotal = books.owedTotal /\ books'.wallet = books.wallet
  BY <1>2, <1>3 DEF Books
<1>5. OwedAddsUp(books')
  BY <1>4 DEF OwedAddsUp
<1>6. BooksFollow(d)
  BY <1>1, <1>2, <1>3, <1>4, <1>5 DEF BooksFollow
<1> QED BY <1>4, <1>6 DEF ClaimIn

LEMMA PromiseEndedSame ==
    ASSUME NEW b \in Books, NEW d
    PROVE  /\ PromiseEnded(b, d).held = b.held /\ SameClaims(b, PromiseEnded(b, d))
           /\ PromiseEnded(b, d).promisedTotal = b.promisedTotal - promised[d]
BY DEF PromiseEnded, SameClaims, Books

LEMMA CloseFollows ==
    ASSUME BooksInv, NEW d \in Deals, OwedAddsUp(books), Close(d)
    PROVE  BooksFollow(d) /\ \A v \in Users : ClaimIn(books', v) = ClaimIn(books, v)
<1>1. /\ balance \in [Deals -> Nat] /\ promised \in [Deals -> Nat] /\ books \in Books
      /\ books.held \in Nat /\ books.promisedTotal \in Nat
  BY DEF BooksInv, TypeOK, Books
<1>2. promised' = [promised EXCEPT ![d] = 0] /\ balance' = balance /\ books' = PromiseEnded(books, d)
  BY DEF Close
<1>3. /\ books'.held = books.held /\ books'.promisedTotal = books.promisedTotal - promised[d]
      /\ SameClaims(books, books')
  BY <1>1, <1>2, PromiseEndedSame
<1>4. OwedAddsUp(books')
  BY <1>3 DEF OwedAddsUp, SameClaims
<1>5. BooksFollow(d)
  BY <1>1, <1>2, <1>3, <1>4 DEF BooksFollow
<1> QED BY <1>3, <1>5 DEF SameClaims, ClaimIn

\* A withdrawal moves what is owed to its owner into their wallet.
LEMMA WithdrawOwedFollows ==
    ASSUME BooksInv, NEW u \in Users, OwedAddsUp(books), WithdrawOwed(u)
    PROVE  /\ books'.held = books.held /\ books'.promisedTotal = books.promisedTotal
           /\ OwedAddsUp(books') /\ \A v \in Users : ClaimIn(books', v) = ClaimIn(books, v)
<1> DEFINE amount == books.owed[u]
           g == [books.owed EXCEPT ![u] = 0]
           b1 == [books EXCEPT !.owed[u] = 0]
           b == [books EXCEPT !.owed[u] = 0, !.owedTotal = @ - amount]
<1>1. /\ books \in Books /\ books.owed \in [Users -> Nat] /\ books.wallet \in [Users -> Nat]
      /\ books.owedTotal \in Nat
  BY DEF BooksInv, TypeOK, Books
<1>2. amount \in Nat /\ amount <= books.owedTotal
  BY <1>1 DEF WithdrawOwed
<1>3. b.owed = g /\ b.owedTotal = books.owedTotal - amount /\ b.wallet = books.wallet
      /\ b.held = books.held /\ b.promisedTotal = books.promisedTotal
  BY <1>1 DEF Books
<1>4. books' \in OwedPaid(b, u, amount)
  BY DEF Cleared, WithdrawOwed
<1>5. b \in Books
  <2>1. b1 \in Books /\ b1.owedTotal = books.owedTotal
    BY <1>1 DEF Books
  <2>2. [b1 EXCEPT !.owedTotal = books.owedTotal - amount] \in Books
    <3> HIDE DEF b1, amount
    <3> QED BY <1>2, <2>1 DEF Books
  <2> QED BY <2>2
<1>6. g \in [Users -> Nat] /\ g[u] = 0 /\ \A v \in Users : v # u => g[v] = books.owed[v]
  BY <1>1
<1> HIDE DEF b, g
<1>7. OwedAddsUp(b)
  <2>1. IsFiniteSet(Users)
    BY SettlementAssumption
  <2>2. Total(books.owed) \in Nat /\ Total(g) = Total(books.owed) + (g[u] - books.owed[u])
    BY <1>1, <1>6, <2>1, TotalChange
  <2>3. books.owedTotal = Total(books.owed)
    BY DEF OwedAddsUp
  <2>4. Total(g) = books.owedTotal - amount
    BY <1>2, <1>6, <2>2, <2>3
  <2> QED BY <1>3, <2>4 DEF OwedAddsUp
<1> HIDE DEF amount
<1>8. PICK r \in Liquid(b, amount) : r.ok /\ books' = Transferred(r.books, u, amount)
  BY <1>4 DEF OwedPaid
<1>9. r.books \in Books /\ SameClaims(b, r.books) /\ SameDeals(b, r.books)
  BY <1>2, <1>5, LiquidKeeps, LiquidSameClaims
<1>10. OwedAddsUp(r.books)
  BY <1>7, <1>9 DEF OwedAddsUp, SameClaims
<1>11. OwedAddsUp(books') /\ Gives(r.books, books', u, amount)
  BY <1>2, <1>8, <1>9, <1>10, TransferredClaims
<1>12. books'.held = r.books.held /\ books'.promisedTotal = r.books.promisedTotal
  BY <1>8, <1>9 DEF Transferred, Books
<1>13. ASSUME NEW v \in Users
       PROVE  ClaimIn(books', v) = ClaimIn(books, v)
  <2>1. ClaimIn(books', v) = ClaimIn(b, v) + IF v = u THEN amount ELSE 0
    BY <1>9, <1>11 DEF Gives, SameClaims, ClaimIn
  <2>2. ClaimIn(b, v) = books.wallet[v] + g[v]
    BY <1>3 DEF ClaimIn
  <2> QED BY <1>1, <1>6, <2>1, <2>2 DEF ClaimIn, amount
<1> QED BY <1>3, <1>9, <1>11, <1>12, <1>13 DEF SameDeals

LEMMA RebalanceFollows ==
    ASSUME BooksInv, RebalanceYield
    PROVE  /\ books'.held = books.held /\ books'.promisedTotal = books.promisedTotal
           /\ SameClaims(books, books')
<1>1. books \in Books
  BY DEF BooksInv, TypeOK
<1> DEFINE target == IF TakesPromised THEN ParkTarget(books) ELSE 0
<1>2. target \in Nat
  BY <1>1 DEF ParkTarget, AtMost, Books
<1>3. \/ books' = [books EXCEPT !.parked = target, !.cash = @ - (target - books.parked)]
      \/ /\ books.parked > target
         /\ books' \in {r.books : r \in Pull(books, books.parked - target)}
  BY DEF RebalanceYield
<1> HIDE DEF target
<1>4. CASE books' = [books EXCEPT !.parked = target, !.cash = @ - (target - books.parked)]
  BY <1>1, <1>4 DEF SameClaims, Books
<1>5. CASE books.parked > target /\ books' \in {r.books : r \in Pull(books, books.parked - target)}
  <2>1. books.parked - target \in Nat
    BY <1>1, <1>2, <1>5 DEF Books
  <2> QED BY <1>1, <1>5, <2>1, PullKeeps, PullSameClaims DEF SameDeals
<1> QED BY <1>3, <1>4, <1>5

\* The three payouts of a long-stop, and what each user receives of them.
LEMMA LongstopFollows ==
    ASSUME BooksInv, NEW d \in Deals, NEW x \in Nat, NEW y \in Nat, NEW z \in Nat,
           OwedAddsUp(books), LongstopSplit(d, x, y, z)
    PROVE  /\ BooksFollow(d) /\ GainsWithin(d)
           /\ {Payer(d), PayeeAt(d, 1), PayeeAt(d, 2)} \subseteq Users
           /\ \A v \in Users :
                 /\ {Receives(d, Payer(d), x, v), Receives(d, PayeeAt(d, 1), y, v), Receives(d, PayeeAt(d, 2), z, v)} \subseteq Nat
                 /\ ClaimIn(books', v) = ClaimIn(books, v) + Receives(d, Payer(d), x, v)
                                      + Receives(d, PayeeAt(d, 1), y, v) + Receives(d, PayeeAt(d, 2), z, v)
<1> DEFINE p1 == PayeeAt(d, 1)
           p2 == PayeeAt(d, 2)
           u0 == Payer(d)
           b == PromiseEnded(books, d)
<1>1. /\ terms \in [Deals -> Terms] /\ assignment \in [Deals -> [Users -> Assignment]]
      /\ \A u \in Users : assignment[d][u].paid <= assignment[d][u].amount
      /\ books \in Books /\ books.held \in Nat /\ books.promisedTotal \in Nat
      /\ balance \in [Deals -> Nat] /\ promised \in [Deals -> Nat]
  BY CutsBounded DEF BooksInv, TypeOK
<1>2. /\ balance[d] <= books.held /\ x + y + z = balance[d] /\ promised[d] <= books.promisedTotal
      /\ balance' = [balance EXCEPT ![d] = 0] /\ promised' = [promised EXCEPT ![d] = 0]
  BY DEF CanSplit, LongstopOpen, LongstopSplit, Takes
<1>3. u0 \in Users /\ p1 \in Users /\ p2 \in Users
  <2>1. u0 \in Users /\ payees[d] \in Seq(Users)
    BY DEF CanSplit, LongstopOpen, LongstopSplit, BooksInv, TypeOK, PayerKnown
  <2> QED BY <2>1 DEF PayeeAt
<1>4. IsParty(d, u0) /\ IsParty(d, p1) /\ IsParty(d, p2)
  <2>1. payees[d] \in Seq(Users)
    BY DEF BooksInv, TypeOK
  <2> QED BY <2>1 DEF IsParty, IsPayee, PayeeAt
<1>5. PICK b0 \in PaidOut(b, d, u0, x) :
          \E b1 \in PaidOut(b0, d, p1, y) : books' \in PaidOut(b1, d, p2, z)
  BY DEF LongstopSplit
<1>6. PICK b1 \in PaidOut(b0, d, p1, y) : books' \in PaidOut(b1, d, p2, z)
  BY <1>5
<1>7. /\ b \in Books /\ b.held = books.held /\ SameClaims(books, b) /\ OwedAddsUp(b)
      /\ b.promisedTotal = books.promisedTotal - promised[d]
  <2>1. b \in Books
    BY <1>2, PromiseEndedKeeps
  <2>2. /\ b.held = books.held /\ SameClaims(books, b)
        /\ b.promisedTotal = books.promisedTotal - promised[d]
    BY <1>1, PromiseEndedSame
  <2> QED BY <2>1, <2>2 DEF OwedAddsUp, SameClaims
<1> HIDE DEF b, p1, p2, u0
<1>8. /\ b0 \in Books /\ b0.held = b.held - x /\ b0.promisedTotal = b.promisedTotal /\ OwedAddsUp(b0)
      /\ \A v \in Users : /\ Receives(d, u0, x, v) \in 0..x
                          /\ ClaimIn(b0, v) = ClaimIn(b, v) + Receives(d, u0, x, v)
  <2>1. x <= b.held
    BY <1>1, <1>2, <1>7
  <2> QED BY <1>1, <1>3, <1>5, <1>7, <2>1, PaidOutKeeps, PaidOutClaims
<1>9. /\ b1 \in Books /\ b1.held = b0.held - y /\ b1.promisedTotal = b0.promisedTotal /\ OwedAddsUp(b1)
      /\ \A v \in Users : /\ Receives(d, p1, y, v) \in 0..y
                          /\ ClaimIn(b1, v) = ClaimIn(b0, v) + Receives(d, p1, y, v)
  <2>1. y <= b0.held
    BY <1>1, <1>2, <1>7, <1>8
  <2> QED BY <1>1, <1>3, <1>6, <1>8, <2>1, PaidOutKeeps, PaidOutClaims
<1>10. /\ books'.held = b1.held - z /\ books'.promisedTotal = b1.promisedTotal /\ OwedAddsUp(books')
       /\ \A v \in Users : /\ Receives(d, p2, z, v) \in 0..z
                           /\ ClaimIn(books', v) = ClaimIn(b1, v) + Receives(d, p2, z, v)
  <2>1. z <= b1.held
    BY <1>1, <1>2, <1>7, <1>8, <1>9
  <2> QED BY <1>1, <1>3, <1>6, <1>9, <2>1, PaidOutKeeps, PaidOutClaims
<1>11. BooksFollow(d)
  <2>1. books'.held = books.held - balance[d] /\ books'.promisedTotal = books.promisedTotal - promised[d]
    BY <1>1, <1>2, <1>7, <1>8, <1>9, <1>10
  <2> QED BY <1>1, <1>2, <1>10, <2>1 DEF BooksFollow
<1>12. ASSUME NEW v \in Users
       PROVE  /\ {Receives(d, u0, x, v), Receives(d, p1, y, v), Receives(d, p2, z, v)} \subseteq Nat
              /\ Receives(d, u0, x, v) <= x /\ Receives(d, p1, y, v) <= y /\ Receives(d, p2, z, v) <= z
              /\ ClaimIn(books', v) = ClaimIn(books, v) + Receives(d, u0, x, v)
                                      + Receives(d, p1, y, v) + Receives(d, p2, z, v)
  <2>1. ClaimIn(books, v) \in Nat /\ ClaimIn(b, v) = ClaimIn(books, v)
    BY <1>7, CutsBounded DEF SameClaims, ClaimIn
  <2>2. Receives(d, u0, x, v) \in 0..x /\ Receives(d, p1, y, v) \in 0..y /\ Receives(d, p2, z, v) \in 0..z
    BY <1>8, <1>9, <1>10
  <2>3. /\ ClaimIn(b0, v) = ClaimIn(b, v) + Receives(d, u0, x, v)
        /\ ClaimIn(b1, v) = ClaimIn(b0, v) + Receives(d, p1, y, v)
        /\ ClaimIn(books', v) = ClaimIn(b1, v) + Receives(d, p2, z, v)
    BY <1>8, <1>9, <1>10
  <2> QED BY <2>1, <2>2, <2>3
<1>13. GainsWithin(d)
  <2>1. ASSUME NEW v \in Users, ClaimIn(books', v) > ClaimIn(books, v)
        PROVE  v \in MayReceive(d) /\ ClaimIn(books', v) - ClaimIn(books, v) <= balance[d] - balance'[d]
    <3>1. ClaimIn(books, v) \in Nat
      BY CutsBounded
    <3>2. Receives(d, u0, x, v) # 0 \/ Receives(d, p1, y, v) # 0 \/ Receives(d, p2, z, v) # 0
      BY <1>12, <2>1, <3>1
    <3>3. v \in MayReceive(d)
      BY <1>3, <1>4, <3>2, ReceiversMayReceive
    <3>4. ClaimIn(books', v) - ClaimIn(books, v) <= x + y + z
      BY <1>12, <3>1
    <3>5. balance[d] - balance'[d] = x + y + z
      BY <1>1, <1>2
    <3> QED BY <3>3, <3>4, <3>5
  <2> QED BY <2>1 DEF GainsWithin
<1> QED BY <1>3, <1>11, <1>12, <1>13 DEF p1, p2, u0

-----------------------------------------------------------------------------
(* Every step: the totals follow the deals, and only recipients gain. *)

\* No deal's money moves, nor what anyone can call their own.
NoneMoves ==
    /\ balance' = balance /\ promised' = promised
    /\ books'.held = books.held /\ books'.promisedTotal = books.promisedTotal
    /\ OwedAddsUp(books')
    /\ \A v \in Users : ClaimIn(books', v) = ClaimIn(books, v)

LEMMA ClaimsAreNat ==
    ASSUME NEW b \in Books, NEW v \in Users
    PROVE  ClaimIn(b, v) \in Nat
BY DEF Books, ClaimIn

LEMMA StepMovesOneDeal ==
    ASSUME BooksInv, BooksInv', OwedAddsUp(books), [Next]_vars
    PROVE  NoneMoves \/ \E d \in Deals : BooksFollow(d) /\ GainsWithin(d)
<1>1. ASSUME balance' = balance, promised' = promised, books' = books PROVE NoneMoves
  BY <1>1 DEF NoneMoves
<1>2. ASSUME NEW d \in Deals, BooksFollow(d), \A v \in Users : ClaimIn(books', v) <= ClaimIn(books, v)
      PROVE  GainsWithin(d)
  <2>1. \A v \in Users : ClaimIn(books, v) \in Nat /\ ClaimIn(books', v) \in Nat
    BY ClaimsAreNat DEF BooksInv, TypeOK
  <2> QED BY <1>2, <2>1 DEF GainsWithin
<1>3. \A x \in Amounts : x \in Nat
  BY SettlementAssumption DEF Amounts
<1>4. ASSUME NEW d \in Deals, FamilyStep(d)
      PROVE  NoneMoves \/ \E e \in Deals : BooksFollow(e) /\ GainsWithin(e)
  <2>1. CASE \E payer \in Payers, list \in Lists, h \in now + 1..now + MaxHorizon,
                fee \in FeeRates, share \in YieldShares, cap \in DealCaps :
                    Open(d, payer, list, h, fee, share, cap)
    BY <1>1, <2>1 DEF Open, moneyVars
  <2>2. CASE \E u \in Payees : AddPayee(d, u)
    BY <1>1, <2>2 DEF AddPayee, moneyVars
  <2>3. CASE \E u \in Subjects : MarkConsent(d, u) \/ RecordOutcome(d, u)
    BY <1>1, <2>3 DEF MarkConsent, RecordOutcome, moneyVars
  <2>4. CASE \E x \in Amounts : FundFresh(d, x) \/ FundPromised(d, x)
    <3>1. Payer(d) \in Users
      BY <2>4 DEF CanTakePromised, FundFresh, FundPromised, BooksInv, PayerKnown
    <3> QED BY <1>2, <2>4, <3>1, TakeInFollows
  <2>5. CASE \E x \in Amounts : Pledge(d, x) \/ PayFee(d, x)
    <3>1. PICK x \in Amounts : Pledge(d, x) \/ PayFee(d, x)
      BY <2>5
    <3>2. CASE PayFee(d, x)
      BY <1>3, <3>2, PayFeeFollows
    <3>3. CASE Pledge(d, x)
      <4>1. BooksFollow(d) /\ \A v \in Users : ClaimIn(books', v) = ClaimIn(books, v)
        BY <3>3, PledgeFollows
      <4>2. \A v \in Users : ClaimIn(books, v) \in Nat
        BY CutsBounded
      <4> QED BY <1>2, <4>1, <4>2
    <3> QED BY <3>1, <3>2, <3>3
  <2>6. CASE \E u \in Users, x \in Amounts : PayTo(d, u, x)
    BY <1>3, <2>6, PayToFollows
  <2>7. CASE Close(d)
    <3>1. BooksFollow(d) /\ \A v \in Users : ClaimIn(books', v) = ClaimIn(books, v)
      BY <2>7, CloseFollows
    <3>2. \A v \in Users : ClaimIn(books, v) \in Nat
      BY CutsBounded
    <3> QED BY <1>2, <3>1, <3>2
  <2>8. CASE \E h \in now + 1..now + MaxHorizon : ExtendHorizon(d, h)
    BY <1>1, <2>8 DEF ExtendHorizon, moneyVars
  <2> QED BY <1>4, <2>1, <2>2, <2>3, <2>4, <2>5, <2>6, <2>7, <2>8 DEF FamilyStep
<1>5. ASSUME NEW d \in Deals, PublicStep(d)
      PROVE  NoneMoves \/ \E e \in Deals : BooksFollow(e) /\ GainsWithin(e)
  <2>1. CASE \/ \E u \in Users, a \in Assignees, x \in Amounts : AssignPayout(d, u, a, x)
             \/ \E u \in Users, a \in Assignees, x \in Amounts, n \in Nonces :
                    AssignBySignature(d, u, a, x, n)
             \/ \E u \in Users : ReleaseAssignment(d, u) \/ RetryRecord(d, u)
             \/ Hold(d) \/ ReleaseHold(d)
    BY <1>1, <2>1
       DEF AssignPayout, AssignBySignature, Assigns, ReleaseAssignment, RetryRecord, Hold, ReleaseHold,
           moneyVars
  <2>2. CASE \E x, y, z \in 0..MaxAmount : LongstopSplit(d, x, y, z)
    <3>1. PICK x \in 0..MaxAmount, y \in 0..MaxAmount, z \in 0..MaxAmount : LongstopSplit(d, x, y, z)
      BY <2>2
    <3>2. x \in Nat /\ y \in Nat /\ z \in Nat
      BY SettlementAssumption
    <3> QED BY <3>1, <3>2, LongstopFollows
  <2> QED BY <1>5, <2>1, <2>2 DEF PublicStep
<1>6. CASE \E u \in Users : WithdrawOwed(u)
  <2>1. PICK u \in Users : WithdrawOwed(u)
    BY <1>6
  <2> QED BY <2>1, WithdrawOwedFollows DEF NoneMoves, WithdrawOwed, moneyVars
<1>7. CASE RebalanceYield
  <2>1. balance' = balance /\ promised' = promised
    BY <1>7 DEF RebalanceYield, moneyVars
  <2> QED BY <1>7, <2>1, RebalanceFollows DEF NoneMoves, SameClaims, ClaimIn, OwedAddsUp
<1>8. CASE UNCHANGED vars \/ (\E u \in Users, n \in Nonces : CancelNonce(u, n)) \/ Governance \/ Tick
  BY <1>1, <1>8
     DEF vars, CancelNonce, Governance, PauseFamily, ResumeFamily, RetireFamily, RevokeFamily, SetAsset,
         SetCaps, SetHub, Tick, moneyVars
<1> QED BY <1>4, <1>5, <1>6, <1>7, <1>8 DEF Next

LEMMA TotalsAtFirst ==
    ASSUME Init
    PROVE  TotalsAreSums
<1>1. ASSUME NEW S, IsFiniteSet(S) PROVE Total([x \in S |-> 0]) = 0
  <2>1. [x \in S |-> 0] \in [S -> Nat]
    OBVIOUS
  <2>2. Total([x \in S |-> 0]) = SumOn([x \in S |-> 0], S)
    BY <2>1, TotalIsSum
  <2>3. \A x \in S : [y \in S |-> 0][x] = 0
    OBVIOUS
  <2> QED BY <1>1, <2>2, <2>3, SumZero
<1>2. IsFiniteSet(Deals) /\ IsFiniteSet(Users)
  BY SettlementAssumption
<1>3. /\ balance = [d \in Deals |-> 0] /\ promised = [d \in Deals |-> 0]
      /\ books.held = 0 /\ books.promisedTotal = 0 /\ books.owedTotal = 0
      /\ books.owed = [u \in Users |-> 0]
  BY DEF Init
<1>4. Total(balance) = 0 /\ Total(promised) = 0 /\ Total(books.owed) = 0
  BY <1>1, <1>2, <1>3
<1> QED BY <1>3, <1>4 DEF TotalsAreSums

LEMMA StepKeepsTotals ==
    ASSUME BooksInv, BooksInv', TotalsAreSums, [Next]_vars
    PROVE  TotalsAreSums'
<1>1. OwedAddsUp(books)
  BY DEF TotalsAreSums, OwedAddsUp
<1>2. CASE NoneMoves
  <2>1. books'.owedTotal = Total(books'.owed)
    BY <1>2 DEF NoneMoves, OwedAddsUp
  <2>2. books'.held = Total(balance') /\ books'.promisedTotal = Total(promised')
    BY <1>2 DEF NoneMoves, TotalsAreSums
  <2> QED BY <2>1, <2>2 DEF TotalsAreSums
<1>3. CASE \E d \in Deals : BooksFollow(d)
  BY <1>3, TotalsFollow DEF BooksInv
<1> QED BY <1>1, <1>2, <1>3, StepMovesOneDeal

\* What the escrow says it holds, is promised and owes is the sum over its deals and its users,
\* whatever was paid, refused, split or withdrawn: no payout's checked subtraction can revert.
THEOREM TotalsAlwaysSums == Spec => []TotalsAreSums
<1>1. Init => TotalsAreSums
  BY TotalsAtFirst
<1>2. BooksInv /\ BooksInv' /\ TotalsAreSums /\ [Next]_vars => TotalsAreSums'
  BY StepKeepsTotals
<1> QED BY <1>1, <1>2, BooksAlwaysKept, PTL DEF Spec

\* Deal by deal and in total, the books add up.
THEOREM BooksAlwaysAddUp == Spec => []BooksAddUp
<1>1. TotalsAreSums /\ WithinDealCap /\ ClosedIsEmpty => BooksAddUp
  BY DEF BooksAddUp
<1> QED BY <1>1, TotalsAlwaysSums, CapsHold, ClosedDealsAreEmpty, PTL

\* S2: nobody is better off after a step but a recorded recipient of a deal that paid, and by no
\* more than that deal lost.
THEOREM RecipientsOnlyGain == Spec => OnlyRecipientsGain
<1> DEFINE Gain == \A u \in Users : Claim(u)' > Claim(u) =>
                       \E d \in Deals : /\ u \in MayReceive(d)
                                        /\ Claim(u)' - Claim(u) <= balance[d] - balance'[d]
<1>1. BooksInv /\ BooksInv' /\ TotalsAreSums /\ [Next]_vars => Gain
  <2> SUFFICES ASSUME BooksInv, BooksInv', TotalsAreSums, [Next]_vars,
                      NEW u \in Users, Claim(u)' > Claim(u)
               PROVE  \E d \in Deals : /\ u \in MayReceive(d)
                                       /\ Claim(u)' - Claim(u) <= balance[d] - balance'[d]
    OBVIOUS
  <2>1. Claim(u) = ClaimIn(books, u) /\ Claim(u)' = ClaimIn(books', u)
    BY DEF Claim, ClaimIn
  <2>2. OwedAddsUp(books)
    BY DEF TotalsAreSums, OwedAddsUp
  <2>3. NoneMoves \/ \E d \in Deals : BooksFollow(d) /\ GainsWithin(d)
    BY <2>2, StepMovesOneDeal
  <2>4. ~NoneMoves
    <3>1. ClaimIn(books, u) \in Nat
      BY ClaimsAreNat DEF BooksInv, TypeOK
    <3> QED BY <2>1, <3>1 DEF NoneMoves
  <2> QED BY <2>1, <2>3, <2>4 DEF GainsWithin
<1>2. BooksInv /\ BooksInv' /\ TotalsAreSums /\ [Next]_vars => [Gain]_vars
  BY <1>1
<1> QED BY <1>2, BooksAlwaysKept, TotalsAlwaysSums, PTL DEF Spec, OnlyRecipientsGain

-----------------------------------------------------------------------------
(* What moves one deal's money, seen from the deal. *)

MoneyStill(d) ==
    /\ balance'[d] = balance[d] /\ promised'[d] = promised[d]
    /\ status'[d] = "Closed" => status[d] = "Closed"

LEMMA WhatMovesMoney ==
    ASSUME TypeOK, [Next]_vars, NEW d \in Deals
    PROVE  \/ MoneyStill(d) \/ Close(d)
           \/ \E x \in Amounts : FundFresh(d, x) \/ FundPromised(d, x) \/ Pledge(d, x) \/ PayFee(d, x)
           \/ \E u \in Users, x \in Amounts : PayTo(d, u, x)
           \/ \E x, y, z \in 0..MaxAmount : LongstopSplit(d, x, y, z)
<1> USE DEF MoneyStill
<1>1. ASSUME status' = status, balance' = balance, promised' = promised PROVE MoneyStill(d)
  BY <1>1
<1>2. ASSUME NEW e \in Deals, FamilyStep(e), e # d
      PROVE  MoneyStill(d)
  <2>1. CASE \E payer \in Payers, list \in Lists, h \in now + 1..now + MaxHorizon,
                fee \in FeeRates, share \in YieldShares, cap \in DealCaps :
                    Open(e, payer, list, h, fee, share, cap)
    BY <1>2, <2>1 DEF Open, moneyVars, TypeOK
  <2>2. CASE \/ \E u \in Payees : AddPayee(e, u)
             \/ \E u \in Subjects : MarkConsent(e, u) \/ RecordOutcome(e, u)
             \/ \E h \in now + 1..now + MaxHorizon : ExtendHorizon(e, h)
    BY <1>1, <2>2 DEF AddPayee, MarkConsent, RecordOutcome, ExtendHorizon, moneyVars, dealVars
  <2>3. CASE \E x \in Amounts : FundFresh(e, x) \/ FundPromised(e, x)
    BY <1>2, <2>3 DEF FundFresh, FundPromised, TakeIn, dealVars, TypeOK
  <2>4. CASE \E x \in Amounts : Pledge(e, x) \/ PayFee(e, x)
    BY <1>2, <2>4 DEF Pledge, PayFee, dealVars, TypeOK
  <2>5. CASE \E u \in Users, x \in Amounts : PayTo(e, u, x)
    BY <1>2, <2>5 DEF PayTo, dealVars, TypeOK
  <2>6. CASE Close(e)
    BY <1>2, <2>6 DEF Close, TypeOK
  <2> QED BY <1>2, <2>1, <2>2, <2>3, <2>4, <2>5, <2>6 DEF FamilyStep
<1>3. ASSUME FamilyStep(d), ~MoneyStill(d)
      PROVE  \/ Close(d)
             \/ \E x \in Amounts : FundFresh(d, x) \/ FundPromised(d, x) \/ Pledge(d, x) \/ PayFee(d, x)
             \/ \E u \in Users, x \in Amounts : PayTo(d, u, x)
  <2>1. CASE \E payer \in Payers, list \in Lists, h \in now + 1..now + MaxHorizon,
                fee \in FeeRates, share \in YieldShares, cap \in DealCaps :
                    Open(d, payer, list, h, fee, share, cap)
    BY <1>3, <2>1 DEF Open, moneyVars, TypeOK
  <2>2. CASE \/ \E u \in Payees : AddPayee(d, u)
             \/ \E u \in Subjects : MarkConsent(d, u) \/ RecordOutcome(d, u)
             \/ \E h \in now + 1..now + MaxHorizon : ExtendHorizon(d, h)
    BY <1>1, <1>3, <2>2 DEF AddPayee, MarkConsent, RecordOutcome, ExtendHorizon, moneyVars, dealVars
  <2> QED BY <1>3, <2>1, <2>2 DEF FamilyStep
<1>4. ASSUME NEW e \in Deals, PublicStep(e)
      PROVE  MoneyStill(d) \/ \E x, y, z \in 0..MaxAmount : LongstopSplit(d, x, y, z)
  <2>1. CASE \/ \E u \in Users, a \in Assignees, x \in Amounts : AssignPayout(e, u, a, x)
             \/ \E u \in Users, a \in Assignees, x \in Amounts, n \in Nonces :
                    AssignBySignature(e, u, a, x, n)
             \/ \E u \in Users : ReleaseAssignment(e, u) \/ RetryRecord(e, u)
             \/ Hold(e) \/ ReleaseHold(e)
    BY <1>1, <2>1
       DEF AssignPayout, AssignBySignature, Assigns, ReleaseAssignment, RetryRecord, Hold, ReleaseHold,
           moneyVars, dealVars
  <2>2. CASE e # d /\ \E x, y, z \in 0..MaxAmount : LongstopSplit(e, x, y, z)
    <3>1. PICK x \in 0..MaxAmount, y \in 0..MaxAmount, z \in 0..MaxAmount : LongstopSplit(e, x, y, z)
      BY <2>2
    <3> QED BY <2>2, <3>1 DEF LongstopSplit, TypeOK
  <2> QED BY <1>4, <2>1, <2>2 DEF PublicStep
<1>5. CASE \/ UNCHANGED vars
           \/ \E u \in Users : WithdrawOwed(u)
           \/ \E u \in Users, n \in Nonces : CancelNonce(u, n)
           \/ RebalanceYield \/ Governance \/ Tick
  BY <1>1, <1>5
     DEF vars, WithdrawOwed, CancelNonce, RebalanceYield, Governance, PauseFamily, ResumeFamily,
         RetireFamily, RevokeFamily, SetAsset, SetCaps, SetHub, Tick, dealVars, moneyVars
<1> HIDE DEF MoneyStill
<1> QED BY <1>2, <1>3, <1>4, <1>5 DEF Next

\* Money enters a deal afresh only where both caps have room.
LEMMA FreshMoneyFits ==
    ASSUME BooksInv, BooksInv', OwedAddsUp(books), [Next]_vars, NEW d \in Deals, BooksFollow(d),
           books'.held + books'.promisedTotal > books.held + books.promisedTotal
    PROVE  books'.held + books'.promisedTotal <= hub.totalCap
<1>1. /\ balance \in [Deals -> Nat] /\ balance' \in [Deals -> Nat] /\ promised \in [Deals -> Nat]
      /\ promised' \in [Deals -> Nat] /\ books.held \in Nat /\ books.promisedTotal \in Nat
      /\ status \in [Deals -> {"None", "Live", "Closed"}]
  BY DEF BooksInv, TypeOK, Books
<1>2. /\ books'.held = books.held + (balance'[d] - balance[d])
      /\ books'.promisedTotal = books.promisedTotal + (promised'[d] - promised[d])
  BY DEF BooksFollow
<1>3. \A x \in Amounts : x \in Nat
  BY SettlementAssumption DEF Amounts
<1>4. balance'[d] + promised'[d] > balance[d] + promised[d]
  BY <1>1, <1>2
<1>5. ASSUME NEW x \in Amounts, FundFresh(d, x) PROVE books'.held + books'.promisedTotal <= hub.totalCap
  <2>1. balance'[d] = balance[d] + x /\ promised'[d] = promised[d]
    BY <1>1, <1>5 DEF FundFresh, TakeIn
  <2> QED BY <1>1, <1>2, <1>3, <1>5, <2>1 DEF FundFresh, FitsTotal
<1>6. ASSUME NEW x \in Amounts, Pledge(d, x) PROVE books'.held + books'.promisedTotal <= hub.totalCap
  <2>1. balance'[d] = balance[d] /\ promised'[d] = x /\ promised[d] = 0
    BY <1>1, <1>6 DEF Pledge
  <2>2. books.held + books.promisedTotal + x <= hub.totalCap
    BY <1>6 DEF Pledge, FitsTotal
  <2> QED BY <1>1, <1>2, <1>3, <2>1, <2>2
<1>7. ~MoneyStill(d)
  BY <1>1, <1>4 DEF MoneyStill
<1>8. ~Close(d)
  BY <1>1, <1>4 DEF Close
<1>9. \A x \in Amounts : ~FundPromised(d, x)
  <2>1. ASSUME NEW x \in Amounts, FundPromised(d, x) PROVE FALSE
    <3>1. balance'[d] = balance[d] + x /\ promised'[d] = promised[d] - x
      BY <1>1, <2>1 DEF FundPromised, TakeIn
    <3> QED BY <1>1, <1>3, <1>4, <3>1
  <2> QED BY <2>1
<1>10. \A x \in Amounts : ~PayFee(d, x)
  BY <1>1, <1>3, <1>4 DEF PayFee
<1>11. \A u \in Users, x \in Amounts : ~PayTo(d, u, x)
  BY <1>1, <1>3, <1>4 DEF PayTo
<1>12. ~\E x, y, z \in 0..MaxAmount : LongstopSplit(d, x, y, z)
  <2>1. ASSUME NEW x \in 0..MaxAmount, NEW y \in 0..MaxAmount, NEW z \in 0..MaxAmount,
               LongstopSplit(d, x, y, z)
        PROVE  FALSE
    <3>1. balance' = [balance EXCEPT ![d] = 0] /\ promised' = [promised EXCEPT ![d] = 0]
      BY <2>1 DEF LongstopSplit
    <3> QED BY <1>1, <1>4, <3>1
  <2> QED BY <2>1
<1> QED BY <1>5, <1>6, <1>7, <1>8, <1>9, <1>10, <1>11, <1>12, WhatMovesMoney DEF BooksInv

\* The family's exposure grows only within its total cap, whatever was promised before.
THEOREM ExposureStaysCapped == Spec => ExposureWithinCap
<1> DEFINE Capped == books'.held + books'.promisedTotal > books.held + books.promisedTotal =>
                         books'.held + books'.promisedTotal <= hub.totalCap
<1>1. BooksInv /\ BooksInv' /\ TotalsAreSums /\ [Next]_vars => Capped
  <2> SUFFICES ASSUME BooksInv, BooksInv', TotalsAreSums, [Next]_vars,
                      books'.held + books'.promisedTotal > books.held + books.promisedTotal
               PROVE  books'.held + books'.promisedTotal <= hub.totalCap
    OBVIOUS
  <2>1. OwedAddsUp(books)
    BY DEF TotalsAreSums, OwedAddsUp
  <2>2. NoneMoves \/ \E d \in Deals : BooksFollow(d)
    BY <2>1, StepMovesOneDeal
  <2>3. ~NoneMoves
    <3>1. books.held \in Nat /\ books.promisedTotal \in Nat
      BY DEF BooksInv, TypeOK, Books
    <3> QED BY <3>1 DEF NoneMoves
  <2> QED BY <2>1, <2>2, <2>3, FreshMoneyFits
<1>2. BooksInv /\ BooksInv' /\ TotalsAreSums /\ [Next]_vars => [Capped]_vars
  BY <1>1
<1> QED BY <1>2, BooksAlwaysKept, TotalsAlwaysSums, PTL DEF Spec, ExposureWithinCap

-----------------------------------------------------------------------------
(* Who a deal knows: its payer, whom payouts were signed over to, who accepted. *)

PartiesKnown ==
    /\ \A d \in Deals : Payer(d) \in Payers \cup {None}
    /\ \A d \in Deals, u \in Users : assignment[d][u].assignee \in Assignees \cup {None}

ConsentKnown ==
    \A d \in Deals : /\ status[d] = "None" => consent[d] = {}
                     /\ \A u \in consent[d] : IsPayee(d, u)

LEMMA AssigneePaidToSame ==
    ASSUME NEW g \in [Deals -> [Users -> Assignment]], NEW d \in Deals, NEW u \in Users, NEW amount
    PROVE  /\ DOMAIN AssigneePaid(g, d, u, amount) = Deals
           /\ \A e \in Deals : DOMAIN AssigneePaid(g, d, u, amount)[e] = Users
           /\ \A e \in Deals, v \in Users :
                 AssigneePaid(g, d, u, amount)[e][v].assignee = g[e][v].assignee
BY DEF AssigneePaid, Assignment

LEMMA AssigneesStayKnown ==
    ASSUME TypeOK, PartiesKnown, [Next]_vars
    PROVE  \A d \in Deals, u \in Users : assignment'[d][u].assignee \in Assignees \cup {None}
<1>1. ASSUME assignment' = assignment
      PROVE  \A d \in Deals, u \in Users : assignment'[d][u].assignee \in Assignees \cup {None}
  BY <1>1 DEF PartiesKnown
<1>2. assignment \in [Deals -> [Users -> Assignment]]
  BY DEF TypeOK
<1>3. ASSUME NEW d \in Deals, NEW u \in Users, NEW g, g.assignee \in Assignees \cup {None},
             assignment' = [assignment EXCEPT ![d][u] = g]
      PROVE  \A e \in Deals, v \in Users : assignment'[e][v].assignee \in Assignees \cup {None}
  BY <1>2, <1>3 DEF PartiesKnown
<1>4. ASSUME NEW d \in Deals, FamilyStep(d)
      PROVE  \A e \in Deals, u \in Users : assignment'[e][u].assignee \in Assignees \cup {None}
  <2>1. CASE \E u \in Users, x \in Amounts : PayTo(d, u, x)
    <3>1. PICK u \in Users, x \in Amounts : PayTo(d, u, x)
      BY <2>1
    <3>2. assignment' = AssigneePaid(assignment, d, u, x)
      BY <3>1 DEF PayTo
    <3> QED BY <1>2, <3>2, AssigneePaidToSame DEF PartiesKnown
  <2>2. CASE assignment' = assignment
    BY <1>1, <2>2
  <2> QED BY <1>4, <2>1, <2>2
          DEF FamilyStep, Open, AddPayee, MarkConsent, RecordOutcome, FundFresh, FundPromised, TakeIn,
              Pledge, PayFee, Close, ExtendHorizon, signVars
<1>5. ASSUME NEW d \in Deals, PublicStep(d)
      PROVE  \A e \in Deals, u \in Users : assignment'[e][u].assignee \in Assignees \cup {None}
  <2>1. ASSUME NEW u \in Users, NEW a \in Assignees, NEW x, Assigns(d, u, a, x)
        PROVE  \A e \in Deals, v \in Users : assignment'[e][v].assignee \in Assignees \cup {None}
    <3>1. [assignee |-> a, amount |-> x, paid |-> 0].assignee \in Assignees \cup {None}
      OBVIOUS
    <3>2. assignment' = [assignment EXCEPT ![d][u] = [assignee |-> a, amount |-> x, paid |-> 0]]
      BY <2>1 DEF Assigns
    <3> QED BY <1>3, <3>1, <3>2
  <2>2. ASSUME NEW u \in Users, ReleaseAssignment(d, u)
        PROVE  \A e \in Deals, v \in Users : assignment'[e][v].assignee \in Assignees \cup {None}
    <3>1. NoAssignment.assignee \in Assignees \cup {None}
      BY DEF NoAssignment
    <3> QED BY <1>3, <2>2, <3>1 DEF ReleaseAssignment
  <2>3. CASE (\E u \in Users : RetryRecord(d, u)) \/ Hold(d) \/ ReleaseHold(d)
    BY <1>1, <2>3 DEF RetryRecord, Hold, ReleaseHold, signVars
  <2>4. CASE \E x, y, z \in 0..MaxAmount : LongstopSplit(d, x, y, z)
    <3>1. PICK x \in 0..MaxAmount, y \in 0..MaxAmount, z \in 0..MaxAmount : LongstopSplit(d, x, y, z)
      BY <2>4
    <3> DEFINE g1 == AssigneePaid(assignment, d, PayeeAt(d, 1), y)
    <3>2. assignment' = AssigneePaid(g1, d, PayeeAt(d, 2), z)
      BY <3>1 DEF LongstopSplit
    <3>3. \A e \in Deals, v \in Users : assignment'[e][v].assignee = assignment[e][v].assignee
      BY <1>2, <3>2 DEF AssigneePaid, Assignment
    <3> QED BY <3>3 DEF PartiesKnown
  <2>5. CASE \/ \E u \in Users, a \in Assignees, x \in Amounts : AssignPayout(d, u, a, x)
             \/ \E u \in Users, a \in Assignees, x \in Amounts, n \in Nonces :
                    AssignBySignature(d, u, a, x, n)
    BY <2>1, <2>5 DEF AssignPayout, AssignBySignature
  <2> QED BY <1>5, <2>2, <2>3, <2>4, <2>5 DEF PublicStep
<1>6. CASE \/ UNCHANGED vars
           \/ \E u \in Users : WithdrawOwed(u)
           \/ \E u \in Users, n \in Nonces : CancelNonce(u, n)
           \/ RebalanceYield \/ Governance \/ Tick
  BY <1>1, <1>6
     DEF vars, WithdrawOwed, CancelNonce, RebalanceYield, Governance, PauseFamily, ResumeFamily,
         RetireFamily, RevokeFamily, SetAsset, SetCaps, SetHub, Tick, signVars
<1> QED BY <1>4, <1>5, <1>6 DEF Next

\* What a step does to who belongs to a deal: nothing, or it opens it, names a payee, takes a consent.
LEMMA PartiesStayKnown ==
    ASSUME TypeOK, PartiesKnown, ConsentKnown, [Next]_vars
    PROVE  PartiesKnown' /\ ConsentKnown'
<1>1. ASSUME \A e \in Deals : /\ Payer(e)' \in Payers \cup {None}
                              /\ status'[e] = "None" => consent'[e] = {}
                              /\ \A u \in consent'[e] : IsPayee(e, u)'
      PROVE  PartiesKnown' /\ ConsentKnown'
  BY <1>1, AssigneesStayKnown DEF PartiesKnown, ConsentKnown
<1>2. ASSUME terms' = terms, payees' = payees, consent' = consent,
             \A e \in Deals : status'[e] = "None" => status[e] = "None"
      PROVE  PartiesKnown' /\ ConsentKnown'
  BY <1>1, <1>2 DEF PartiesKnown, ConsentKnown, Payer, IsPayee
<1>3. ASSUME NEW d \in Deals, FamilyStep(d)
      PROVE  PartiesKnown' /\ ConsentKnown'
  <2>1. CASE \E payer \in Payers, list \in Lists, h \in now + 1..now + MaxHorizon,
                fee \in FeeRates, share \in YieldShares, cap \in DealCaps :
                    Open(d, payer, list, h, fee, share, cap)
    <3>1. PICK payer \in Payers, list \in Lists, h \in now + 1..now + MaxHorizon,
               fee \in FeeRates, share \in YieldShares, cap \in DealCaps :
                   Open(d, payer, list, h, fee, share, cap)
      BY <2>1
    <3>2. /\ status[d] = "None" /\ status'[d] = "Live" /\ consent' = consent
          /\ terms'[d].payer = payer
          /\ \A e \in Deals : e # d => status'[e] = status[e] /\ terms'[e] = terms[e] /\ payees'[e] = payees[e]
      BY <3>1 DEF Open, TypeOK
    <3>3. consent'[d] = {}
      BY <3>2 DEF ConsentKnown
    <3> QED BY <1>1, <3>2, <3>3 DEF PartiesKnown, ConsentKnown, Payer, IsPayee
  <2>2. CASE \E u \in Payees : AddPayee(d, u)
    <3>1. PICK u \in Payees : AddPayee(d, u)
      BY <2>2
    <3>2. /\ status' = status /\ terms' = terms /\ consent' = consent
          /\ payees' = [payees EXCEPT ![d] = Append(@, u)]
      BY <3>1 DEF AddPayee
    <3>3. \A e \in Deals : \A v : IsPayee(e, v) => IsPayee(e, v)'
      <4>1. payees \in [Deals -> Seq(Users)] /\ u \in Users
        BY SettlementAssumption DEF TypeOK
      <4>2. /\ Len(payees'[d]) = Len(payees[d]) + 1
            /\ \A i \in 1..Len(payees[d]) : payees'[d][i] = payees[d][i]
        BY <3>2, <4>1
      <4>3. \A e \in Deals : e # d => payees'[e] = payees[e]
        BY <3>2, <4>1
      <4>4. Len(payees[d]) \in Nat
        BY <4>1
      <4> QED BY <4>2, <4>3, <4>4 DEF IsPayee
    <3> QED BY <1>1, <3>2, <3>3 DEF PartiesKnown, ConsentKnown, Payer
  <2>3. CASE \E u \in Subjects : MarkConsent(d, u)
    <3>1. PICK u \in Subjects : MarkConsent(d, u)
      BY <2>3
    <3>2. /\ Live(d) /\ IsPayee(d, u) /\ status' = status /\ terms' = terms /\ payees' = payees
          /\ consent' = [consent EXCEPT ![d] = @ \cup {u}]
      BY <3>1 DEF MarkConsent
    <3>3. consent'[d] = consent[d] \cup {u} /\ \A e \in Deals : e # d => consent'[e] = consent[e]
      BY <3>2 DEF TypeOK
    <3> QED BY <1>1, <3>2, <3>3 DEF PartiesKnown, ConsentKnown, Payer, IsPayee, Live
  <2>4. CASE Close(d)
    <3>1. \A e \in Deals : status'[e] = "None" => status[e] = "None"
      BY <2>4 DEF Close, TypeOK
    <3> QED BY <1>2, <2>4, <3>1 DEF Close
  <2>5. CASE UNCHANGED dealVars
    BY <1>2, <2>5 DEF dealVars
  <2> QED BY <1>3, <2>1, <2>2, <2>3, <2>4, <2>5
          DEF FamilyStep, RecordOutcome, FundFresh, FundPromised, TakeIn, Pledge, PayFee, PayTo, ExtendHorizon
<1>4. ASSUME NEW d \in Deals, PublicStep(d)
      PROVE  PartiesKnown' /\ ConsentKnown'
  <2>1. CASE \E x, y, z \in 0..MaxAmount : LongstopSplit(d, x, y, z)
    <3>1. PICK x \in 0..MaxAmount, y \in 0..MaxAmount, z \in 0..MaxAmount : LongstopSplit(d, x, y, z)
      BY <2>1
    <3>2. \A e \in Deals : status'[e] = "None" => status[e] = "None"
      BY <3>1 DEF LongstopSplit, TypeOK
    <3> QED BY <1>2, <3>1, <3>2 DEF LongstopSplit
  <2>2. CASE UNCHANGED dealVars
    BY <1>2, <2>2 DEF dealVars
  <2> QED BY <1>4, <2>1, <2>2
          DEF PublicStep, AssignPayout, AssignBySignature, Assigns, ReleaseAssignment, RetryRecord, Hold,
              ReleaseHold
<1>5. CASE \/ UNCHANGED vars
           \/ \E u \in Users : WithdrawOwed(u)
           \/ \E u \in Users, n \in Nonces : CancelNonce(u, n)
           \/ RebalanceYield \/ Governance \/ Tick
  BY <1>2, <1>5
     DEF vars, WithdrawOwed, CancelNonce, RebalanceYield, Governance, PauseFamily, ResumeFamily,
         RetireFamily, RevokeFamily, SetAsset, SetCaps, SetHub, Tick, dealVars
<1> QED BY <1>3, <1>4, <1>5 DEF Next

LEMMA PartiesAlwaysKnown == Spec => [](PartiesKnown /\ ConsentKnown)
<1>1. Init => PartiesKnown /\ ConsentKnown
  BY DEF Init, PartiesKnown, ConsentKnown, Payer, NoTerms, NoAssignment
<1>2. BooksInv /\ PartiesKnown /\ ConsentKnown /\ [Next]_vars => (PartiesKnown /\ ConsentKnown)'
  BY PartiesStayKnown DEF BooksInv
<1> QED BY <1>1, <1>2, BooksAlwaysKept, PTL DEF Spec

-----------------------------------------------------------------------------
(* Outcomes. *)

LEMMA RecordsNeverForgotten ==
    ASSUME [Next]_vars
    PROVE  written \subseteq written' /\ pending \subseteq pending' \cup written'
<1>1. ASSUME UNCHANGED recVars PROVE written \subseteq written' /\ pending \subseteq pending' \cup written'
  BY <1>1 DEF recVars
<1>2. ASSUME NEW d, NEW parties, Record(d, parties)
      PROVE  written \subseteq written' /\ pending \subseteq pending' \cup written'
  BY <1>2 DEF Record
<1>3. ASSUME NEW d \in Deals, FamilyStep(d)
      PROVE  written \subseteq written' /\ pending \subseteq pending' \cup written'
  <2>1. CASE \E u \in Subjects : RecordOutcome(d, u)
    BY <1>2, <2>1 DEF RecordOutcome
  <2>2. CASE UNCHANGED recVars
    BY <1>1, <2>2
  <2> QED BY <1>3, <2>1, <2>2
          DEF FamilyStep, Open, AddPayee, MarkConsent, FundFresh, FundPromised, TakeIn, Pledge, PayFee,
              PayTo, Close, ExtendHorizon
<1>4. ASSUME NEW d \in Deals, PublicStep(d)
      PROVE  written \subseteq written' /\ pending \subseteq pending' \cup written'
  <2>1. CASE \E x, y, z \in 0..MaxAmount : LongstopSplit(d, x, y, z)
    <3>1. PICK x \in 0..MaxAmount, y \in 0..MaxAmount, z \in 0..MaxAmount : LongstopSplit(d, x, y, z)
      BY <2>1
    <3>2. Record(d, {u \in Users : IsParty(d, u)})
      BY <3>1 DEF LongstopSplit
    <3> QED BY <1>2, <3>2
  <2>2. CASE \E u \in Users : RetryRecord(d, u)
    BY <2>2 DEF RetryRecord
  <2>3. CASE UNCHANGED recVars
    BY <1>1, <2>3
  <2> QED BY <1>4, <2>1, <2>2, <2>3
          DEF PublicStep, AssignPayout, AssignBySignature, Assigns, ReleaseAssignment, Hold, ReleaseHold
<1>5. CASE \/ UNCHANGED vars
           \/ \E u \in Users : WithdrawOwed(u)
           \/ \E u \in Users, n \in Nonces : CancelNonce(u, n)
           \/ RebalanceYield \/ Governance \/ Tick
  BY <1>1, <1>5
     DEF vars, WithdrawOwed, CancelNonce, RebalanceYield, Governance, PauseFamily, ResumeFamily,
         RetireFamily, RevokeFamily, SetAsset, SetCaps, SetHub, Tick
<1> QED BY <1>3, <1>4, <1>5 DEF Next

\* A live deal with money in it closes only by a long-stop split.
LEMMA FullDealsCloseByLongstop ==
    ASSUME TypeOK, [Next]_vars, NEW d \in Deals, Live(d), balance[d] # 0, status'[d] = "Closed"
    PROVE  \E x, y, z \in 0..MaxAmount : LongstopSplit(d, x, y, z)
<1>1. status[d] = "Live"
  BY DEF Live
<1>2. ~MoneyStill(d) /\ ~Close(d)
  BY <1>1 DEF CanClose, MoneyStill, Close
<1>3. \A x \in Amounts : ~FundFresh(d, x) /\ ~FundPromised(d, x) /\ ~Pledge(d, x) /\ ~PayFee(d, x)
  BY <1>1 DEF FundFresh, FundPromised, TakeIn, Pledge, PayFee, dealVars
<1>4. \A u \in Users, x \in Amounts : ~PayTo(d, u, x)
  BY <1>1 DEF PayTo, dealVars
<1> QED BY <1>2, <1>3, <1>4, WhatMovesMoney

\* A long-stop reports an outcome for each party that agreed, in the step that pays it, and none is
\* forgotten before the record holds it.
THEOREM OutcomesAlwaysKept == Spec => OutcomesKept
<1> DEFINE Kept ==
        /\ written \subseteq written' /\ pending \subseteq pending' \cup written'
        /\ \A d \in Deals : Live(d) /\ balance[d] # 0 /\ status'[d] = "Closed"
                            => Recordable(d, Users) \subseteq pending' \cup written'
<1>1. BooksInv /\ ConsentKnown /\ [Next]_vars => Kept
  <2> SUFFICES ASSUME BooksInv, ConsentKnown, [Next]_vars PROVE Kept
    OBVIOUS
  <2>1. ASSUME NEW d \in Deals, Live(d), balance[d] # 0, status'[d] = "Closed"
        PROVE  Recordable(d, Users) \subseteq pending' \cup written'
    <3> DEFINE parties == {u \in Users : IsParty(d, u)}
    <3>1. PICK x \in 0..MaxAmount, y \in 0..MaxAmount, z \in 0..MaxAmount : LongstopSplit(d, x, y, z)
      BY <2>1, FullDealsCloseByLongstop DEF BooksInv
    <3>2. Recordable(d, parties) \subseteq pending' \cup written'
      BY <3>1 DEF LongstopSplit, Record
    <3>3. Recordable(d, Users) \subseteq Recordable(d, parties)
      BY DEF Recordable, ConsentKnown, IsParty
    <3> QED BY <3>2, <3>3
  <2> QED BY <2>1, RecordsNeverForgotten
<1>2. BooksInv /\ ConsentKnown /\ [Next]_vars => [Kept]_vars
  BY <1>1
<1> QED BY <1>2, BooksAlwaysKept, PartiesAlwaysKnown, PTL DEF Spec, OutcomesKept

-----------------------------------------------------------------------------
(* The assignee is first in line. *)

\* Someone who is no assignee gains from a payout to them only what the assignee left.
LEMMA GainMeansAssigneePaid ==
    ASSUME TypeOK, CutBounded, PartiesKnown, NEW d \in Deals, NEW w \in Users, NEW x \in Nat,
           NEW u \in Users, u \notin Assignees, Receives(d, w, x, u) # 0,
           assignment[d][u].assignee # None
    PROVE  u = w /\ assignment[d][u].paid + AssigneeCut(d, u, x) = assignment[d][u].amount
<1>1. u # assignment[d][w].assignee
  BY SettlementAssumption DEF PartiesKnown
<1>2. u = w /\ x - AssigneeCut(d, u, x) # 0
  <2>1. u = w
    BY <1>1 DEF Receives
  <2>2. Receives(d, w, x, u) = x - AssigneeCut(d, u, x) + 0
    BY <1>1, <2>1 DEF Receives
  <2>3. x - AssigneeCut(d, u, x) \in Int
    BY DEF AssigneeCut, AtMost, TypeOK, Assignment
  <2> QED BY <2>1, <2>2, <2>3
<1>3. assignment[d][u].amount \in Nat /\ assignment[d][u].paid \in Nat
  BY DEF TypeOK, Assignment
<1>4. AssigneeCut(d, u, x) = AtMost(x, assignment[d][u].amount - assignment[d][u].paid)
  BY DEF AssigneeCut
<1> QED BY <1>2, <1>3, <1>4 DEF AtMost

LEMMA AssigneePaidAt ==
    ASSUME NEW g \in [Deals -> [Users -> Assignment]], NEW d \in Deals, NEW w \in Users, NEW x
    PROVE  /\ AssigneePaid(g, d, w, x)[d][w].paid = g[d][w].paid + AssigneeCut(d, w, x)
           /\ AssigneePaid(g, d, w, x)[d][w].amount = g[d][w].amount
           /\ \A u \in Users : u # w => AssigneePaid(g, d, w, x)[d][u] = g[d][u]
BY DEF AssigneePaid, Assignment

LEMMA PayToPaysAssigneeFirst ==
    ASSUME BooksInv, PartiesKnown, OwedAddsUp(books), NEW d \in Deals, NEW w \in Users, NEW x \in Nat,
           PayTo(d, w, x), NEW u \in Users, u \notin Assignees,
           assignment[d][u].assignee # None, ClaimIn(books', u) > ClaimIn(books, u)
    PROVE  assignment'[d][u].paid = assignment'[d][u].amount
<1>1. /\ books' \in PaidOut(books, d, w, x) /\ x <= books.held
      /\ assignment' = AssigneePaid(assignment, d, w, x)
  BY DEF CanPayTo, PayTo, Takes
<1>2. Receives(d, w, x, u) # 0
  <2>1. ClaimIn(books', u) = ClaimIn(books, u) + Receives(d, w, x, u)
    BY <1>1, CutsBounded, PaidOutClaims
  <2>2. ClaimIn(books, u) \in Nat
    BY CutsBounded
  <2> QED BY <2>1, <2>2
<1>3. u = w /\ assignment[d][u].paid + AssigneeCut(d, u, x) = assignment[d][u].amount
  BY <1>2, GainMeansAssigneePaid DEF BooksInv
<1>4. assignment \in [Deals -> [Users -> Assignment]]
  BY DEF BooksInv, TypeOK
<1>5. /\ AssigneePaid(assignment, d, u, x)[d][u].paid = assignment[d][u].paid + AssigneeCut(d, u, x)
      /\ AssigneePaid(assignment, d, u, x)[d][u].amount = assignment[d][u].amount
  BY <1>4, AssigneePaidAt
<1> QED BY <1>1, <1>3, <1>5

LEMMA PayFeePaysOnlyTheFee ==
    ASSUME BooksInv, BooksInv', OwedAddsUp(books), NEW d \in Deals, NEW x \in Nat, PayFee(d, x),
           NEW u \in Users, u # FeeRecipient
    PROVE  ~(ClaimIn(books', u) > ClaimIn(books, u))
<1>1. x <= balance[d] /\ x <= books.held
  BY DEF PayFee, Takes
<1>2. PICK b \in Trim(Taken(books, d, x), d) : books' \in Deliver(b, FeeRecipient, x)
  BY DEF PayFee
<1>3. FeeRecipient \in Users
  BY SettlementAssumption
<1>4. Taken(books, d, x) \in Books /\ SameClaims(books, Taken(books, d, x))
  BY <1>1, CutsBounded, TakenKeeps, TakenSameClaims
<1>5. b \in Books /\ SameClaims(Taken(books, d, x), b)
  BY <1>2, <1>4, TrimKeeps, TrimSameClaims
<1>6. SameClaims(books, b) /\ OwedAddsUp(b)
  BY <1>4, <1>5 DEF SameClaims, OwedAddsUp
<1>7. Gives(b, books', FeeRecipient, x)
  BY <1>2, <1>3, <1>5, <1>6, DeliverClaims
<1>8. ClaimIn(books', u) = ClaimIn(books, u) + 0 /\ ClaimIn(books, u) \in Nat
  BY <1>6, <1>7, CutsBounded DEF Gives, SameClaims, ClaimIn
<1> QED BY <1>8

LEMMA LongstopPaysAssigneesFirst ==
    ASSUME BooksInv, PayeesDistinct, PartiesKnown, OwedAddsUp(books), NEW d \in Deals,
           NEW x \in Nat, NEW y \in Nat, NEW z \in Nat, LongstopSplit(d, x, y, z),
           NEW u \in Users, u \notin Payers \cup Assignees,
           assignment[d][u].assignee # None, ClaimIn(books', u) > ClaimIn(books, u)
    PROVE  assignment'[d][u].paid = assignment'[d][u].amount
<1> DEFINE p1 == PayeeAt(d, 1)
           p2 == PayeeAt(d, 2)
           g1 == AssigneePaid(assignment, d, p1, y)
<1>1. /\ {Payer(d), p1, p2} \subseteq Users
      /\ {Receives(d, Payer(d), x, u), Receives(d, p1, y, u), Receives(d, p2, z, u)} \subseteq Nat
      /\ ClaimIn(books', u) = ClaimIn(books, u) + Receives(d, Payer(d), x, u)
                             + Receives(d, p1, y, u) + Receives(d, p2, z, u)
  BY LongstopFollows
<1>2. ClaimIn(books, u) \in Nat
  BY CutsBounded
<1>3. u # Payer(d)
  BY SettlementAssumption DEF PartiesKnown
<1>4. ~(u = p1 /\ u = p2)
  <2>1. ASSUME u = p1, u = p2 PROVE FALSE
    <3>1. 1 <= Len(payees[d]) /\ 2 <= Len(payees[d]) /\ payees[d][1] = payees[d][2]
      BY <1>3, <2>1 DEF PayeeAt
    <3>2. Len(payees[d]) \in Nat
      BY DEF BooksInv, TypeOK
    <3> QED BY <3>1, <3>2 DEF PayeesDistinct
  <2> QED BY <2>1
<1>5. assignment \in [Deals -> [Users -> Assignment]] /\ CutBounded
  BY DEF BooksInv, TypeOK
<1>6. g1 \in [Deals -> [Users -> Assignment]]
  BY <1>1, <1>5, AssigneePaidKeeps DEF CutBounded
<1>7. assignment' = AssigneePaid(g1, d, p2, z)
  BY DEF LongstopSplit
<1>8. /\ g1[d][p1].paid = assignment[d][p1].paid + AssigneeCut(d, p1, y)
      /\ g1[d][p1].amount = assignment[d][p1].amount
      /\ \A v \in Users : v # p1 => g1[d][v] = assignment[d][v]
  BY <1>1, <1>5, AssigneePaidAt
<1>9. /\ assignment'[d][p2].paid = g1[d][p2].paid + AssigneeCut(d, p2, z)
      /\ assignment'[d][p2].amount = g1[d][p2].amount
      /\ \A v \in Users : v # p2 => assignment'[d][v] = g1[d][v]
  <2> HIDE DEF g1
  <2> QED BY <1>1, <1>6, <1>7, AssigneePaidAt
<1> HIDE DEF p1, p2, g1
<1>10. Receives(d, Payer(d), x, u) = 0
  BY <1>1, <1>3, GainMeansAssigneePaid DEF BooksInv
<1>11. Receives(d, p1, y, u) # 0 \/ Receives(d, p2, z, u) # 0
  BY <1>1, <1>2, <1>10
<1>12. CASE Receives(d, p1, y, u) # 0
  <2>1. u = p1 /\ assignment[d][u].paid + AssigneeCut(d, u, y) = assignment[d][u].amount
    BY <1>1, <1>12, GainMeansAssigneePaid DEF BooksInv
  <2> QED BY <1>4, <1>8, <1>9, <2>1
<1>13. CASE Receives(d, p2, z, u) # 0
  <2>1. u = p2 /\ assignment[d][u].paid + AssigneeCut(d, u, z) = assignment[d][u].amount
    BY <1>1, <1>13, GainMeansAssigneePaid DEF BooksInv
  <2> QED BY <1>4, <1>8, <1>9, <2>1
<1> QED BY <1>11, <1>12, <1>13

\* A payee who signed a payout over gets nothing from the deal before the assignee has it all, in
\* any payout and in the long-stop's split alike.
THEOREM AssigneesComeFirst == Spec => AssigneeFirst
<1> DEFINE First ==
        \A d \in Deals, u \in Users \ ({FeeRecipient} \cup Payers \cup Assignees) :
            /\ assignment[d][u].assignee # None /\ balance'[d] < balance[d]
            /\ Claim(u)' > Claim(u)
            => assignment'[d][u].paid = assignment'[d][u].amount
<1>1. BooksInv /\ BooksInv' /\ PayeesDistinct /\ PartiesKnown /\ TotalsAreSums /\ [Next]_vars => First
  <2> SUFFICES ASSUME BooksInv, BooksInv', PayeesDistinct, PartiesKnown, TotalsAreSums, [Next]_vars,
                      NEW d \in Deals, NEW u \in Users \ ({FeeRecipient} \cup Payers \cup Assignees),
                      assignment[d][u].assignee # None, balance'[d] < balance[d], Claim(u)' > Claim(u)
               PROVE  assignment'[d][u].paid = assignment'[d][u].amount
    OBVIOUS
  <2>1. ClaimIn(books', u) > ClaimIn(books, u)
    BY DEF Claim, ClaimIn
  <2>2. OwedAddsUp(books)
    BY DEF TotalsAreSums, OwedAddsUp
  <2>3. \A x \in Amounts : x \in Nat
    BY SettlementAssumption DEF Amounts
  <2>4. /\ balance \in [Deals -> Nat] /\ balance' \in [Deals -> Nat]
    BY DEF BooksInv, TypeOK
  <2>5. ~MoneyStill(d)
    BY <2>4 DEF MoneyStill
  <2>6. ~Close(d) /\ \A x \in Amounts : ~FundFresh(d, x) /\ ~FundPromised(d, x) /\ ~Pledge(d, x)
    <3>1. ~Close(d) /\ \A x \in Amounts : ~Pledge(d, x)
      BY <2>4 DEF Close, Pledge
    <3>2. ASSUME NEW x \in Amounts, FundFresh(d, x) \/ FundPromised(d, x) PROVE FALSE
      <4>1. balance' = [balance EXCEPT ![d] = @ + x]
        BY <3>2 DEF FundFresh, FundPromised, TakeIn
      <4>2. balance'[d] = balance[d] + x /\ x \in Nat
        BY <2>3, <2>4, <4>1
      <4> QED BY <2>4, <4>2
    <3> QED BY <3>1, <3>2
  <2>7. \A x \in Amounts : ~PayFee(d, x)
    BY <2>1, <2>2, <2>3, PayFeePaysOnlyTheFee
  <2>8. CASE \E w \in Users, x \in Amounts : PayTo(d, w, x)
    BY <2>1, <2>2, <2>3, <2>8, PayToPaysAssigneeFirst
  <2>9. CASE \E x, y, z \in 0..MaxAmount : LongstopSplit(d, x, y, z)
    <3>1. PICK x \in 0..MaxAmount, y \in 0..MaxAmount, z \in 0..MaxAmount : LongstopSplit(d, x, y, z)
      BY <2>9
    <3>2. x \in Nat /\ y \in Nat /\ z \in Nat
      BY SettlementAssumption
    <3> QED BY <2>1, <2>2, <3>1, <3>2, LongstopPaysAssigneesFirst
  <2> QED BY <2>5, <2>6, <2>7, <2>8, <2>9, WhatMovesMoney DEF BooksInv
<1>2. BooksInv /\ BooksInv' /\ PayeesDistinct /\ PartiesKnown /\ TotalsAreSums /\ [Next]_vars => [First]_vars
  BY <1>1
<1> QED BY <1>2, BooksAlwaysKept, PartiesAlwaysKnown, TotalsAlwaysSums, PTL DEF Spec, AssigneeFirst

-----------------------------------------------------------------------------
(***************************************************************************)
(* The exits.  What is due is never more than the totals the code checks   *)
(* it against, and a payout nobody would take is credited, so no guard on  *)
(* the way out can fail.                                                   *)
(***************************************************************************)

LEMMA TotalBounds ==
    ASSUME NEW S, IsFiniteSet(S), NEW f \in [S -> Nat], NEW x \in S
    PROVE  f[x] <= Total(f)
<1>1. Total(f) = SumOn(f, S)
  BY TotalIsSum
<1>2. S \in SUBSET S /\ \A y \in S : f[y] \in Int
  OBVIOUS
<1>3. SumOn(f, S) = f[x] + SumOn(f, S \ {x})
  BY <1>2, SumRemove
<1>4. SumOn(f, S \ {x}) \in Nat
  <2>1. IsFiniteSet(S \ {x}) /\ \A y \in S \ {x} : f[y] \in Nat
    BY FS_Subset
  <2> QED BY <2>1, SumNat
<1> QED BY <1>1, <1>3, <1>4

\* A pool that refuses: nothing moves.
LEMMA TrimMayDoNothing ==
    ASSUME NEW b, NEW d
    PROVE  b \in Trim(b, d)
<1> DEFINE r == [ok |-> FALSE, books |-> b]
<1>1. r.books = b /\ \A x : r \in Pull(b, x)
  BY DEF Pull
<1>2. \A x : b \in {q.books : q \in Pull(b, x)}
  BY <1>1
<1> QED BY <1>2 DEF Trim

\* A delivery that the token and the pool refuse is credited, and no other money moves.
LEMMA RefusedDelivery ==
    ASSUME NEW b \in Books, NEW to, NEW amount \in Nat, amount # 0 => to \in Users
    PROVE  \E c \in Deliver(b, to, amount) : c \in Books /\ c.wallet = b.wallet /\ c.parked = b.parked
<1>1. CASE amount = 0
  BY <1>1 DEF Deliver
<1>2. CASE amount # 0
  <2>1. \E r \in Liquid(b, amount) : r.books = b
    <3> DEFINE ready == [ok |-> TRUE, books |-> b]
               refused == [ok |-> FALSE, books |-> b]
    <3>1. ready \in Liquid(b, amount) \/ refused \in Liquid(b, amount)
      BY DEF Liquid, Pull
    <3>2. ready.books = b /\ refused.books = b
      OBVIOUS
    <3> HIDE DEF ready, refused
    <3> QED BY <3>1, <3>2
  <2>2. Credited(b, to, amount) \in Deliver(b, to, amount)
    BY <1>2, <2>1 DEF Deliver
  <2>3. Credited(b, to, amount) \in Books
    BY <1>2, CreditedKeeps
  <2>4. /\ Credited(b, to, amount).wallet = b.wallet
        /\ Credited(b, to, amount).parked = b.parked
    BY DEF Credited, Books
  <2> QED BY <2>2, <2>3, <2>4
<1> QED BY <1>1, <1>2

\* So is a whole payout, its assignee's part included.
LEMMA RefusedPayout ==
    ASSUME terms \in [Deals -> Terms], assignment \in [Deals -> [Users -> Assignment]],
           NEW d \in Deals, NEW u \in Users, assignment[d][u].paid <= assignment[d][u].amount,
           NEW b \in Books, NEW amount \in Nat, amount <= b.held
    PROVE  \E c \in PaidOut(b, d, u, amount) : c.wallet = b.wallet /\ c.parked = b.parked
<1>1. CASE amount = 0
  BY <1>1 DEF PaidOut
<1>2. CASE amount # 0
  <2> DEFINE cut == AssigneeCut(d, u, amount)
             to == assignment[d][u].assignee
             b1 == Taken(b, d, amount)
  <2>1. cut \in Nat /\ amount - cut \in Nat /\ (cut # 0 => to \in Users)
    BY DEF AssigneeCut, AtMost, Assignment
  <2>2. b1 \in Books /\ b1 \in Trim(b1, d)
    BY TakenKeeps, TrimMayDoNothing
  <2>3. b1.wallet = b.wallet /\ b1.parked = b.parked
    BY DEF Taken, Books
  <2>4. PaidOut(b, d, u, amount) =
            UNION {Deliver(b3, u, amount - cut) : b3 \in UNION {Deliver(b2, to, cut) : b2 \in Trim(b1, d)}}
    BY <1>2 DEF PaidOut
  <2> HIDE DEF cut, to, b1
  <2>5. PICK b2 \in Deliver(b1, to, cut) : b2 \in Books /\ b2.wallet = b1.wallet /\ b2.parked = b1.parked
    BY <2>1, <2>2, RefusedDelivery
  <2>6. PICK c \in Deliver(b2, u, amount - cut) : c.wallet = b2.wallet /\ c.parked = b2.parked
    BY <2>1, <2>5, RefusedDelivery
  <2>7. c \in PaidOut(b, d, u, amount)
    BY <2>2, <2>4, <2>5, <2>6
  <2> QED BY <2>3, <2>5, <2>6, <2>7
<1> QED BY <1>1, <1>2

\* What one user is owed is in the escrow's cash, or parked.
LEMMA OwedIsThere ==
    ASSUME books \in Books, Solvent, NEW u \in Users, books.owed[u] <= books.owedTotal
    PROVE  OwedPaid(Cleared(u), u, books.owed[u]) # {}
<1> DEFINE x == books.owed[u]
           b == Cleared(u)
<1>1. x \in Nat /\ x <= books.cash + books.parked /\ books.cash \in Nat /\ books.parked \in Nat
  BY DEF Books, Solvent
<1>2. b.cash = books.cash /\ b.parked = books.parked
  BY DEF Cleared, Books
<1> HIDE DEF x, b
<1>3. \E r \in Liquid(b, x) : r.ok
  <2>1. CASE b.cash >= x
    <3> DEFINE ready == [ok |-> TRUE, books |-> b]
    <3>1. ready \in Liquid(b, x) /\ ready.ok
      BY <2>1 DEF Liquid
    <3> QED BY <3>1
  <2>2. CASE ~(b.cash >= x)
    <3> DEFINE more == x - b.cash
               pulled == [ok |-> TRUE, books |-> [b EXCEPT !.parked = @ - more, !.cash = @ + more]]
    <3>1. more <= b.parked
      BY <1>1, <1>2, <2>2
    <3>2. pulled \in Liquid(b, x) /\ pulled.ok
      BY <2>2, <3>1 DEF Liquid, Pull
    <3> HIDE DEF pulled
    <3> QED BY <3>2
  <2> QED BY <2>1, <2>2
<1> QED BY <1>3 DEF OwedPaid, x, b

\* S4: whatever governance, the token and the pool do, every part of a balance can be paid to any of
\* the deal's parties, its promise taken or dropped, the deal closed or split, and every owed payout
\* is there to be withdrawn: no guard and no checked subtraction on the way out can fail.
THEOREM ExitsAlwaysHaveTheMoney == Spec => []ExitsStayOpen
<1>1. ASSUME BooksInv, TotalsAreSums, ClosedIsEmpty PROVE ExitsStayOpen
  <2>1. /\ IsFiniteSet(Deals) /\ IsFiniteSet(Users)
        /\ balance \in [Deals -> Nat] /\ promised \in [Deals -> Nat] /\ books.owed \in [Users -> Nat]
        /\ books \in Books /\ Solvent
    BY <1>1, SettlementAssumption DEF BooksInv, TypeOK, Books
  <2>2. \A d \in Deals : balance[d] <= Total(balance) /\ promised[d] <= Total(promised)
    BY <2>1, TotalBounds
  <2>3. \A u \in Users : books.owed[u] <= Total(books.owed)
    BY <2>1, TotalBounds
  <2>4. /\ \A d \in Deals : balance[d] <= books.held /\ promised[d] <= books.promisedTotal
        /\ \A u \in Users : books.owed[u] <= books.owedTotal
    BY <1>1, <2>2, <2>3 DEF TotalsAreSums
  <2>5. /\ terms \in [Deals -> Terms] /\ assignment \in [Deals -> [Users -> Assignment]]
        /\ \A d \in Deals, u \in Users : assignment[d][u].paid <= assignment[d][u].amount
        /\ books.held \in Nat /\ books.promisedTotal \in Nat
    BY <1>1, <2>1 DEF BooksInv, TypeOK, CutBounded, Books
  <2>6. ASSUME NEW d \in Deals, NEW u \in Users, IsParty(d, u), NEW x \in 1..balance[d]
        PROVE  /\ CanPayTo(d, u, x)
               /\ \E b \in PaidOut(books, d, u, x) : b.wallet = books.wallet /\ b.parked = books.parked
    <3>1. x \in Nat /\ x <= balance[d] /\ x <= books.held
      BY <2>1, <2>4, <2>5
    <3>2. CanPayTo(d, u, x)
      BY <2>6, <3>1 DEF CanPayTo, Takes
    <3>3. \E b \in PaidOut(books, d, u, x) : b.wallet = books.wallet /\ b.parked = books.parked
      BY <2>1, <2>5, <3>1, RefusedPayout
    <3> QED BY <3>2, <3>3
  <2>7. ASSUME NEW d \in Deals
        PROVE  /\ Live(d) /\ balance[d] = 0 => CanClose(d)
               /\ LongstopOpen(d) => CanSplit(d)
               /\ IsFamily /\ hub.listed => \A x \in 1..promised[d] : CanTakePromised(d, x)
    <3>1. (Live(d) /\ balance[d] = 0 => CanClose(d)) /\ (LongstopOpen(d) => CanSplit(d))
      BY <2>1, <2>4 DEF CanClose, CanSplit, Takes
    <3>2. ASSUME IsFamily, hub.listed, NEW x \in 1..promised[d] PROVE CanTakePromised(d, x)
      <4>1. x <= promised[d] /\ promised[d] # 0 /\ x <= books.promisedTotal
        BY <2>1, <2>4, <2>5, <3>2
      <4>2. Live(d)
        BY <1>1, <4>1 DEF ClosedIsEmpty, Live
      <4> QED BY <3>2, <4>1, <4>2 DEF CanTakePromised, TakesPromised
    <3> QED BY <3>1, <3>2
  <2>8. \A u \in Users : books.owed[u] <= books.owedTotal /\ OwedPaid(Cleared(u), u, books.owed[u]) # {}
    BY <2>1, <2>4, OwedIsThere
  <2> QED BY <2>6, <2>7, <2>8 DEF ExitsStayOpen
<1> QED BY <1>1, BooksAlwaysKept, TotalsAlwaysSums, ClosedDealsAreEmpty, PTL
=============================================================================
