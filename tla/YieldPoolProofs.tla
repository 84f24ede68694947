--------------------------- MODULE YieldPoolProofs ---------------------------
(***************************************************************************)
(* Theorems about the yield pool, for any prices, settings and amounts.    *)
(* No call leaves less cash than nothing: a trade never takes more than    *)
(* the pool has.  And a sweep, which measures the yield again after its    *)
(* redemption, leaves what is parked covered whatever the Teller did.      *)
(* While the pool is covered and the Teller pays what it quotes, every     *)
(* family can take back all it parked, and no subscription has to be       *)
(* undone.                                                                 *)
(***************************************************************************)
EXTENDS YieldPool, FiniteSums, TLAPS

USE PoolAssumption

-----------------------------------------------------------------------------
(***************************************************************************)
(* Arithmetic, and what the pool's operators range over.                   *)
(***************************************************************************)
LEMMA ProductNat == ASSUME NEW a \in Nat, NEW b \in Nat PROVE a * b \in Nat
  OBVIOUS

LEMMA QuotientNat ==
    ASSUME NEW a \in Nat, NEW b \in Nat \ {0} PROVE a \div b \in Nat
  OBVIOUS

\* A share s of c, out of which s is a part, is no more than the whole.
LEMMA PartOfWhole ==
    ASSUME NEW e \in Nat, NEW s \in Nat, NEW c \in Nat, s < c
    PROVE  (e * s) \div c \in 0..e
<1> DEFINE q == (e * s) \div c
<1>1. e * s \in Nat /\ e * c \in Nat
  BY ProductNat
<1>2. q \in Nat
  BY <1>1, QuotientNat
<1>3. q * c <= e * s
  BY <1>1
<1>4. e * s <= e * c
  OBVIOUS
<1>5. ASSUME q > e PROVE FALSE
  <2>1. q * c >= (e + 1) * c
    BY <1>2, <1>5
  <2>2. (e + 1) * c = e * c + c
    OBVIOUS
  <2>3. q * c \in Nat
    BY <1>2, ProductNat
  <2> QED BY <1>1, <1>3, <1>4, <2>1, <2>2, <2>3
<1> QED BY <1>2, <1>5

LEMMA QuotesTyped ==
    ASSUME NEW q \in Quotes
    PROVE  q.bid \in Nat \ {0} /\ q.ask \in Nat \ {0} /\ q.answers \in BOOLEAN
  BY DEF PoolAssumption

LEMMA PreviewsNat ==
    ASSUME NEW a \in Nat, NEW q \in Quotes
    PROVE  /\ PreviewRedeem(a, q) \in Nat /\ PreviewDeposit(a, q) \in Nat
           /\ PreviewWithdraw(a, q) \in Nat
<1>1. q.bid \in Nat \ {0} /\ q.ask \in Nat \ {0}
  BY QuotesTyped
<1>2. a * q.bid \in Nat /\ a * Unit \in Nat
  BY <1>1, ProductNat
<1>3. a * Unit + q.bid - 1 \in Nat
  BY <1>1, <1>2
<1> QED BY <1>1, <1>2, <1>3, QuotientNat DEF PreviewRedeem, PreviewDeposit, PreviewWithdraw

LEMMA SharesForBounds ==
    ASSUME TypeOK, NEW gap \in Nat
    PROVE  SharesFor(gap) \in 0..shares
<1>1. PreviewWithdraw(gap, quote) \in Nat /\ shares \in Nat
  BY PreviewsNat DEF TypeOK
<1> QED BY <1>1 DEF SharesFor, AtMost

LEMMA TargetsNat ==
    ASSUME TypeOK
    PROVE  BufferTarget \in Nat /\ Cushion \in Nat
<1>1. /\ setting.bufferBps \in Nat /\ setting.bufferFloor \in Nat /\ setting.cushionBps \in Nat
      /\ totalPrincipal \in Nat
  BY DEF TypeOK, PoolAssumption
<1>2. totalPrincipal * setting.bufferBps \in Nat /\ totalPrincipal * setting.cushionBps \in Nat
  BY <1>1, ProductNat
<1>3. ShareOf(totalPrincipal, setting.bufferBps) \in Nat /\ ShareOf(totalPrincipal, setting.cushionBps) \in Nat
  BY <1>2, QuotientNat DEF ShareOf
<1> QED BY <1>1, <1>3 DEF BufferTarget, Cushion

LEMMA ValueNat ==
    ASSUME NEW c \in Nat, NEW s \in Nat, NEW q \in Quotes
    PROVE  Value(c, s, q) \in Nat
  BY PreviewsNat DEF Value

\* What a redemption leaves is typed, and it only adds cash.
LEMMA RedemptionTyped ==
    ASSUME TypeOK, NEW want \in 0..shares, NEW r \in Redemptions(want)
    PROVE  r.cash \in Nat /\ r.cash >= cash /\ r.shares \in Nat /\ r.quote \in Quotes
<1>1. cash \in Nat /\ shares \in Nat /\ quote \in Quotes /\ want \in Nat
  BY DEF TypeOK
<1>2. CASE r = Kept
  BY <1>1, <1>2 DEF Kept
<1>3. CASE r # Kept
  <2>1. PICK q \in Quotes : r = Redeemed(want, q)
    BY <1>3 DEF Redemptions
  <2>2. PreviewRedeem(want, q) \in Nat /\ shares - want \in Nat
    BY <1>1, PreviewsNat
  <2> QED BY <1>1, <2>1, <2>2 DEF Redeemed
<1> QED BY <1>2, <1>3

\* A subscription is paid from the cash above the buffer.
LEMMA SubscriptionFits ==
    ASSUME TypeOK, NEW room \in Rooms, cash > BufferTarget
    PROVE  Subscribes(room) \in 0..cash
<1>1. cash \in Nat /\ BufferTarget \in Nat /\ room \in Nat /\ totalPrincipal \in Nat
      /\ MinMargin \in Nat /\ quote \in Quotes
  BY TargetsNat DEF TypeOK, PoolAssumption
<1>2. Excess(room) \in 0..cash
  BY <1>1 DEF Excess, AtMost
<1>3. Spare \in Int
  <2>1. Value(cash, shares, quote) \in Nat
    BY ValueNat DEF TypeOK
  <2> QED BY <1>1, <2>1 DEF Spare
<1>4. EntryCost(Excess(room)) \in Nat
  <2>1. PreviewDeposit(Excess(room), quote) \in Nat
    BY <1>1, <1>2, PreviewsNat
  <2>2. PreviewRedeem(PreviewDeposit(Excess(room), quote), quote) \in Nat
    BY <1>1, <2>1, PreviewsNat
  <2> QED BY <1>2, <2>2 DEF EntryCost
<1>5. CASE Spare <= 0 \/ ~quote.answers
  BY <1>1, <1>5 DEF Subscribes
<1>6. CASE ~(Spare <= 0 \/ ~quote.answers) /\ EntryCost(Excess(room)) > Spare
  <2>1. Subscribes(room) = (Excess(room) * Spare) \div EntryCost(Excess(room))
    BY <1>6 DEF Subscribes
  <2>2. Excess(room) \in Nat /\ Spare \in Nat /\ Spare < EntryCost(Excess(room))
    BY <1>2, <1>3, <1>4, <1>6
  <2>3. Subscribes(room) \in 0..Excess(room)
    BY <1>4, <2>1, <2>2, PartOfWhole
  <2> QED BY <1>1, <1>2, <2>3
<1>7. CASE ~(Spare <= 0 \/ ~quote.answers) /\ ~(EntryCost(Excess(room)) > Spare)
  BY <1>2, <1>7 DEF Subscribes
<1> QED BY <1>5, <1>6, <1>7

-----------------------------------------------------------------------------
(***************************************************************************)
(* Types.                                                                  *)
(***************************************************************************)
LEMMA WithdrawTyped ==
    ASSUME TypeOK, NEW f \in Families, NEW x \in Nat, Withdraw(f, x)
    PROVE  TypeOK'
<1>1. /\ x \in Nat /\ cash \in Nat /\ totalPrincipal \in Nat /\ principalOf[f] \in Nat
      /\ x <= principalOf[f] /\ x <= totalPrincipal
  BY DEF Withdraw, TypeOK
<1>2. principalOf' \in [Families -> Nat]
  <2>1. principalOf' = [principalOf EXCEPT ![f] = principalOf[f] - x] /\ principalOf[f] - x \in Nat
    BY <1>1 DEF Withdraw
  <2> QED BY <2>1 DEF TypeOK
<1>3. cash' \in Nat /\ shares' \in Nat /\ quote' \in Quotes
  <2>1. CASE Leaves(Kept, x) /\ Trades(Kept)
    BY <1>1, <2>1 DEF Leaves, Trades, Kept, TypeOK
  <2>2. CASE cash < x /\ \E r \in Redemptions(SharesFor(x - cash)) : Leaves(r, x) /\ Trades(r)
    <3>1. PICK r \in Redemptions(SharesFor(x - cash)) : Leaves(r, x) /\ Trades(r)
      BY <2>2
    <3>2. x - cash \in Nat
      BY <1>1, <2>2
    <3>3. SharesFor(x - cash) \in 0..shares
      BY <3>2, SharesForBounds
    <3>4. r.cash \in Nat /\ r.shares \in Nat /\ r.quote \in Quotes
      BY <3>3, RedemptionTyped
    <3> QED BY <1>1, <3>1, <3>4 DEF Leaves, Trades
  <2> QED BY <2>1, <2>2 DEF Withdraw
<1>4. totalPrincipal' \in Nat
  BY <1>1 DEF Withdraw
<1> QED BY <1>2, <1>3, <1>4 DEF Withdraw, TypeOK, poolVars
-----------------------------------------------------------------------------

LEMMA DepositTyped ==
    ASSUME TypeOK, NEW f \in Families, NEW x \in Nat, Deposit(f, x)
    PROVE  TypeOK'
<1>1. cash + x \in Nat /\ totalPrincipal + x \in Nat /\ principalOf[f] + x \in Nat
  BY DEF TypeOK
<1>2. principalOf' \in [Families -> Nat]
  BY <1>1 DEF Deposit, TypeOK
<1> QED BY <1>1, <1>2 DEF Deposit, TypeOK, poolVars

LEMMA RebalanceTyped ==
    ASSUME TypeOK, Rebalance
    PROVE  TypeOK'
<1>1. cash \in Nat /\ shares \in Nat /\ BufferTarget \in Nat
  BY TargetsNat DEF TypeOK
<1>2. ASSUME NEW room \in Rooms, Subscribe(room)
      PROVE  cash' \in Nat /\ shares' \in Nat /\ quote' \in Quotes
  <2>1. Subscribes(room) \in 0..cash
    BY <1>2, SubscriptionFits DEF Subscribe
  <2>2. PICK q \in Quotes : LET r == Subscribed(Subscribes(room), q)
                            IN  cash' = r.cash /\ Trades(r)
    BY <1>2 DEF Subscribe
  <2>3. PreviewDeposit(Subscribes(room), q) \in Nat
    BY <1>1, <2>1, PreviewsNat
  <2> QED BY <1>1, <2>1, <2>2, <2>3 DEF Subscribed, Trades
<1>3. ASSUME NEW want \in 0..shares, RedeemsTo(want)
      PROVE  cash' \in Nat /\ shares' \in Nat /\ quote' \in Quotes
  <2>1. PICK r \in Redemptions(want) : cash' = r.cash /\ Trades(r)
    BY <1>3 DEF RedeemsTo
  <2> QED BY <2>1, RedemptionTyped DEF Trades
<1>4. CASE \E room \in Rooms : Subscribe(room)
  BY <1>2, <1>4 DEF Rebalance, TypeOK, parkVars, poolVars
<1>5. CASE cash < BufferTarget /\ RedeemsTo(SharesFor(BufferTarget - cash))
  <2>1. BufferTarget - cash \in Nat
    BY <1>1, <1>5
  <2>2. SharesFor(BufferTarget - cash) \in 0..shares
    BY <2>1, SharesForBounds
  <2>3. cash' \in Nat /\ shares' \in Nat /\ quote' \in Quotes
    BY <1>3, <1>5, <2>2
  <2> QED BY <2>3 DEF Rebalance, TypeOK, parkVars, poolVars
<1>6. CASE RedeemsTo(shares) \/ RedeemsTo(shares \div 2)
  <2>1. shares \in 0..shares /\ shares \div 2 \in 0..shares
    BY <1>1
  <2>2. cash' \in Nat /\ shares' \in Nat /\ quote' \in Quotes
    BY <1>3, <1>6, <2>1
  <2> QED BY <2>2 DEF Rebalance, TypeOK, parkVars, poolVars
<1> QED BY <1>4, <1>5, <1>6 DEF Rebalance

\* What a sweep starts from, and that it sends no more than is above both lines.
LEMMA SweepTyped ==
    ASSUME TypeOK, SweepYield
    PROVE  \E r \in [cash : Nat, shares : Nat, quote : Quotes] :
               /\ cash' = r.cash - Swept(r) /\ shares' = r.shares /\ quote' = r.quote
               /\ Swept(r) \in Nat /\ Swept(r) <= Above(r) /\ Swept(r) <= r.cash - BufferTarget
               /\ Above(r) \in Int
<1>1. cash \in Nat /\ shares \in Nat /\ quote \in Quotes /\ totalPrincipal \in Nat
      /\ BufferTarget \in Nat /\ Cushion \in Nat /\ YieldLine \in Nat
  BY TargetsNat DEF TypeOK, YieldLine
<1>2. PICK r \in IF cash < BufferTarget + Above(Kept) /\ wired
                 THEN Redemptions(SharesFor(BufferTarget + Above(Kept) - cash)) ELSE {Kept} :
          Swept(r) > 0 /\ cash' = r.cash - Swept(r) /\ Trades(r)
  BY DEF SweepYield
<1>3. Kept \in [cash : Nat, shares : Nat, quote : Quotes]
  BY <1>1 DEF Kept
<1>4. Above(Kept) \in Int
  BY <1>1, <1>3, ValueNat DEF Above
<1>5. r \in [cash : Nat, shares : Nat, quote : Quotes]
  <2>1. CASE r = Kept
    BY <1>3, <2>1
  <2>2. CASE r # Kept
    <3>1. cash < BufferTarget + Above(Kept) /\ r \in Redemptions(SharesFor(BufferTarget + Above(Kept) - cash))
      BY <1>2, <2>2
    <3>2. BufferTarget + Above(Kept) - cash \in Nat
      BY <1>1, <1>4, <3>1
    <3>3. SharesFor(BufferTarget + Above(Kept) - cash) \in 0..shares
      BY <3>2, SharesForBounds
    <3>4. PICK q \in Quotes : r = Redeemed(SharesFor(BufferTarget + Above(Kept) - cash), q)
      BY <2>2, <3>1 DEF Redemptions
    <3>5. r.cash \in Nat /\ r.shares \in Nat /\ r.quote \in Quotes
      BY <3>1, <3>3, RedemptionTyped
    <3> QED BY <3>4, <3>5 DEF Redeemed
  <2> QED BY <2>1, <2>2
<1>6. Value(r.cash, r.shares, r.quote) \in Nat
  BY <1>5, ValueNat
<1>7. Above(r) \in Int
  BY <1>1, <1>6 DEF Above
<1>8. Swept(r) \in Nat /\ Swept(r) <= Above(r) /\ Swept(r) <= r.cash - BufferTarget
  BY <1>1, <1>2, <1>5, <1>7 DEF Swept, AtMost
<1> QED BY <1>2, <1>5, <1>7, <1>8 DEF Trades

LEMMA PoolStep == ASSUME TypeOK, [Next]_vars PROVE TypeOK'
  <1>1. ASSUME NEW f \in Families, NEW x \in 1..MaxParked, Deposit(f, x) \/ Withdraw(f, x) PROVE TypeOK'
    <2>1. x \in Nat
      BY DEF PoolAssumption
    <2> QED BY <1>1, <2>1, DepositTyped, WithdrawTyped
  <1>2. ASSUME NEW x \in 1..MaxCash, Backstop(x) PROVE TypeOK'
    <2>1. cash + x \in Nat
      BY <1>2 DEF TypeOK, PoolAssumption
    <2> QED BY <1>2, <2>1 DEF Backstop, TypeOK, parkVars, poolVars
  <1>3. ASSUME SweepYield PROVE TypeOK'
    <2>1. PICK r \in [cash : Nat, shares : Nat, quote : Quotes] :
            /\ cash' = r.cash - Swept(r) /\ shares' = r.shares /\ quote' = r.quote
            /\ Swept(r) \in Nat /\ Swept(r) <= r.cash - BufferTarget
      BY <1>3, SweepTyped
    <2>2. BufferTarget \in Nat
      BY TargetsNat
    <2>3. cash' \in Nat /\ shares' \in Nat /\ quote' \in Quotes
      BY <2>1, <2>2
    <2> QED BY <1>3, <2>3 DEF SweepYield, TypeOK, parkVars, poolVars
  <1>4. ASSUME NEW w \in BOOLEAN, SetTeller(w) PROVE TypeOK'
    BY <1>4 DEF SetTeller, TypeOK, parkVars
  <1>5. CASE Stop \/ Resume
    BY <1>5 DEF Stop, Resume, TypeOK, parkVars
  <1>6. ASSUME NEW s \in Settings, Configure(s) PROVE TypeOK'
    BY <1>6 DEF Configure, TypeOK, parkVars
  <1>7. ASSUME NEW f \in Families, RevokeFamily(f) PROVE TypeOK'
    BY <1>7 DEF RevokeFamily, TypeOK, poolVars
  <1>8. ASSUME NEW q \in Quotes, TellerMoves(q) PROVE TypeOK'
    BY <1>8 DEF TellerMoves, TypeOK, parkVars, poolVars
  <1>9. CASE UNCHANGED vars
    BY <1>9 DEF vars, TypeOK, parkVars, poolVars
  <1> QED BY <1>1, <1>2, <1>3, <1>4, <1>5, <1>6, <1>7, <1>8, <1>9, RebalanceTyped DEF Next

\* Types hold: every checked subtraction of the pool is of something that is there.
THEOREM PoolTypesHold == Spec => []TypeOK
<1>1. ASSUME Init PROVE TypeOK
  <2>1. family \subseteq Families /\ principalOf \in [Families -> Nat]
    BY <1>1 DEF Init
  <2>2. totalPrincipal \in Nat /\ cash \in Nat /\ shares \in Nat
    BY <1>1 DEF Init
  <2>3. wired \in BOOLEAN /\ stopped \in BOOLEAN /\ setting \in Settings /\ quote \in Quotes
    BY <1>1 DEF Init
  <2> QED BY <2>1, <2>2, <2>3 DEF TypeOK
<1> QED BY <1>1, PoolStep, PTL DEF Spec

-----------------------------------------------------------------------------
(***************************************************************************)
(* The sweep.                                                              *)
(***************************************************************************)
\* Taking cash lowers the pool's worth by as much.
LEMMA ValueFalls ==
    ASSUME NEW c \in Nat, NEW s \in Nat, NEW q \in Quotes, NEW x \in Nat
    PROVE  Value(c - x, s, q) = Value(c, s, q) - x
<1>1. PreviewRedeem(s, q) \in Nat
  BY PreviewsNat
<1> QED BY <1>1 DEF Value

LEMMA SweepCovered ==
    ASSUME TypeOK, SweepYield
    PROVE  Coverage' >= Cushion /\ cash' >= BufferTarget
<1>1. PICK r \in [cash : Nat, shares : Nat, quote : Quotes] :
        /\ cash' = r.cash - Swept(r) /\ shares' = r.shares /\ quote' = r.quote
        /\ Swept(r) \in Nat /\ Swept(r) <= Above(r) /\ Swept(r) <= r.cash - BufferTarget
        /\ Above(r) \in Int
  BY SweepTyped
<1>2. BufferTarget \in Nat /\ Cushion \in Nat /\ totalPrincipal \in Nat /\ totalPrincipal' = totalPrincipal
  BY TargetsNat DEF TypeOK, SweepYield, parkVars
<1>3. Value(r.cash, r.shares, r.quote) \in Nat
      /\ Value(r.cash - Swept(r), r.shares, r.quote) = Value(r.cash, r.shares, r.quote) - Swept(r)
  BY <1>1, ValueNat, ValueFalls
<1>4. Coverage' = Value(r.cash, r.shares, r.quote) - Swept(r) - totalPrincipal
  BY <1>1, <1>2, <1>3 DEF Coverage, Value
<1>5. Above(r) = Value(r.cash, r.shares, r.quote) - (totalPrincipal + Cushion)
  BY DEF Above, YieldLine
<1>6. Coverage' >= Cushion
  BY <1>1, <1>2, <1>3, <1>4, <1>5
<1>7. cash' >= BufferTarget
  BY <1>1, <1>2
<1> QED BY <1>6, <1>7

\* A sweep leaves what is parked, the cushion and the buffer, at any price the Teller moves to.
THEOREM SweepsLeaveCovered == Spec => SweepLeavesCovered
<1>1. TypeOK /\ [Next]_vars => [SweepYield => Coverage' >= Cushion /\ cash' >= BufferTarget]_vars
  BY SweepCovered
<1> QED BY <1>1, PoolTypesHold, PTL DEF Spec, SweepLeavesCovered

-----------------------------------------------------------------------------
(***************************************************************************)
(* The margin.                                                             *)
(***************************************************************************)
\* Rounding two parts down loses at most one over rounding their sum.
LEMMA PartsLoseOne ==
    ASSUME NEW x \in Nat, NEW y \in Nat, NEW u \in Nat \ {0}
    PROVE  (x + y) \div u <= (x \div u) + (y \div u) + 1
<1> DEFINE qx == x \div u
           qy == y \div u
           q == (x + y) \div u
<1>1. qx \in Nat /\ qy \in Nat /\ q \in Nat
  BY QuotientNat
<1>2. x < u * qx + u /\ y < u * qy + u /\ u * q <= x + y
  OBVIOUS
<1>3. ASSUME q > qx + qy + 1 PROVE FALSE
  <2>1. u * q >= u * (qx + qy + 2)
    BY <1>1, <1>3
  <2>2. u * (qx + qy + 2) = u * qx + u * qy + u + u
    BY <1>1
  <2>3. u * qx \in Nat /\ u * qy \in Nat /\ u * q \in Nat
    BY <1>1, ProductNat
  <2> HIDE DEF qx, qy, q
  <2> QED BY <1>2, <2>1, <2>2, <2>3
<1> QED BY <1>1, <1>3

\* Redeeming some of the shares, at the price quoted, loses at most one of their worth.
LEMMA RedeemingLosesOne ==
    ASSUME TypeOK, quote.answers, NEW want \in 0..shares
    PROVE  Value(cash + PreviewRedeem(want, quote), shares - want, quote) + 1 >= Value(cash, shares, quote)
<1>1. /\ cash \in Nat /\ shares \in Nat /\ want \in Nat /\ shares - want \in Nat
      /\ quote \in Quotes /\ quote.bid \in Nat
  BY QuotesTyped DEF TypeOK
<1>2. want * quote.bid \in Nat /\ (shares - want) * quote.bid \in Nat
  BY <1>1, ProductNat
<1>3. want * quote.bid + (shares - want) * quote.bid = shares * quote.bid
  BY <1>1
<1>4. PreviewRedeem(shares, quote) <= PreviewRedeem(want, quote) + PreviewRedeem(shares - want, quote) + 1
  BY <1>2, <1>3, PartsLoseOne DEF PreviewRedeem
<1>5. /\ PreviewRedeem(shares, quote) \in Nat /\ PreviewRedeem(want, quote) \in Nat
      /\ PreviewRedeem(shares - want, quote) \in Nat
  BY <1>1, PreviewsNat
<1> QED BY <1>1, <1>4, <1>5 DEF Value

\* So does any redemption that leaves the price alone.
LEMMA RedemptionLosesOne ==
    ASSUME TypeOK, quote.answers, NEW want \in 0..shares, NEW r \in Redemptions(want), r.quote = quote
    PROVE  Value(r.cash, r.shares, r.quote) + 1 >= Value(cash, shares, quote)
<1>1. Value(cash, shares, quote) \in Nat
  BY ValueNat DEF TypeOK
<1>2. CASE r = Kept
  BY <1>1, <1>2 DEF Kept
<1>3. CASE r # Kept
  <2>1. PICK q \in Quotes : r = Redeemed(want, q)
    BY <1>3 DEF Redemptions
  <2>2. r.cash = cash + PreviewRedeem(want, quote) /\ r.shares = shares - want
    BY <2>1 DEF Redeemed
  <2> QED BY <2>2, RedeemingLosesOne
<1> QED BY <1>2, <1>3

LEMMA CoverageInt == ASSUME TypeOK PROVE Coverage \in Int /\ Value(cash, shares, quote) \in Nat
<1>1. Value(cash, shares, quote) \in Nat /\ totalPrincipal \in Nat
  BY ValueNat DEF TypeOK
<1> QED BY <1>1 DEF Coverage

\* The margin is the worst a call may cost.
LEMMA StepWithinMargin ==
    ASSUME TypeOK, Next, Coverage >= MinMargin, quote' = quote, quote.answers
    PROVE  Coverage' >= 0
<1>1. /\ cash \in Nat /\ shares \in Nat /\ totalPrincipal \in Nat /\ quote \in Quotes
      /\ Coverage \in Int /\ Value(cash, shares, quote) \in Nat /\ BufferTarget \in Nat /\ Cushion \in Nat
      /\ PreviewRedeem(shares, quote) \in Nat
      /\ Value(cash, shares, quote) = cash + PreviewRedeem(shares, quote)
  BY CoverageInt, TargetsNat, PreviewsNat DEF TypeOK, Value
<1>2. Coverage' = Value(cash', shares', quote) - totalPrincipal'
  BY DEF Coverage, Value, PreviewRedeem
<1>3. Coverage = cash + PreviewRedeem(shares, quote) - totalPrincipal
  BY <1>1 DEF Coverage
<1>4. ASSUME NEW want \in 0..shares, RedeemsTo(want), UNCHANGED totalPrincipal PROVE Coverage' >= 0
  <2>1. PICK r \in Redemptions(want) : cash' = r.cash /\ Trades(r)
    BY <1>4 DEF RedeemsTo
  <2>2. r.quote = quote /\ shares' = r.shares
    BY <2>1 DEF Trades
  <2>3. Value(r.cash, r.shares, r.quote) + 1 >= Value(cash, shares, quote)
    BY <2>2, RedemptionLosesOne
  <2>4. r.cash \in Nat /\ r.shares \in Nat
    BY RedemptionTyped
  <2>5. Value(r.cash, r.shares, r.quote) \in Nat
    BY <1>1, <2>2, <2>4, ValueNat
  <2> QED BY <1>1, <1>2, <1>3, <1>4, <2>1, <2>2, <2>3, <2>5
<1>5. ASSUME NEW f \in Families, NEW x \in 1..MaxParked, Deposit(f, x) PROVE Coverage' >= 0
  <2>1. cash' = cash + x /\ totalPrincipal' = totalPrincipal + x /\ shares' = shares
    BY <1>5 DEF Deposit
  <2>2. Value(cash + x, shares, quote) = cash + x + PreviewRedeem(shares, quote)
    BY DEF Value
  <2> QED BY <1>1, <1>2, <1>3, <2>1, <2>2
<1>6. ASSUME NEW f \in Families, NEW x \in 1..MaxParked, Withdraw(f, x) PROVE Coverage' >= 0
  <2>1. totalPrincipal' = totalPrincipal - x /\ x \in Nat /\ x <= totalPrincipal
    BY <1>6 DEF Withdraw
  <2>2. CASE Leaves(Kept, x) /\ Trades(Kept)
    <3>1. cash' = cash - x /\ shares' = shares
      BY <2>2 DEF Leaves, Trades, Kept
    <3>2. Value(cash - x, shares, quote) = Value(cash, shares, quote) - x
      BY <1>1, <2>1, ValueFalls
    <3> QED BY <1>1, <1>2, <1>3, <2>1, <3>1, <3>2
  <2>3. CASE cash < x /\ \E r \in Redemptions(SharesFor(x - cash)) : Leaves(r, x) /\ Trades(r)
    <3>1. PICK r \in Redemptions(SharesFor(x - cash)) : Leaves(r, x) /\ Trades(r)
      BY <2>3
    <3>2. x - cash \in Nat
      BY <1>1, <2>1, <2>3
    <3>3. SharesFor(x - cash) \in 0..shares
      BY <3>2, SharesForBounds
    <3>4. r.quote = quote /\ shares' = r.shares /\ cash' = r.cash - x
      BY <3>1 DEF Leaves, Trades
    <3>5. Value(r.cash, r.shares, r.quote) + 1 >= Value(cash, shares, quote)
      BY <3>3, <3>4, RedemptionLosesOne
    <3>6. r.cash \in Nat /\ r.shares \in Nat
      BY <3>3, RedemptionTyped
    <3>7. Value(r.cash, r.shares, r.quote) \in Nat
          /\ Value(r.cash - x, r.shares, r.quote) = Value(r.cash, r.shares, r.quote) - x
      <4>1. r.quote \in Quotes /\ x \in Nat
        BY <1>1, <2>1, <3>4
      <4>2. Value(r.cash, r.shares, r.quote) \in Nat
        BY <3>6, <4>1, ValueNat
      <4>3. Value(r.cash - x, r.shares, r.quote) = Value(r.cash, r.shares, r.quote) - x
        BY <3>6, <4>1, ValueFalls
      <4> QED BY <4>2, <4>3
    <3> QED BY <1>1, <1>2, <1>3, <2>1, <3>4, <3>5, <3>7
  <2> QED BY <1>6, <2>2, <2>3 DEF Withdraw
<1>7. ASSUME NEW x \in 1..MaxCash, Backstop(x) PROVE Coverage' >= 0
  <2>1. cash' = cash + x /\ totalPrincipal' = totalPrincipal /\ shares' = shares
    BY <1>7 DEF Backstop, parkVars
  <2>2. Value(cash + x, shares, quote) = cash + x + PreviewRedeem(shares, quote)
    BY DEF Value
  <2> QED BY <1>1, <1>2, <1>3, <2>1, <2>2
<1>8. ASSUME Rebalance PROVE Coverage' >= 0
  <2>1. UNCHANGED totalPrincipal
    BY <1>8 DEF Rebalance, parkVars
  <2>2. ASSUME NEW room \in Rooms, Subscribe(room) PROVE Coverage' >= 0
    <3>1. PICK q \in Quotes : LET r == Subscribed(Subscribes(room), q)
                              IN  Covers(r) /\ cash' = r.cash /\ Trades(r)
      BY <2>2 DEF Subscribe
    <3>2. Value(cash', shares', quote) >= totalPrincipal
      BY <3>1 DEF Covers, Trades
    <3>3. Subscribes(room) \in 0..cash
      BY <2>2, SubscriptionFits DEF Subscribe
    <3>4. PreviewDeposit(Subscribes(room), q) \in Nat
      BY <1>1, <3>3, PreviewsNat
    <3>5. cash' \in Nat /\ shares' \in Nat
      BY <1>1, <3>1, <3>3, <3>4 DEF Subscribed, Trades
    <3>6. Value(cash', shares', quote) \in Nat
      BY <1>1, <3>5, ValueNat
    <3> QED BY <1>1, <1>2, <2>1, <3>2, <3>6
  <2>3. CASE cash < BufferTarget /\ RedeemsTo(SharesFor(BufferTarget - cash))
    <3>1. BufferTarget - cash \in Nat
      BY <1>1, <2>3
    <3>2. SharesFor(BufferTarget - cash) \in 0..shares
      BY <3>1, SharesForBounds
    <3> QED BY <1>4, <2>1, <2>3, <3>2
  <2>4. CASE RedeemsTo(shares) \/ RedeemsTo(shares \div 2)
    <3>1. shares \in 0..shares /\ shares \div 2 \in 0..shares
      BY <1>1
    <3> QED BY <1>4, <2>1, <2>4, <3>1
  <2> QED BY <1>8, <2>2, <2>3, <2>4 DEF Rebalance
<1>9. ASSUME SweepYield PROVE Coverage' >= 0
  <2>1. Coverage' >= Cushion
    BY <1>9, SweepCovered
  <2>2. Coverage' \in Int
    <3>1. cash' \in Nat /\ shares' \in Nat /\ totalPrincipal' \in Nat
      BY PoolStep DEF TypeOK
    <3>2. Value(cash', shares', quote) \in Nat
      BY <1>1, <3>1, ValueNat
    <3> QED BY <1>2, <3>1, <3>2
  <2> QED BY <1>1, <2>1, <2>2
<1>10. ASSUME NEW w \in BOOLEAN, SetTeller(w) PROVE Coverage' >= 0
  <2>1. cash' = cash /\ totalPrincipal' = totalPrincipal /\ shares' = 0
    BY <1>10 DEF SetTeller, parkVars
  <2>2. PreviewRedeem(0, quote) \in Nat
    BY <1>1, PreviewsNat
  <2>3. Value(cash, 0, quote) >= cash /\ Value(cash, 0, quote) \in Nat
    BY <1>1, <2>2 DEF Value
  <2>4. PreviewRedeem(shares, quote) <= MinMargin \/ shares = 0
    BY <1>10 DEF SetTeller, Abandonable
  <2>5. CASE PreviewRedeem(shares, quote) <= MinMargin
    BY <1>1, <1>2, <1>3, <2>1, <2>3, <2>5
  <2>6. CASE shares = 0
    BY <1>1, <1>2, <2>1, <2>6 DEF Coverage
  <2> QED BY <2>4, <2>5, <2>6
<1>11. ASSUME UNCHANGED <<cash, shares, totalPrincipal>> PROVE Coverage' >= 0
  BY <1>1, <1>2, <1>11 DEF Coverage
<1>12. CASE Stop \/ Resume \/ (\E s \in Settings : Configure(s)) \/ (\E f \in Families : RevokeFamily(f))
           \/ \E q \in Quotes : TellerMoves(q)
  BY <1>11, <1>12 DEF Stop, Resume, Configure, RevokeFamily, TellerMoves, parkVars
<1> QED BY <1>5, <1>6, <1>7, <1>8, <1>9, <1>10, <1>12 DEF Next

\* A pool with its margin stays covered through any one call at a standing price.
THEOREM MarginsAbsorb == Spec => MarginAbsorbs
<1>1. TypeOK /\ [Next]_vars =>
        [Coverage >= MinMargin /\ quote' = quote /\ quote.answers => Coverage' >= 0]_vars
  BY StepWithinMargin
<1> QED BY <1>1, PoolTypesHold, PTL DEF Spec, MarginAbsorbs

-----------------------------------------------------------------------------
(***************************************************************************)
(* What is parked is what the families parked.                             *)
(***************************************************************************)
ParkedInv == totalPrincipal = SumOn(principalOf, Families)

\* One family's principal moves the total by as much.
LEMMA ParkedMoves ==
    ASSUME TypeOK, ParkedInv, NEW f \in Families, NEW y \in Nat,
           principalOf' = [principalOf EXCEPT ![f] = y]
    PROVE  SumOn(principalOf', Families) = totalPrincipal + (y - principalOf[f])
<1>1. IsFiniteSet(Families) /\ principalOf \in [Families -> Nat]
  BY DEF PoolAssumption, TypeOK
<1>2. /\ \A g \in Families : principalOf[g] \in Int /\ principalOf'[g] \in Int
      /\ \A g \in Families : g # f => principalOf[g] = principalOf'[g]
      /\ principalOf'[f] = y
  BY <1>1
<1>3. SumOn(principalOf', Families) = SumOn(principalOf, Families) + (principalOf'[f] - principalOf[f])
  <2> HIDE DEF PoolAssumption
  <2> QED BY <1>1, <1>2, SumChange
<1> QED BY <1>2, <1>3 DEF ParkedInv

LEMMA ParkedStep == TypeOK /\ ParkedInv /\ [Next]_vars => ParkedInv'
<1> SUFFICES ASSUME TypeOK, ParkedInv, [Next]_vars PROVE ParkedInv'
  OBVIOUS
<1>1. totalPrincipal \in Nat /\ principalOf \in [Families -> Nat]
  BY DEF TypeOK
<1>2. ASSUME NEW f \in Families, NEW x \in 1..MaxParked, Deposit(f, x) PROVE ParkedInv'
  <2>1. x \in Nat /\ principalOf[f] \in Nat
    BY <1>1
  <2> DEFINE y == principalOf[f] + x
  <2>2. y \in Nat /\ principalOf' = [principalOf EXCEPT ![f] = y] /\ totalPrincipal' = totalPrincipal + x
    BY <2>1, <1>2 DEF Deposit
  <2>3. SumOn(principalOf', Families) = totalPrincipal + (y - principalOf[f])
    <3> HIDE DEF y
    <3> QED BY <2>2, ParkedMoves
  <2> QED BY <1>1, <2>1, <2>2, <2>3 DEF ParkedInv
<1>3. ASSUME NEW f \in Families, NEW x \in 1..MaxParked, Withdraw(f, x) PROVE ParkedInv'
  <2>1. x \in Nat /\ principalOf[f] \in Nat /\ x <= principalOf[f]
    BY <1>1, <1>3 DEF Withdraw
  <2> DEFINE y == principalOf[f] - x
  <2>2. y \in Nat /\ principalOf' = [principalOf EXCEPT ![f] = y] /\ totalPrincipal' = totalPrincipal - x
    BY <2>1, <1>3 DEF Withdraw
  <2>3. SumOn(principalOf', Families) = totalPrincipal + (y - principalOf[f])
    <3> HIDE DEF y
    <3> QED BY <2>2, ParkedMoves
  <2> QED BY <1>1, <2>1, <2>2, <2>3 DEF ParkedInv
<1>4. ASSUME UNCHANGED <<principalOf, totalPrincipal>> PROVE ParkedInv'
  BY <1>4 DEF ParkedInv
<1>5. CASE Rebalance \/ SweepYield \/ Stop \/ Resume \/ UNCHANGED vars
  BY <1>4, <1>5 DEF Rebalance, SweepYield, Stop, Resume, vars, parkVars
<1>6. CASE \/ \E x \in 1..MaxCash : Backstop(x)
           \/ \E w \in BOOLEAN : SetTeller(w)
           \/ \E s \in Settings : Configure(s)
           \/ \E f \in Families : RevokeFamily(f)
           \/ \E q \in Quotes : TellerMoves(q)
  BY <1>4, <1>6 DEF Backstop, SetTeller, Configure, RevokeFamily, TellerMoves, parkVars
<1> QED BY <1>2, <1>3, <1>5, <1>6 DEF Next

\* The pool always knows what it owes: the principal it keeps is the sum of what the families parked.
THEOREM PrincipalAdds == Spec => []ParkedInv
<1>1. ASSUME Init PROVE ParkedInv
  <2>1. IsFiniteSet(Families) /\ \A f \in Families : principalOf[f] = 0
    BY <1>1 DEF Init, PoolAssumption
  <2>2. SumOn(principalOf, Families) = 0
    BY <2>1, SumZero
  <2> QED BY <1>1, <2>2 DEF Init, ParkedInv
<1> QED BY <1>1, ParkedStep, PoolTypesHold, PTL DEF Spec

-----------------------------------------------------------------------------
(***************************************************************************)
(* Leaving.                                                                *)
(***************************************************************************)
\* Redeeming the shares quoted for an amount pays that amount.
LEMMA RedeemCoversGap ==
    ASSUME NEW gap \in Nat, NEW q \in Quotes
    PROVE  PreviewRedeem(PreviewWithdraw(gap, q), q) >= gap /\ (gap > 0 => PreviewWithdraw(gap, q) > 0)
<1> DEFINE b == q.bid
           p == gap * Unit + b - 1
           t == p \div b
           back == (t * b) \div Unit
<1>1. b \in Nat /\ b > 0 /\ Unit \in Nat /\ Unit > 0 /\ gap * Unit \in Nat /\ p \in Nat
  <2>1. b \in Nat /\ b > 0 /\ Unit \in Nat /\ Unit > 0
    BY QuotesTyped DEF PoolAssumption
  <2>2. gap * Unit \in Nat
    BY <2>1, ProductNat
  <2> QED BY <2>1, <2>2
<1>2. t \in Nat /\ p < b * t + b
  <2> HIDE DEF p, b
  <2> QED BY <1>1, QuotientBounds
<1>3. t * b >= gap * Unit /\ t * b \in Nat
  <2> HIDE DEF t, b
  <2>1. b * t = t * b /\ t * b \in Nat
    BY <1>1, <1>2, ProductNat
  <2> QED BY <1>1, <1>2, <2>1
<1>4. back \in Nat /\ t * b < Unit * back + Unit
  <2> DEFINE z == t * b
  <2>1. z \in Nat
    BY <1>3
  <2> HIDE DEF z
  <2>2. (z \div Unit) \in Nat /\ z < Unit * (z \div Unit) + Unit
    BY <1>1, <2>1, QuotientBounds
  <2> QED BY <2>2 DEF z
<1>5. back >= gap
  <2> HIDE DEF back, t, b
  <2>1. ASSUME gap > back PROVE FALSE
    <3>1. Unit * gap >= Unit * back + Unit
      BY <1>1, <1>4, <2>1, NextMultiple
    <3>2. Unit * gap = gap * Unit /\ Unit * back \in Nat
      BY <1>1, <1>4, ProductNat
    <3> QED BY <1>1, <1>3, <1>4, <3>1, <3>2
  <2> QED BY <1>4, <2>1
<1>6. gap > 0 => t > 0
  <2>1. ASSUME gap > 0, t = 0 PROVE FALSE
    <3>1. 0 * b = 0
      BY <1>1
    <3>2. gap * Unit >= Unit
      BY <1>1, <2>1, NextMultiple
    <3> HIDE DEF t, b
    <3> QED BY <1>1, <1>3, <2>1, <3>1, <3>2
  <2> HIDE DEF t
  <2> QED BY <1>2, <2>1
<1>7. t = PreviewWithdraw(gap, q) /\ back = PreviewRedeem(PreviewWithdraw(gap, q), q)
  BY DEF PreviewWithdraw, PreviewRedeem
<1> HIDE DEF t, back
<1> QED BY <1>5, <1>6, <1>7

LEMMA LeavingFits ==
    ASSUME TypeOK, ParkedInv
    PROVE  FamiliesCanLeave
<1> SUFFICES ASSUME Coverage >= 0, quote.answers, NEW f \in Families,
                    principalOf[f] # 0, cash >= principalOf[f] \/ wired
             PROVE  /\ principalOf[f] <= totalPrincipal
                    /\ \/ cash >= principalOf[f]
                       \/ /\ SharesFor(principalOf[f] - cash) # 0
                          /\ Redeemed(SharesFor(principalOf[f] - cash), quote).cash >= principalOf[f]
  BY DEF FamiliesCanLeave
<1>1. /\ cash \in Nat /\ shares \in Nat /\ totalPrincipal \in Nat /\ quote \in Quotes
      /\ principalOf \in [Families -> Nat] /\ IsFiniteSet(Families)
  BY DEF TypeOK, PoolAssumption
<1> DEFINE x == principalOf[f]
           gap == x - cash
           want == PreviewWithdraw(gap, quote)
<1>2. x <= totalPrincipal /\ x \in Nat
  <2>1. SumOn(principalOf, {f}) <= SumOn(principalOf, Families)
    BY <1>1, SumPart
  <2>2. SumOn(principalOf, {f}) = x
    <3>1. IsFiniteSet({f}) /\ {f} \ {f} = {} /\ IsFiniteSet({})
      BY FS_Singleton, FS_EmptySet
    <3>2. /\ Pick({f}) \in {f}
          /\ SumOn(principalOf, {f}) = principalOf[Pick({f})] + SumOn(principalOf, {f} \ {Pick({f})})
      BY <3>1, SumStep
    <3>3. SumOn(principalOf, {}) = 0
      BY <3>1, SumStep
    <3>4. Pick({f}) = f
      BY <3>2
    <3>5. SumOn(principalOf, {f}) = principalOf[f] + SumOn(principalOf, {})
      BY <3>1, <3>2, <3>4, Zenon
    <3> QED BY <1>1, <3>3, <3>5
  <2> QED BY <1>1, <2>1, <2>2 DEF ParkedInv
<1>3. ASSUME cash < x
      PROVE  SharesFor(gap) # 0 /\ Redeemed(SharesFor(gap), quote).cash >= x
  <2> HIDE DEF x
  <2>1. gap \in Nat /\ gap > 0
    BY <1>1, <1>2, <1>3
  <2>2. PreviewRedeem(want, quote) >= gap /\ want > 0 /\ want \in Nat /\ PreviewRedeem(want, quote) \in Nat
    <3>1. want \in Nat
      BY <1>1, <2>1, PreviewsNat
    <3>2. PreviewRedeem(want, quote) \in Nat
      BY <1>1, <3>1, PreviewsNat
    <3> QED BY <1>1, <2>1, <3>1, <3>2, RedeemCoversGap
  <2>3. PreviewRedeem(shares, quote) \in Nat /\ cash + PreviewRedeem(shares, quote) >= totalPrincipal
    <3>1. PreviewRedeem(shares, quote) \in Nat
      BY <1>1, PreviewsNat
    <3> QED BY <1>1, <3>1 DEF Coverage, Value
  <2>4. shares # 0
    <3>1. ASSUME shares = 0 PROVE FALSE
      <4>1. PreviewRedeem(0, quote) = 0
        <5>1. quote.bid \in Nat /\ Unit \in Nat /\ Unit > 0
          BY <1>1, QuotesTyped DEF PoolAssumption
        <5> QED BY <5>1 DEF PreviewRedeem
      <4> QED BY <1>1, <1>2, <1>3, <2>3, <3>1, <4>1
    <3> QED BY <3>1
  <2>5. SharesFor(gap) = IF want < shares THEN want ELSE shares
    BY DEF SharesFor, AtMost
  <2>6. SharesFor(gap) # 0
    BY <1>1, <2>2, <2>4, <2>5
  <2>7. Redeemed(SharesFor(gap), quote).cash = cash + PreviewRedeem(SharesFor(gap), quote)
    BY DEF Redeemed
  <2>8. cash + PreviewRedeem(SharesFor(gap), quote) >= x
    <3>1. CASE want < shares
      <4>1. SharesFor(gap) = want
        BY <2>5, <3>1
      <4> HIDE DEF want
      <4> QED BY <1>1, <1>2, <2>1, <2>2, <4>1
    <3>2. CASE ~(want < shares)
      <4>1. SharesFor(gap) = shares
        BY <2>5, <3>2
      <4> QED BY <1>1, <1>2, <2>3, <4>1
    <3> QED BY <3>1, <3>2
  <2> QED BY <2>6, <2>7, <2>8
<1> QED BY <1>1, <1>2, <1>3

\* While the pool is covered and its Teller pays what it quotes, any family can take back all it
\* parked.
THEOREM FamiliesAlwaysLeave == Spec => []FamiliesCanLeave
<1> QED BY LeavingFits, PoolTypesHold, PrincipalAdds, PTL

-----------------------------------------------------------------------------
(***************************************************************************)
(* Subscribing.                                                            *)
(***************************************************************************)
\* Shares redeemed together pay at least what they pay apart.
LEMMA TogetherPaysMore ==
    ASSUME NEW s \in Nat, NEW t \in Nat, NEW q \in Quotes
    PROVE  PreviewRedeem(s + t, q) >= PreviewRedeem(s, q) + PreviewRedeem(t, q)
<1> DEFINE x == s * q.bid
           y == t * q.bid
           z == (s + t) * q.bid
           dx == x \div Unit
           dy == y \div Unit
           dz == z \div Unit
<1>1. q.bid \in Nat /\ Unit \in Nat /\ Unit > 0
  BY QuotesTyped
<1>2. x \in Nat /\ y \in Nat /\ z = x + y
  BY <1>1, ProductNat
<1> HIDE DEF x, y, z
<1>3. /\ dx \in Nat /\ Unit * dx <= x /\ dy \in Nat /\ Unit * dy <= y
      /\ dz \in Nat /\ z < Unit * dz + Unit
  BY <1>1, <1>2, QuotientBounds
<1> HIDE DEF dx, dy, dz
<1>4. ASSUME dx + dy > dz PROVE FALSE
  <2>1. Unit * (dx + dy) >= Unit * dz + Unit
    BY <1>1, <1>3, <1>4, NextMultiple
  <2>2. Unit * (dx + dy) = Unit * dx + Unit * dy
    BY <1>1, <1>3
  <2>3. Unit * dx \in Nat /\ Unit * dy \in Nat /\ Unit * dz \in Nat
    BY <1>1, <1>3, ProductNat
  <2> QED BY <1>1, <1>2, <1>3, <2>1, <2>2, <2>3
<1>5. dz >= dx + dy
  BY <1>3, <1>4
<1> QED BY <1>5 DEF dx, dy, dz, x, y, z, PreviewRedeem

LEMMA ProductMonotoneX ==
    ASSUME NEW x \in Nat, NEW y \in Nat, NEW c \in Nat, x <= y PROVE c * x <= c * y
<1>1. PICK d \in Nat : y = x + d
  <2>1. y - x \in Nat /\ y = x + (y - x)
    OBVIOUS
  <2> QED BY <2>1
<1>2. c * (x + d) = c * x + c * d /\ c * x \in Nat /\ c * d \in Nat
  BY <1>1, ProductNat
<1> QED BY <1>1, <1>2

LEMMA ProductMonotoneY ==
    ASSUME NEW x \in Nat, NEW y \in Nat, NEW c \in Nat, x <= y PROVE x * c <= y * c
<1>1. c * x <= c * y /\ c * x = x * c /\ c * y = y * c
  BY ProductMonotoneX
<1> QED BY <1>1

\* The price of entering with `a`, with the ask k, the bid b and the unit u, is what the spread
\* takes, give or take the rounding of the two trades: no more than a share's price and a unit above
\* it, and no less than it.
LEMMA EntryBounds ==
    ASSUME NEW a \in Nat, NEW k \in Nat \ {0}, NEW b \in Nat \ {0}, NEW u \in Nat \ {0},
           NEW t, NEW back, t = (a * u) \div k, back = (t * b) \div u
    PROVE  /\ t \in Nat /\ back \in Nat
           /\ k * back <= a * b
           /\ a * (u * b) < (k * u) * back + k * u + k * b
<1>1. a * u \in Nat /\ t \in Nat /\ k * t <= a * u /\ a * u < k * t + k
  <2> DEFINE p == a * u
  <2>1. p \in Nat
    BY ProductNat
  <2> HIDE DEF p
  <2>2. (p \div k) \in Nat /\ k * (p \div k) <= p /\ p < k * (p \div k) + k
    BY <2>1, QuotientBounds
  <2> QED BY <2>1, <2>2 DEF p
<1>2. t * b \in Nat /\ back \in Nat /\ u * back <= t * b /\ t * b < u * back + u
  <2> DEFINE p == t * b
  <2>1. p \in Nat
    BY <1>1, ProductNat
  <2> HIDE DEF p
  <2>2. (p \div u) \in Nat /\ u * (p \div u) <= p /\ p < u * (p \div u) + u
    BY <2>1, QuotientBounds
  <2> QED BY <2>1, <2>2 DEF p
<1>3. k * (t * b) <= (a * u) * b /\ (a * u) * b <= k * (t * b) + k * b
  <2>1. (k * t) * b <= (a * u) * b
    <3> DEFINE m == k * t
               p == a * u
    <3>1. m \in Nat /\ p \in Nat /\ m <= p
      BY <1>1, ProductNat
    <3> HIDE DEF m, p
    <3> QED BY <3>1, ProductMonotoneY DEF m, p
  <2>2. (a * u) * b <= (k * t + k) * b
    <3> DEFINE m == k * t + k
               p == a * u
    <3>1. m \in Nat /\ p \in Nat /\ p <= m
      <4>1. k * t \in Nat
        BY <1>1, ProductNat
      <4> QED BY <1>1, <4>1
    <3> HIDE DEF m, p
    <3> QED BY <3>1, ProductMonotoneY DEF m, p
  <2>3. (k * t) * b = k * (t * b) /\ (k * t + k) * b = k * (t * b) + k * b
    BY <1>1
  <2> QED BY <2>1, <2>2, <2>3
<1>4. k * (u * back) <= k * (t * b) /\ k * (t * b) <= k * (u * back) + k * u - k
  <2> DEFINE m == u * back
             p == t * b
  <2>1. m \in Nat /\ p \in Nat /\ m <= p /\ p <= m + u - 1 /\ m + u - 1 \in Nat
    <3>1. u * back \in Nat
      BY <1>2, ProductNat
    <3> QED BY <1>2, <3>1
  <2> HIDE DEF m, p
  <2>2. k * m <= k * p /\ k * p <= k * (m + u - 1)
    BY <2>1, ProductMonotoneX
  <2>3. k * (m + u - 1) = k * m + k * u - k
    BY <2>1
  <2> QED BY <2>2, <2>3 DEF m, p
<1>5. /\ k * (u * back) = (k * u) * back /\ k * (u * back) = u * (k * back)
      /\ (a * u) * b = a * (u * b) /\ (a * u) * b = u * (a * b)
  BY <1>1, <1>2
<1>6. /\ a * (u * b) \in Nat /\ (k * u) * back \in Nat /\ k * (t * b) \in Nat /\ k * u \in Nat /\ k * b \in Nat
      /\ k * back \in Nat /\ a * b \in Nat /\ u * (k * back) \in Nat /\ u * (a * b) \in Nat
  BY <1>1, <1>2, ProductNat
<1>7. a * (u * b) < (k * u) * back + k * u + k * b
  BY <1>3, <1>4, <1>5, <1>6
<1>8. u * (k * back) <= u * (a * b)
  BY <1>3, <1>4, <1>5, <1>6
<1>9. k * back <= a * b
  <2> DEFINE m == k * back
             p == a * b
  <2>1. m \in Nat /\ p \in Nat /\ u * m <= u * p /\ u * p \in Nat
    BY <1>6, <1>8
  <2> HIDE DEF m, p
  <2>2. ASSUME m > p PROVE FALSE
    <3>1. u * m >= u * p + u
      BY <2>1, <2>2, NextMultiple
    <3>2. u * m \in Nat
      BY <2>1, ProductNat
    <3> QED BY <2>1, <3>1, <3>2
  <2>3. m <= p
    BY <2>1, <2>2
  <2> QED BY <2>3 DEF m, p
<1> QED BY <1>1, <1>2, <1>7, <1>9

LEMMA CancelFactor ==
    ASSUME NEW x \in Nat, NEW y \in Nat, NEW c \in Nat \ {0}, c * x <= c * y PROVE x <= y
<1>1. c * x \in Nat /\ c * y \in Nat
  BY ProductNat
<1>2. ASSUME x > y PROVE FALSE
  <2>1. c * x >= c * y + c
    BY <1>2, NextMultiple
  <2> QED BY <1>1, <2>1
<1> QED BY <1>2

\* Entering with the part of an amount that its cost leaves room for costs no more than that room
\* and the margin.
LEMMA CostScales ==
    ASSUME NEW X \in Nat \ {0}, NEW S \in Nat, NEW E \in Nat, NEW a \in Nat,
           NEW k \in Nat \ {0}, NEW b \in Nat, NEW u \in Nat \ {0}, NEW M \in Nat,
           NEW whole \in Nat, NEW back \in Nat,
           E + whole = X, k * whole <= X * b, E * a <= X * S, b <= M * u,
           a * (u * b) < (k * u) * back + k * u + k * b
    PROVE  a <= back + S + M
<1>1. k * X <= k * E + X * b
  <2>1. k * (E + whole) = k * E + k * whole
    OBVIOUS
  <2>2. k * E \in Nat /\ k * whole \in Nat /\ X * b \in Nat /\ k * X \in Nat
    BY ProductNat
  <2> QED BY <2>1, <2>2
<1>2. k * (X * a) <= k * (E * a) + X * (b * a)
  <2>1. (k * X) * a <= (k * E + X * b) * a
    <3> DEFINE m == k * X
               p == k * E + X * b
    <3>1. m \in Nat /\ p \in Nat /\ m <= p
      <4>1. k * X \in Nat /\ k * E \in Nat /\ X * b \in Nat
        BY ProductNat
      <4> QED BY <1>1, <4>1
    <3> HIDE DEF m, p
    <3>2. m * a <= p * a
      BY <3>1, ProductMonotoneY
    <3> QED BY <3>2 DEF m, p
  <2>2. (k * X) * a = k * (X * a) /\ (k * E + X * b) * a = k * (E * a) + X * (b * a)
    OBVIOUS
  <2> QED BY <2>1, <2>2
<1>3. k * (E * a) <= k * (X * S)
  <2>1. E * a \in Nat /\ X * S \in Nat
    BY ProductNat
  <2> QED BY <2>1, ProductMonotoneX
<1>4. k * a <= k * S + b * a
  <2> DEFINE m == k * a
             p == k * S + b * a
  <2>1. m \in Nat /\ p \in Nat
    <3>1. k * a \in Nat /\ k * S \in Nat /\ b * a \in Nat
      BY ProductNat
    <3> QED BY <3>1
  <2>2. X * m <= X * p
    <3>1. X * (k * a) = k * (X * a) /\ X * (k * S + b * a) = k * (X * S) + X * (b * a)
      OBVIOUS
    <3>2. k * (X * a) \in Nat /\ k * (E * a) \in Nat /\ X * (b * a) \in Nat /\ k * (X * S) \in Nat
      BY ProductNat
    <3> QED BY <1>2, <1>3, <3>1, <3>2
  <2> HIDE DEF m, p
  <2>3. m <= p
    BY <2>1, <2>2, CancelFactor
  <2> QED BY <2>3 DEF m, p
<1>5. (k * u) * a <= (k * u) * S + a * (u * b)
  <2>1. u * (k * a) <= u * (k * S + b * a)
    <3> DEFINE m == k * a
               p == k * S + b * a
    <3>1. m \in Nat /\ p \in Nat /\ m <= p
      <4>1. k * a \in Nat /\ k * S \in Nat /\ b * a \in Nat
        BY ProductNat
      <4> QED BY <1>4, <4>1
    <3> HIDE DEF m, p
    <3>2. u * m <= u * p
      BY <3>1, ProductMonotoneX
    <3> QED BY <3>2 DEF m, p
  <2>2. u * (k * a) = (k * u) * a /\ u * (k * S + b * a) = (k * u) * S + a * (u * b)
    OBVIOUS
  <2> QED BY <2>1, <2>2
<1>6. k * b <= (k * u) * M
  <2>1. M * u \in Nat
    BY ProductNat
  <2>2. k * b <= k * (M * u)
    BY <2>1, ProductMonotoneX
  <2>3. k * (M * u) = (k * u) * M
    OBVIOUS
  <2> QED BY <2>2, <2>3
<1> DEFINE c == k * u
<1>7. c \in Nat /\ c > 0
  <2>1. k * 1 <= k * u
    BY ProductMonotoneX
  <2>2. k * u \in Nat
    BY ProductNat
  <2> QED BY <2>1, <2>2
<1>8. c * a < c * S + c * back + c + c * M
  <2>1. c * a \in Nat /\ c * S \in Nat /\ c * back \in Nat /\ c * M \in Nat /\ a * (u * b) \in Nat /\ k * b \in Nat
    BY <1>7, ProductNat
  <2> QED BY <1>5, <1>6, <1>7, <2>1
<1> HIDE DEF c
<1>9. ASSUME a > back + S + M PROVE FALSE
  <2>1. back + S + M \in Nat
    OBVIOUS
  <2>2. c * a >= c * (back + S + M) + c
    BY <1>7, <1>9, <2>1, NextMultiple
  <2>3. c * (back + S + M) = c * back + c * S + c * M
    BY <1>7
  <2>4. c * a \in Nat /\ c * S \in Nat /\ c * back \in Nat /\ c * M \in Nat
    BY <1>7, ProductNat
  <2> QED BY <1>7, <1>8, <2>2, <2>3, <2>4
<1> QED BY <1>9

\* What is subscribed costs no more than the value above what is parked.
LEMMA SubscribedCost ==
    ASSUME TypeOK, MarginAssumption, NEW room \in Rooms, cash > BufferTarget, Subscribes(room) # 0
    PROVE  /\ Spare \in Nat /\ quote.answers
           /\ Subscribes(room) <=
                PreviewRedeem(PreviewDeposit(Subscribes(room), quote), quote) + Spare + MinMargin
<1> DEFINE X == Excess(room)
           a == Subscribes(room)
           S == Spare
           E == EntryCost(X)
           k == quote.ask
           b == quote.bid
           tX == PreviewDeposit(X, quote)
           whole == PreviewRedeem(tX, quote)
           t == PreviewDeposit(a, quote)
           back == PreviewRedeem(t, quote)
<1>1. /\ cash \in Nat /\ shares \in Nat /\ quote \in Quotes /\ totalPrincipal \in Nat /\ BufferTarget \in Nat
      /\ room \in Nat /\ Unit \in Nat \ {0} /\ MinMargin \in Nat
  BY TargetsNat DEF TypeOK
<1>2. k \in Nat \ {0} /\ b \in Nat \ {0} /\ b <= MinMargin * Unit
  BY <1>1, QuotesTyped DEF MarginAssumption
<1>3. S \in Nat /\ quote.answers
  <2>1. ~(S <= 0 \/ ~quote.answers)
    BY DEF Subscribes
  <2>2. S \in Int
    <3>1. Value(cash, shares, quote) \in Nat
      BY <1>1, ValueNat
    <3> QED BY <1>1, <3>1 DEF Spare
  <2> QED BY <2>1, <2>2
<1>4. X \in Nat
  BY <1>1 DEF Excess, AtMost
<1>5. tX \in Nat /\ whole \in Nat /\ a \in Nat /\ t \in Nat /\ back \in Nat
  <2>1. a \in Nat
    BY <1>1, SubscriptionFits
  <2>2. tX \in Nat /\ t \in Nat
    BY <1>1, <1>4, <2>1, PreviewsNat
  <2> QED BY <1>1, <2>1, <2>2, PreviewsNat
<1>6. k * whole <= X * b
  <2>1. tX = (X * Unit) \div k /\ whole = (tX * b) \div Unit
    BY DEF PreviewDeposit, PreviewRedeem
  <2> HIDE DEF X, k, b, tX, whole
  <2> QED BY <1>1, <1>2, <1>4, <2>1, EntryBounds
<1>7. a * (Unit * b) < (k * Unit) * back + k * Unit + k * b
  <2>1. t = (a * Unit) \div k /\ back = (t * b) \div Unit
    BY DEF PreviewDeposit, PreviewRedeem
  <2> HIDE DEF a, k, b, t, back
  <2> QED BY <1>1, <1>2, <1>5, <2>1, EntryBounds
<1>8. E = IF whole >= X THEN 0 ELSE X - whole
  BY DEF EntryCost
<1>9. a = IF E > S THEN (X * S) \div E ELSE X
  BY DEF Subscribes
<1> HIDE DEF X, a, S, E, k, b, tX, whole, t, back
<1>10. CASE E > S
  <2>1. E \in Nat /\ E > 0 /\ E + whole = X /\ X \in Nat \ {0}
    BY <1>3, <1>4, <1>5, <1>8, <1>10
  <2>2. E * a <= X * S
    <3> DEFINE p == X * S
    <3>1. p \in Nat
      BY <1>3, <1>4, ProductNat
    <3> HIDE DEF p
    <3>2. E * (p \div E) <= p
      BY <2>1, <3>1, QuotientBounds
    <3> QED BY <1>9, <1>10, <3>2 DEF p
  <2>3. a <= back + S + MinMargin
    BY <1>1, <1>2, <1>3, <1>5, <1>6, <1>7, <2>1, <2>2, CostScales
  <2> QED BY <1>3, <2>3 DEF a, S, back, t
<1>11. CASE ~(E > S)
  <2>1. a = X /\ t = tX /\ back = whole
    BY <1>9, <1>11 DEF t, tX, back, whole, a, X
  <2>2. a <= back + S + MinMargin
    BY <1>1, <1>3, <1>4, <1>5, <1>8, <1>11, <2>1
  <2> QED BY <1>3, <2>2 DEF a, S, back, t
<1> QED BY <1>10, <1>11

LEMMA SubscriptionStands ==
    ASSUME TypeOK, MarginAssumption
    PROVE  QuotedSubscriptionStands
<1> SUFFICES ASSUME NEW room \in Rooms, cash > BufferTarget, Subscribes(room) # 0
             PROVE  Covers(Subscribed(Subscribes(room), quote))
  BY DEF QuotedSubscriptionStands
<1> DEFINE a == Subscribes(room)
           t == PreviewDeposit(a, quote)
<1>1. cash \in Nat /\ shares \in Nat /\ quote \in Quotes /\ totalPrincipal \in Nat /\ MinMargin \in Nat
  BY DEF TypeOK
<1>2. a \in 0..cash
  BY SubscriptionFits
<1>3. t \in Nat
  BY <1>1, <1>2, PreviewsNat
<1>4. PreviewRedeem(shares + t, quote) >= PreviewRedeem(shares, quote) + PreviewRedeem(t, quote)
  BY <1>1, <1>3, TogetherPaysMore
<1>5. /\ PreviewRedeem(shares + t, quote) \in Nat /\ PreviewRedeem(shares, quote) \in Nat
      /\ PreviewRedeem(t, quote) \in Nat
  BY <1>1, <1>3, PreviewsNat
<1>6. Spare \in Nat /\ quote.answers /\ a <= PreviewRedeem(t, quote) + Spare + MinMargin
  BY SubscribedCost
<1>7. Spare = cash + PreviewRedeem(shares, quote) - totalPrincipal - MinMargin
  <2>1. Value(cash, shares, quote) = cash + PreviewRedeem(shares, quote)
    BY <1>6 DEF Value
  <2> QED BY <1>1, <1>5, <2>1 DEF Spare
<1>8. Covers(Subscribed(a, quote)) = (cash - a + PreviewRedeem(shares + t, quote) >= totalPrincipal)
  BY <1>6 DEF Covers, Subscribed, Value
<1> HIDE DEF a, t
<1>9. cash - a + PreviewRedeem(shares + t, quote) >= totalPrincipal
  BY <1>1, <1>2, <1>4, <1>5, <1>6, <1>7
<1> QED BY <1>8, <1>9 DEF a

\* By a Teller that trades at its quotes, a subscription is never one that must be undone: rebalance
\* does not revert.
THEOREM SubscriptionsStand == Spec => []QuotedSubscriptionStands
<1> QED BY SubscriptionStands, PoolTypesHold, MarginAssumption, PTL
=============================================================================
