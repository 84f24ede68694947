----------------------------- MODULE Settlement -----------------------------
(***************************************************************************)
(* The settlement base every Karwan escrow family inherits                 *)
(* (KarwanSettlementBase over SettlementLib): the books of one family in   *)
(* one asset.  The family itself is arbitrary: it may call open, fund,     *)
(* payTo, payFee, close and the rest in any order, so what holds here      *)
(* holds whatever a family does.  One asset is enough: no library call     *)
(* touches the books of two assets.                                        *)
(*                                                                         *)
(* The hub's switches are state (governance moves them at any time); what  *)
(* a deal copies from the hub at opening is chosen from a set.  The token  *)
(* may refuse any single transfer (a blocklist) and the yield pool may     *)
(* refuse any single withdrawal, so both are a choice at each call.        *)
(***************************************************************************)
EXTENDS Integers, Sequences, FiniteSets, Functions

CONSTANTS
    Deals,          \* deal ids
    Users,          \* addresses that can hold the asset
    None,           \* address(0)
    FeeRecipient,   \* hub.feeRecipient
    Subjects,       \* users whose wallet is bound to an identity
    Nonces,         \* assignment nonces a payee may sign with
    BPS,            \* basis points in a whole: 10,000 in the code
    MaxFeeBps,      \* MAX_FEE_BPS
    FeeRates,       \* fees governance may set for the family
    YieldShares,    \* yield shares governance may set for the family
    DealCaps,       \* per-deal caps governance may set
    TotalCaps,      \* family caps governance may set
    MaxPayees,      \* MAX_PAYEES: 8 in the code, at most 2 here
    Longstop,       \* LONGSTOP
    MaxHorizon,     \* MAX_HORIZON
    HoldStep,       \* HOLD_STEP
    HoldCap,        \* HOLD_BUDGET
    MinYieldTerm,   \* MIN_YIELD_TERM
    Payers,         \* bound: who may open deals
    Payees,         \* bound: who deals may name as payees
    Assignees,      \* bound: whom payees may sign payouts over to
    MaxTime,        \* bound: the last block time considered
    MaxAmount,      \* bound: the largest amount of one call
    MaxFunded,      \* bound: the most one deal takes in over its life
    Acts,           \* bound: the governance acts considered, of AllActs
    Purse           \* bound: what each user's wallet starts with

AllActs == {"pause", "retire", "revoke", "list", "caps"}

ASSUME SettlementAssumption ==
    /\ IsFiniteSet(Deals) /\ IsFiniteSet(Users)   \* 256-bit deal ids, 160-bit addresses
    /\ None \notin Users /\ FeeRecipient \in Users /\ Subjects \subseteq Users
    /\ BPS \in Nat \ {0} /\ MaxFeeBps \in 0..BPS
    /\ FeeRates \subseteq Nat /\ YieldShares \subseteq 0..BPS
    /\ DealCaps \subseteq Nat /\ TotalCaps \subseteq Nat
    /\ MaxPayees \in 1..2
    /\ {Longstop, MaxHorizon, HoldStep, HoldCap, MinYieldTerm} \subseteq Nat
    /\ {MaxTime, MaxAmount, MaxFunded} \subseteq Nat /\ Acts \subseteq AllActs
    /\ Payers \cup Payees \cup Assignees \subseteq Users
    /\ Purse \in [Users -> Nat]

VARIABLES
    now,         \* block.timestamp
    hub,         \* the hub's switches for this family and asset
    status,      \* per deal: "None" (payer is zero), "Live" or "Closed"
    terms,       \* per deal: payer, feeBps, yieldBps and perDealCap, copied at opening
    payees,      \* per deal: its payees in order
    consent,     \* per deal: the payees that accepted (consentMask)
    funded, balance, feePaid, promised,   \* per deal: the money fields
    horizon, holdUntil, holdUsed,         \* per deal: the clocks
    assignment,  \* per deal and payee: the payout signed over
    nonceUsed,   \* <<payee, nonce>> pairs spent or cancelled
    books,       \* the asset's totals, the token's balances and the pool's share
    pending,     \* <<deal, party>> outcomes waiting to be written
    written      \* <<deal, party>> outcomes KarwanRecord holds

dealVars  == <<status, terms, payees, consent>>
moneyVars == <<funded, balance, feePaid, promised>>
clockVars == <<horizon, holdUntil, holdUsed>>
signVars  == <<assignment, nonceUsed>>
recVars   == <<pending, written>>
vars == <<now, hub, dealVars, moneyVars, clockVars, signVars, books, recVars>>

Amounts == 1..MaxAmount
NoAssignment == [assignee |-> None, amount |-> 0, paid |-> 0]
NoTerms == [payer |-> None, feeBps |-> 0, yieldBps |-> 0, cap |-> 0]

ShareOf(amount, bps) == (amount * bps) \div BPS
AtMost(x, y) == IF x < y THEN x ELSE y

\* Slip: the closed flag is forgotten.
SlipLive(d) == status[d] # "None"
Live(d) == status[d] = "Live"
Payer(d) == terms[d].payer
IsPayee(d, u) == \E i \in 1..Len(payees[d]) : payees[d][i] = u
IsParty(d, u) == u = Payer(d) \/ IsPayee(d, u)

\* What the hub answers: openingConfig.open, acceptsMoney, isFamily and takesPromised.
OpensDeals    == ~hub.retired /\ ~hub.paused /\ hub.listed
AcceptsMoney  == ~hub.revoked /\ ~hub.paused /\ hub.listed
IsFamily      == ~hub.revoked
\* Slip: promised money is asked what fresh money is asked.
SlipTakesPromised == AcceptsMoney
TakesPromised == IsFamily /\ hub.listed

ValidHorizon(h) == h > now /\ h <= now + MaxHorizon

-----------------------------------------------------------------------------
(***************************************************************************)
(* The cash desk.  Each operator maps the asset's books to the set of      *)
(* books a call may leave, one for each answer of the token and the pool.  *)
(***************************************************************************)

\* Slip: a refused withdrawal leaves `parked` reduced.
SlipPull(b, amount) ==
    IF amount <= b.parked
    THEN {[ok |-> FALSE, books |-> [b EXCEPT !.parked = @ - amount]],
          [ok |-> TRUE, books |-> [b EXCEPT !.parked = @ - amount, !.cash = @ + amount]]}
    ELSE {[ok |-> FALSE, books |-> b]}
\* _pull: the pool pays `amount` back, or refuses and nothing moves.
Pull(b, amount) ==
    {[ok |-> FALSE, books |-> b]}
    \cup IF amount <= b.parked
         THEN {[ok |-> TRUE, books |-> [b EXCEPT !.parked = @ - amount, !.cash = @ + amount]]}
         ELSE {}

\* _liquid: the escrow's own cash covers `amount`, or the pool brings the rest.
Liquid(b, amount) ==
    IF b.cash >= amount THEN {[ok |-> TRUE, books |-> b]} ELSE Pull(b, amount - b.cash)

Transferred(b, to, amount) == [b EXCEPT !.cash = @ - amount, !.wallet[to] = @ + amount]
Credited(b, to, amount) == [b EXCEPT !.owed[to] = @ + amount, !.owedTotal = @ + amount]

\* Slip: what was paid is credited as well.
SlipDeliver(b, to, amount) ==
    IF amount = 0 THEN {b}
    ELSE {Credited(r.books, to, amount) : r \in Liquid(b, amount)}
         \cup {Credited(Transferred(r.books, to, amount), to, amount) : r \in {q \in Liquid(b, amount) : q.ok}}
\* _deliver: pay now, or credit `to` when the cash is not there or the token refuses.
Deliver(b, to, amount) ==
    IF amount = 0 THEN {b}
    ELSE {Credited(r.books, to, amount) : r \in Liquid(b, amount)}
         \cup {Transferred(r.books, to, amount) : r \in {q \in Liquid(b, amount) : q.ok}}

\* _take, the books' side: the deal's money leaves `held` and its share leaves `parkable`.
Taken(b, d, amount) ==
    LET share == ShareOf(amount, terms[d].yieldBps)
    IN  [b EXCEPT !.held = @ - amount, !.parkable = IF @ > share THEN @ - share ELSE 0]

\* What the family may keep parked: the eligible share, never more than it holds.
ParkTarget(b) == AtMost(b.parkable, b.held)

\* _trim: after an eligible deal pays out, what is parked beyond the target comes back.
Trim(b, d) ==
    IF terms[d].yieldBps # 0 /\ b.parked > ParkTarget(b)
    THEN {r.books : r \in Pull(b, b.parked - ParkTarget(b))}
    ELSE {b}

\* Slip: the assignee is paid only out of a payout larger than what the assignment still lacks.
SlipAssigneeCut(d, u, amount) ==
    LET left == assignment[d][u].amount - assignment[d][u].paid IN IF left < amount THEN left ELSE 0
\* The assignee's part of a payout: first in line, up to what is left of the assignment.
AssigneeCut(d, u, amount) ==
    LET g == assignment[d][u] IN IF g.assignee = None THEN 0 ELSE AtMost(amount, g.amount - g.paid)

\* payTo, the books' side, for a payout of `amount` to party `u`.
PaidOut(b, d, u, amount) ==
    IF amount = 0 THEN {b}
    ELSE LET cut == AssigneeCut(d, u, amount)
         IN  UNION {Deliver(b2, u, amount - cut) :
                 b2 \in UNION {Deliver(b1, assignment[d][u].assignee, cut) :
                                   b1 \in Trim(Taken(b, d, amount), d)}}

\* payTo, the assignment's side.
AssigneePaid(g, d, u, amount) == [g EXCEPT ![d][u].paid = @ + AssigneeCut(d, u, amount)]

-----------------------------------------------------------------------------
(***************************************************************************)
(* Opening, funding and promising.                                         *)
(***************************************************************************)

\* open: copies the hub's settings; a deal is eligible for yield only if it can run long enough.
Open(d, payer, list, h, fee, share, cap) ==
    /\ status[d] = "None" /\ OpensDeals /\ fee <= MaxFeeBps /\ cap # 0
    /\ Len(list) <= MaxPayees
    /\ \A i, j \in 1..Len(list) : list[i] # payer /\ (i # j => list[i] # list[j])
    /\ ValidHorizon(h)
    /\ status' = [status EXCEPT ![d] = "Live"]
    /\ terms' = [terms EXCEPT ![d] =
                    [payer |-> payer, feeBps |-> fee, cap |-> cap,
                     yieldBps |-> IF h >= now + MinYieldTerm THEN share ELSE 0]]
    /\ payees' = [payees EXCEPT ![d] = list]
    /\ horizon' = [horizon EXCEPT ![d] = h]
    /\ UNCHANGED <<now, hub, consent, moneyVars, holdUntil, holdUsed, signVars, books, recVars>>

\* addPayee: only while no money has left the deal.
AddPayee(d, u) ==
    /\ Live(d) /\ balance[d] = funded[d]
    /\ Len(payees[d]) < MaxPayees /\ ~IsParty(d, u)
    /\ payees' = [payees EXCEPT ![d] = Append(@, u)]
    /\ UNCHANGED <<now, hub, status, terms, consent, moneyVars, clockVars, signVars, books, recVars>>

MarkConsent(d, u) ==
    /\ Live(d) /\ IsPayee(d, u)
    /\ consent' = [consent EXCEPT ![d] = @ \cup {u}]
    /\ UNCHANGED <<now, hub, status, terms, payees, moneyVars, clockVars, signVars, books, recVars>>

FitsDeal(d, amount) == balance[d] + amount <= terms[d].cap

\* Slip: promised money does not count against the family's cap.
SlipFitsTotal(amount) == books.held + amount <= hub.totalCap
FitsTotal(amount) == books.held + books.promisedTotal + amount <= hub.totalCap

\* Money in: the deal's and the family's books rise together, then the payer's wallet pays.
TakeIn(d, amount, unpromised) ==
    /\ books.wallet[Payer(d)] >= amount
    /\ funded' = [funded EXCEPT ![d] = @ + amount]
    /\ balance' = [balance EXCEPT ![d] = @ + amount]
    /\ books' = [books EXCEPT !.held = @ + amount, !.cash = @ + amount,
                              !.parkable = @ + ShareOf(amount, terms[d].yieldBps),
                              !.promisedTotal = @ - unpromised,
                              !.wallet[Payer(d)] = @ - amount]
    /\ UNCHANGED <<now, hub, dealVars, feePaid, clockVars, signVars, recVars>>

\* fund, money nobody promised: the hub must accept money and both caps must have room.
FundFresh(d, amount) ==
    /\ Live(d) /\ promised[d] = 0
    /\ AcceptsMoney /\ FitsDeal(d, amount) /\ FitsTotal(amount)
    /\ TakeIn(d, amount, 0)
    /\ UNCHANGED promised

CanTakePromised(d, amount) ==
    /\ Live(d) /\ promised[d] # 0
    /\ amount <= promised[d] /\ TakesPromised /\ amount <= books.promisedTotal

\* fund, money promised at opening: taken even while paused or over the caps.
FundPromised(d, amount) ==
    /\ CanTakePromised(d, amount)
    /\ TakeIn(d, amount, amount)
    /\ promised' = [promised EXCEPT ![d] = @ - amount]

Pledge(d, amount) ==
    /\ Live(d) /\ promised[d] = 0
    /\ FitsDeal(d, amount) /\ FitsTotal(amount)
    /\ promised' = [promised EXCEPT ![d] = amount]
    /\ books' = [books EXCEPT !.promisedTotal = @ + amount]
    /\ UNCHANGED <<now, hub, dealVars, funded, balance, feePaid, clockVars, signVars, recVars>>

-----------------------------------------------------------------------------
(***************************************************************************)
(* Payouts.  None of these asks the hub anything.                          *)
(***************************************************************************)

\* The checked subtractions of _take: a deal pays no more than its balance, nor than `held`.
Takes(d, amount) == amount <= balance[d] /\ amount <= books.held

CanPayTo(d, u, amount) == IsParty(d, u) /\ Takes(d, amount)

PayTo(d, u, amount) ==
    /\ CanPayTo(d, u, amount)
    /\ balance' = [balance EXCEPT ![d] = @ - amount]
    /\ books' \in PaidOut(books, d, u, amount)
    /\ assignment' = AssigneePaid(assignment, d, u, amount)
    /\ UNCHANGED <<now, hub, dealVars, funded, feePaid, promised, clockVars, nonceUsed, recVars>>

FeeLeft(d) == ShareOf(funded[d], terms[d].feeBps) - feePaid[d]

PayFee(d, amount) ==
    /\ amount <= FeeLeft(d) /\ Takes(d, amount)
    /\ balance' = [balance EXCEPT ![d] = @ - amount]
    /\ feePaid' = [feePaid EXCEPT ![d] = @ + amount]
    /\ books' \in UNION {Deliver(b, FeeRecipient, amount) : b \in Trim(Taken(books, d, amount), d)}
    /\ UNCHANGED <<now, hub, dealVars, funded, promised, clockVars, signVars, recVars>>

OwedPaid(b, u, amount) == {Transferred(r.books, u, amount) : r \in {q \in Liquid(b, amount) : q.ok}}

Cleared(u) == [books EXCEPT !.owed[u] = 0, !.owedTotal = @ - books.owed[u]]

\* withdrawOwed: all of it to its owner, or the call reverts (no liquid cash, transfer refused).
WithdrawOwed(u) ==
    LET amount == books.owed[u]
    IN  /\ amount # 0 /\ amount <= books.owedTotal
        /\ books' \in OwedPaid(Cleared(u), u, amount)
        /\ UNCHANGED <<now, hub, dealVars, moneyVars, clockVars, signVars, recVars>>

\* Slip: the deal's promise is cleared, the family's total is not.
SlipPromiseEnded(b, d) == b
\* _endPromise: what was still promised stops counting against the caps.
PromiseEnded(b, d) == [b EXCEPT !.promisedTotal = @ - promised[d]]

CanClose(d) == Live(d) /\ balance[d] = 0 /\ promised[d] <= books.promisedTotal

Close(d) ==
    /\ CanClose(d)
    /\ status' = [status EXCEPT ![d] = "Closed"]
    /\ promised' = [promised EXCEPT ![d] = 0]
    /\ books' = PromiseEnded(books, d)
    /\ UNCHANGED <<now, hub, terms, payees, consent, funded, balance, feePaid, clockVars, signVars, recVars>>

-----------------------------------------------------------------------------
(***************************************************************************)
(* Outcomes.  KarwanRecord writes one outcome per deal and party, for a    *)
(* family that is not revoked; a write that fails (or runs out of gas)     *)
(* leaves the outcome pending.                                             *)
(***************************************************************************)
Recordable(d, parties) ==
    {<<d, u>> : u \in {v \in parties \cap Subjects : v = Payer(d) \/ v \in consent[d]}}

\* Slip: a refused outcome is dropped.
SlipRecord(d, parties) ==
    \E ok \in SUBSET {k \in Recordable(d, parties) : IsFamily /\ k \notin written} :
        written' = written \cup ok /\ UNCHANGED pending

Record(d, parties) ==
    \E ok \in SUBSET {k \in Recordable(d, parties) : IsFamily /\ k \notin written} :
        /\ written' = written \cup ok
        /\ pending' = pending \cup (Recordable(d, parties) \ ok)

RecordOutcome(d, u) ==
    /\ IsParty(d, u) /\ Record(d, {u})
    /\ UNCHANGED <<now, hub, dealVars, moneyVars, clockVars, signVars, books>>

RetryRecord(d, u) ==
    /\ <<d, u>> \in pending
    /\ <<d, u>> \in written \/ IsFamily
    /\ written' = written \cup {<<d, u>>}
    /\ pending' = pending \ {<<d, u>>}
    /\ UNCHANGED <<now, hub, dealVars, moneyVars, clockVars, signVars, books>>

-----------------------------------------------------------------------------
(***************************************************************************)
(* The long-stop: the senior Safe splits what is left, between the deal's  *)
(* own parties, once the horizon is LONGSTOP behind.                       *)
(***************************************************************************)
PayeeAmount(d, i, amount) == IF i <= Len(payees[d]) THEN amount ELSE 0
PayeeAt(d, i) == IF i <= Len(payees[d]) THEN payees[d][i] ELSE Payer(d)

LongstopOpen(d) == Live(d) /\ balance[d] # 0 /\ now >= horizon[d] + Longstop
CanSplit(d) == LongstopOpen(d) /\ Takes(d, balance[d]) /\ promised[d] <= books.promisedTotal

LongstopSplit(d, toPayer, to1, to2) ==
    /\ CanSplit(d)
    /\ to1 = PayeeAmount(d, 1, to1) /\ to2 = PayeeAmount(d, 2, to2)
    /\ toPayer + to1 + to2 = balance[d]
    /\ status' = [status EXCEPT ![d] = "Closed"]
    /\ promised' = [promised EXCEPT ![d] = 0]
    /\ balance' = [balance EXCEPT ![d] = 0]
    /\ \E b0 \in PaidOut(PromiseEnded(books, d), d, Payer(d), toPayer) :
       \E b1 \in PaidOut(b0, d, PayeeAt(d, 1), to1) :
           books' \in PaidOut(b1, d, PayeeAt(d, 2), to2)
    /\ assignment' = AssigneePaid(AssigneePaid(assignment, d, PayeeAt(d, 1), to1), d, PayeeAt(d, 2), to2)
    /\ Record(d, {u \in Users : IsParty(d, u)})
    /\ UNCHANGED <<now, hub, terms, payees, consent, funded, feePaid, clockVars, nonceUsed>>

-----------------------------------------------------------------------------
(***************************************************************************)
(* Payouts signed over to someone else.                                    *)
(***************************************************************************)
Assigns(d, u, assignee, amount) ==
    /\ Live(d) /\ IsPayee(d, u) /\ assignee # u
    /\ assignment[d][u].assignee = None
    /\ assignment' = [assignment EXCEPT ![d][u] = [assignee |-> assignee, amount |-> amount, paid |-> 0]]
    /\ UNCHANGED <<now, hub, dealVars, moneyVars, clockVars, books, recVars>>

\* assignPayout called by the payee itself.
AssignPayout(d, u, assignee, amount) == Assigns(d, u, assignee, amount) /\ UNCHANGED nonceUsed

\* assignPayout with the payee's signature, which spends its nonce.
AssignBySignature(d, u, assignee, amount, n) ==
    /\ <<u, n>> \notin nonceUsed
    /\ Assigns(d, u, assignee, amount)
    /\ nonceUsed' = nonceUsed \cup {<<u, n>>}

CancelNonce(u, n) ==
    /\ nonceUsed' = nonceUsed \cup {<<u, n>>}
    /\ UNCHANGED <<now, hub, dealVars, moneyVars, clockVars, assignment, books, recVars>>

ReleaseAssignment(d, u) ==
    /\ assignment[d][u].assignee # None
    /\ assignment' = [assignment EXCEPT ![d][u] = NoAssignment]
    /\ UNCHANGED <<now, hub, dealVars, moneyVars, clockVars, nonceUsed, books, recVars>>

-----------------------------------------------------------------------------
(***************************************************************************)
(* Yield, holds, horizon, the hub's switches and time.                     *)
(***************************************************************************)

\* rebalanceYield: anyone moves the parked money toward its target; a revoked family, or a
\* delisted asset, brings all of it back.
RebalanceYield ==
    LET target == IF TakesPromised THEN ParkTarget(books) ELSE 0
    IN  /\ \/ /\ books.parked < target /\ target - books.parked <= books.cash
              /\ books' = [books EXCEPT !.parked = target, !.cash = @ - (target - books.parked)]
           \/ /\ books.parked > target
              /\ books' \in {r.books : r \in Pull(books, books.parked - target)}
        /\ UNCHANGED <<now, hub, dealVars, moneyVars, clockVars, signVars, recVars>>

NextHold(d) == AtMost(HoldStep, HoldCap - holdUsed[d])

\* hold: the guardian delays claims, one step at a time, within the deal's budget.
Hold(d) ==
    /\ Live(d) /\ holdUntil[d] <= now /\ NextHold(d) # 0
    /\ holdUsed' = [holdUsed EXCEPT ![d] = @ + NextHold(d)]
    /\ holdUntil' = [holdUntil EXCEPT ![d] = now + NextHold(d)]
    /\ UNCHANGED <<now, hub, dealVars, moneyVars, horizon, signVars, books, recVars>>

ReleaseHold(d) ==
    /\ holdUntil' = [holdUntil EXCEPT ![d] = now]
    /\ UNCHANGED <<now, hub, dealVars, moneyVars, horizon, holdUsed, signVars, books, recVars>>

ExtendHorizon(d, h) ==
    /\ Live(d) /\ ValidHorizon(h) /\ h > horizon[d]
    /\ horizon' = [horizon EXCEPT ![d] = h]
    /\ UNCHANGED <<now, hub, dealVars, moneyVars, holdUntil, holdUsed, signVars, books, recVars>>

\* KarwanHub: pause and resume, retire, revoke, (de)list the asset, move the family's cap.
SetHub(h) ==
    /\ hub' = h
    /\ UNCHANGED <<now, dealVars, moneyVars, clockVars, signVars, books, recVars>>
PauseFamily == SetHub([hub EXCEPT !.paused = TRUE])
ResumeFamily == SetHub([hub EXCEPT !.paused = FALSE])
RetireFamily == SetHub([hub EXCEPT !.retired = TRUE])
RevokeFamily == SetHub([hub EXCEPT !.retired = TRUE, !.revoked = TRUE])
SetAsset(allowed) == SetHub([hub EXCEPT !.listed = allowed])
SetCaps(total) == SetHub([hub EXCEPT !.totalCap = total])

Tick ==
    /\ now < MaxTime
    /\ now' = now + 1
    /\ UNCHANGED <<hub, dealVars, moneyVars, clockVars, signVars, books, recVars>>

-----------------------------------------------------------------------------
Init ==
    /\ now = 0
    /\ \E cap \in TotalCaps :
           hub = [paused |-> FALSE, retired |-> FALSE, revoked |-> FALSE, listed |-> TRUE, totalCap |-> cap]
    /\ status = [d \in Deals |-> "None"] /\ terms = [d \in Deals |-> NoTerms]
    /\ payees = [d \in Deals |-> <<>>] /\ consent = [d \in Deals |-> {}]
    /\ funded = [d \in Deals |-> 0] /\ balance = [d \in Deals |-> 0]
    /\ feePaid = [d \in Deals |-> 0] /\ promised = [d \in Deals |-> 0]
    /\ horizon = [d \in Deals |-> 0]
    /\ holdUntil = [d \in Deals |-> 0] /\ holdUsed = [d \in Deals |-> 0]
    /\ assignment = [d \in Deals |-> [u \in Users |-> NoAssignment]]
    /\ nonceUsed = {}
    /\ books = [held |-> 0, promisedTotal |-> 0, parkable |-> 0, parked |-> 0, cash |-> 0,
                owed |-> [u \in Users |-> 0], owedTotal |-> 0, wallet |-> Purse]
    /\ pending = {} /\ written = {}

Lists == UNION {[1..n -> Payees] : n \in 0..MaxPayees}

FamilyStep(d) ==
    \/ \E payer \in Payers, list \in Lists, h \in now + 1..now + MaxHorizon,
           fee \in FeeRates, share \in YieldShares, cap \in DealCaps :
               Open(d, payer, list, h, fee, share, cap)
    \/ \E u \in Payees : AddPayee(d, u)
    \/ \E u \in Subjects : MarkConsent(d, u) \/ RecordOutcome(d, u)
    \/ \E x \in Amounts : FundFresh(d, x) /\ funded'[d] <= MaxFunded
    \/ \E x \in Amounts : FundPromised(d, x) /\ funded'[d] <= MaxFunded
    \/ \E x \in Amounts : Pledge(d, x) \/ PayFee(d, x)
    \/ \E u \in Users, x \in Amounts : PayTo(d, u, x)
    \/ Close(d)
    \/ \E h \in now + 1..now + MaxHorizon : ExtendHorizon(d, h)

PublicStep(d) ==
    \/ \E u \in Users, a \in Assignees, x \in Amounts : AssignPayout(d, u, a, x)
    \/ \E u \in Users, a \in Assignees, x \in Amounts, n \in Nonces : AssignBySignature(d, u, a, x, n)
    \/ \E u \in Users : ReleaseAssignment(d, u) \/ RetryRecord(d, u)
    \/ Hold(d) \/ ReleaseHold(d)
    \/ \E x, y, z \in 0..MaxAmount : LongstopSplit(d, x, y, z)

Governance ==
    \/ "pause" \in Acts /\ (PauseFamily \/ ResumeFamily)
    \/ "retire" \in Acts /\ RetireFamily
    \/ "revoke" \in Acts /\ RevokeFamily
    \/ \E allowed \in BOOLEAN : "list" \in Acts /\ SetAsset(allowed)
    \/ \E total \in TotalCaps : "caps" \in Acts /\ SetCaps(total)

Next ==
    \/ \E d \in Deals : FamilyStep(d) \/ PublicStep(d)
    \/ \E u \in Users : WithdrawOwed(u)
    \/ \E u \in Users, n \in Nonces : CancelNonce(u, n)
    \/ RebalanceYield \/ Governance \/ Tick

Spec == Init /\ [][Next]_vars

-----------------------------------------------------------------------------
(***************************************************************************)
(* Properties.                                                             *)
(***************************************************************************)
Terms == [payer : Users \cup {None}, feeBps : Nat, yieldBps : Nat, cap : Nat]
Assignment == [assignee : Users \cup {None}, amount : Nat, paid : Nat]
Books == [held : Nat, promisedTotal : Nat, parkable : Nat, parked : Nat, cash : Nat,
          owed : [Users -> Nat], owedTotal : Nat, wallet : [Users -> Nat]]
Hub == [paused : BOOLEAN, retired : BOOLEAN, revoked : BOOLEAN, listed : BOOLEAN, totalCap : Nat]

\* Every variable has its type.
TypeOK ==
    /\ now \in Nat /\ hub \in Hub
    /\ status \in [Deals -> {"None", "Live", "Closed"}]
    /\ terms \in [Deals -> Terms]
    /\ payees \in [Deals -> Seq(Users)] /\ consent \in [Deals -> SUBSET Users]
    /\ funded \in [Deals -> Nat] /\ balance \in [Deals -> Nat]
    /\ feePaid \in [Deals -> Nat] /\ promised \in [Deals -> Nat]
    /\ horizon \in [Deals -> Nat] /\ holdUntil \in [Deals -> Nat] /\ holdUsed \in [Deals -> Nat]
    /\ assignment \in [Deals -> [Users -> Assignment]]
    /\ nonceUsed \subseteq Users \X Nonces
    /\ books \in Books
    /\ pending \subseteq Deals \X Users /\ written \subseteq Deals \X Users

\* S1: the escrow's own cash plus what it parked is exactly what deals and owed payouts are due,
\* through every refused transfer and every pool that could not pay yet.
Solvent == books.cash + books.parked = books.held + books.owedTotal

Total(f) == FoldFunction(LAMBDA x, y : x + y, 0, f)

\* The asset's totals are the sums of what they total, so no checked subtraction of a payout, a
\* withdrawal or a closing can revert.
TotalsAreSums ==
    /\ books.held = Total(balance)
    /\ books.promisedTotal = Total(promised)
    /\ books.owedTotal = Total(books.owed)

\* A deal never holds, with what is still promised to it, more than the cap it copied at opening.
WithinDealCap == \A d \in Deals : balance[d] + promised[d] <= terms[d].cap

\* A deal's fee stays within its rate of what entered, an assignee within its assignment.
FeeAndCutBounded ==
    /\ \A d \in Deals : feePaid[d] <= ShareOf(funded[d], terms[d].feeBps)
    /\ \A d \in Deals, u \in Users : assignment[d][u].paid <= assignment[d][u].amount

\* Nothing is left in a closed deal, nor promised to it; nothing was ever in one that never opened.
ClosedIsEmpty == \A d \in Deals : status[d] # "Live" => balance[d] = 0 /\ promised[d] = 0

\* Deal by deal and in total: the books of every deal add up, whichever deal was paid, capped or closed.
BooksAddUp == TotalsAreSums /\ WithinDealCap /\ ClosedIsEmpty

\* What a user can call their own: in the wallet or owed by the escrow.
Claim(u) == books.wallet[u] + books.owed[u]

MayReceive(d) ==
    {FeeRecipient} \cup {u \in Users : IsParty(d, u)} \cup {assignment[d][u].assignee : u \in Users}

\* S2: whoever is better off after a step was a recorded recipient of a deal that paid, and got no
\* more than that deal lost.
OnlyRecipientsGain ==
    [][\A u \in Users : Claim(u)' > Claim(u) =>
           \E d \in Deals : /\ u \in MayReceive(d)
                            /\ Claim(u)' - Claim(u) <= balance[d] - balance'[d]]_vars

\* A payee who signed a payout over gets nothing from the deal until the assignee has it all.
AssigneeFirst ==
    [][\A d \in Deals, u \in Users \ ({FeeRecipient} \cup Payers \cup Assignees) :
           /\ assignment[d][u].assignee # None /\ balance'[d] < balance[d]
           /\ Claim(u)' > Claim(u)
           => assignment'[d][u].paid = assignment'[d][u].amount]_vars

\* The caps bound what enters afresh: the family's exposure grows only within its total cap, so
\* money promised at opening never needs room again.
ExposureWithinCap ==
    [][books'.held + books'.promisedTotal > books.held + books.promisedTotal =>
           books'.held + books'.promisedTotal <= hub.totalCap]_vars

\* S4, exits: whatever was paused, retired, revoked or delisted, any part of a deal's balance can be
\* paid to any of its parties, though the token refuses every transfer and the pool every withdrawal;
\* an empty deal can close and a late one be split; a promised part is taken unless the family is
\* revoked or the asset delisted; and there is money somewhere for whoever is owed a payout.
ExitsStayOpen ==
    /\ \A d \in Deals, u \in Users : IsParty(d, u) => \A x \in 1..balance[d] :
           /\ CanPayTo(d, u, x)
           /\ \E b \in PaidOut(books, d, u, x) : b.wallet = books.wallet /\ b.parked = books.parked
    /\ \A d \in Deals :
           /\ Live(d) /\ balance[d] = 0 => CanClose(d)
           /\ LongstopOpen(d) => CanSplit(d)
           /\ IsFamily /\ hub.listed => \A x \in 1..promised[d] : CanTakePromised(d, x)
    /\ \A u \in Users : books.owed[u] <= books.owedTotal /\ OwedPaid(Cleared(u), u, books.owed[u]) # {}

\* A long-stop reports an outcome for every recordable party in the step that pays it, whatever
\* the record answers; what it refused waits until the record holds it, and it never forgets one.
OutcomesKept ==
    [][/\ written \subseteq written' /\ pending \subseteq pending' \cup written'
       /\ \A d \in Deals : Live(d) /\ balance[d] # 0 /\ status'[d] = "Closed"
                           => Recordable(d, Users) \subseteq pending' \cup written']_vars

Account(d) == INSTANCE DealAccount WITH
    phase <- status[d], rate <- terms[d].feeBps, entered <- funded[d],
    left <- funded[d] - balance[d] - feePaid[d], fee <- feePaid[d]

\* Every deal's account behaves as the abstract one.
DealsAreAccounts ==
    /\ \A d \in Deals : Account(d)!Init
    /\ [][\A d \in Deals : [Account(d)!Next]_(Account(d)!accountVars)]_vars

=============================================================================
