----------------------------- MODULE WorkEscrow -----------------------------
(***************************************************************************)
(* One engagement of KarwanTimeEscrow (TimeLib, TimeDisputeLib): the       *)
(* employer funds work one cycle at a time, the worker submits units, and  *)
(* the employer approves them, objects, or says nothing, which pays.       *)
(* Rollover, amendments, ending at once and dropped objections, which the  *)
(* backend never uses, are left out, and so are holds and the long-stop,   *)
(* which Settlement models.                                                *)
(***************************************************************************)
EXTENDS Integers, FiniteSets, Functions

CONSTANTS
    BPS, FeeBps,                            \* basis points in a whole, and the fee's
    Rate, UnitScale,                        \* the price of UnitScale units: 60 minutes of an hour's rate
    MaxUnits,                               \* units a cycle may bill
    Periods,                                \* cycles agreed
    Start, Cycle,                           \* when the first starts, how long each lasts
    Grace, Review,                          \* claimGrace and reviewWindow
    NoticeCycles,                           \* cycles that still run after notice
    RulingPeriod,                           \* RULING_PERIOD
    FallbackBps, Rulings                    \* fallbackBps, and shares the reviewer may rule

ASSUME WorkAssumption ==
    /\ BPS \in Nat \ {0} /\ FeeBps \in 0..BPS /\ FallbackBps \in 0..BPS /\ Rulings \subseteq 0..BPS
    /\ \A c \in {Rate, UnitScale, MaxUnits, Periods, Start, Cycle, Review, RulingPeriod} : c \in Nat \ {0}
    /\ {Grace, NoticeCycles} \subseteq Nat
    /\ UnitScale <= Rate * MaxUnits         \* a cycle's budget is not 0

VARIABLES
    now,
    engagement,                             \* state, nextCycle and runs
    cycles,                                 \* each cycle's claim, approval and dispute
    balance,                                \* the engagement's account
    earned                                  \* what the worker was paid in all

workVars == <<engagement, cycles, balance, earned>>
Weeks == 0..(Periods - 1)

NoCycle == [state |-> "none", claimed |-> 0, approved |-> 0, disputed |-> 0, paid |-> 0, escalatedAt |-> 0]

\* What units cost, rounded down.
Gross(units) == (Rate * units) \div UnitScale
Fee(gross) == (gross * FeeBps) \div BPS
\* A fee is borne half by each side, the odd unit by the worker.
HalfFee(gross) == Fee(gross) \div 2
Net(gross) == gross - (Fee(gross) - HalfFee(gross))
\* What funding a cycle takes from the employer.
Cost == Gross(MaxUnits) + HalfFee(Gross(MaxUnits))

CycleStart(k) == Start + k * Cycle
CycleEnd(k) == CycleStart(k) + Cycle
LogBy(k) == CycleEnd(k) + Grace
\* settleAt: the review is waited for only while submitted units are not approved.
SettleAt(k) == LogBy(k) + (IF cycles[k].claimed > cycles[k].approved THEN Review ELSE 0)

Live == engagement.state \in {"Active", "Ending"}
Running(k) == k \in Weeks /\ cycles[k].state = "Funded"
Open == {k \in Weeks : cycles[k].state \in {"Funded", "Disputed"}}

-----------------------------------------------------------------------------
(***************************************************************************)
(* Money.                                                                  *)
(***************************************************************************)

\* What a cycle has been paid in all, once it is to be paid up to gross: never less than before.
Booked(old, gross) == IF gross <= old THEN old ELSE gross

\* Slip: the fee is taken on each part paid, not on the total.
SlipToWorker(old, gross) == Net(gross - old)
\* _book: the worker's net of what is now paid in all, less what was paid before.
ToWorker(old, gross) == Net(gross) - Net(old)
ToFee(old, gross) == Fee(gross) - Fee(old)
\* _finish: what a cycle settled at gross gives back.
Unused(gross) == Cost - gross - HalfFee(gross)

\* Pays cycle k up to gross in all and leaves it as c; a settled one gives the rest back.
Pay(k, gross, c) ==
    LET old == cycles[k].paid
        paid == Booked(old, gross)
    IN  /\ cycles' = [cycles EXCEPT ![k] = [c EXCEPT !.paid = paid]]
        /\ earned' = earned + ToWorker(old, paid)
        /\ balance' = balance - ToWorker(old, paid) - ToFee(old, paid)
                       - (IF c.state = "Settled" THEN Unused(paid) ELSE 0)
        /\ UNCHANGED <<now, engagement>>

-----------------------------------------------------------------------------
(***************************************************************************)
(* Opening and funding.                                                    *)
(***************************************************************************)

\* open, with the first cycle's funding.
OfferReady == engagement.state = "None" /\ now <= Start
OfferTx ==
    /\ engagement' = [state |-> "Offered", next |-> 1, runs |-> Periods]
    /\ cycles' = [cycles EXCEPT ![0].state = "Funded"]
    /\ balance' = balance + Cost
    /\ UNCHANGED <<now, earned>>

\* accept; the backend's terms name the start as the last time to.
AcceptReady == engagement.state = "Offered" /\ now <= Start
AcceptTx ==
    /\ engagement' = [engagement EXCEPT !.state = "Active"]
    /\ UNCHANGED <<now, cycles, balance, earned>>

CancelReady == engagement.state = "Offered"
CancelTx ==
    /\ engagement' = [engagement EXCEPT !.state = "Closed"] /\ balance' = 0
    /\ UNCHANGED <<now, cycles, earned>>

FundReady == Live /\ engagement.next < engagement.runs /\ now < CycleEnd(engagement.next)
FundTx ==
    /\ engagement' = [engagement EXCEPT !.next = @ + 1]
    /\ cycles' = [cycles EXCEPT ![engagement.next].state = "Funded"]
    /\ balance' = balance + Cost
    /\ UNCHANGED <<now, earned>>

-----------------------------------------------------------------------------
(***************************************************************************)
(* Claims.                                                                 *)
(***************************************************************************)

\* Slip: a new total may fall below what was approved.
SlipSubmitReady(k, units) ==
    Live /\ Running(k) /\ CycleStart(k) <= now /\ now < LogBy(k) /\ units <= MaxUnits
SubmitReady(k, units) ==
    /\ Live /\ Running(k) /\ CycleStart(k) <= now /\ now < LogBy(k)
    /\ units \in cycles[k].approved..MaxUnits
SubmitTx(k, units) ==
    /\ cycles' = [cycles EXCEPT ![k].claimed = units]
    /\ UNCHANGED <<now, engagement, balance, earned>>

ApproveReady(k, units) == Live /\ Running(k) /\ units \in (cycles[k].approved + 1)..cycles[k].claimed
ApproveTx(k, units) == Pay(k, Gross(units), [cycles[k] EXCEPT !.approved = units])

SettleReady(k) == Live /\ Running(k) /\ now >= SettleAt(k)
SettleTx(k) ==
    Pay(k, Gross(cycles[k].claimed), [cycles[k] EXCEPT !.approved = cycles[k].claimed, !.state = "Settled"])

ObjectReady(k, units) ==
    /\ Live /\ Running(k) /\ LogBy(k) <= now /\ now < SettleAt(k)
    /\ units \in 1..(cycles[k].claimed - cycles[k].approved)
ObjectTx(k, units) ==
    LET rest == cycles[k].claimed - units IN
    Pay(k, Gross(rest), [cycles[k] EXCEPT !.approved = rest, !.disputed = units,
                                          !.state = "Disputed"])

-----------------------------------------------------------------------------
(***************************************************************************)
(* Disputes.  The arbiter proposes nothing here: the backend's arbiter     *)
(* takes every objection to the reviewer.                                  *)
(***************************************************************************)
Disputed(k) == Live /\ k \in Weeks /\ cycles[k].state = "Disputed"
Escalated(k) == Disputed(k) /\ cycles[k].escalatedAt # 0
EscalateReady(k) == Disputed(k) /\ cycles[k].escalatedAt = 0
EscalateTx(k) ==
    /\ cycles' = [cycles EXCEPT ![k].escalatedAt = now]
    /\ UNCHANGED <<now, engagement, balance, earned>>

\* payRuling: the share of what the objected units add to the price, and the cycle settles.
RulingTx(k, bps) ==
    LET base == Gross(cycles[k].approved)
        award == ((Gross(cycles[k].approved + cycles[k].disputed) - base) * bps) \div BPS
    IN  Pay(k, base + award, [cycles[k] EXCEPT !.state = "Settled", !.disputed = 0])

RulingDue(k) == cycles[k].escalatedAt + RulingPeriod
RuleReady(k) == Escalated(k) /\ now < RulingDue(k)
FallbackReady(k) == Escalated(k) /\ now >= RulingDue(k)

-----------------------------------------------------------------------------
(***************************************************************************)
(* Endings.                                                                *)
(***************************************************************************)
\* _cyclesStarted.
Started == IF now < Start THEN 0 ELSE (now - Start) \div Cycle + 1
RunsAfterNotice == LET n == Started + NoticeCycles IN IF n < engagement.runs THEN n ELSE engagement.runs

\* giveNotice: cycles funded beyond the last that runs go back in full.
NoticeReady == engagement.state = "Active"
NoticeTx ==
    LET runs == RunsAfterNotice
        beyond == {k \in Open : k >= runs}
    IN  /\ engagement' = [state |-> "Ending", runs |-> runs,
                          next |-> IF engagement.next < runs THEN engagement.next ELSE runs]
        /\ cycles' = [k \in Weeks |-> IF k \in beyond THEN [cycles[k] EXCEPT !.state = "Settled"] ELSE cycles[k]]
        /\ balance' = balance - Cost * Cardinality(beyond)
        /\ UNCHANGED <<now, earned>>

\* Slip: work closes over a week still open.
SlipCloseReady == Live /\ (engagement.next >= engagement.runs \/ now >= CycleEnd(engagement.next))
CloseReady ==
    /\ Live /\ Open = {}
    /\ engagement.next >= engagement.runs \/ now >= CycleEnd(engagement.next)
CloseTx ==
    /\ engagement' = [engagement EXCEPT !.state = "Closed"]
    /\ UNCHANGED <<now, cycles, balance, earned>>

-----------------------------------------------------------------------------
WorkInit ==
    /\ now = 0
    /\ engagement = [state |-> "None", next |-> 0, runs |-> Periods]
    /\ cycles = [k \in Weeks |-> NoCycle]
    /\ balance = 0 /\ earned = 0

CycleType == [state : {"none", "Funded", "Disputed", "Settled"}, claimed : 0..MaxUnits, approved : 0..MaxUnits,
              disputed : 0..MaxUnits, paid : Nat, escalatedAt : Nat]
WorkTypeOK ==
    /\ now \in Nat
    /\ engagement \in [state : {"None", "Offered", "Active", "Ending", "Closed"}, next : 0..Periods, runs : 0..Periods]
    /\ cycles \in [Weeks -> CycleType]
    /\ balance \in Nat /\ earned \in Nat
=============================================================================
