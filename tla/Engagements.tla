----------------------------- MODULE Engagements -----------------------------
(***************************************************************************)
(* work/engagements.ts over the work escrow: the backend's record of one   *)
(* hire by the hour, moved by the two people's calls and by the runner's   *)
(* pass.  Each reads the row, waits for balances, agents and the lock,     *)
(* sends its transaction, and writes the row it read back with its own     *)
(* change: the weeks are one value, written whole.  The row is never read  *)
(* from the chain.  All calls are in one process, so the locks hold.       *)
(*                                                                         *)
(* Reminders, the deal cap and what people are told are left out.          *)
(***************************************************************************)
EXTENDS WorkEscrow, Sequences

CONSTANTS
    Callers,          \* calls of the two people that may run at once
    Runner,           \* the runner's pass
    CoolOff,          \* COOL_OFF_MS
    RulingMs,         \* RULING_MS
    MostAhead,        \* weeks that may be paid ahead of their start
    Ops,              \* bound: the calls considered, of AllOps
    Billed,           \* bound: the weeks hours are logged for
    Outside,          \* bound: what happens to the engagement without the backend
    MaxTime,          \* bound: when the clock stops
    MaxCall,          \* bound: how long each of them takes
    MaxFaults         \* bound: calls that are cut short

Actors == Callers \cup {Runner}
AllOps == {"accept", "decline", "cancel", "log", "approve", "object", "fund", "notice"}

ASSUME EngagementsAssumption ==
    /\ Runner \notin Callers /\ Ops \subseteq AllOps /\ Billed \subseteq Weeks
    /\ {CoolOff, RulingMs, MostAhead, MaxTime, MaxFaults} \subseteq Nat /\ MaxCall \in [Actors -> Nat]
    /\ Outside \subseteq {"settle", "rule"}

VARIABLES
    row,              \* the engagement's row: its status, weeks and runs
    call,             \* what each caller is doing
    faults

vars == <<workVars, now, row, call, faults>>

\* A call: its place, the row as it read it, when it began, and the week and minutes it is about.
NoRow == [status |-> "none", weeks |-> <<>>, runs |-> Periods]
Idle == [op |-> "none", pc |-> "none", e |-> NoRow, at |-> 0, k |-> 0, n |-> 0]
Op(w) == call[w].op
Row(w) == call[w].e
At(w, pc) == call[w].pc = pc
Move(w, c) == call' = [call EXCEPT ![w] = c]
Return(w) == Move(w, Idle)
ChainSame == UNCHANGED <<workVars, now>>

NewWeek == [status |-> "funded", logged |-> 0, approved |-> 0, objectedAt |-> 0, escalatedAt |-> 0]
\* Week k of a row; its weeks are kept in order, the first at 1.
Week(e, k) == e.weeks[k + 1]
HasWeek(e, k) == k < Len(e.weeks)
WithWeek(e, k, w) == [e.weeks EXCEPT ![k + 1] = w]
Working(e) == e.status \in {"active", "ending"}
AllSettled(e) == \A i \in DOMAIN e.weeks : e.weeks[i].status = "settled"

\* settleAt, as the row has it.
RowSettleAt(e, k) == LogBy(k) + (IF Week(e, k).logged > Week(e, k).approved THEN Review ELSE 0)

-----------------------------------------------------------------------------
(***************************************************************************)
(* What each call checks in the row before it waits.                       *)
(***************************************************************************)
Unreviewed(e, k) == HasWeek(e, k) /\ Week(e, k).status = "logged" /\ Week(e, k).logged > Week(e, k).approved
MayLog(e, k, n) ==
    /\ Working(e) /\ HasWeek(e, k) /\ CycleStart(k) <= now /\ now < LogBy(k)
    /\ Week(e, k).status \in {"funded", "logged"} /\ Week(e, k).logged + n <= MaxUnits
MayObject(e, k, n) ==
    /\ Unreviewed(e, k) /\ LogBy(k) <= now /\ now < RowSettleAt(e, k)
    /\ n <= Week(e, k).logged - Week(e, k).approved
PaidAhead(e) == {k \in Weeks : HasWeek(e, k) /\ CycleStart(k) > now}
\* fundCheck.
MayFund(e) ==
    LET k == Len(e.weeks) IN
    Working(e) /\ k < e.runs /\ now < CycleEnd(k) /\ Cardinality(PaidAhead(e)) < MostAhead

Begin(w, op, k, n) ==
    /\ call[w] = Idle /\ op \in Ops
    /\ Move(w, [op |-> op, pc |-> IF op \in {"accept", "cancel"} THEN "mark" ELSE "send",
                e |-> row, at |-> now, k |-> k, n |-> n])
    /\ ChainSame /\ UNCHANGED <<row, faults>>

BeginAccept(w) == row.status = "offered" /\ now < Start /\ Begin(w, "accept", 0, 0)
BeginCancel(w) == row.status \in {"offered", "declined"} /\ Begin(w, "cancel", 0, 0)
BeginLog(w, k, n) == k \in Billed /\ MayLog(row, k, n) /\ Begin(w, "log", k, n)
BeginApprove(w, k) == Unreviewed(row, k) /\ Begin(w, "approve", k, 0)
BeginObject(w, k, n) == MayObject(row, k, n) /\ Begin(w, "object", k, n)
BeginFund(w) == MayFund(row) /\ Begin(w, "fund", Len(row.weeks), 0)
BeginNotice(w) == row.status = "active" /\ Begin(w, "notice", 0, 0)

\* decline: one conditional update of the row.
Decline ==
    /\ "decline" \in Ops /\ row.status = "offered"
    /\ row' = [row EXCEPT !.status = "declined"]
    /\ ChainSame /\ UNCHANGED <<call, faults>>

\* offer: the row is made first, and says whether the offer went out.
Offer(w) ==
    /\ row.status = "none"
    /\ row' = [row EXCEPT !.status = "offering"]
    /\ Move(w, [Idle EXCEPT !.op = "offer", !.pc = "send", !.e = row', !.at = now])
    /\ ChainSame /\ UNCHANGED faults

-----------------------------------------------------------------------------
(***************************************************************************)
(* The runner's pass over the row it listed, under the time it began at.   *)
(***************************************************************************)
BeginPass ==
    /\ call[Runner] = Idle
    /\ \/ /\ row.status = "declined" \/ (row.status = "offered" /\ now >= Start)
          /\ Move(Runner, [Idle EXCEPT !.op = "cancel", !.pc = "mark", !.e = row, !.at = now])
       \/ Working(row) /\ Move(Runner, [Idle EXCEPT !.op = "run", !.pc = "next", !.e = row, !.at = now])
    /\ ChainSame /\ UNCHANGED <<row, faults>>

\* What the pass owes week k.
Owes(e, k, at) ==
    LET w == Week(e, k) IN
    IF w.status = "settled" THEN "nothing"
    ELSE IF w.status = "objected" THEN
        IF w.escalatedAt = 0 /\ at >= w.objectedAt + CoolOff THEN "escalate"
        ELSE IF w.escalatedAt # 0 /\ at >= w.escalatedAt + RulingMs THEN "fallback"
        ELSE "nothing"
    ELSE IF at >= RowSettleAt(e, k) THEN "settle" ELSE "nothing"

NothingLeft(e, at) == AllSettled(e) /\ (Len(e.weeks) >= e.runs \/ at >= CycleEnd(Len(e.weeks)))

\* On to the next week the pass owes something, then to closing the work, then it is over.
PassOn ==
    /\ At(Runner, "next")
    /\ LET c == call[Runner]
           due == {k \in Weeks : HasWeek(c.e, k) /\ k >= c.k /\ Owes(c.e, k, c.at) # "nothing"}
           k == CHOOSE x \in due : \A y \in due : x <= y
       IN  IF due # {} THEN Move(Runner, [c EXCEPT !.op = Owes(c.e, k, c.at), !.pc = "send", !.k = k])
           ELSE IF NothingLeft(c.e, c.at) THEN Move(Runner, [c EXCEPT !.op = "close", !.pc = "send"])
           ELSE Return(Runner)
    /\ ChainSame /\ UNCHANGED <<row, faults>>

-----------------------------------------------------------------------------
(***************************************************************************)
(* Locks, transactions and the row written back.                           *)
(***************************************************************************)

\* Slip: an offer is answered whatever the row says by now.
SlipMarks(from) == TRUE
\* patchIfStatus.
Marks(from) == row.status = from

\* acceptAs and takeBack first take the offer: "offering" while an answer is on its way.
Mark(w) ==
    /\ At(w, "mark")
    /\ IF Marks(IF Op(w) = "accept" THEN "offered" ELSE Row(w).status)
       THEN row' = [row EXCEPT !.status = "offering"] /\ Move(w, [call[w] EXCEPT !.pc = "send"])
       ELSE UNCHANGED row /\ Return(w)
    /\ ChainSame /\ UNCHANGED faults

\* The lock a call takes once it has waited for balances and agents; a call that finds it taken ends.
LockOf(c) ==
    CASE c.op \in {"approve", "object"} -> <<"pay", c.k>>
      [] c.op \in {"log", "fund", "notice"} -> <<c.op, 0>>
      [] OTHER -> <<"none", 0>>
Busy(w) == \E v \in Callers \ {w} : At(v, "write") /\ LockOf(call[v]) = LockOf(call[w]) /\ LockOf(call[w])[1] # "none"
FindsBusy(w) == At(w, "send") /\ Busy(w) /\ Return(w) /\ ChainSame /\ UNCHANGED <<row, faults>>

\* What a failed call leaves: an offer that did not go out, one still to be answered.
Undone(w) ==
    CASE Op(w) = "offer" -> [row EXCEPT !.status = "failed"]
      [] Op(w) = "accept" -> [row EXCEPT !.status = "offered"]
      [] Op(w) = "cancel" -> [row EXCEPT !.status = IF Row(w).status = "declined" THEN "declined" ELSE "offered"]
      [] OTHER -> row

\* Slip: a transaction the chain refused is taken for done.
SlipTries(w, ready, Tx) ==
    /\ IF ready THEN Tx ELSE ChainSame
    /\ Move(w, [call[w] EXCEPT !.pc = "write"]) /\ UNCHANGED row
\* The chain takes the transaction, and the receipt proves it, or the call fails.
Tries(w, ready, Tx) ==
    IF ready THEN Tx /\ Move(w, [call[w] EXCEPT !.pc = "write"]) /\ UNCHANGED row
    ELSE ChainSame /\ Return(w) /\ row' = Undone(w)

\* The minutes a call bills in all: what it read, and its own.
Total(w) == Week(Row(w), call[w].k).logged + call[w].n

Transact(w) ==
    LET k == call[w].k IN
    \/ Op(w) = "offer" /\ Tries(w, OfferReady, OfferTx)
    \/ Op(w) = "accept" /\ Tries(w, AcceptReady, AcceptTx)
    \/ Op(w) = "cancel" /\ Tries(w, CancelReady, CancelTx)
    \/ Op(w) = "log" /\ Tries(w, SubmitReady(k, Total(w)), SubmitTx(k, Total(w)))
    \/ Op(w) = "approve" /\ Tries(w, ApproveReady(k, Week(Row(w), k).logged), ApproveTx(k, Week(Row(w), k).logged))
    \/ Op(w) = "object" /\ Tries(w, ObjectReady(k, call[w].n), ObjectTx(k, call[w].n))
    \/ Op(w) = "notice" /\ Tries(w, NoticeReady, NoticeTx)
    \/ Op(w) = "settle" /\ Tries(w, SettleReady(k), SettleTx(k))
    \/ Op(w) = "escalate" /\ Tries(w, EscalateReady(k), EscalateTx(k))
    \/ Op(w) = "fallback" /\ Tries(w, FallbackReady(k), RulingTx(k, FallbackBps))
    \/ Op(w) = "close" /\ Tries(w, CloseReady, CloseTx)

\* fundCycle funds whichever cycle is next; the receipt must show the week asked for.
FundOut(w) ==
    /\ Op(w) = "fund"
    /\ IF FundReady /\ engagement.next # call[w].k
       THEN FundTx /\ Return(w) /\ UNCHANGED row
       ELSE Tries(w, FundReady, FundTx)

Send(w) == At(w, "send") /\ ~Busy(w) /\ (Transact(w) \/ FundOut(w)) /\ UNCHANGED faults

\* The weeks a call writes: those it read, its own week changed.
Rewritten(w) ==
    LET e == Row(w)
        k == call[w].k
        old == Week(e, k)
    IN  CASE Op(w) = "log" -> WithWeek(e, k, [old EXCEPT !.status = "logged", !.logged = Total(w)])
          [] Op(w) = "approve" -> WithWeek(e, k, [old EXCEPT !.approved = old.logged])
          [] Op(w) = "object" ->
                 WithWeek(e, k, [old EXCEPT !.status = "objected", !.approved = old.logged - call[w].n,
                                            !.objectedAt = call[w].at])
          [] Op(w) = "fund" -> Append(e.weeks, NewWeek)
          [] Op(w) = "escalate" -> WithWeek(e, k, [old EXCEPT !.escalatedAt = call[w].at])
          [] Op(w) \in {"settle", "fallback"} -> WithWeek(e, k, [old EXCEPT !.status = "settled"])
          [] OTHER -> row.weeks

\* patch; how many weeks run after notice is the receipt's, which nothing changes later.
Patched(w) ==
    CASE Op(w) = "offer" -> [row EXCEPT !.status = "offered", !.weeks = <<NewWeek>>]
      [] Op(w) = "accept" -> [row EXCEPT !.status = "active"]
      [] Op(w) = "cancel" -> [row EXCEPT !.status = "cancelled", !.weeks = <<[NewWeek EXCEPT !.status = "settled"]>>]
      [] Op(w) = "notice" -> [row EXCEPT !.status = "ending", !.runs = engagement.runs]
      [] Op(w) = "close" -> [row EXCEPT !.status = "closed"]
      [] OTHER -> [row EXCEPT !.weeks = Rewritten(w)]

\* A pass goes on with the row its own patch returned.
Write(w) ==
    /\ At(w, "write")
    /\ row' = Patched(w)
    /\ IF Op(w) \in {"settle", "escalate", "fallback"}
       THEN Move(w, [call[w] EXCEPT !.op = "run", !.pc = "next", !.e = row', !.k = @ + 1])
       ELSE Return(w)
    /\ ChainSame /\ UNCHANGED faults

\* The process stops: what a call had not written is not written, and no failure is caught.
Crash ==
    /\ \E w \in Actors : call[w] # Idle
    /\ faults < MaxFaults /\ faults' = faults + 1
    /\ call' = [w \in Actors |-> Idle]
    /\ ChainSame /\ UNCHANGED row

\* The chain took the transaction, but its receipt never came: the call fails.
ReceiptLost(w) ==
    /\ At(w, "write") /\ faults < MaxFaults
    /\ faults' = faults + 1 /\ Return(w) /\ row' = Undone(w)
    /\ ChainSame

-----------------------------------------------------------------------------
(***************************************************************************)
(* Time, and everything together.                                          *)
(***************************************************************************)
\* bound: an objection is taken to the reviewer while the ruling still fits before the clock stops, and
\* a call takes no longer than MaxCall.
Clock ==
    /\ now < MaxTime /\ now' = now + 1
    /\ (\E k \in Weeks : EscalateReady(k)) => now' + RulingPeriod <= MaxTime
    /\ \A w \in Actors : call[w] = Idle \/ now' - call[w].at <= MaxCall[w]
    /\ UNCHANGED <<workVars, row, call, faults>>

WithoutBackend ==
    /\ \E k \in Weeks :
           \/ "settle" \in Outside /\ SettleReady(k) /\ SettleTx(k)
           \/ "rule" \in Outside /\ RuleReady(k) /\ \E bps \in Rulings : RulingTx(k, bps)
    /\ UNCHANGED <<row, call, faults>>

Init ==
    /\ WorkInit
    /\ row = NoRow /\ call = [w \in Actors |-> Idle] /\ faults = 0

Begins(w) ==
    \/ Offer(w) \/ BeginAccept(w) \/ BeginCancel(w) \/ BeginFund(w) \/ BeginNotice(w)
    \/ \E k \in Weeks :
           \/ BeginApprove(w, k)
           \/ \E n \in 1..MaxUnits : BeginLog(w, k, n) \/ BeginObject(w, k, n)

Step(w) == Mark(w) \/ FindsBusy(w) \/ Send(w) \/ Write(w)

Next ==
    \/ \E w \in Callers : Begins(w)
    \/ Decline \/ BeginPass \/ PassOn
    \/ \E w \in Actors : Mark(w) \/ FindsBusy(w) \/ Send(w) \/ Write(w) \/ ReceiptLost(w)
    \/ Crash \/ WithoutBackend \/ Clock

\* Time passes, calls go on, and the runner's pass comes again and again.
Fairness == WF_vars(Clock) /\ WF_vars(BeginPass \/ PassOn) /\ \A w \in Actors : WF_vars(Step(w))

Spec == Init /\ [][Next]_vars /\ Fairness

-----------------------------------------------------------------------------
(***************************************************************************)
(* Properties.                                                             *)
(***************************************************************************)
Statuses == {"none", "offering", "offered", "declined", "active", "ending", "closed", "cancelled", "failed"}
WeekRows == [status : {"funded", "logged", "objected", "settled"}, logged : 0..MaxUnits, approved : 0..MaxUnits,
             objectedAt : Nat, escalatedAt : Nat]

\* Every variable has its type.
TypeOK ==
    /\ WorkTypeOK
    /\ \A e \in {row} \cup {call[w].e : w \in Actors} :
           e.status \in Statuses /\ Len(e.weeks) <= Periods /\ Range(e.weeks) \subseteq WeekRows /\ e.runs \in 0..Periods
    /\ DOMAIN call = Actors /\ faults \in 0..MaxFaults

\* The row never says more than the chain has done: no ending, settlement, objection or
\* escalation it shows is one the receipts did not prove, whichever calls overlap, fail or are cut short.
RecordIsTrue ==
    /\ row.status \in {"closed", "cancelled"} => engagement.state = "Closed"
    /\ row.status \in {"active", "ending"} => engagement.state \in {"Active", "Ending", "Closed"}
    /\ row.status = "ending" => engagement.state # "Active"
    /\ \A k \in Weeks : HasWeek(row, k) =>
           LET w == Week(row, k) IN
           /\ w.status = "settled" => cycles[k].state = "Settled" \/ engagement.state = "Closed"
           /\ w.status = "objected" => cycles[k].state \in {"Disputed", "Settled"}
           /\ w.escalatedAt # 0 => cycles[k].escalatedAt # 0

SumOver(f) == FoldFunction(LAMBDA x, y : x + y, 0, f)
\* What the account still holds for a cycle.
HeldFor(c) == IF c.state \in {"Funded", "Disputed"} THEN Cost - c.paid - HalfFee(c.paid) ELSE 0

\* Approvals, objections, rulings and settlements pay in parts that add up exactly: the worker has
\* earned the net of what each cycle paid, and the account holds what the open cycles may still owe,
\* down to nothing when the work is closed.
PartsAddUp ==
    /\ earned = SumOver([k \in Weeks |-> Net(cycles[k].paid)])
    /\ balance = IF engagement.state \in {"None", "Closed"} THEN 0
                 ELSE SumOver([k \in Weeks |-> HeldFor(cycles[k])])

\* The account of the work, every field in its range, pays in parts that add up.
AccountKept == TypeOK /\ PartsAddUp

\* Hours once approved stay approved and paid, whatever totals a late log still sends.
ApprovalsStand ==
    [][\A k \in Weeks : cycles'[k].approved >= cycles[k].approved /\ cycles'[k].paid >= cycles[k].paid]_vars

\* An offer is answered once: taken back, it is never accepted, and the row that says so stays.
AnsweredOnce == [][row.status = "cancelled" => row' = row]_vars

\* What funding the weeks took in all, and the fee of what each was paid.
PutIn == Cost * Cardinality({k \in Weeks : cycles[k].state # "none"})
FeePaid == SumOver([k \in Weeks |-> Fee(cycles[k].paid)])

Account == INSTANCE DealAccount WITH
    phase <- IF engagement.state \in {"None", "Closed"} THEN engagement.state ELSE "Live",
    rate <- FeeBps, entered <- PutIn, left <- PutIn - FeePaid - balance, fee <- FeePaid

\* The work's money is the abstract account the settlement base promises: fees rounded week by week and
\* part by part stay within the rate on all that was put in, nothing is paid that is not there, and work
\* closes only once all of it has left, whoever's calls, passes or faults brought it there.
WorkIsAccount == Account!Init /\ [][UNCHANGED workVars \/ Account!Next]_(Account!accountVars)

\* Work that was accepted is closed in the end: its weeks settle and the runner closes it.
WorkCloses == row.status = "active" ~> row.status = "closed"
=============================================================================
