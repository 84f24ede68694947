------------------------------ MODULE AgentJobs ------------------------------
(***************************************************************************)
(* agentJobs/agentJobs.ts over the job escrow: the backend's record of one *)
(* outside agent's job, moved by the agent's calls, the person's one-time  *)
(* answer, the seller's delivery or dispute, and the runner's pass.  Every *)
(* call reads the record, then the chain, sends a transaction and patches  *)
(* the record, and may be cut short in between.  A record is patched only  *)
(* from the status the call expects.  Workers stand for processes, which   *)
(* share only the store: inside one, a lock keeps most calls on a job from *)
(* overlapping at all.                                                     *)
(***************************************************************************)
EXTENDS JobEscrow

CONSTANTS
    Workers,       \* calls that may run at once
    Tokens,        \* the release links the person may be sent
    NoLink,
    MaxTime,       \* bound: when the clock stops
    MaxFaults      \* bound: calls that are cut short

ASSUME AgentJobsAssumption == MaxTime \in Nat /\ MaxFaults \in Nat /\ NoLink \notin Tokens

VARIABLES
    record,        \* the job's row: its status, and when it was rejected
    token,         \* each link: fresh, live or used
    call,          \* what each worker is doing
    faults

vars == <<jobVars, now, record, token, call, faults>>

Over == {"completed", "refunded", "expired"}
Listed == {"created", "funded", "submitted", "rejected"}
Ops == {"fund", "status", "happy", "unhappy", "deliver", "dispute", "tick"}

\* A call: its place, the row as it last read it, the status it is about to write, the link it came by.
Idle == [op |-> "none", pc |-> "none", seen |-> [status |-> "quoted", at |-> 0],
         goal |-> [status |-> "quoted", at |-> 0], link |-> NoLink]

Op(w) == call[w].op
Row(st, at) == [status |-> st, at |-> at]
At(w, pc) == call[w].pc = pc
Move(w, c) == call' = [call EXCEPT ![w] = c]
Return(w) == Move(w, Idle)
ChainSame == UNCHANGED <<jobVars, now>>

-----------------------------------------------------------------------------
(***************************************************************************)
(* A call begins, and sync moves the record on.                            *)
(***************************************************************************)

\* bound: a job whose record is over is only called about while an earlier call still runs.
WorthACall == record.status \in Over => \E w \in Workers : call[w] # Idle

Begin(w, op, link) ==
    /\ call[w] = Idle /\ WorthACall
    /\ Move(w, [Idle EXCEPT !.op = op, !.pc = IF op = "fund" THEN "fund" ELSE "sync",
                            !.seen = record, !.link = link])
    /\ ChainSame /\ UNCHANGED <<record, token, faults>>

\* The person's answer, proved theirs, by a link that is still good.
LinkLive(t) == token[t] = "live" /\ now < ReviewEnds
BeginAnswer(w, t, op) == LinkLive(t) /\ Begin(w, op, t)
\* The runner lists the jobs it may have to move.
BeginTick(w) == record.status \in Listed /\ Begin(w, "tick", NoLink)

\* Slip: a job that expired on the chain is not noticed.
SlipSynced(row) ==
    IF status = "Completed" THEN Row("completed", row.at)
    ELSE IF status = "Rejected" THEN Row("refunded", row.at)
    ELSE IF disputed /\ row.status = "rejected" THEN Row("disputed", row.at)
    ELSE IF status = "Submitted" /\ rejectedAt # 0 /\ row.status = "submitted" THEN Row("rejected", rejectedAt)
    ELSE IF status = "Submitted" /\ row.status \in {"created", "funded"} THEN Row("submitted", row.at)
    ELSE IF status = "Funded" /\ row.status = "created" THEN Row("funded", row.at)
    ELSE row
\* sync: one step on from the row, by what the chain says now.
Synced(row) ==
    IF status = "Completed" THEN Row("completed", row.at)
    ELSE IF status = "Rejected" /\ row.status # "expired" THEN Row("refunded", row.at)
    ELSE IF status = "Expired" /\ row.status # "refunded" THEN Row("expired", row.at)
    ELSE IF disputed /\ row.status = "rejected" THEN Row("disputed", row.at)
    ELSE IF status = "Submitted" /\ rejectedAt # 0 /\ row.status = "submitted" THEN Row("rejected", rejectedAt)
    ELSE IF status = "Submitted" /\ row.status \in {"created", "funded"} THEN Row("submitted", row.at)
    ELSE IF status = "Funded" /\ row.status = "created" THEN Row("funded", row.at)
    ELSE row

\* patchJob: only a row that still has the status the call expects.
Patches(from) == record.status = from

-----------------------------------------------------------------------------
(***************************************************************************)
(* What each call then does, or leaves.                                    *)
(***************************************************************************)

\* requestRelease: a link for a job that is delivered.
RequestRelease(t) ==
    /\ token[t] = "fresh" /\ record.status = "submitted"
    /\ token' = [token EXCEPT ![t] = "live"]
    /\ ChainSame /\ UNCHANGED <<record, call, faults>>

\* Slip: a rejection is never looked at again.
SlipRipe(row) == row.status = "submitted" /\ now >= ReviewEnds
\* What the runner moves: a review or a rejection whose window has passed.
Ripe(row) ==
    \/ row.status = "submitted" /\ now >= ReviewEnds
    \/ row.status = "rejected" /\ now >= row.at + RejectWindow

\* Whether a call goes on with the row it has: to a job still open (fund), an answer by its link, a
\* delivery in time, a dispute within the window.
Fits(w, row) ==
    CASE Op(w) = "fund" -> row.status = "quoted" /\ status = "Open"
      [] Op(w) \in {"happy", "unhappy"} -> row.status = "submitted" /\ LinkLive(call[w].link)
      [] Op(w) = "deliver" -> record.status = "funded" /\ now < ExpiredAt
      [] Op(w) = "dispute" -> row.status = "rejected" /\ now < row.at + RejectWindow
      [] Op(w) = "tick" -> Ripe(row)
      [] OTHER -> FALSE

\* It goes on to its transaction, or ends; an answer's link is used up before the transaction is sent.
Decide(w, row) ==
    IF Fits(w, row)
    THEN /\ Move(w, [call[w] EXCEPT !.pc = IF @ = "fund" THEN "write" ELSE "send",
                                    !.seen = IF Op(w) = "deliver" THEN record ELSE row, !.goal = Idle.goal])
         /\ token' = [t \in Tokens |-> IF t = call[w].link THEN "used" ELSE token[t]]
    ELSE Return(w) /\ UNCHANGED token

\* sync's two steps, then what the call came for.
ReadChain(w) ==
    /\ At(w, "sync")
    /\ LET row == call[w].seen IN
       IF row.status = "quoted" \/ Synced(row) = row THEN Decide(w, row)
       ELSE Move(w, [call[w] EXCEPT !.pc = "patch", !.goal = Synced(row)]) /\ UNCHANGED token
    /\ ChainSame /\ UNCHANGED <<record, faults>>

\* A patch that came too late leaves the call with the row it had read.
PatchSynced(w) ==
    /\ At(w, "patch")
    /\ IF Patches(call[w].seen.status)
       THEN record' = call[w].goal /\ Decide(w, call[w].goal)
       ELSE UNCHANGED record /\ Decide(w, call[w].seen)
    /\ ChainSame /\ UNCHANGED faults

FundCall(w) == At(w, "fund") /\ Decide(w, call[w].seen) /\ ChainSame /\ UNCHANGED <<record, faults>>

\* Slip: a transaction the chain refused is taken for done.
SlipTries(w, ready, Tx) ==
    (IF ready THEN Tx ELSE ChainSame) /\ Move(w, [call[w] EXCEPT !.pc = "write"])
\* The chain takes the transaction, or the call throws.
Tries(w, ready, Tx) ==
    IF ready THEN Tx /\ Move(w, [call[w] EXCEPT !.pc = "write"]) ELSE Return(w) /\ ChainSame

Send(w) ==
    /\ At(w, "send")
    /\ \/ Op(w) = "happy" /\ Tries(w, CompleteReady, Complete)
       \/ Op(w) = "unhappy" /\ Tries(w, RejectReady, Reject)
       \/ Op(w) = "deliver" /\ Tries(w, SubmitReady, Submit)
       \/ Op(w) = "dispute" /\ Tries(w, DisputeReady, DisputeRejection)
       \/ Op(w) = "tick" /\ call[w].seen.status = "submitted" /\ Tries(w, ReleaseReady, Release)
       \/ Op(w) = "tick" /\ call[w].seen.status = "rejected" /\ Tries(w, ConfirmReady, ConfirmRejection)
    /\ UNCHANGED <<record, token, faults>>

\* What a call writes after its transaction; a rejection at the backend's own time.
Written(w) ==
    CASE Op(w) = "fund" -> Row("created", 0)
      [] Op(w) = "deliver" -> Row("submitted", 0)
      [] Op(w) = "unhappy" -> Row("rejected", now)
      [] Op(w) = "dispute" -> Row("disputed", call[w].seen.at)
      [] Op(w) = "tick" /\ call[w].seen.status = "rejected" -> Row("refunded", call[w].seen.at)
      [] OTHER -> Row("completed", 0)

Write(w) ==
    /\ At(w, "write")
    /\ record' = IF Patches(call[w].seen.status) THEN Written(w) ELSE record
    /\ Return(w)
    /\ ChainSame /\ UNCHANGED <<token, faults>>

\* The process stops, the network fails, or an answer never comes back: the rest is not done.
Fault(w) ==
    /\ call[w] # Idle /\ faults < MaxFaults
    /\ faults' = faults + 1 /\ Return(w)
    /\ ChainSame /\ UNCHANGED <<record, token>>

-----------------------------------------------------------------------------
\* bound: a rejection is written while its window still fits before the clock stops.
Clock ==
    /\ now < MaxTime /\ now' = now + 1
    /\ (\E w \in Workers : Op(w) = "unhappy") => now' + RejectWindow <= MaxTime
    /\ UNCHANGED <<jobVars, record, token, call, faults>>

Init ==
    /\ JobInit
    /\ record = Row("quoted", 0)
    /\ token = [t \in Tokens |-> "fresh"] /\ call = [w \in Workers |-> Idle]
    /\ faults = 0

\* bound: no hold outlives the clock.
Elsewhere == Others /\ holdUntil' < MaxTime /\ UNCHANGED <<record, token, call, faults>>

Step(w) == FundCall(w) \/ ReadChain(w) \/ PatchSynced(w) \/ Send(w) \/ Write(w)

Next ==
    \/ Elsewhere
    \/ \E t \in Tokens : RequestRelease(t)
    \/ \E w \in Workers :
           \/ BeginTick(w)
           \/ \E op \in {"fund", "status", "deliver", "dispute"} : Begin(w, op, NoLink)
           \/ \E t \in Tokens, op \in {"happy", "unhappy"} : BeginAnswer(w, t, op)
           \/ FundCall(w) \/ ReadChain(w) \/ PatchSynced(w) \/ Send(w) \/ Write(w) \/ Fault(w)
    \/ Clock

\* Time passes, calls go on, and the runner's pass comes again and again.
Fairness ==
    /\ WF_vars(Clock)
    /\ \A w \in Workers : WF_vars(Step(w)) /\ SF_vars(BeginTick(w))

Spec == Init /\ [][Next]_vars /\ Fairness

-----------------------------------------------------------------------------
(***************************************************************************)
(* Properties.                                                             *)
(***************************************************************************)
Rows == [status : {"quoted", "disputed"} \cup Listed \cup Over, at : Nat]
\* Every variable has its type.
TypeOK ==
    /\ JobTypeOK
    /\ record \in Rows /\ token \in [Tokens -> {"fresh", "live", "used"}]
    /\ call \in [Workers -> [op : Ops \cup {"none"}, pc : {"none", "fund", "sync", "patch", "send", "write"},
                             seen : Rows, goal : Rows, link : Tokens \cup {NoLink}]]
    /\ faults \in 0..MaxFaults

\* Whatever share the job is settled at, its account holds what the provider, the fee and the client
\* are then paid: a settlement never reverts for an odd unit of the fee.
SettlesInFull ==
    balance # 0 => \A bps \in 0..BPS :
        LET gross == (budget * bps) \div BPS IN ToProvider(gross) + Fee(gross) <= balance

\* The job's account, every field in its range, is never short of a settlement.
AccountKept == JobTypeOK /\ SettlesInFull

\* The record never says more than the chain has done: no ending, rejection or dispute is shown that
\* has not happened, whichever calls overlap or are cut short.
RecordIsTrue ==
    /\ record.status = "completed" => status = "Completed"
    /\ record.status = "refunded" => status = "Rejected"
    /\ record.status = "expired" => status = "Expired"
    /\ record.status = "disputed" => disputed \/ Ended
    /\ record.status = "rejected" => rejectedAt # 0 /\ record.at >= rejectedAt
    /\ record.status = "submitted" => submittedAt # 0

Known == record.status # "quoted"

\* Delivered work ends though nobody else acts: silence pays the seller, a rejection nobody disputes
\* gives the money back, though calls are cut short and processes overlap.
DeliveredWorkEnds == Known /\ status = "Submitted" /\ ~disputed ~> Ended \/ disputed

\* The record of a job that ended catches up, unless it was last seen disputed: the runner does not
\* look at those.
RecordCatchesUp == record.status \in Listed /\ Ended ~> record.status \in Over \cup {"disputed"}
=============================================================================
