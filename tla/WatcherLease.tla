---------------------------- MODULE WatcherLease ----------------------------
(***************************************************************************)
(* ops/watcherLease.ts and ops/leasedLoop.ts: the processes of the backend *)
(* share one store.  A background job's tick runs under the job's lease,   *)
(* renewed while the tick lasts; an action on one deal runs under a claim, *)
(* which is not renewed.  One job and one deal stand for all: rows are     *)
(* independent.  A process may stop at any step, may be too busy to renew, *)
(* and may overrun what it claimed.  A process names itself afresh, so     *)
(* what a row still holds for one that stopped is nobody's: its place is   *)
(* taken at once by a process the row knows nothing of.  Times are kept as *)
(* what is left of them, so runs never end; one clock stands for all.      *)
(***************************************************************************)
EXTENDS Integers

CONSTANTS
    Processes,     \* the processes that may run at once, by their places
    NoOne,         \* the holder of a row that is not there
    Gone,          \* the holder of a row whose process has stopped
    LeaseTtl,      \* leaseTtlMs(everyMs)
    ClaimTtl,      \* CLAIM_TTL_MS
    RunBy          \* bound: the processes that run a job, by whether it also acts on events

ASSUME WatcherAssumption ==
    /\ {NoOne, Gone} \cap Processes = {} /\ NoOne # Gone
    /\ LeaseTtl \in Nat \ {0} /\ ClaimTtl \in Nat \ {0}

ASSUME BoundAssumption == RunBy \in [BOOLEAN -> SUBSET Processes]

Slots == {"tick", "event"}

VARIABLES
    onEvents,      \* whether the job also acts on deals when an event names them
    loopLease, claim,  \* the rows: holder, and how long until they expire
    life,         \* each process: off, up, or shutting down
    tick,          \* each process's tick: none, begun, acting on the deal, or done with it
    event,         \* whether an event has the process act on the deal
    ran,           \* held: whether the last tick of this process ran
    trusts,        \* how long each process may take its lease for granted
    acts           \* how long each action may take its claim for granted

storeVars == <<loopLease, claim>>
processVars == <<life, tick, event, ran, trusts, acts>>
watchVars == <<onEvents, storeVars, processVars>>

Row == [holder |-> NoOne, left |-> 0]
RunsOut(left) == IF left = 0 THEN 0 ELSE left - 1
Running(p) == life[p] \in {"up", "stopping"}
Acting(p, s) == IF s = "tick" THEN tick[p] = "acting" ELSE event[p]

-----------------------------------------------------------------------------
(***************************************************************************)
(* The store.                                                              *)
(***************************************************************************)
\* Slip: a lease that ran out still keeps others away, its process gone or not.
SlipMayTakeFreed(p) == loopLease.holder \in {NoOne, p}
\* take: free, expired, or the taker's own.
MayTake(p) == loopLease.left = 0 \/ loopLease.holder = p

\* claim: free or expired; not even the holder's own.
MayClaim(p) == claim.left = 0

\* Slip: whatever the row holds is deleted.
SlipWithout(row, p) == Row
\* drop and unclaim: only the holder's own row.
Without(row, p) == IF row.holder = p THEN Row ELSE row

Take(p) == /\ loopLease' = [holder |-> p, left |-> LeaseTtl]
           /\ trusts' = [trusts EXCEPT ![p] = LeaseTtl]

-----------------------------------------------------------------------------
(***************************************************************************)
(* The job's loop, one tick at a time in each process.                     *)
(***************************************************************************)
BeginTick(p) ==
    /\ Running(p) /\ tick[p] = "none" /\ MayTake(p)
    /\ Take(p)
    /\ tick' = [tick EXCEPT ![p] = "begun"]
    /\ UNCHANGED <<onEvents, claim, life, event, ran, acts>>

\* Another process holds the lease.
SkipTick(p) ==
    /\ Running(p) /\ tick[p] = "none" /\ ~MayTake(p)
    /\ ran' = [ran EXCEPT ![p] = FALSE]
    /\ UNCHANGED <<onEvents, storeVars, life, tick, event, trusts, acts>>

\* The timer of a tick that runs; a renewal that fails is ignored, and the tick goes on.
Renew(p) ==
    /\ Running(p) /\ tick[p] # "none" /\ MayTake(p)
    /\ Take(p)
    /\ UNCHANGED <<onEvents, claim, life, tick, event, ran, acts>>

\* withClaim: the tick acts on the deal, or leaves it to the next tick.
Claim(p, s) ==
    /\ claim' = [holder |-> p, left |-> ClaimTtl]
    /\ acts' = [acts EXCEPT ![p][s] = ClaimTtl]

TryDeal(p) ==
    /\ Running(p) /\ tick[p] = "begun"
    /\ \/ /\ MayClaim(p) /\ Claim(p, "tick")
          /\ tick' = [tick EXCEPT ![p] = "acting"]
       \/ /\ ~MayClaim(p)
          /\ tick' = [tick EXCEPT ![p] = "done"]
          /\ UNCHANGED <<claim, acts>>
    /\ UNCHANGED <<onEvents, loopLease, life, event, ran, trusts>>

\* The end of an action, which an unclaim that fails ends as well.
Unclaim(p, s) ==
    /\ claim' \in {Without(claim, p), claim}
    /\ acts' = [acts EXCEPT ![p][s] = 0]

LeaveDeal(p) ==
    /\ Running(p) /\ tick[p] = "acting"
    /\ Unclaim(p, "tick")
    /\ tick' = [tick EXCEPT ![p] = "done"]
    /\ UNCHANGED <<onEvents, loopLease, life, event, ran, trusts>>

\* A tick ends, or throws: then what `held` says of the job stays.
EndTick(p) ==
    /\ Running(p) /\ tick[p] = "done"
    /\ tick' = [tick EXCEPT ![p] = "none"]
    /\ ran' \in {[ran EXCEPT ![p] = TRUE], ran}
    /\ UNCHANGED <<onEvents, storeVars, life, event, trusts, acts>>

\* processOffer on an event: the same claim, outside the tick.
EventActs(p) ==
    /\ onEvents /\ Running(p) /\ ~event[p] /\ MayClaim(p)
    /\ Claim(p, "event")
    /\ event' = [event EXCEPT ![p] = TRUE]
    /\ UNCHANGED <<onEvents, loopLease, life, tick, ran, trusts>>

EventEnds(p) ==
    /\ Running(p) /\ event[p]
    /\ Unclaim(p, "event")
    /\ event' = [event EXCEPT ![p] = FALSE]
    /\ UNCHANGED <<onEvents, loopLease, life, tick, ran, trusts>>

-----------------------------------------------------------------------------
(***************************************************************************)
(* Processes start, are shut down and stop; time passes.                   *)
(***************************************************************************)

StartProcess(p) ==
    /\ life[p] = "off" /\ p \in RunBy[onEvents]
    /\ life' = [life EXCEPT ![p] = "up"]
    /\ UNCHANGED <<onEvents, storeVars, tick, event, ran, trusts, acts>>

\* dropHeldLeases, while a tick may still be running.
ShutDown(p) ==
    /\ life[p] = "up"
    /\ life' = [life EXCEPT ![p] = "stopping"]
    /\ loopLease' = IF ran[p] THEN Without(loopLease, p) ELSE loopLease
    /\ ran' = [ran EXCEPT ![p] = FALSE]
    /\ UNCHANGED <<onEvents, claim, tick, event, trusts, acts>>

\* PROCESS_HOLDER is never used again: what the row says of p it says of nobody who runs.
Orphaned(row, p) == IF row.holder = p THEN [row EXCEPT !.holder = Gone] ELSE row

\* The process exits, or is killed at any step.
Stop(p) ==
    /\ Running(p)
    /\ loopLease' = Orphaned(loopLease, p) /\ claim' = Orphaned(claim, p)
    /\ life' = [life EXCEPT ![p] = "off"] /\ tick' = [tick EXCEPT ![p] = "none"]
    /\ event' = [event EXCEPT ![p] = FALSE] /\ ran' = [ran EXCEPT ![p] = FALSE]
    /\ trusts' = [trusts EXCEPT ![p] = 0] /\ acts' = [acts EXCEPT ![p] = [s \in Slots |-> 0]]
    /\ UNCHANGED onEvents

Advance ==
    /\ loopLease' = [loopLease EXCEPT !.left = RunsOut(@)] /\ claim' = [claim EXCEPT !.left = RunsOut(@)]
    /\ trusts' = [p \in Processes |-> RunsOut(trusts[p])]
    /\ acts' = [p \in Processes |-> [s \in Slots |-> RunsOut(acts[p][s])]]
    /\ UNCHANGED <<onEvents, life, tick, event, ran>>

WatchInit ==
    /\ onEvents \in BOOLEAN
    /\ loopLease = Row /\ claim = Row
    /\ life = [p \in Processes |-> "off"] /\ tick = [p \in Processes |-> "none"]
    /\ event = [p \in Processes |-> FALSE] /\ ran = [p \in Processes |-> FALSE]
    /\ trusts = [p \in Processes |-> 0] /\ acts = [p \in Processes |-> [s \in Slots |-> 0]]

Loop(p) == BeginTick(p) \/ SkipTick(p) \/ TryDeal(p) \/ LeaveDeal(p) \/ EndTick(p)

WatchNext ==
    \/ Advance
    \/ \E p \in Processes :
           \/ BeginTick(p) \/ SkipTick(p) \/ Renew(p) \/ TryDeal(p) \/ LeaveDeal(p) \/ EndTick(p)
           \/ EventActs(p) \/ EventEnds(p)
           \/ StartProcess(p) \/ ShutDown(p) \/ Stop(p)

\* Time passes, the timer of a process that runs goes on firing, and what a tick waits for comes: a
\* tick that hung would keep its lease, renewed, for as long as its process lives.
WatchFairness == WF_watchVars(Advance) /\ \A p \in Processes : WF_watchVars(Loop(p))

WatchSpec == WatchInit /\ [][WatchNext]_watchVars /\ WatchFairness

-----------------------------------------------------------------------------
(***************************************************************************)
(* Properties.                                                             *)
(***************************************************************************)

Holders == Processes \cup {NoOne, Gone}

\* Every variable has its type.
WatchTypeOK ==
    /\ onEvents \in BOOLEAN
    /\ loopLease \in [holder : Holders, left : 0..LeaseTtl]
    /\ claim \in [holder : Holders, left : 0..ClaimTtl]
    /\ life \in [Processes -> {"off", "up", "stopping"}]
    /\ tick \in [Processes -> {"none", "begun", "acting", "done"}]
    /\ event \in [Processes -> BOOLEAN] /\ ran \in [Processes -> BOOLEAN]
    /\ trusts \in [Processes -> 0..LeaseTtl] /\ acts \in [Processes -> [Slots -> 0..ClaimTtl]]

\* Two processes that are not being shut down never both tick a job within the time of their leases,
\* whoever stopped, stalled or came back in between.
OneTickerInTime ==
    \A p, q \in Processes :
        /\ life[p] = "up" /\ tick[p] # "none" /\ trusts[p] > 0
        /\ life[q] = "up" /\ tick[q] # "none" /\ trusts[q] > 0
        => p = q

\* Where only ticks act on deals, no two actions on one deal are ever both within the time of their
\* claims: not after a crash, nor when one overran, nor when an unclaim failed.
OneActorInTime ==
    ~onEvents =>
        \A p, q \in Processes, s, z \in Slots :
            Acting(p, s) /\ acts[p][s] > 0 /\ Acting(q, z) /\ acts[q][z] > 0 => p = q /\ s = z

\* One runner for the job and, where only ticks act, one action at a time on the deal.
OneAtATime == OneTickerInTime /\ OneActorInTime

DiesTicking(p) == tick[p] # "none" /\ Stop(p)

\* As long as one process stays up, and processes do not go on for ever dying in the middle of a tick,
\* the deal goes on being acted on, whatever leases and claims those that stopped, were shut down or
\* failed to unclaim left behind.  (Processes that are started again and again and each time die in the
\* tick they began may take every lease that runs out before the one that stays up does.)
DealStaysAttended ==
    (\E p \in Processes : <>[](life[p] = "up")) /\ <>[][\A p \in Processes : ~DiesTicking(p)]_watchVars
        => []<>(\E p \in Processes, s \in Slots : Acting(p, s))
=============================================================================
