---------------------------- MODULE DurableTasks ----------------------------
(***************************************************************************)
(* The backend's durable tasks: a Postgres queue with leases               *)
(* (PostgresDurableTaskStore), the runners that claim batches from it      *)
(* (DurableTaskRunner) and the shape of the buyer agent's timer handlers   *)
(* (the close of an offer window, the wait for a counter's answer): look   *)
(* at the request, wait while it is still being loaded, act, leave one     *)
(* checkpoint that says what was done, succeed.                            *)
(*                                                                         *)
(* A store call is one transaction, so one step; anything may happen       *)
(* between two of them, a crash of the runner's process included.  Times   *)
(* are what is left of them: a lease, a delay or a grace that has run out  *)
(* is 0.  A lease token names its worker, task, attempt and claim time;    *)
(* the attempt alone tells the tokens of one task and worker apart.        *)
(***************************************************************************)
EXTENDS Integers, FiniteSets, FiniteSetsExt, Functions

CONSTANTS
    Tasks,         \* the timers, by idempotency key
    Workers,       \* runner processes: one `workerId` each
    None,          \* no worker, no task, no checkpoint
    MaxAttempts,   \* maxAttempts: 8 in the code
    LeaseMs,       \* leaseMs
    BatchSize,     \* batchSize
    MaxBackoff,    \* the cap of taskBackoffMs
    Delay,         \* how long after it is armed a timer is due
    RetryMs,       \* RELOAD_RETRY_MS
    Grace          \* RELOAD_GRACE_MS by task; 0 where the handler never waits

\* What a handler may find to do; planClose and planCounterWait give it.  "close" stands for
\* adopt, move-on and resume too: the timer has its effect.
Steps == {"missing", "close", "stale"}

ASSUME TasksAssumption ==
    /\ None \notin Tasks \cup Workers \cup Steps
    /\ {MaxAttempts, LeaseMs, BatchSize} \subseteq Nat \ {0}
    /\ {MaxBackoff, Delay, RetryMs} \subseteq Nat
    /\ Grace \in [Tasks -> Nat]

\* What taskBackoffMs doubles stays a number; the provers know nothing of exponents.
ASSUME BackoffAssumption == \A a \in 1..MaxAttempts : 2 ^ (a - 1) \in Nat

Held == {"leased", "running"}
Idle == {"pending", "waiting", "failed"}
States == Held \cup Idle \cup {"absent", "succeeded", "dead_letter"}
Phases == {"idle", "running", "acted", "saved", "conflict"}

VARIABLES
    state,       \* agent_tasks.state
    attempt,     \* agent_tasks.attempt
    wait,        \* how long until available_at
    owner,       \* lease_owner
    lease,       \* how long until lease_expires_at
    checkpoint,  \* data.step of the task's checkpoint
    done,        \* the requests whose timer has had its effect
    grace,       \* how long until the due time plus RELOAD_GRACE_MS
    batch,       \* by worker: the attempt it claimed each task of its batch with
    age,         \* by worker: how old the batch's `now` is
    current,     \* by worker: the task whose handler runs
    phase,       \* by worker: how far that handler is
    step         \* by worker: what the handler found to do

rowVars == <<state, attempt, wait, owner, lease>>
workerVars == <<batch, age, current, phase, step>>
vars == <<rowVars, checkpoint, done, grace, workerVars>>

AtMost(a, b) == IF a <= b THEN a ELSE b
Less(a, b) == IF a <= b THEN 0 ELSE a - b
\* The tasks of a batch, each with the attempt it was claimed for; and the empty one.
Batches == UNION {[S -> 1..MaxAttempts] : S \in SUBSET Tasks}
NoBatch == [t \in {} |-> 0]

TypeOK ==
    /\ state \in [Tasks -> States]
    /\ attempt \in [Tasks -> 0..MaxAttempts]
    /\ wait \in [Tasks -> Nat]
    /\ owner \in [Tasks -> Workers \cup {None}]
    /\ lease \in [Tasks -> 0..LeaseMs]
    /\ checkpoint \in [Tasks -> Steps \cup {None}]
    /\ done \subseteq Tasks
    /\ grace \in [Tasks -> Nat]
    /\ batch \in [Workers -> Batches]
    /\ age \in [Workers -> 0..MaxBackoff]
    /\ current \in [Workers -> Tasks \cup {None}]
    /\ phase \in [Workers -> Phases]
    /\ step \in [Workers -> Steps \cup {None}]
    /\ \A w \in Workers : current[w] # None => current[w] \in DOMAIN batch[w]

-----------------------------------------------------------------------------
(* Leases *)

\* What `lease_owner = $2 AND lease_token = $3 AND state IN (...)` selects.
SlipHolds(w, t) == state[t] \in Held
Holds(w, t) ==
    /\ state[t] \in Held
    /\ owner[t] = w /\ attempt[t] = batch[w][t]

\* The same with `lease_expires_at > now`, for calls that read the clock anew.
HoldsLive(w, t) == Holds(w, t) /\ lease[t] > 0

\* Held past its lease with no attempt left: dead-lettered by the next claim.
SlipExhausted(t) == state[t] = "running" /\ lease[t] = 0 /\ attempt[t] > MaxAttempts
Exhausted(t) == state[t] \in Held /\ lease[t] = 0 /\ attempt[t] >= MaxAttempts

Due(t) ==
    /\ attempt[t] < MaxAttempts
    /\ \/ state[t] \in Idle /\ wait[t] = 0
       \/ state[t] \in Held /\ lease[t] = 0

\* Attempts used up, so the failure is the last.
LastAttempt(t) == attempt[t] >= MaxAttempts

\* taskBackoffMs.
Backoff(a) == AtMost(MaxBackoff, 2 ^ (a - 1))

\* The runner is through with a task of its batch.
LetGo(w, t) ==
    /\ batch' = [batch EXCEPT ![w] = Restrict(@, DOMAIN @ \ {t})]
    /\ current' = [current EXCEPT ![w] = None]
    /\ phase' = [phase EXCEPT ![w] = "idle"]
    /\ step' = [step EXCEPT ![w] = None]
    /\ age' = IF DOMAIN batch'[w] = {} THEN [age EXCEPT ![w] = 0] ELSE age

\* The row's lease ends in state s, not available before d has passed.
Finish(t, s, d) ==
    /\ state' = [state EXCEPT ![t] = s]
    /\ wait' = [wait EXCEPT ![t] = d]
    /\ owner' = [owner EXCEPT ![t] = None]
    /\ lease' = [lease EXCEPT ![t] = 0]
    /\ UNCHANGED attempt

\* complete and reschedule: refused, with the task left as it is, unless the lease is live.
FinishLease(w, t, s, d) ==
    /\ \/ HoldsLive(w, t) /\ Finish(t, s, d)
       \/ ~HoldsLive(w, t) /\ UNCHANGED rowVars
    /\ LetGo(w, t)
    /\ UNCHANGED <<checkpoint, done, grace>>

-----------------------------------------------------------------------------
Init ==
    /\ state = [t \in Tasks |-> "absent"]
    /\ attempt = [t \in Tasks |-> 0]
    /\ wait = [t \in Tasks |-> 0]
    /\ owner = [t \in Tasks |-> None]
    /\ lease = [t \in Tasks |-> 0]
    /\ checkpoint = [t \in Tasks |-> None]
    /\ done = {}
    /\ grace = [t \in Tasks |-> 0]
    /\ batch = [w \in Workers |-> NoBatch]
    /\ age = [w \in Workers |-> 0]
    /\ current = [w \in Workers |-> None]
    /\ phase = [w \in Workers |-> "idle"]
    /\ step = [w \in Workers |-> None]

\* A timer is armed.  Arming it again under its key changes nothing.
Enqueue(t) ==
    /\ state[t] = "absent"
    /\ state' = [state EXCEPT ![t] = "pending"]
    /\ wait' = [wait EXCEPT ![t] = Delay]
    /\ grace' = [grace EXCEPT ![t] = Delay + Grace[t]]
    /\ UNCHANGED <<attempt, owner, lease, checkpoint, done, workerVars>>

\* The tasks a claim may take.  RETURNING gives them in no particular order, and the order by
\* availability only decides who waits when more are due than fit.
Claimable(S) ==
    LET due == {t \in Tasks : Due(t)}
    IN  S \in kSubset(AtMost(BatchSize, Cardinality(due)), due)

\* A runner with nothing left in its batch claims the next one, at one `now`.
ClaimDue(w) ==
    /\ batch[w] = NoBatch
    /\ \E t \in Tasks : Exhausted(t) \/ Due(t)
    /\ \E S \in SUBSET Tasks :
        /\ Claimable(S)
        /\ state' = [t \in Tasks |-> IF Exhausted(t) THEN "dead_letter"
                                     ELSE IF t \in S THEN "leased" ELSE state[t]]
        /\ owner' = [t \in Tasks |-> IF Exhausted(t) THEN None ELSE IF t \in S THEN w ELSE owner[t]]
        /\ lease' = [t \in Tasks |-> IF t \in S THEN LeaseMs ELSE lease[t]]
        /\ attempt' = [t \in Tasks |-> IF t \in S THEN attempt[t] + 1 ELSE attempt[t]]
        /\ batch' = [batch EXCEPT ![w] = [t \in S |-> attempt'[t]]]
    /\ age' = [age EXCEPT ![w] = 0]
    /\ UNCHANGED <<wait, checkpoint, done, grace, current, phase, step>>

\* The runner starts the next task of its batch.  It passes the time the batch was claimed at,
\* at which every lease of the batch was live, so only losing the lease to a later claim refuses it.
Start(w, t) ==
    /\ current[w] = None /\ t \in DOMAIN batch[w]
    /\ \/ /\ Holds(w, t) /\ state[t] = "leased"
          /\ state' = [state EXCEPT ![t] = "running"]
          /\ current' = [current EXCEPT ![w] = t]
          /\ phase' = [phase EXCEPT ![w] = "running"]
          /\ UNCHANGED <<attempt, wait, owner, lease, batch, age, step>>
       \/ /\ ~Holds(w, t)
          /\ LetGo(w, t)
          /\ UNCHANGED rowVars
    /\ UNCHANGED <<checkpoint, done, grace>>

\* The heartbeat timer of a running handler; one that is refused changes nothing, and whatever
\* the handler returns after it is refused as well.
Heartbeat(w) ==
    LET t == current[w] IN
    /\ t # None /\ phase[w] # "conflict"
    /\ HoldsLive(w, t) /\ lease[t] < LeaseMs
    /\ lease' = [lease EXCEPT ![t] = LeaseMs]
    /\ UNCHANGED <<state, attempt, wait, owner, checkpoint, done, grace, workerVars>>

\* The handler finds the request not loaded, inside the grace: try again soon.
HandlerWaits(w) ==
    LET t == current[w] IN
    /\ t # None /\ phase[w] = "running" /\ grace[t] > 0
    /\ FinishLease(w, t, "waiting", RetryMs)

\* The handler looks at the request and acts on what it finds.  A request not loaded after the
\* grace is left alone.  One that has moved on is stale, and always so once the timer has had its
\* effect; else the timer acts.
HandlerActs(w) ==
    LET t == current[w] IN
    /\ t # None /\ phase[w] = "running"
    /\ \E s \in Steps :
        /\ s = "missing" => grace[t] = 0
        /\ s = "close" => t \notin done
        /\ step' = [step EXCEPT ![w] = s]
        /\ done' = IF s = "close" THEN done \cup {t} ELSE done
    /\ phase' = [phase EXCEPT ![w] = "acted"]
    /\ UNCHANGED <<rowVars, checkpoint, grace, batch, age, current>>

\* Writing the checkpoint: the first one under the key stands, the same again is no news, and
\* another in its place is a conflict.  Without a live lease the task is lost.
SlipSave(w) ==
    LET t == current[w] IN
    /\ t # None /\ phase[w] = "acted"
    /\ checkpoint' = checkpoint
    /\ phase' = [phase EXCEPT ![w] = "saved"]
    /\ UNCHANGED <<batch, age, current, step, rowVars, done, grace>>
Save(w) ==
    LET t == current[w] IN
    /\ t # None /\ phase[w] = "acted"
    /\ \/ /\ HoldsLive(w, t)
          /\ checkpoint' = [checkpoint EXCEPT ![t] = IF @ = None THEN step[w] ELSE @]
          /\ phase' = [phase EXCEPT ![w] = IF checkpoint'[t] = step[w] THEN "saved" ELSE "conflict"]
          /\ UNCHANGED <<batch, age, current, step>>
       \/ /\ ~HoldsLive(w, t)
          /\ LetGo(w, t)
          /\ UNCHANGED checkpoint
    /\ UNCHANGED <<rowVars, done, grace>>

\* The handler returned; the runner completes the task.
Complete(w) ==
    LET t == current[w] IN
    /\ t # None /\ phase[w] = "saved"
    /\ FinishLease(w, t, "succeeded", 0)

\* Anything the handler or the store threw but a lost lease.  The failure is recorded at the
\* batch's `now`, so an expired lease nobody took over still records it.
Fail(w) ==
    LET t == current[w] IN
    /\ t # None
    /\ \/ /\ Holds(w, t)
          /\ Finish(t, IF LastAttempt(t) THEN "dead_letter" ELSE "failed",
                    Less(Backoff(attempt[t]), age[w]))
       \/ /\ ~Holds(w, t)
          /\ UNCHANGED rowVars
    /\ LetGo(w, t)
    /\ UNCHANGED <<checkpoint, done, grace>>

\* The process stops and starts again with nothing claimed.
Crash(w) ==
    /\ batch[w] # NoBatch
    /\ batch' = [batch EXCEPT ![w] = NoBatch]
    /\ age' = [age EXCEPT ![w] = 0]
    /\ current' = [current EXCEPT ![w] = None]
    /\ phase' = [phase EXCEPT ![w] = "idle"]
    /\ step' = [step EXCEPT ![w] = None]
    /\ UNCHANGED <<rowVars, checkpoint, done, grace>>

\* Time passes.
Tick ==
    /\ wait' = [t \in Tasks |-> Less(wait[t], 1)]
    /\ lease' = [t \in Tasks |-> Less(lease[t], 1)]
    /\ grace' = [t \in Tasks |-> Less(grace[t], 1)]
    /\ age' = [w \in Workers |-> IF batch[w] = NoBatch THEN 0 ELSE AtMost(age[w] + 1, MaxBackoff)]
    /\ UNCHANGED <<state, attempt, owner, checkpoint, done, batch, current, phase, step>>

\* What the handler or the runner does next with the current task.
Proceed(w) == HandlerWaits(w) \/ HandlerActs(w) \/ Save(w) \/ Complete(w) \/ Fail(w)

Next ==
    \/ \E t \in Tasks : Enqueue(t)
    \/ \E w \in Workers :
        \/ ClaimDue(w)
        \/ \E t \in Tasks : Start(w, t)
        \/ Heartbeat(w)
        \/ Proceed(w)
        \/ Crash(w)
    \/ Tick

Spec == Init /\ [][Next]_vars

\* Time passes, each runner's loop comes round again, and what it awaits ends one way or another.
Fairness ==
    /\ WF_vars(Tick)
    /\ \A w \in Workers :
        /\ WF_vars(ClaimDue(w))
        /\ WF_vars(\E t \in Tasks : Start(w, t))
        /\ WF_vars(Proceed(w))

FairSpec == Spec /\ Fairness

-----------------------------------------------------------------------------
(* Safety *)

\* A step of the worker's own.
Moves(w) == batch'[w] # batch[w] \/ current'[w] # current[w] \/ phase'[w] # phase[w]

\* The worker still has the task in its batch though another claim has taken it over.
Stale(w, t) == t \in DOMAIN batch[w] /\ (owner[t] # w \/ attempt[t] # batch[w][t])

\* A worker whose task was claimed again changes nothing of it, whatever it still does: the
\* tokens in every WHERE clause fence it off.
StaleWorkerHarmless ==
    [][\A w \in Workers, t \in Tasks :
          (Stale(w, t) /\ Moves(w)) =>
              /\ state'[t] = state[t] /\ owner'[t] = owner[t] /\ checkpoint'[t] = checkpoint[t]]_vars

\* A live lease is never taken from its holder: the row leaves its attempt only by the holder's
\* own hand, and the holder then lets go of it.
LiveLeaseKept ==
    [][\A t \in Tasks :
          (state[t] \in Held /\ lease[t] > 0 /\ (state'[t] \notin Held \/ attempt'[t] # attempt[t])) =>
              /\ current[owner[t]] = t /\ current'[owner[t]] = None
              /\ batch[owner[t]][t] = attempt[t]]_vars

\* A task is given up only once every attempt allowed has been made.
GivenUpAfterAllAttempts == \A t \in Tasks : state[t] = "dead_letter" => attempt[t] = MaxAttempts

\* A task that succeeded left the checkpoint that says what was done, and a timer recorded as
\* having acted has acted: also when one attempt acted, another wrote and a third completed.
SuccessIsRecorded ==
    \A t \in Tasks :
        /\ state[t] = "succeeded" => checkpoint[t] # None
        /\ checkpoint[t] = "close" => t \in done

\* What the queue's rows say of a task is so: its attempts, its checkpoint, its giving up.
RowsAreTrue == TypeOK /\ GivenUpAfterAllAttempts /\ SuccessIsRecorded

(* Liveness *)

\* A task whose handler never waits ends, in success or in the dead letters, whatever crashes.
TasksEnd ==
    \A t \in Tasks :
        (Grace[t] = 0 /\ state[t] = "pending") ~> state[t] \in {"succeeded", "dead_letter"}

(* What comments and documents say, and the code does not do *)

\* durableTimers.ts: "the task waits instead of giving up": a waiting task is looked at again.
WaitingIsLookedAtAgain ==
    \A t \in Tasks : state[t] = "waiting" ~> state[t] # "waiting"

=============================================================================
