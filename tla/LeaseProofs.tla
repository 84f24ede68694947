----------------------------- MODULE LeaseProofs -----------------------------
(***************************************************************************)
(* Theorems about the backend's two kinds of leases, each a specification  *)
(* of its own that shares no variable with the other.                      *)
(*                                                                         *)
(* Durable tasks, for any number of tasks, runners, attempts and any       *)
(* times: the types, when a task is given up, what a success has left      *)
(* behind, and that a lost lease leaves its old holder harmless.           *)
(*                                                                         *)
(* Watcher leases, for any number of processes and any lengths of leases   *)
(* and claims: what a process may take for granted is never more than what *)
(* the store's row still grants it, which is the inductive invariant       *)
(* behind both halves of OneAtATime.                                       *)
(***************************************************************************)
EXTENDS DurableTasks, WatcherLease, TLAPS

-----------------------------------------------------------------------------
(***************************************************************************)
(* Durable tasks.                                                          *)
(***************************************************************************)

\* What a running handler may rely on: what it said it did is done, and what it saved is there.
HandlerKept ==
    \A w \in Workers :
        /\ phase[w] = "saved" => current[w] \in Tasks /\ checkpoint[current[w]] # None
        /\ phase[w] \in {"acted", "saved"} /\ step[w] = "close" => current[w] \in done
        /\ phase[w] = "acted" => step[w] \in Steps
        /\ current[w] = None => phase[w] = "idle"

\* The inductive invariant.
TasksInv == TypeOK /\ GivenUpAfterAllAttempts /\ SuccessIsRecorded /\ HandlerKept

\* A batch without one of its tasks is a batch of the others.
LEMMA BatchShrinks ==
    ASSUME NEW b \in Batches, NEW t
    PROVE  /\ Restrict(b, DOMAIN b \ {t}) \in Batches
           /\ DOMAIN Restrict(b, DOMAIN b \ {t}) = DOMAIN b \ {t}
           /\ \A u \in DOMAIN b \ {t} : Restrict(b, DOMAIN b \ {t})[u] = b[u]
<1>1. PICK S \in SUBSET Tasks : b \in [S -> 1..MaxAttempts]
  BY DEF Batches
<1>2. Restrict(b, DOMAIN b \ {t}) \in [S \ {t} -> 1..MaxAttempts]
  BY <1>1 DEF Restrict
<1>3. S \ {t} \in SUBSET Tasks
  BY <1>1
<1> QED BY <1>1, <1>2, <1>3 DEF Batches, Restrict

\* The empty batch is one.
LEMMA NoBatchIsBatch == NoBatch \in Batches /\ DOMAIN NoBatch = {}
<1>1. NoBatch \in [{} -> 1..MaxAttempts]
  BY DEF NoBatch
<1>2. {} \in SUBSET Tasks
  OBVIOUS
<1> QED BY <1>1, <1>2 DEF Batches, NoBatch

\* A batch's tasks are tasks, with attempts of theirs.
LEMMA BatchEntries ==
    ASSUME NEW b \in Batches, NEW t \in DOMAIN b
    PROVE  t \in Tasks /\ b[t] \in 1..MaxAttempts
BY DEF Batches

\* Times stay numbers.
LEMMA LessIsNat == \A a, b \in Nat : Less(a, b) \in Nat /\ Less(a, b) <= a
BY DEF Less

LEMMA AtMostIsWithin == \A a, b \in Nat : AtMost(a, b) \in Nat /\ AtMost(a, b) <= a /\ AtMost(a, b) <= b
BY DEF AtMost

\* The delay after a failure is a number.
LEMMA BackoffIsNat == ASSUME NEW a \in 1..MaxAttempts PROVE Backoff(a) \in Nat
<1>1. 2 ^ (a - 1) \in Nat /\ MaxBackoff \in Nat
  BY BackoffAssumption, TasksAssumption
<1> QED BY <1>1, AtMostIsWithin DEF Backoff

\* Letting go of the current task keeps the workers' types and what is known of their handlers.
LEMMA LetGoKeepsWorkers ==
    ASSUME TasksInv, NEW w \in Workers, NEW t \in Tasks, LetGo(w, t),
           current[w] \in {t, None},
           UNCHANGED done, \A u \in Tasks : checkpoint[u] # None => checkpoint'[u] # None
    PROVE  /\ batch' \in [Workers -> Batches]
           /\ age' \in [Workers -> 0..MaxBackoff]
           /\ current' \in [Workers -> Tasks \cup {None}]
           /\ phase' \in [Workers -> Phases]
           /\ step' \in [Workers -> Steps \cup {None}]
           /\ \A v \in Workers : current'[v] # None => current'[v] \in DOMAIN batch'[v]
           /\ HandlerKept'
<1>1. batch \in [Workers -> Batches] /\ batch[w] \in Batches
  BY DEF TasksInv, TypeOK
<1>2. batch' \in [Workers -> Batches]
  <2>1. Restrict(batch[w], DOMAIN batch[w] \ {t}) \in Batches
    BY <1>1, BatchShrinks
  <2> QED BY <1>1, <2>1 DEF LetGo
<1>3. age' \in [Workers -> 0..MaxBackoff]
  BY TasksAssumption DEF LetGo, TasksInv, TypeOK
<1>4. /\ current' \in [Workers -> Tasks \cup {None}]
      /\ phase' \in [Workers -> Phases]
      /\ step' \in [Workers -> Steps \cup {None}]
  BY DEF LetGo, TasksInv, TypeOK, Phases
<1>5. \A v \in Workers : current'[v] # None => current'[v] \in DOMAIN batch'[v]
  BY <1>1 DEF LetGo, TasksInv, TypeOK
<1>6. HandlerKept'
  BY TasksAssumption DEF LetGo, TasksInv, TypeOK, HandlerKept
<1> QED BY <1>2, <1>3, <1>4, <1>5, <1>6

\* What holds of one task's row after its lease ends.
LEMMA FinishKeepsRows ==
    ASSUME TypeOK, NEW t \in Tasks, NEW s \in States, NEW d \in Nat, Finish(t, s, d)
    PROVE  /\ state' \in [Tasks -> States] /\ attempt' \in [Tasks -> 0..MaxAttempts]
           /\ wait' \in [Tasks -> Nat] /\ owner' \in [Tasks -> Workers \cup {None}]
           /\ lease' \in [Tasks -> 0..LeaseMs]
BY TasksAssumption DEF Finish, TypeOK

LEMMA InitKept == Init => TasksInv
<1> SUFFICES ASSUME Init PROVE TasksInv
  OBVIOUS
<1>1. TypeOK
  BY TasksAssumption, NoBatchIsBatch DEF Init, TypeOK, States, Phases
<1> QED BY <1>1, TasksAssumption DEF Init, Steps, TasksInv, GivenUpAfterAllAttempts, SuccessIsRecorded, HandlerKept

LEMMA EnqueueKept == ASSUME TasksInv, NEW t \in Tasks, Enqueue(t) PROVE TasksInv'
<1>1. TypeOK'
  <2>1. Delay \in Nat /\ Delay + Grace[t] \in Nat
    BY TasksAssumption
  <2> QED BY <2>1 DEF TasksInv, TypeOK, Enqueue, workerVars, States, Idle
<1> QED BY <1>1 DEF TasksInv, TypeOK, Enqueue, workerVars, GivenUpAfterAllAttempts, SuccessIsRecorded, HandlerKept

LEMMA ClaimDueKept == ASSUME TasksInv, NEW w \in Workers, ClaimDue(w) PROVE TasksInv'
<1>1. PICK S \in SUBSET Tasks :
        /\ Claimable(S)
        /\ state' = [t \in Tasks |-> IF Exhausted(t) THEN "dead_letter"
                                     ELSE IF t \in S THEN "leased" ELSE state[t]]
        /\ owner' = [t \in Tasks |-> IF Exhausted(t) THEN None ELSE IF t \in S THEN w ELSE owner[t]]
        /\ lease' = [t \in Tasks |-> IF t \in S THEN LeaseMs ELSE lease[t]]
        /\ attempt' = [t \in Tasks |-> IF t \in S THEN attempt[t] + 1 ELSE attempt[t]]
        /\ batch' = [batch EXCEPT ![w] = [t \in S |-> attempt'[t]]]
  BY DEF ClaimDue
<1>2. \A t \in S : Due(t)
  BY <1>1 DEF Claimable, kSubset
<1>3. \A t \in S : attempt[t] + 1 \in 1..MaxAttempts /\ state[t] \in Held \cup Idle
  BY <1>2, TasksAssumption DEF Due, TasksInv, TypeOK
<1>4. attempt' \in [Tasks -> 0..MaxAttempts]
  BY <1>1, <1>3 DEF TasksInv, TypeOK
<1>5. [t \in S |-> attempt'[t]] \in Batches
  <2>1. [t \in S |-> attempt'[t]] \in [S -> 1..MaxAttempts]
    BY <1>1, <1>3
  <2> QED BY <2>1 DEF Batches
<1>6. current[w] = None
  BY NoBatchIsBatch DEF ClaimDue, TasksInv, TypeOK
<1>7. TypeOK'
  <2>1. /\ state' \in [Tasks -> States] /\ owner' \in [Tasks -> Workers \cup {None}]
        /\ lease' \in [Tasks -> 0..LeaseMs]
    BY <1>1, TasksAssumption DEF TasksInv, TypeOK, States, Held
  <2>2. batch' \in [Workers -> Batches]
    BY <1>1, <1>5 DEF TasksInv, TypeOK
  <2>3. \A v \in Workers : current'[v] # None => current'[v] \in DOMAIN batch'[v]
    BY <1>1, <1>6 DEF ClaimDue, TasksInv, TypeOK
  <2> QED BY <1>4, <2>1, <2>2, <2>3, TasksAssumption DEF ClaimDue, TasksInv, TypeOK
<1>8. GivenUpAfterAllAttempts'
  <2> SUFFICES ASSUME NEW t \in Tasks, state'[t] = "dead_letter" PROVE attempt'[t] = MaxAttempts
    BY DEF GivenUpAfterAllAttempts
  <2>1. t \notin S
    BY <1>1, <1>2, TasksAssumption DEF Due, Exhausted, TasksInv, TypeOK
  <2> QED BY <1>1, <2>1, TasksAssumption DEF Exhausted, TasksInv, TypeOK, GivenUpAfterAllAttempts
<1>9. SuccessIsRecorded'
  BY <1>1 DEF ClaimDue, TasksInv, SuccessIsRecorded
<1>10. HandlerKept'
  BY DEF ClaimDue, TasksInv, HandlerKept
<1> QED BY <1>7, <1>8, <1>9, <1>10 DEF TasksInv

LEMMA StartKept == ASSUME TasksInv, NEW w \in Workers, NEW t \in Tasks, Start(w, t) PROVE TasksInv'
<1>1. CASE Holds(w, t) /\ state[t] = "leased" /\ current' = [current EXCEPT ![w] = t]
           /\ state' = [state EXCEPT ![t] = "running"]
           /\ phase' = [phase EXCEPT ![w] = "running"]
           /\ UNCHANGED <<attempt, wait, owner, lease, batch, age, step, checkpoint, done, grace>>
  <2>1. TypeOK'
    BY <1>1 DEF Start, TasksInv, TypeOK, States, Held, Phases
  <2> QED BY <1>1, <2>1, TasksAssumption
          DEF TasksInv, TypeOK, GivenUpAfterAllAttempts, SuccessIsRecorded, HandlerKept
<1>2. CASE LetGo(w, t) /\ UNCHANGED <<rowVars, checkpoint, done, grace>>
  <2>1. current[w] = None
    BY DEF Start
  <2> QED BY <1>2, <2>1, LetGoKeepsWorkers DEF rowVars, TasksInv, TypeOK, GivenUpAfterAllAttempts, SuccessIsRecorded
<1> QED BY <1>1, <1>2 DEF Start

LEMMA HeartbeatKept == ASSUME TasksInv, NEW w \in Workers, Heartbeat(w) PROVE TasksInv'
<1>1. TypeOK'
  BY TasksAssumption DEF Heartbeat, TasksInv, TypeOK, workerVars
<1> QED BY <1>1 DEF Heartbeat, TasksInv, workerVars, GivenUpAfterAllAttempts, SuccessIsRecorded, HandlerKept

\* complete and reschedule keep the invariant, a success if the checkpoint is there.
LEMMA FinishLeaseKept ==
    ASSUME TasksInv, NEW w \in Workers, current[w] \in Tasks, NEW s \in {"waiting", "succeeded"}, NEW d \in Nat,
           s = "succeeded" => checkpoint[current[w]] # None,
           FinishLease(w, current[w], s, d)
    PROVE  TasksInv'
<1> DEFINE t == current[w]
<1>1. LetGo(w, t) /\ UNCHANGED <<checkpoint, done, grace>>
  BY DEF FinishLease
<1>2. /\ state' \in [Tasks -> States] /\ attempt' \in [Tasks -> 0..MaxAttempts]
      /\ wait' \in [Tasks -> Nat] /\ owner' \in [Tasks -> Workers \cup {None}]
      /\ lease' \in [Tasks -> 0..LeaseMs]
  <2>1. s \in States
    BY DEF States, Idle
  <2> QED BY <2>1, FinishKeepsRows DEF FinishLease, rowVars, TasksInv, TypeOK
<1>3. TypeOK' /\ HandlerKept'
  BY <1>1, <1>2, LetGoKeepsWorkers DEF TasksInv, TypeOK
<1>4. GivenUpAfterAllAttempts' /\ SuccessIsRecorded'
  BY <1>1 DEF FinishLease, Finish, rowVars, TasksInv, TypeOK, GivenUpAfterAllAttempts, SuccessIsRecorded
<1> QED BY <1>3, <1>4 DEF TasksInv

LEMMA HandlerActsKept == ASSUME TasksInv, NEW w \in Workers, HandlerActs(w) PROVE TasksInv'
<1>1. PICK s \in Steps :
        /\ step' = [step EXCEPT ![w] = s]
        /\ done' = IF s = "close" THEN done \cup {current[w]} ELSE done
  BY DEF HandlerActs
<1>2. /\ current[w] \in Tasks
      /\ phase' = [phase EXCEPT ![w] = "acted"]
      /\ UNCHANGED <<rowVars, checkpoint, grace, batch, age, current>>
  BY DEF HandlerActs, TasksInv, TypeOK
<1>3. TypeOK'
  BY <1>1, <1>2 DEF rowVars, TasksInv, TypeOK, Phases
<1>4. SuccessIsRecorded' /\ GivenUpAfterAllAttempts'
  BY <1>1, <1>2 DEF rowVars, TasksInv, SuccessIsRecorded, GivenUpAfterAllAttempts
<1>5. HandlerKept'
  BY <1>1, <1>2, TasksAssumption DEF TasksInv, TypeOK, HandlerKept
<1> QED BY <1>3, <1>4, <1>5 DEF TasksInv

LEMMA SaveKept == ASSUME TasksInv, NEW w \in Workers, Save(w) PROVE TasksInv'
<1> DEFINE t == current[w]
<1>1. t \in Tasks /\ phase[w] = "acted" /\ step[w] \in Steps /\ UNCHANGED <<rowVars, done, grace>>
  BY DEF Save, TasksInv, TypeOK, HandlerKept
<1>2. None \notin Steps
  BY TasksAssumption
<1>3. CASE HoldsLive(w, t) /\ checkpoint' = [checkpoint EXCEPT ![t] = IF @ = None THEN step[w] ELSE @]
           /\ phase' = [phase EXCEPT ![w] = IF checkpoint'[t] = step[w] THEN "saved" ELSE "conflict"]
           /\ UNCHANGED <<batch, age, current, step>>
  <2>1. TypeOK'
    BY <1>1, <1>3 DEF rowVars, TasksInv, TypeOK, Phases
  <2>2. SuccessIsRecorded' /\ GivenUpAfterAllAttempts'
    BY <1>1, <1>2, <1>3 DEF rowVars, TasksInv, TypeOK, SuccessIsRecorded, GivenUpAfterAllAttempts, HandlerKept
  <2>3. HandlerKept'
    BY <1>1, <1>2, <1>3 DEF rowVars, TasksInv, TypeOK, HandlerKept
  <2> QED BY <2>1, <2>2, <2>3 DEF TasksInv
<1>4. CASE LetGo(w, t) /\ UNCHANGED checkpoint
  BY <1>1, <1>4, LetGoKeepsWorkers DEF rowVars, TasksInv, TypeOK, GivenUpAfterAllAttempts, SuccessIsRecorded
<1> QED BY <1>3, <1>4 DEF Save

LEMMA FailKept == ASSUME TasksInv, NEW w \in Workers, Fail(w) PROVE TasksInv'
<1> DEFINE t == current[w]
<1>1. t \in Tasks /\ LetGo(w, t) /\ UNCHANGED <<checkpoint, done, grace>>
  BY DEF Fail, TasksInv, TypeOK
<1>2. CASE Holds(w, t) /\ Finish(t, IF LastAttempt(t) THEN "dead_letter" ELSE "failed",
                                  Less(Backoff(attempt[t]), age[w]))
  <2>1. Less(Backoff(attempt[t]), age[w]) \in Nat
    <3>1. batch[w] \in Batches /\ t \in DOMAIN batch[w] /\ age[w] \in Nat
      BY <1>1, TasksAssumption DEF TasksInv, TypeOK
    <3>2. attempt[t] \in 1..MaxAttempts
      BY <1>2, <3>1, BatchEntries DEF Holds
    <3>3. Backoff(attempt[t]) \in Nat
      BY <3>2, BackoffIsNat
    <3> QED BY <3>1, <3>3, LessIsNat
  <2>2. (IF LastAttempt(t) THEN "dead_letter" ELSE "failed") \in States
    BY DEF States, Idle
  <2>3. /\ state' \in [Tasks -> States] /\ attempt' \in [Tasks -> 0..MaxAttempts]
        /\ wait' \in [Tasks -> Nat] /\ owner' \in [Tasks -> Workers \cup {None}]
        /\ lease' \in [Tasks -> 0..LeaseMs]
    BY <1>1, <1>2, <2>1, <2>2, FinishKeepsRows DEF TasksInv
  <2>4. TypeOK' /\ HandlerKept'
    BY <1>1, <2>3, LetGoKeepsWorkers DEF TasksInv, TypeOK
  <2>5. GivenUpAfterAllAttempts'
    <3>1. attempt' = attempt /\ MaxAttempts \in Nat /\ attempt[t] <= MaxAttempts /\ attempt[t] \in Nat
      BY <1>1, <1>2, TasksAssumption DEF Finish, TasksInv, TypeOK
    <3>2. state'[t] = "dead_letter" => attempt[t] = MaxAttempts
      <4>1. state'[t] = IF LastAttempt(t) THEN "dead_letter" ELSE "failed"
        BY <1>1, <1>2 DEF Finish, TasksInv, TypeOK
      <4>2. LastAttempt(t) => attempt[t] = MaxAttempts
        BY <3>1 DEF LastAttempt
      <4> QED BY <4>1, <4>2
    <3>3. \A u \in Tasks \ {t} : state'[u] = state[u]
      BY <1>2 DEF Finish, TasksInv, TypeOK
    <3> QED BY <3>1, <3>2, <3>3 DEF TasksInv, GivenUpAfterAllAttempts
  <2>6. SuccessIsRecorded'
    BY <1>1, <1>2 DEF Finish, TasksInv, TypeOK, SuccessIsRecorded
  <2> QED BY <2>4, <2>5, <2>6 DEF TasksInv
<1>3. CASE UNCHANGED rowVars
  BY <1>1, <1>3, LetGoKeepsWorkers DEF rowVars, TasksInv, TypeOK, GivenUpAfterAllAttempts, SuccessIsRecorded
<1> QED BY <1>2, <1>3 DEF Fail

LEMMA CrashKept == ASSUME TasksInv, NEW w \in Workers, Crash(w) PROVE TasksInv'
<1>1. TypeOK'
  BY NoBatchIsBatch, TasksAssumption DEF Crash, rowVars, TasksInv, TypeOK, Phases
<1> QED BY <1>1, TasksAssumption
        DEF Crash, rowVars, TasksInv, TypeOK, GivenUpAfterAllAttempts, SuccessIsRecorded, HandlerKept

LEMMA TickKept == ASSUME TasksInv, Tick PROVE TasksInv'
<1>1. TypeOK'
  <2>1. wait' \in [Tasks -> Nat] /\ grace' \in [Tasks -> Nat]
    BY LessIsNat DEF Tick, TasksInv, TypeOK
  <2>2. lease' \in [Tasks -> 0..LeaseMs]
    BY LessIsNat, TasksAssumption DEF Tick, TasksInv, TypeOK
  <2>3. age' \in [Workers -> 0..MaxBackoff]
    BY AtMostIsWithin, TasksAssumption DEF Tick, TasksInv, TypeOK
  <2> QED BY <2>1, <2>2, <2>3 DEF Tick, TasksInv, TypeOK
<1> QED BY <1>1 DEF Tick, TasksInv, GivenUpAfterAllAttempts, SuccessIsRecorded, HandlerKept

\* The invariant is inductive.
LEMMA NextKept == TasksInv /\ [Next]_vars => TasksInv'
<1> SUFFICES ASSUME TasksInv, [Next]_vars PROVE TasksInv'
  OBVIOUS
<1>1. CASE \E t \in Tasks : Enqueue(t)
  BY <1>1, EnqueueKept
<1>2. ASSUME NEW w \in Workers,
             \/ ClaimDue(w) \/ Heartbeat(w) \/ Crash(w)
             \/ \E t \in Tasks : Start(w, t)
      PROVE  TasksInv'
  BY <1>2, ClaimDueKept, HeartbeatKept, CrashKept, StartKept
<1>3. ASSUME NEW w \in Workers, Proceed(w) PROVE TasksInv'
  <2>1. CASE HandlerWaits(w)
    <3>1. current[w] \in Tasks /\ RetryMs \in Nat
      BY <2>1, TasksAssumption DEF HandlerWaits, TasksInv, TypeOK
    <3> QED BY <2>1, <3>1, FinishLeaseKept DEF HandlerWaits
  <2>2. CASE Complete(w)
    <3>1. current[w] \in Tasks /\ checkpoint[current[w]] # None
      BY <2>2 DEF Complete, TasksInv, HandlerKept
    <3> QED BY <2>2, <3>1, FinishLeaseKept DEF Complete
  <2> QED BY <1>3, <2>1, <2>2, HandlerActsKept, SaveKept, FailKept DEF Proceed
<1>4. CASE Tick
  BY <1>4, TickKept
<1>5. CASE UNCHANGED vars
  BY <1>5 DEF vars, rowVars, workerVars, TasksInv, TypeOK, GivenUpAfterAllAttempts, SuccessIsRecorded, HandlerKept
<1> QED BY <1>1, <1>2, <1>3, <1>4, <1>5 DEF Next

\* The inductive invariant of the queue and its runners holds in every reachable state.
THEOREM TasksAlwaysKept == Spec => []TasksInv
<1>1. Init => TasksInv
  BY InitKept
<1>2. TasksInv /\ [Next]_vars => TasksInv'
  BY NextKept
<1> QED BY <1>1, <1>2, PTL DEF Spec

\* Every variable keeps its type; in particular no claim goes past the attempts allowed.
THEOREM TaskTypesHold == Spec => []TypeOK
<1>1. TasksInv => TypeOK
  BY DEF TasksInv
<1> QED BY <1>1, TasksAlwaysKept, PTL

\* A task is in the dead letters only with all its attempts used.
THEOREM DeadLettersAreExhausted == Spec => []GivenUpAfterAllAttempts
<1>1. TasksInv => GivenUpAfterAllAttempts
  BY DEF TasksInv
<1> QED BY <1>1, TasksAlwaysKept, PTL

\* A success left its checkpoint, and a timer recorded as having acted has acted.
THEOREM SuccessesAreRecorded == Spec => []SuccessIsRecorded
<1>1. TasksInv => SuccessIsRecorded
  BY DEF TasksInv
<1> QED BY <1>1, TasksAlwaysKept, PTL

-----------------------------------------------------------------------------
(* What a step may not do *)

\* A step of one worker that ends or changes its handler leaves the other workers alone.
LEMMA LetGoIsOwn ==
    ASSUME TypeOK, NEW w \in Workers, NEW t, LetGo(w, t), NEW v \in Workers \ {w}
    PROVE  ~Moves(v)
BY DEF LetGo, Moves, TypeOK

\* The row a finished lease leaves, and the rows it does not touch.
LEMMA FinishRows ==
    ASSUME TypeOK, NEW t \in Tasks, NEW s, NEW d, Finish(t, s, d), NEW u \in Tasks \ {t}
    PROVE  state'[u] = state[u] /\ owner'[u] = owner[u] /\ attempt'[u] = attempt[u]
BY DEF Finish, TypeOK

\* A stale worker holds nothing.
LEMMA StaleHoldsNothing ==
    ASSUME NEW w \in Workers, NEW t \in Tasks, Stale(w, t)
    PROVE  ~Holds(w, t) /\ ~HoldsLive(w, t)
BY DEF Stale, Holds, HoldsLive

\* The ways a runner ends its work on a task, whatever they write to the row.
LEMMA EndsHarmlessly ==
    ASSUME TypeOK, NEW v \in Workers, NEW u \in Tasks, LetGo(v, u), UNCHANGED checkpoint,
           \/ Holds(v, u) /\ \E s, d : Finish(u, s, d)
           \/ UNCHANGED rowVars,
           NEW w \in Workers, NEW t \in Tasks, Stale(w, t), Moves(w)
    PROVE  state'[t] = state[t] /\ owner'[t] = owner[t] /\ checkpoint'[t] = checkpoint[t]
<1>1. w = v
  BY LetGoIsOwn
<1>2. CASE Holds(v, u) /\ \E s, d : Finish(u, s, d)
  <2>1. t # u
    BY <1>1, <1>2, StaleHoldsNothing
  <2> QED BY <1>2, <2>1, FinishRows
<1>3. CASE UNCHANGED rowVars
  BY <1>3 DEF rowVars
<1> QED BY <1>2, <1>3

\* The fencing of one step.
LEMMA StepFenced ==
    ASSUME TasksInv, Next, NEW w \in Workers, NEW t \in Tasks, Stale(w, t), Moves(w)
    PROVE  state'[t] = state[t] /\ owner'[t] = owner[t] /\ checkpoint'[t] = checkpoint[t]
<1>1. CASE (\E u \in Tasks : Enqueue(u)) \/ Tick
  BY <1>1 DEF Enqueue, Tick, workerVars, Moves
<1>2. ASSUME NEW v \in Workers, ClaimDue(v) PROVE FALSE
  <2>1. v # w
    BY <1>2, NoBatchIsBatch DEF ClaimDue, Stale
  <2> QED BY <1>2, <2>1 DEF ClaimDue, Moves, TasksInv, TypeOK
<1>3. ASSUME NEW v \in Workers, NEW u \in Tasks, Start(v, u)
      PROVE  state'[t] = state[t] /\ owner'[t] = owner[t] /\ checkpoint'[t] = checkpoint[t]
  <2>1. CASE LetGo(v, u) /\ UNCHANGED rowVars
    BY <1>3, <2>1 DEF rowVars, Start
  <2>2. CASE Holds(v, u) /\ state' = [state EXCEPT ![u] = "running"]
             /\ current' = [current EXCEPT ![v] = u] /\ phase' = [phase EXCEPT ![v] = "running"]
             /\ UNCHANGED <<owner, batch, checkpoint>>
    <3>1. w = v
      BY <2>2 DEF Moves, TasksInv, TypeOK
    <3>2. t # u
      BY <2>2, <3>1, StaleHoldsNothing
    <3> QED BY <2>2, <3>2 DEF TasksInv, TypeOK
  <2> QED BY <1>3, <2>1, <2>2 DEF Start
<1>4. ASSUME NEW v \in Workers, Heartbeat(v) \/ Crash(v) \/ HandlerActs(v)
      PROVE  state'[t] = state[t] /\ owner'[t] = owner[t] /\ checkpoint'[t] = checkpoint[t]
  BY <1>4 DEF Heartbeat, Crash, HandlerActs, rowVars
<1>5. ASSUME NEW v \in Workers, HandlerWaits(v) \/ Complete(v) \/ Fail(v)
      PROVE  state'[t] = state[t] /\ owner'[t] = owner[t] /\ checkpoint'[t] = checkpoint[t]
  <2>1. current[v] \in Tasks
    BY <1>5 DEF HandlerWaits, Complete, Fail, TasksInv, TypeOK
  <2>2. /\ LetGo(v, current[v]) /\ UNCHANGED checkpoint
        /\ \/ Holds(v, current[v]) /\ \E s, d : Finish(current[v], s, d)
           \/ UNCHANGED rowVars
    BY <1>5 DEF HandlerWaits, Complete, Fail, FinishLease, HoldsLive
  <2> QED BY <2>1, <2>2, EndsHarmlessly DEF TasksInv
<1>6. ASSUME NEW v \in Workers, Save(v)
      PROVE  state'[t] = state[t] /\ owner'[t] = owner[t] /\ checkpoint'[t] = checkpoint[t]
  <2>1. CASE UNCHANGED checkpoint
    BY <1>6, <2>1 DEF Save, rowVars
  <2>2. CASE /\ HoldsLive(v, current[v]) /\ UNCHANGED <<batch, current>>
             /\ checkpoint' = [checkpoint EXCEPT ![current[v]] = IF @ = None THEN step[v] ELSE @]
             /\ phase' = [phase EXCEPT ![v] = IF checkpoint'[current[v]] = step[v] THEN "saved" ELSE "conflict"]
    <3>1. w = v
      BY <2>2 DEF Moves, TasksInv, TypeOK
    <3>2. t # current[v]
      BY <2>2, <3>1, StaleHoldsNothing
    <3> QED BY <1>6, <2>2, <3>2 DEF Save, rowVars, TasksInv, TypeOK
  <2> QED BY <1>6, <2>1, <2>2 DEF Save
<1> QED BY <1>1, <1>2, <1>3, <1>4, <1>5, <1>6 DEF Next, Proceed

\* What a task's row says is true of its attempts and of its work, and is typed.
THEOREM RowsAlwaysTrue == Spec => []RowsAreTrue
BY TaskTypesHold, DeadLettersAreExhausted, SuccessesAreRecorded, PTL DEF RowsAreTrue

\* A worker whose task was claimed again changes nothing of it.
THEOREM StaleWorkersAreFenced == Spec => StaleWorkerHarmless
<1>1. TasksInv /\ [Next]_vars =>
        [\A w \in Workers, t \in Tasks : (Stale(w, t) /\ Moves(w)) =>
            /\ state'[t] = state[t] /\ owner'[t] = owner[t] /\ checkpoint'[t] = checkpoint[t]]_vars
  BY StepFenced
<1> QED BY <1>1, TasksAlwaysKept, PTL DEF Spec, StaleWorkerHarmless

\* One step takes a live lease from nobody.
LEMMA StepKeepsLiveLease ==
    ASSUME TasksInv, Next, NEW t \in Tasks,
           state[t] \in Held, lease[t] > 0, state'[t] \notin Held \/ attempt'[t] # attempt[t]
    PROVE  /\ current[owner[t]] = t /\ current'[owner[t]] = None
           /\ batch[owner[t]][t] = attempt[t]
<1>1. CASE (\E u \in Tasks : Enqueue(u)) \/ Tick
  BY <1>1 DEF Enqueue, Tick, Held, TasksInv, TypeOK
<1>2. ASSUME NEW v \in Workers, ClaimDue(v) PROVE FALSE
  <2>1. PICK S \in SUBSET Tasks :
          /\ Claimable(S)
          /\ state' = [u \in Tasks |-> IF Exhausted(u) THEN "dead_letter"
                                       ELSE IF u \in S THEN "leased" ELSE state[u]]
          /\ attempt' = [u \in Tasks |-> IF u \in S THEN attempt[u] + 1 ELSE attempt[u]]
    BY <1>2 DEF ClaimDue
  <2>2. ~Exhausted(t) /\ ~Due(t)
    BY TasksAssumption DEF Exhausted, Due, Held, Idle, TasksInv, TypeOK
  <2>3. t \notin S
    BY <2>1, <2>2 DEF Claimable, kSubset
  <2> QED BY <2>1, <2>2, <2>3
<1>3. ASSUME NEW v \in Workers,
             Heartbeat(v) \/ Crash(v) \/ HandlerActs(v) \/ Save(v) \/ \E u \in Tasks : Start(v, u)
      PROVE  FALSE
  BY <1>3 DEF Heartbeat, Crash, HandlerActs, Save, Start, rowVars, Held, TasksInv, TypeOK
<1>4. ASSUME NEW v \in Workers, HandlerWaits(v) \/ Complete(v) \/ Fail(v)
      PROVE  /\ current[owner[t]] = t /\ current'[owner[t]] = None
             /\ batch[owner[t]][t] = attempt[t]
  <2>1. current[v] \in Tasks /\ LetGo(v, current[v])
    BY <1>4 DEF HandlerWaits, Complete, Fail, FinishLease, TasksInv, TypeOK
  <2>2. Holds(v, current[v]) /\ \E s, d : Finish(current[v], s, d)
    BY <1>4 DEF HandlerWaits, Complete, Fail, FinishLease, HoldsLive, rowVars
  <2>3. t = current[v]
    BY <2>1, <2>2, FinishRows DEF TasksInv
  <2>4. current'[v] = None
    BY <2>1 DEF LetGo, TasksInv, TypeOK
  <2> QED BY <2>2, <2>3, <2>4 DEF Holds
<1> QED BY <1>1, <1>2, <1>3, <1>4 DEF Next, Proceed

\* A live lease is never taken from its holder.
THEOREM LiveLeasesAreKept == Spec => LiveLeaseKept
<1>1. TasksInv /\ [Next]_vars =>
        [\A t \in Tasks :
          (state[t] \in Held /\ lease[t] > 0 /\ (state'[t] \notin Held \/ attempt'[t] # attempt[t])) =>
              /\ current[owner[t]] = t /\ current'[owner[t]] = None
              /\ batch[owner[t]][t] = attempt[t]]_vars
  BY StepKeepsLiveLease
<1> QED BY <1>1, TasksAlwaysKept, PTL DEF Spec, LiveLeaseKept

-----------------------------------------------------------------------------
(***************************************************************************)
(* Watcher leases.                                                         *)
(***************************************************************************)

USE WatcherAssumption DEF Holders

\* A process that ticks within the time of its lease is the one the row names, for at least as long.
TrustIsBacked ==
    \A p \in Processes :
        life[p] = "up" /\ tick[p] # "none" /\ trusts[p] > 0 =>
            loopLease.holder = p /\ loopLease.left >= trusts[p]

\* Where only ticks act, an action within the time of its claim is the one the row names.
ClaimIsBacked ==
    ~onEvents =>
        \A p \in Processes :
            /\ ~event[p]
            /\ tick[p] = "acting" /\ acts[p]["tick"] > 0 =>
                   claim.holder = p /\ claim.left >= acts[p]["tick"]

\* A process that is off runs nothing.
OffIsIdle == \A p \in Processes : life[p] = "off" => tick[p] = "none" /\ ~event[p]

WatcherInv == WatchTypeOK /\ TrustIsBacked /\ ClaimIsBacked /\ OffIsIdle

-----------------------------------------------------------------------------
(***************************************************************************)
(* Types.                                                                  *)
(***************************************************************************)
LEMMA RunsOutBounds ==
    ASSUME NEW n \in Nat, NEW top \in Nat, n \in 0..top
    PROVE  /\ RunsOut(n) \in 0..top
           /\ RunsOut(n) > 0 => RunsOut(n) = n - 1
           /\ n > 0 => RunsOut(n) = n - 1
  BY DEF RunsOut

LEMMA RowTypes ==
    ASSUME NEW top \in Nat, NEW row \in [holder : Holders, left : 0..top],
           NEW p \in Processes
    PROVE  /\ Without(row, p) \in [holder : Holders, left : 0..top]
           /\ row.holder # p => Without(row, p) = row
           /\ Orphaned(row, p) \in [holder : Holders, left : 0..top]
           /\ row.holder # p => Orphaned(row, p) = row
  BY DEF Without, Orphaned, Row, Holders

LEMMA RowDecays ==
    ASSUME NEW top \in Nat, NEW row \in [holder : Holders, left : 0..top]
    PROVE  /\ [row EXCEPT !.left = RunsOut(@)] \in [holder : Holders, left : 0..top]
           /\ [row EXCEPT !.left = RunsOut(@)].holder = row.holder
           /\ [row EXCEPT !.left = RunsOut(@)].left = RunsOut(row.left)
<1>1. row.left \in 0..top /\ row.left \in Nat
  OBVIOUS
<1>2. RunsOut(row.left) \in 0..top
  BY <1>1, RunsOutBounds
<1> QED BY <1>2

LEMMA InitHolds == WatchInit => WatcherInv
<1> SUFFICES ASSUME WatchInit PROVE WatcherInv
  OBVIOUS
<1>1. WatchTypeOK
  BY DEF WatchInit, WatchTypeOK, Row, Slots
<1>2. TrustIsBacked /\ ClaimIsBacked /\ OffIsIdle
  BY DEF WatchInit, TrustIsBacked, ClaimIsBacked, OffIsIdle
<1> QED BY <1>1, <1>2 DEF WatcherInv

LEMMA ActsTyped ==
    ASSUME NEW f \in [Processes -> [Slots -> 0..ClaimTtl]],
           NEW p \in Processes, NEW s \in Slots, NEW n \in 0..ClaimTtl
    PROVE  /\ [f EXCEPT ![p][s] = n] \in [Processes -> [Slots -> 0..ClaimTtl]]
           /\ [f EXCEPT ![p][s] = n][p][s] = n
           /\ \A q \in Processes, z \in Slots :
                  (q # p \/ z # s) => [f EXCEPT ![p][s] = n][q][z] = f[q][z]
<1>1. f[p] \in [Slots -> 0..ClaimTtl]
  OBVIOUS
<1>2. [f[p] EXCEPT ![s] = n] \in [Slots -> 0..ClaimTtl]
  BY <1>1
<1> QED BY <1>1, <1>2

LEMMA AdvanceTyped ==
    ASSUME WatchTypeOK, Advance
    PROVE  /\ WatchTypeOK'
           /\ loopLease'.holder = loopLease.holder /\ loopLease'.left = RunsOut(loopLease.left)
           /\ claim'.holder = claim.holder /\ claim'.left = RunsOut(claim.left)
<1>1. /\ loopLease' \in [holder : Holders, left : 0..LeaseTtl]
      /\ loopLease'.holder = loopLease.holder /\ loopLease'.left = RunsOut(loopLease.left)
  <2>1. loopLease \in [holder : Holders, left : 0..LeaseTtl] /\ LeaseTtl \in Nat
    BY DEF WatchTypeOK
  <2>2. loopLease' = [loopLease EXCEPT !.left = RunsOut(@)]
    BY DEF Advance
  <2> QED BY <2>1, <2>2, RowDecays
<1>2. /\ claim' \in [holder : Holders, left : 0..ClaimTtl]
      /\ claim'.holder = claim.holder /\ claim'.left = RunsOut(claim.left)
  <2>1. claim \in [holder : Holders, left : 0..ClaimTtl] /\ ClaimTtl \in Nat
    BY DEF WatchTypeOK
  <2>2. claim' = [claim EXCEPT !.left = RunsOut(@)]
    BY DEF Advance
  <2> QED BY <2>1, <2>2, RowDecays
<1>3. \A p \in Processes : RunsOut(trusts[p]) \in 0..LeaseTtl
  BY RunsOutBounds DEF WatchTypeOK
<1>4. \A p \in Processes, s \in Slots : RunsOut(acts[p][s]) \in 0..ClaimTtl
  BY RunsOutBounds DEF WatchTypeOK
<1>5. trusts' \in [Processes -> 0..LeaseTtl]
  BY <1>3 DEF Advance
<1>6. acts' \in [Processes -> [Slots -> 0..ClaimTtl]]
  BY <1>4 DEF Advance
<1> QED BY <1>1, <1>2, <1>5, <1>6 DEF Advance, WatchTypeOK

-----------------------------------------------------------------------------
(***************************************************************************)
(* One lemma per kind of step.                                             *)
(***************************************************************************)
LEMMA AdvanceKeeps ==
    ASSUME WatcherInv, Advance
    PROVE  WatcherInv'
<1> USE DEF WatcherInv
<1>1. WatchTypeOK'
  BY AdvanceTyped
<1>2. \A p \in Processes : trusts[p] \in Nat /\ trusts'[p] = RunsOut(trusts[p])
  BY DEF WatchTypeOK, Advance
<1>3. \A p \in Processes, s \in Slots : acts[p][s] \in Nat /\ acts'[p][s] = RunsOut(acts[p][s])
  BY DEF WatchTypeOK, Advance
<1>4. loopLease.left \in Nat /\ claim.left \in Nat
  BY DEF WatchTypeOK
<1>5. \A m, n \in Nat : RunsOut(m) > 0 /\ n >= m => m > 0 /\ RunsOut(n) >= RunsOut(m)
  BY DEF RunsOut
<1>6. /\ loopLease'.holder = loopLease.holder /\ loopLease'.left = RunsOut(loopLease.left)
      /\ claim'.holder = claim.holder /\ claim'.left = RunsOut(claim.left)
  BY AdvanceTyped
<1>7. UNCHANGED <<onEvents, life, tick, event>>
  BY DEF Advance
<1>8. TrustIsBacked'
  <2> SUFFICES ASSUME NEW p \in Processes, life'[p] = "up", tick'[p] # "none", trusts'[p] > 0
               PROVE  loopLease'.holder = p /\ loopLease'.left >= trusts'[p]
    BY DEF TrustIsBacked
  <2>1. trusts[p] \in Nat
    BY <1>2
  <2>2. trusts[p] > 0
    BY <1>2, <2>1 DEF RunsOut
  <2>3. loopLease.holder = p /\ loopLease.left >= trusts[p]
    BY <1>7, <2>2 DEF TrustIsBacked
  <2> QED BY <1>2, <1>4, <1>5, <1>6, <2>1, <2>3
<1>9. ClaimIsBacked'
  <2> SUFFICES ASSUME ~onEvents, NEW p \in Processes
               PROVE  /\ ~event[p]
                      /\ tick[p] = "acting" /\ acts'[p]["tick"] > 0 =>
                             claim'.holder = p /\ claim'.left >= acts'[p]["tick"]
    BY <1>7 DEF ClaimIsBacked
  <2>1. ~event[p]
    BY DEF ClaimIsBacked
  <2>2. ASSUME tick[p] = "acting", acts'[p]["tick"] > 0
        PROVE  claim'.holder = p /\ claim'.left >= acts'[p]["tick"]
    <3>1. acts[p]["tick"] \in Nat /\ acts'[p]["tick"] = RunsOut(acts[p]["tick"])
      BY <1>3 DEF Slots
    <3>2. acts[p]["tick"] > 0
      BY <2>2, <3>1 DEF RunsOut
    <3>3. claim.holder = p /\ claim.left >= acts[p]["tick"]
      BY <2>2, <3>2 DEF ClaimIsBacked
    <3> QED BY <1>4, <1>5, <1>6, <2>2, <3>1, <3>3
  <2> QED BY <2>1, <2>2
<1>10. OffIsIdle'
  BY <1>7 DEF OffIsIdle
<1> QED BY <1>1, <1>8, <1>9, <1>10

\* Taking or renewing the lease.
LEMMA TakeKeeps ==
    ASSUME WatcherInv, NEW p \in Processes, BeginTick(p) \/ Renew(p)
    PROVE  WatcherInv'
<1> USE DEF WatcherInv
<1>1. /\ MayTake(p) /\ Take(p) /\ Running(p)
      /\ UNCHANGED <<onEvents, claim, life, event, ran, acts>>
      /\ \A q \in Processes : tick'[q] = tick[q] \/ (tick[q] = "none" /\ tick'[q] = "begun")
      /\ \A q \in Processes \ {p} : tick'[q] = tick[q]
  BY DEF BeginTick, Renew, WatchTypeOK
<1>2. WatchTypeOK'
  BY <1>1 DEF BeginTick, Renew, Take, WatchTypeOK
<1>3. /\ loopLease'.holder = p /\ loopLease'.left = LeaseTtl /\ trusts'[p] = LeaseTtl
      /\ \A q \in Processes \ {p} : trusts'[q] = trusts[q]
  BY <1>1 DEF Take, WatchTypeOK
<1>4. TrustIsBacked'
  <2> SUFFICES ASSUME NEW q \in Processes, life'[q] = "up", tick'[q] # "none", trusts'[q] > 0
               PROVE  loopLease'.holder = q /\ loopLease'.left >= trusts'[q]
    BY DEF TrustIsBacked
  <2>1. CASE q = p
    BY <1>3, <2>1
  <2>2. CASE q # p
    <3>1. loopLease.holder = q /\ loopLease.left >= trusts[q] /\ trusts[q] > 0
      BY <1>1, <1>3, <2>2 DEF TrustIsBacked
    <3>2. loopLease.left = 0
      BY <1>1, <2>2, <3>1 DEF MayTake
    <3>3. trusts[q] \in Nat
      BY DEF WatchTypeOK
    <3> QED BY <3>1, <3>2, <3>3
  <2> QED BY <2>1, <2>2
<1>5. ClaimIsBacked' /\ OffIsIdle'
  <2>1. \A q \in Processes : tick'[q] = "acting" => tick[q] = "acting"
    BY <1>1
  <2>2. \A q \in Processes : life[q] = "off" => tick'[q] = "none"
    BY <1>1 DEF OffIsIdle, Running
  <2> QED BY <1>1, <2>1, <2>2 DEF ClaimIsBacked, OffIsIdle
<1> QED BY <1>2, <1>4, <1>5

\* The tick tries for the deal.
LEMMA TryKeeps ==
    ASSUME WatcherInv, NEW p \in Processes, TryDeal(p)
    PROVE  WatcherInv'
<1> USE DEF WatcherInv
<1>1. /\ Running(p) /\ tick[p] = "begun"
      /\ UNCHANGED <<onEvents, loopLease, life, event, ran, trusts>>
      /\ \A q \in Processes \ {p} : tick'[q] = tick[q]
      /\ tick' \in [Processes -> {"none", "begun", "acting", "done"}]
  BY DEF TryDeal, WatchTypeOK
<1>2. TrustIsBacked' /\ OffIsIdle'
  BY <1>1 DEF TrustIsBacked, OffIsIdle, Running
<1>3. CASE MayClaim(p) /\ Claim(p, "tick")
  <2>1. /\ acts' \in [Processes -> [Slots -> 0..ClaimTtl]] /\ acts'[p]["tick"] = ClaimTtl
        /\ \A q \in Processes, z \in Slots : q # p \/ z # "tick" => acts'[q][z] = acts[q][z]
    <3>1. acts' = [acts EXCEPT ![p]["tick"] = ClaimTtl] /\ acts \in [Processes -> [Slots -> 0..ClaimTtl]]
      BY <1>3 DEF Claim, WatchTypeOK
    <3>2. "tick" \in Slots /\ ClaimTtl \in 0..ClaimTtl
      BY DEF Slots
    <3> QED BY <3>1, <3>2, ActsTyped
  <2>2. claim' = [holder |-> p, left |-> ClaimTtl]
    BY <1>3 DEF Claim
  <2>3. WatchTypeOK'
    BY <1>1, <2>1, <2>2 DEF WatchTypeOK
  <2>4. ASSUME ~onEvents, NEW q \in Processes, tick'[q] = "acting", acts'[q]["tick"] > 0
        PROVE  claim'.holder = q /\ claim'.left >= acts'[q]["tick"]
    <3>1. CASE q = p
      BY <2>1, <2>2, <3>1
    <3>2. CASE q # p
      <4>1. claim.left >= acts[q]["tick"] /\ acts[q]["tick"] > 0
        BY <1>1, <2>1, <2>4, <3>2 DEF ClaimIsBacked, Slots
      <4>2. claim.left = 0 /\ acts[q]["tick"] \in Nat
        BY <1>3 DEF MayClaim, WatchTypeOK, Slots
      <4> QED BY <4>1, <4>2
    <3> QED BY <3>1, <3>2
  <2>5. ClaimIsBacked'
    BY <1>1, <2>4 DEF ClaimIsBacked
  <2> QED BY <1>2, <2>3, <2>5
<1>4. CASE tick' = [tick EXCEPT ![p] = "done"] /\ UNCHANGED <<claim, acts>>
  <2>1. WatchTypeOK'
    BY <1>1, <1>4 DEF WatchTypeOK
  <2>2. \A q \in Processes : tick'[q] = "acting" => tick[q] = "acting"
    BY <1>1, <1>4 DEF WatchTypeOK
  <2> QED BY <1>1, <1>2, <1>4, <2>1, <2>2 DEF ClaimIsBacked
<1> QED BY <1>3, <1>4 DEF TryDeal

\* The end of an action, the tick's or an event's.
LEMMA UnclaimKeeps ==
    ASSUME WatcherInv, NEW p \in Processes, LeaveDeal(p) \/ EventEnds(p)
    PROVE  WatcherInv'
<1> USE DEF WatcherInv
<1>1. PICK s \in Slots :
        /\ Unclaim(p, s) /\ UNCHANGED <<onEvents, loopLease, life, ran, trusts>> /\ Running(p)
        /\ s = "tick" => /\ tick[p] = "acting" /\ tick' = [tick EXCEPT ![p] = "done"]
                         /\ UNCHANGED event
        /\ s = "event" => event[p] /\ event' = [event EXCEPT ![p] = FALSE] /\ UNCHANGED tick
  BY DEF LeaveDeal, EventEnds, Slots
<1>2. /\ acts' \in [Processes -> [Slots -> 0..ClaimTtl]] /\ acts'[p][s] = 0
      /\ \A q \in Processes, z \in Slots : q # p \/ z # s => acts'[q][z] = acts[q][z]
  <2>1. acts' = [acts EXCEPT ![p][s] = 0] /\ acts \in [Processes -> [Slots -> 0..ClaimTtl]]
    BY <1>1 DEF Unclaim, WatchTypeOK
  <2>2. 0 \in 0..ClaimTtl
    OBVIOUS
  <2> QED BY <2>1, <2>2, ActsTyped
<1>3. /\ claim' \in [holder : Holders, left : 0..ClaimTtl]
      /\ claim.holder # p => claim' = claim
  BY <1>1, RowTypes DEF Unclaim, WatchTypeOK
<1>4. /\ tick' \in [Processes -> {"none", "begun", "acting", "done"}] /\ event' \in [Processes -> BOOLEAN]
      /\ \A q \in Processes : q # p => tick'[q] = tick[q] /\ event'[q] = event[q]
      /\ s = "tick" => tick'[p] = "done"
  BY <1>1 DEF WatchTypeOK, Slots
<1>5. WatchTypeOK'
  BY <1>1, <1>2, <1>3, <1>4 DEF WatchTypeOK
<1>6. \A q \in Processes : tick'[q] # "none" => tick[q] # "none"
  BY <1>1, <1>4 DEF Slots
<1>7. TrustIsBacked'
  BY <1>1, <1>6 DEF TrustIsBacked
<1>8. OffIsIdle'
  BY <1>1, <1>4 DEF OffIsIdle, Running
<1>9. ClaimIsBacked'
  <2> SUFFICES ASSUME ~onEvents, NEW q \in Processes
               PROVE  /\ ~event'[q]
                      /\ tick'[q] = "acting" /\ acts'[q]["tick"] > 0 =>
                             claim'.holder = q /\ claim'.left >= acts'[q]["tick"]
    BY <1>1 DEF ClaimIsBacked
  <2>1. s = "tick"
    BY <1>1 DEF ClaimIsBacked, Slots
  <2>2. ~event'[q]
    BY <1>1, <2>1 DEF ClaimIsBacked
  <2>3. ASSUME tick'[q] = "acting", acts'[q]["tick"] > 0
        PROVE  claim'.holder = q /\ claim'.left >= acts'[q]["tick"]
    <3>1. q # p
      BY <1>4, <2>1, <2>3
    <3>2. tick[q] = "acting" /\ acts'[q]["tick"] = acts[q]["tick"]
      BY <1>2, <1>4, <2>3, <3>1 DEF Slots
    <3>3. claim.holder = q /\ claim.left >= acts[q]["tick"]
      BY <2>3, <3>2 DEF ClaimIsBacked
    <3> QED BY <1>3, <3>1, <3>2, <3>3
  <2> QED BY <2>2, <2>3
<1> QED BY <1>5, <1>7, <1>8, <1>9

\* An event has the process act, where the job acts on events.
LEMMA EventKeeps ==
    ASSUME WatcherInv, NEW p \in Processes, EventActs(p)
    PROVE  WatcherInv'
<1> USE DEF WatcherInv
<1>1. /\ acts' \in [Processes -> [Slots -> 0..ClaimTtl]]
      /\ claim' = [holder |-> p, left |-> ClaimTtl]
      /\ event' = [event EXCEPT ![p] = TRUE] /\ onEvents /\ Running(p)
      /\ UNCHANGED <<onEvents, loopLease, life, tick, ran, trusts>>
  <2>1. acts' = [acts EXCEPT ![p]["event"] = ClaimTtl] /\ acts \in [Processes -> [Slots -> 0..ClaimTtl]]
    BY DEF EventActs, Claim, WatchTypeOK
  <2>2. "event" \in Slots /\ ClaimTtl \in 0..ClaimTtl
    BY DEF Slots
  <2>3. acts' \in [Processes -> [Slots -> 0..ClaimTtl]]
    BY <2>1, <2>2, ActsTyped
  <2> QED BY <2>3 DEF EventActs, Claim
<1>2. WatchTypeOK'
  BY <1>1 DEF WatchTypeOK
<1>3. TrustIsBacked' /\ ClaimIsBacked'
  BY <1>1 DEF TrustIsBacked, ClaimIsBacked
<1>4. OffIsIdle'
  BY <1>1 DEF OffIsIdle, Running, WatchTypeOK
<1> QED BY <1>2, <1>3, <1>4

\* Ticks that are skipped or end, and processes that start.
LEMMA QuietKeeps ==
    ASSUME WatcherInv, NEW p \in Processes, SkipTick(p) \/ EndTick(p) \/ StartProcess(p)
    PROVE  WatcherInv'
<1> USE DEF WatcherInv
<1>1. /\ UNCHANGED <<onEvents, storeVars, event, trusts, acts>>
      /\ \A q \in Processes : tick'[q] = tick[q] \/ tick'[q] = "none"
      /\ \A q \in Processes : life'[q] = life[q] \/ (life[q] = "off" /\ life'[q] = "up")
  BY DEF SkipTick, EndTick, StartProcess, WatchTypeOK
<1>2. WatchTypeOK'
  <2>1. CASE SkipTick(p)
    BY <2>1 DEF SkipTick, WatchTypeOK, storeVars
  <2>2. CASE EndTick(p)
    BY <2>2 DEF EndTick, WatchTypeOK, storeVars
  <2>3. CASE StartProcess(p)
    BY <2>3 DEF StartProcess, WatchTypeOK, storeVars
  <2> QED BY <2>1, <2>2, <2>3
<1>3. \A q \in Processes : tick'[q] # "none" => tick'[q] = tick[q] /\ life'[q] = life[q]
  BY <1>1 DEF OffIsIdle
<1>4. TrustIsBacked'
  BY <1>1, <1>3 DEF TrustIsBacked, storeVars
<1>5. ClaimIsBacked' /\ OffIsIdle'
  BY <1>1, <1>3 DEF ClaimIsBacked, OffIsIdle, storeVars
<1> QED BY <1>2, <1>4, <1>5

LEMMA ShutDownKeeps ==
    ASSUME WatcherInv, NEW p \in Processes, ShutDown(p)
    PROVE  WatcherInv'
<1> USE DEF WatcherInv
<1>1. /\ UNCHANGED <<onEvents, claim, tick, event, trusts, acts>>
      /\ life' = [life EXCEPT ![p] = "stopping"] /\ ran' = [ran EXCEPT ![p] = FALSE]
      /\ loopLease' \in {Without(loopLease, p), loopLease}
  BY DEF ShutDown
<1>2. /\ loopLease' \in [holder : Holders, left : 0..LeaseTtl]
      /\ loopLease.holder # p => loopLease' = loopLease
  BY <1>1, RowTypes DEF WatchTypeOK
<1>3. WatchTypeOK'
  BY <1>1, <1>2 DEF WatchTypeOK
<1>4. \A q \in Processes : (life'[q] = "up" \/ life'[q] = "off") => q # p /\ life[q] = life'[q]
  BY <1>1 DEF WatchTypeOK
<1>5. TrustIsBacked'
  BY <1>1, <1>2, <1>4 DEF TrustIsBacked
<1>6. ClaimIsBacked' /\ OffIsIdle'
  BY <1>1, <1>4 DEF ClaimIsBacked, OffIsIdle
<1> QED BY <1>3, <1>5, <1>6

LEMMA StopKeeps ==
    ASSUME WatcherInv, NEW p \in Processes, Stop(p)
    PROVE  WatcherInv'
<1> USE DEF WatcherInv
<1>1. [s \in Slots |-> 0] \in [Slots -> 0..ClaimTtl]
  OBVIOUS
<1>2. acts' \in [Processes -> [Slots -> 0..ClaimTtl]]
  BY <1>1 DEF Stop, WatchTypeOK
<1>3. /\ loopLease' \in [holder : Holders, left : 0..LeaseTtl] /\ claim' \in [holder : Holders, left : 0..ClaimTtl]
      /\ loopLease.holder # p => loopLease' = loopLease
      /\ claim.holder # p => claim' = claim
  <2>1. loopLease' = Orphaned(loopLease, p) /\ claim' = Orphaned(claim, p)
    BY DEF Stop
  <2> QED BY <2>1, RowTypes DEF WatchTypeOK
<1>4. /\ onEvents' = onEvents /\ tick'[p] = "none" /\ ~event'[p]
      /\ \A q \in Processes \ {p} : /\ life'[q] = life[q] /\ tick'[q] = tick[q]
                                    /\ event'[q] = event[q] /\ trusts'[q] = trusts[q]
                                    /\ acts'[q] = acts[q]
  BY DEF Stop, WatchTypeOK
<1>5. TrustIsBacked'
  BY <1>3, <1>4 DEF TrustIsBacked
<1>6. ClaimIsBacked'
  BY <1>3, <1>4 DEF ClaimIsBacked
<1>8. WatchTypeOK'
  BY <1>2, <1>3 DEF Stop, WatchTypeOK
<1>7. OffIsIdle'
  BY <1>4 DEF OffIsIdle
<1> QED BY <1>5, <1>6, <1>7, <1>8

LEMMA StutterKeeps ==
    ASSUME WatcherInv, UNCHANGED watchVars
    PROVE  WatcherInv'
  BY DEF WatcherInv, WatchTypeOK, TrustIsBacked, ClaimIsBacked, OffIsIdle, watchVars, storeVars, processVars

-----------------------------------------------------------------------------
\* The store always grants what the processes take for granted.
THEOREM GrantsAlwaysBacked == WatchSpec => []WatcherInv
<1>1. WatcherInv /\ [WatchNext]_watchVars => WatcherInv'
  BY AdvanceKeeps, TakeKeeps, TryKeeps, UnclaimKeeps, EventKeeps, QuietKeeps, ShutDownKeeps,
     StopKeeps, StutterKeeps DEF WatchNext
<1> QED BY <1>1, InitHolds, PTL DEF WatchSpec

\* At most one process ticks a job within the time of its lease and, where only ticks act on a deal,
\* at most one acts on it within the time of its claim.
THEOREM OneAtATimeHolds == WatchSpec => []OneAtATime
<1>1. WatcherInv => OneTickerInTime
  BY DEF WatcherInv, TrustIsBacked, OneTickerInTime
<1>2. WatcherInv => OneActorInTime
  <2> SUFFICES ASSUME WatcherInv, ~onEvents, NEW p \in Processes, NEW q \in Processes,
                      NEW s \in Slots, NEW z \in Slots,
                      Acting(p, s), acts[p][s] > 0, Acting(q, z), acts[q][z] > 0
               PROVE  p = q /\ s = z
    BY DEF OneActorInTime
  <2>1. s = "tick" /\ z = "tick"
    BY DEF WatcherInv, ClaimIsBacked, Acting, Slots
  <2>2. claim.holder = p /\ claim.holder = q
    BY <2>1 DEF WatcherInv, ClaimIsBacked, Acting
  <2> QED BY <2>1, <2>2
<1> QED BY <1>1, <1>2, GrantsAlwaysBacked, PTL DEF OneAtATime
=============================================================================
