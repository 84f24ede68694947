-------------------------- MODULE MCDurableTasks ---------------------------
(***************************************************************************)
(* Instances of DurableTasks: which timers may wait for their request.     *)
(***************************************************************************)
EXTENDS DurableTasks

CONSTANTS close, shadow, a, b

\* The close of a window may wait for its request, a shadow task never does.
MixedGrace == [t \in Tasks |-> IF t = close THEN 1 ELSE 0]
\* Longer than all attempts together: the code has 120 s against 8 attempts of 5 s.
LongGrace == [t \in Tasks |-> 4]

=============================================================================
