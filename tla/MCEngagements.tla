---------------------------- MODULE MCEngagements ----------------------------
(* Small instances of Engagements for TLC. *)
EXTENDS Engagements, TLC

CONSTANTS c1, c2
\* The pass may take a tick, the two people's calls end in the one they began in; or any may take one.
SlowPass == [w \in Actors |-> IF w = Runner THEN 1 ELSE 0]
AllSlow == [w \in Actors |-> 1]
Symmetry == Permutations(Callers)
=============================================================================
