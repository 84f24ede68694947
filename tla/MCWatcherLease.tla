---------------------------- MODULE MCWatcherLease ----------------------------
(* A small instance of WatcherLease for TLC. *)
EXTENDS WatcherLease

CONSTANTS p1, p2, p3

\* A job that acts on events too has two processes, one that acts from its ticks only has three.
Fleet == [events \in BOOLEAN |-> IF events THEN {p1, p2} ELSE Processes]
=============================================================================
