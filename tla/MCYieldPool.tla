----------------------------- MODULE MCYieldPool -----------------------------
(* A small instance of YieldPool for TLC: a Teller with a spread, at two prices or silent. *)
EXTENDS YieldPool, TLC

CONSTANTS f1, f2

QuotePoints == {[bid |-> 2, ask |-> 2, answers |-> TRUE], [bid |-> 3, ask |-> 3, answers |-> TRUE],
                [bid |-> 3, ask |-> 4, answers |-> TRUE], [bid |-> 3, ask |-> 3, answers |-> FALSE]}
SettingPoints == {[bufferBps |-> 1, bufferFloor |-> 1, cushionBps |-> 1],
                  [bufferBps |-> 0, bufferFloor |-> 0, cushionBps |-> 1]}
Symmetry == Permutations(Families)
=============================================================================
