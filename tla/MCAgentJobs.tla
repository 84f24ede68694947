---------------------------- MODULE MCAgentJobs ----------------------------
(* A small instance of AgentJobs for TLC. *)
EXTENDS AgentJobs, TLC

CONSTANTS w1, w2, t1
Symmetry == Permutations(Workers)
=============================================================================
