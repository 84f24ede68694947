---------------------------- MODULE MCSettlement ----------------------------
(* Small instances of Settlement for TLC: the buyer starts with the money. *)
EXTENDS Settlement, TLC

CONSTANTS buyer, seller, backer, feeSafe, d1, d2

PurseOf(amount) == [u \in Users |-> IF u = buyer THEN amount ELSE 0]
Purse1 == PurseOf(1)
Purse2 == PurseOf(2)

\* Deals are interchangeable, and nothing checked under symmetry is a liveness property.
Symmetry == Permutations(Deals)
=============================================================================
