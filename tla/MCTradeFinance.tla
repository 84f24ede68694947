--------------------------- MODULE MCTradeFinance ---------------------------
(* A small instance of TradeFinance for TLC: one staker, two lines on one deal. *)
EXTENDS TradeFinance, TLC

CONSTANTS seller, financier, person, l1, l2, r1

Persons == [u \in Users |-> IF u = seller THEN person ELSE None]
Sellers == [d \in Deals |-> seller]
LinePair == (l1 :> [deal |-> CHOOSE d \in Deals : TRUE, financier |-> financier,
                    advance |-> 1, repay |-> 1, stake |-> 1])
         @@ (l2 :> [deal |-> CHOOSE d \in Deals : TRUE, financier |-> financier,
                    advance |-> 1, repay |-> 1, stake |-> 2])
=============================================================================
