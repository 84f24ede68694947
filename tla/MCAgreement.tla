---------------------------- MODULE MCAgreement -----------------------------
(***************************************************************************)
(* Terms, in units of a scaled-down clock, for model-checking Agreement.   *)
(* A whole is four basis points; an amount of 13 with a fee of two basis   *)
(* points rounds at every tranche and at every share.  The cancellation    *)
(* fee is larger than the first of three parts, as a fifth of the amount   *)
(* is larger than the first of twelve.                                     *)
(***************************************************************************)
EXTENDS Agreement

Plain == [amount |-> 13, feeBps |-> 2, arbiter |-> TRUE, trancheBps |-> <<4>>,
          acceptBy |-> 1, deliveryDeadline |-> 2, reclaimGrace |-> 0,
          reviewWindow |-> 1, startLongstop |-> 0, extensionSecs |-> 0, maxExtensions |-> 0,
          silentLongstop |-> 1, reviewStarts |-> "delivery", finalByBuyer |-> FALSE, deposit |-> FALSE,
          partialBps |-> 2, fallbackBps |-> 1, parts |-> 0, partEvery |-> 0, cancelFeeBps |-> 0,
          sellerStake |-> 0]

\* Two milestones, the review starts on arrival and may be extended, the last needs the buyer.
Goods == [Plain EXCEPT !.trancheBps = <<1, 3>>, !.reviewStarts = "arrival", !.startLongstop = 1,
                       !.extensionSecs = 1, !.maxExtensions = 1, !.silentLongstop = 3,
                       !.reclaimGrace = 1, !.finalByBuyer = TRUE]

\* Two checked milestones.
Checked == [Plain EXCEPT !.trancheBps = <<2, 2>>, !.reviewStarts = "check", !.startLongstop = 1,
                         !.silentLongstop = 3]

\* An instalment plan of three parts, with a cancellation fee.
Plan == [Plain EXCEPT !.parts = 3, !.partEvery = 1, !.cancelFeeBps = 3, !.deliveryDeadline = 3]

\* A refundable deposit.
Deposit == [Plain EXCEPT !.deposit = TRUE]

\* Two milestones, no stake; the arbiter may propose a half.
Milestones == [Plain EXCEPT !.trancheBps = <<1, 3>>]

\* The same with the seller's stake behind them.
Staked == [Milestones EXCEPT !.sellerStake = 9]

\* One staked tranche; no arbiter, so the reviewer judges from the start.
NoArbiter == [Plain EXCEPT !.sellerStake = 9, !.arbiter = FALSE]

DeliveryTerms == {Plain, Goods, Checked, Plan, Deposit}
DeliveryMoves(t) == {"pay", "extend", "check", "hold", "longstop"}

\* Each kind of deal is disputed with the moves that matter to it.
DisputeTerms == {Milestones, Staked, NoArbiter}

DisputeMoves(t) ==
    {"dispute"} \cup IF t.sellerStake = 0 THEN {"split"}
                     ELSE IF t.arbiter THEN {"hold", "longstop"}
                     ELSE {"revoke", "list", "request"}

=============================================================================
