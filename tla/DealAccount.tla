---------------------------- MODULE DealAccount ----------------------------
(***************************************************************************)
(* What the settlement base promises about one deal, whatever the family   *)
(* on top of it does (the table "settlement base guarantee" of             *)
(* docs/architecture/11-contracts.md, S2 and S5 of its invariants): money  *)
(* enters only while the deal is live; what leaves is never more than what *)
(* entered; the fee stays within the rate fixed at opening; a deal closes  *)
(* only with nothing left in it, and then nothing about it changes again.  *)
(* Settlement implements this for every deal, Agreement for its own.       *)
(***************************************************************************)
EXTENDS Integers

CONSTANT BPS

VARIABLES
    phase,    \* "None", "Live" or "Closed"
    rate,     \* the fee rate fixed at opening
    entered,  \* everything the payer put in
    left,     \* everything paid to the parties and their assignees
    fee       \* everything paid to the fee recipient

accountVars == <<phase, rate, entered, left, fee>>

FeeLimit(x) == (x * rate) \div BPS

Init == phase = "None" /\ entered = 0 /\ left = 0 /\ fee = 0

\* A deal opens, and may take money in the same transaction.
Opens ==
    /\ phase = "None" /\ phase' = "Live"
    /\ entered' >= 0 /\ left' = 0 /\ fee' = 0

TakesMoney ==
    /\ phase = "Live" /\ entered' > entered
    /\ UNCHANGED <<phase, rate, left, fee>>

\* One transaction may pay several parties and the fee, and close the deal.
PaysOut ==
    /\ phase = "Live"
    /\ left' >= left /\ fee' >= fee
    /\ left' + fee' <= entered /\ fee' <= FeeLimit(entered)
    /\ \/ phase' = "Live"
       \/ phase' = "Closed" /\ left' + fee' = entered
    /\ UNCHANGED <<rate, entered>>

Next == Opens \/ TakesMoney \/ PaysOut

Spec == Init /\ [][Next]_accountVars

=============================================================================
