------------------------------ MODULE JobEscrow ------------------------------
(***************************************************************************)
(* One job of KarwanJobEscrow (JobLib, JobDisputeLib): the client creates  *)
(* and funds it, the provider submits, the evaluator completes or rejects. *)
(* Silence pays, a rejection waits for the provider's dispute, submitted    *)
(* work never expires into a refund.  The account behind it is Settlement, *)
(* with its long-stop, the dispute clock Agreement's.                      *)
(***************************************************************************)
EXTENDS Integers

CONSTANTS
    BPS,
    FeeBps,                                         \* the job's rate, fixed when it is funded
    Budgets,                                        \* amounts in question
    Rulings,                                        \* shares a dispute may end with
    ExpiredAt, ReviewWindow, RejectWindow,
    HoldStep                                        \* how long a hold lasts

ASSUME JobAssumption ==
    /\ BPS \in Nat \ {0} /\ FeeBps \in 0..BPS /\ Budgets \subseteq Nat \ {0}
    /\ Rulings \subseteq 0..BPS
    /\ ExpiredAt \in Nat \ {0, 1}
    /\ \A w \in {ReviewWindow, RejectWindow, HoldStep} : w \in Nat \ {0}

VARIABLES
    now,
    status, budget, submittedAt, rejectedAt,        \* the job; a time that is 0 has not come
    disputed,                                       \* whether its rejection is in dispute
    balance,                                        \* its account
    holdUntil

jobVars == <<status, budget, submittedAt, rejectedAt, disputed, balance, holdUntil>>

Ended == status \in {"Completed", "Rejected", "Expired"}
Held == holdUntil > now
Fee(gross) == (gross * FeeBps) \div BPS
\* What the client brings: the budget and half the fee on it.
HalfFee(gross) == Fee(gross) \div 2
ReviewEnds == submittedAt + ReviewWindow
DisputeBy == rejectedAt + RejectWindow

-----------------------------------------------------------------------------
(***************************************************************************)
(* Opening, work and endings.                                              *)
(***************************************************************************)
Create ==
    /\ status = "none" /\ status' = "Open"
    /\ UNCHANGED <<now, budget, submittedAt, rejectedAt, disputed, balance, holdUntil>>

SetBudget(b) ==
    /\ status = "Open" /\ budget' = b
    /\ UNCHANGED <<now, status, submittedAt, rejectedAt, disputed, balance, holdUntil>>

Fund ==
    /\ status = "Open" /\ budget # 0 /\ now < ExpiredAt
    /\ status' = "Funded" /\ balance' = budget + HalfFee(budget)
    /\ UNCHANGED <<now, budget, submittedAt, rejectedAt, disputed, holdUntil>>

\* Slip: the odd unit of the fee is left with the client's half.
SlipToProvider(gross) == gross - HalfFee(gross)
\* The provider bears its half of the fee, rounded up.
ToProvider(gross) == gross - (Fee(gross) - HalfFee(gross))

\* _settle: the provider's part of the budget, the fee on it, the rest back to the client.
Settle(gross, st) ==
    /\ status' = st /\ disputed' = FALSE /\ balance' = 0
    /\ ToProvider(gross) + Fee(gross) <= balance
    /\ UNCHANGED <<now, budget, submittedAt, rejectedAt, holdUntil>>

SubmitReady == status = "Funded" /\ now < ExpiredAt
Submit ==
    /\ SubmitReady
    /\ status' = "Submitted" /\ submittedAt' = now
    /\ UNCHANGED <<now, budget, rejectedAt, disputed, balance, holdUntil>>

CompleteReady == status = "Submitted"
Complete == CompleteReady /\ Settle(budget, "Completed")

ReleaseReady == status = "Submitted" /\ rejectedAt = 0 /\ now >= ReviewEnds /\ ~Held
Release == ReleaseReady /\ Settle(budget, "Completed")

\* reject, of submitted work.
RejectReady == status = "Submitted" /\ rejectedAt = 0 /\ now < ReviewEnds
Reject ==
    /\ RejectReady
    /\ rejectedAt' = now
    /\ UNCHANGED <<now, status, budget, submittedAt, disputed, balance, holdUntil>>

\* reject, by the client of an open job or the evaluator of a funded one.
RejectEarly ==
    \/ /\ status = "Open" /\ status' = "Rejected"
       /\ UNCHANGED <<now, budget, submittedAt, rejectedAt, disputed, balance, holdUntil>>
    \/ status = "Funded" /\ Settle(0, "Rejected")

ConfirmReady == status = "Submitted" /\ rejectedAt # 0 /\ ~disputed /\ now >= DisputeBy /\ ~Held
ConfirmRejection == ConfirmReady /\ Settle(0, "Rejected")

ClaimRefund == status = "Funded" /\ now >= ExpiredAt /\ ~Held /\ Settle(0, "Expired")

-----------------------------------------------------------------------------
(***************************************************************************)
(* Disputes and holds.                                                     *)
(***************************************************************************)
DisputeReady == status = "Submitted" /\ rejectedAt # 0 /\ ~disputed /\ now < DisputeBy
DisputeRejection ==
    /\ DisputeReady
    /\ disputed' = TRUE
    /\ UNCHANGED <<now, status, budget, submittedAt, rejectedAt, balance, holdUntil>>

\* executeRuling, rule and applyFallback: the shared dispute clock decides which of them comes, and when.
Rule(bps) ==
    /\ disputed
    /\ Settle((budget * bps) \div BPS, IF bps = 0 THEN "Rejected" ELSE "Completed")

\* bound: one hold; a guardian has a budget of them.
Hold ==
    /\ balance # 0 /\ holdUntil = 0
    /\ holdUntil' = now + HoldStep
    /\ UNCHANGED <<now, status, budget, submittedAt, rejectedAt, disputed, balance>>

JobInit ==
    /\ now = 1
    /\ status = "none" /\ budget = 0 /\ submittedAt = 0 /\ rejectedAt = 0
    /\ disputed = FALSE /\ balance = 0 /\ holdUntil = 0

\* What the client, the officers and anyone who may do without the backend.
Others ==
    \/ Create \/ \E b \in Budgets : SetBudget(b)
    \/ Fund \/ RejectEarly \/ Release \/ ConfirmRejection \/ ClaimRefund
    \/ \E bps \in Rulings : Rule(bps)
    \/ Hold

JobTypeOK ==
    /\ now \in Nat \ {0}
    /\ status \in {"none", "Open", "Funded", "Submitted", "Completed", "Rejected", "Expired"}
    /\ budget \in Budgets \cup {0} /\ submittedAt \in Nat /\ rejectedAt \in Nat
    /\ disputed \in BOOLEAN /\ balance \in Nat /\ holdUntil \in Nat
=============================================================================
