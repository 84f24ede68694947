----------------------------- MODULE Agreement ------------------------------
(***************************************************************************)
(* One deal of the Agreement family (KarwanAgreementEscrow over            *)
(* AgreementLib, AgreementDeliveryLib, AgreementDisputeLib and the shared  *)
(* DisputeLib): a buyer funds the full terms, the seller accepts and       *)
(* delivers tranche by tranche, and every clock, dispute and payout        *)
(* follows the terms.  The seller's stake reservation is the one           *)
(* KarwanStakeVault keeps for this deal.                                   *)
(*                                                                         *)
(* Deals of a family touch each other only through the settlement's totals *)
(* and caps, which module Settlement models; here a payout is what the     *)
(* buyer, the seller (or the assignee the seller signed it over to) and    *)
(* the fee have been paid or are owed.  Each action is one transaction.    *)
(***************************************************************************)
EXTENDS Integers, Sequences, FiniteSets, Functions

CONSTANTS
    BPS,              \* basis points in a whole: 10,000 in the code
    MaxFeeBps,        \* MAX_FEE_BPS: 1,000
    MaxTranches,      \* MAX_TRANCHES and MAX_PARTS: 12
    MaxExtensions,    \* MAX_EXTENSIONS: 3
    MaxRequests,      \* MAX_EXTENSION_REQUESTS: 3
    MaxCancelFee,     \* MAX_CANCEL_FEE_BPS
    MinReview, MaxReview, FamilyHorizon,            \* the escrow's own bounds
    HighValue,        \* hub's high-value threshold, 0 for none
    ProposalWindow, AppealWindow, RulingPeriod,     \* DisputeLib's windows
    Longstop, MaxHorizon, HoldStep, HoldCap,        \* SettlementLib's clocks
    StakeSlack,       \* STAKE_SLACK
    MaxTerm,          \* the vault's MAX_TERM
    Offered,          \* bound: the terms buyers may fund
    Shares,           \* bound: the seller's shares splits and rulings name
    Deadlines,        \* bound: the deadlines parties move to
    Moves(_),         \* bound: the optional moves considered for a deal on these terms, of AllMoves
    MaxRevision,      \* bound: the most deliveries marked
    LastMove,         \* bound: the last time the two sides and the officers act
    LastLate,         \* bound: the last time at which what anyone may trigger is left waiting
    MaxTime           \* bound: the last block time considered

\* AgreementTerms, as the escrow's types bound them, with the fee rate the settlement base accepts.
Terms == [amount : Nat, feeBps : 0..MaxFeeBps, arbiter : BOOLEAN, trancheBps : Seq(Nat),
          acceptBy : Nat, deliveryDeadline : Nat, reclaimGrace : Nat,
          reviewWindow : Nat, startLongstop : Nat, extensionSecs : Nat, maxExtensions : Nat,
          silentLongstop : Nat, reviewStarts : {"delivery", "arrival", "check"},
          finalByBuyer : BOOLEAN, deposit : BOOLEAN,
          partialBps : 0..BPS, fallbackBps : Nat, parts : Nat, partEvery : Nat, cancelFeeBps : Nat,
          sellerStake : Nat]

AllMoves == {"pay", "extend", "request", "split", "dispute", "check", "hold", "revoke", "list", "longstop"}

ASSUME AgreementAssumption ==
    /\ BPS \in Nat \ {0} /\ {MaxTranches, MaxExtensions, MaxRequests} \subseteq Nat
    /\ MaxFeeBps \in 0..(BPS - 1) /\ MaxCancelFee \in 0..BPS
    /\ MinReview \in Nat \ {0} /\ MaxReview > MinReview /\ MaxReview \in Nat
    /\ FamilyHorizon \in 1..MaxHorizon /\ HighValue \in Nat
    /\ {ProposalWindow, AppealWindow, RulingPeriod, Longstop, MaxHorizon} \subseteq Nat \ {0}
    /\ ProposalWindow + AppealWindow + RulingPeriod <= MaxHorizon /\ AppealWindow <= Longstop
    /\ HoldStep \in 1..HoldCap /\ HoldCap \in Nat /\ HoldCap <= Longstop
    /\ StakeSlack \in Nat /\ MaxTerm \in Nat /\ MaxHorizon + Longstop + StakeSlack <= MaxTerm
    /\ Shares \subseteq 0..BPS /\ Deadlines \subseteq Nat
    /\ Offered \subseteq Terms
    /\ \A t \in Offered : Moves(t) \subseteq AllMoves
    /\ {MaxRevision, LastMove, LastLate, MaxTime} \subseteq Nat

VARIABLES
    now,           \* block.timestamp
    hub,           \* the hub's answers a running deal still reads
    terms,         \* AgreementTerms, with what the deal copied from the hub at opening
    state,         \* AgreementState
    fundedAt, partsPaid,         \* the instalment plan
    paid, released, feeReleased, \* tranches paid, and how much of the price and the fee they were
    delivery,      \* the current tranche's delivery: its clocks and check, or NoDelivery
    revision,      \* deliveries marked so far
    deadline, requests, requested,        \* the delivery deadline and the seller's requests to move it
    dispute,       \* the open dispute, or NoDispute
    offer,         \* the standing split offer, or NoOffer
    funded, balance, promised, feePaid,   \* the deal's settlement account
    got,           \* what the buyer and the seller's side were paid
    horizon, holdUntil, holdUsed,         \* the account's clocks
    stake,         \* the vault's reservation for this deal
    verdicts,      \* check results the checkers have signed; anyone may submit one, at any time
    reported       \* the verifier's revisions that already have a result

dealVars     == <<terms, state, fundedAt, partsPaid>>
trancheVars  == <<paid, released, feeReleased>>
deliveryVars == <<delivery, revision>>
dueVars      == <<deadline, requests, requested>>
talkVars     == <<dispute, offer>>
moneyVars    == <<funded, balance, promised, feePaid, got>>
holdVars     == <<holdUntil, holdUsed>>
checkVars    == <<verdicts, reported>>
vars == <<now, hub, dealVars, trancheVars, deliveryVars, dueVars, talkVars, moneyVars,
          horizon, holdVars, stake, checkVars>>

Running == {"Accepted", "Disputed"}
Ended == {"Settled", "Refunded", "Reclaimed", "Split", "Ruled", "Longstopped"}

NoDelivery == [at |-> 0, start |-> 0, end |-> 0, ext |-> 0, holdBase |-> 0, passed |-> FALSE, failed |-> FALSE]
NoDispute == [openedAt |-> 0, opener |-> "none", proposedAt |-> 0, bps |-> 0, escalatedAt |-> 0]
NoOffer == [proposer |-> "none", bps |-> 0, paid |-> 0]
NoStake == [active |-> FALSE, amount |-> 0, expires |-> 0, slashed |-> 0]

AtMost(x, y) == IF x < y THEN x ELSE y
AtLeast(x, y) == IF x > y THEN x ELSE y
ShareOf(amount, bps) == (amount * bps) \div BPS
Sum(s) == FoldFunction(LAMBDA x, y : x + y, 0, s)

-----------------------------------------------------------------------------
(***************************************************************************)
(* The terms.  Times in an offer count from the funding; Fund makes them   *)
(* absolute.                                                               *)
(***************************************************************************)
FeeOf(t) == ShareOf(t.amount, t.feeBps)
BuyerFee(t) == FeeOf(t) \div 2
SellerNet(t) == t.amount - (FeeOf(t) - BuyerFee(t))
Price(t) == t.amount + BuyerFee(t)

\* _checkParts
PlanValid(t, deadlineIn) ==
    \/ t.parts = 0 /\ t.partEvery = 0 /\ t.cancelFeeBps = 0
    \/ /\ t.parts \in 2..MaxTranches /\ t.partEvery > 0 /\ ~t.deposit /\ t.cancelFeeBps <= MaxCancelFee
       /\ deadlineIn > (t.parts - 1) * t.partEvery + t.reclaimGrace

\* validate, with what open checks of the horizon
Valid(t) ==
    /\ Len(t.trancheBps) \in 1..MaxTranches /\ Sum(t.trancheBps) = BPS
    /\ \A i \in DOMAIN t.trancheBps : t.trancheBps[i] > 0
    /\ t.amount > 0 /\ t.sellerStake <= t.amount
    /\ t.acceptBy \in 1..FamilyHorizon
    /\ t.reviewWindow \in MinReview..MaxReview
    /\ t.maxExtensions <= MaxExtensions
    /\ t.reviewStarts # "delivery" => t.startLongstop \in 1..FamilyHorizon
    /\ t.extensionSecs <= t.reviewWindow /\ t.reclaimGrace <= MaxReview
    /\ t.silentLongstop >= t.startLongstop + t.reviewWindow + t.maxExtensions * t.extensionSecs
    /\ t.silentLongstop <= FamilyHorizon
    /\ t.deliveryDeadline > t.acceptBy /\ t.deliveryDeadline <= FamilyHorizon
    /\ t.partialBps < BPS /\ t.fallbackBps <= BPS
    /\ PlanValid(t, t.deliveryDeadline)
    /\ HighValue # 0 /\ t.amount >= HighValue => t.finalByBuyer /\ t.reviewStarts = "check"
    /\ t.deliveryDeadline + t.reclaimGrace + t.startLongstop + t.silentLongstop <= MaxHorizon

Absolute(t) == [t EXCEPT !.acceptBy = @ + now, !.deliveryDeadline = @ + now]

\* Everything the deal's clocks need after the deadline: the tail _horizonOf adds to it.
ClockTail(t) == t.reclaimGrace + t.startLongstop + t.silentLongstop

Count == Len(terms.trancheBps)
PlanPaid == partsPaid >= terms.parts
IsFamily == ~hub.revoked
TakesPromised == IsFamily /\ hub.listed

\* _partOverdue
PartOverdue == ~PlanPaid /\ now > fundedAt + partsPaid * terms.partEvery + terms.reclaimGrace

-----------------------------------------------------------------------------
(***************************************************************************)
(* Steps several handlers share.  Each gives the new value of one part.    *)
(***************************************************************************)

\* bumpHorizon over extendHorizon: later, never earlier, at most MaxHorizon ahead.
Bumped(h) == IF h <= now THEN horizon ELSE AtLeast(horizon, AtMost(h, now + MaxHorizon))

StakeExpiry(h) == h + Longstop + StakeSlack

\* keepStake, with the vault's extend: refused once expired or beyond MaxTerm.
KeptStake(st, h) ==
    IF /\ terms.sellerStake # 0 /\ st.active /\ StakeExpiry(h) > st.expires
       /\ now <= st.expires /\ StakeExpiry(h) <= now + MaxTerm
    THEN [st EXCEPT !.expires = StakeExpiry(h)]
    ELSE st

\* releaseStake, with the vault's release: nothing reserved is a no-op.
FreedStake(st) == [st EXCEPT !.active = FALSE, !.amount = 0]

\* slashStake, with the vault's slash: only for a registered family, before the expiry.
SlashedStake(st, amount) ==
    LET cut == AtMost(amount, st.amount)
    IN  IF IsFamily /\ st.active /\ now <= st.expires
        THEN [st EXCEPT !.amount = @ - cut, !.slashed = @ + cut, !.active = st.amount # cut]
        ELSE st

\* What payTo and payFee ask of the account.  Amounts are unsigned: a subtraction that goes below
\* zero reverts.
CanPay(toSeller, fee, toBuyer) ==
    /\ {toSeller, fee, toBuyer} \subseteq Nat
    /\ toSeller + fee + toBuyer <= balance
    /\ fee <= ShareOf(funded, terms.feeBps) - feePaid

\* As payTo and payFee, but the fee never leaves the deal's books.
SlipPays(toSeller, fee, toBuyer) ==
    /\ CanPay(toSeller, fee, toBuyer)
    /\ balance' = balance - (toSeller + toBuyer)
    /\ feePaid' = feePaid + fee
    /\ got' = [buyer |-> got.buyer + toBuyer, seller |-> got.seller + toSeller]
    /\ UNCHANGED funded

\* Money leaves the account: the settlement's payTo and payFee.
Pays(toSeller, fee, toBuyer) ==
    /\ CanPay(toSeller, fee, toBuyer)
    /\ balance' = balance - (toSeller + fee + toBuyer)
    /\ feePaid' = feePaid + fee
    /\ got' = [buyer |-> got.buyer + toBuyer, seller |-> got.seller + toSeller]
    /\ UNCHANGED funded

\* What a payment that ends the deal asks as well: an account closes only empty.
CanPayOut(toSeller, fee, toBuyer) ==
    CanPay(toSeller, fee, toBuyer) /\ toSeller + fee + toBuyer = balance

\* The deal ends: its account closes, empty, and its stake is freed.
Ends(ending, st) ==
    /\ state' = ending
    /\ balance' = 0 /\ promised' = 0
    /\ stake' = FreedStake(st)

\* nextTranche: what the current tranche is worth to the seller and in fee.
LastTranche == paid + 1 = Count
TrancheNet == IF LastTranche THEN SellerNet(terms) - released
                             ELSE ShareOf(SellerNet(terms), terms.trancheBps[paid + 1])
\* As nextTranche, but the last tranche's fee is its share, not what is left.
SlipTrancheFee == ShareOf(FeeOf(terms), terms.trancheBps[paid + 1])
TrancheFee == IF LastTranche THEN FeeOf(terms) - feeReleased
                             ELSE ShareOf(FeeOf(terms), terms.trancheBps[paid + 1])
\* As nextTranche, but the books do not record what the tranche was worth.
SlipNextTranche ==
    /\ paid < Count
    /\ paid' = paid + 1
    /\ feeReleased' = feeReleased + TrancheFee
    /\ delivery' = NoDelivery
    /\ UNCHANGED released
NextTranche ==
    /\ paid < Count
    /\ paid' = paid + 1
    /\ released' = released + TrancheNet
    /\ feeReleased' = feeReleased + TrancheFee
    /\ delivery' = NoDelivery

\* endDispute: the deadline moves by the time the dispute held it.
DeadlineAfterDispute == deadline + (now - dispute.openedAt)
\* As endDispute, but the long-stop's horizon does not follow the deadline.
SlipHorizonAfterDispute == horizon
HorizonAfterDispute == Bumped(DeadlineAfterDispute + ClockTail(terms))

HoldSince == holdUsed - delivery.holdBase
Held == holdUntil > now
Delivered == delivery.at # 0

-----------------------------------------------------------------------------
(***************************************************************************)
(* The clocks.                                                             *)
(***************************************************************************)

\* _start: a review started after its start longstop counts from the longstop.
Started(v) ==
    LET at == AtMost(now, v.at + terms.startLongstop)
    IN  [v EXCEPT !.start = at, !.end = at + terms.reviewWindow]

\* reviewEnd
ReviewEnd ==
    IF delivery.start # 0
    THEN delivery.end + HoldSince
    ELSE delivery.at + terms.startLongstop + terms.reviewWindow + HoldSince

Silent == now >= delivery.at + terms.silentLongstop + HoldSince

\* claimBar = 0: the seller can take the delivered tranche on the clock.
ClaimOpen ==
    /\ state = "Accepted" /\ Delivered
    /\ ~terms.deposit /\ ~delivery.failed
    /\ now >= ReviewEnd
    /\ terms.reviewStarts = "check" /\ ~delivery.passed => Silent
    /\ LastTranche /\ terms.finalByBuyer => Silent

\* reclaimBar = 0: the buyer can take the rest back.
ReclaimOpen ==
    /\ state = "Accepted" /\ PlanPaid
    /\ now > deadline + terms.reclaimGrace
    /\ \/ terms.deposit \/ ~Delivered
       \/ terms.reviewStarts = "check" /\ delivery.failed /\ ~delivery.passed

-----------------------------------------------------------------------------
(***************************************************************************)
(* Funding, acceptance and instalments.                                    *)
(***************************************************************************)

\* fund: opens the account, promises the rest of a plan, takes the first money in.
Fund(t) ==
    /\ state = "None" /\ Valid(t)
    /\ LET first == IF t.parts = 0 THEN Price(t) ELSE Price(t) \div t.parts
       IN  /\ first > 0
           /\ funded' = first /\ balance' = first /\ promised' = Price(t) - first
    /\ terms' = Absolute(t) /\ state' = "Funded" /\ fundedAt' = now
    /\ partsPaid' = IF t.parts = 0 THEN 0 ELSE 1
    /\ deadline' = now + t.deliveryDeadline
    /\ horizon' = now + t.deliveryDeadline + ClockTail(t)
    /\ UNCHANGED <<now, hub, trancheVars, deliveryVars, requests, requested, talkVars, feePaid, got,
                   holdVars, stake, checkVars>>

\* _moveForLatePlan: a last part paid late moves the deadline by its lateness.
Lateness ==
    LET lastDue == fundedAt + (terms.parts - 1) * terms.partEvery
    IN  IF partsPaid + 1 = terms.parts THEN AtLeast(0, now - lastDue) ELSE 0

PayPart ==
    /\ state \in {"Funded", "Accepted"} /\ ~PlanPaid /\ TakesPromised
    /\ LET amount == IF partsPaid + 1 = terms.parts THEN promised ELSE Price(terms) \div terms.parts
       IN  /\ amount \in 1..promised
           /\ funded' = funded + amount /\ balance' = balance + amount /\ promised' = promised - amount
    /\ partsPaid' = partsPaid + 1
    /\ deadline' = deadline + Lateness
    /\ horizon' = IF Lateness = 0 THEN horizon ELSE Bumped(deadline' + ClockTail(terms))
    /\ stake' = KeptStake(stake, horizon')
    /\ UNCHANGED <<now, hub, terms, state, fundedAt, trancheVars, deliveryVars, requests, requested,
                   talkVars, feePaid, got, holdVars, checkVars>>

\* What the seller keeps of a missed plan: the agreed fee, if they accepted and the buyer could pay.
CancelFee ==
    IF state = "Accepted" /\ TakesPromised
    THEN AtMost(ShareOf(terms.amount, terms.cancelFeeBps), balance)
    ELSE 0

\* cancelMissed: anyone ends a plan whose next part is past due and grace.
CancelMissed ==
    /\ state \in {"Funded", "Accepted"} /\ PartOverdue
    /\ Pays(CancelFee, 0, balance - CancelFee) /\ Ends("Refunded", stake)
    /\ UNCHANGED <<now, hub, terms, fundedAt, partsPaid, trancheVars, deliveryVars, dueVars, talkVars,
                   horizon, holdVars, checkVars>>

\* _accept: the seller, in time, on a plan not already missed.
Accepts ==
    /\ state = "Funded" /\ now <= terms.acceptBy /\ ~PartOverdue
    /\ state' = "Accepted"
    /\ UNCHANGED <<now, hub, terms, fundedAt, partsPaid, trancheVars, deliveryVars, dueVars, talkVars,
                   moneyVars, horizon, holdVars, checkVars>>

Accept == terms.sellerStake = 0 /\ Accepts /\ UNCHANGED stake

\* acceptWithStake: the vault reserves the stake until past the long-stop.
AcceptWithStake ==
    /\ terms.sellerStake # 0 /\ Accepts
    /\ IsFamily /\ StakeExpiry(horizon) <= now + MaxTerm
    /\ stake' = [NoStake EXCEPT !.active = TRUE, !.amount = terms.sellerStake,
                                !.expires = StakeExpiry(horizon)]

\* keepStake on the escrow: anyone retries what the vault refused.
KeepStake ==
    /\ terms.sellerStake # 0 /\ state \in Running
    /\ stake' = KeptStake(stake, horizon)
    /\ UNCHANGED <<now, hub, dealVars, trancheVars, deliveryVars, dueVars, talkVars, moneyVars,
                   horizon, holdVars, checkVars>>

CancelUnaccepted ==
    /\ state = "Funded"
    /\ Pays(0, 0, balance) /\ Ends("Refunded", stake)
    /\ UNCHANGED <<now, hub, terms, fundedAt, partsPaid, trancheVars, deliveryVars, dueVars, talkVars,
                   horizon, holdVars, checkVars>>

-----------------------------------------------------------------------------
(***************************************************************************)
(* Delivery and review.                                                    *)
(***************************************************************************)

\* What a delivery sets: its clock, and the horizon and the stake that must outlast it.
NewDelivery ==
    /\ LET fresh == [NoDelivery EXCEPT !.at = now, !.holdBase = holdUsed]
       IN  delivery' = IF terms.reviewStarts = "delivery" THEN Started(fresh) ELSE fresh
    /\ horizon' = Bumped(now + terms.startLongstop + terms.silentLongstop + HoldCap)
    /\ stake' = KeptStake(stake, horizon')
    /\ UNCHANGED <<now, hub, dealVars, trancheVars, dueVars, talkVars, moneyVars, holdVars, checkVars>>

\* As mark, but every delivery is the same revision.
SlipMarkSameRevision ==
    /\ state = "Accepted" /\ PlanPaid /\ now <= deadline + terms.reclaimGrace
    /\ revision' = 1
    /\ NewDelivery

\* markDelivered over mark: a new revision, with a new review clock.
MarkDelivered ==
    /\ state = "Accepted" /\ PlanPaid /\ now <= deadline + terms.reclaimGrace
    /\ revision' = revision + 1
    /\ NewDelivery

Reviews(v) ==
    /\ delivery' = v
    /\ UNCHANGED <<now, hub, dealVars, trancheVars, revision, dueVars, talkVars, moneyVars,
                   horizon, holdVars, stake>>

\* startReview over buyerStart: confirming arrival, or waiving the check.
StartReview ==
    /\ state = "Accepted" /\ Delivered /\ delivery.start = 0 /\ terms.reviewStarts # "delivery"
    /\ LET waived == terms.reviewStarts = "check"
       IN  Reviews(Started([delivery EXCEPT !.passed = @ \/ waived, !.failed = @ /\ ~waived]))
    /\ UNCHANGED checkVars

\* The checkers examine the delivery in front of them and sign what they found.
SignVerdict(pass) ==
    /\ terms.reviewStarts = "check" /\ Delivered /\ revision \notin reported
    /\ verdicts' = verdicts \cup {[revision |-> revision, paid |-> paid, pass |-> pass]}
    /\ UNCHANGED <<now, hub, dealVars, trancheVars, deliveryVars, dueVars, talkVars, moneyVars,
                   horizon, holdVars, stake, reported>>

\* attest, a fail: too late once the silence longstop has passed.
Failed(v) == [v EXCEPT !.failed = @ \/ ~v.passed]

\* attest, a pass: it starts the review if nothing has.
Passed(v) ==
    LET w == [v EXCEPT !.passed = TRUE, !.failed = FALSE]
    IN  IF v.start = 0 THEN Started(w) ELSE w

\* report over attestCheck: the first result for the revision on delivery.
AttestCheck(c) ==
    /\ c \in verdicts /\ c.revision \notin reported
    /\ state = "Accepted" /\ Delivered /\ c.revision = revision
    /\ ~c.pass => ~Silent
    /\ Reviews(IF c.pass THEN Passed(delivery) ELSE Failed(delivery))
    /\ reported' = reported \cup {c.revision}
    /\ UNCHANGED verdicts

\* As moreTime, but also after the review has ended.
SlipRequestMoreTime ==
    /\ state = "Accepted" /\ delivery.start # 0 /\ delivery.ext < terms.maxExtensions
    /\ Reviews([delivery EXCEPT !.ext = @ + 1, !.end = @ + terms.extensionSecs])
    /\ UNCHANGED checkVars

\* requestMoreTime over moreTime: only before the review has ended.
RequestMoreTime ==
    /\ state = "Accepted" /\ delivery.start # 0
    /\ now < ReviewEnd /\ delivery.ext < terms.maxExtensions
    /\ Reviews([delivery EXCEPT !.ext = @ + 1, !.end = @ + terms.extensionSecs])
    /\ UNCHANGED checkVars

-----------------------------------------------------------------------------
(***************************************************************************)
(* Payment.                                                                *)
(***************************************************************************)

\* _payTranche, with the stake as the caller leaves it.
PayTranche(st, running) ==
    /\ Pays(TrancheNet, TrancheFee, 0) /\ NextTranche
    /\ IF LastTranche
       THEN Ends("Settled", st)
       ELSE state' = running /\ stake' = st /\ UNCHANGED promised

\* release: the buyer pays the next tranche, ending a dispute on it.
Release ==
    /\ state \in Running /\ PlanPaid
    /\ IF state = "Disputed"
       THEN dispute' = NoDispute /\ deadline' = DeadlineAfterDispute /\ horizon' = HorizonAfterDispute
       ELSE UNCHANGED <<dispute, deadline, horizon>>
    /\ PayTranche(KeptStake(stake, horizon'), "Accepted")
    /\ UNCHANGED <<now, hub, terms, fundedAt, partsPaid, revision, requests, requested, offer,
                   holdVars, checkVars>>

\* releaseBySig: the same release, carried by a signature for tranche k.
ReleaseBySig(k) == k = paid /\ Release

Claim ==
    /\ ~Held /\ ClaimOpen
    /\ PayTranche(stake, "Accepted")
    /\ UNCHANGED <<now, hub, terms, fundedAt, partsPaid, revision, dueVars, talkVars,
                   horizon, holdVars, checkVars>>

Reclaim ==
    /\ ReclaimOpen
    /\ Pays(0, 0, balance) /\ Ends("Reclaimed", stake)
    /\ UNCHANGED <<now, hub, terms, fundedAt, partsPaid, trancheVars, deliveryVars, dueVars, talkVars,
                   horizon, holdVars, checkVars>>

-----------------------------------------------------------------------------
(***************************************************************************)
(* Deadlines and splits.                                                   *)
(***************************************************************************)

\* _moveDeadline
MovesDeadline(to) ==
    /\ state = "Accepted" /\ to > deadline /\ to <= now + FamilyHorizon
    /\ deadline' = to
    /\ horizon' = Bumped(to + ClockTail(terms))
    /\ stake' = KeptStake(stake, horizon')
    /\ UNCHANGED <<now, hub, dealVars, trancheVars, deliveryVars, requests, talkVars, moneyVars,
                   holdVars, checkVars>>

ExtendDeadline(to) == MovesDeadline(to) /\ UNCHANGED requested

RequestExtension(to) ==
    /\ state = "Accepted" /\ to > deadline /\ requests < MaxRequests
    /\ requests' = requests + 1 /\ requested' = to
    /\ UNCHANGED <<now, hub, dealVars, trancheVars, deliveryVars, deadline, talkVars, moneyVars,
                   horizon, holdVars, stake, checkVars>>

ApproveExtension ==
    /\ requested # 0
    /\ MovesDeadline(requested) /\ requested' = 0

\* _running
OpenToSplit == state \in Running /\ PlanPaid

Talks(x, o) ==
    /\ dispute' = x /\ offer' = o
    /\ UNCHANGED <<now, hub, terms, fundedAt, partsPaid, trancheVars, deliveryVars, dueVars, moneyVars,
                   holdVars, checkVars>>

ProposeSplit(who, bps) ==
    /\ OpenToSplit
    /\ Talks(dispute, [proposer |-> who, bps |-> bps, paid |-> paid])
    /\ UNCHANGED <<state, horizon, stake>>

CancelSplit ==
    /\ offer # NoOffer
    /\ Talks(dispute, NoOffer)
    /\ UNCHANGED <<state, horizon, stake>>

\* How a split and a ruling share out `net` and its `fee`: the fee follows the seller's share, and the
\* buyer gets the rest of both.
BuyersRest(net, fee, bps) == (net - ShareOf(net, bps)) + (fee - ShareOf(fee, bps))

NetLeft == SellerNet(terms) - released
FeeLeft == FeeOf(terms) - feeReleased

\* split: what is left is shared as offered, every tranche is settled, and the deal ends.
Splits ==
    /\ Pays(ShareOf(NetLeft, offer.bps), ShareOf(FeeLeft, offer.bps), BuyersRest(NetLeft, FeeLeft, offer.bps))
    /\ released' = SellerNet(terms) /\ feeReleased' = FeeOf(terms) /\ paid' = Count
    /\ Ends("Split", stake)
    /\ offer' = NoOffer
    /\ UNCHANGED <<now, hub, terms, fundedAt, partsPaid, deliveryVars, dueVars, horizon, holdVars, checkVars>>

\* As acceptSplit, but an open dispute is not dropped.
SlipAcceptSplit(who) ==
    /\ OpenToSplit
    /\ offer # NoOffer /\ offer.paid = paid /\ offer.proposer # who
    /\ Splits /\ UNCHANGED dispute

\* acceptSplit: the other side takes the offer while no further tranche was paid.
AcceptSplit(who) ==
    /\ OpenToSplit
    /\ offer # NoOffer /\ offer.paid = paid /\ offer.proposer # who
    /\ Splits /\ dispute' = NoDispute

-----------------------------------------------------------------------------
(***************************************************************************)
(* Disputes.                                                               *)
(***************************************************************************)
Escalated == dispute.escalatedAt # 0
Proposed == dispute.proposedAt # 0
Longest == ProposalWindow + AppealWindow + RulingPeriod

\* dispute over open: each side while the other cannot yet take the tranche on the clock.
Dispute(who) ==
    /\ state = "Accepted" /\ Delivered
    /\ IF who = "buyer" THEN ~ClaimOpen ELSE ~ReclaimOpen
    /\ state' = "Disputed"
    /\ Talks([NoDispute EXCEPT !.openedAt = now, !.opener = who,
                               !.escalatedAt = IF terms.arbiter THEN 0 ELSE now], offer)
    /\ horizon' = Bumped(now + Longest)
    /\ stake' = KeptStake(stake, horizon')

\* proposeRuling over propose: the arbiter, once, an outcome the terms allow.
ProposeRuling(bps) ==
    /\ state = "Disputed" /\ terms.arbiter /\ ~Escalated /\ ~Proposed
    /\ \/ bps \in {0, BPS}
       \/ terms.partialBps # 0 /\ bps = terms.partialBps
    /\ Talks([dispute EXCEPT !.proposedAt = now, !.bps = bps], offer)
    /\ UNCHANGED <<state, horizon, stake>>

\* As escalate, but only a side may call the reviewer in.
SlipMayEscalate(who) ==
    /\ who \in {"buyer", "seller"}
    /\ \/ Proposed /\ now < dispute.proposedAt + AppealWindow
       \/ ~Proposed /\ now >= dispute.openedAt + ProposalWindow

\* escalate: a side against a proposal in its window, anyone once the arbiter is late, or the arbiter.
MayEscalate(who) ==
    \/ who = "arbiter"
    \/ Proposed /\ who \in {"buyer", "seller"} /\ now < dispute.proposedAt + AppealWindow
    \/ ~Proposed /\ now >= dispute.openedAt + ProposalWindow

\* As escalate, but the stake does not follow the horizon.
SlipEscalate(who) ==
    /\ state = "Disputed" /\ ~Escalated /\ MayEscalate(who)
    /\ Talks([dispute EXCEPT !.escalatedAt = now], offer)
    /\ horizon' = Bumped(now + RulingPeriod)
    /\ UNCHANGED <<state, stake>>

Escalate(who) ==
    /\ state = "Disputed" /\ ~Escalated /\ MayEscalate(who)
    /\ Talks([dispute EXCEPT !.escalatedAt = now], offer)
    /\ horizon' = Bumped(now + RulingPeriod)
    /\ stake' = KeptStake(stake, horizon')
    /\ UNCHANGED state

\* The stake a ruling slashes: the buyer's share of this tranche's share of it.
SlashFor(bps) == (terms.sellerStake * (BPS - bps) * TrancheNet) \div (BPS * SellerNet(terms))

\* What a ruling pays: the seller their share of the tranche, its fee in proportion, the buyer the rest.
PaysRuling(bps) ==
    Pays(ShareOf(TrancheNet, bps), ShareOf(TrancheFee, bps), BuyersRest(TrancheNet, TrancheFee, bps))

\* _ruleTranche: the ruling pays the disputed tranche; later tranches carry on.
RuleTranche(bps) ==
    /\ PaysRuling(bps)
    /\ NextTranche
    /\ dispute' = NoDispute /\ deadline' = DeadlineAfterDispute /\ horizon' = HorizonAfterDispute
    /\ LET st == SlashedStake(stake, SlashFor(bps))
       IN  IF LastTranche
           THEN Ends("Ruled", st)
           ELSE state' = "Accepted" /\ stake' = KeptStake(st, horizon') /\ UNCHANGED promised
    /\ UNCHANGED <<now, hub, terms, fundedAt, partsPaid, revision, requests, requested, offer,
                   holdVars, checkVars>>

\* executeRuling over executeProposal: anyone, a proposal nobody appealed in its window.
ProposalStands == state = "Disputed" /\ ~Escalated /\ Proposed /\ now >= dispute.proposedAt + AppealWindow
ExecuteRuling == ~Held /\ ProposalStands /\ RuleTranche(dispute.bps)

RulingLate == state = "Disputed" /\ Escalated /\ now >= dispute.escalatedAt + RulingPeriod

\* rule: the reviewer, any share, within the ruling period.
Rule(bps) ==
    /\ state = "Disputed" /\ Escalated /\ ~RulingLate
    /\ RuleTranche(bps)

\* applyFallback: anyone, once the reviewer is late.
ApplyFallback == ~Held /\ RulingLate /\ RuleTranche(terms.fallbackBps)

-----------------------------------------------------------------------------
(***************************************************************************)
(* The settlement's own moves on the deal, the hub, the vault and time.    *)
(***************************************************************************)
LongstopOpen == state \in Running \cup {"Funded"} /\ now >= horizon + Longstop

\* longstopSplit with _onLongstop: the senior Safe splits the rest between the two sides.
LongstopSplit(toSeller) ==
    /\ LongstopOpen /\ balance # 0 /\ toSeller <= balance
    /\ Pays(toSeller, 0, balance - toSeller) /\ Ends("Longstopped", stake)
    /\ dispute' = NoDispute
    /\ UNCHANGED <<now, hub, terms, fundedAt, partsPaid, trancheVars, deliveryVars, dueVars, offer,
                   horizon, holdVars, checkVars>>

NextHold == AtMost(HoldStep, HoldCap - holdUsed)

Hold ==
    /\ state \in Running \cup {"Funded"} /\ ~Held /\ NextHold # 0
    /\ holdUsed' = holdUsed + NextHold /\ holdUntil' = now + NextHold
    /\ UNCHANGED <<now, hub, dealVars, trancheVars, deliveryVars, dueVars, talkVars, moneyVars,
                   horizon, stake, checkVars>>

ReleaseHold ==
    /\ holdUntil' = now
    /\ UNCHANGED <<now, hub, dealVars, trancheVars, deliveryVars, dueVars, talkVars, moneyVars,
                   horizon, holdUsed, stake, checkVars>>

SetHub(h) ==
    /\ hub' = h
    /\ UNCHANGED <<now, dealVars, trancheVars, deliveryVars, dueVars, talkVars, moneyVars,
                   horizon, holdVars, stake, checkVars>>
RevokeFamily == SetHub([hub EXCEPT !.revoked = TRUE])
SetAsset(allowed) == SetHub([hub EXCEPT !.listed = allowed])

\* releaseStale on the vault: anyone frees an expired reservation, or a revoked family's.
ReleaseStale ==
    /\ stake.active /\ (now > stake.expires \/ ~IsFamily)
    /\ stake' = FreedStake(stake)
    /\ UNCHANGED <<now, hub, dealVars, trancheVars, deliveryVars, dueVars, talkVars, moneyVars,
                   horizon, holdVars, checkVars>>

Tick ==
    /\ now < MaxTime
    /\ now' = now + 1
    /\ UNCHANGED <<hub, dealVars, trancheVars, deliveryVars, dueVars, talkVars, moneyVars,
                   horizon, holdVars, stake, checkVars>>

-----------------------------------------------------------------------------
NoTerms == [amount |-> 0, feeBps |-> 0, arbiter |-> FALSE, trancheBps |-> <<>>,
            acceptBy |-> 0, deliveryDeadline |-> 0, reclaimGrace |-> 0,
            reviewWindow |-> 0, startLongstop |-> 0, extensionSecs |-> 0, maxExtensions |-> 0,
            silentLongstop |-> 0, reviewStarts |-> "delivery", finalByBuyer |-> FALSE, deposit |-> FALSE,
            partialBps |-> 0, fallbackBps |-> 0, parts |-> 0, partEvery |-> 0, cancelFeeBps |-> 0,
            sellerStake |-> 0]

\* A block's time is never 0, so 0 means "not set", as in the code.
Init ==
    /\ now = 1 /\ hub = [revoked |-> FALSE, listed |-> TRUE]
    /\ terms = NoTerms /\ state = "None" /\ fundedAt = 0 /\ partsPaid = 0
    /\ paid = 0 /\ released = 0 /\ feeReleased = 0
    /\ delivery = NoDelivery /\ revision = 0
    /\ deadline = 0 /\ requests = 0 /\ requested = 0
    /\ dispute = NoDispute /\ offer = NoOffer
    /\ funded = 0 /\ balance = 0 /\ promised = 0 /\ feePaid = 0
    /\ got = [buyer |-> 0, seller |-> 0]
    /\ horizon = 0 /\ holdUntil = 0 /\ holdUsed = 0
    /\ stake = NoStake /\ verdicts = {} /\ reported = {}

Parties == {"buyer", "seller"}
Considers(move) == move \in Moves(terms)

PartyStep ==
    \/ \E t \in Offered : Fund(t)
    \/ Considers("pay") /\ PayPart
    \/ Accept \/ AcceptWithStake \/ CancelUnaccepted
    \/ MarkDelivered /\ revision < MaxRevision
    \/ StartReview \/ RequestMoreTime \/ Release
    \/ Considers("extend") /\ \E to \in Deadlines : ExtendDeadline(to)
    \/ Considers("request") /\ (ApproveExtension \/ \E to \in Deadlines : RequestExtension(to))
    \/ Considers("split") /\ \E who \in Parties, bps \in Shares : ProposeSplit(who, bps)
    \/ Considers("split") /\ (CancelSplit \/ \E who \in Parties : AcceptSplit(who))
    \/ Considers("dispute") /\ \E who \in Parties : Dispute(who)

\* The arbiter, the reviewer, the checkers, the guardian and the senior Safe.
OfficerStep ==
    \/ \E bps \in Shares : ProposeRuling(bps) \/ Rule(bps)
    \/ \E who \in Parties \cup {"arbiter"} : Escalate(who)
    \/ Considers("check") /\ \E pass \in BOOLEAN : SignVerdict(pass)
    \/ Considers("hold") /\ (Hold \/ (Held /\ ReleaseHold))
    \/ Considers("longstop") /\ \E bps \in Shares : LongstopSplit(ShareOf(balance, bps))

\* What anyone may trigger once the terms allow it.
KeeperStep ==
    \/ CancelMissed \/ Claim \/ Reclaim
    \/ Escalate("anyone") \/ ExecuteRuling \/ ApplyFallback

AnyoneStep ==
    \/ KeeperStep \/ KeepStake \/ ReleaseStale
    \/ now <= LastMove /\ \E k \in 0..MaxTranches : ReleaseBySig(k)
    \/ \E c \in verdicts : AttestCheck(c)

GovernanceStep ==
    \/ Considers("revoke") /\ RevokeFamily
    \/ Considers("list") /\ \E allowed \in BOOLEAN : SetAsset(allowed)

\* Something anyone may trigger is waiting for somebody to do so.
KeeperDue ==
    \/ state \in {"Funded", "Accepted"} /\ PartOverdue
    \/ ReclaimOpen
    \/ ~Held /\ (ClaimOpen \/ ProposalStands \/ RulingLate)
    \/ state = "Disputed" /\ ~Escalated /\ ~Proposed /\ now >= dispute.openedAt + ProposalWindow

\* Time counts while a deal runs; keepers are never late after LastLate.
TimeStep == state \in Running \cup {"Funded"} /\ (now < LastLate \/ ~KeeperDue) /\ Tick

Next ==
    \/ now <= LastMove /\ (PartyStep \/ OfficerStep \/ GovernanceStep)
    \/ AnyoneStep \/ TimeStep

Spec == Init /\ [][Next]_vars

\* Time passes, and somebody triggers what anyone may trigger.  Neither side, nor any officer,
\* is expected to do anything.
Fairness == WF_vars(TimeStep) /\ WF_vars(KeeperStep)
FairSpec == Spec /\ Fairness

-----------------------------------------------------------------------------
(***************************************************************************)
(* Properties.                                                             *)
(***************************************************************************)
Delivery == [at : Nat, start : Nat, end : Nat, ext : Nat, holdBase : Nat, passed : BOOLEAN, failed : BOOLEAN]
DisputeRecord == [openedAt : Nat, opener : Parties \cup {"none"}, proposedAt : Nat, bps : 0..BPS, escalatedAt : Nat]
Offer == [proposer : Parties \cup {"none"}, bps : 0..BPS, paid : Nat]
Stake == [active : BOOLEAN, amount : Nat, expires : Nat, slashed : Nat]

\* Every variable has its type; in particular no unsigned subtraction goes below zero.
TypeOK ==
    /\ now \in Nat /\ hub \in [revoked : BOOLEAN, listed : BOOLEAN]
    /\ state \in {"None", "Funded"} \cup Running \cup Ended
    /\ {fundedAt, partsPaid, paid, released, feeReleased, revision} \subseteq Nat
    /\ {deadline, requests, requested, horizon, holdUntil, holdUsed} \subseteq Nat
    /\ {funded, balance, promised, feePaid} \subseteq Nat
    /\ delivery \in Delivery /\ HoldSince \in Nat
    /\ dispute \in DisputeRecord /\ offer \in Offer
    /\ got \in [buyer : Nat, seller : Nat] /\ stake \in Stake
    /\ state \in Running => TrancheNet \in Nat /\ TrancheFee \in Nat

\* I1 and I2 for one deal, the fuzzers' "ended deals hold nothing and open deals hold their
\* books": a deal whose plan is paid holds exactly what it still owes the seller and the fee; an
\* unfinished plan holds all that came in; an ended deal holds nothing and nothing is promised to it.
BooksMatchTerms ==
    /\ state \in Ended => balance = 0 /\ promised = 0
    /\ state \in Running \cup {"Funded"} =>
           IF PlanPaid
           THEN /\ balance = (SellerNet(terms) - released) + (FeeOf(terms) - feeReleased)
                /\ promised = 0
           ELSE balance = funded /\ promised = Price(terms) - funded /\ promised > 0

\* The deal's books, every amount in its range: one disagreement of the fields that say what is left
\* would make the deal's ending revert.
BooksKept == TypeOK /\ BooksMatchTerms

\* What paying the tranche in turn asks: the last one ends the deal.
CanPayTranche(toSeller, fee, toBuyer) ==
    IF LastTranche THEN CanPayOut(toSeller, fee, toBuyer) ELSE CanPay(toSeller, fee, toBuyer)

\* Whatever the rules admit, the settlement can pay: no claim, release, ruling, split, cancellation,
\* refund or long-stop the terms allow is refused by the account's balance, by its fee limit or by an
\* account that would not be empty when it closes; no stake a ruling asks for divides by zero; and a
\* running deal always holds something for the long-stop to split.
NothingJams ==
    /\ ClaimOpen => PlanPaid
    /\ state \in Running /\ PlanPaid =>
           /\ paid < Count /\ terms.fallbackBps <= BPS
           /\ CanPayTranche(TrancheNet, TrancheFee, 0)
           /\ \A bps \in 0..BPS :
                  /\ CanPayTranche(ShareOf(TrancheNet, bps), ShareOf(TrancheFee, bps),
                                   BuyersRest(TrancheNet, TrancheFee, bps))
                  /\ SlashFor(bps) \in 0..terms.sellerStake
                  /\ CanPayOut(ShareOf(NetLeft, bps), ShareOf(FeeLeft, bps), BuyersRest(NetLeft, FeeLeft, bps))
    /\ state \in Running \cup {"Funded"} =>
           /\ balance > 0 /\ CancelFee \in 0..balance
           /\ \A x \in 0..balance : CanPayOut(x, 0, balance - x)

\* The buyer gets the whole review the terms promise, every extension and every held second
\* included, and the silence longstop covers all of it.
ReviewKept ==
    Delivered =>
        /\ delivery.start # 0 =>
              /\ delivery.start >= delivery.at
              /\ delivery.end = delivery.start + terms.reviewWindow + delivery.ext * terms.extensionSecs
        /\ ReviewEnd - HoldSince <= delivery.at + terms.silentLongstop
        /\ ClaimOpen => now >= delivery.at + terms.reviewWindow + HoldSince

\* A claim that has opened stays open: only the seller (a new delivery, a dispute of their own), an
\* agreed payment or ending, or a guardian's hold takes it away; nothing the buyer or the verifier
\* does alone reopens a clock that has run out.
ClaimStaysOpen ==
    [][ClaimOpen => \/ ClaimOpen'
                    \/ state' \in Ended
                    \/ paid' > paid
                    \/ revision' > revision
                    \/ holdUsed' > holdUsed
                    \/ dispute'.opener = "seller"]_vars

\* A refund that has opened stays open, unless the buyer gives more time, pays, or waives the check
\* that failed; a late seller cannot close it, and no hold touches it.
RefundStaysOpen ==
    [][ReclaimOpen => \/ ReclaimOpen'
                      \/ state' \in Ended
                      \/ paid' > paid
                      \/ deadline' > deadline
                      \/ dispute'.opener = "buyer"
                      \/ delivery'.passed /\ Delivered]_vars

\* Neither side's clock, once it has run out, is set back by the other alone, in whichever order the
\* calls of both, the keepers' and the verifier's arrive.
OpenClocksStay == ClaimStaysOpen /\ RefundStaysOpen

\* The time to appeal a proposal nobody escalated has run out.
AppealOver == Proposed => now >= dispute.proposedAt + AppealWindow

\* The long-stop comes last: once the senior Safe may split a deal, the deal's own clocks have run
\* out, whatever holds were used, in whichever order it was extended, delivered and disputed.  Two
\* clocks may still run, for nothing bounds when they start.  A plan's last part paid late moves the
\* deadline by its lateness, while the horizon follows at most MaxHorizon from now: plans are left
\* out of the third clause.  And the arbiter may propose as late as it likes while nobody escalates:
\* the last clause speaks of proposals made within the time a dispute is to take in all.
LongstopComesLast ==
    LongstopOpen =>
        /\ state = "Funded" => now > terms.acceptBy
        /\ state = "Accepted" /\ Delivered => Silent /\ now >= ReviewEnd
        /\ state = "Accepted" /\ ~Delivered /\ terms.parts = 0 => now > deadline + terms.reclaimGrace
        /\ state = "Disputed" /\ Escalated => RulingLate
        /\ state = "Disputed" /\ ~Escalated =>
              /\ now >= dispute.openedAt + ProposalWindow
              /\ dispute.proposedAt <= dispute.openedAt + Longest => AppealOver

\* A deal is disputed exactly while the shared dispute clock runs, about a delivered tranche of a
\* fully paid plan, however the dispute was opened and ended.
DisputeMatchesState ==
    /\ (state = "Disputed") = (dispute # NoDispute)
    /\ state = "Disputed" => Delivered /\ PlanPaid /\ paid < Count

\* The stake follows the deal: while the deal runs, its reservation outlasts the long-stop wherever
\* the horizon has moved, and every ending frees it.  Only a deal left alone until the reservation
\* ran out, 30 days into the long-stop, loses it.
StakeFollowsDeal ==
    /\ state \in Running /\ stake.active /\ now <= stake.expires => stake.expires >= StakeExpiry(horizon)
    /\ state \in Ended => ~stake.active

\* S7: the stake is slashed at most in proportion to what rulings took from the seller.
SlashWithinRulings ==
    state \notin {"Longstopped", "Refunded", "None"} =>
        stake.slashed * SellerNet(terms) <= terms.sellerStake * (released - got.seller)

\* The seller's stake answers for the deal: reserved while it runs, freed at its end, and taken only
\* in proportion to what rulings took.
StakeAnswers == StakeFollowsDeal /\ SlashWithinRulings

\* A check only ever decides the tranche it examined, however late its result arrives: while the deal
\* runs, a result that could still be submitted is about the tranche it would decide.
CheckFitsTranche ==
    \A c \in verdicts : state \in Running /\ Delivered /\ c.revision = revision => c.paid = paid

\* A delivery is reviewed for as long as the terms promise and by the check that examined it, in
\* whatever order deliveries, extensions, holds and check results come.
ReviewsAsAgreed == ReviewKept /\ CheckFitsTranche

\* An accepted deal ends, though neither side nor any officer ever acts again.
AcceptedDealEnds == state = "Accepted" ~> state \in Ended

Account == INSTANCE DealAccount WITH
    phase <- IF state = "None" THEN "None" ELSE IF state \in Ended THEN "Closed" ELSE "Live",
    rate <- terms.feeBps, entered <- funded,
    left <- got.buyer + got.seller, fee <- feePaid

\* The deal's money behaves as the abstract account the settlement base promises.
DealIsAccount == Account!Init /\ [][Account!Next]_(Account!accountVars)

=============================================================================
