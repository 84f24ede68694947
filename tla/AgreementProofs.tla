--------------------------- MODULE AgreementProofs --------------------------
(***************************************************************************)
(* Theorems about one agreement, for any terms the escrow may accept, any  *)
(* windows and any number of deliveries, extensions, holds and check       *)
(* results.  The review clock is what the terms promise, a check decides   *)
(* the tranche it examined, the state and the dispute clock agree, and a   *)
(* claim or a refund that has opened stays open.  The books match the      *)
(* terms to the last unit, and the seller's stake answers for the rulings. *)
(* The long-stop opens only after the deal's own clocks, and nothing the   *)
(* terms allow is ever refused for want of money.                          *)
(***************************************************************************)
EXTENDS Agreement, FiniteSums, TLAPS

USE AgreementAssumption

States == {"None", "Funded"} \cup Running \cup Ended

TypesInv ==
    /\ now \in Nat \ {0} /\ terms \in Terms /\ state \in States
    /\ fundedAt \in Nat /\ partsPaid \in Nat /\ paid \in Nat /\ revision \in Nat
    /\ deadline \in Nat /\ requested \in Nat /\ holdUsed \in 0..HoldCap
    /\ delivery \in Delivery /\ dispute \in DisputeRecord

\* What validate asks of the silence longstop.
Covered(t) == t.silentLongstop >= t.startLongstop + t.reviewWindow + t.maxExtensions * t.extensionSecs

ClocksInv ==
    /\ Covered(terms)
    /\ delivery.at <= now /\ delivery.holdBase <= holdUsed
    /\ delivery.start = 0 => delivery.ext = 0
    /\ delivery.start # 0 =>
          /\ delivery.at # 0 /\ delivery.start >= delivery.at
          /\ delivery.start <= delivery.at + terms.startLongstop
          /\ delivery.end = delivery.start + terms.reviewWindow + delivery.ext * terms.extensionSecs
          /\ delivery.ext <= terms.maxExtensions

DisputesInv ==
    /\ state # "Disputed" => dispute = NoDispute
    /\ state = "Disputed" => dispute.openedAt # 0 /\ dispute.openedAt <= now /\ Delivered
    /\ state \in Running => paid < Count
    /\ Delivered => PlanPaid
    /\ state \in {"None", "Funded"} => ~Delivered /\ paid = 0
    /\ state # "None" => Count >= 1

ChecksInv ==
    /\ \A c \in verdicts : c.revision \in Nat /\ c.revision <= revision
    /\ CheckFitsTranche
    /\ verdicts # {} => state # "None" /\ terms.reviewStarts = "check"

AgreementInv == TypesInv /\ ClocksInv /\ DisputesInv /\ ChecksInv

-----------------------------------------------------------------------------
(***************************************************************************)
(* Frames: what a step that leaves a part alone keeps of it.               *)
(***************************************************************************)
LEMMA CountNat ==
    ASSUME terms \in Terms
    PROVE  Count \in Nat
BY DEF Terms, Count

LEMMA ClocksFrame ==
    ASSUME ClocksInv, UNCHANGED <<now, terms, delivery, holdUsed>>
    PROVE  ClocksInv'
BY DEF ClocksInv, Covered

\* A paid tranche leaves nothing delivered.
LEMMA ClocksReset ==
    ASSUME TypesInv, ClocksInv, UNCHANGED <<now, terms, holdUsed>>, delivery' = NoDelivery
    PROVE  ClocksInv' /\ delivery' \in Delivery /\ ~Delivered'
BY DEF TypesInv, ClocksInv, Covered, NoDelivery, Delivery, Delivered

\* While the tranche and its delivery stay, so does what was signed about them.
LEMMA ChecksFrame ==
    ASSUME ChecksInv, UNCHANGED <<verdicts, terms, revision, delivery, paid>>,
           state' \in Running => state \in Running,
           state # "None" => state' # "None"
    PROVE  ChecksInv'
BY DEF ChecksInv, CheckFitsTranche, Delivered

LEMMA ChecksReset ==
    ASSUME ChecksInv, UNCHANGED <<verdicts, terms, revision>>, ~Delivered', state' # "None"
    PROVE  ChecksInv'
BY DEF ChecksInv, CheckFitsTranche

\* The deal ends with its tranche, delivery and plan as they stand.
LEMMA EndingKeeps ==
    ASSUME AgreementInv, state' \in Ended, dispute' = NoDispute, state # "None",
           UNCHANGED <<now, terms, fundedAt, partsPaid, delivery, revision, deadline, requested,
                       holdUsed, verdicts>>,
           paid' \in Nat
    PROVE  AgreementInv'
<1>1. TypesInv'
  BY DEF AgreementInv, TypesInv, States, NoDispute, DisputeRecord
<1>2. ClocksInv'
  BY ClocksFrame DEF AgreementInv
<1>3. DisputesInv'
  BY DEF AgreementInv, DisputesInv, Ended, Running, Delivered, PlanPaid, Count
<1>4. ChecksInv'
  BY DEF AgreementInv, ChecksInv, CheckFitsTranche, Ended, Running
<1> QED BY <1>1, <1>2, <1>3, <1>4 DEF AgreementInv

\* Nothing the invariant speaks of changes.
LEMMA QuietKeeps ==
    ASSUME AgreementInv,
           UNCHANGED <<now, terms, state, fundedAt, partsPaid, paid, delivery, revision, deadline,
                       requested, dispute, holdUsed, verdicts>>
    PROVE  AgreementInv'
<1>1. TypesInv'
  BY DEF AgreementInv, TypesInv
<1>2. DisputesInv'
  BY DEF AgreementInv, DisputesInv, Delivered, PlanPaid, Count
<1> QED BY <1>1, <1>2, ClocksFrame, ChecksFrame DEF AgreementInv

\* Only the deadline and the seller's request for it move.
LEMMA DeadlineKeeps ==
    ASSUME AgreementInv, deadline' \in Nat, requested' \in Nat,
           UNCHANGED <<now, terms, state, fundedAt, partsPaid, paid, delivery, revision, dispute,
                       holdUsed, verdicts>>
    PROVE  AgreementInv'
<1>1. TypesInv'
  BY DEF AgreementInv, TypesInv
<1>2. DisputesInv'
  BY DEF AgreementInv, DisputesInv, Delivered, PlanPaid, Count
<1> QED BY <1>1, <1>2, ClocksFrame, ChecksFrame DEF AgreementInv

\* Only the delivery under review changes: its clocks and its check, never when it was made.
LEMMA ReviewKeeps ==
    ASSUME AgreementInv, NEW v, Reviews(v), v \in Delivery, v.at = delivery.at, ClocksInv',
           UNCHANGED verdicts
    PROVE  AgreementInv'
<1>1. TypesInv'
  BY DEF AgreementInv, TypesInv, Reviews, dealVars, trancheVars, dueVars, talkVars, holdVars
<1>2. DisputesInv'
  BY DEF AgreementInv, DisputesInv, Reviews, dealVars, trancheVars, dueVars, talkVars, Delivered,
         PlanPaid, Count
<1>3. ChecksInv'
  BY DEF AgreementInv, ChecksInv, CheckFitsTranche, Delivered, Reviews, dealVars, trancheVars
<1> QED BY <1>1, <1>2, <1>3 DEF AgreementInv

-----------------------------------------------------------------------------
(***************************************************************************)
(* Funding, acceptance and instalments.                                    *)
(***************************************************************************)
LEMMA FundKeeps ==
    ASSUME AgreementInv, NEW t \in Offered, Fund(t)
    PROVE  AgreementInv'
<1>1. /\ t \in Terms /\ Valid(t) /\ state = "None" /\ terms' = Absolute(t) /\ state' = "Funded"
      /\ fundedAt' = now /\ partsPaid' \in Nat /\ deadline' = now + t.deliveryDeadline
      /\ UNCHANGED <<now, paid, delivery, revision, requested, dispute, holdUsed, verdicts>>
  BY DEF Fund, trancheVars, deliveryVars, talkVars, holdVars, checkVars
<1>2. /\ terms' \in Terms /\ terms'.trancheBps = t.trancheBps
      /\ terms'.startLongstop = t.startLongstop /\ terms'.reviewWindow = t.reviewWindow
      /\ terms'.maxExtensions = t.maxExtensions /\ terms'.extensionSecs = t.extensionSecs
      /\ terms'.silentLongstop = t.silentLongstop
  <2>1. now \in Nat /\ t.acceptBy + now \in Nat /\ t.deliveryDeadline + now \in Nat
    <3>1. now \in Nat /\ t \in Terms
      BY <1>1 DEF AgreementInv, TypesInv
    <3>2. t.acceptBy \in Nat /\ t.deliveryDeadline \in Nat
      BY <3>1 DEF Terms
    <3> QED BY <3>1, <3>2
  <2> DEFINE x == t.acceptBy + now
             y == t.deliveryDeadline + now
  <2>2. terms' = [t EXCEPT !.acceptBy = x, !.deliveryDeadline = y]
    BY <1>1, Zenon DEF Absolute
  <2>3. x \in Nat /\ y \in Nat /\ t \in Terms
    BY <1>1, <2>1
  <2> HIDE DEF x, y
  <2> QED BY <2>2, <2>3 DEF Terms
<1>3. deadline' \in Nat
  <2>1. now \in Nat /\ t.deliveryDeadline \in Nat
    BY <1>1 DEF AgreementInv, TypesInv, Terms
  <2> QED BY <1>1, <2>1
<1>4. TypesInv'
  BY <1>1, <1>2, <1>3 DEF AgreementInv, TypesInv, States
<1>5. ~Delivered /\ paid = 0 /\ ~Delivered' /\ paid' = 0
  BY <1>1 DEF AgreementInv, DisputesInv, Delivered
<1>6. Covered(terms')
  BY <1>1, <1>2 DEF Valid, Covered
<1>7. delivery.at = 0 /\ delivery.start = 0
  BY <1>5 DEF AgreementInv, ClocksInv, Delivered
<1>8. ClocksInv'
  <2>1. Covered(terms)'
    BY <1>6 DEF Covered
  <2> QED BY <1>1, <1>7, <2>1 DEF AgreementInv, ClocksInv
<1>9. Len(t.trancheBps) >= 1
  <2>1. Len(t.trancheBps) \in 1..MaxTranches
    BY <1>1, Zenon DEF Valid
  <2>2. Len(t.trancheBps) \in Nat /\ MaxTranches \in Nat
    BY <1>1 DEF Terms
  <2> QED BY ONLY <2>1, <2>2
<1>10. DisputesInv'
  BY <1>1, <1>2, <1>5, <1>9 DEF AgreementInv, DisputesInv, Running, Count
<1>11. verdicts = {}
  BY <1>1 DEF AgreementInv, ChecksInv
<1>12. ChecksInv'
  BY <1>1, <1>11 DEF ChecksInv, CheckFitsTranche
<1> QED BY <1>4, <1>8, <1>10, <1>12 DEF AgreementInv

LEMMA LatenessNat ==
    ASSUME TypesInv
    PROVE  Lateness \in Nat
<1>1. terms.parts \in Nat /\ terms.partEvery \in Nat /\ now \in Nat /\ fundedAt \in Nat
  BY DEF TypesInv, Terms
<1>2. (terms.parts - 1) * terms.partEvery \in Int
  BY <1>1
<1> QED BY <1>1, <1>2 DEF Lateness, AtLeast

LEMMA PayPartKeeps ==
    ASSUME AgreementInv, PayPart
    PROVE  AgreementInv'
<1>1. /\ partsPaid' = partsPaid + 1 /\ deadline' = deadline + Lateness
      /\ UNCHANGED <<now, terms, state, fundedAt, paid, delivery, revision, requested, dispute,
                     holdUsed, verdicts>>
  BY DEF PayPart, trancheVars, deliveryVars, talkVars, holdVars, checkVars
<1>2. TypesInv'
  BY <1>1, LatenessNat DEF AgreementInv, TypesInv
<1>3. terms.parts \in Nat /\ partsPaid \in Nat
  BY DEF AgreementInv, TypesInv, Terms
<1>4. Delivered => PlanPaid'
  BY <1>1, <1>3 DEF AgreementInv, DisputesInv, PlanPaid
<1>5. DisputesInv'
  BY <1>1, <1>4 DEF AgreementInv, DisputesInv, Delivered, Count
<1> QED BY <1>1, <1>2, <1>5, ClocksFrame, ChecksFrame DEF AgreementInv

LEMMA CancelMissedKeeps ==
    ASSUME AgreementInv, CancelMissed
    PROVE  AgreementInv'
<1>1. state # "Disputed" /\ state # "None" /\ dispute' = dispute /\ state' = "Refunded"
  BY DEF CancelMissed, Ends, talkVars
<1>2. dispute' = NoDispute /\ paid' \in Nat
  BY <1>1 DEF AgreementInv, DisputesInv, TypesInv, CancelMissed, trancheVars
<1> QED BY <1>1, <1>2, EndingKeeps
      DEF CancelMissed, deliveryVars, dueVars, holdVars, checkVars, Ended

LEMMA CancelUnacceptedKeeps ==
    ASSUME AgreementInv, CancelUnaccepted
    PROVE  AgreementInv'
<1>1. state # "Disputed" /\ state # "None" /\ dispute' = dispute /\ state' = "Refunded"
  BY DEF CancelUnaccepted, Ends, talkVars
<1>2. dispute' = NoDispute /\ paid' \in Nat
  BY <1>1 DEF AgreementInv, DisputesInv, TypesInv, CancelUnaccepted, trancheVars
<1> QED BY <1>1, <1>2, EndingKeeps
      DEF CancelUnaccepted, deliveryVars, dueVars, holdVars, checkVars, Ended

LEMMA AcceptKeeps ==
    ASSUME AgreementInv, Accepts
    PROVE  AgreementInv'
<1>1. /\ state = "Funded" /\ state' = "Accepted"
      /\ UNCHANGED <<now, terms, fundedAt, partsPaid, paid, delivery, revision, deadline, requested,
                     dispute, holdUsed, verdicts>>
  BY DEF Accepts, trancheVars, deliveryVars, dueVars, talkVars, holdVars, checkVars
<1>2. TypesInv'
  BY <1>1 DEF AgreementInv, TypesInv, States, Running
<1>3. Count \in Nat /\ Count' = Count
  BY <1>1, CountNat DEF AgreementInv, TypesInv, Count
<1>4. DisputesInv'
  BY <1>1, <1>3 DEF AgreementInv, DisputesInv, Delivered, PlanPaid, Running
<1>5. ~Delivered'
  BY <1>1 DEF AgreementInv, DisputesInv, Delivered
<1> QED BY <1>1, <1>2, <1>4, <1>5, ClocksFrame, ChecksReset DEF AgreementInv

-----------------------------------------------------------------------------
(***************************************************************************)
(* Delivery and review.                                                    *)
(***************************************************************************)

\* A review that starts, starts within its longstop, and is the window long.
LEMMA StartedReview ==
    ASSUME TypesInv, ClocksInv, NEW v \in Delivery, v.at # 0, v.at <= now, v.ext = 0
    PROVE  /\ Started(v) \in Delivery
           /\ Started(v).at = v.at /\ Started(v).ext = 0 /\ Started(v).holdBase = v.holdBase
           /\ Started(v).passed = v.passed /\ Started(v).failed = v.failed
           /\ Started(v).start = AtMost(now, v.at + terms.startLongstop)
           /\ Started(v).start >= v.at /\ Started(v).start <= v.at + terms.startLongstop
           /\ Started(v).start # 0 /\ Started(v).end = Started(v).start + terms.reviewWindow
<1>1. terms.startLongstop \in Nat /\ terms.reviewWindow \in Nat /\ now \in Nat
  BY DEF TypesInv, Terms
<1>2. AtMost(now, v.at + terms.startLongstop) \in Nat
  BY <1>1 DEF AtMost, Delivery
<1>3. /\ AtMost(now, v.at + terms.startLongstop) >= v.at
      /\ AtMost(now, v.at + terms.startLongstop) <= v.at + terms.startLongstop
      /\ AtMost(now, v.at + terms.startLongstop) # 0
  BY <1>1 DEF AtMost, Delivery
<1> DEFINE at == AtMost(now, v.at + terms.startLongstop)
<1>4. at \in Nat /\ at + terms.reviewWindow \in Nat
  BY <1>1, <1>2
<1>5. Started(v) = [v EXCEPT !.start = at, !.end = at + terms.reviewWindow]
  BY DEF Started
<1> HIDE DEF at
<1>6. /\ Started(v) \in Delivery /\ Started(v).start = at /\ Started(v).end = at + terms.reviewWindow
      /\ Started(v).at = v.at /\ Started(v).ext = v.ext /\ Started(v).holdBase = v.holdBase
      /\ Started(v).passed = v.passed /\ Started(v).failed = v.failed
  BY <1>4, <1>5 DEF Delivery
<1> QED BY <1>3, <1>6 DEF at

\* The clocks are right for a delivery whose review has just been started.
LEMMA StartedClocks ==
    ASSUME TypesInv, ClocksInv, NEW v \in Delivery, v.at # 0, v.at <= now, v.ext = 0,
           v.holdBase <= holdUsed, UNCHANGED <<now, terms, holdUsed>>, delivery' = Started(v)
    PROVE  ClocksInv' /\ delivery' \in Delivery /\ delivery'.at = v.at
<1>1. terms.reviewWindow \in Nat /\ terms.extensionSecs \in Nat /\ terms.maxExtensions \in Nat
  BY DEF TypesInv, Terms
<1>2. /\ delivery'.end = delivery'.start + terms.reviewWindow + delivery'.ext * terms.extensionSecs
      /\ delivery'.ext <= terms.maxExtensions
  BY <1>1, StartedReview DEF Delivery
<1> QED BY <1>1, <1>2, StartedReview DEF ClocksInv, Covered

LEMMA MarkKeeps ==
    ASSUME AgreementInv, MarkDelivered
    PROVE  AgreementInv'
<1> DEFINE fresh == [NoDelivery EXCEPT !.at = now, !.holdBase = holdUsed]
<1>1. /\ state = "Accepted" /\ PlanPaid /\ revision' = revision + 1
      /\ delivery' = IF terms.reviewStarts = "delivery" THEN Started(fresh) ELSE fresh
      /\ UNCHANGED <<now, terms, state, fundedAt, partsPaid, paid, deadline, requested, dispute,
                     holdUsed, verdicts>>
  BY DEF MarkDelivered, NewDelivery, dealVars, trancheVars, dueVars, talkVars, holdVars, checkVars
<1>2. /\ fresh \in Delivery /\ fresh.at = now /\ fresh.ext = 0 /\ fresh.start = 0
      /\ fresh.holdBase = holdUsed /\ now # 0
  <2>1. now \in Nat /\ now # 0 /\ holdUsed \in Nat
    BY DEF AgreementInv, TypesInv
  <2> QED BY <2>1 DEF NoDelivery, Delivery
<1> HIDE DEF fresh
<1>3. ClocksInv' /\ delivery' \in Delivery
  <2>1. CASE terms.reviewStarts = "delivery"
    <3>1. fresh.at # 0 /\ fresh.at <= now /\ fresh.holdBase <= holdUsed
      BY <1>2 DEF AgreementInv, TypesInv
    <3> QED BY <2>1, <3>1, <1>1, <1>2, StartedClocks DEF AgreementInv
  <2>2. CASE terms.reviewStarts # "delivery"
    BY <2>2, <1>1, <1>2 DEF AgreementInv, ClocksInv, Covered, TypesInv
  <2> QED BY <2>1, <2>2
<1>4. TypesInv'
  BY <1>1, <1>3 DEF AgreementInv, TypesInv
<1>5. DisputesInv'
  BY <1>1 DEF AgreementInv, DisputesInv, PlanPaid, Count, Running
<1>6. ASSUME NEW c \in verdicts
      PROVE  c.revision \in Nat /\ c.revision <= revision' /\ c.revision # revision'
  BY <1>1 DEF AgreementInv, ChecksInv, TypesInv
<1>7. ChecksInv'
  BY <1>1, <1>6 DEF AgreementInv, ChecksInv, CheckFitsTranche
<1> QED BY <1>3, <1>4, <1>5, <1>7 DEF AgreementInv

LEMMA StartReviewKeeps ==
    ASSUME AgreementInv, StartReview
    PROVE  AgreementInv'
<1> DEFINE waived == terms.reviewStarts = "check"
           w == [delivery EXCEPT !.passed = @ \/ waived, !.failed = @ /\ ~waived]
<1>1. /\ delivery.start = 0 /\ delivery.at # 0 /\ Reviews(Started(w)) /\ delivery' = Started(w)
      /\ UNCHANGED <<now, terms, holdUsed, verdicts>>
  BY DEF StartReview, Delivered, Reviews, dealVars, holdVars, checkVars
<1>2. /\ w \in Delivery /\ w.at = delivery.at /\ w.ext = delivery.ext /\ w.holdBase = delivery.holdBase
  BY DEF AgreementInv, TypesInv, Delivery
<1>3. w.ext = 0 /\ w.at # 0 /\ w.at <= now /\ w.holdBase <= holdUsed
  BY <1>1, <1>2 DEF AgreementInv, ClocksInv
<1>4. ClocksInv' /\ Started(w) \in Delivery /\ Started(w).at = delivery.at
  BY <1>1, <1>2, <1>3, StartedClocks DEF AgreementInv
<1> QED BY <1>1, <1>4, ReviewKeeps

LEMMA SignKeeps ==
    ASSUME AgreementInv, NEW pass \in BOOLEAN, SignVerdict(pass)
    PROVE  AgreementInv'
<1>1. /\ terms.reviewStarts = "check" /\ Delivered
      /\ verdicts' = verdicts \cup {[revision |-> revision, paid |-> paid, pass |-> pass]}
      /\ UNCHANGED <<now, terms, state, fundedAt, partsPaid, paid, delivery, revision, deadline,
                     requested, dispute, holdUsed>>
  BY DEF SignVerdict, dealVars, trancheVars, deliveryVars, dueVars, talkVars, holdVars
<1>2. TypesInv'
  BY <1>1 DEF AgreementInv, TypesInv
<1>3. DisputesInv'
  BY <1>1 DEF AgreementInv, DisputesInv, Delivered, PlanPaid, Count
<1>4. revision \in Nat /\ state # "None"
  BY <1>1 DEF AgreementInv, TypesInv, DisputesInv
<1>5. ChecksInv'
  BY <1>1, <1>4 DEF AgreementInv, ChecksInv, CheckFitsTranche, Delivered
<1> QED BY <1>1, <1>2, <1>3, <1>5, ClocksFrame DEF AgreementInv

LEMMA AttestKeeps ==
    ASSUME AgreementInv, NEW c, AttestCheck(c)
    PROVE  AgreementInv'
<1>1. /\ delivery.at # 0 /\ UNCHANGED <<now, terms, holdUsed, verdicts>>
      /\ Reviews(IF c.pass THEN Passed(delivery) ELSE Failed(delivery))
      /\ delivery' = IF c.pass THEN Passed(delivery) ELSE Failed(delivery)
  BY DEF AttestCheck, Delivered, Reviews, dealVars, holdVars
<1>2. delivery \in Delivery
  BY DEF AgreementInv, TypesInv
<1>3. CASE ~c.pass
  <2>1. /\ Failed(delivery) \in Delivery /\ Failed(delivery).at = delivery.at
        /\ Failed(delivery).start = delivery.start /\ Failed(delivery).end = delivery.end
        /\ Failed(delivery).ext = delivery.ext /\ Failed(delivery).holdBase = delivery.holdBase
    BY <1>2 DEF Failed, Delivery
  <2>2. ClocksInv'
    BY <1>1, <1>3, <2>1 DEF AgreementInv, ClocksInv, Covered
  <2> QED BY <1>1, <1>3, <2>1, <2>2, ReviewKeeps
<1>4. CASE c.pass
  <2> DEFINE w == [delivery EXCEPT !.passed = TRUE, !.failed = FALSE]
  <2>1. /\ w \in Delivery /\ w.at = delivery.at /\ w.start = delivery.start /\ w.end = delivery.end
        /\ w.ext = delivery.ext /\ w.holdBase = delivery.holdBase
    BY <1>2 DEF Delivery
  <2>2. CASE delivery.start = 0
    <3>1. delivery' = Started(w) /\ Reviews(Started(w))
      BY <1>1, <1>4, <2>1, <2>2 DEF Passed
    <3>2. w.ext = 0 /\ w.at # 0 /\ w.at <= now /\ w.holdBase <= holdUsed
      BY <1>1, <2>1, <2>2 DEF AgreementInv, ClocksInv
    <3>3. ClocksInv' /\ Started(w) \in Delivery /\ Started(w).at = delivery.at
      BY <1>1, <2>1, <3>1, <3>2, StartedClocks DEF AgreementInv
    <3> QED BY <1>1, <3>1, <3>3, ReviewKeeps
  <2>3. CASE delivery.start # 0
    <3>1. delivery' = w /\ Reviews(w)
      BY <1>1, <1>4, <2>1, <2>3 DEF Passed
    <3>2. ClocksInv'
      BY <1>1, <2>1, <3>1 DEF AgreementInv, ClocksInv, Covered
    <3> QED BY <1>1, <2>1, <3>1, <3>2, ReviewKeeps
  <2> QED BY <2>2, <2>3
<1> QED BY <1>3, <1>4

LEMMA MoreTimeKeeps ==
    ASSUME AgreementInv, RequestMoreTime
    PROVE  AgreementInv'
<1> DEFINE w == [delivery EXCEPT !.ext = @ + 1, !.end = @ + terms.extensionSecs]
<1>1. /\ delivery.start # 0 /\ delivery.ext < terms.maxExtensions /\ Reviews(w) /\ delivery' = w
      /\ UNCHANGED <<now, terms, holdUsed, verdicts>>
  BY DEF RequestMoreTime, Reviews, dealVars, holdVars, checkVars
<1>2. /\ delivery \in Delivery /\ terms.extensionSecs \in Nat /\ terms.maxExtensions \in Nat
      /\ terms.reviewWindow \in Nat
  BY DEF AgreementInv, TypesInv, Terms
<1>3. delivery.ext \in Nat /\ delivery.start \in Nat /\ delivery.end \in Nat
  BY <1>2 DEF Delivery
<1>4. /\ w \in Delivery /\ w.at = delivery.at /\ w.start = delivery.start /\ w.ext = delivery.ext + 1
      /\ w.end = delivery.end + terms.extensionSecs /\ w.holdBase = delivery.holdBase
  <2> DEFINE x == delivery.ext + 1
             y == delivery.end + terms.extensionSecs
  <2>1. x \in Nat /\ y \in Nat /\ w = [delivery EXCEPT !.ext = x, !.end = y]
    BY <1>2, <1>3
  <2> HIDE DEF x, y, w
  <2>2. /\ w \in Delivery /\ w.at = delivery.at /\ w.start = delivery.start /\ w.ext = x /\ w.end = y
        /\ w.holdBase = delivery.holdBase
    BY <1>2, <2>1 DEF Delivery
  <2> QED BY <2>2 DEF x, y
<1>5. (delivery.ext + 1) * terms.extensionSecs = delivery.ext * terms.extensionSecs + terms.extensionSecs
  BY <1>2, <1>3
<1>6. delivery.ext * terms.extensionSecs \in Nat
  BY <1>2, <1>3
<1>7. delivery.end = delivery.start + terms.reviewWindow + delivery.ext * terms.extensionSecs
  BY <1>1 DEF AgreementInv, ClocksInv
<1> HIDE DEF w
<1>8. w.end = w.start + terms.reviewWindow + w.ext * terms.extensionSecs
  BY <1>2, <1>3, <1>4, <1>5, <1>6, <1>7
<1>9. ClocksInv'
  BY <1>1, <1>2, <1>3, <1>4, <1>8 DEF AgreementInv, ClocksInv, Covered
<1> QED BY <1>1, <1>4, <1>9, ReviewKeeps

-----------------------------------------------------------------------------
(***************************************************************************)
(* Payment.                                                                *)
(***************************************************************************)

\* A tranche is paid: nothing is delivered or disputed, and the deal goes on to the next or ends.
LEMMA TrancheKeeps ==
    ASSUME AgreementInv, state \in Running, NextTranche, dispute' = NoDispute, deadline' \in Nat,
           IF LastTranche THEN state' \in Ended ELSE state' = "Accepted",
           UNCHANGED <<now, terms, fundedAt, partsPaid, revision, requested, holdUsed, verdicts>>
    PROVE  AgreementInv'
<1>1. paid < Count /\ paid' = paid + 1 /\ delivery' = NoDelivery
  BY DEF NextTranche
<1>2. ClocksInv' /\ delivery' \in Delivery /\ ~Delivered'
  BY <1>1, ClocksReset DEF AgreementInv
<1>3. dispute' \in DisputeRecord
  BY DEF AgreementInv, TypesInv, NoDispute, DisputeRecord
<1>4. state' \in States \ {"None", "Funded", "Disputed"}
  BY DEF States, Ended, Running
<1>5. TypesInv'
  <2>1. paid' \in Nat
    BY <1>1 DEF AgreementInv, TypesInv
  <2>2. state' \in States
    BY <1>4
  <2> QED BY <1>2, <1>3, <2>1, <2>2 DEF AgreementInv, TypesInv
<1>6. paid \in Nat /\ Count \in Nat /\ Count' = Count /\ Count >= 1
  BY CountNat, <1>1 DEF AgreementInv, TypesInv, DisputesInv, Count, Running
<1>7. state' \in Running => paid' < Count'
  BY <1>1, <1>6 DEF LastTranche, Running, Ended
<1>8. DisputesInv'
  BY <1>2, <1>4, <1>6, <1>7 DEF DisputesInv
<1>9. ChecksInv'
  BY <1>2, <1>4, ChecksReset DEF AgreementInv
<1> QED BY <1>2, <1>5, <1>8, <1>9 DEF AgreementInv

\* A dispute gives the deadline back the time it held.
LEMMA DeadlineAfterNat ==
    ASSUME TypesInv, DisputesInv, state = "Disputed"
    PROVE  DeadlineAfterDispute \in Nat
<1>1. dispute.openedAt \in Nat /\ dispute.openedAt <= now /\ now \in Nat /\ deadline \in Nat
  BY DEF TypesInv, DisputesInv, DisputeRecord
<1> QED BY <1>1 DEF DeadlineAfterDispute

LEMMA ReleaseKeeps ==
    ASSUME AgreementInv, Release
    PROVE  AgreementInv'
<1>1. /\ state \in Running /\ NextTranche
      /\ IF state = "Disputed" THEN dispute' = NoDispute /\ deadline' = DeadlineAfterDispute
                               ELSE UNCHANGED <<dispute, deadline>>
      /\ IF LastTranche THEN state' = "Settled" ELSE state' = "Accepted"
      /\ UNCHANGED <<now, terms, fundedAt, partsPaid, revision, requested, holdUsed, verdicts>>
  BY DEF Release, PayTranche, Ends, holdVars, checkVars
<1>2. dispute' = NoDispute
  BY <1>1 DEF AgreementInv, DisputesInv
<1>3. deadline' \in Nat
  BY <1>1, DeadlineAfterNat DEF AgreementInv, TypesInv
<1> QED BY <1>1, <1>2, <1>3, TrancheKeeps DEF Ended

LEMMA ClaimKeeps ==
    ASSUME AgreementInv, Claim
    PROVE  AgreementInv'
<1>1. /\ state = "Accepted" /\ NextTranche
      /\ IF LastTranche THEN state' = "Settled" ELSE state' = "Accepted"
      /\ UNCHANGED <<now, terms, fundedAt, partsPaid, revision, deadline, requested, dispute,
                     holdUsed, verdicts>>
  BY DEF Claim, ClaimOpen, PayTranche, Ends, dueVars, talkVars, holdVars, checkVars
<1>2. dispute' = NoDispute /\ deadline' \in Nat
  BY <1>1 DEF AgreementInv, DisputesInv, TypesInv
<1> QED BY <1>1, <1>2, TrancheKeeps DEF Ended, Running

LEMMA ReclaimKeeps ==
    ASSUME AgreementInv, Reclaim
    PROVE  AgreementInv'
<1>1. state = "Accepted" /\ dispute' = dispute /\ state' = "Reclaimed"
  BY DEF Reclaim, ReclaimOpen, Ends, talkVars
<1>2. dispute' = NoDispute /\ paid' \in Nat
  BY <1>1 DEF AgreementInv, DisputesInv, TypesInv, Reclaim, trancheVars
<1> QED BY <1>1, <1>2, EndingKeeps
      DEF Reclaim, deliveryVars, dueVars, holdVars, checkVars, Ended

-----------------------------------------------------------------------------
(***************************************************************************)
(* Deadlines, splits and disputes.                                         *)
(***************************************************************************)
LEMMA ExtendKeeps ==
    ASSUME AgreementInv, NEW to \in Deadlines, ExtendDeadline(to)
    PROVE  AgreementInv'
<1>1. deadline' = to /\ to \in Nat /\ requested' = requested
  BY DEF ExtendDeadline, MovesDeadline
<1>2. requested' \in Nat /\ deadline' \in Nat
  BY <1>1 DEF AgreementInv, TypesInv
<1> QED BY <1>2, DeadlineKeeps
      DEF ExtendDeadline, MovesDeadline, dealVars, trancheVars, deliveryVars, talkVars, holdVars, checkVars

LEMMA RequestKeeps ==
    ASSUME AgreementInv, NEW to \in Deadlines, RequestExtension(to)
    PROVE  AgreementInv'
<1>1. requested' \in Nat /\ deadline' \in Nat
  BY DEF RequestExtension, AgreementInv, TypesInv
<1> QED BY <1>1, DeadlineKeeps
      DEF RequestExtension, dealVars, trancheVars, deliveryVars, talkVars, holdVars, checkVars

LEMMA ApproveKeeps ==
    ASSUME AgreementInv, ApproveExtension
    PROVE  AgreementInv'
<1>1. requested' \in Nat /\ deadline' \in Nat
  BY DEF ApproveExtension, MovesDeadline, AgreementInv, TypesInv
<1> QED BY <1>1, DeadlineKeeps
      DEF ApproveExtension, MovesDeadline, dealVars, trancheVars, deliveryVars, talkVars, holdVars, checkVars

LEMMA OfferKeeps ==
    ASSUME AgreementInv, NEW o, Talks(dispute, o), state' = state
    PROVE  AgreementInv'
BY QuietKeeps DEF Talks, trancheVars, deliveryVars, dueVars, holdVars, checkVars

LEMMA AcceptSplitKeeps ==
    ASSUME AgreementInv, NEW who, AcceptSplit(who)
    PROVE  AgreementInv'
<1>1. /\ state \in Running /\ state' = "Split" /\ dispute' = NoDispute /\ paid' = Count
      /\ UNCHANGED <<now, terms, fundedAt, partsPaid, delivery, revision, deadline, requested,
                     holdUsed, verdicts>>
  BY DEF AcceptSplit, OpenToSplit, Splits, Ends, deliveryVars, dueVars, holdVars, checkVars
<1>2. paid' \in Nat
  BY <1>1, CountNat DEF AgreementInv, TypesInv
<1> QED BY <1>1, <1>2, EndingKeeps DEF Ended, Running

LEMMA DisputeKeeps ==
    ASSUME AgreementInv, NEW who \in Parties, Dispute(who)
    PROVE  AgreementInv'
<1>1. /\ state = "Accepted" /\ state' = "Disputed" /\ Delivered
      /\ dispute' = [NoDispute EXCEPT !.openedAt = now, !.opener = who,
                                      !.escalatedAt = IF terms.arbiter THEN 0 ELSE now]
      /\ UNCHANGED <<now, terms, fundedAt, partsPaid, paid, delivery, revision, deadline, requested,
                     holdUsed, verdicts>>
  BY DEF Dispute, Talks, trancheVars, deliveryVars, dueVars, holdVars, checkVars
<1>2. now \in Nat /\ now # 0
  BY DEF AgreementInv, TypesInv
<1>3. dispute' = [openedAt |-> now, opener |-> who, proposedAt |-> 0, bps |-> 0,
                  escalatedAt |-> IF terms.arbiter THEN 0 ELSE now]
  BY <1>1 DEF NoDispute
<1>4. (IF terms.arbiter THEN 0 ELSE now) \in Nat
  BY <1>2
<1>5. dispute' \in DisputeRecord /\ dispute'.openedAt = now
  BY <1>2, <1>3, <1>4 DEF DisputeRecord
<1>6. TypesInv'
  <2>1. state' \in States
    BY <1>1 DEF States, Running
  <2> QED BY <1>1, <1>5, <2>1 DEF AgreementInv, TypesInv
<1>7. DisputesInv'
  <2>1. dispute'.openedAt # 0 /\ dispute'.openedAt <= now' /\ Delivered'
    BY <1>1, <1>2, <1>5 DEF Delivered
  <2>2. paid' < Count' /\ PlanPaid' /\ Count' >= 1
    BY <1>1 DEF AgreementInv, DisputesInv, Delivered, PlanPaid, Count, Running
  <2> QED BY <1>1, <2>1, <2>2 DEF DisputesInv
<1> QED BY <1>1, <1>6, <1>7, ClocksFrame, ChecksFrame DEF AgreementInv, Running

\* A dispute goes on: a proposal or an escalation is added to it.
LEMMA DisputeGoesOn ==
    ASSUME AgreementInv, NEW x \in DisputeRecord, NEW o, Talks(x, o), state = "Disputed",
           state' = state, x.openedAt = dispute.openedAt
    PROVE  AgreementInv'
<1>1. /\ dispute' = x
      /\ UNCHANGED <<now, terms, state, fundedAt, partsPaid, paid, delivery, revision, deadline,
                     requested, holdUsed, verdicts>>
  BY DEF Talks, trancheVars, deliveryVars, dueVars, holdVars, checkVars
<1>2. TypesInv'
  BY <1>1 DEF AgreementInv, TypesInv
<1>3. DisputesInv'
  BY <1>1 DEF AgreementInv, DisputesInv, Delivered, PlanPaid, Count
<1> QED BY <1>1, <1>2, <1>3, ClocksFrame, ChecksFrame DEF AgreementInv

LEMMA ProposeKeeps ==
    ASSUME AgreementInv, NEW bps \in Shares, ProposeRuling(bps)
    PROVE  AgreementInv'
<1> DEFINE x == [dispute EXCEPT !.proposedAt = now, !.bps = bps]
<1>1. Talks(x, offer) /\ state = "Disputed" /\ state' = state
  BY DEF ProposeRuling
<1>2. now \in Nat /\ bps \in 0..BPS /\ dispute \in DisputeRecord
  BY DEF AgreementInv, TypesInv
<1>3. x \in DisputeRecord /\ x.openedAt = dispute.openedAt
  BY <1>2 DEF DisputeRecord
<1> QED BY <1>1, <1>3, DisputeGoesOn

LEMMA EscalateKeeps ==
    ASSUME AgreementInv, NEW who, Escalate(who)
    PROVE  AgreementInv'
<1> DEFINE x == [dispute EXCEPT !.escalatedAt = now]
<1>1. Talks(x, offer) /\ state = "Disputed" /\ state' = state
  BY DEF Escalate
<1>2. now \in Nat /\ dispute \in DisputeRecord
  BY DEF AgreementInv, TypesInv
<1>3. x \in DisputeRecord /\ x.openedAt = dispute.openedAt
  BY <1>2 DEF DisputeRecord
<1> QED BY <1>1, <1>3, DisputeGoesOn

LEMMA RulingKeeps ==
    ASSUME AgreementInv, NEW bps, state = "Disputed", RuleTranche(bps)
    PROVE  AgreementInv'
<1>1. /\ NextTranche /\ dispute' = NoDispute /\ deadline' = DeadlineAfterDispute
      /\ IF LastTranche THEN state' = "Ruled" ELSE state' = "Accepted"
      /\ UNCHANGED <<now, terms, fundedAt, partsPaid, revision, requested, holdUsed, verdicts>>
  BY DEF RuleTranche, Ends, holdVars, checkVars
<1> QED BY <1>1, DeadlineAfterNat, TrancheKeeps DEF AgreementInv, Ended, Running

-----------------------------------------------------------------------------
(***************************************************************************)
(* The settlement, the hub, the vault and time.                            *)
(***************************************************************************)
LEMMA LongstopKeeps ==
    ASSUME AgreementInv, NEW x, LongstopSplit(x)
    PROVE  AgreementInv'
<1>1. /\ state # "None" /\ state' = "Longstopped" /\ dispute' = NoDispute
      /\ UNCHANGED <<now, terms, fundedAt, partsPaid, paid, delivery, revision, deadline, requested,
                     holdUsed, verdicts>>
  BY DEF LongstopSplit, LongstopOpen, Running, Ends, trancheVars, deliveryVars, dueVars, holdVars,
         checkVars
<1>2. paid' \in Nat
  BY <1>1 DEF AgreementInv, TypesInv
<1> QED BY <1>1, <1>2, EndingKeeps DEF Ended

LEMMA HoldKeeps ==
    ASSUME AgreementInv, Hold
    PROVE  AgreementInv' /\ holdUsed' > holdUsed
<1>1. /\ holdUsed' = holdUsed + NextHold /\ NextHold # 0
      /\ UNCHANGED <<now, terms, state, fundedAt, partsPaid, paid, delivery, revision, deadline,
                     requested, dispute, verdicts>>
  BY DEF Hold, dealVars, trancheVars, deliveryVars, dueVars, talkVars, checkVars
<1>2. holdUsed \in 0..HoldCap /\ HoldCap \in Nat /\ HoldStep \in Nat
  BY DEF AgreementInv, TypesInv
<1>3. NextHold \in 0..(HoldCap - holdUsed)
  BY <1>2 DEF NextHold, AtMost
<1>4. holdUsed' \in 0..HoldCap /\ holdUsed' > holdUsed
  BY <1>1, <1>2, <1>3
<1>5. TypesInv'
  BY <1>1, <1>4 DEF AgreementInv, TypesInv
<1>6. delivery.holdBase \in Nat
  BY DEF AgreementInv, TypesInv, Delivery
<1>7. ClocksInv'
  BY <1>1, <1>2, <1>4, <1>6 DEF AgreementInv, ClocksInv, Covered
<1>8. DisputesInv'
  BY <1>1 DEF AgreementInv, DisputesInv, Delivered, PlanPaid, Count
<1> QED BY <1>1, <1>4, <1>5, <1>7, <1>8, ChecksFrame DEF AgreementInv

LEMMA TickKeeps ==
    ASSUME AgreementInv, Tick
    PROVE  AgreementInv'
<1>1. /\ now' = now + 1
      /\ UNCHANGED <<terms, state, fundedAt, partsPaid, paid, delivery, revision, deadline,
                     requested, dispute, holdUsed, verdicts>>
  BY DEF Tick, dealVars, trancheVars, deliveryVars, dueVars, talkVars, holdVars, checkVars
<1>2. TypesInv'
  BY <1>1 DEF AgreementInv, TypesInv
<1>3. delivery.at \in Nat /\ dispute.openedAt \in Nat /\ now \in Nat
  BY DEF AgreementInv, TypesInv, Delivery, DisputeRecord
<1>4. ClocksInv'
  BY <1>1, <1>3 DEF AgreementInv, ClocksInv, Covered
<1>5. DisputesInv'
  <2>1. state' = "Disputed" => dispute'.openedAt # 0 /\ dispute'.openedAt <= now' /\ Delivered'
    BY <1>1, <1>3 DEF AgreementInv, DisputesInv, Delivered
  <2> QED BY <1>1, <2>1 DEF AgreementInv, DisputesInv, Delivered, PlanPaid, Count
<1> QED BY <1>1, <1>2, <1>4, <1>5, ChecksFrame DEF AgreementInv

-----------------------------------------------------------------------------
(***************************************************************************)
(* The steps of the deal.                                                  *)
(***************************************************************************)

\* Offers, stakes, the hub and the end of a hold leave everything the invariant speaks of alone.
TalkStep == CancelSplit \/ \E who \in Parties, bps \in Shares : ProposeSplit(who, bps)
HubStep == RevokeFamily \/ \E allowed \in BOOLEAN : SetAsset(allowed)
VaultStep == KeepStake \/ ReleaseStale
SideStep == TalkStep \/ HubStep \/ VaultStep \/ ReleaseHold

Idle == UNCHANGED <<now, terms, state, fundedAt, partsPaid, paid, released, feeReleased, delivery,
                    revision, deadline, requested, dispute, holdUsed, verdicts, moneyVars>>

FundingStep ==
    \/ \E t \in Offered : Fund(t)
    \/ PayPart \/ Accept \/ AcceptWithStake \/ CancelMissed \/ CancelUnaccepted

DeliveryStep ==
    \/ MarkDelivered \/ StartReview \/ RequestMoreTime
    \/ \E pass \in BOOLEAN : SignVerdict(pass)
    \/ \E c \in verdicts : AttestCheck(c)

PaymentStep ==
    \/ Release \/ Claim \/ Reclaim
    \/ \E who \in Parties : AcceptSplit(who)
    \/ \E x \in {ShareOf(balance, bps) : bps \in Shares} : LongstopSplit(x)

DeadlineStep ==
    \/ \E to \in Deadlines : ExtendDeadline(to) \/ RequestExtension(to)
    \/ ApproveExtension

DisputeStep ==
    \/ \E bps \in Shares : ProposeRuling(bps)
    \/ \E who \in Parties \cup {"arbiter", "anyone"} : Escalate(who)
    \/ state = "Disputed" /\ \E bps \in Shares \cup {dispute.bps, terms.fallbackBps} : RuleTranche(bps)

LEMMA HubSteps ==
    ASSUME NEW h, SetHub(h)
    PROVE  Idle
BY DEF SetHub, Idle, dealVars, trancheVars, deliveryVars, dueVars, talkVars, holdVars, checkVars

LEMMA SideIsIdle ==
    ASSUME SideStep
    PROVE  Idle
<1>1. KeepStake \/ ReleaseStale \/ ReleaseHold => Idle
  BY DEF KeepStake, ReleaseStale, ReleaseHold, Idle, dealVars, trancheVars, deliveryVars, dueVars,
         talkVars, holdVars, checkVars
<1>2. ASSUME NEW o, Talks(dispute, o), state' = state
      PROVE  Idle
  BY <1>2 DEF Talks, Idle, trancheVars, deliveryVars, dueVars, holdVars, checkVars
<1>3. TalkStep => Idle
  BY <1>2 DEF TalkStep, ProposeSplit, CancelSplit
<1>4. HubStep => Idle
  BY HubSteps DEF HubStep, RevokeFamily, SetAsset
<1> QED BY <1>1, <1>3, <1>4 DEF SideStep, VaultStep

LEMMA StepCases ==
    ASSUME Next
    PROVE  \/ SideStep \/ FundingStep \/ DeliveryStep \/ PaymentStep \/ DeadlineStep \/ DisputeStep
           \/ \E who \in Parties : Dispute(who)
           \/ Hold \/ Tick
<1>1. CASE PartyStep
  <2>1. CASE \E t \in Offered : Fund(t)
    BY <2>1 DEF FundingStep
  <2>2. CASE PayPart \/ Accept \/ AcceptWithStake \/ CancelUnaccepted
    BY <2>2 DEF FundingStep
  <2>3. CASE MarkDelivered \/ StartReview \/ RequestMoreTime
    BY <2>3 DEF DeliveryStep
  <2>4. CASE Release
    BY <2>4 DEF PaymentStep
  <2>5. CASE ApproveExtension \/ \E to \in Deadlines : ExtendDeadline(to) \/ RequestExtension(to)
    BY <2>5 DEF DeadlineStep
  <2>6. CASE CancelSplit \/ \E who \in Parties, bps \in Shares : ProposeSplit(who, bps)
    BY <2>6 DEF SideStep, TalkStep
  <2>7. CASE \E who \in Parties : AcceptSplit(who)
    BY <2>7 DEF PaymentStep
  <2>8. CASE \E who \in Parties : Dispute(who)
    BY <2>8
  <2> QED BY <1>1, <2>1, <2>2, <2>3, <2>4, <2>5, <2>6, <2>7, <2>8, Zenon DEF PartyStep
<1>2. CASE OfficerStep
  <2>1. CASE \E bps \in Shares : ProposeRuling(bps)
    BY <2>1 DEF DisputeStep
  <2>2. CASE \E bps \in Shares : Rule(bps)
    BY <2>2 DEF DisputeStep, Rule
  <2>3. CASE \E who \in Parties \cup {"arbiter"} : Escalate(who)
    BY <2>3 DEF DisputeStep
  <2>4. CASE \E pass \in BOOLEAN : SignVerdict(pass)
    BY <2>4 DEF DeliveryStep
  <2>5. CASE Hold \/ ReleaseHold
    BY <2>5 DEF SideStep
  <2>6. CASE \E bps \in Shares : LongstopSplit(ShareOf(balance, bps))
    BY <2>6 DEF PaymentStep
  <2> QED BY <1>2, <2>1, <2>2, <2>3, <2>4, <2>5, <2>6, Zenon DEF OfficerStep
<1>3. CASE KeeperStep
  <2>1. CASE CancelMissed
    BY <2>1 DEF FundingStep
  <2>2. CASE Claim \/ Reclaim
    BY <2>2 DEF PaymentStep
  <2>3. CASE Escalate("anyone")
    BY <2>3 DEF DisputeStep
  <2>4. CASE ExecuteRuling
    BY <2>4 DEF DisputeStep, ExecuteRuling, ProposalStands
  <2>5. CASE ApplyFallback
    BY <2>5 DEF DisputeStep, ApplyFallback, RulingLate
  <2> QED BY <1>3, <2>1, <2>2, <2>3, <2>4, <2>5 DEF KeeperStep
<1>4. CASE AnyoneStep
  <2>1. CASE KeepStake \/ ReleaseStale
    BY <2>1 DEF SideStep, VaultStep
  <2>2. CASE \E k \in 0..MaxTranches : ReleaseBySig(k)
    BY <2>2 DEF PaymentStep, ReleaseBySig
  <2>3. CASE \E c \in verdicts : AttestCheck(c)
    BY <2>3 DEF DeliveryStep
  <2> QED BY <1>3, <1>4, <2>1, <2>2, <2>3, Zenon DEF AnyoneStep
<1>5. CASE GovernanceStep
  BY <1>5 DEF GovernanceStep, SideStep, HubStep
<1>6. CASE TimeStep
  BY <1>6 DEF TimeStep
<1> QED BY <1>1, <1>2, <1>4, <1>5, <1>6 DEF Next

-----------------------------------------------------------------------------
(***************************************************************************)
(* The invariant.                                                          *)
(***************************************************************************)
LEMMA StutterIdle ==
    ASSUME UNCHANGED vars
    PROVE  Idle
BY DEF vars, Idle, dealVars, trancheVars, deliveryVars, dueVars, talkVars, holdVars, checkVars

LEMMA InitKeeps == Init => AgreementInv
<1> SUFFICES ASSUME Init PROVE AgreementInv
  OBVIOUS
<1>1. terms \in Terms
  <2>1. <<>> \in Seq(Nat) /\ 0 \in 0..BPS /\ 0 \in Nat
    OBVIOUS
  <2> QED BY <2>1 DEF Init, NoTerms, Terms
<1>2. TypesInv
  <2>1. delivery \in Delivery
    BY DEF Init, NoDelivery, Delivery
  <2>2. dispute \in DisputeRecord
    BY DEF Init, NoDispute, DisputeRecord
  <2> QED BY <1>1, <2>1, <2>2 DEF Init, TypesInv, States
<1>3. ClocksInv
  BY DEF Init, ClocksInv, Covered, NoTerms, NoDelivery
<1>4. DisputesInv
  BY DEF Init, DisputesInv, NoDelivery, Delivered, Running
<1>5. ChecksInv
  BY DEF Init, ChecksInv, CheckFitsTranche
<1> QED BY <1>2, <1>3, <1>4, <1>5 DEF AgreementInv

LEMMA NextKeeps == AgreementInv /\ [Next]_vars => AgreementInv'
<1> SUFFICES ASSUME AgreementInv, [Next]_vars PROVE AgreementInv'
  OBVIOUS
<1>1. CASE Idle
  BY <1>1, QuietKeeps DEF Idle
<1>2. CASE FundingStep
  BY <1>2, FundKeeps, PayPartKeeps, AcceptKeeps, CancelMissedKeeps, CancelUnacceptedKeeps
      DEF FundingStep, Accept, AcceptWithStake
<1>3. CASE DeliveryStep
  BY <1>3, MarkKeeps, StartReviewKeeps, MoreTimeKeeps, SignKeeps, AttestKeeps DEF DeliveryStep
<1>4. CASE PaymentStep
  BY <1>4, ReleaseKeeps, ClaimKeeps, ReclaimKeeps, AcceptSplitKeeps, LongstopKeeps DEF PaymentStep
<1>5. CASE DeadlineStep
  BY <1>5, ExtendKeeps, RequestKeeps, ApproveKeeps DEF DeadlineStep
<1>6. CASE DisputeStep
  BY <1>6, ProposeKeeps, EscalateKeeps, RulingKeeps DEF DisputeStep
<1>7. CASE \E who \in Parties : Dispute(who)
  BY <1>7, DisputeKeeps
<1>8. CASE Hold
  BY <1>8, HoldKeeps
<1>9. CASE Tick
  BY <1>9, TickKeeps
<1>10. CASE UNCHANGED vars
  BY <1>1, <1>10, StutterIdle
<1> QED BY <1>1, <1>2, <1>3, <1>4, <1>5, <1>6, <1>7, <1>8, <1>9, <1>10, StepCases, SideIsIdle

\* The clocks, the dispute and the checks of a deal always agree with its state and its terms.
THEOREM AgreementsKept == Spec => []AgreementInv
BY InitKeeps, NextKeeps, PTL DEF Spec

\* A deal is disputed exactly while its dispute clock runs, about a delivered tranche of a paid plan.
THEOREM DisputesMatch == Spec => []DisputeMatchesState
<1>1. AgreementInv => DisputeMatchesState
  BY DEF AgreementInv, TypesInv, DisputesInv, DisputeMatchesState, Running, NoDispute
<1> QED BY <1>1, AgreementsKept, PTL

-----------------------------------------------------------------------------
(***************************************************************************)
(* The review is what the terms promise.                                   *)
(***************************************************************************)
LEMMA ProductMonotone ==
    ASSUME NEW a \in Nat, NEW b \in Nat, NEW x \in Nat, a <= b
    PROVE  a * x \in Nat /\ b * x \in Nat /\ a * x <= b * x
<1>1. b = a + (b - a) /\ b - a \in Nat
  OBVIOUS
<1>2. PICK d \in Nat : b = a + d
  BY <1>1
<1>3. b * x = a * x + d * x /\ d * x \in Nat /\ a * x \in Nat
  BY <1>2
<1> QED BY <1>3

LEMMA ReviewIsKept ==
    ASSUME AgreementInv
    PROVE  ReviewKept
<1> SUFFICES ASSUME Delivered PROVE
        /\ delivery.start # 0 =>
              /\ delivery.start >= delivery.at
              /\ delivery.end = delivery.start + terms.reviewWindow + delivery.ext * terms.extensionSecs
        /\ ReviewEnd - HoldSince <= delivery.at + terms.silentLongstop
        /\ ClaimOpen => now >= delivery.at + terms.reviewWindow + HoldSince
  BY DEF ReviewKept
<1>1. /\ delivery.at \in Nat /\ delivery.start \in Nat /\ delivery.end \in Nat /\ delivery.ext \in Nat
      /\ delivery.holdBase \in Nat /\ holdUsed \in Nat /\ now \in Nat
  BY DEF AgreementInv, TypesInv, Delivery
<1>2. /\ terms.reviewWindow \in Nat /\ terms.startLongstop \in Nat /\ terms.extensionSecs \in Nat
      /\ terms.maxExtensions \in Nat /\ terms.silentLongstop \in Nat
  BY DEF AgreementInv, TypesInv, Terms
<1>3. HoldSince \in Int
  BY <1>1 DEF HoldSince
<1>4. ClaimOpen => now >= ReviewEnd
  BY DEF ClaimOpen
<1> DEFINE given == delivery.ext * terms.extensionSecs
           most == terms.maxExtensions * terms.extensionSecs
<1>5. terms.silentLongstop >= terms.startLongstop + terms.reviewWindow + most
  BY DEF AgreementInv, ClocksInv, Covered
<1>6. most \in Nat
  BY <1>2
<1>7. CASE delivery.start = 0
  <2>1. ReviewEnd = delivery.at + terms.startLongstop + terms.reviewWindow + HoldSince
    BY <1>7 DEF ReviewEnd
  <2> HIDE DEF most
  <2> QED BY <1>1, <1>2, <1>3, <1>4, <1>5, <1>6, <1>7, <2>1
<1>8. CASE delivery.start # 0
  <2>1. ReviewEnd = delivery.end + HoldSince
    BY <1>8 DEF ReviewEnd
  <2>2. /\ delivery.start >= delivery.at /\ delivery.start <= delivery.at + terms.startLongstop
        /\ delivery.end = delivery.start + terms.reviewWindow + given
        /\ delivery.ext <= terms.maxExtensions
    BY <1>8 DEF AgreementInv, ClocksInv
  <2>3. given \in Nat /\ given <= most
    BY <1>1, <1>2, <2>2, ProductMonotone
  <2>4. delivery.end = delivery.start + terms.reviewWindow + delivery.ext * terms.extensionSecs
    BY <2>2
  <2> HIDE DEF most, given
  <2>5. /\ ReviewEnd - HoldSince <= delivery.at + terms.silentLongstop
        /\ ClaimOpen => now >= delivery.at + terms.reviewWindow + HoldSince
    BY <1>1, <1>2, <1>3, <1>4, <1>5, <1>6, <2>1, <2>2, <2>3
  <2> QED BY <2>2, <2>4, <2>5
<1> QED BY <1>7, <1>8

\* A delivery is reviewed for as long as the terms promise and by the check that examined it.
THEOREM ReviewsHold == Spec => []ReviewsAsAgreed
<1>1. AgreementInv => ReviewsAsAgreed
  BY ReviewIsKept DEF AgreementInv, ChecksInv, ReviewsAsAgreed
<1> QED BY <1>1, AgreementsKept, PTL

-----------------------------------------------------------------------------
(***************************************************************************)
(* What has opened stays open.                                             *)
(***************************************************************************)
ClaimSurvives ==
    \/ ClaimOpen'
    \/ state' \in Ended
    \/ paid' > paid
    \/ revision' > revision
    \/ holdUsed' > holdUsed
    \/ dispute'.opener = "seller"

RefundSurvives ==
    \/ ReclaimOpen'
    \/ state' \in Ended
    \/ paid' > paid
    \/ deadline' > deadline
    \/ dispute'.opener = "buyer"
    \/ delivery'.passed /\ Delivered

\* Nothing a claim or a refund reads has changed.
LEMMA OpenFrame ==
    ASSUME UNCHANGED <<now, terms, state, partsPaid, paid, delivery, deadline, holdUsed>>
    PROVE  (ClaimOpen => ClaimOpen') /\ (ReclaimOpen => ReclaimOpen')
BY DEF ClaimOpen, ReclaimOpen, Delivered, ReviewEnd, HoldSince, Silent, LastTranche, Count, PlanPaid

LEMMA IdleOpen ==
    ASSUME Idle
    PROVE  (ClaimOpen => ClaimSurvives) /\ (ReclaimOpen => RefundSurvives)
BY OpenFrame DEF Idle, ClaimSurvives, RefundSurvives

LEMMA FundingOpen ==
    ASSUME AgreementInv, FundingStep
    PROVE  (ClaimOpen => ClaimSurvives) /\ (ReclaimOpen => RefundSurvives)
<1>1. CASE CancelMissed \/ CancelUnaccepted
  BY <1>1 DEF CancelMissed, CancelUnaccepted, Ends, Ended, ClaimSurvives, RefundSurvives
<1>2. CASE (\E t \in Offered : Fund(t)) \/ PayPart \/ Accepts
  <2>1. (\E t \in Offered : Fund(t)) \/ Accepts => state # "Accepted"
    BY DEF Fund, Accepts
  <2>2. PayPart => ~PlanPaid
    BY DEF PayPart
  <2>3. ClaimOpen => state = "Accepted" /\ PlanPaid
    BY DEF ClaimOpen, AgreementInv, DisputesInv
  <2>4. ReclaimOpen => state = "Accepted" /\ PlanPaid
    BY DEF ReclaimOpen
  <2> QED BY <1>2, <2>1, <2>2, <2>3, <2>4
<1> QED BY <1>1, <1>2 DEF FundingStep, Accept, AcceptWithStake

\* A new delivery restarts the review; it never comes once the refund is open.
LEMMA MarkOpen ==
    ASSUME AgreementInv, MarkDelivered
    PROVE  (ClaimOpen => ClaimSurvives) /\ (ReclaimOpen => RefundSurvives)
<1>1. revision' > revision
  BY DEF MarkDelivered, AgreementInv, TypesInv
<1>2. deadline \in Nat /\ terms.reclaimGrace \in Nat /\ now \in Nat
  BY DEF AgreementInv, TypesInv, Terms
<1>3. ~ReclaimOpen
  BY <1>2 DEF MarkDelivered, ReclaimOpen
<1> QED BY <1>1, <1>3 DEF ClaimSurvives

\* A review that starts after the claim has opened starts, by its longstop, where the claim took it.
LEMMA LateStart ==
    ASSUME AgreementInv, ClaimOpen, delivery.start = 0, NEW v \in Delivery,
           v.at = delivery.at, v.holdBase = delivery.holdBase, v.start = 0, v.ext = 0, ~v.failed,
           delivery.passed => v.passed,
           delivery' = Started(v), UNCHANGED <<now, terms, state, paid, holdUsed>>
    PROVE  ClaimOpen'
<1>1. /\ state = "Accepted" /\ delivery.at # 0 /\ ~terms.deposit /\ now >= ReviewEnd
      /\ terms.reviewStarts = "check" /\ ~delivery.passed => Silent
      /\ LastTranche /\ terms.finalByBuyer => Silent
  BY DEF ClaimOpen, Delivered
<1>2. /\ delivery.at \in Nat /\ delivery.holdBase \in Nat /\ holdUsed \in Nat /\ now \in Nat
      /\ terms.startLongstop \in Nat /\ terms.reviewWindow \in Nat
      /\ delivery.holdBase <= holdUsed /\ delivery.at <= now
  BY DEF AgreementInv, TypesInv, ClocksInv, Delivery, Terms
<1>3. now >= delivery.at + terms.startLongstop + terms.reviewWindow + HoldSince
  BY <1>1 DEF ReviewEnd
<1>4. HoldSince \in Nat
  BY <1>2 DEF HoldSince
<1>5. AtMost(now, delivery.at + terms.startLongstop) = delivery.at + terms.startLongstop
  BY <1>2, <1>3, <1>4 DEF AtMost
<1>6. /\ delivery'.at = delivery.at /\ delivery'.holdBase = delivery.holdBase
      /\ delivery'.passed = v.passed /\ delivery'.failed = v.failed
      /\ delivery'.start = delivery.at + terms.startLongstop /\ delivery'.start # 0
      /\ delivery'.end = delivery.at + terms.startLongstop + terms.reviewWindow
  BY <1>1, <1>2, <1>5, StartedReview DEF AgreementInv
<1>7. HoldSince' = HoldSince
  BY <1>6 DEF HoldSince
<1>8. now' >= ReviewEnd'
  BY <1>3, <1>6, <1>7 DEF ReviewEnd
<1>9. Silent' = Silent /\ LastTranche' = LastTranche
  BY <1>6, <1>7 DEF Silent, LastTranche, Count
<1> QED BY <1>1, <1>6, <1>8, <1>9 DEF ClaimOpen, Delivered

LEMMA StartReviewOpen ==
    ASSUME AgreementInv, StartReview
    PROVE  (ClaimOpen => ClaimSurvives) /\ (ReclaimOpen => RefundSurvives)
<1> DEFINE waived == terms.reviewStarts = "check"
           w == [delivery EXCEPT !.passed = @ \/ waived, !.failed = @ /\ ~waived]
<1>1. /\ delivery.start = 0 /\ Delivered /\ delivery' = Started(w)
      /\ UNCHANGED <<now, terms, state, partsPaid, paid, deadline, holdUsed>>
  BY DEF StartReview, Reviews, dealVars, trancheVars, dueVars, holdVars
<1>2. delivery \in Delivery
  BY DEF AgreementInv, TypesInv
<1>3. /\ w \in Delivery /\ w.at = delivery.at /\ w.holdBase = delivery.holdBase
      /\ w.start = delivery.start /\ w.ext = delivery.ext
      /\ w.passed = (delivery.passed \/ waived) /\ w.failed = (delivery.failed /\ ~waived)
  BY <1>2 DEF Delivery
<1>4. w.ext = 0 /\ w.at # 0 /\ w.at <= now
  BY <1>1, <1>3 DEF AgreementInv, ClocksInv, Delivered
<1> HIDE DEF w
<1>5. ASSUME ClaimOpen PROVE ClaimOpen'
  <2>1. ~delivery.failed
    BY <1>5 DEF ClaimOpen
  <2>2. delivery.passed \in BOOLEAN /\ delivery.failed \in BOOLEAN
    BY <1>2 DEF Delivery
  <2>3. ~w.failed /\ (delivery.passed => w.passed)
    BY <1>3, <2>1, <2>2
  <2> QED BY <1>1, <1>3, <1>4, <1>5, <2>3, LateStart
<1>6. /\ delivery'.at = delivery.at /\ delivery'.passed = w.passed /\ delivery'.failed = w.failed
  BY <1>1, <1>3, <1>4, StartedReview DEF AgreementInv
<1>7. ASSUME ReclaimOpen, ~terms.deposit PROVE delivery'.passed /\ Delivered
  BY <1>1, <1>3, <1>6, <1>7 DEF ReclaimOpen
<1>8. ASSUME ReclaimOpen, terms.deposit PROVE ReclaimOpen'
  BY <1>1, <1>8 DEF ReclaimOpen, PlanPaid
<1> QED BY <1>5, <1>7, <1>8 DEF ClaimSurvives, RefundSurvives

\* A failed check comes too late for a claim that waited for it, and leaves a passed one alone; a
\* pass opens what it opens.
LEMMA AttestOpen ==
    ASSUME AgreementInv, NEW c \in verdicts, AttestCheck(c)
    PROVE  (ClaimOpen => ClaimSurvives) /\ (ReclaimOpen => RefundSurvives)
<1>1. /\ Delivered
      /\ ~c.pass => ~Silent
      /\ delivery' = IF c.pass THEN Passed(delivery) ELSE Failed(delivery)
      /\ UNCHANGED <<now, terms, state, partsPaid, paid, deadline, holdUsed>>
  BY DEF AttestCheck, Reviews, dealVars, trancheVars, dueVars, holdVars
<1>2. delivery \in Delivery /\ delivery.passed \in BOOLEAN /\ delivery.failed \in BOOLEAN
  BY DEF AgreementInv, TypesInv, Delivery
<1>3. terms.reviewStarts = "check" /\ Delivered
  <2>1. verdicts # {}
    OBVIOUS
  <2> QED BY <1>1, <2>1, Zenon DEF AgreementInv, ChecksInv
<1>4. CASE ~c.pass
  <2>1. delivery' = [delivery EXCEPT !.failed = delivery.failed \/ ~delivery.passed]
    BY <1>1, <1>4 DEF Failed
  <2>2. /\ delivery'.at = delivery.at /\ delivery'.start = delivery.start /\ delivery'.end = delivery.end
        /\ delivery'.holdBase = delivery.holdBase /\ delivery'.passed = delivery.passed
        /\ delivery'.failed = (delivery.failed \/ ~delivery.passed)
    BY <1>2, <2>1 DEF Delivery
  <2>3. ASSUME ClaimOpen PROVE ClaimOpen'
    <3>1. delivery.passed
      BY <1>1, <1>3, <1>4, <2>3 DEF ClaimOpen
    <3>2. ~delivery.failed /\ ~delivery'.failed
      BY <2>2, <2>3, <3>1 DEF ClaimOpen
    <3>3. HoldSince' = HoldSince /\ ReviewEnd' = ReviewEnd /\ Silent' = Silent /\ LastTranche' = LastTranche
      BY <1>1, <2>2 DEF HoldSince, ReviewEnd, Silent, LastTranche, Count
    <3> QED BY <1>1, <2>2, <2>3, <3>2, <3>3 DEF ClaimOpen, Delivered
  <2>4. ASSUME ReclaimOpen PROVE ReclaimOpen'
    <3>1. terms.deposit \/ (delivery.failed /\ ~delivery.passed)
      BY <1>3, <2>4 DEF ReclaimOpen
    <3>2. terms.deposit \/ (delivery'.failed /\ ~delivery'.passed)
      BY <2>2, <3>1
    <3> QED BY <1>1, <1>3, <2>4, <3>2 DEF ReclaimOpen, PlanPaid
  <2> QED BY <2>3, <2>4 DEF ClaimSurvives, RefundSurvives
<1>5. CASE c.pass
  <2> DEFINE w == [delivery EXCEPT !.passed = TRUE, !.failed = FALSE]
  <2>1. /\ w \in Delivery /\ w.at = delivery.at /\ w.start = delivery.start /\ w.end = delivery.end
        /\ w.ext = delivery.ext /\ w.holdBase = delivery.holdBase /\ w.passed /\ ~w.failed
    BY <1>2 DEF Delivery
  <2>2. delivery' = IF w.start = 0 THEN Started(w) ELSE w
    BY <1>1, <1>5, <2>1 DEF Passed
  <2> HIDE DEF w
  <2>3. CASE delivery.start = 0
    <3>1. w.ext = 0 /\ w.at # 0 /\ w.at <= now /\ w.start = 0 /\ delivery' = Started(w)
      <4>1. delivery.at # 0 /\ delivery.at <= now /\ delivery.ext = 0
        BY <1>3, <2>3 DEF AgreementInv, ClocksInv, Delivered
      <4> QED BY <2>1, <2>2, <2>3, <4>1
    <3>2. ClaimOpen => ClaimOpen'
      BY <1>1, <2>1, <2>3, <3>1, LateStart
    <3>3. delivery'.passed
      BY <2>1, <3>1, StartedReview DEF AgreementInv
    <3> QED BY <1>3, <3>2, <3>3, Zenon DEF ClaimSurvives, RefundSurvives
  <2>4. CASE delivery.start # 0
    <3>1. delivery' = w
      BY <2>1, <2>2, <2>4
    <3>2. HoldSince' = HoldSince /\ ReviewEnd' = ReviewEnd /\ Silent' = Silent /\ LastTranche' = LastTranche
      BY <1>1, <2>1, <3>1 DEF HoldSince, ReviewEnd, Silent, LastTranche, Count
    <3>3. ClaimOpen => ClaimOpen'
      BY <1>1, <2>1, <3>1, <3>2 DEF ClaimOpen, Delivered
    <3>4. delivery'.passed
      BY <2>1, <3>1
    <3> QED BY <1>3, <3>3, <3>4, Zenon DEF ClaimSurvives, RefundSurvives
  <2> QED BY <2>3, <2>4
<1> QED BY <1>4, <1>5

LEMMA MoreTimeOpen ==
    ASSUME AgreementInv, RequestMoreTime
    PROVE  (ClaimOpen => ClaimSurvives) /\ (ReclaimOpen => RefundSurvives)
<1>1. /\ now < ReviewEnd /\ delivery.start # 0
      /\ delivery' = [delivery EXCEPT !.ext = @ + 1, !.end = @ + terms.extensionSecs]
      /\ UNCHANGED <<now, terms, state, partsPaid, paid, deadline, holdUsed>>
  BY DEF RequestMoreTime, Reviews, dealVars, trancheVars, dueVars, holdVars
<1>2. delivery \in Delivery /\ now \in Nat /\ holdUsed \in Nat
  BY DEF AgreementInv, TypesInv
<1>3. ReviewEnd \in Int
  BY <1>1, <1>2 DEF ReviewEnd, HoldSince, Delivery
<1>4. ~ClaimOpen
  BY <1>1, <1>2, <1>3 DEF ClaimOpen
<1>5. /\ delivery'.at = delivery.at /\ delivery'.passed = delivery.passed
      /\ delivery'.failed = delivery.failed
  BY <1>1, <1>2 DEF Delivery
<1>6. ReclaimOpen => ReclaimOpen'
  BY <1>1, <1>5 DEF ReclaimOpen, Delivered, PlanPaid
<1> QED BY <1>4, <1>6 DEF RefundSurvives

LEMMA SignOpen ==
    ASSUME NEW pass, SignVerdict(pass)
    PROVE  (ClaimOpen => ClaimSurvives) /\ (ReclaimOpen => RefundSurvives)
BY OpenFrame DEF SignVerdict, ClaimSurvives, RefundSurvives, dealVars, trancheVars, deliveryVars,
                 dueVars, holdVars

LEMMA PaymentOpen ==
    ASSUME AgreementInv, PaymentStep
    PROVE  ClaimSurvives /\ RefundSurvives
<1>1. ASSUME NextTranche PROVE paid' > paid
  BY <1>1 DEF NextTranche, AgreementInv, TypesInv
<1>2. CASE Release \/ Claim
  BY <1>1, <1>2 DEF Release, Claim, PayTranche, ClaimSurvives, RefundSurvives
<1>3. CASE Reclaim
  BY <1>3 DEF Reclaim, Ends, Ended, ClaimSurvives, RefundSurvives
<1>4. ASSUME NEW who, AcceptSplit(who) PROVE state' \in Ended
  BY <1>4 DEF AcceptSplit, Splits, Ends, Ended
<1>5. ASSUME NEW x, LongstopSplit(x) PROVE state' \in Ended
  BY <1>5 DEF LongstopSplit, Ends, Ended
<1> QED BY <1>2, <1>3, <1>4, <1>5 DEF PaymentStep, ClaimSurvives, RefundSurvives

LEMMA DeadlineOpen ==
    ASSUME AgreementInv, DeadlineStep
    PROVE  (ClaimOpen => ClaimSurvives) /\ (ReclaimOpen => RefundSurvives)
<1>1. ASSUME NEW to, MovesDeadline(to) PROVE (ClaimOpen => ClaimOpen') /\ deadline' > deadline
  BY <1>1 DEF MovesDeadline, ClaimOpen, Delivered, ReviewEnd, HoldSince, Silent, LastTranche, Count,
              dealVars, trancheVars, deliveryVars, holdVars
<1>2. ASSUME NEW to, RequestExtension(to)
      PROVE  (ClaimOpen => ClaimOpen') /\ (ReclaimOpen => ReclaimOpen')
  BY <1>2, OpenFrame DEF RequestExtension, dealVars, trancheVars, deliveryVars, holdVars
<1> QED BY <1>1, <1>2 DEF DeadlineStep, ExtendDeadline, ApproveExtension, ClaimSurvives, RefundSurvives

\* Neither side can dispute what the other can already take.
LEMMA DisputeOpen ==
    ASSUME NEW who \in Parties, Dispute(who)
    PROVE  (ClaimOpen => ClaimSurvives) /\ (ReclaimOpen => RefundSurvives)
<1>1. dispute'.opener = who
  BY DEF Dispute, Talks, NoDispute
<1>2. CASE who = "buyer"
  BY <1>1, <1>2 DEF Dispute, RefundSurvives
<1>3. CASE who = "seller"
  BY <1>1, <1>3 DEF Dispute, ClaimSurvives
<1> QED BY <1>2, <1>3 DEF Parties

LEMMA RulingOpen ==
    ASSUME DisputeStep
    PROVE  ~ClaimOpen /\ ~ReclaimOpen
<1>1. state = "Disputed"
  BY DEF DisputeStep, ProposeRuling, Escalate
<1> QED BY <1>1 DEF ClaimOpen, ReclaimOpen

LEMMA HoldOpen ==
    ASSUME AgreementInv, Hold
    PROVE  ClaimSurvives /\ (ReclaimOpen => RefundSurvives)
<1>1. holdUsed' > holdUsed
  BY HoldKeeps
<1>2. ReclaimOpen => ReclaimOpen'
  BY DEF Hold, ReclaimOpen, Delivered, PlanPaid, dealVars, deliveryVars, dueVars
<1> QED BY <1>1, <1>2 DEF ClaimSurvives, RefundSurvives

LEMMA TickOpen ==
    ASSUME AgreementInv, Tick
    PROVE  (ClaimOpen => ClaimSurvives) /\ (ReclaimOpen => RefundSurvives)
<1>1. now' = now + 1 /\ UNCHANGED <<terms, state, partsPaid, paid, delivery, deadline, holdUsed>>
  BY DEF Tick, dealVars, trancheVars, deliveryVars, dueVars, holdVars
<1>2. /\ now \in Nat /\ deadline \in Nat /\ terms.reclaimGrace \in Nat /\ delivery \in Delivery
      /\ holdUsed \in Nat /\ terms.startLongstop \in Nat /\ terms.reviewWindow \in Nat
      /\ terms.silentLongstop \in Nat
  BY DEF AgreementInv, TypesInv, Terms
<1>3. ReclaimOpen => ReclaimOpen'
  BY <1>1, <1>2 DEF ReclaimOpen, Delivered, PlanPaid
<1>4. HoldSince \in Int /\ HoldSince' = HoldSince /\ ReviewEnd \in Int /\ ReviewEnd' = ReviewEnd
  BY <1>1, <1>2 DEF ReviewEnd, HoldSince, Delivery
<1>5. now >= ReviewEnd => now' >= ReviewEnd'
  BY <1>1, <1>2, <1>4
<1>6. Silent => Silent'
  BY <1>1, <1>2, <1>4 DEF Silent, Delivery
<1>7. ClaimOpen => ClaimOpen'
  BY <1>1, <1>5, <1>6 DEF ClaimOpen, Delivered, LastTranche, Count
<1> QED BY <1>3, <1>7 DEF ClaimSurvives, RefundSurvives

LEMMA OpenStaysOpen ==
    AgreementInv /\ [Next]_vars => (ClaimOpen => ClaimSurvives) /\ (ReclaimOpen => RefundSurvives)
<1> SUFFICES ASSUME AgreementInv, [Next]_vars
             PROVE  (ClaimOpen => ClaimSurvives) /\ (ReclaimOpen => RefundSurvives)
  OBVIOUS
<1>1. CASE Idle
  BY <1>1, IdleOpen
<1>2. CASE FundingStep
  BY <1>2, FundingOpen
<1>3. CASE DeliveryStep
  BY <1>3, MarkOpen, StartReviewOpen, MoreTimeOpen, SignOpen, AttestOpen DEF DeliveryStep
<1>4. CASE PaymentStep
  BY <1>4, PaymentOpen
<1>5. CASE DeadlineStep
  BY <1>5, DeadlineOpen
<1>6. CASE DisputeStep
  BY <1>6, RulingOpen
<1>7. CASE \E who \in Parties : Dispute(who)
  BY <1>7, DisputeOpen
<1>8. CASE Hold
  BY <1>8, HoldOpen
<1>9. CASE Tick
  BY <1>9, TickOpen
<1>10. CASE UNCHANGED vars
  BY <1>1, <1>10, StutterIdle
<1> QED BY <1>1, <1>2, <1>3, <1>4, <1>5, <1>6, <1>7, <1>8, <1>9, <1>10, StepCases, SideIsIdle

\* A claim that has opened stays open, whatever the buyer, the verifier or anyone else does, until
\* something the seller did, agreed to or was paid by takes it away, or a guardian's hold moves it.
THEOREM ClaimsStay == Spec => ClaimStaysOpen
<1>1. AgreementInv /\ [Next]_vars => [ClaimOpen => ClaimSurvives]_vars
  BY OpenStaysOpen
<1> QED BY <1>1, AgreementsKept, PTL DEF Spec, ClaimStaysOpen, ClaimSurvives

\* A refund that has opened stays open, whatever the seller or anyone else does.
THEOREM RefundsStay == Spec => RefundStaysOpen
<1>1. AgreementInv /\ [Next]_vars => [ReclaimOpen => RefundSurvives]_vars
  BY OpenStaysOpen
<1> QED BY <1>1, AgreementsKept, PTL DEF Spec, RefundStaysOpen, RefundSurvives

\* So neither side's clock, once it has run out, is set back by the other alone.
THEOREM ClocksStay == Spec => OpenClocksStay
BY ClaimsStay, RefundsStay DEF OpenClocksStay

-----------------------------------------------------------------------------
(***************************************************************************)
(* The deal's money is an account.                                         *)
(***************************************************************************)
Paid == got.buyer + got.seller

\* A deal that runs holds what came in and has not been paid out.
MoneyInv ==
    /\ funded \in Nat /\ balance \in Int /\ promised \in Int /\ feePaid \in Nat
    /\ got.buyer \in Nat /\ got.seller \in Nat
    /\ state = "None" => Paid = 0 /\ feePaid = 0
    /\ state \notin Ended => balance + Paid + feePaid = funded

Phase == IF state = "None" THEN "None" ELSE IF state \in Ended THEN "Closed" ELSE "Live"

LEMMA ShareNat ==
    ASSUME NEW x \in Nat, NEW bps \in Nat
    PROVE  ShareOf(x, bps) \in Nat
<1>1. x * bps \in Nat /\ BPS \in Nat \ {0}
  OBVIOUS
<1> DEFINE p == x * bps
<1> HIDE DEF p
<1>2. p \in Nat => p \div BPS \in Nat
  BY <1>1
<1> QED BY <1>1, <1>2 DEF ShareOf, p

\* No money moves and the account stays in its phase.
LEMMA StillIsAccount ==
    ASSUME MoneyInv, UNCHANGED <<moneyVars, terms>>, Phase' = Phase, state # "None" => state' # "None"
    PROVE  MoneyInv' /\ UNCHANGED Account!accountVars
<1>1. UNCHANGED <<funded, balance, promised, feePaid, got>>
  BY DEF moneyVars
<1>2. (state' = "None" => state = "None") /\ (state \in Ended => state' \in Ended)
  BY DEF Phase, Ended
<1>3. state' \notin Ended => state \notin Ended
  BY <1>2
<1>4. MoneyInv'
  BY <1>1, <1>2, <1>3 DEF MoneyInv, Paid
<1>5. UNCHANGED Account!accountVars
  BY <1>1 DEF Account!accountVars, Phase
<1> QED BY <1>4, <1>5

LEMMA PaymentIsAccount ==
    ASSUME TypesInv, MoneyInv, NEW a, NEW b, NEW c, Pays(a, b, c), terms' = terms,
           state \in Running \cup {"Funded"},
           \/ state' \in Running /\ promised' = promised
           \/ state' \in Ended /\ balance' = 0 /\ promised' = 0
    PROVE  MoneyInv' /\ Account!Next
<1>1. /\ a \in Nat /\ b \in Nat /\ c \in Nat /\ a + b + c <= balance
      /\ b <= ShareOf(funded, terms.feeBps) - feePaid
      /\ balance' = balance - (a + b + c) /\ feePaid' = feePaid + b
      /\ got'.buyer = got.buyer + c /\ got'.seller = got.seller + a /\ funded' = funded
  BY DEF Pays, CanPay
<1>2. /\ funded \in Nat /\ balance \in Int /\ promised \in Int /\ feePaid \in Nat
      /\ got.buyer \in Nat /\ got.seller \in Nat
  BY DEF MoneyInv
<1>3. balance + Paid + feePaid = funded
  BY DEF MoneyInv, Running, Ended
<1>4. state # "None" /\ state \notin Ended /\ state' # "None"
  BY DEF Running, Ended
<1>5. Paid' = Paid + a + c /\ Paid \in Nat
  BY <1>1, <1>2 DEF Paid
<1>6. MoneyInv'
  <2>1. balance' + Paid' + feePaid' = funded'
    BY <1>1, <1>2, <1>3, <1>5
  <2>2. funded' \in Nat /\ balance' \in Int /\ promised' \in Int /\ feePaid' \in Nat
    BY <1>1, <1>2
  <2>3. got'.buyer \in Nat /\ got'.seller \in Nat
    BY <1>1, <1>2
  <2> QED BY <1>4, <2>1, <2>2, <2>3 DEF MoneyInv
<1>7. Paid' >= Paid /\ feePaid' >= feePaid /\ Paid' + feePaid' <= funded
  BY <1>1, <1>2, <1>3, <1>5
<1>8. feePaid' <= ShareOf(funded, terms.feeBps)
  <2>1. ShareOf(funded, terms.feeBps) \in Nat
    <3>1. terms.feeBps \in 0..MaxFeeBps /\ MaxFeeBps \in Nat
      BY DEF TypesInv, Terms
    <3>2. terms.feeBps \in Nat
      BY <3>1
    <3> QED BY <1>2, <3>2, ShareNat
  <2> QED BY <1>1, <1>2, <2>1
<1>9. balance' = 0 => Paid' + feePaid' = funded
  BY <1>1, <1>2, <1>3, <1>5
<1>10. Phase = "Live" /\ (Phase' = "Live" \/ (Phase' = "Closed" /\ balance' = 0))
  BY <1>4 DEF Phase, Running, Ended
<1>11. Account!PaysOut
  <2>1. Phase = "Live" /\ (Phase' = "Live" \/ (Phase' = "Closed" /\ Paid' + feePaid' = funded))
    BY <1>9, <1>10
  <2> QED BY <1>1, <1>7, <1>8, <2>1 DEF Account!PaysOut, Account!FeeLimit, ShareOf, Paid, Phase
<1> QED BY <1>6, <1>11 DEF Account!Next

LEMMA FundIsAccount ==
    ASSUME AgreementInv, MoneyInv, NEW t \in Offered, Fund(t)
    PROVE  MoneyInv' /\ Account!Next
<1>1. /\ t \in Terms /\ Valid(t) /\ state = "None" /\ state' = "Funded"
      /\ UNCHANGED <<feePaid, got>>
  BY DEF Fund
<1>2. t.amount \in Nat /\ t.feeBps \in Nat /\ t.parts \in Nat
  BY <1>1 DEF Terms
<1>3. Price(t) \in Nat
  <2>1. FeeOf(t) \in Nat
    BY <1>2, ShareNat DEF FeeOf
  <2> QED BY <1>2, <2>1 DEF Price, BuyerFee
<1> DEFINE first == IF t.parts = 0 THEN Price(t) ELSE Price(t) \div t.parts
<1>4. /\ first > 0 /\ funded' = first /\ balance' = first /\ promised' = Price(t) - first
  BY DEF Fund
<1>5. first \in Nat
  BY <1>2, <1>3
<1> HIDE DEF first
<1>6. /\ funded' \in Nat /\ balance' = funded' /\ promised' \in Int
  BY <1>3, <1>4, <1>5
<1>7. /\ Paid' = 0 /\ feePaid' = 0 /\ got'.buyer \in Nat /\ got'.seller \in Nat
  BY <1>1 DEF MoneyInv, Paid
<1>8. MoneyInv'
  <2>1. balance' + Paid' + feePaid' = funded' /\ balance' \in Int /\ feePaid' \in Nat
    BY <1>6, <1>7
  <2> QED BY <1>1, <1>6, <1>7, <2>1 DEF MoneyInv
<1>9. Account!Opens
  BY <1>1, <1>6, <1>7 DEF Account!Opens, Paid, Ended
<1> QED BY <1>8, <1>9 DEF Account!Next

LEMMA PayPartIsAccount ==
    ASSUME MoneyInv, PayPart
    PROVE  MoneyInv' /\ Account!Next
<1>1. /\ state \in {"Funded", "Accepted"} /\ UNCHANGED <<terms, state, feePaid, got>>
  BY DEF PayPart
<1> DEFINE amount == IF partsPaid + 1 = terms.parts THEN promised ELSE Price(terms) \div terms.parts
<1>2. /\ amount \in 1..promised /\ funded' = funded + amount /\ balance' = balance + amount
      /\ promised' = promised - amount
  BY DEF PayPart
<1> HIDE DEF amount
<1>3. /\ funded \in Nat /\ balance \in Int /\ promised \in Int /\ feePaid \in Nat
      /\ got.buyer \in Nat /\ got.seller \in Nat /\ Paid \in Nat /\ balance + Paid + feePaid = funded
  BY <1>1 DEF MoneyInv, Ended, Paid
<1>4. /\ funded' \in Nat /\ funded' > funded /\ balance' \in Int /\ promised' \in Int
      /\ balance' + Paid + feePaid = funded'
  BY <1>2, <1>3
<1>5. Paid' = Paid
  BY <1>1 DEF Paid
<1>6. MoneyInv'
  BY <1>1, <1>3, <1>4, <1>5 DEF MoneyInv
<1>7. Account!TakesMoney
  BY <1>1, <1>4 DEF Account!TakesMoney, Ended
<1> QED BY <1>6, <1>7 DEF Account!Next

\* A payment of the next tranche, with its end of the deal if it is the last.
LEMMA TranchePaymentIsAccount ==
    ASSUME TypesInv, MoneyInv, NEW st, PayTranche(st, "Accepted"), terms' = terms, state \in Running
    PROVE  MoneyInv' /\ Account!Next
<1>1. Pays(TrancheNet, TrancheFee, 0)
  BY DEF PayTranche
<1>2. \/ state' \in Running /\ promised' = promised
      \/ state' \in Ended /\ balance' = 0 /\ promised' = 0
  BY DEF PayTranche, Ends, Running, Ended
<1> QED BY <1>1, <1>2, PaymentIsAccount

LEMMA EndingIsAccount ==
    ASSUME TypesInv, MoneyInv, NEW a, NEW b, NEW c, Pays(a, b, c), NEW e \in Ended, NEW st, Ends(e, st),
           terms' = terms, state \in Running \cup {"Funded"}
    PROVE  MoneyInv' /\ Account!Next
BY PaymentIsAccount DEF Ends

LEMMA FundingIsAccount ==
    ASSUME AgreementInv, MoneyInv, FundingStep
    PROVE  MoneyInv' /\ (Account!Next \/ UNCHANGED Account!accountVars)
<1>1. CASE Accepts
  <2>1. UNCHANGED <<moneyVars, terms>> /\ state = "Funded" /\ state' = "Accepted"
    BY <1>1 DEF Accepts
  <2> QED BY <2>1, StillIsAccount DEF Phase, Ended
<1>2. CASE CancelMissed
  <2>1. /\ Pays(CancelFee, 0, balance - CancelFee) /\ Ends("Refunded", stake) /\ terms' = terms
        /\ state \in Running \cup {"Funded"}
    BY <1>2 DEF CancelMissed, Running
  <2> QED BY <2>1, EndingIsAccount DEF AgreementInv, Ended
<1>3. CASE CancelUnaccepted
  <2>1. /\ Pays(0, 0, balance) /\ Ends("Refunded", stake) /\ terms' = terms
        /\ state \in Running \cup {"Funded"}
    BY <1>3 DEF CancelUnaccepted
  <2> QED BY <2>1, EndingIsAccount DEF AgreementInv, Ended
<1> QED BY <1>1, <1>2, <1>3, FundIsAccount, PayPartIsAccount DEF FundingStep, Accept, AcceptWithStake

LEMMA PaymentsAreAccount ==
    ASSUME AgreementInv, MoneyInv, PaymentStep
    PROVE  MoneyInv' /\ Account!Next
<1>1. CASE Release
  BY <1>1, TranchePaymentIsAccount DEF Release, AgreementInv
<1>2. CASE Claim
  BY <1>2, TranchePaymentIsAccount DEF Claim, ClaimOpen, AgreementInv, Running
<1>3. CASE Reclaim
  <2>1. /\ Pays(0, 0, balance) /\ Ends("Reclaimed", stake) /\ terms' = terms
        /\ state \in Running \cup {"Funded"}
    BY <1>3 DEF Reclaim, ReclaimOpen, Running
  <2> QED BY <2>1, EndingIsAccount DEF AgreementInv, Ended
<1>4. ASSUME NEW who, AcceptSplit(who) PROVE MoneyInv' /\ Account!Next
  <2>1. PICK a, b, c : Pays(a, b, c)
    BY <1>4, Zenon DEF AcceptSplit, Splits
  <2>2. Ends("Split", stake) /\ terms' = terms /\ state \in Running \cup {"Funded"}
    BY <1>4 DEF AcceptSplit, Splits, OpenToSplit
  <2> QED BY <2>1, <2>2, EndingIsAccount DEF AgreementInv, Ended
<1>5. ASSUME NEW x, LongstopSplit(x) PROVE MoneyInv' /\ Account!Next
  <2>1. /\ Pays(x, 0, balance - x) /\ Ends("Longstopped", stake) /\ terms' = terms
        /\ state \in Running \cup {"Funded"}
    BY <1>5 DEF LongstopSplit, LongstopOpen
  <2> QED BY <2>1, EndingIsAccount DEF AgreementInv, Ended
<1> QED BY <1>1, <1>2, <1>3, <1>4, <1>5 DEF PaymentStep

LEMMA DisputesAreAccount ==
    ASSUME AgreementInv, MoneyInv, DisputeStep
    PROVE  MoneyInv' /\ (Account!Next \/ UNCHANGED Account!accountVars)
<1>1. ASSUME NEW x, NEW o, Talks(x, o), state' = state
      PROVE  MoneyInv' /\ UNCHANGED Account!accountVars
  <2>1. UNCHANGED <<moneyVars, terms>> /\ Phase' = Phase
    BY <1>1 DEF Talks, Phase
  <2> QED BY <1>1, <2>1, StillIsAccount
<1>2. CASE \E bps \in Shares : ProposeRuling(bps)
  BY <1>1, <1>2 DEF ProposeRuling
<1>3. CASE \E who \in Parties \cup {"arbiter", "anyone"} : Escalate(who)
  BY <1>1, <1>3 DEF Escalate
<1>4. ASSUME NEW bps, RuleTranche(bps), state = "Disputed"
      PROVE  MoneyInv' /\ Account!Next
  <2>1. PICK a, b, c : Pays(a, b, c)
    BY <1>4, Zenon DEF RuleTranche, PaysRuling
  <2>2. \/ state' \in Running /\ promised' = promised
        \/ state' \in Ended /\ balance' = 0 /\ promised' = 0
    BY <1>4 DEF RuleTranche, Ends, Running, Ended
  <2>3. terms' = terms /\ state \in Running \cup {"Funded"}
    BY <1>4 DEF RuleTranche, Running
  <2> QED BY <2>1, <2>2, <2>3, PaymentIsAccount DEF AgreementInv
<1> QED BY <1>2, <1>3, <1>4 DEF DisputeStep

\* Every step of the deal is a step of its account, or leaves the account alone.
LEMMA StepIsAccount ==
    AgreementInv /\ MoneyInv /\ [Next]_vars => MoneyInv' /\ [Account!Next]_(Account!accountVars)
<1> SUFFICES ASSUME AgreementInv, MoneyInv, [Next]_vars
             PROVE  MoneyInv' /\ (Account!Next \/ UNCHANGED Account!accountVars)
  OBVIOUS
<1>1. CASE Idle
  BY <1>1, StillIsAccount DEF Idle, Phase
<1>2. CASE FundingStep
  BY <1>2, FundingIsAccount
<1>3. CASE DeliveryStep
  <2>1. UNCHANGED <<moneyVars, terms, state>>
    BY <1>3 DEF DeliveryStep, MarkDelivered, NewDelivery, StartReview, RequestMoreTime, SignVerdict,
                AttestCheck, Reviews, dealVars
  <2> QED BY <2>1, StillIsAccount DEF Phase
<1>4. CASE PaymentStep
  BY <1>4, PaymentsAreAccount
<1>5. CASE DeadlineStep
  <2>1. UNCHANGED <<moneyVars, terms, state>>
    BY <1>5 DEF DeadlineStep, ExtendDeadline, RequestExtension, ApproveExtension, MovesDeadline, dealVars
  <2> QED BY <2>1, StillIsAccount DEF Phase
<1>6. CASE DisputeStep
  BY <1>6, DisputesAreAccount
<1>7. CASE \E who \in Parties : Dispute(who)
  <2>1. UNCHANGED <<moneyVars, terms>> /\ state = "Accepted" /\ state' = "Disputed"
    BY <1>7 DEF Dispute, Talks
  <2> QED BY <2>1, StillIsAccount DEF Phase, Ended
<1>8. CASE Hold
  BY <1>8, StillIsAccount DEF Hold, dealVars, Phase
<1>9. CASE Tick
  BY <1>9, StillIsAccount DEF Tick, dealVars, Phase
<1>10. CASE UNCHANGED vars
  BY <1>1, <1>10, StutterIdle
<1> QED BY <1>1, <1>2, <1>3, <1>4, <1>5, <1>6, <1>7, <1>8, <1>9, <1>10, StepCases, SideIsIdle

\* Whatever happens to a deal, its money behaves as the account of the settlement base.
THEOREM DealImplementsAccount == Spec => DealIsAccount
<1>1. Init => MoneyInv /\ Account!Init
  BY DEF Init, MoneyInv, Account!Init, Paid
<1> QED BY <1>1, StepIsAccount, AgreementsKept, PTL DEF Spec, DealIsAccount


-----------------------------------------------------------------------------
(* The ledger of a deal: what was agreed, what the escrow holds, and what each tranche is worth. *)

Net == SellerNet(terms)
Fee == FeeOf(terms)
Part == Price(terms) \div terms.parts
Prefix(k) == SumOn(terms.trancheBps, 1..k)

AgreedInv ==
    state # "None" =>
        /\ terms.amount > 0 /\ Prefix(Count) = BPS
        /\ terms.parts # 0 => Part > 0
        /\ partsPaid <= terms.parts /\ terms.fallbackBps <= BPS

AmountsInv ==
    /\ released \in Nat /\ feeReleased \in Nat
    /\ funded \in Nat /\ balance \in Nat /\ promised \in Nat

SharesInv ==
    state \in Running \cup {"Funded"} =>
        /\ released * BPS <= Net * Prefix(paid)
        /\ feeReleased * BPS <= Fee * Prefix(paid)

PlanInv ==
    state \in Running \cup {"Funded"} =>
        IF PlanPaid
        THEN balance = (Net - released) + (Fee - feeReleased) /\ promised = 0
        ELSE /\ released = 0 /\ feeReleased = 0 /\ paid = 0
             /\ funded = partsPaid * Part /\ balance = funded /\ promised = Price(terms) - funded

EndedInv == state \in Ended => balance = 0 /\ promised = 0

LedgerInv == AgreedInv /\ AmountsInv /\ SharesInv /\ PlanInv /\ EndedInv

-----------------------------------------------------------------------------
(* Shares, fees and parts. *)

\* A share of an amount is at most the amount, and rounds down.
LEMMA ShareBounds ==
    ASSUME NEW x \in Nat, NEW bps \in Nat, bps <= BPS
    PROVE  ShareOf(x, bps) \in Nat /\ ShareOf(x, bps) <= x /\ ShareOf(x, bps) * BPS <= x * bps
<1>1. BPS \in Nat /\ BPS > 0 /\ x * bps \in Nat /\ x * BPS \in Nat
  OBVIOUS
<1>2. x * bps <= x * BPS
  <2>1. bps * x <= BPS * x
    BY <1>1, ProductMonotone
  <2> QED BY <2>1, <1>1
<1> DEFINE p == x * bps
           y == p \div BPS
<1>3. p \in Nat /\ p <= x * BPS
  BY <1>1, <1>2
<1> HIDE DEF p
<1>4. y \in Nat /\ BPS * y <= p
  BY <1>1, <1>3, QuotientBounds
<1> HIDE DEF y
<1>5. y * BPS <= p /\ y * BPS <= x * BPS /\ y * BPS \in Nat
  BY <1>1, <1>3, <1>4
<1>6. ASSUME y > x PROVE FALSE
  <2>1. BPS * y >= BPS * x + BPS
    BY <1>1, <1>4, <1>6, NextMultiple
  <2> QED BY <1>1, <1>5, <2>1, <1>4
<1>7. y <= x
  BY <1>4, <1>6
<1> QED BY <1>4, <1>5, <1>7 DEF y, p, ShareOf

\* The price is what the seller nets and the fee, none of them negative.
LEMMA PriceIsNetAndFee ==
    ASSUME NEW t \in Terms
    PROVE  /\ SellerNet(t) \in Nat /\ FeeOf(t) \in Nat /\ Price(t) \in Nat
           /\ Price(t) = SellerNet(t) + FeeOf(t) 
           /\ t.amount > 0 => SellerNet(t) > 0
<1>1. t.amount \in Nat /\ t.feeBps \in Nat /\ t.feeBps < BPS /\ BPS \in Nat
  <2>1. t.amount \in Nat /\ t.feeBps \in 0..MaxFeeBps
    BY DEF Terms
  <2>2. MaxFeeBps \in 0..(BPS - 1) /\ BPS \in Nat
    OBVIOUS
  <2> QED BY <2>1, <2>2
<1>2. /\ FeeOf(t) \in Nat /\ FeeOf(t) <= t.amount
      /\ t.amount > 0 => FeeOf(t) < t.amount
  <2>1. FeeOf(t) \in Nat /\ FeeOf(t) <= t.amount /\ FeeOf(t) * BPS <= t.amount * t.feeBps
    <3>1. t.feeBps <= BPS
      BY <1>1
    <3> QED BY <1>1, <3>1, ShareBounds DEF FeeOf
  <2>2. ASSUME t.amount > 0, FeeOf(t) = t.amount PROVE FALSE
    <3>1. BPS > t.feeBps
      BY <1>1
    <3>2. t.amount * BPS >= t.amount * t.feeBps + t.amount
      BY <1>1, <2>2, <3>1, NextMultiple
    <3>3. t.amount * BPS \in Nat /\ t.amount * t.feeBps \in Nat
      BY <1>1
    <3> QED BY <1>1, <2>1, <2>2, <3>2, <3>3
  <2> QED BY <1>1, <2>1, <2>2
<1> DEFINE f == FeeOf(t)
<1>3. f \in Nat /\ f <= t.amount /\ (t.amount > 0 => f < t.amount) /\ BuyerFee(t) = f \div 2
  BY <1>2 DEF BuyerFee
<1> HIDE DEF f
<1>4. BuyerFee(t) \in Nat /\ BuyerFee(t) <= f
  BY <1>3
<1>5. SellerNet(t) = t.amount - (f - BuyerFee(t)) /\ Price(t) = t.amount + BuyerFee(t)
  BY DEF SellerNet, Price, f
<1> QED BY <1>1, <1>3, <1>4, <1>5 DEF f

\* What the terms must add up to is the sum over all tranches.
LEMMA SumIsPrefix ==
    ASSUME NEW s \in Seq(Nat)
    PROVE  Sum(s) = SumOn(s, 1..Len(s))
<1>1. DOMAIN s = 1..Len(s)
  OBVIOUS
<1> QED BY <1>1 DEF Sum, SumOn, FoldFunction

\* The tranches paid so far are at most the whole, and one more adds its own share.
LEMMA PrefixGrows ==
    ASSUME terms \in Terms, NEW k \in Nat, k <= Count
    PROVE  /\ Prefix(k) \in Nat /\ Prefix(k) <= Prefix(Count)
           /\ Prefix(0) = 0
           /\ k < Count => /\ terms.trancheBps[k + 1] \in Nat
                           /\ Prefix(k + 1) = Prefix(k) + terms.trancheBps[k + 1]
<1>1. terms.trancheBps \in Seq(Nat)
  BY DEF Terms
<1> QED BY <1>1, PartialSums DEF Prefix, Count

\* What was released is at most what the terms give.
LEMMA ReleasedWithinTerms ==
    ASSUME TypesInv, DisputesInv, AgreedInv, AmountsInv, SharesInv, state \in Running \cup {"Funded"}
    PROVE  released <= Net /\ feeReleased <= Fee /\ Net \in Nat /\ Fee \in Nat
<1>1. terms \in Terms /\ paid \in Nat /\ released \in Nat /\ feeReleased \in Nat /\ state # "None"
  BY DEF TypesInv, AmountsInv, Running
<1>2. Net \in Nat /\ Fee \in Nat /\ BPS \in Nat /\ BPS > 0
  BY <1>1, PriceIsNetAndFee DEF Net, Fee
<1>3. paid <= Count /\ Count \in Nat
  BY <1>1, CountNat DEF DisputesInv, Running
<1>4. Prefix(paid) \in Nat /\ Prefix(paid) <= BPS
  BY <1>1, <1>3, PrefixGrows DEF AgreedInv
<1>5. ASSUME NEW x \in Nat, NEW n \in Nat, x * BPS <= n * Prefix(paid)
      PROVE  x <= n
  <2>1. Prefix(paid) * n <= BPS * n /\ Prefix(paid) * n \in Nat /\ BPS * n \in Nat
    BY <1>2, <1>4, ProductMonotone
  <2>2. BPS * x <= BPS * n /\ BPS * x \in Nat
    BY <1>2, <1>4, <1>5, <2>1
  <2>3. ASSUME x > n PROVE FALSE
    <3>1. BPS * x >= BPS * n + BPS
      BY <1>2, <2>3, NextMultiple
    <3> QED BY <1>2, <2>1, <2>2, <3>1
  <2> QED BY <2>3
<1>6. released * BPS <= Net * Prefix(paid) /\ feeReleased * BPS <= Fee * Prefix(paid)
  BY DEF SharesInv
<1> QED BY <1>1, <1>2, <1>5, <1>6

\* A step that leaves the money, the tranches and the plan alone.
LEMMA LedgerFrame ==
    ASSUME LedgerInv,
           UNCHANGED <<terms, partsPaid, paid, released, feeReleased, funded, balance, promised>>,
           state' # "None" => state # "None",
           state' \in Running \cup {"Funded"} => state \in Running \cup {"Funded"},
           state' \in Ended => state \in Ended
    PROVE  LedgerInv'
<1>1. Net' = Net /\ Fee' = Fee /\ Part' = Part /\ Price(terms)' = Price(terms) /\ Count' = Count
      /\ PlanPaid' = PlanPaid
  BY DEF Net, Fee, Part, Count, PlanPaid
<1>2. Prefix(Count)' = Prefix(Count) /\ Prefix(paid)' = Prefix(paid)
  BY <1>1 DEF Prefix
<1>3. AgreedInv'
  BY <1>1, <1>2 DEF LedgerInv, AgreedInv
<1>4. AmountsInv'
  BY DEF LedgerInv, AmountsInv
<1>5. SharesInv'
  BY <1>1, <1>2 DEF LedgerInv, SharesInv
<1>6. PlanInv'
  BY <1>1 DEF LedgerInv, PlanInv
<1>7. EndedInv'
  BY DEF LedgerInv, EndedInv
<1> QED BY <1>3, <1>4, <1>5, <1>6, <1>7 DEF LedgerInv

LEMMA EndingLedger ==
    ASSUME LedgerInv, state # "None", NEW e \in Ended, NEW st, Ends(e, st), released' \in Nat,
           feeReleased' \in Nat, UNCHANGED <<terms, partsPaid, funded>>
    PROVE  LedgerInv'
<1>1. state' \in Ended /\ balance' = 0 /\ promised' = 0 /\ state' \notin Running \cup {"Funded"}
  BY DEF Ends, Ended, Running
<1>2. AgreedInv'
  BY DEF LedgerInv, AgreedInv, Prefix, Count, Part
<1>3. AmountsInv'
  BY <1>1 DEF LedgerInv, AmountsInv
<1> QED BY <1>1, <1>2, <1>3 DEF LedgerInv, SharesInv, PlanInv, EndedInv

\* What a tranche is worth is never negative, and what is left after it is still the rest of the terms.
LEMMA TrancheAmounts ==
    ASSUME TypesInv, DisputesInv, LedgerInv, state \in Running
    PROVE  /\ TrancheNet \in Nat /\ TrancheFee \in Nat
           /\ TrancheNet <= Net - released /\ TrancheFee <= Fee - feeReleased
           /\ ~LastTranche =>
                 /\ (released + TrancheNet) * BPS <= Net * Prefix(paid + 1)
                 /\ (feeReleased + TrancheFee) * BPS <= Fee * Prefix(paid + 1)
<1>1. terms \in Terms /\ paid \in Nat /\ paid < Count /\ state # "None" /\ Count \in Nat
  BY CountNat DEF TypesInv, DisputesInv, Running
<1>2. /\ released <= Net /\ feeReleased <= Fee /\ Net \in Nat /\ Fee \in Nat
      /\ released \in Nat /\ feeReleased \in Nat
  BY ReleasedWithinTerms DEF LedgerInv, AmountsInv
<1>3. CASE LastTranche
  <2>1. TrancheNet = Net - released /\ TrancheFee = Fee - feeReleased
    BY <1>3 DEF TrancheNet, TrancheFee, Net, Fee
  <2> QED BY <1>2, <1>3, <2>1
<1>4. CASE ~LastTranche
  <2> DEFINE b == terms.trancheBps[paid + 1]
             P == Prefix(paid)
             Q == Prefix(paid + 1)
  <2>1. /\ P \in Nat /\ b \in Nat /\ Q = P + b /\ Q <= BPS /\ BPS \in Nat /\ BPS > 0
    <3>1. paid + 1 \in Nat /\ paid + 1 <= Count
      BY <1>1
    <3>2. Q <= Prefix(Count)
      BY <1>1, <3>1, PrefixGrows
    <3>3. Prefix(Count) = BPS
      BY <1>1 DEF LedgerInv, AgreedInv
    <3>4. P \in Nat /\ b \in Nat /\ Q = P + b
      BY <1>1, PrefixGrows
    <3> QED BY <3>2, <3>3, <3>4
  <2>2. TrancheNet = ShareOf(Net, b) /\ TrancheFee = ShareOf(Fee, b)
    BY <1>4 DEF TrancheNet, TrancheFee, Net, Fee
  <2>3. released * BPS <= Net * P /\ feeReleased * BPS <= Fee * P
    BY DEF LedgerInv, SharesInv
  <2> HIDE DEF b, P, Q
  <2>4. ASSUME NEW x \in Nat, NEW r \in Nat, r * BPS <= x * P
        PROVE  /\ ShareOf(x, b) \in Nat /\ ShareOf(x, b) <= x - r
               /\ (r + ShareOf(x, b)) * BPS <= x * Q
    <3> DEFINE y == ShareOf(x, b)
    <3>1. y \in Nat /\ y * BPS <= x * b
      <4>1. b \in Nat /\ b <= BPS
        BY <2>1
      <4> HIDE AgreementAssumption
      <4> QED BY <2>4, <4>1, ShareBounds
    <3> HIDE DEF y
    <3>2. (r + y) * BPS = r * BPS + y * BPS /\ x * Q = x * P + x * b
      BY <2>1, <3>1
    <3>3. r * BPS \in Nat /\ y * BPS \in Nat /\ x * P \in Nat /\ x * b \in Nat
      BY <2>1, <3>1
    <3>4. (r + y) * BPS <= x * Q
      BY <2>4, <3>1, <3>2, <3>3
    <3>5. ASSUME r + y > x PROVE FALSE
      <4>1. Q \in Nat /\ Q * x <= BPS * x /\ Q * x \in Nat /\ BPS * x \in Nat
        BY <2>1, ProductMonotone
      <4>2. BPS * (r + y) >= BPS * x + BPS
        BY <2>1, <3>1, <3>5, NextMultiple
      <4>3. BPS * (r + y) = (r + y) * BPS /\ x * Q = Q * x /\ (r + y) * BPS \in Nat
        BY <2>1, <3>1, <4>1
      <4> QED BY <2>1, <3>4, <4>1, <4>2, <4>3
    <3>6. y <= x - r
      BY <3>1, <3>5
    <3> QED BY <3>1, <3>4, <3>6 DEF y
  <2>5. Q = Prefix(paid + 1)
    BY DEF Q
  <2> QED BY <1>2, <2>2, <2>3, <2>4, <2>5
<1> QED BY <1>3, <1>4

\* The next tranche is paid, whoever its money goes to, and the deal goes on.
LEMMA TrancheLedger ==
    ASSUME TypesInv, DisputesInv, LedgerInv, state \in Running, PlanPaid, NextTranche, ~LastTranche,
           state' \in Running, balance' = balance - (TrancheNet + TrancheFee), balance' \in Nat,
           UNCHANGED <<terms, partsPaid, funded, promised>>
    PROVE  LedgerInv'
<1>1. /\ paid' = paid + 1 /\ released' = released + TrancheNet /\ feeReleased' = feeReleased + TrancheFee
  BY DEF NextTranche
<1>2. /\ TrancheNet \in Nat /\ TrancheFee \in Nat /\ released \in Nat /\ feeReleased \in Nat
      /\ Net \in Nat /\ Fee \in Nat
  BY TrancheAmounts, ReleasedWithinTerms DEF LedgerInv, AmountsInv
<1>3. Net' = Net /\ Fee' = Fee /\ PlanPaid' /\ Prefix(paid)' = Prefix(paid + 1)
  BY <1>1 DEF Net, Fee, PlanPaid, Prefix
<1>4. state # "None" /\ state' \notin Ended
  BY DEF Running, Ended
<1>5. AgreedInv'
  BY <1>4 DEF LedgerInv, AgreedInv, Prefix, Count, Part
<1>6. AmountsInv'
  BY <1>1, <1>2 DEF LedgerInv, AmountsInv
<1>7. SharesInv'
  BY <1>1, <1>3, TrancheAmounts DEF SharesInv
<1>8. PlanInv'
  <2>1. balance = (Net - released) + (Fee - feeReleased) /\ promised = 0
    BY DEF LedgerInv, PlanInv
  <2>2. balance' = (Net - released') + (Fee - feeReleased')
    BY <1>1, <1>2, <2>1
  <2> QED BY <1>3, <2>1, <2>2 DEF PlanInv
<1>9. EndedInv'
  BY <1>4 DEF EndedInv
<1> QED BY <1>5, <1>6, <1>7, <1>8, <1>9 DEF LedgerInv

\* From here on the assumption on the constants is cited where it is needed.
HIDE AgreementAssumption

LEMMA FundLedger ==
    ASSUME AgreementInv, LedgerInv, state = "None" => paid = 0 /\ released = 0 /\ feeReleased = 0,
           NEW t \in Offered, Fund(t)
    PROVE  LedgerInv'
<1>1. /\ t \in Terms /\ Valid(t) /\ state = "None" /\ state' = "Funded" /\ terms' = Absolute(t)
      /\ UNCHANGED <<paid, released, feeReleased>> /\ paid = 0 /\ released = 0 /\ feeReleased = 0
      /\ partsPaid' = IF t.parts = 0 THEN 0 ELSE 1
  BY AgreementAssumption DEF Fund, trancheVars
<1>2. now \in Nat
  BY DEF AgreementInv, TypesInv
<1>3. /\ terms'.trancheBps = t.trancheBps /\ terms'.amount = t.amount /\ terms'.feeBps = t.feeBps
      /\ terms'.parts = t.parts /\ terms'.fallbackBps = t.fallbackBps
  <2> DEFINE x == t.acceptBy + now
             y == t.deliveryDeadline + now
  <2>1. terms' = [t EXCEPT !.acceptBy = x, !.deliveryDeadline = y]
    BY <1>1, Zenon DEF Absolute
  <2> HIDE DEF x, y
  <2> QED BY <1>1, <2>1 DEF Terms
<1>4. /\ Net' = SellerNet(t) /\ Fee' = FeeOf(t) /\ Price(terms)' = Price(t)
  BY <1>3 DEF Net, Fee, Price, SellerNet, FeeOf, BuyerFee
<1>5. /\ Net' \in Nat /\ Fee' \in Nat /\ Price(t) \in Nat /\ Price(t) = Net' + Fee'
  BY <1>1, <1>4, PriceIsNetAndFee
<1>6. t.parts \in Nat /\ t.amount \in Nat /\ t.trancheBps \in Seq(Nat) /\ t.amount > 0
      /\ t.fallbackBps <= BPS /\ t.fallbackBps \in Nat
  BY <1>1 DEF Terms, Valid
<1>7. t.parts = 0 \/ t.parts >= 2
  <2>1. PlanValid(t, t.deliveryDeadline)
    BY <1>1 DEF Valid
  <2>2. t.parts = 0 \/ t.parts \in 2..MaxTranches
    BY <2>1 DEF PlanValid
  <2> QED BY <1>6, <2>2
<1> DEFINE p == Price(t)
           n == t.parts
           first == IF n = 0 THEN p ELSE p \div n
<1>8. first > 0 /\ funded' = first /\ balance' = first /\ promised' = p - first
  BY DEF Fund
<1>9. p \in Nat /\ n \in Nat /\ Part' = p \div n /\ p = Net' + Fee'
  BY <1>3, <1>4, <1>5, <1>6 DEF Part
<1> HIDE DEF p, n
<1>9a. first \in Nat /\ first <= p /\ (n # 0 => Part' = first) /\ (n = 0 => first = p)
  <2>1. CASE n = 0
    BY <1>9, <2>1
  <2>2. CASE n # 0
    <3>1. n * (p \div n) <= p /\ p \div n \in Nat /\ n > 0
      BY <1>9, <2>2, QuotientBounds
    <3>2. first = p \div n
      BY <2>2
    <3> HIDE DEF first
    <3>3. 1 * first <= n * first /\ n * first \in Nat /\ 1 * first = first
      BY <1>9, <3>1, <3>2, ProductMonotone
    <3> QED BY <1>9, <2>2, <3>1, <3>2, <3>3
  <2> QED BY <2>1, <2>2
<1> HIDE DEF first
<1>10. Prefix(Count)' = BPS /\ Prefix(paid)' = 0
  <2>1. Sum(t.trancheBps) = BPS
    BY <1>1 DEF Valid
  <2>2. SumOn(t.trancheBps, 1..Len(t.trancheBps)) = BPS
    BY <1>6, <2>1, SumIsPrefix
  <2>3. SumOn(t.trancheBps, 1..0) = 0
    BY <1>6, PartialSums
  <2> QED BY <1>1, <1>3, <2>2, <2>3 DEF Prefix, Count
<1>11. AgreedInv'
  <2>1. terms'.parts # 0 => Part' > 0
    BY <1>3, <1>8, <1>9a DEF n
  <2>2. partsPaid' <= terms'.parts
    BY <1>1, <1>3, <1>6
  <2> QED BY <1>3, <1>6, <1>10, <2>1, <2>2 DEF AgreedInv
<1>12. AmountsInv'
  <2>1. p - first \in Nat
    BY <1>9, <1>9a
  <2> QED BY <1>1, <1>8, <1>9a, <2>1 DEF AmountsInv
<1>13. SharesInv'
  <2>0. BPS \in Nat
    BY AgreementAssumption
  <2>1. released' * BPS = 0 /\ feeReleased' * BPS = 0 /\ Net' * 0 = 0 /\ Fee' * 0 = 0
    <3>1. released' = 0 /\ feeReleased' = 0 /\ Net' \in Nat /\ Fee' \in Nat
      BY <1>1, <1>5
    <3>2. ASSUME NEW x \in Nat, NEW y, y = 0 PROVE y * BPS = 0 /\ x * 0 = 0
      BY <2>0, <3>2
    <3> QED BY <3>1, <3>2
  <2> QED BY <1>10, <2>1 DEF SharesInv
<1>14. PlanInv'
  <2>1. CASE t.parts = 0
    <3>1. PlanPaid'
      BY <1>1, <1>3, <2>1 DEF PlanPaid
    <3>2. balance' = Net' + Fee' /\ promised' = 0
      <4>1. first = p
        BY <1>9a, <2>1 DEF n
      <4> QED BY <1>8, <1>9, <4>1
    <3>3. balance' = (Net' - released') + (Fee' - feeReleased')
      BY <1>1, <1>5, <3>2
    <3> QED BY <3>1, <3>2, <3>3 DEF PlanInv
  <2>2. CASE t.parts # 0
    <3>1. ~PlanPaid' /\ partsPaid' = 1
      BY <1>1, <1>3, <1>6, <1>7, <2>2 DEF PlanPaid
    <3>2. funded' = partsPaid' * Part'
      BY <1>8, <1>9a, <2>2, <3>1 DEF n
    <3>3. /\ balance' = funded' /\ promised' = Price(terms)' - funded'
      BY <1>4, <1>8 DEF p
    <3> QED BY <1>1, <3>1, <3>2, <3>3 DEF PlanInv
  <2> QED BY <2>1, <2>2
<1>15. EndedInv'
  BY <1>1 DEF EndedInv, Ended
<1> QED BY <1>11, <1>12, <1>13, <1>14, <1>15 DEF LedgerInv

LEMMA PayPartLedger ==
    ASSUME AgreementInv, LedgerInv, PayPart
    PROVE  LedgerInv'
<1>1. /\ state \in {"Funded", "Accepted"} /\ ~PlanPaid /\ partsPaid' = partsPaid + 1
      /\ UNCHANGED <<terms, state, paid, released, feeReleased>>
  BY DEF PayPart, trancheVars
<1>2. state # "None" /\ state \in Running \cup {"Funded"} /\ state \notin Ended
  BY <1>1 DEF Running, Ended
<1>3. /\ terms \in Terms /\ terms.parts \in Nat /\ partsPaid \in Nat /\ partsPaid < terms.parts
  <2>1. terms \in Terms /\ partsPaid \in Nat /\ ~ (partsPaid >= terms.parts)
    BY <1>1 DEF AgreementInv, TypesInv, PlanPaid
  <2>2. terms.parts \in Nat
    BY <2>1 DEF Terms
  <2> QED BY <2>1, <2>2
<1>4. /\ Net \in Nat /\ Fee \in Nat /\ Price(terms) \in Nat /\ Price(terms) = Net + Fee
  BY <1>3, PriceIsNetAndFee DEF Net, Fee
<1>5. /\ released = 0 /\ feeReleased = 0 /\ paid = 0 /\ funded = partsPaid * Part /\ balance = funded
      /\ promised = Price(terms) - funded
  BY <1>1, <1>2 DEF LedgerInv, PlanInv
<1>6. UNCHANGED <<Net, Fee, Part, Price(terms), Prefix(paid), Prefix(Count)>>
  BY <1>1 DEF Net, Fee, Part, Prefix, Count
<1> DEFINE amount == IF partsPaid + 1 = terms.parts THEN promised ELSE Price(terms) \div terms.parts
<1>7. /\ amount \in 1..promised /\ funded' = funded + amount /\ balance' = balance + amount
      /\ promised' = promised - amount
  BY DEF PayPart
<1>8. funded \in Nat /\ promised \in Nat /\ balance \in Nat
  BY DEF LedgerInv, AmountsInv
<1>9. CASE partsPaid + 1 = terms.parts
  <2>1. amount = promised
    BY <1>9
  <2> HIDE DEF amount
  <2>2. balance' = Net + Fee /\ promised' = 0 /\ PlanPaid'
    BY <1>1, <1>3, <1>4, <1>5, <1>7, <1>8, <1>9, <2>1 DEF PlanPaid
  <2>3. balance' = (Net' - released') + (Fee' - feeReleased')
    BY <1>1, <1>4, <1>5, <1>6, <2>2
  <2> QED BY <2>2, <2>3, <1>1, <1>2, <1>3, <1>5, <1>6, <1>7, <1>8, <1>9
        DEF LedgerInv, AgreedInv, AmountsInv, SharesInv, PlanInv, EndedInv
<1>10. CASE partsPaid + 1 # terms.parts
  <2>1. amount = Part
    BY <1>10 DEF Part
  <2> HIDE DEF amount
  <2>2. Part \in Nat
    <3>1. terms.parts > 0
      BY <1>3
    <3> QED BY <1>3, <1>4, <3>1, QuotientBounds DEF Part
  <2>3. ~PlanPaid'
    BY <1>1, <1>3, <1>10 DEF PlanPaid
  <2>4. funded' = partsPaid' * Part'
    <3>1. (partsPaid + 1) * Part = partsPaid * Part + Part
      BY <1>3, <2>2
    <3> QED BY <1>1, <1>5, <1>6, <1>7, <2>1, <3>1
  <2>5. balance' = funded' /\ promised' = Price(terms)' - funded'
    BY <1>4, <1>5, <1>6, <1>7, <1>8, <2>1, <2>2
  <2> QED BY <2>3, <2>4, <2>5, <1>1, <1>2, <1>3, <1>5, <1>6, <1>7, <1>8, <1>10
        DEF LedgerInv, AgreedInv, AmountsInv, SharesInv, PlanInv, EndedInv
<1> QED BY <1>9, <1>10


\* The deal starts with nothing released.
UnpaidInv == state = "None" => paid = 0 /\ released = 0 /\ feeReleased = 0

LEMMA FundingLedger ==
    ASSUME AgreementInv, LedgerInv, UnpaidInv, FundingStep
    PROVE  LedgerInv'
<1>1. CASE \E t \in Offered : Fund(t)
  BY <1>1, FundLedger DEF UnpaidInv
<1>2. CASE PayPart
  BY <1>2, PayPartLedger
<1>3. CASE Accept \/ AcceptWithStake
  <2>1. /\ state = "Funded" /\ state' = "Accepted"
        /\ UNCHANGED <<terms, partsPaid, paid, released, feeReleased, funded, balance, promised>>
    BY <1>3 DEF Accept, AcceptWithStake, Accepts, trancheVars, moneyVars
  <2> QED BY <2>1, LedgerFrame DEF Ended
<1>4. CASE CancelMissed \/ CancelUnaccepted
  <2>1. /\ state # "None" /\ Ends("Refunded", stake)
        /\ UNCHANGED <<terms, partsPaid, released, feeReleased, funded>>
    BY <1>4 DEF CancelMissed, CancelUnaccepted, trancheVars, Pays
  <2>2. released' \in Nat /\ feeReleased' \in Nat /\ "Refunded" \in Ended
    BY <2>1 DEF LedgerInv, AmountsInv, Ended
  <2> QED BY <2>1, <2>2, EndingLedger
<1> QED BY <1>1, <1>2, <1>3, <1>4 DEF FundingStep

\* A tranche is paid out, whatever share of it the seller gets.
LEMMA PaidTrancheLedger ==
    ASSUME AgreementInv, LedgerInv, state \in Running, PlanPaid, NextTranche,
           NEW a, NEW b, NEW c, Pays(a, b, c), a + b + c = TrancheNet + TrancheFee,
           NEW e \in Ended, NEW st,
           IF LastTranche THEN Ends(e, st) ELSE state' = "Accepted" /\ promised' = promised,
           UNCHANGED <<terms, partsPaid>>
    PROVE  LedgerInv'
<1>1. TypesInv /\ DisputesInv /\ state # "None"
  BY DEF AgreementInv, Running
<1>2. /\ TrancheNet \in Nat /\ TrancheFee \in Nat /\ released \in Nat /\ feeReleased \in Nat
  BY <1>1, TrancheAmounts DEF LedgerInv, AmountsInv
<1>3. /\ funded' = funded /\ a \in Nat /\ b \in Nat /\ c \in Nat /\ a + b + c <= balance
      /\ balance \in Nat
  BY DEF Pays, CanPay, LedgerInv, AmountsInv
<1>4. CASE LastTranche
  <2>1. released' \in Nat /\ feeReleased' \in Nat
    BY <1>2 DEF NextTranche
  <2> QED BY <1>1, <1>3, <1>4, <2>1, EndingLedger
<1>5. CASE ~LastTranche
  <2>1. b + (a + c) = TrancheNet + TrancheFee /\ balance' \in Nat
        /\ balance' = balance - (TrancheNet + TrancheFee)
    <3>1. balance' = balance - (a + b + c)
      BY DEF Pays
    <3> QED BY <1>2, <1>3, <3>1
  <2> QED BY <1>1, <1>3, <1>5, <2>1, TrancheLedger DEF Running
<1> QED BY <1>4, <1>5

LEMMA PaymentLedger ==
    ASSUME AgreementInv, LedgerInv, PaymentStep
    PROVE  LedgerInv'
<1>1. CASE Release \/ Claim
  <2>1. PICK st : PayTranche(st, "Accepted")
    BY <1>1 DEF Release, Claim
  <2>2. /\ Pays(TrancheNet, TrancheFee, 0) /\ NextTranche
        /\ IF LastTranche THEN Ends("Settled", st) ELSE state' = "Accepted" /\ promised' = promised
    BY <2>1 DEF PayTranche
  <2>3. state \in Running /\ UNCHANGED <<terms, partsPaid>> /\ PlanPaid
    BY <1>1 DEF Release, Claim, ClaimOpen, AgreementInv, DisputesInv, Running
  <2>4. TrancheNet + TrancheFee + 0 = TrancheNet + TrancheFee
    BY <2>3, TrancheAmounts DEF AgreementInv
  <2>5. "Settled" \in Ended
    BY DEF Ended
  <2> QED BY <2>2, <2>3, <2>4, <2>5, PaidTrancheLedger
<1>2. CASE Reclaim
  <2>1. /\ state # "None" /\ Ends("Reclaimed", stake)
        /\ UNCHANGED <<terms, partsPaid, released, feeReleased, funded>>
    BY <1>2 DEF Reclaim, ReclaimOpen, trancheVars, Pays
  <2>2. released' \in Nat /\ feeReleased' \in Nat /\ "Reclaimed" \in Ended
    BY <2>1 DEF LedgerInv, AmountsInv, Ended
  <2> QED BY <2>1, <2>2, EndingLedger
<1>3. ASSUME NEW who, AcceptSplit(who) PROVE LedgerInv'
  <2>1. /\ state # "None" /\ Ends("Split", stake) /\ released' = Net /\ feeReleased' = Fee
        /\ UNCHANGED <<terms, partsPaid, funded>>
    BY <1>3 DEF AcceptSplit, OpenToSplit, Splits, Running, Pays, Net, Fee
  <2>2. Net \in Nat /\ Fee \in Nat /\ "Split" \in Ended
    BY PriceIsNetAndFee DEF AgreementInv, TypesInv, Net, Fee, Ended
  <2> QED BY <2>1, <2>2, EndingLedger
<1>4. ASSUME NEW x, LongstopSplit(x) PROVE LedgerInv'
  <2>1. /\ state # "None" /\ Ends("Longstopped", stake)
        /\ UNCHANGED <<terms, partsPaid, released, feeReleased, funded>>
    BY <1>4 DEF LongstopSplit, LongstopOpen, Running, trancheVars, Pays
  <2>2. released' \in Nat /\ feeReleased' \in Nat /\ "Longstopped" \in Ended
    BY <2>1 DEF LedgerInv, AmountsInv, Ended
  <2> QED BY <2>1, <2>2, EndingLedger
<1> QED BY <1>1, <1>2, <1>3, <1>4 DEF PaymentStep

LEMMA RulingLedger ==
    ASSUME AgreementInv, LedgerInv, state = "Disputed", NEW bps, RuleTranche(bps)
    PROVE  LedgerInv'
<1> DEFINE x == ShareOf(TrancheNet, bps)
           y == ShareOf(TrancheFee, bps)
<1>1. /\ Pays(x, y, (TrancheNet - x) + (TrancheFee - y)) /\ NextTranche
      /\ IF LastTranche THEN \E st : Ends("Ruled", st) ELSE state' = "Accepted" /\ promised' = promised
      /\ UNCHANGED <<terms, partsPaid>>
  BY DEF RuleTranche, PaysRuling, BuyersRest
<1>2. x \in Nat /\ y \in Nat
  BY <1>1 DEF Pays, CanPay
<1> HIDE DEF x, y
<1>3. state \in Running /\ PlanPaid /\ TrancheNet \in Nat /\ TrancheFee \in Nat
  BY TrancheAmounts DEF AgreementInv, DisputesInv, Running
<1> DEFINE z == (TrancheNet - x) + (TrancheFee - y)
<1>4. x + y + z = TrancheNet + TrancheFee
  BY <1>2, <1>3
<1>5. "Ruled" \in Ended
  BY DEF Ended
<1> HIDE DEF z
<1>6. PICK st : IF LastTranche THEN Ends("Ruled", st) ELSE state' = "Accepted" /\ promised' = promised
  BY <1>1
<1>7. Pays(x, y, z)
  BY <1>1 DEF z
<1> QED BY <1>1, <1>3, <1>4, <1>5, <1>6, <1>7, PaidTrancheLedger

\* Talk about a dispute or an offer moves no money.
LEMMA TalkLedger ==
    ASSUME LedgerInv, NEW x, NEW o, Talks(x, o), state' = state \/ (state = "Accepted" /\ state' = "Disputed")
    PROVE  LedgerInv'
<1>1. UNCHANGED <<terms, partsPaid, paid, released, feeReleased, funded, balance, promised>>
  BY DEF Talks, trancheVars, moneyVars
<1> QED BY <1>1, LedgerFrame DEF Ended, Running

LEMMA LedgerStep == AgreementInv /\ LedgerInv /\ UnpaidInv /\ [Next]_vars => LedgerInv' /\ UnpaidInv'
<1> SUFFICES ASSUME AgreementInv, LedgerInv, UnpaidInv, [Next]_vars
             PROVE  LedgerInv' /\ UnpaidInv'
  OBVIOUS
<1>a. ASSUME UNCHANGED <<terms, partsPaid, paid, released, feeReleased, funded, balance, promised, state>>
      PROVE  LedgerInv' /\ UnpaidInv'
  BY <1>a, LedgerFrame DEF UnpaidInv
<1>1. CASE Idle
  BY <1>1, <1>a DEF Idle, moneyVars
<1>2. CASE FundingStep
  <2>1. state' # "None"
    BY <1>2 DEF FundingStep, Fund, PayPart, Accept, AcceptWithStake, Accepts, CancelMissed,
                CancelUnaccepted, Ends
  <2> QED BY <1>2, <2>1, FundingLedger DEF UnpaidInv
<1>3. CASE DeliveryStep
  <2>1. UNCHANGED <<dealVars, trancheVars, moneyVars>>
    BY <1>3 DEF DeliveryStep, MarkDelivered, NewDelivery, StartReview, RequestMoreTime, SignVerdict,
                AttestCheck, Reviews
  <2> QED BY <2>1, <1>a DEF dealVars, trancheVars, moneyVars
<1>4. CASE PaymentStep
  <2>1. state' # "None"
    BY <1>4 DEF PaymentStep, Release, Claim, PayTranche, Reclaim, AcceptSplit, Splits, LongstopSplit, Ends
  <2> QED BY <1>4, <2>1, PaymentLedger DEF UnpaidInv
<1>5. CASE DeadlineStep
  <2>1. UNCHANGED <<dealVars, trancheVars, moneyVars>>
    BY <1>5 DEF DeadlineStep, ExtendDeadline, RequestExtension, ApproveExtension, MovesDeadline
  <2> QED BY <2>1, <1>a DEF dealVars, trancheVars, moneyVars
<1>6. CASE DisputeStep
  <2>1. ASSUME NEW x, NEW o, Talks(x, o), state' = state, state = "Disputed" PROVE LedgerInv' /\ UnpaidInv'
    BY <2>1, TalkLedger DEF UnpaidInv
  <2>2. CASE \E bps \in Shares : ProposeRuling(bps)
    BY <2>1, <2>2 DEF ProposeRuling
  <2>3. CASE \E who \in Parties \cup {"arbiter", "anyone"} : Escalate(who)
    BY <2>1, <2>3 DEF Escalate
  <2>4. ASSUME NEW bps, RuleTranche(bps), state = "Disputed" PROVE LedgerInv' /\ UnpaidInv'
    <3>1. state' # "None"
      BY <2>4 DEF RuleTranche, Ends
    <3> QED BY <2>4, <3>1, RulingLedger DEF UnpaidInv
  <2> QED BY <1>6, <2>2, <2>3, <2>4 DEF DisputeStep
<1>7. CASE \E who \in Parties : Dispute(who)
  <2>1. PICK x, o : Talks(x, o) /\ state = "Accepted" /\ state' = "Disputed"
    BY <1>7 DEF Dispute
  <2> QED BY <2>1, TalkLedger DEF UnpaidInv
<1>8. CASE Hold
  BY <1>8, <1>a DEF Hold, dealVars, trancheVars, moneyVars
<1>9. CASE Tick
  BY <1>9, <1>a DEF Tick, dealVars, trancheVars, moneyVars
<1>10. CASE UNCHANGED vars
  BY <1>1, <1>10, StutterIdle
<1> QED BY <1>1, <1>2, <1>3, <1>4, <1>5, <1>6, <1>7, <1>8, <1>9, <1>10, StepCases, SideIsIdle

\* The books of a deal always match its terms, with what rounding left included.
THEOREM LedgersKept == Spec => [](LedgerInv /\ UnpaidInv)
<1>1. Init => LedgerInv /\ UnpaidInv
  BY DEF Init, LedgerInv, AgreedInv, AmountsInv, SharesInv, PlanInv, EndedInv, UnpaidInv, Running, Ended
<1> QED BY <1>1, LedgerStep, AgreementsKept, PTL DEF Spec

-----------------------------------------------------------------------------
(* The stake the vault reserves for a deal, and the horizon its expiry follows. *)

SideInv ==
    /\ hub \in [revoked : BOOLEAN, listed : BOOLEAN]
    /\ requests \in Nat /\ horizon \in Nat /\ holdUntil \in Nat
    /\ offer \in Offer /\ stake \in Stake /\ got \in [buyer : Nat, seller : Nat] /\ feePaid \in Nat

\* A reservation stands only while the deal runs, and outlasts its long-stop unless it has run out.
ReservedInv ==
    stake.active =>
        /\ state \in Running /\ terms.sellerStake # 0
        /\ now <= stake.expires => stake.expires >= StakeExpiry(horizon)

\* How a step may move the horizon and the stake.
HorizonMoves == horizon' = horizon \/ \E h \in Int : horizon' = Bumped(h)

Slashed(bps) == SlashedStake(stake, SlashFor(bps))

Follows(st) ==
    /\ stake' = KeptStake(st, horizon') /\ HorizonMoves
    /\ UNCHANGED <<now, terms>>
    /\ state' = state \/ {state, state'} \subseteq Running

Frees(st) == stake' = FreedStake(st) /\ UNCHANGED <<now, terms>>

Rests ==
    /\ UNCHANGED <<terms, horizon, stake>> /\ now' \in {now, now + 1}
    /\ state' = state \/ {state, state'} \subseteq Running

StakeMoves ==
    \/ Rests
    \/ Follows(stake)
    \/ Frees(stake) /\ horizon' = horizon /\ (state' = state \/ state' \in Ended)
    \/ Frees(KeptStake(stake, horizon')) /\ HorizonMoves /\ state' \in Ended
    \/ \E bps \in 0..BPS : Follows(Slashed(bps)) /\ state = "Disputed"
    \/ \E bps \in 0..BPS : Frees(Slashed(bps)) /\ HorizonMoves /\ state' \in Ended /\ state = "Disputed"
    \/ \E t \in Offered : Fund(t)
    \/ Accept \/ AcceptWithStake

LEMMA TailNat ==
    ASSUME terms \in Terms
    PROVE  ClockTail(terms) \in Nat
<1>1. terms.reclaimGrace \in Nat /\ terms.startLongstop \in Nat /\ terms.silentLongstop \in Nat
  BY DEF Terms
<1> QED BY <1>1 DEF ClockTail

\* Every bump is to a time.
LEMMA HorizonAfterMoves ==
    ASSUME TypesInv, DisputesInv, state = "Disputed", horizon' = HorizonAfterDispute
    PROVE  HorizonMoves
<1>1. DeadlineAfterDispute \in Nat /\ ClockTail(terms) \in Nat
  BY DeadlineAfterNat, TailNat DEF TypesInv
<1>2. DeadlineAfterDispute + ClockTail(terms) \in Int
  BY <1>1
<1> QED BY <1>2 DEF HorizonMoves, HorizonAfterDispute

LEMMA PayPartMoves ==
    ASSUME TypesInv, PayPart
    PROVE  Follows(stake)
<1>1. /\ horizon' = IF Lateness = 0 THEN horizon ELSE Bumped(deadline' + ClockTail(terms))
      /\ deadline' = deadline + Lateness /\ stake' = KeptStake(stake, horizon')
      /\ UNCHANGED <<now, terms, state>>
  BY DEF PayPart
<1>2. deadline' + ClockTail(terms) \in Int
  <2>1. deadline \in Nat /\ Lateness \in Nat /\ ClockTail(terms) \in Nat
    BY LatenessNat, TailNat DEF TypesInv
  <2> QED BY <1>1, <2>1
<1> QED BY <1>1, <1>2 DEF Follows, HorizonMoves

LEMMA MarkMoves ==
    ASSUME TypesInv, MarkDelivered
    PROVE  Follows(stake)
<1>1. /\ horizon' = Bumped(now + terms.startLongstop + terms.silentLongstop + HoldCap)
      /\ stake' = KeptStake(stake, horizon') /\ UNCHANGED <<now, terms, state>>
  BY DEF MarkDelivered, NewDelivery, dealVars
<1>2. now + terms.startLongstop + terms.silentLongstop + HoldCap \in Int
  <2>1. now \in Nat /\ terms.startLongstop \in Nat /\ terms.silentLongstop \in Nat /\ HoldCap \in Nat
    BY AgreementAssumption DEF TypesInv, Terms
  <2> QED BY <2>1
<1> QED BY <1>1, <1>2 DEF Follows, HorizonMoves

LEMMA DeadlineMoves ==
    ASSUME TypesInv, DeadlineStep
    PROVE  Follows(stake) \/ Rests
<1>1. ASSUME NEW to \in Nat, MovesDeadline(to) PROVE Follows(stake)
  <2>1. /\ horizon' = Bumped(to + ClockTail(terms)) /\ stake' = KeptStake(stake, horizon')
        /\ UNCHANGED <<now, terms, state>>
    BY <1>1 DEF MovesDeadline, dealVars
  <2>2. to + ClockTail(terms) \in Int
    BY TailNat DEF TypesInv
  <2> QED BY <2>1, <2>2 DEF Follows, HorizonMoves
<1>2. ASSUME NEW to, RequestExtension(to) PROVE Rests
  BY <1>2 DEF RequestExtension, Rests, dealVars
<1>3. \A to \in Deadlines : to \in Nat
  BY AgreementAssumption
<1>4. ApproveExtension => requested \in Nat /\ MovesDeadline(requested)
  BY DEF ApproveExtension, TypesInv
<1> QED BY <1>1, <1>2, <1>3, <1>4 DEF DeadlineStep, ExtendDeadline

LEMMA DisputeMoves ==
    ASSUME TypesInv, NEW who \in Parties, Dispute(who)
    PROVE  Follows(stake)
<1>1. /\ horizon' = Bumped(now + Longest) /\ stake' = KeptStake(stake, horizon')
      /\ UNCHANGED <<now, terms>> /\ state = "Accepted" /\ state' = "Disputed"
  BY DEF Dispute, Talks
<1>2. now + Longest \in Int
  BY AgreementAssumption DEF Longest, TypesInv
<1> QED BY <1>1, <1>2 DEF Follows, HorizonMoves, Running

LEMMA EscalateMoves ==
    ASSUME TypesInv, NEW who, Escalate(who)
    PROVE  Follows(stake)
<1>1. /\ horizon' = Bumped(now + RulingPeriod) /\ stake' = KeptStake(stake, horizon')
      /\ UNCHANGED <<now, terms, state>>
  BY DEF Escalate, Talks
<1>2. now + RulingPeriod \in Int
  BY AgreementAssumption DEF TypesInv
<1> QED BY <1>1, <1>2 DEF Follows, HorizonMoves

LEMMA RulingMoves ==
    ASSUME TypesInv, DisputesInv, state = "Disputed", NEW bps \in 0..BPS, RuleTranche(bps)
    PROVE  StakeMoves
<1>1. horizon' = HorizonAfterDispute /\ UNCHANGED <<now, terms>>
  BY DEF RuleTranche
<1>2. HorizonMoves
  BY <1>1, HorizonAfterMoves
<1>3. \/ Ends("Ruled", Slashed(bps))
      \/ state' = "Accepted" /\ stake' = KeptStake(Slashed(bps), horizon')
  BY DEF RuleTranche, Slashed
<1>4. Ends("Ruled", Slashed(bps)) => Frees(Slashed(bps)) /\ state' \in Ended
  BY <1>1 DEF Ends, Frees, Ended
<1>5. state' = "Accepted" /\ stake' = KeptStake(Slashed(bps), horizon') => Follows(Slashed(bps))
  BY <1>1, <1>2 DEF Follows, Running
<1> QED BY <1>2, <1>3, <1>4, <1>5 DEF StakeMoves

LEMMA ReleaseMoves ==
    ASSUME TypesInv, DisputesInv, Release
    PROVE  \/ Follows(stake)
           \/ Frees(KeptStake(stake, horizon')) /\ HorizonMoves /\ state' \in Ended
<1>1. HorizonMoves /\ UNCHANGED <<now, terms>> /\ state \in Running
  BY HorizonAfterMoves DEF Release, HorizonMoves
<1>2. PayTranche(KeptStake(stake, horizon'), "Accepted")
  BY DEF Release
<1>3. CASE LastTranche
  BY <1>1, <1>2, <1>3 DEF PayTranche, Ends, Frees, Ended
<1>4. CASE ~LastTranche
  BY <1>1, <1>2, <1>4 DEF PayTranche, Follows, Running
<1> QED BY <1>3, <1>4

LEMMA PaymentMoves ==
    ASSUME TypesInv, DisputesInv, PaymentStep
    PROVE  StakeMoves
<1>1. CASE Release
  BY <1>1, ReleaseMoves DEF StakeMoves
<1>2. CASE Claim
  <2>1. PayTranche(stake, "Accepted") /\ UNCHANGED <<now, terms, horizon>> /\ state = "Accepted"
    BY <1>2 DEF Claim, ClaimOpen
  <2>2. \/ Frees(stake) /\ horizon' = horizon /\ state' \in Ended
        \/ Rests
    BY <2>1 DEF PayTranche, Ends, Frees, Ended, Rests
  <2> QED BY <2>2 DEF StakeMoves
<1>3. CASE Reclaim
  <2>1. Frees(stake) /\ horizon' = horizon /\ state' \in Ended
    BY <1>3 DEF Reclaim, Ends, Frees, Ended
  <2> QED BY <2>1 DEF StakeMoves
<1>4. ASSUME NEW who, AcceptSplit(who) PROVE StakeMoves
  <2>1. Frees(stake) /\ horizon' = horizon /\ state' \in Ended
    BY <1>4 DEF AcceptSplit, Splits, Ends, Frees, Ended
  <2> QED BY <2>1 DEF StakeMoves
<1>5. ASSUME NEW x, LongstopSplit(x) PROVE StakeMoves
  <2>1. Frees(stake) /\ horizon' = horizon /\ state' \in Ended
    BY <1>5 DEF LongstopSplit, Ends, Frees, Ended
  <2> QED BY <2>1 DEF StakeMoves
<1> QED BY <1>1, <1>2, <1>3, <1>4, <1>5 DEF PaymentStep

LEMMA FundingMoves ==
    ASSUME TypesInv, FundingStep
    PROVE  StakeMoves
<1>1. CASE PayPart
  BY <1>1, PayPartMoves DEF StakeMoves
<1>2. CASE CancelMissed \/ CancelUnaccepted
  <2>1. Frees(stake) /\ horizon' = horizon /\ state' \in Ended
    BY <1>2 DEF CancelMissed, CancelUnaccepted, Ends, Frees, Ended
  <2> QED BY <2>1 DEF StakeMoves
<1> QED BY <1>1, <1>2 DEF FundingStep, StakeMoves

LEMMA SideMoves ==
    ASSUME SideStep
    PROVE  StakeMoves
<1>1. CASE KeepStake
  <2>1. Follows(stake)
    BY <1>1 DEF KeepStake, Follows, HorizonMoves, dealVars
  <2> QED BY <2>1 DEF StakeMoves
<1>2. CASE ReleaseStale
  <2>1. Frees(stake) /\ horizon' = horizon /\ state' = state
    BY <1>2 DEF ReleaseStale, Frees, dealVars
  <2> QED BY <2>1 DEF StakeMoves
<1>3. CASE TalkStep
  BY <1>3 DEF TalkStep, CancelSplit, ProposeSplit, Talks, StakeMoves, Rests
<1>4. CASE HubStep
  BY <1>4 DEF HubStep, RevokeFamily, SetAsset, SetHub, StakeMoves, Rests, dealVars
<1>5. CASE ReleaseHold
  BY <1>5 DEF ReleaseHold, StakeMoves, Rests, dealVars
<1> QED BY <1>1, <1>2, <1>3, <1>4, <1>5 DEF SideStep, VaultStep

LEMMA StepMovesStake ==
    ASSUME AgreementInv, LedgerInv, [Next]_vars
    PROVE  StakeMoves
<1> USE DEF AgreementInv
<1>1. CASE SideStep
  BY <1>1, SideMoves
<1>2. CASE FundingStep
  BY <1>2, FundingMoves
<1>3. CASE DeliveryStep
  <2>1. CASE MarkDelivered
    BY <2>1, MarkMoves DEF StakeMoves
  <2>2. CASE StartReview \/ RequestMoreTime \/ (\E pass \in BOOLEAN : SignVerdict(pass)) \/ (\E c \in verdicts : AttestCheck(c))
    BY <2>2 DEF StartReview, RequestMoreTime, SignVerdict, AttestCheck, Reviews, StakeMoves, Rests, dealVars
  <2> QED BY <1>3, <2>1, <2>2 DEF DeliveryStep
<1>4. CASE PaymentStep
  BY <1>4, PaymentMoves
<1>5. CASE DeadlineStep
  BY <1>5, DeadlineMoves DEF StakeMoves
<1>6. CASE DisputeStep
  <2>1. CASE \E bps \in Shares : ProposeRuling(bps)
    BY <2>1 DEF ProposeRuling, Talks, StakeMoves, Rests
  <2>2. CASE \E who \in Parties \cup {"arbiter", "anyone"} : Escalate(who)
    BY <2>2, EscalateMoves DEF StakeMoves
  <2>3. ASSUME NEW bps \in Shares \cup {dispute.bps, terms.fallbackBps}, RuleTranche(bps), state = "Disputed"
        PROVE  StakeMoves
    <3>1. /\ Shares \subseteq 0..BPS /\ dispute.bps \in 0..BPS /\ BPS \in Nat
      BY AgreementAssumption DEF TypesInv, DisputeRecord
    <3>2. terms.fallbackBps \in Nat /\ terms.fallbackBps <= BPS
      BY <2>3 DEF TypesInv, Terms, LedgerInv, AgreedInv
    <3>3. terms.fallbackBps \in 0..BPS
      BY <3>1, <3>2
    <3>4. bps \in 0..BPS
      BY <3>1, <3>3
    <3> QED BY <2>3, <3>4, RulingMoves
  <2> QED BY <1>6, <2>1, <2>2, <2>3 DEF DisputeStep
<1>7. CASE \E who \in Parties : Dispute(who)
  BY <1>7, DisputeMoves DEF StakeMoves
<1>8. CASE Hold
  BY <1>8 DEF Hold, StakeMoves, Rests, dealVars
<1>9. CASE Tick
  BY <1>9 DEF Tick, StakeMoves, Rests, dealVars
<1>10. CASE UNCHANGED vars
  BY <1>10 DEF vars, StakeMoves, Rests, dealVars
<1> QED BY <1>1, <1>2, <1>3, <1>4, <1>5, <1>6, <1>7, <1>8, <1>9, <1>10, StepCases

\* A later horizon only moves the expiry; and it does move it wherever the vault may accept it.
LEMMA KeptStakeIs ==
    ASSUME TypesInv, NEW st \in Stake, NEW h \in Nat
    PROVE  /\ KeptStake(st, h) \in Stake
           /\ KeptStake(st, h).active = st.active /\ KeptStake(st, h).slashed = st.slashed
           /\ KeptStake(st, h).expires >= st.expires
           /\ (st.active /\ terms.sellerStake # 0 /\ now <= st.expires /\ h <= now + MaxHorizon)
                  => KeptStake(st, h).expires >= StakeExpiry(h)
           /\ now <= KeptStake(st, h).expires => now <= st.expires
<1>1. /\ now \in Nat /\ Longstop \in Nat /\ StakeSlack \in Nat /\ MaxTerm \in Nat /\ MaxHorizon \in Nat
      /\ MaxHorizon + Longstop + StakeSlack <= MaxTerm
  BY AgreementAssumption DEF TypesInv
<1>2. StakeExpiry(h) \in Nat /\ StakeExpiry(h) = h + Longstop + StakeSlack
  BY <1>1 DEF StakeExpiry
<1>3. st.expires \in Nat /\ st.active \in BOOLEAN /\ st.amount \in Nat /\ st.slashed \in Nat
  BY DEF Stake
<1> DEFINE e == StakeExpiry(h)
           may == /\ terms.sellerStake # 0 /\ st.active /\ e > st.expires
                  /\ now <= st.expires /\ e <= now + MaxTerm
           k == KeptStake(st, h)
<1>4. k = IF may THEN [st EXCEPT !.expires = e] ELSE st
  BY DEF KeptStake
<1>5. e \in Nat /\ (h <= now + MaxHorizon => e <= now + MaxTerm)
  BY <1>1, <1>2
<1> HIDE DEF e, k
<1>6. CASE may
  <2>1. /\ k \in Stake /\ k.active = st.active /\ k.slashed = st.slashed /\ k.expires = e
    BY <1>4, <1>5, <1>6 DEF Stake
  <2> QED BY <1>3, <1>5, <1>6, <2>1 DEF k, e
<1>7. CASE ~may
  <2>1. k = st
    BY <1>4, <1>7
  <2> QED BY <1>1, <1>3, <1>5, <1>7, <2>1 DEF k, e
<1> QED BY <1>6, <1>7

LEMMA FreedStakeIs ==
    ASSUME NEW st \in Stake
    PROVE  FreedStake(st) \in Stake /\ ~FreedStake(st).active /\ FreedStake(st).slashed = st.slashed
BY DEF FreedStake, Stake

\* A slash takes no more than was reserved, and leaves the expiry alone.
LEMMA SlashedStakeIs ==
    ASSUME NEW st \in Stake, NEW x \in Nat
    PROVE  /\ SlashedStake(st, x) \in Stake /\ SlashedStake(st, x).expires = st.expires
           /\ SlashedStake(st, x).active => st.active
           /\ SlashedStake(st, x).slashed <= st.slashed + x
<1> DEFINE cut == AtMost(x, st.amount)
           amount == st.amount - cut
           slashed == st.slashed + cut
           active == st.amount # cut
           k == SlashedStake(st, x)
<1>1. st.amount \in Nat /\ st.slashed \in Nat /\ st.expires \in Nat /\ st.active \in BOOLEAN
  BY DEF Stake
<1>2. cut \in Nat /\ cut <= st.amount /\ cut <= x
  BY <1>1 DEF AtMost
<1>3. k = IF IsFamily /\ st.active /\ now <= st.expires
          THEN [st EXCEPT !.amount = amount, !.slashed = slashed, !.active = active]
          ELSE st
  BY DEF SlashedStake
<1>4. amount \in Nat /\ slashed \in Nat /\ slashed <= st.slashed + x /\ active \in BOOLEAN
  <2> HIDE DEF cut
  <2> QED BY <1>1, <1>2
<1> HIDE DEF cut, amount, slashed, active, k
<1>5. CASE IsFamily /\ st.active /\ now <= st.expires
  <2>1. /\ k \in Stake /\ k.expires = st.expires /\ k.slashed = slashed
    BY <1>1, <1>3, <1>4, <1>5 DEF Stake
  <2> QED BY <1>4, <1>5, <2>1 DEF k
<1>6. CASE ~ (IsFamily /\ st.active /\ now <= st.expires)
  <2>1. k = st
    BY <1>3, <1>6
  <2> QED BY <1>1, <2>1 DEF k
<1> QED BY <1>5, <1>6

\* What a ruling slashes is the buyer's share of the tranche's share of the stake, rounded down.
LEMMA SlashForIs ==
    ASSUME TypesInv, DisputesInv, LedgerInv, state \in Running, NEW bps \in 0..BPS
    PROVE  /\ SlashFor(bps) \in Nat /\ Net \in Nat /\ Net > 0 /\ terms.sellerStake \in Nat
           /\ BPS * Net * SlashFor(bps) <= terms.sellerStake * (BPS - bps) * TrancheNet
<1>1. terms \in Terms /\ state # "None" /\ BPS \in Nat /\ BPS > 0
  BY AgreementAssumption DEF TypesInv, Running
<1>2. terms.sellerStake \in Nat /\ terms.amount > 0
  BY <1>1 DEF Terms, LedgerInv, AgreedInv
<1>3. Net \in Nat /\ Net > 0
  BY <1>1, <1>2, PriceIsNetAndFee DEF Net
<1>4. TrancheNet \in Nat
  BY TrancheAmounts
<1> DEFINE p == terms.sellerStake * (BPS - bps) * TrancheNet
           q == BPS * Net
<1>5. p \in Nat
  <2>1. BPS - bps \in Nat
    BY <1>1
  <2>2. terms.sellerStake * (BPS - bps) \in Nat
    BY <1>2, <2>1
  <2> QED BY <1>4, <2>2
<1>6. q \in Nat /\ q > 0
  <2>1. BPS * Net >= Net
    <3>1. 1 * Net <= BPS * Net /\ 1 * Net = Net
      BY <1>1, <1>3, ProductMonotone
    <3> QED BY <3>1
  <2> QED BY <1>1, <1>3, <2>1
<1>7. SlashFor(bps) = p \div q
  BY DEF SlashFor, Net
<1> HIDE DEF p, q
<1>8. p \div q \in Nat /\ q * (p \div q) <= p
  BY <1>5, <1>6, QuotientBounds
<1> QED BY <1>2, <1>3, <1>7, <1>8 DEF p, q

LEMMA BumpedIs ==
    ASSUME TypesInv, horizon \in Nat, NEW h \in Int
    PROVE  /\ Bumped(h) \in Nat /\ Bumped(h) >= horizon
           /\ Bumped(h) = horizon \/ Bumped(h) <= now + MaxHorizon
<1>1. now \in Nat /\ MaxHorizon \in Nat
  BY AgreementAssumption DEF TypesInv
<1> QED BY <1>1 DEF Bumped, AtLeast, AtMost

LEMMA HorizonOnlyGrows ==
    ASSUME TypesInv, horizon \in Nat, HorizonMoves
    PROVE  horizon' \in Nat /\ horizon' >= horizon /\ (horizon' = horizon \/ horizon' <= now + MaxHorizon)
BY BumpedIs DEF HorizonMoves

LEMMA FundHorizon ==
    ASSUME TypesInv, NEW t \in Offered, Fund(t)
    PROVE  horizon' \in Nat
<1>1. t \in Terms /\ now \in Nat
  BY AgreementAssumption DEF TypesInv
<1>2. t.deliveryDeadline \in Nat /\ ClockTail(t) \in Nat
  <2>1. t.deliveryDeadline \in Nat /\ t.reclaimGrace \in Nat /\ t.startLongstop \in Nat /\ t.silentLongstop \in Nat
    BY <1>1 DEF Terms
  <2> QED BY <2>1 DEF ClockTail
<1>3. horizon' = now + t.deliveryDeadline + ClockTail(t)
  BY DEF Fund
<1> QED BY <1>1, <1>2, <1>3

\* The horizon and the stake keep their types, and the stake its promise.
LEMMA ReservedStep ==
    ASSUME AgreementInv, LedgerInv, horizon \in Nat, stake \in Stake, ReservedInv, [Next]_vars
    PROVE  horizon' \in Nat /\ stake' \in Stake /\ ReservedInv'
<1>1. TypesInv /\ DisputesInv /\ now \in Nat
  BY DEF AgreementInv, TypesInv
<1>2. ASSUME NEW st \in Stake, st.active => stake.active, st.expires = stake.expires, Follows(st)
      PROVE  horizon' \in Nat /\ stake' \in Stake /\ ReservedInv'
  <2>1. /\ horizon' \in Nat /\ (horizon' = horizon \/ horizon' <= now + MaxHorizon)
        /\ stake' = KeptStake(st, horizon') /\ now' = now /\ terms' = terms
        /\ state \in Running => state' \in Running
    BY <1>1, <1>2, HorizonOnlyGrows DEF Follows
  <2>2. /\ stake' \in Stake /\ stake'.active = st.active /\ stake'.expires >= st.expires
        /\ (st.active /\ terms.sellerStake # 0 /\ now <= st.expires /\ horizon' <= now + MaxHorizon)
               => stake'.expires >= StakeExpiry(horizon')
        /\ now <= stake'.expires => now <= st.expires
    BY <1>1, <2>1, KeptStakeIs
  <2>3. StakeExpiry(horizon') \in Nat /\ StakeExpiry(horizon)' = StakeExpiry(horizon')
    BY <2>1, AgreementAssumption DEF StakeExpiry
  <2>4. stake'.expires \in Nat /\ st.expires \in Nat
    BY <2>2, <1>2 DEF Stake
  <2>5. ASSUME stake'.active
        PROVE  /\ state' \in Running /\ terms.sellerStake # 0
               /\ now <= stake'.expires => stake'.expires >= StakeExpiry(horizon')
    <3>1. /\ state \in Running /\ terms.sellerStake # 0
          /\ now <= stake.expires => stake.expires >= StakeExpiry(horizon)
      BY <1>2, <2>2, <2>5 DEF ReservedInv
    <3>2. CASE horizon' = horizon
      BY <1>2, <2>1, <2>2, <2>3, <2>4, <3>1, <3>2
    <3>3. CASE horizon' <= now + MaxHorizon
      BY <1>2, <2>1, <2>2, <2>5, <3>1, <3>3
    <3> QED BY <2>1, <3>1, <3>2, <3>3
  <2> QED BY <2>1, <2>2, <2>3, <2>5 DEF ReservedInv
<1>3. ASSUME NEW st \in Stake, Frees(st)
      PROVE  stake' \in Stake /\ ReservedInv'
  BY <1>3, FreedStakeIs DEF Frees, ReservedInv
<1>4. ASSUME NEW bps \in 0..BPS, state = "Disputed"
      PROVE  /\ Slashed(bps) \in Stake /\ Slashed(bps).expires = stake.expires
             /\ Slashed(bps).active => stake.active
  <2>1. SlashFor(bps) \in Nat
    BY <1>1, <1>4, SlashForIs DEF Running
  <2> QED BY <2>1, SlashedStakeIs DEF Slashed
<1>5. CASE Rests
  <2>1. /\ UNCHANGED <<terms, horizon, stake>> /\ now' >= now /\ now' \in Nat
        /\ state \in Running => state' \in Running
    BY <1>1, <1>5 DEF Rests
  <2>2. stake.expires \in Nat
    BY DEF Stake
  <2> QED BY <1>1, <2>1, <2>2 DEF ReservedInv, StakeExpiry
<1>6. CASE Follows(stake)
  BY <1>2, <1>6
<1>7. CASE Frees(stake) /\ horizon' = horizon
  BY <1>3, <1>7
<1>8. CASE Frees(KeptStake(stake, horizon')) /\ HorizonMoves
  <2>1. horizon' \in Nat
    BY <1>1, <1>8, HorizonOnlyGrows
  <2>2. KeptStake(stake, horizon') \in Stake
    BY <1>1, <2>1, KeptStakeIs
  <2> QED BY <1>3, <1>8, <2>1, <2>2
<1>9. CASE \E bps \in 0..BPS : Follows(Slashed(bps)) /\ state = "Disputed"
  BY <1>2, <1>4, <1>9
<1>10. CASE \E bps \in 0..BPS : Frees(Slashed(bps)) /\ HorizonMoves /\ state = "Disputed"
  <2>1. horizon' \in Nat
    BY <1>1, <1>10, HorizonOnlyGrows
  <2> QED BY <1>3, <1>4, <1>10, <2>1
<1>11. CASE \E t \in Offered : Fund(t)
  <2>1. horizon' \in Nat
    BY <1>1, <1>11, FundHorizon
  <2>2. stake' = stake /\ state = "None"
    BY <1>11 DEF Fund
  <2> QED BY <2>1, <2>2 DEF ReservedInv, Running
<1>12. CASE Accept
  <2>1. stake' = stake /\ horizon' = horizon /\ state = "Funded"
    BY <1>12 DEF Accept, Accepts
  <2> QED BY <2>1 DEF ReservedInv, Running
<1>13. CASE AcceptWithStake
  <2>1. /\ horizon' = horizon /\ now' = now /\ terms' = terms /\ state' = "Accepted"
        /\ terms.sellerStake # 0
    BY <1>13 DEF AcceptWithStake, Accepts
  <2> DEFINE n == terms.sellerStake
             e == StakeExpiry(horizon)
  <2>2. stake' = [NoStake EXCEPT !.active = TRUE, !.amount = n, !.expires = e]
    BY <1>13 DEF AcceptWithStake
  <2>3. n \in Nat /\ e \in Nat
    <3>1. n \in Nat
      BY <1>1 DEF TypesInv, Terms
    <3>2. e \in Nat
      BY AgreementAssumption DEF StakeExpiry
    <3> QED BY <3>1, <3>2
  <2>4. StakeExpiry(horizon)' = e
    BY <2>1 DEF StakeExpiry
  <2> HIDE DEF n, e
  <2>5. stake' \in Stake /\ stake'.expires = e
    BY <2>2, <2>3 DEF NoStake, Stake
  <2> QED BY <2>1, <2>3, <2>4, <2>5 DEF ReservedInv, Running
<1> QED BY <1>5, <1>6, <1>7, <1>8, <1>9, <1>10, <1>11, <1>12, <1>13, StepMovesStake DEF StakeMoves


-----------------------------------------------------------------------------
\* The other variables keep their types.
LEMMA OfferKept ==
    ASSUME AgreementInv, offer \in Offer, [Next]_vars
    PROVE  offer' \in Offer
<1>0. NoOffer \in Offer
  BY AgreementAssumption DEF NoOffer, Offer
<1>1. CASE TalkStep
  <2>1. CASE CancelSplit
    BY <1>0, <2>1 DEF CancelSplit, Talks
  <2>2. ASSUME NEW who \in Parties, NEW bps \in Shares, ProposeSplit(who, bps) PROVE offer' \in Offer
    <3>1. offer' = [proposer |-> who, bps |-> bps, paid |-> paid]
      BY <2>2 DEF ProposeSplit, Talks
    <3>2. paid \in Nat /\ bps \in 0..BPS
      BY AgreementAssumption DEF AgreementInv, TypesInv
    <3> QED BY <3>1, <3>2 DEF Offer
  <2> QED BY <1>1, <2>1, <2>2 DEF TalkStep
<1>2. CASE PaymentStep
  BY <1>0, <1>2 DEF PaymentStep, Release, Claim, Reclaim, AcceptSplit, Splits, LongstopSplit, talkVars
<1>3. CASE HubStep \/ VaultStep \/ ReleaseHold
  BY <1>3 DEF HubStep, VaultStep, RevokeFamily, SetAsset, SetHub, KeepStake, ReleaseStale, ReleaseHold, talkVars
<1>4. CASE FundingStep
  BY <1>4 DEF FundingStep, Fund, PayPart, Accept, AcceptWithStake, Accepts, CancelMissed, CancelUnaccepted, talkVars
<1>5. CASE DeliveryStep
  BY <1>5 DEF DeliveryStep, MarkDelivered, NewDelivery, StartReview, RequestMoreTime, SignVerdict,
              AttestCheck, Reviews, talkVars
<1>6. CASE DeadlineStep
  BY <1>6 DEF DeadlineStep, ExtendDeadline, RequestExtension, ApproveExtension, MovesDeadline, talkVars
<1>7. CASE DisputeStep \/ (\E who \in Parties : Dispute(who))
  BY <1>7 DEF DisputeStep, ProposeRuling, Escalate, RuleTranche, Dispute, Talks
<1>8. CASE Hold \/ Tick \/ UNCHANGED vars
  BY <1>8 DEF Hold, Tick, vars, talkVars
<1> QED BY <1>1, <1>2, <1>3, <1>4, <1>5, <1>6, <1>7, <1>8, StepCases DEF SideStep

LEMMA ClockTypesKept ==
    ASSUME AgreementInv, requests \in Nat, holdUntil \in Nat, hub \in [revoked : BOOLEAN, listed : BOOLEAN],
           [Next]_vars
    PROVE  requests' \in Nat /\ holdUntil' \in Nat /\ hub' \in [revoked : BOOLEAN, listed : BOOLEAN]
<1> DEFINE Kept == UNCHANGED <<requests, holdUntil, hub>>
<1>0. now \in Nat /\ holdUsed \in 0..HoldCap /\ HoldCap \in Nat /\ HoldStep \in Nat
  BY AgreementAssumption DEF AgreementInv, TypesInv
<1>1. CASE TalkStep \/ VaultStep
  <2>1. Kept
    BY <1>1 DEF TalkStep, CancelSplit, ProposeSplit, Talks, VaultStep, KeepStake, ReleaseStale, dueVars, holdVars
  <2> QED BY <2>1
<1>2. CASE HubStep
  <2>1. /\ UNCHANGED <<requests, holdUntil>>
        /\ \/ hub' = [hub EXCEPT !.revoked = TRUE]
           \/ \E allowed \in BOOLEAN : hub' = [hub EXCEPT !.listed = allowed]
    BY <1>2 DEF HubStep, RevokeFamily, SetAsset, SetHub, dueVars, holdVars
  <2> QED BY <2>1
<1>3. CASE ReleaseHold
  BY <1>0, <1>3 DEF ReleaseHold, dueVars
<1>4. CASE FundingStep
  <2>1. Kept
    BY <1>4 DEF FundingStep, Fund, PayPart, Accept, AcceptWithStake, Accepts, CancelMissed,
                CancelUnaccepted, dueVars, holdVars
  <2> QED BY <2>1
<1>5. CASE DeliveryStep
  <2>1. Kept
    BY <1>5 DEF DeliveryStep, MarkDelivered, NewDelivery, StartReview, RequestMoreTime, SignVerdict,
                AttestCheck, Reviews, dueVars, holdVars
  <2> QED BY <2>1
<1>6. CASE PaymentStep
  <2>1. Kept
    BY <1>6 DEF PaymentStep, Release, Claim, Reclaim, AcceptSplit, Splits, LongstopSplit, dueVars, holdVars
  <2> QED BY <2>1
<1>7. CASE DeadlineStep
  <2>1. UNCHANGED <<holdUntil, hub>> /\ requests' \in {requests, requests + 1}
    BY <1>7 DEF DeadlineStep, ExtendDeadline, RequestExtension, ApproveExtension, MovesDeadline, holdVars
  <2> QED BY <2>1
<1>8. CASE DisputeStep \/ (\E who \in Parties : Dispute(who))
  <2>1. Kept
    BY <1>8 DEF DisputeStep, ProposeRuling, Escalate, RuleTranche, Dispute, Talks, dueVars, holdVars
  <2> QED BY <2>1
<1>9. CASE Hold
  <2>1. holdUntil' = now + NextHold /\ UNCHANGED <<requests, hub>>
    BY <1>9 DEF Hold, dueVars
  <2>2. NextHold \in Nat
    BY <1>0 DEF NextHold, AtMost
  <2> QED BY <1>0, <2>1, <2>2
<1>10. CASE Tick \/ UNCHANGED vars
  <2>1. Kept
    BY <1>10 DEF Tick, vars, dueVars, holdVars
  <2> QED BY <2>1
<1> QED BY <1>1, <1>2, <1>3, <1>4, <1>5, <1>6, <1>7, <1>8, <1>9, <1>10, StepCases DEF SideStep

\* Money reaches the two sides and the fee only through the account's payments.
LEMMA PaymentsOnly ==
    ASSUME [Next]_vars
    PROVE  UNCHANGED <<got, feePaid>> \/ \E a, b, c : Pays(a, b, c)
<1>1. CASE Idle
  BY <1>1 DEF Idle, moneyVars
<1>2. CASE FundingStep
  <2>1. CASE CancelMissed
    BY <2>1 DEF CancelMissed
  <2>2. CASE CancelUnaccepted
    BY <2>2 DEF CancelUnaccepted
  <2> QED BY <1>2, <2>1, <2>2 DEF FundingStep, Fund, PayPart, Accept, AcceptWithStake, Accepts, moneyVars
<1>3. CASE DeliveryStep
  BY <1>3 DEF DeliveryStep, MarkDelivered, NewDelivery, StartReview, RequestMoreTime, SignVerdict,
              AttestCheck, Reviews, moneyVars
<1>4. CASE PaymentStep
  <2>1. CASE Release \/ Claim
    BY <2>1 DEF Release, Claim, PayTranche
  <2>2. CASE Reclaim
    BY <2>2 DEF Reclaim
  <2>3. ASSUME NEW who, AcceptSplit(who) PROVE \E a, b, c : Pays(a, b, c)
    BY <2>3, Zenon DEF AcceptSplit, Splits
  <2>4. ASSUME NEW x, LongstopSplit(x) PROVE \E a, b, c : Pays(a, b, c)
    BY <2>4 DEF LongstopSplit
  <2> QED BY <1>4, <2>1, <2>2, <2>3, <2>4 DEF PaymentStep
<1>5. CASE DeadlineStep
  BY <1>5 DEF DeadlineStep, ExtendDeadline, RequestExtension, ApproveExtension, MovesDeadline, moneyVars
<1>6. CASE DisputeStep
  <2>1. ASSUME NEW bps, RuleTranche(bps) PROVE \E a, b, c : Pays(a, b, c)
    BY <2>1, Zenon DEF RuleTranche, PaysRuling
  <2> QED BY <1>6, <2>1 DEF DisputeStep, ProposeRuling, Escalate, Talks, moneyVars
<1>7. CASE \E who \in Parties : Dispute(who)
  BY <1>7 DEF Dispute, Talks, moneyVars
<1>8. CASE Hold \/ Tick
  BY <1>8 DEF Hold, Tick, moneyVars
<1>9. CASE UNCHANGED vars
  BY <1>1, <1>9, StutterIdle
<1> QED BY <1>1, <1>2, <1>3, <1>4, <1>5, <1>6, <1>7, <1>8, <1>9, StepCases, SideIsIdle

DealInv == AgreementInv /\ LedgerInv /\ UnpaidInv /\ SideInv /\ ReservedInv

LEMMA DealStep == DealInv /\ [Next]_vars => DealInv'
<1> SUFFICES ASSUME DealInv, [Next]_vars PROVE DealInv'
  OBVIOUS
<1>1. AgreementInv' /\ LedgerInv' /\ UnpaidInv'
  BY NextKeeps, LedgerStep DEF DealInv
<1>2. horizon' \in Nat /\ stake' \in Stake /\ ReservedInv'
  BY ReservedStep DEF DealInv, SideInv
<1>3. got' \in [buyer : Nat, seller : Nat] /\ feePaid' \in Nat
  <2>1. got \in [buyer : Nat, seller : Nat] /\ feePaid \in Nat
    BY DEF DealInv, SideInv
  <2>2. ASSUME NEW a, NEW b, NEW c, Pays(a, b, c)
        PROVE  got' \in [buyer : Nat, seller : Nat] /\ feePaid' \in Nat
    <3>1. /\ a \in Nat /\ b \in Nat /\ c \in Nat /\ feePaid' = feePaid + b
          /\ got' = [buyer |-> got.buyer + c, seller |-> got.seller + a]
      BY <2>2 DEF Pays, CanPay
    <3>2. got.buyer + c \in Nat /\ got.seller + a \in Nat
      BY <2>1, <3>1
    <3> QED BY <2>1, <3>1, <3>2
  <2> QED BY <2>1, <2>2, PaymentsOnly
<1> QED BY <1>1, <1>2, <1>3, OfferKept, ClockTypesKept DEF DealInv, SideInv

\* Every part of a deal's record keeps its invariant: the clocks, the ledger, the stake, the horizon.
THEOREM DealsKept == Spec => []DealInv
<1>1. Init => DealInv
  <2> SUFFICES ASSUME Init PROVE DealInv
    OBVIOUS
  <2>1. AgreementInv
    BY InitKeeps
  <2>2. LedgerInv /\ UnpaidInv
    BY DEF Init, LedgerInv, AgreedInv, AmountsInv, SharesInv, PlanInv, EndedInv, UnpaidInv, Running, Ended
  <2>3. offer \in Offer /\ stake \in Stake
    BY AgreementAssumption DEF Init, NoOffer, NoStake, Offer, Stake
  <2>4. SideInv
    BY <2>3 DEF Init, SideInv
  <2>5. ReservedInv
    BY DEF Init, ReservedInv, NoStake
  <2> QED BY <2>1, <2>2, <2>4, <2>5 DEF DealInv
<1> QED BY <1>1, DealStep, PTL DEF Spec

\* I1 and I2: whatever the terms, the parts, the tranches and the rulings, a deal whose plan is paid
\* holds exactly what it still owes, an unfinished plan what came in, an ended deal nothing.
THEOREM BooksAlwaysKept == Spec => []BooksKept
<1>1. DealInv => BooksKept
  <2> SUFFICES ASSUME DealInv PROVE BooksKept
    OBVIOUS
  <2> USE DEF DealInv
  <2>1. TypeOK
    <3>1. HoldSince \in Nat
      <4>1. delivery.holdBase \in Nat /\ delivery.holdBase <= holdUsed /\ holdUsed \in Nat
        BY AgreementAssumption DEF AgreementInv, TypesInv, ClocksInv, Delivery
      <4> QED BY <4>1 DEF HoldSince
    <3>2. state \in Running => TrancheNet \in Nat /\ TrancheFee \in Nat
      BY TrancheAmounts DEF AgreementInv
    <3>3. holdUsed \in Nat /\ released \in Nat /\ feeReleased \in Nat /\ funded \in Nat /\ balance \in Nat /\ promised \in Nat
      BY AgreementAssumption DEF AgreementInv, TypesInv, LedgerInv, AmountsInv
    <3> QED BY <3>1, <3>2, <3>3 DEF AgreementInv, TypesInv, SideInv, TypeOK, States
  <2>2. BooksMatchTerms
    <3>1. ASSUME state \in Running \cup {"Funded"}, ~PlanPaid PROVE promised > 0
      <4>1. /\ terms \in Terms /\ partsPaid \in Nat /\ state # "None" /\ ~ (partsPaid >= terms.parts)
        BY <3>1 DEF AgreementInv, TypesInv, PlanPaid, Running
      <4>2. terms.parts \in Nat
        BY <4>1 DEF Terms
      <4> DEFINE n == terms.parts
                 p == Price(terms)
      <4>3. /\ n \in Nat /\ partsPaid < n /\ n > 0 /\ p \in Nat
        BY <4>1, <4>2, PriceIsNetAndFee
      <4>4. promised = p - partsPaid * Part /\ Part > 0 /\ Part = p \div n
        BY <3>1, <4>1, <4>2, <4>3 DEF LedgerInv, AgreedInv, PlanInv, Part
      <4> HIDE DEF n, p
      <4>5. Part \in Nat /\ n * Part <= p
        BY <4>3, <4>4, QuotientBounds
      <4>6. Part * n >= Part * partsPaid + Part
        BY <4>1, <4>3, <4>4, <4>5, NextMultiple
      <4>7. Part * n = n * Part /\ Part * partsPaid = partsPaid * Part
            /\ n * Part \in Nat /\ partsPaid * Part \in Nat
        BY <4>1, <4>3, <4>5
      <4> QED BY <4>3, <4>4, <4>5, <4>6, <4>7
    <3>2. state \in Ended => balance = 0 /\ promised = 0
      BY DEF LedgerInv, EndedInv
    <3> QED BY <3>1, <3>2 DEF LedgerInv, PlanInv, BooksMatchTerms, Net, Fee
  <2> QED BY <2>1, <2>2 DEF BooksKept
<1> QED BY <1>1, DealsKept, PTL

-----------------------------------------------------------------------------
(* What the rulings took from the seller, and the stake they slashed for it. *)

Counted == state \notin {"Longstopped", "Refunded", "None"}

\* What rulings took from the seller, the tranches released less what the seller was paid of them.
Taken == released - got.seller

\* The products of the slash, one factor at a time.
LEMMA SlashCovered ==
    ASSUME DealInv, SlashWithinRulings, state = "Disputed", NEW bps \in 0..BPS, NEW x \in Nat,
           x <= stake.slashed + SlashFor(bps), NEW toSeller \in Nat,
           toSeller = ShareOf(TrancheNet, bps)
    PROVE  x * Net <= terms.sellerStake * (Taken + TrancheNet - toSeller)
<1> DEFINE s == SlashFor(bps)
           ss == terms.sellerStake
           tn == TrancheNet
           k == BPS - bps
           y == toSeller
           d == tn - y
<1>1. /\ s \in Nat /\ Net \in Nat /\ Net > 0 /\ ss \in Nat /\ tn \in Nat
      /\ BPS * Net * s <= ss * k * tn
  BY SlashForIs, TrancheAmounts DEF DealInv, AgreementInv, Running
<1>2. BPS \in Nat /\ BPS > 0 /\ k \in Nat /\ bps \in Nat /\ bps <= BPS /\ bps = BPS - k
  BY AgreementAssumption
<1>3. y * BPS <= tn * bps /\ y <= tn
  BY <1>1, <1>2, ShareBounds
<1>4. /\ stake.slashed \in Nat /\ got.seller \in Nat /\ released \in Nat
      /\ stake.slashed * Net <= ss * Taken /\ Taken \in Int
  BY DEF DealInv, SideInv, Stake, LedgerInv, AmountsInv, SlashWithinRulings, Net, Taken
<1>5. d \in Nat /\ d = tn - y /\ x <= stake.slashed + s /\ Taken + TrancheNet - toSeller = Taken + d
  BY <1>1, <1>3, <1>4
<1> HIDE DEF s, ss, tn, k, d
<1>6. k * tn <= BPS * d
  <2>1. tn * BPS = tn * bps + tn * k /\ BPS * tn = BPS * y + BPS * d
    <3>1. BPS = bps + k /\ tn = y + d
      BY <1>1, <1>2, <1>5
    <3>2. tn * (bps + k) = tn * bps + tn * k
      BY <1>1, <1>2
    <3>3. BPS * (y + d) = BPS * y + BPS * d
      BY <1>2, <1>5
    <3> QED BY <3>1, <3>2, <3>3
  <2>2. tn * BPS = BPS * tn /\ y * BPS = BPS * y /\ k * tn = tn * k
    BY <1>1, <1>2, <1>5
  <2>3. tn * BPS \in Nat /\ y * BPS \in Nat /\ tn * k \in Nat /\ BPS * d \in Nat /\ tn * bps \in Nat
    BY <1>1, <1>2, <1>5
  <2> QED BY <1>3, <2>1, <2>2, <2>3 DEF y
<1>7. BPS * (Net * s) <= BPS * (ss * d)
  <2>1. k * tn \in Nat /\ BPS * d \in Nat
    BY <1>1, <1>2, <1>5
  <2>2. (k * tn) * ss <= (BPS * d) * ss
    BY <1>1, <1>6, <2>1, ProductMonotone
  <2>3. (k * tn) * ss = ss * k * tn /\ (BPS * d) * ss = BPS * (ss * d) /\ BPS * (Net * s) = BPS * Net * s
    BY <1>1, <1>2, <1>5
  <2>4. (k * tn) * ss \in Nat /\ BPS * (ss * d) \in Nat /\ BPS * (Net * s) \in Nat
    BY <1>1, <1>2, <1>5
  <2> QED BY <1>1, <2>2, <2>3, <2>4
<1>8. Net * s <= ss * d
  <2>1. Net * s \in Nat /\ ss * d \in Nat
    BY <1>1, <1>5
  <2> DEFINE l == Net * s
             r == ss * d
  <2>2. l \in Nat /\ r \in Nat /\ BPS * l <= BPS * r
    BY <1>7, <2>1
  <2> HIDE DEF l, r
  <2>3. ASSUME l > r PROVE FALSE
    <3>1. BPS * l >= BPS * r + BPS
      BY <1>2, <2>2, <2>3, NextMultiple
    <3>2. BPS * l \in Nat /\ BPS * r \in Nat
      BY <1>2, <2>2
    <3> QED BY <1>2, <2>2, <3>1, <3>2
  <2>4. l <= r
    BY <2>2, <2>3
  <2> QED BY <2>4 DEF l, r
<1>9. x * Net <= (stake.slashed + s) * Net
  <2>1. stake.slashed + s \in Nat
    BY <1>1, <1>4
  <2> QED BY <1>1, <1>5, <2>1, ProductMonotone
<1>10. (stake.slashed + s) * Net = stake.slashed * Net + Net * s /\ ss * (Taken + d) = ss * Taken + ss * d
  BY <1>1, <1>4, <1>5
<1>11. /\ x * Net \in Nat /\ stake.slashed * Net \in Nat /\ Net * s \in Nat /\ ss * Taken \in Int
       /\ ss * d \in Nat
  BY <1>1, <1>4, <1>5
<1>12. x * Net <= ss * (Taken + d)
  BY <1>4, <1>8, <1>9, <1>10, <1>11
<1> QED BY <1>5, <1>12 DEF ss

\* Nothing was slashed from, or paid to, the seller of a deal nobody opened.
PristineInv == state = "None" => stake.slashed = 0 /\ got.seller = 0

SlashInv == SlashWithinRulings /\ PristineInv

LEMMA SlashFrame ==
    ASSUME SlashInv, UNCHANGED <<terms, released>>, got'.seller = got.seller,
           stake'.slashed = stake.slashed, Counted' => Counted, state' = "None" => state = "None"
    PROVE  SlashInv'
BY DEF SlashInv, SlashWithinRulings, Counted, PristineInv, SellerNet, FeeOf, BuyerFee

\* The seller loses no more of the releases than before, and the stake no more than it had.
LEMMA SlashGrows ==
    ASSUME DealInv, SlashWithinRulings, Counted, NEW e \in Nat, terms' = terms, Taken' = Taken + e,
           stake'.slashed \in Nat, stake'.slashed <= stake.slashed, state' # "None"
    PROVE  SlashInv'
<1> DEFINE ss == terms.sellerStake
           x == stake.slashed
           y == stake'.slashed
           tk == Taken
<1>1. ss \in Nat /\ Net \in Nat /\ Net' = Net
  <2>1. terms \in Terms
    BY DEF DealInv, AgreementInv, TypesInv
  <2>2. terms.sellerStake \in Nat
    BY <2>1 DEF Terms
  <2> QED BY <2>1, <2>2, PriceIsNetAndFee DEF Net
<1>2. x \in Nat /\ y \in Nat /\ y <= x /\ tk \in Int
  BY DEF DealInv, SideInv, Stake, LedgerInv, AmountsInv, Taken
<1>3. x * Net <= ss * tk
  BY DEF SlashWithinRulings, Counted, Taken, Net
<1> HIDE DEF ss, x, y, tk
<1>4. y * Net <= x * Net /\ y * Net \in Nat /\ x * Net \in Nat
  BY <1>1, <1>2, ProductMonotone
<1>5. ss * (tk + e) = ss * tk + ss * e /\ ss * e \in Nat /\ ss * tk \in Int
  BY <1>1, <1>2
<1>6. y * Net <= ss * (tk + e)
  BY <1>3, <1>4, <1>5
<1>7. stake'.slashed * Net' <= terms'.sellerStake * Taken'
  BY <1>1, <1>6 DEF ss, tk, y
<1> QED BY <1>7 DEF SlashInv, SlashWithinRulings, PristineInv, Taken, Net

LEMMA RulingSlash ==
    ASSUME DealInv, SlashWithinRulings, state = "Disputed", NEW bps \in 0..BPS, RuleTranche(bps),
           horizon' \in Nat
    PROVE  SlashInv'
<1> DEFINE y == ShareOf(TrancheNet, bps)
           z == ShareOf(TrancheFee, bps)
           w == (TrancheNet - y) + (TrancheFee - z)
<1>1. /\ Pays(y, z, w) /\ NextTranche /\ terms' = terms
      /\ \/ Ends("Ruled", Slashed(bps))
         \/ state' = "Accepted" /\ stake' = KeptStake(Slashed(bps), horizon')
  BY DEF RuleTranche, PaysRuling, BuyersRest, Slashed
<1>2. y \in Nat /\ got'.seller = got.seller + y /\ released' = released + TrancheNet
  BY <1>1 DEF Pays, CanPay, NextTranche
<1>3. TypesInv /\ DisputesInv /\ LedgerInv /\ stake \in Stake /\ state \in Running
  BY DEF DealInv, AgreementInv, SideInv, Running
<1>4. SlashFor(bps) \in Nat /\ TrancheNet \in Nat
  BY <1>3, SlashForIs, TrancheAmounts
<1>5. Slashed(bps) \in Stake /\ Slashed(bps).slashed <= stake.slashed + SlashFor(bps)
  BY <1>3, <1>4, SlashedStakeIs DEF Slashed
<1>6. stake'.slashed = Slashed(bps).slashed /\ state' # "None"
  BY <1>1, <1>3, <1>5, KeptStakeIs, FreedStakeIs DEF Ends
<1>7. stake'.slashed \in Nat /\ stake'.slashed <= stake.slashed + SlashFor(bps)
  BY <1>5, <1>6 DEF Stake
<1>8. stake'.slashed * Net <= terms.sellerStake * (Taken + TrancheNet - y)
  BY <1>2, <1>7, SlashCovered
<1>9. Taken' = Taken + TrancheNet - y
  <2>1. released \in Nat /\ got.seller \in Nat
    BY DEF DealInv, LedgerInv, AmountsInv, SideInv
  <2> HIDE DEF y
  <2> QED BY <1>2, <1>4, <2>1 DEF Taken
<1>10. stake'.slashed * Net' <= terms'.sellerStake * Taken'
  BY <1>1, <1>8, <1>9 DEF Net
<1> QED BY <1>6, <1>10 DEF SlashInv, SlashWithinRulings, PristineInv, Taken, Net

\* A tranche paid in full takes nothing from the seller.
LEMMA TranchePaidSlash ==
    ASSUME DealInv, SlashWithinRulings, Counted, state \in Running, NEW st \in Stake,
           st.slashed = stake.slashed, PayTranche(st, "Accepted"), terms' = terms
    PROVE  SlashInv'
<1>1. /\ Pays(TrancheNet, TrancheFee, 0) /\ NextTranche
      /\ stake' = st \/ stake' = FreedStake(st)
      /\ state' # "None"
  BY DEF PayTranche, Ends
<1>2. TrancheNet \in Nat /\ got'.seller = got.seller + TrancheNet /\ released' = released + TrancheNet
  BY <1>1 DEF Pays, CanPay, NextTranche
<1>3. released \in Nat /\ got.seller \in Nat /\ stake.slashed \in Nat
  BY DEF DealInv, LedgerInv, AmountsInv, SideInv, Stake
<1>4. Taken' = Taken + 0
  BY <1>2, <1>3 DEF Taken
<1>5. stake'.slashed = stake.slashed
  BY <1>1, FreedStakeIs
<1> QED BY <1>1, <1>3, <1>4, <1>5, SlashGrows

LEMMA PaymentSlash ==
    ASSUME DealInv, SlashInv, PaymentStep, horizon' \in Nat
    PROVE  SlashInv'
<1>1. stake \in Stake /\ TypesInv /\ DisputesInv
  BY DEF DealInv, AgreementInv, SideInv
<1>2. FreedStake(stake) \in Stake /\ FreedStake(stake).slashed = stake.slashed
  BY <1>1, FreedStakeIs
<1>3. CASE Release
  <2>1. PayTranche(KeptStake(stake, horizon'), "Accepted") /\ terms' = terms /\ state \in Running
    BY <1>3 DEF Release
  <2>2. /\ KeptStake(stake, horizon') \in Stake
        /\ KeptStake(stake, horizon').slashed = stake.slashed
    BY <1>1, KeptStakeIs
  <2> QED BY <2>1, <2>2, TranchePaidSlash DEF SlashInv, Counted, Running
<1>4. CASE Claim
  <2>1. PayTranche(stake, "Accepted") /\ terms' = terms /\ state \in Running
    BY <1>4 DEF Claim, ClaimOpen, Running
  <2> QED BY <1>1, <2>1, TranchePaidSlash DEF SlashInv, Counted, Running
<1>5. CASE Reclaim
  <2>1. /\ UNCHANGED <<terms, released>> /\ Pays(0, 0, balance) /\ state = "Accepted"
        /\ stake' = FreedStake(stake) /\ state' = "Reclaimed"
    BY <1>5 DEF Reclaim, ReclaimOpen, Ends, trancheVars
  <2>2. got'.seller = got.seller
    BY <2>1 DEF Pays, DealInv, SideInv
  <2> QED BY <1>2, <2>1, <2>2, SlashFrame DEF Counted
<1>6. ASSUME NEW who, AcceptSplit(who) PROVE SlashInv'
  <2> DEFINE y == ShareOf(SellerNet(terms) - released, offer.bps)
  <2>1. /\ \E b, c : Pays(y, b, c)
        /\ released' = Net /\ terms' = terms /\ state \in Running
        /\ stake' = FreedStake(stake) /\ state' = "Split"
    BY <1>6, Zenon DEF AcceptSplit, OpenToSplit, Splits, Ends, Net, NetLeft
  <2>2. y \in Nat /\ got'.seller = got.seller + y
    BY <2>1 DEF Pays, CanPay
  <2>3. Net \in Nat /\ released \in Nat /\ released <= Net /\ got.seller \in Nat
    BY <1>1, <2>1, ReleasedWithinTerms DEF DealInv, LedgerInv, AmountsInv, SideInv
  <2>4. y <= Net - released
    <3>1. offer.bps \in Nat /\ offer.bps <= BPS
      BY AgreementAssumption DEF DealInv, SideInv, Offer
    <3>2. Net - released \in Nat
      BY <2>3
    <3> QED BY <3>1, <3>2, ShareBounds DEF Net
  <2> HIDE DEF y
  <2> DEFINE e == Net - released - y
  <2>5. e \in Nat /\ Taken' = Taken + e
    BY <2>1, <2>2, <2>3, <2>4 DEF Taken
  <2> HIDE DEF e
  <2>6. stake'.slashed \in Nat /\ stake'.slashed <= stake.slashed
    BY <1>1, <1>2, <2>1 DEF Stake
  <2>7. Counted /\ state' # "None" /\ SlashWithinRulings
    BY <2>1 DEF Counted, Running, SlashInv
  <2> QED BY <2>1, <2>5, <2>6, <2>7, SlashGrows
<1>7. ASSUME NEW x, LongstopSplit(x) PROVE SlashInv'
  <2>1. state' = "Longstopped"
    BY <1>7 DEF LongstopSplit, Ends
  <2> QED BY <2>1 DEF SlashInv, SlashWithinRulings, PristineInv
<1> QED BY <1>3, <1>4, <1>5, <1>6, <1>7 DEF PaymentStep

LEMMA FundingSlash ==
    ASSUME DealInv, SlashInv, FundingStep, horizon' \in Nat
    PROVE  SlashInv'
<1>1. stake \in Stake /\ TypesInv
  BY DEF DealInv, AgreementInv, SideInv
<1>2. CASE \E t \in Offered : Fund(t)
  <2>1. /\ state = "None" /\ UNCHANGED <<released, got, stake>> /\ state' = "Funded"
    BY <1>2 DEF Fund, trancheVars
  <2>2. stake.slashed = 0 /\ got.seller = 0 /\ released = 0
    BY <2>1 DEF SlashInv, PristineInv, DealInv, UnpaidInv
  <2>3. Net' \in Nat /\ terms'.sellerStake \in Nat
    <3>1. AgreementInv'
      BY <1>2, FundKeeps DEF DealInv
    <3>2. terms' \in Terms
      BY <3>1 DEF AgreementInv, TypesInv
    <3>3. SellerNet(terms') \in Nat
      BY <3>2, PriceIsNetAndFee
    <3> QED BY <3>2, <3>3 DEF Net, Terms
  <2>4. 0 * Net' <= terms'.sellerStake * (0 - 0)
    BY <2>3
  <2>5. stake'.slashed * SellerNet(terms)' <= terms'.sellerStake * (released' - got'.seller)
    BY <2>1, <2>2, <2>4 DEF Net
  <2> QED BY <2>1, <2>5 DEF SlashInv, SlashWithinRulings, PristineInv
<1>3. CASE PayPart
  <2>1. UNCHANGED <<terms, state, released, got>> /\ stake' = KeptStake(stake, horizon')
    BY <1>3 DEF PayPart, trancheVars
  <2>2. stake'.slashed = stake.slashed
    BY <1>1, <2>1, KeptStakeIs
  <2> QED BY <2>1, <2>2, SlashFrame DEF Counted
<1>4. CASE Accept
  <2>1. UNCHANGED <<terms, released, got, stake>> /\ state = "Funded" /\ state' = "Accepted"
    BY <1>4 DEF Accept, Accepts, trancheVars, moneyVars
  <2> QED BY <2>1, SlashFrame DEF Counted
<1>5. CASE AcceptWithStake
  <2>1. UNCHANGED <<terms, released, got>> /\ state = "Funded" /\ state' = "Accepted"
    BY <1>5 DEF AcceptWithStake, Accepts, trancheVars, moneyVars
  <2>2. stake'.slashed = 0
    BY <1>5 DEF AcceptWithStake, NoStake
  <2>3. stake.slashed \in Nat /\ Taken \in Int
    BY <1>1 DEF Stake, DealInv, SideInv, LedgerInv, AmountsInv, Taken
  <2>4. Taken' = Taken + 0
    BY <2>1, <2>3 DEF Taken
  <2> QED BY <2>1, <2>2, <2>3, <2>4, SlashGrows DEF Counted, SlashInv
<1>6. CASE CancelMissed \/ CancelUnaccepted
  <2>1. state' = "Refunded"
    BY <1>6 DEF CancelMissed, CancelUnaccepted, Ends
  <2> QED BY <2>1 DEF SlashInv, SlashWithinRulings, PristineInv
<1> QED BY <1>2, <1>3, <1>4, <1>5, <1>6 DEF FundingStep

LEMMA SlashStep == DealInv /\ SlashInv /\ [Next]_vars => SlashInv'
<1> SUFFICES ASSUME DealInv, SlashInv, [Next]_vars PROVE SlashInv'
  OBVIOUS
<1>1. stake \in Stake /\ TypesInv /\ horizon \in Nat /\ horizon' \in Nat
  BY DealStep DEF DealInv, AgreementInv, SideInv
<1>2. ASSUME UNCHANGED <<terms, state, released, got>>,
             stake' = stake \/ stake' = FreedStake(stake) \/ \E h \in Nat : stake' = KeptStake(stake, h)
      PROVE  SlashInv'
  <2>1. stake'.slashed = stake.slashed
    BY <1>1, <1>2, FreedStakeIs, KeptStakeIs
  <2> QED BY <1>2, <2>1, SlashFrame DEF Counted
<1>3. CASE SideStep
  <2>1. UNCHANGED <<terms, state, released, got>>
    BY <1>3, SideIsIdle DEF Idle, moneyVars
  <2>2. stake' = stake \/ stake' = FreedStake(stake) \/ stake' = KeptStake(stake, horizon)
    BY <1>3 DEF SideStep, TalkStep, CancelSplit, ProposeSplit, HubStep, RevokeFamily, SetAsset, SetHub,
                VaultStep, KeepStake, ReleaseStale, ReleaseHold
  <2> QED BY <1>1, <1>2, <2>1, <2>2
<1>4. CASE FundingStep
  BY <1>1, <1>4, FundingSlash
<1>5. CASE DeliveryStep
  <2>1. UNCHANGED <<terms, state, released, got>> /\ (stake' = stake \/ stake' = KeptStake(stake, horizon'))
    BY <1>5 DEF DeliveryStep, MarkDelivered, NewDelivery, StartReview, RequestMoreTime, SignVerdict,
                AttestCheck, Reviews, dealVars, trancheVars, moneyVars
  <2> QED BY <1>1, <1>2, <2>1
<1>6. CASE PaymentStep
  BY <1>1, <1>6, PaymentSlash
<1>7. CASE DeadlineStep
  <2>1. UNCHANGED <<terms, state, released, got>> /\ (stake' = stake \/ stake' = KeptStake(stake, horizon'))
    BY <1>7 DEF DeadlineStep, ExtendDeadline, RequestExtension, ApproveExtension, MovesDeadline, dealVars,
                trancheVars, moneyVars
  <2> QED BY <1>1, <1>2, <2>1
<1>8. CASE DisputeStep
  <2>1. CASE \E bps \in Shares : ProposeRuling(bps)
    <3>1. UNCHANGED <<terms, state, released, got, stake>>
      BY <2>1 DEF ProposeRuling, Talks, trancheVars, moneyVars
    <3> QED BY <1>2, <3>1
  <2>2. CASE \E who \in Parties \cup {"arbiter", "anyone"} : Escalate(who)
    <3>1. UNCHANGED <<terms, state, released, got>> /\ stake' = KeptStake(stake, horizon')
      BY <2>2 DEF Escalate, Talks, trancheVars, moneyVars
    <3> QED BY <1>1, <1>2, <3>1
  <2>3. ASSUME NEW bps \in Shares \cup {dispute.bps, terms.fallbackBps}, RuleTranche(bps), state = "Disputed"
        PROVE  SlashInv'
    <3>1. /\ Shares \subseteq 0..BPS /\ dispute.bps \in 0..BPS /\ BPS \in Nat
      BY <1>1, AgreementAssumption DEF TypesInv, DisputeRecord
    <3>2. terms.fallbackBps \in Nat /\ terms.fallbackBps <= BPS
      BY <1>1, <2>3 DEF TypesInv, Terms, DealInv, LedgerInv, AgreedInv
    <3>3. terms.fallbackBps \in 0..BPS
      BY <3>1, <3>2
    <3>4. bps \in 0..BPS
      BY <3>1, <3>3
    <3> QED BY <1>1, <2>3, <3>4, RulingSlash DEF SlashInv
  <2> QED BY <1>8, <2>1, <2>2, <2>3 DEF DisputeStep
<1>9. CASE \E who \in Parties : Dispute(who)
  <2>1. /\ UNCHANGED <<terms, released, got>> /\ stake' = KeptStake(stake, horizon')
        /\ state = "Accepted" /\ state' = "Disputed"
    BY <1>9 DEF Dispute, Talks, trancheVars, moneyVars
  <2>2. stake'.slashed = stake.slashed
    BY <1>1, <2>1, KeptStakeIs
  <2> QED BY <2>1, <2>2, SlashFrame DEF Counted
<1>10. CASE Hold \/ Tick
  <2>1. UNCHANGED <<terms, state, released, got, stake>>
    BY <1>10 DEF Hold, Tick, dealVars, trancheVars, moneyVars
  <2> QED BY <1>2, <2>1
<1>11. CASE UNCHANGED vars
  <2>1. UNCHANGED <<terms, state, released, got, stake>>
    BY <1>11 DEF vars, dealVars, trancheVars, moneyVars
  <2> QED BY <1>2, <2>1
<1> QED BY <1>3, <1>4, <1>5, <1>6, <1>7, <1>8, <1>9, <1>10, <1>11, StepCases

\* S7: the seller's stake stands exactly while the deal runs, outlasts the long-stop unless it has
\* run out, and is slashed at most in proportion to what rulings took from the seller.
THEOREM StakeAlwaysAnswers == Spec => []StakeAnswers
<1>1. Init => SlashInv
  BY DEF Init, SlashInv, SlashWithinRulings, PristineInv, NoStake
<1>2. DealInv /\ SlashInv => StakeAnswers
  <2> SUFFICES ASSUME DealInv, SlashInv PROVE StakeAnswers
    OBVIOUS
  <2>1. StakeFollowsDeal
    BY DEF DealInv, ReservedInv, StakeFollowsDeal, Running, Ended
  <2> QED BY <2>1 DEF StakeAnswers, SlashInv
<1> QED BY <1>1, <1>2, SlashStep, DealsKept, PTL DEF Spec
-----------------------------------------------------------------------------
(***************************************************************************)
(* The long-stop comes after every clock of the deal.                      *)
(***************************************************************************)

\* How far the horizon reaches: past the offer's time, past the silence longstop of what is
\* delivered, past all the time a dispute was to take, past a ruling's term, and, for a deal without instalments, past the refund's clock or
\* no more than the long-stop before it.  A dispute stands the deadline still, so what is left of it
\* then counts from the dispute's opening.
Refund == deadline + terms.reclaimGrace

PromisesInv ==
    state # "None" =>
        /\ terms.silentLongstop \in 1..FamilyHorizon
        /\ terms.reclaimGrace <= MaxReview /\ terms.acceptBy <= terms.deliveryDeadline

ReachInv ==
    /\ state = "Funded" => terms.acceptBy <= horizon
    /\ Delivered => delivery.at + terms.silentLongstop <= horizon
    /\ state = "Disputed" => dispute.openedAt + Longest <= horizon
    /\ state = "Disputed" /\ Escalated => dispute.escalatedAt + RulingPeriod <= horizon

DueInv ==
    terms.parts = 0 =>
        /\ state \in {"Funded", "Accepted"} =>
              /\ deadline <= now + FamilyHorizon
              /\ Refund < now \/ Refund < horizon + Longstop
        /\ state = "Disputed" => deadline <= dispute.openedAt + FamilyHorizon

CoverInv == PromisesInv /\ ReachInv /\ DueInv

\* What the deployed bounds keep (365 and 30 days against 730 and 180) and the escrow's constructor
\* does not ask: a deadline moved as far as the family allows, with its grace, comes before the
\* long-stop of the furthest horizon.
BoundsFit == FamilyHorizon + MaxReview < MaxHorizon + Longstop

LEMMA LaterBound ==
    \A d, n, m, b \in Nat : d <= n + b /\ m >= n => d <= m + b
OBVIOUS

LEMMA BumpReaches ==
    ASSUME TypesInv, horizon \in Nat, NEW h \in Int, h > now
    PROVE  /\ Bumped(h) \in Nat /\ Bumped(h) >= horizon
           /\ Bumped(h) >= h \/ Bumped(h) >= now + MaxHorizon
<1>1. now \in Nat /\ MaxHorizon \in Nat
  BY AgreementAssumption DEF TypesInv
<1> QED BY <1>1, BumpedIs DEF Bumped, AtLeast, AtMost

LEMMA CoverNats ==
    ASSUME DealInv
    PROVE  /\ now \in Nat /\ now # 0 /\ horizon \in Nat /\ deadline \in Nat
           /\ delivery.at \in Nat /\ dispute.openedAt \in Nat /\ dispute.escalatedAt \in Nat
           /\ terms.reclaimGrace \in Nat /\ terms.startLongstop \in Nat /\ terms.silentLongstop \in Nat
           /\ terms.acceptBy \in Nat /\ dispute.proposedAt \in Nat /\ Longest \in Nat
<1>1. Longest \in Nat
  BY AgreementAssumption DEF Longest
<1>2. /\ now \in Nat /\ now # 0 /\ horizon \in Nat /\ deadline \in Nat
      /\ delivery.at \in Nat /\ dispute.openedAt \in Nat /\ dispute.escalatedAt \in Nat
      /\ terms.reclaimGrace \in Nat /\ terms.startLongstop \in Nat /\ terms.silentLongstop \in Nat
      /\ terms.acceptBy \in Nat /\ dispute.proposedAt \in Nat
  BY DEF DealInv, AgreementInv, TypesInv, SideInv, Delivery, DisputeRecord, Terms
<1> QED BY <1>1, <1>2

\* A refund that is close enough stays so: time and the horizon only move on.
LEMMA DueStays ==
    ASSUME DealInv, DealInv', terms' = terms, deadline' = deadline, horizon' >= horizon, now' >= now,
           Refund < now \/ Refund < horizon + Longstop
    PROVE  (Refund < now \/ Refund < horizon + Longstop)'
<1>1. /\ now \in Nat /\ now' \in Nat /\ horizon \in Nat /\ horizon' \in Nat
      /\ deadline \in Nat /\ terms.reclaimGrace \in Nat /\ Longstop \in Nat
  BY CoverNats, AgreementAssumption DEF DealInv, AgreementInv, TypesInv, SideInv
<1> QED BY <1>1 DEF Refund

\* A step that leaves the deadline and the dispute's clock alone.
LEMMA CalmCover ==
    ASSUME DealInv, DealInv', CoverInv, terms' = terms, deadline' = deadline, horizon' >= horizon,
           now' >= now, delivery'.at \in {delivery.at, 0},
           \/ /\ state' = state /\ dispute'.openedAt = dispute.openedAt
              /\ dispute'.escalatedAt = dispute.escalatedAt
           \/ state = "Funded" /\ state' = "Accepted"
    PROVE  CoverInv'
<1>1. /\ now \in Nat /\ now' \in Nat /\ horizon \in Nat /\ horizon' \in Nat /\ deadline \in Nat
      /\ delivery.at \in Nat /\ dispute.openedAt \in Nat /\ dispute.escalatedAt \in Nat
      /\ terms.reclaimGrace \in Nat /\ terms.silentLongstop \in Nat /\ terms.acceptBy \in Nat
      /\ FamilyHorizon \in Nat /\ RulingPeriod \in Nat /\ Longest \in Nat
  BY CoverNats, AgreementAssumption DEF DealInv, AgreementInv, TypesInv, SideInv
<1>2. PromisesInv'
  BY DEF CoverInv, PromisesInv
<1>3. ReachInv'
  BY <1>1 DEF CoverInv, ReachInv, Delivered, Escalated
<1>4. DueInv'
  <2> SUFFICES ASSUME terms.parts = 0 PROVE DueInv'
    BY DEF DueInv
  <2>1. ASSUME state' \in {"Funded", "Accepted"}
        PROVE  (deadline <= now + FamilyHorizon /\ (Refund < now \/ Refund < horizon + Longstop))'
    <3>1. deadline <= now + FamilyHorizon /\ (Refund < now \/ Refund < horizon + Longstop)
      BY <2>1 DEF CoverInv, DueInv
    <3>2. (deadline <= now + FamilyHorizon)'
      <4>1. deadline <= now + FamilyHorizon
        BY <3>1
      <4>2. now \in Nat /\ now' \in Nat /\ deadline \in Nat /\ FamilyHorizon \in Nat
        BY <1>1
      <4>3. deadline <= now' + FamilyHorizon
        BY ONLY <4>1, <4>2, now' >= now, LaterBound
      <4> QED BY ONLY <4>3, deadline' = deadline
    <3> QED BY <3>1, <3>2, DueStays
  <2>2. state' = "Disputed" => (deadline <= dispute.openedAt + FamilyHorizon)'
    BY <1>1 DEF CoverInv, DueInv
  <2> QED BY <2>1, <2>2 DEF DueInv
<1> QED BY <1>2, <1>3, <1>4 DEF CoverInv

LEMMA EndingCover ==
    ASSUME DealInv, DealInv', CoverInv, terms' = terms, horizon' >= horizon, state # "None",
           state' \in Ended, delivery'.at \in {delivery.at, 0}
    PROVE  CoverInv'
<1>1. horizon \in Nat /\ horizon' \in Nat /\ delivery.at \in Nat /\ terms.silentLongstop \in Nat
  BY CoverNats DEF DealInv, SideInv
<1>2. state' \notin {"None", "Funded", "Accepted", "Disputed"}
  BY DEF Ended
<1> QED BY <1>1, <1>2 DEF CoverInv, PromisesInv, ReachInv, DueInv, Delivered

\* A deadline moved to `to`, and the horizon after it.
LEMMA MovedDue ==
    ASSUME DealInv, CoverInv, BoundsFit, NEW to \in Nat, to <= now + FamilyHorizon,
           deadline' = to, terms' = terms, now' = now, state # "None",
           horizon' = Bumped(to + ClockTail(terms))
    PROVE  /\ horizon' \in Nat /\ horizon' >= horizon
           /\ (deadline <= now + FamilyHorizon)'
           /\ (Refund < now \/ Refund < horizon + Longstop)'
<1>1. /\ now \in Nat /\ horizon \in Nat /\ terms.reclaimGrace \in Nat /\ terms.startLongstop \in Nat
      /\ terms.silentLongstop \in Nat /\ TypesInv
  BY CoverNats DEF DealInv, AgreementInv
<1>2. terms.silentLongstop >= 1 /\ terms.reclaimGrace <= MaxReview
  BY <1>1 DEF CoverInv, PromisesInv
<1>3. FamilyHorizon \in Nat /\ MaxHorizon \in Nat /\ Longstop \in Nat /\ MaxReview \in Nat
  BY AgreementAssumption
<1> DEFINE h == to + ClockTail(terms)
<1>4. h \in Nat /\ h >= to + terms.reclaimGrace + 1
  BY <1>1, <1>2 DEF ClockTail
<1>5. Refund' = to + terms.reclaimGrace
  BY DEF Refund
<1>6. horizon' = Bumped(h)
  OBVIOUS
<1> HIDE DEF h
<1>7. CASE h <= now
  BY <1>1, <1>3, <1>4, <1>5, <1>6, <1>7 DEF Bumped
<1>8. CASE h > now
  <2>1. horizon' \in Nat /\ horizon' >= horizon /\ (horizon' >= h \/ horizon' >= now + MaxHorizon)
    BY <1>1, <1>4, <1>6, <1>8, BumpReaches
  <2>2. CASE horizon' >= h
    BY <1>1, <1>3, <1>4, <1>5, <2>1, <2>2
  <2>3. CASE horizon' >= now + MaxHorizon
    BY <1>1, <1>2, <1>3, <1>5, <2>1, <2>3 DEF BoundsFit
  <2> QED BY <2>1, <2>2, <2>3
<1> QED BY <1>1, <1>4, <1>7, <1>8

LEMMA FundCover ==
    ASSUME DealInv, CoverInv, BoundsFit, NEW t \in Offered, Fund(t)
    PROVE  CoverInv'
<1>1. /\ t \in Terms /\ Valid(t) /\ terms' = Absolute(t) /\ state' = "Funded" /\ now' = now
      /\ state = "None" /\ deadline' = now + t.deliveryDeadline
      /\ horizon' = now + t.deliveryDeadline + ClockTail(t) /\ delivery' = delivery
  <2>1. t \in Terms
    BY AgreementAssumption
  <2>2. delivery' = delivery
    BY DEF Fund, deliveryVars
  <2> QED BY <2>1, <2>2, Zenon DEF Fund
<1>2. /\ now \in Nat /\ t.acceptBy \in Nat /\ t.deliveryDeadline \in Nat /\ t.reclaimGrace \in Nat
      /\ t.startLongstop \in Nat /\ t.silentLongstop \in Nat /\ t.reviewWindow \in Nat
      /\ t.maxExtensions \in Nat /\ t.extensionSecs \in Nat
  BY <1>1, CoverNats DEF Terms
<1>3. /\ FamilyHorizon \in Nat /\ MaxReview \in Nat /\ MinReview \in Nat /\ MinReview >= 1
      /\ Longstop \in Nat /\ Longstop >= 1
  BY AgreementAssumption
<1>4. /\ t.acceptBy < t.deliveryDeadline /\ t.deliveryDeadline <= FamilyHorizon
      /\ t.reclaimGrace <= MaxReview /\ t.reviewWindow >= 1 /\ t.silentLongstop <= FamilyHorizon
  <2>1. /\ t.deliveryDeadline > t.acceptBy /\ t.deliveryDeadline <= FamilyHorizon
        /\ t.reclaimGrace <= MaxReview /\ t.reviewWindow \in MinReview..MaxReview
        /\ t.silentLongstop <= FamilyHorizon
    BY <1>1, Zenon DEF Valid
  <2> QED BY <1>2, <1>3, <2>1
<1>5. t.silentLongstop >= 1
  <2>1. t.maxExtensions * t.extensionSecs \in Nat
    BY <1>2
  <2>2. t.silentLongstop >= t.startLongstop + t.reviewWindow + t.maxExtensions * t.extensionSecs
    BY <1>1 DEF Valid
  <2> HIDE DEF Valid
  <2> DEFINE e == t.maxExtensions * t.extensionSecs
  <2>3. e \in Nat /\ t.silentLongstop >= t.startLongstop + t.reviewWindow + e
    BY <2>1, <2>2
  <2> HIDE DEF e
  <2> QED BY <1>2, <1>4, <2>3
<1>6. /\ terms'.acceptBy = t.acceptBy + now /\ terms'.deliveryDeadline = t.deliveryDeadline + now
      /\ terms'.reclaimGrace = t.reclaimGrace /\ terms'.silentLongstop = t.silentLongstop
  <2> DEFINE x == t.acceptBy + now
             y == t.deliveryDeadline + now
  <2>1. terms' = [t EXCEPT !.acceptBy = x, !.deliveryDeadline = y]
    BY <1>1, Zenon DEF Absolute
  <2> HIDE DEF x, y
  <2>2. terms'.acceptBy = x /\ terms'.deliveryDeadline = y /\ terms'.reclaimGrace = t.reclaimGrace
        /\ terms'.silentLongstop = t.silentLongstop
    BY <1>1, <2>1 DEF Terms
  <2> QED BY <2>2 DEF x, y
<1>7. ~Delivered'
  BY <1>1 DEF DealInv, AgreementInv, DisputesInv, Delivered
<1>8. PromisesInv'
  BY <1>1, <1>2, <1>3, <1>4, <1>5, <1>6 DEF PromisesInv
<1>9. ReachInv'
  BY <1>1, <1>2, <1>4, <1>6, <1>7 DEF ReachInv, ClockTail
<1>10. DueInv'
  BY <1>1, <1>2, <1>3, <1>4, <1>5, <1>6 DEF DueInv, Refund, ClockTail
<1> QED BY <1>8, <1>9, <1>10 DEF CoverInv

LEMMA NoPlanIsPaid ==
    ASSUME DealInv, PayPart
    PROVE  terms.parts # 0
<1>1. partsPaid \in Nat /\ ~(partsPaid >= terms.parts)
  BY DEF PayPart, PlanPaid, DealInv, AgreementInv, TypesInv
<1> QED BY <1>1

LEMMA FundingCover ==
    ASSUME DealInv, DealInv', CoverInv, BoundsFit, FundingStep
    PROVE  CoverInv'
<1>1. CASE \E t \in Offered : Fund(t)
  BY <1>1, FundCover
<1>2. CASE PayPart
  <2>1. /\ terms' = terms /\ now' = now /\ state' = state /\ delivery' = delivery
        /\ dispute' = dispute /\ terms.parts # 0
    BY <1>2, NoPlanIsPaid DEF PayPart, deliveryVars, talkVars
  <2>2. horizon' \in Nat /\ horizon' >= horizon
    BY <1>2, PayPartMoves, HorizonOnlyGrows DEF Follows, DealInv, AgreementInv, SideInv
  <2>3. PromisesInv' /\ DueInv'
    BY <2>1 DEF CoverInv, PromisesInv, DueInv
  <2>4. ReachInv'
    BY <2>1, <2>2, CoverNats, AgreementAssumption DEF CoverInv, ReachInv, Delivered, Escalated
  <2> QED BY <2>3, <2>4 DEF CoverInv
<1>3. CASE Accept \/ AcceptWithStake
  <2>1. /\ state = "Funded" /\ state' = "Accepted"
        /\ UNCHANGED <<now, terms, delivery, deadline, horizon>>
    BY <1>3 DEF Accept, AcceptWithStake, Accepts, deliveryVars, dueVars
  <2>2. now' >= now /\ horizon' >= horizon
    BY <2>1, CoverNats
  <2> QED BY <2>1, <2>2, CalmCover
<1>4. CASE CancelMissed \/ CancelUnaccepted
  <2>1. /\ state # "None" /\ state' \in Ended
        /\ UNCHANGED <<terms, delivery, horizon>>
    BY <1>4 DEF CancelMissed, CancelUnaccepted, Ends, Ended, deliveryVars, trancheVars
  <2>2. horizon' >= horizon
    BY <2>1, CoverNats
  <2> QED BY <2>1, <2>2, EndingCover
<1> QED BY <1>1, <1>2, <1>3, <1>4 DEF FundingStep

LEMMA MarkCover ==
    ASSUME DealInv, DealInv', CoverInv, MarkDelivered
    PROVE  CoverInv'
<1>1. /\ UNCHANGED <<now, terms, state, deadline, dispute>> /\ state = "Accepted"
      /\ horizon' = Bumped(now + terms.startLongstop + terms.silentLongstop + HoldCap)
      /\ delivery'.at = now
  <2>1. \A v : Started(v).at = v.at \/ v \notin Delivery
    BY DEF Started, Delivery
  <2> DEFINE fresh == [NoDelivery EXCEPT !.at = now, !.holdBase = holdUsed]
  <2>2. fresh \in Delivery /\ fresh.at = now
    <3>1. now \in Nat /\ holdUsed \in Nat
      BY AgreementAssumption DEF DealInv, AgreementInv, TypesInv
    <3> QED BY <3>1 DEF NoDelivery, Delivery
  <2>3. delivery' = IF terms.reviewStarts = "delivery" THEN Started(fresh) ELSE fresh
    BY DEF MarkDelivered, NewDelivery
  <2> HIDE DEF fresh
  <2>4. delivery'.at = now
    BY <2>1, <2>2, <2>3
  <2> QED BY <2>4 DEF MarkDelivered, NewDelivery, dealVars, dueVars, talkVars
<1>2. /\ now \in Nat /\ horizon \in Nat /\ terms.startLongstop \in Nat /\ terms.silentLongstop \in Nat
      /\ HoldCap \in Nat /\ FamilyHorizon \in Nat /\ MaxHorizon \in Nat /\ FamilyHorizon <= MaxHorizon
  BY CoverNats, AgreementAssumption
<1>3. terms.silentLongstop >= 1 /\ terms.silentLongstop <= FamilyHorizon
  BY <1>1, <1>2 DEF CoverInv, PromisesInv
<1> DEFINE h == now + terms.startLongstop + terms.silentLongstop + HoldCap
<1>4. h \in Nat /\ h > now /\ h >= now + terms.silentLongstop
  BY <1>2, <1>3
<1>5. horizon' = Bumped(h) /\ TypesInv
  BY <1>1 DEF DealInv, AgreementInv
<1> HIDE DEF h
<1>6. horizon' \in Nat /\ horizon' >= horizon /\ horizon' >= now + terms.silentLongstop
  BY <1>2, <1>3, <1>4, <1>5, BumpReaches
<1>7. PromisesInv'
  BY <1>1 DEF CoverInv, PromisesInv
<1>8. ReachInv'
  BY <1>1, <1>6 DEF ReachInv
<1>9. DueInv'
  <2>1. now' >= now
    BY <1>1, <1>2
  <2>2. terms.parts = 0 => deadline <= now + FamilyHorizon /\ (Refund < now \/ Refund < horizon + Longstop)
    BY <1>1 DEF CoverInv, DueInv
  <2>3. terms.parts = 0 => (Refund < now \/ Refund < horizon + Longstop)'
    BY <1>1, <1>6, <2>1, <2>2, DueStays
  <2> QED BY <1>1, <2>2, <2>3 DEF DueInv
<1> QED BY <1>7, <1>8, <1>9 DEF CoverInv

LEMMA DeliveryCover ==
    ASSUME DealInv, DealInv', CoverInv, DeliveryStep
    PROVE  CoverInv'
<1>1. CASE MarkDelivered
  BY <1>1, MarkCover
<1>2. ASSUME NEW v, Reviews(v), v.at = delivery.at
      PROVE  CoverInv'
  <2>1. UNCHANGED <<now, terms, state, deadline, dispute, horizon>> /\ delivery' = v
    BY <1>2 DEF Reviews, dealVars, dueVars, talkVars
  <2>2. now' >= now /\ horizon' >= horizon
    BY <2>1, CoverNats
  <2> QED BY <1>2, <2>1, <2>2, CalmCover
<1>3. ASSUME NEW w \in Delivery
      PROVE  Started(w).at = w.at
  BY DEF Started, Delivery
<1>4. delivery \in Delivery
  BY DEF DealInv, AgreementInv, TypesInv
<1>5. CASE StartReview
  <2> DEFINE w == [delivery EXCEPT !.passed = @ \/ terms.reviewStarts = "check",
                                   !.failed = @ /\ terms.reviewStarts # "check"]
  <2>1. w \in Delivery /\ w.at = delivery.at
    BY <1>4 DEF Delivery
  <2>2. Reviews(Started(w))
    BY <1>5 DEF StartReview
  <2> HIDE DEF w
  <2> QED BY <1>2, <1>3, <2>1, <2>2
<1>6. CASE RequestMoreTime
  BY <1>2, <1>4, <1>6 DEF RequestMoreTime, Delivery
<1>7. CASE \E pass \in BOOLEAN : SignVerdict(pass)
  <2>1. UNCHANGED <<now, terms, state, deadline, dispute, horizon, delivery>>
    BY <1>7 DEF SignVerdict, dealVars, dueVars, talkVars, deliveryVars
  <2>2. now' >= now /\ horizon' >= horizon
    BY <2>1, CoverNats
  <2> QED BY <2>1, <2>2, CalmCover
<1>8. CASE \E c \in verdicts : AttestCheck(c)
  <2>1. PICK c \in verdicts : AttestCheck(c)
    BY <1>8
  <2>2. Failed(delivery).at = delivery.at
    BY <1>4 DEF Failed, Delivery
  <2> DEFINE w == [delivery EXCEPT !.passed = TRUE, !.failed = FALSE]
  <2>3. w \in Delivery /\ w.at = delivery.at
    BY <1>4 DEF Delivery
  <2>4. Passed(delivery) = IF delivery.start = 0 THEN Started(w) ELSE w
    BY DEF Passed
  <2> HIDE DEF w
  <2>5. Passed(delivery).at = delivery.at
    BY <1>3, <2>3, <2>4
  <2> QED BY <1>2, <2>1, <2>2, <2>5 DEF AttestCheck
<1> QED BY <1>1, <1>5, <1>6, <1>7, <1>8 DEF DeliveryStep

\* A dispute that ends gives back the time it took: what was left of the deadline is left again.
LEMMA SettlingCover ==
    ASSUME DealInv, DealInv', CoverInv, BoundsFit, state = "Disputed", terms' = terms, now' = now,
           deadline' = DeadlineAfterDispute, horizon' = HorizonAfterDispute, delivery' = NoDelivery,
           state' = "Accepted"
    PROVE  CoverInv'
<1> DEFINE to == deadline + (now - dispute.openedAt)
<1>1. /\ now \in Nat /\ deadline \in Nat /\ dispute.openedAt \in Nat /\ dispute.openedAt <= now
      /\ FamilyHorizon \in Nat
  BY CoverNats, AgreementAssumption DEF DealInv, AgreementInv, DisputesInv
<1>2. to \in Nat /\ (deadline <= dispute.openedAt + FamilyHorizon => to <= now + FamilyHorizon)
  BY <1>1
<1>3. deadline' = to /\ horizon' = Bumped(to + ClockTail(terms))
  BY DEF DeadlineAfterDispute, HorizonAfterDispute
<1>4. ~Delivered'
  BY DEF NoDelivery, Delivered
<1> HIDE DEF to
<1>5. PromisesInv' /\ ReachInv'
  BY <1>4 DEF CoverInv, PromisesInv, ReachInv
<1>6. DueInv'
  <2> SUFFICES ASSUME terms.parts = 0 PROVE DueInv'
    BY DEF DueInv
  <2>1. to <= now + FamilyHorizon
    BY <1>2 DEF CoverInv, DueInv
  <2> QED BY <1>2, <1>3, <2>1, MovedDue DEF DueInv
<1> QED BY <1>5, <1>6 DEF CoverInv

LEMMA TrancheCover ==
    ASSUME DealInv, DealInv', CoverInv, UNCHANGED <<now, terms, deadline, dispute, horizon>>,
           delivery' = NoDelivery, state = "Accepted", state' = "Accepted" \/ state' \in Ended
    PROVE  CoverInv'
<1>1. now' >= now /\ horizon' >= horizon /\ delivery'.at = 0
  BY CoverNats DEF NoDelivery
<1>2. CASE state' = "Accepted"
  BY <1>1, <1>2, CalmCover
<1>3. CASE state' \in Ended
  BY <1>1, <1>3, EndingCover
<1> QED BY <1>2, <1>3

LEMMA PaymentCover ==
    ASSUME DealInv, DealInv', CoverInv, BoundsFit, PaymentStep
    PROVE  CoverInv'
<1>1. TypesInv /\ DisputesInv /\ horizon \in Nat
  BY DEF DealInv, AgreementInv, SideInv
<1>2. CASE Release
  <2>1. /\ UNCHANGED <<now, terms>> /\ delivery' = NoDelivery /\ state \in Running
        /\ state' = "Accepted" \/ state' \in Ended
        /\ IF state = "Disputed"
           THEN deadline' = DeadlineAfterDispute /\ horizon' = HorizonAfterDispute
           ELSE UNCHANGED <<dispute, deadline, horizon>>
    BY <1>2 DEF Release, PayTranche, NextTranche, Ends, Ended
  <2>2. CASE state = "Disputed" /\ state' = "Accepted"
    BY <2>1, <2>2, SettlingCover
  <2>3. CASE state = "Disputed" /\ state' \in Ended
    <3>1. horizon' >= horizon
      BY <1>1, <2>1, <2>3, HorizonAfterMoves, HorizonOnlyGrows
    <3>2. delivery'.at = 0
      BY <2>1 DEF NoDelivery
    <3> QED BY <2>1, <2>3, <3>1, <3>2, EndingCover
  <2>4. CASE state = "Accepted"
    BY <2>1, <2>4, TrancheCover
  <2> QED BY <2>1, <2>2, <2>3, <2>4 DEF Running
<1>3. CASE Claim
  <2>1. /\ UNCHANGED <<now, terms, deadline, dispute, horizon>> /\ delivery' = NoDelivery
        /\ state = "Accepted" /\ (state' = "Accepted" \/ state' \in Ended)
    BY <1>3 DEF Claim, ClaimOpen, PayTranche, NextTranche, Ends, Ended, dueVars, talkVars
  <2> QED BY <2>1, TrancheCover
<1>4. ASSUME Reclaim \/ (\E who \in Parties : AcceptSplit(who))
             \/ (\E x \in {ShareOf(balance, bps) : bps \in Shares} : LongstopSplit(x))
      PROVE  CoverInv'
  <2>1. /\ UNCHANGED <<terms, delivery, horizon>> /\ state # "None" /\ state' \in Ended
    BY <1>4 DEF Reclaim, ReclaimOpen, AcceptSplit, OpenToSplit, Splits, LongstopSplit, LongstopOpen,
                Ends, Ended, Running, deliveryVars, trancheVars
  <2>2. horizon' >= horizon
    BY <1>1, <2>1
  <2> QED BY <2>1, <2>2, EndingCover
<1> QED BY <1>2, <1>3, <1>4 DEF PaymentStep

LEMMA DeadlineCover ==
    ASSUME DealInv, DealInv', CoverInv, BoundsFit, DeadlineStep
    PROVE  CoverInv'
<1>1. ASSUME NEW to \in Nat, MovesDeadline(to)
      PROVE  CoverInv'
  <2>1. /\ state = "Accepted" /\ to <= now + FamilyHorizon /\ deadline' = to
        /\ horizon' = Bumped(to + ClockTail(terms))
        /\ UNCHANGED <<now, terms, state, delivery, dispute>>
    BY <1>1 DEF MovesDeadline, dealVars, deliveryVars, talkVars
  <2>2. /\ horizon' \in Nat /\ horizon' >= horizon /\ (deadline <= now + FamilyHorizon)'
        /\ (Refund < now \/ Refund < horizon + Longstop)'
    BY <2>1, MovedDue
  <2>3. PromisesInv' /\ DueInv'
    BY <2>1, <2>2 DEF CoverInv, PromisesInv, DueInv
  <2>4. ReachInv'
    BY <2>1, <2>2, CoverNats DEF CoverInv, ReachInv, Delivered
  <2> QED BY <2>3, <2>4 DEF CoverInv
<1>2. ASSUME NEW to, RequestExtension(to)
      PROVE  CoverInv'
  <2>1. UNCHANGED <<now, terms, state, deadline, dispute, horizon, delivery>>
    BY <1>2 DEF RequestExtension, dealVars, deliveryVars, talkVars
  <2>2. now' >= now /\ horizon' >= horizon
    BY <2>1, CoverNats
  <2> QED BY <2>1, <2>2, CalmCover
<1>3. \A to \in Deadlines : to \in Nat
  BY AgreementAssumption
<1>4. ApproveExtension => requested \in Nat /\ MovesDeadline(requested)
  BY DEF ApproveExtension, DealInv, AgreementInv, TypesInv
<1> QED BY <1>1, <1>2, <1>3, <1>4 DEF DeadlineStep, ExtendDeadline

\* A ruling's term is within the horizon that the step which starts it sets.
\* A time span within MaxHorizon is covered by the horizon that follows it.
LEMMA SpanReached ==
    ASSUME DealInv, NEW span \in 1..MaxHorizon, horizon' = Bumped(now + span)
    PROVE  horizon' \in Nat /\ horizon' >= horizon /\ horizon' >= now + span
<1>1. now \in Nat /\ horizon \in Nat /\ TypesInv /\ MaxHorizon \in Nat
  BY CoverNats, AgreementAssumption DEF DealInv, AgreementInv
<1>2. now + span \in Int /\ now + span > now
  BY <1>1
<1> QED BY <1>1, <1>2, BumpReaches

LEMMA SpansFit ==
    RulingPeriod \in 1..MaxHorizon /\ Longest \in 1..MaxHorizon /\ RulingPeriod <= Longest
BY AgreementAssumption DEF Longest

LEMMA DisputeCover ==
    ASSUME DealInv, DealInv', CoverInv, NEW who \in Parties, Dispute(who)
    PROVE  CoverInv'
<1>1. /\ state = "Accepted" /\ state' = "Disputed" /\ UNCHANGED <<now, terms, deadline, delivery>>
      /\ horizon' = Bumped(now + Longest)
      /\ dispute' = [NoDispute EXCEPT !.openedAt = now, !.opener = who,
                                      !.escalatedAt = IF terms.arbiter THEN 0 ELSE now]
  BY DEF Dispute, Talks, deliveryVars, dueVars
<1>2. dispute'.openedAt = now /\ dispute'.escalatedAt \in {0, now}
  BY <1>1 DEF NoDispute
<1>4. /\ horizon' \in Nat /\ horizon' >= horizon /\ horizon' >= now + Longest
      /\ horizon' >= now + RulingPeriod
  BY <1>1, SpanReached, SpansFit, CoverNats
<1>5. PromisesInv'
  BY <1>1 DEF CoverInv, PromisesInv
<1>6. ReachInv'
  BY <1>1, <1>2, <1>4, CoverNats DEF CoverInv, ReachInv, Delivered, Escalated
<1>7. DueInv'
  BY <1>1, <1>2 DEF CoverInv, DueInv
<1> QED BY <1>5, <1>6, <1>7 DEF CoverInv

LEMMA DisputeStepCover ==
    ASSUME DealInv, DealInv', CoverInv, BoundsFit, DisputeStep
    PROVE  CoverInv'
<1>1. TypesInv /\ DisputesInv /\ horizon \in Nat /\ dispute \in DisputeRecord
  BY DEF DealInv, AgreementInv, TypesInv, SideInv
<1>2. ASSUME NEW bps, ProposeRuling(bps)
      PROVE  CoverInv'
  <2>1. /\ UNCHANGED <<now, terms, state, deadline, delivery, horizon>>
        /\ dispute' = [dispute EXCEPT !.proposedAt = now, !.bps = bps]
    BY <1>2 DEF ProposeRuling, Talks, deliveryVars, dueVars
  <2>2. dispute'.openedAt = dispute.openedAt /\ dispute'.escalatedAt = dispute.escalatedAt
    BY <1>1, <2>1 DEF DisputeRecord
  <2>3. now' >= now /\ horizon' >= horizon
    BY <2>1, CoverNats
  <2> QED BY <2>1, <2>2, <2>3, CalmCover
<1>3. ASSUME NEW who, Escalate(who)
      PROVE  CoverInv'
  <2>1. /\ state = "Disputed" /\ UNCHANGED <<now, terms, state, deadline, delivery>>
        /\ horizon' = Bumped(now + RulingPeriod) /\ dispute' = [dispute EXCEPT !.escalatedAt = now]
    BY <1>3 DEF Escalate, Talks, deliveryVars, dueVars
  <2>2. dispute'.openedAt = dispute.openedAt /\ dispute'.escalatedAt = now
    BY <1>1, <2>1 DEF DisputeRecord
  <2>4. horizon' \in Nat /\ horizon' >= horizon /\ horizon' >= now + RulingPeriod
    BY <2>1, SpanReached, SpansFit
  <2>5. PromisesInv'
    BY <2>1 DEF CoverInv, PromisesInv
  <2>6. ReachInv'
    BY <2>1, <2>2, <2>4, CoverNats DEF CoverInv, ReachInv, Delivered, Escalated
  <2>7. DueInv'
    BY <2>1, <2>2 DEF CoverInv, DueInv
  <2> QED BY <2>5, <2>6, <2>7 DEF CoverInv
<1>4. ASSUME NEW bps, state = "Disputed", RuleTranche(bps)
      PROVE  CoverInv'
  <2>1. /\ UNCHANGED <<now, terms>> /\ delivery' = NoDelivery
        /\ deadline' = DeadlineAfterDispute /\ horizon' = HorizonAfterDispute
        /\ state' = "Accepted" \/ state' \in Ended
    BY <1>4 DEF RuleTranche, NextTranche, Ends, Ended
  <2>2. horizon' >= horizon
    BY <1>1, <1>4, <2>1, HorizonAfterMoves, HorizonOnlyGrows
  <2>3. delivery'.at = 0
    BY <2>1 DEF NoDelivery
  <2> QED BY <1>4, <2>1, <2>2, <2>3, SettlingCover, EndingCover
<1> QED BY <1>2, <1>3, <1>4 DEF DisputeStep

LEMMA CoverStep == DealInv /\ BoundsFit /\ CoverInv /\ [Next]_vars => CoverInv'
<1> SUFFICES ASSUME DealInv, BoundsFit, CoverInv, [Next]_vars PROVE CoverInv'
  OBVIOUS
<1>1. DealInv'
  BY DealStep
<1>2. ASSUME UNCHANGED <<terms, state, deadline, dispute, horizon, delivery>>, now' \in {now, now + 1}
      PROVE  CoverInv'
  <2>1. now' >= now /\ horizon' >= horizon
    BY <1>2, CoverNats
  <2> QED BY <1>1, <1>2, <2>1, CalmCover
<1>3. CASE SideStep
  <2>1. UNCHANGED <<now, terms, state, deadline, dispute, delivery>>
    BY <1>3, SideIsIdle DEF Idle
  <2>2. horizon' = horizon
    BY <1>3 DEF SideStep, TalkStep, CancelSplit, ProposeSplit, HubStep, RevokeFamily, SetAsset, SetHub,
                VaultStep, KeepStake, ReleaseStale, ReleaseHold
  <2> QED BY <1>2, <2>1, <2>2
<1>4. CASE FundingStep
  BY <1>1, <1>4, FundingCover
<1>5. CASE DeliveryStep
  BY <1>1, <1>5, DeliveryCover
<1>6. CASE PaymentStep
  BY <1>1, <1>6, PaymentCover
<1>7. CASE DeadlineStep
  BY <1>1, <1>7, DeadlineCover
<1>8. CASE DisputeStep
  BY <1>1, <1>8, DisputeStepCover
<1>9. CASE \E who \in Parties : Dispute(who)
  BY <1>1, <1>9, DisputeCover
<1>10. CASE Hold \/ Tick
  <2>1. /\ UNCHANGED <<terms, state, deadline, dispute, horizon, delivery>>
        /\ now' \in {now, now + 1}
    BY <1>10 DEF Hold, Tick, dealVars, dueVars, talkVars, deliveryVars
  <2> QED BY <1>2, <2>1
<1>11. CASE UNCHANGED vars
  <2>1. UNCHANGED <<now, terms, state, deadline, dispute, horizon, delivery>>
    BY <1>11 DEF vars, dealVars, dueVars, talkVars, deliveryVars
  <2> QED BY <1>2, <2>1
<1> QED BY <1>3, <1>4, <1>5, <1>6, <1>7, <1>8, <1>9, <1>10, <1>11, StepCases

LEMMA CoverMeansLast ==
    ASSUME DealInv, CoverInv, ReviewsAsAgreed
    PROVE  LongstopComesLast
<1> SUFFICES ASSUME LongstopOpen PROVE LongstopComesLast
  BY DEF LongstopComesLast
<1>1. /\ now \in Nat /\ horizon \in Nat /\ deadline \in Nat /\ delivery.at \in Nat
      /\ dispute.escalatedAt \in Nat /\ terms.reclaimGrace \in Nat /\ terms.silentLongstop \in Nat
      /\ terms.acceptBy \in Nat /\ Longstop \in Nat /\ Longstop >= 1 /\ HoldCap \in Nat
      /\ HoldCap <= Longstop /\ RulingPeriod \in Nat
  BY CoverNats, AgreementAssumption
<1>2. now >= horizon + Longstop
  BY DEF LongstopOpen
<1>3. state = "Funded" => now > terms.acceptBy
  BY <1>1, <1>2 DEF CoverInv, ReachInv
<1>4. HoldSince \in Nat /\ HoldSince <= HoldCap
  <2>1. holdUsed \in 0..HoldCap /\ delivery.holdBase \in Nat /\ delivery.holdBase <= holdUsed
    BY DEF DealInv, AgreementInv, TypesInv, ClocksInv, Delivery
  <2> QED BY <1>1, <2>1 DEF HoldSince
<1>5. ASSUME Delivered PROVE Silent /\ now >= ReviewEnd
  <2>1. delivery.at + terms.silentLongstop <= horizon
    BY <1>5 DEF CoverInv, ReachInv
  <2>2. now >= delivery.at + terms.silentLongstop + HoldSince
    BY <1>1, <1>2, <1>4, <2>1
  <2>3. ReviewEnd - HoldSince <= delivery.at + terms.silentLongstop
    BY <1>5 DEF ReviewsAsAgreed, ReviewKept
  <2>4. ReviewEnd \in Nat
    <3>1. delivery.end \in Nat /\ terms.startLongstop \in Nat /\ terms.reviewWindow \in Nat
      BY DEF DealInv, AgreementInv, TypesInv, Delivery, Terms
    <3> QED BY <1>1, <1>4, <3>1 DEF ReviewEnd
  <2> QED BY <1>1, <1>4, <2>2, <2>3, <2>4 DEF Silent
<1>6. state = "Accepted" /\ terms.parts = 0 => now > deadline + terms.reclaimGrace
  BY <1>1, <1>2 DEF CoverInv, DueInv, Refund
<1>7. state = "Disputed" /\ Escalated => RulingLate
  BY <1>1, <1>2 DEF CoverInv, ReachInv, RulingLate
<1>8. ASSUME state = "Disputed"
      PROVE  /\ now >= dispute.openedAt + ProposalWindow
             /\ dispute.proposedAt <= dispute.openedAt + Longest => AppealOver
  <2>1. /\ dispute.openedAt \in Nat /\ dispute.proposedAt \in Nat /\ Longest \in Nat /\ ProposalWindow \in Nat
        /\ AppealWindow \in Nat /\ AppealWindow <= Longstop /\ ProposalWindow <= Longest
    BY CoverNats, AgreementAssumption DEF Longest
  <2>2. dispute.openedAt + Longest <= horizon
    BY <1>8 DEF CoverInv, ReachInv
  <2>3. now >= dispute.openedAt + Longest + Longstop
    BY <1>1, <1>2, <2>1, <2>2
  <2> QED BY <1>1, <2>1, <2>3 DEF AppealOver
<1> QED BY <1>3, <1>5, <1>6, <1>7, <1>8 DEF LongstopComesLast

\* Once the senior Safe may split a deal, the offer, the review, the silence longstop, the arbiter's
\* time, the appeal against a proposal made within the time a dispute is to take, the ruling's term
\* and (without instalments) the refund's clock have all run out, wherever deliveries, deadline moves,
\* holds and disputes have put them.
THEOREM LongstopIsLast == BoundsFit => (Spec => []LongstopComesLast)
<1> SUFFICES ASSUME BoundsFit PROVE Spec => []LongstopComesLast
  OBVIOUS
<1>1. Init => CoverInv
  BY DEF Init, CoverInv, PromisesInv, ReachInv, DueInv, NoDelivery, Delivered
<1>2. DealInv /\ CoverInv /\ [Next]_vars => CoverInv'
  BY CoverStep
<1>3. DealInv /\ CoverInv /\ ReviewsAsAgreed => LongstopComesLast
  BY CoverMeansLast
<1> QED BY <1>1, <1>2, <1>3, DealsKept, ReviewsHold, PTL DEF Spec

-----------------------------------------------------------------------------
(* Nothing the terms allow is refused by the account. *)

\* What the account's fee limit and the last money of a deal rest on: the fee paid never runs ahead of
\* the books, money in and money promised make up the price, and no tranche is for nothing.
PayableInv ==
    /\ state = "None" => feePaid = 0
    /\ state # "None" => \A i \in 1..Count : terms.trancheBps[i] > 0
    /\ state \in Running \cup {"Funded"} =>
           /\ funded + promised = Price(terms) /\ feePaid <= feeReleased
           /\ terms.parts # 0 => partsPaid >= 1

LEMMA PayableFrame ==
    ASSUME PayableInv, UNCHANGED <<terms, partsPaid, funded, promised, feePaid, feeReleased>>,
           state' \in Running \cup {"Funded"} => state \in Running \cup {"Funded"},
           state = "None" <=> state' = "None"
    PROVE  PayableInv'
<1>1. Count' = Count /\ Price(terms)' = Price(terms)
  BY DEF Count
<1> QED BY <1>1 DEF PayableInv

LEMMA EndingPayable ==
    ASSUME PayableInv, state # "None", NEW e \in Ended, NEW st, Ends(e, st), terms' = terms
    PROVE  PayableInv'
BY DEF PayableInv, Ends, Ended, Running, Count

LEMMA TranchePayable ==
    ASSUME DealInv, PayableInv, state \in Running, NextTranche, NEW a, NEW b, NEW c, Pays(a, b, c),
           b <= TrancheFee, UNCHANGED <<terms, partsPaid>>,
           \/ \E e \in Ended : \E st : Ends(e, st)
           \/ state' = "Accepted" /\ promised' = promised
    PROVE  PayableInv'
<1>1. CASE \E e \in Ended : \E st : Ends(e, st)
  BY <1>1, EndingPayable DEF Running
<1>2. CASE state' = "Accepted" /\ promised' = promised
  <2>1. /\ TrancheFee \in Nat /\ feeReleased \in Nat /\ feePaid \in Nat
    BY TrancheAmounts DEF DealInv, AgreementInv, SideInv, LedgerInv, AmountsInv
  <2>2. /\ feeReleased' = feeReleased + TrancheFee /\ feePaid' = feePaid + b /\ b \in Nat
        /\ funded' = funded
    BY DEF NextTranche, Pays, CanPay
  <2>3. feePaid <= feeReleased
    BY DEF PayableInv
  <2>4. feePaid' <= feeReleased'
    BY <2>1, <2>2, <2>3
  <2>5. Count' = Count /\ Price(terms)' = Price(terms)
    BY DEF Count
  <2> QED BY <1>2, <2>2, <2>4, <2>5 DEF PayableInv, Running
<1> QED BY <1>1, <1>2

LEMMA FundPayable ==
    ASSUME DealInv, PayableInv, NEW t \in Offered, Fund(t)
    PROVE  PayableInv'
<1>1. /\ t \in Terms /\ Valid(t) /\ state = "None" /\ state' = "Funded" /\ terms' = Absolute(t)
      /\ UNCHANGED <<feePaid, feeReleased>> /\ partsPaid' = IF t.parts = 0 THEN 0 ELSE 1
  BY AgreementAssumption DEF Fund, trancheVars
<1>2. /\ terms'.trancheBps = t.trancheBps /\ terms'.amount = t.amount /\ terms'.feeBps = t.feeBps
      /\ terms'.parts = t.parts
  <2> DEFINE x == t.acceptBy + now
             y == t.deliveryDeadline + now
  <2>1. terms' = [t EXCEPT !.acceptBy = x, !.deliveryDeadline = y]
    BY <1>1, Zenon DEF Absolute
  <2> HIDE DEF x, y
  <2> QED BY <1>1, <2>1 DEF Terms
<1>3. \A i \in 1..Count' : terms'.trancheBps[i] > 0
  <2>1. DOMAIN t.trancheBps = 1..Len(t.trancheBps)
    BY <1>1 DEF Terms
  <2> QED BY <1>1, <1>2, <2>1 DEF Valid, Count
<1>4. feePaid' <= feeReleased'
  <2>1. feePaid = 0 /\ feeReleased = 0
    BY <1>1 DEF PayableInv, DealInv, UnpaidInv
  <2> QED BY <1>1, <2>1
<1>5. Price(terms)' = Price(t) /\ Price(t) \in Nat
  BY <1>1, <1>2, PriceIsNetAndFee DEF Price, BuyerFee, FeeOf
<1> DEFINE p == Price(t)
           first == IF t.parts = 0 THEN p ELSE p \div t.parts
<1>6. funded' = first /\ promised' = p - first
  BY DEF Fund
<1>7. first \in Int
  <2>1. LedgerInv'
    BY FundLedger DEF DealInv, UnpaidInv
  <2> QED BY <1>6, <2>1 DEF LedgerInv, AmountsInv
<1> HIDE DEF p, first
<1>8. funded' + promised' = Price(terms)'
  BY <1>5, <1>6, <1>7 DEF p
<1> QED BY <1>1, <1>2, <1>3, <1>4, <1>8 DEF PayableInv

LEMMA PayPartPayable ==
    ASSUME DealInv, PayableInv, PayPart
    PROVE  PayableInv'
<1>1. /\ state \in Running \cup {"Funded"} /\ UNCHANGED <<terms, state, feePaid, feeReleased>>
      /\ partsPaid' = partsPaid + 1
  BY DEF PayPart, trancheVars, Running
<1>2. PICK x : x \in 1..promised /\ funded' = funded + x /\ promised' = promised - x
  BY DEF PayPart
<1>3. funded \in Nat /\ promised \in Nat /\ partsPaid \in Nat
  BY DEF DealInv, LedgerInv, AmountsInv, AgreementInv, TypesInv
<1>4. funded' + promised' = funded + promised /\ (partsPaid >= 1 => partsPaid' >= 1)
  BY <1>1, <1>2, <1>3
<1>5. Count' = Count /\ Price(terms)' = Price(terms) /\ state # "None"
  BY <1>1 DEF Count, Running
<1> QED BY <1>1, <1>4, <1>5 DEF PayableInv

LEMMA RulingPayable ==
    ASSUME DealInv, PayableInv, state = "Disputed", NEW bps \in 0..BPS, RuleTranche(bps)
    PROVE  PayableInv'
<1> DEFINE y == ShareOf(TrancheFee, bps)
<1>1. /\ \E a, c : Pays(a, y, c)
      /\ NextTranche /\ UNCHANGED <<terms, partsPaid>>
      /\ (\E st : Ends("Ruled", st)) \/ (state' = "Accepted" /\ promised' = promised)
  BY DEF RuleTranche, PaysRuling
<1>2. TrancheFee \in Nat /\ bps \in Nat /\ bps <= BPS
  BY TrancheAmounts, AgreementAssumption DEF DealInv, AgreementInv, Running
<1>3. y <= TrancheFee
  BY <1>2, ShareBounds
<1> HIDE DEF y
<1> QED BY <1>1, <1>3, TranchePayable DEF Ended, Running

LEMMA RulingShares ==
    ASSUME DealInv, state = "Disputed", NEW bps \in Shares \cup {dispute.bps, terms.fallbackBps}
    PROVE  bps \in 0..BPS
<1>1. /\ Shares \subseteq 0..BPS /\ dispute.bps \in 0..BPS /\ BPS \in Nat
  BY AgreementAssumption DEF DealInv, AgreementInv, TypesInv, DisputeRecord
<1>2. terms.fallbackBps \in Nat /\ terms.fallbackBps <= BPS
  BY DEF DealInv, AgreementInv, TypesInv, Terms, LedgerInv, AgreedInv
<1> QED BY <1>1, <1>2

LEMMA PaymentPayable ==
    ASSUME DealInv, PayableInv, PaymentStep
    PROVE  PayableInv'
<1>1. CASE Release \/ Claim
  <2>1. PICK st : PayTranche(st, "Accepted")
    BY <1>1 DEF Release, Claim
  <2>2. state \in Running /\ UNCHANGED <<terms, partsPaid>>
    BY <1>1 DEF Release, Claim, ClaimOpen, Running
  <2>3. /\ Pays(TrancheNet, TrancheFee, 0) /\ NextTranche
        /\ Ends("Settled", st) \/ (state' = "Accepted" /\ promised' = promised)
    BY <2>1 DEF PayTranche
  <2>4. TrancheFee <= TrancheFee
    BY <2>2, TrancheAmounts DEF DealInv, AgreementInv
  <2>5. "Settled" \in Ended
    BY DEF Ended
  <2> QED BY <2>2, <2>3, <2>4, <2>5, TranchePayable
<1>2. ASSUME NEW e \in Ended, NEW st, Ends(e, st), state # "None", terms' = terms
      PROVE  PayableInv'
  BY <1>2, EndingPayable
<1>3. CASE Reclaim
  BY <1>2, <1>3 DEF Reclaim, ReclaimOpen, Ended
<1>4. ASSUME NEW who, AcceptSplit(who) PROVE PayableInv'
  BY <1>2, <1>4 DEF AcceptSplit, OpenToSplit, Splits, Ended, Running
<1>5. ASSUME NEW x, LongstopSplit(x) PROVE PayableInv'
  BY <1>2, <1>5 DEF LongstopSplit, LongstopOpen, Ended, Running
<1> QED BY <1>1, <1>3, <1>4, <1>5 DEF PaymentStep

LEMMA FundingPayable ==
    ASSUME DealInv, PayableInv, FundingStep
    PROVE  PayableInv'
<1>1. CASE Accept \/ AcceptWithStake
  <2>1. /\ UNCHANGED <<terms, partsPaid, funded, promised, feePaid, feeReleased>>
        /\ state = "Funded" /\ state' = "Accepted"
    BY <1>1 DEF Accept, AcceptWithStake, Accepts, trancheVars, moneyVars
  <2> QED BY <2>1, PayableFrame
<1>2. CASE CancelMissed \/ CancelUnaccepted
  <2>1. Ends("Refunded", stake) /\ state # "None" /\ terms' = terms /\ "Refunded" \in Ended
    BY <1>2 DEF CancelMissed, CancelUnaccepted, Ended
  <2> QED BY <2>1, EndingPayable
<1> QED BY <1>1, <1>2, FundPayable, PayPartPayable DEF FundingStep

LEMMA PayableStep == DealInv /\ PayableInv /\ [Next]_vars => PayableInv'
<1> SUFFICES ASSUME DealInv, PayableInv, [Next]_vars PROVE PayableInv'
  OBVIOUS
<1>a. ASSUME UNCHANGED <<terms, partsPaid, funded, promised, feePaid, feeReleased>>,
             state' = state \/ (state = "Accepted" /\ state' = "Disputed")
      PROVE  PayableInv'
  BY <1>a, PayableFrame DEF Running
<1>1. CASE Idle
  BY <1>1, <1>a DEF Idle, moneyVars
<1>2. CASE DeliveryStep
  BY <1>2, <1>a DEF DeliveryStep, MarkDelivered, NewDelivery, StartReview, RequestMoreTime, SignVerdict,
              AttestCheck, Reviews, dealVars, trancheVars, moneyVars
<1>3. CASE DeadlineStep
  BY <1>3, <1>a DEF DeadlineStep, ExtendDeadline, RequestExtension, ApproveExtension, MovesDeadline,
              dealVars, trancheVars, moneyVars
<1>4. ASSUME NEW x, NEW o, Talks(x, o), state' = state \/ (state = "Accepted" /\ state' = "Disputed")
      PROVE  PayableInv'
  BY <1>4, <1>a DEF Talks, trancheVars, moneyVars
<1>5. CASE DisputeStep
  <2>1. CASE \E bps \in Shares : ProposeRuling(bps)
    BY <1>4, <2>1 DEF ProposeRuling
  <2>2. CASE \E who \in Parties \cup {"arbiter", "anyone"} : Escalate(who)
    BY <1>4, <2>2 DEF Escalate
  <2> QED BY <1>5, <2>1, <2>2, RulingShares, RulingPayable DEF DisputeStep
<1>6. CASE \E who \in Parties : Dispute(who)
  BY <1>4, <1>6 DEF Dispute
<1>7. CASE Hold \/ Tick
  BY <1>7, <1>a DEF Hold, Tick, dealVars, trancheVars, moneyVars
<1>8. CASE UNCHANGED vars
  BY <1>1, <1>8, StutterIdle
<1> QED BY <1>1, <1>2, <1>3, <1>5, <1>6, <1>7, <1>8, FundingPayable, PaymentPayable, StepCases, SideIsIdle

\* The account's fee limit always covers the fee the terms still owe.
LEMMA FeeLimit ==
    ASSUME DealInv, PayableInv, state \in Running \cup {"Funded"}
    PROVE  /\ ShareOf(funded, terms.feeBps) - feePaid \in Nat
           /\ PlanPaid => Fee - feeReleased <= ShareOf(funded, terms.feeBps) - feePaid
<1>1. /\ terms \in Terms /\ funded \in Nat /\ promised \in Nat /\ feePaid \in Nat /\ feeReleased \in Nat
      /\ feePaid <= feeReleased /\ funded + promised = Price(terms)
  BY DEF DealInv, AgreementInv, TypesInv, LedgerInv, AmountsInv, SideInv, PayableInv
<1>2. terms.feeBps \in Nat /\ BPS \in Nat /\ BPS > 0 /\ terms.amount \in Nat
  BY <1>1, AgreementAssumption DEF Terms
<1>3. ShareOf(funded, terms.feeBps) \in Nat
  BY <1>1, <1>2, ShareNat
<1>4. feeReleased <= Fee /\ Fee \in Nat
  BY ReleasedWithinTerms DEF DealInv, AgreementInv, LedgerInv
<1>5. ASSUME PlanPaid PROVE Fee <= ShareOf(funded, terms.feeBps)
  <2>1. promised = 0
    BY <1>5 DEF DealInv, LedgerInv, PlanInv
  <2>2. Price(terms) = terms.amount + BuyerFee(terms) /\ BuyerFee(terms) = Fee \div 2
    BY DEF Price, BuyerFee, Fee
  <2>3. terms.amount <= funded
    <3> HIDE DEF Fee
    <3>1. BuyerFee(terms) \in Nat
      BY <1>4, <2>2
    <3> QED BY <1>1, <1>2, <2>1, <2>2, <3>1
  <2>4. /\ terms.amount * terms.feeBps <= funded * terms.feeBps
        /\ terms.amount * terms.feeBps \in Nat /\ funded * terms.feeBps \in Nat
    BY <1>1, <1>2, <2>3, ProductMonotone
  <2>5. (terms.amount * terms.feeBps) \div BPS <= (funded * terms.feeBps) \div BPS
    BY <1>2, <2>4, QuotientMonotone
  <2> QED BY <2>5 DEF Fee, FeeOf, ShareOf
<1>6. ASSUME ~PlanPaid PROVE feePaid = 0
  BY <1>1, <1>6 DEF DealInv, LedgerInv, PlanInv
<1> HIDE DEF Fee
<1>7. CASE PlanPaid
  BY <1>1, <1>3, <1>4, <1>5, <1>7
<1>8. CASE ~PlanPaid
  BY <1>1, <1>3, <1>6, <1>8
<1> QED BY <1>7, <1>8

\* Before the last tranche is paid, something of the seller's price is left.
LEMMA NetIsLeft ==
    ASSUME DealInv, PayableInv, state \in Running \cup {"Funded"}
    PROVE  released < Net
<1>1. /\ terms \in Terms /\ state # "None" /\ paid \in Nat /\ released \in Nat /\ BPS \in Nat /\ BPS > 0
  BY AgreementAssumption DEF DealInv, AgreementInv, TypesInv, LedgerInv, AmountsInv, Running
<1>2. paid < Count /\ Count \in Nat
  BY <1>1, CountNat DEF DealInv, AgreementInv, DisputesInv, Running
<1>3. /\ Prefix(paid) \in Nat /\ Prefix(paid + 1) \in Nat /\ Prefix(paid + 1) <= BPS
      /\ terms.trancheBps[paid + 1] \in Nat /\ terms.trancheBps[paid + 1] > 0
      /\ Prefix(paid + 1) = Prefix(paid) + terms.trancheBps[paid + 1]
  <2>1. Prefix(Count) = BPS
    BY <1>1 DEF DealInv, LedgerInv, AgreedInv
  <2>2. paid + 1 \in 1..Count /\ paid + 1 \in Nat /\ paid + 1 <= Count
    BY <1>1, <1>2
  <2> QED BY <1>1, <1>2, <2>1, <2>2, PrefixGrows DEF PayableInv
<1>4. Net \in Nat /\ Net > 0
  BY <1>1, PriceIsNetAndFee DEF Net, DealInv, LedgerInv, AgreedInv
<1>5. released * BPS <= Net * Prefix(paid)
  BY DEF DealInv, LedgerInv, SharesInv
<1> DEFINE n == Net
           p == Prefix(paid)
<1>6. n \in Nat /\ n > 0 /\ p \in Nat /\ p < BPS /\ released * BPS <= n * p
  BY <1>1, <1>3, <1>4, <1>5
<1>7. ASSUME released >= n PROVE FALSE
  <2> HIDE DEF n, p
  <2>1. n * BPS <= released * BPS /\ n * BPS \in Nat /\ released * BPS \in Nat
    BY <1>1, <1>6, <1>7, ProductMonotone
  <2>2. n * BPS >= n * p + n /\ n * p \in Nat
    BY <1>1, <1>6, NextMultiple
  <2> QED BY <1>6, <2>1, <2>2
<1> QED BY <1>1, <1>6, <1>7

LEMMA SomethingIsHeld ==
    ASSUME DealInv, PayableInv, state \in Running \cup {"Funded"}
    PROVE  balance \in Nat /\ balance > 0
<1>1. /\ balance \in Nat /\ released \in Nat /\ feeReleased \in Nat /\ terms \in Terms /\ partsPaid \in Nat
      /\ state # "None"
  BY DEF DealInv, LedgerInv, AmountsInv, AgreementInv, TypesInv, Running
<1>2. /\ Net \in Nat /\ Fee \in Nat /\ feeReleased <= Fee
  BY ReleasedWithinTerms DEF DealInv, AgreementInv, LedgerInv
<1>3. CASE PlanPaid
  <2>1. balance = (Net - released) + (Fee - feeReleased)
    BY <1>3 DEF DealInv, LedgerInv, PlanInv
  <2> HIDE DEF Net, Fee
  <2> QED BY <1>1, <1>2, <2>1, NetIsLeft
<1>4. CASE ~PlanPaid
  <2>1. terms.parts \in Nat /\ ~ (partsPaid >= terms.parts)
    BY <1>1, <1>4 DEF Terms, PlanPaid
  <2>2. terms.parts # 0
    BY <1>1, <2>1
  <2>3. balance = partsPaid * Part /\ partsPaid >= 1 /\ Part > 0
    BY <1>1, <1>4, <2>2 DEF DealInv, LedgerInv, PlanInv, AgreedInv, PayableInv
  <2>4. Part \in Nat
    <3>1. Price(terms) \in Nat
      BY <1>1, PriceIsNetAndFee
    <3> QED BY <2>1, <2>2, <3>1, QuotientBounds DEF Part
  <2> HIDE DEF Part
  <2>5. 1 * Part <= partsPaid * Part /\ 1 * Part = Part
    BY <1>1, <2>3, <2>4, ProductMonotone
  <2> QED BY <1>1, <2>3, <2>4, <2>5
<1> QED BY <1>3, <1>4

\* A share of an amount and of its fee, and the rest of both, are the whole.
LEMMA SharesAddUp ==
    ASSUME NEW n \in Nat, NEW f \in Nat, NEW bps \in 0..BPS
    PROVE  /\ ShareOf(n, bps) \in Nat /\ ShareOf(f, bps) \in Nat /\ BuyersRest(n, f, bps) \in Nat
           /\ ShareOf(f, bps) <= f
           /\ ShareOf(n, bps) + ShareOf(f, bps) + BuyersRest(n, f, bps) = n + f
<1>1. bps \in Nat /\ bps <= BPS
  BY AgreementAssumption
<1> DEFINE x == ShareOf(n, bps)
           y == ShareOf(f, bps)
<1>2. x \in Nat /\ x <= n /\ y \in Nat /\ y <= f
  BY <1>1, ShareBounds
<1>3. BuyersRest(n, f, bps) = (n - x) + (f - y)
  BY DEF BuyersRest
<1> HIDE DEF x, y
<1>4. BuyersRest(n, f, bps) \in Nat /\ x + y + BuyersRest(n, f, bps) = n + f
  BY <1>2, <1>3
<1> QED BY <1>2, <1>4 DEF x, y

\* Whatever adds up to the tranche, within its fee, can be paid; the last one empties the account.
LEMMA TrancheCanBePaid ==
    ASSUME DealInv, PayableInv, state \in Running, PlanPaid, NEW a \in Nat, NEW b \in Nat, NEW c \in Nat,
           a + b + c = TrancheNet + TrancheFee, b <= TrancheFee
    PROVE  CanPayTranche(a, b, c)
<1>1. /\ TrancheNet \in Nat /\ TrancheFee \in Nat /\ TrancheNet <= Net - released
      /\ TrancheFee <= Fee - feeReleased
  BY TrancheAmounts DEF DealInv, AgreementInv
<1>2. /\ Net \in Nat /\ Fee \in Nat /\ released \in Nat /\ feeReleased \in Nat /\ balance \in Nat
      /\ balance = (Net - released) + (Fee - feeReleased)
  BY ReleasedWithinTerms DEF DealInv, AgreementInv, LedgerInv, AmountsInv, PlanInv
<1>3. LastTranche => TrancheNet = Net - released /\ TrancheFee = Fee - feeReleased
  BY DEF TrancheNet, TrancheFee, Net, Fee
<1>4. Fee - feeReleased <= ShareOf(funded, terms.feeBps) - feePaid
      /\ ShareOf(funded, terms.feeBps) - feePaid \in Nat
  BY FeeLimit
<1> HIDE DEF Net, Fee
<1>5. a + b + c <= balance /\ (LastTranche => a + b + c = balance)
      /\ b <= ShareOf(funded, terms.feeBps) - feePaid
  BY <1>1, <1>2, <1>3, <1>4
<1> QED BY <1>5 DEF CanPayTranche, CanPayOut, CanPay

\* A ruling never asks for more than the whole stake.
LEMMA SlashWithinStake ==
    ASSUME DealInv, state \in Running, NEW bps \in 0..BPS
    PROVE  SlashFor(bps) \in 0..terms.sellerStake
<1> DEFINE s == terms.sellerStake
           x == SlashFor(bps)
           n == Net
           w == TrancheNet
           q == BPS * n
<1>1. x \in Nat /\ n \in Nat /\ n > 0 /\ s \in Nat /\ q * x <= s * (BPS - bps) * w
  BY SlashForIs DEF DealInv, AgreementInv
<1>2. w \in Nat /\ w <= n /\ BPS \in Nat /\ BPS > 0 /\ BPS - bps \in Nat /\ BPS - bps <= BPS
  <2>1. TrancheNet \in Nat /\ TrancheNet <= Net - released /\ released \in Nat
    BY TrancheAmounts DEF DealInv, AgreementInv, LedgerInv, AmountsInv
  <2>2. BPS \in Nat /\ BPS > 0
    BY AgreementAssumption
  <2> QED BY <1>1, <2>1, <2>2
<1> DEFINE d == BPS - bps
<1>3. d \in Nat /\ d <= BPS /\ q * x <= s * d * w
  BY <1>1, <1>2
<1> HIDE DEF s, x, n, w, d
<1>4. d * w <= q /\ d * w \in Nat /\ q \in Nat
  <2>1. d * w <= BPS * w /\ d * w \in Nat /\ BPS * w \in Nat
    BY <1>2, <1>3, ProductMonotone
  <2>2. w * BPS <= n * BPS /\ w * BPS = BPS * w /\ n * BPS = BPS * n /\ n * BPS \in Nat
    BY <1>1, <1>2, ProductMonotone
  <2> QED BY <2>1, <2>2
<1>5. q > 0
  <2>1. 1 * n <= BPS * n /\ 1 * n = n
    BY <1>1, <1>2, ProductMonotone
  <2> QED BY <1>1, <1>4, <2>1
<1> HIDE DEF q
<1>6. s * d * w = (d * w) * s /\ (d * w) * s <= q * s /\ q * s \in Nat /\ (d * w) * s \in Nat
  <2>1. s * d * w = (d * w) * s
    BY <1>1, <1>2, <1>3
  <2> DEFINE e == d * w
  <2>2. e \in Nat /\ e <= q
    BY <1>4
  <2> HIDE DEF e
  <2>3. e * s <= q * s /\ e * s \in Nat /\ q * s \in Nat
    BY <1>1, <1>4, <2>2, ProductMonotone
  <2> QED BY <2>1, <2>3 DEF e
<1>7. ASSUME x > s PROVE FALSE
  <2>1. q * x >= q * s + q /\ q * x \in Nat
    BY <1>1, <1>4, <1>5, <1>7, NextMultiple
  <2> QED BY <1>3, <1>4, <1>5, <1>6, <2>1
<1>8. x <= s
  BY <1>1, <1>7
<1> QED BY <1>1, <1>8 DEF x, s

\* Whatever the terms, the plan, the tranches and the rulings, no payment the terms allow is refused.
THEOREM NothingEverJams == Spec => []NothingJams
<1>1. ASSUME DealInv, PayableInv PROVE NothingJams
  <2>1. ClaimOpen => PlanPaid
    BY <1>1 DEF ClaimOpen, DealInv, AgreementInv, DisputesInv
  <2>2. ASSUME state \in Running, PlanPaid
        PROVE  /\ paid < Count /\ terms.fallbackBps <= BPS
               /\ CanPayTranche(TrancheNet, TrancheFee, 0)
               /\ \A bps \in 0..BPS :
                     /\ CanPayTranche(ShareOf(TrancheNet, bps), ShareOf(TrancheFee, bps),
                                      BuyersRest(TrancheNet, TrancheFee, bps))
                     /\ SlashFor(bps) \in 0..terms.sellerStake
                     /\ CanPayOut(ShareOf(NetLeft, bps), ShareOf(FeeLeft, bps), BuyersRest(NetLeft, FeeLeft, bps))
    <3>1. paid < Count /\ terms.fallbackBps <= BPS
      BY <1>1, <2>2 DEF DealInv, AgreementInv, DisputesInv, LedgerInv, AgreedInv, Running
    <3>2. TrancheNet \in Nat /\ TrancheFee \in Nat
      BY <1>1, <2>2, TrancheAmounts DEF DealInv, AgreementInv
    <3>3. CanPayTranche(TrancheNet, TrancheFee, 0)
      <4>1. TrancheNet + TrancheFee + 0 = TrancheNet + TrancheFee /\ TrancheFee <= TrancheFee
        BY <3>2
      <4> QED BY <1>1, <2>2, <3>2, <4>1, TrancheCanBePaid
    <3>4. ASSUME NEW bps \in 0..BPS
          PROVE  CanPayTranche(ShareOf(TrancheNet, bps), ShareOf(TrancheFee, bps),
                               BuyersRest(TrancheNet, TrancheFee, bps))
      BY <1>1, <2>2, <3>2, SharesAddUp, TrancheCanBePaid
    <3>5. /\ NetLeft \in Nat /\ FeeLeft \in Nat /\ NetLeft + FeeLeft = balance
          /\ FeeLeft <= ShareOf(funded, terms.feeBps) - feePaid
          /\ ShareOf(funded, terms.feeBps) - feePaid \in Nat
      <4>1. /\ Net \in Nat /\ Fee \in Nat /\ released \in Nat /\ feeReleased \in Nat
            /\ released <= Net /\ feeReleased <= Fee
            /\ balance = (Net - released) + (Fee - feeReleased)
        BY <1>1, <2>2, ReleasedWithinTerms DEF DealInv, AgreementInv, LedgerInv, AmountsInv, PlanInv
      <4>2. NetLeft = Net - released /\ FeeLeft = Fee - feeReleased
        BY DEF NetLeft, FeeLeft, Net, Fee
      <4> HIDE DEF Net, Fee
      <4> QED BY <1>1, <2>2, <4>1, <4>2, FeeLimit
    <3>6. ASSUME NEW bps \in 0..BPS
          PROVE  CanPayOut(ShareOf(NetLeft, bps), ShareOf(FeeLeft, bps), BuyersRest(NetLeft, FeeLeft, bps))
      <4> DEFINE y == ShareOf(FeeLeft, bps)
                 z == BuyersRest(NetLeft, FeeLeft, bps)
                 x == ShareOf(NetLeft, bps)
      <4>1. x \in Nat /\ y \in Nat /\ z \in Nat /\ y <= FeeLeft /\ x + y + z = NetLeft + FeeLeft
        BY <3>5, SharesAddUp
      <4> HIDE DEF x, y, z
      <4>2. x + y + z = balance /\ x + y + z <= balance /\ y <= ShareOf(funded, terms.feeBps) - feePaid
        BY <3>5, <4>1
      <4>3. CanPayOut(x, y, z)
        BY <4>1, <4>2 DEF CanPayOut, CanPay
      <4> QED BY <4>3 DEF x, y, z
    <3> QED BY <1>1, <2>2, <3>1, <3>3, <3>4, <3>6, SlashWithinStake
  <2>3. ASSUME state \in Running \cup {"Funded"}
        PROVE  /\ balance > 0 /\ CancelFee \in 0..balance
               /\ \A x \in 0..balance : CanPayOut(x, 0, balance - x)
    <3>1. balance \in Nat /\ balance > 0 /\ ShareOf(funded, terms.feeBps) - feePaid \in Nat
      BY <1>1, <2>3, SomethingIsHeld, FeeLimit
    <3>2. CancelFee \in 0..balance
      <4>1. terms.amount \in Nat /\ terms.cancelFeeBps \in Nat
        BY <1>1 DEF DealInv, AgreementInv, TypesInv, Terms
      <4>2. ShareOf(terms.amount, terms.cancelFeeBps) \in Nat
        BY <4>1, ShareNat
      <4> QED BY <3>1, <4>2 DEF CancelFee, AtMost
    <3>3. ASSUME NEW x \in 0..balance PROVE CanPayOut(x, 0, balance - x)
      <4>1. x \in Nat /\ balance - x \in Nat /\ x + 0 + (balance - x) = balance
        BY <3>1
      <4> QED BY <3>1, <4>1 DEF CanPayOut, CanPay
    <3> QED BY <3>1, <3>2, <3>3
  <2> QED BY <2>1, <2>2, <2>3 DEF NothingJams
<1>2. Init => PayableInv
  BY DEF Init, PayableInv, Running
<1> QED BY <1>1, <1>2, DealsKept, PayableStep, PTL DEF Spec
=============================================================================
