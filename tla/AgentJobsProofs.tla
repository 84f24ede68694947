--------------------------- MODULE AgentJobsProofs ---------------------------
(***************************************************************************)
(* Theorems about agent jobs, for any number of processes, links and cut   *)
(* calls, and any rates and amounts.  The job's account covers whatever    *)
(* share it is settled at.  And the record is true: the chain only moves   *)
(* forward, so what a call read stays true of it, however late the call    *)
(* writes it; the inductive invariant says so of every row a call holds.   *)
(***************************************************************************)
EXTENDS AgentJobs, TLAPS

USE JobAssumption, AgentJobsAssumption

Endings == {"Completed", "Rejected", "Expired"}

\* What a row may say of a chain in this state.
Truth(row, st, dis, sub, rej) ==
    /\ row.status = "completed" => st = "Completed"
    /\ row.status = "refunded" => st = "Rejected"
    /\ row.status = "expired" => st = "Expired"
    /\ row.status = "disputed" => dis \/ st \in Endings
    /\ row.status = "rejected" => rej # 0 /\ row.at >= rej
    /\ row.status = "submitted" => sub # 0

\* What the chain never takes back.
Forward(st, dis, sub, rej, st2, dis2, sub2, rej2) ==
    /\ st \in Endings => st2 = st
    /\ dis => dis2 \/ st2 \in Endings
    /\ sub # 0 => sub2 # 0
    /\ rej # 0 => rej2 = rej

True(row) == Truth(row, status, disputed, submittedAt, rejectedAt)

\* What a call about to write has brought about.
WroteFor(op, from, st, dis, sub, rej, t) ==
    /\ op # "status"
    /\ op = "happy" => st = "Completed"
    /\ op = "unhappy" => rej # 0 /\ rej <= t
    /\ op = "deliver" => sub # 0
    /\ op = "dispute" => dis \/ st \in Endings
    /\ op = "tick" => \/ from = "submitted" /\ st = "Completed"
                      \/ from = "rejected" /\ st = "Rejected"
    /\ op # "none"

CallTrue(w) ==
    /\ True(call[w].seen) /\ True(call[w].goal)
    /\ call[w].pc = "write" =>
           WroteFor(Op(w), call[w].seen.status, status, disputed, submittedAt, rejectedAt, now)
    /\ call[w].pc = "fund" => Op(w) = "fund"

ChainInv ==
    /\ disputed => status = "Submitted" /\ rejectedAt # 0
    /\ status = "Submitted" => submittedAt # 0
    /\ rejectedAt <= now
    /\ status \in {"Funded", "Submitted"} => balance = budget + HalfFee(budget)
    /\ status \notin {"Funded", "Submitted"} => balance = 0

Calls == [op : Ops \cup {"none"}, pc : {"none", "fund", "sync", "patch", "send", "write"},
          seen : Rows, goal : Rows, link : Tokens \cup {NoLink}]

JobsInv == TypeOK /\ ChainInv /\ True(record) /\ \A w \in Workers : CallTrue(w)

-----------------------------------------------------------------------------
(***************************************************************************)
(* The account.                                                            *)
(***************************************************************************)
LEMMA ShareNat ==
    ASSUME NEW a \in Nat, NEW b \in Nat
    PROVE  (a * b) \div BPS \in Nat
<1>1. a * b \in Nat
  OBVIOUS
<1> QED BY <1>1

LEMMA FeesNat ==
    ASSUME NEW g \in Nat
    PROVE  Fee(g) \in Nat /\ HalfFee(g) \in Nat /\ HalfFee(g) <= Fee(g)
<1>1. Fee(g) \in Nat
  BY ShareNat DEF Fee
<1> QED BY <1>1 DEF HalfFee

\* A larger gross bears no smaller fee.
LEMMA DivGrows ==
    ASSUME NEW x \in Nat, NEW y \in Nat, NEW u \in Nat \ {0}, x <= y
    PROVE  x \div u <= y \div u
<1> DEFINE p == x \div u
           q == y \div u
<1>1. p \in Nat /\ q \in Nat /\ u * p <= x /\ y < u * q + u
  OBVIOUS
<1>2. ASSUME p > q PROVE FALSE
  <2>1. u * p >= u * (q + 1)
    BY <1>1, <1>2
  <2>2. u * (q + 1) = u * q + u
    BY <1>1
  <2>3. u * p \in Nat /\ u * q \in Nat
    BY <1>1
  <2> HIDE DEF p, q
  <2> QED BY <1>1, <2>1, <2>2, <2>3
<1> QED BY <1>1, <1>2

LEMMA FeeGrows ==
    ASSUME NEW g \in Nat, NEW b \in Nat, g <= b
    PROVE  Fee(g) <= Fee(b) /\ HalfFee(g) <= HalfFee(b)
<1>1. g * FeeBps \in Nat /\ b * FeeBps \in Nat /\ g * FeeBps <= b * FeeBps
  OBVIOUS
<1>2. Fee(g) <= Fee(b)
  BY <1>1, DivGrows DEF Fee
<1>3. Fee(g) \in Nat /\ Fee(b) \in Nat
  BY FeesNat
<1> QED BY <1>2, <1>3, DivGrows DEF HalfFee

LEMMA ShareOfBudget ==
    ASSUME NEW b \in Nat, NEW bps \in 0..BPS
    PROVE  (b * bps) \div BPS \in 0..b
<1>1. b * bps \in Nat /\ b * BPS \in Nat /\ b * bps <= b * BPS
  OBVIOUS
<1>2. (b * BPS) \div BPS = b
  OBVIOUS
<1> QED BY <1>1, <1>2, DivGrows, ShareNat

\* Any share of the budget leaves the account no less than what is then paid out of it.
LEMMA SettlementFits ==
    ASSUME NEW b \in Nat, NEW g \in 0..b
    PROVE  ToProvider(g) + Fee(g) <= b + HalfFee(b)
<1>1. g \in Nat /\ g <= b
  OBVIOUS
<1>2. Fee(g) \in Nat /\ HalfFee(g) \in Nat /\ HalfFee(b) \in Nat /\ HalfFee(g) <= HalfFee(b)
  BY <1>1, FeesNat, FeeGrows
<1> QED BY <1>1, <1>2 DEF ToProvider

-----------------------------------------------------------------------------
(***************************************************************************)
(* The chain's side, one step at a time.                                   *)
(***************************************************************************)
Goes == Forward(status, disputed, submittedAt, rejectedAt, status', disputed', submittedAt', rejectedAt')

LEMMA Budgeted == ASSUME JobTypeOK PROVE budget \in Nat /\ HalfFee(budget) \in Nat
<1>1. budget \in Nat
  BY DEF JobTypeOK, JobAssumption
<1> QED BY <1>1, FeesNat

LEMMA SettleGoes ==
    ASSUME JobTypeOK, ChainInv, status \in {"Funded", "Submitted"}, NEW gross, NEW st \in Endings,
           Settle(gross, st)
    PROVE  JobTypeOK' /\ ChainInv' /\ Goes /\ status' = st
<1>1. status' = st /\ disputed' = FALSE /\ balance' = 0 /\ UNCHANGED <<now, budget, submittedAt, rejectedAt, holdUntil>>
  BY DEF Settle
<1>2. JobTypeOK'
  BY <1>1 DEF JobTypeOK, Endings
<1>3. ChainInv'
  BY <1>1 DEF ChainInv, Endings
<1>4. Goes
  BY <1>1 DEF Goes, Forward, Endings
<1> QED BY <1>1, <1>2, <1>3, <1>4

LEMMA SubmitGoes ==
    ASSUME JobTypeOK, ChainInv, Submit
    PROVE  JobTypeOK' /\ ChainInv' /\ Goes /\ submittedAt' # 0 /\ now' = now
<1>1. /\ status = "Funded" /\ status' = "Submitted" /\ submittedAt' = now /\ now \in Nat \ {0}
      /\ UNCHANGED <<now, budget, rejectedAt, disputed, balance, holdUntil>>
  BY DEF Submit, SubmitReady, JobTypeOK
<1>2. JobTypeOK'
  BY <1>1 DEF JobTypeOK
<1>3. ChainInv'
  BY <1>1 DEF ChainInv, HalfFee, Fee
<1>4. Goes
  BY <1>1 DEF Goes, Forward, Endings
<1> QED BY <1>1, <1>2, <1>3, <1>4

LEMMA RejectGoes ==
    ASSUME JobTypeOK, ChainInv, Reject
    PROVE  JobTypeOK' /\ ChainInv' /\ Goes /\ rejectedAt' # 0 /\ rejectedAt' <= now /\ now' = now
<1>1. /\ status = "Submitted" /\ rejectedAt = 0 /\ rejectedAt' = now /\ now \in Nat \ {0}
      /\ UNCHANGED <<now, status, budget, submittedAt, disputed, balance, holdUntil>>
  BY DEF Reject, RejectReady, JobTypeOK
<1>2. JobTypeOK'
  BY <1>1 DEF JobTypeOK
<1>3. ChainInv'
  BY <1>1 DEF ChainInv, HalfFee, Fee
<1>4. Goes
  BY <1>1 DEF Goes, Forward, Endings
<1> QED BY <1>1, <1>2, <1>3, <1>4

LEMMA DisputeGoes ==
    ASSUME JobTypeOK, ChainInv, DisputeRejection
    PROVE  JobTypeOK' /\ ChainInv' /\ Goes /\ disputed' /\ now' = now
<1>1. /\ status = "Submitted" /\ rejectedAt # 0 /\ disputed' = TRUE
      /\ UNCHANGED <<now, status, budget, submittedAt, rejectedAt, balance, holdUntil>>
  BY DEF DisputeRejection, DisputeReady
<1>2. JobTypeOK'
  BY <1>1 DEF JobTypeOK
<1>3. ChainInv'
  BY <1>1 DEF ChainInv, HalfFee, Fee
<1>4. Goes
  BY <1>1 DEF Goes, Forward, Endings
<1> QED BY <1>1, <1>2, <1>3, <1>4

\* A step that leaves the job's status, times and dispute alone.
LEMMA StillGoes == ASSUME UNCHANGED <<status, disputed, submittedAt, rejectedAt>> PROVE Goes
  BY DEF Goes, Forward

LEMMA OpeningGoes ==
    ASSUME JobTypeOK, ChainInv, Create \/ (\E b \in Budgets : SetBudget(b)) \/ Fund \/ Hold
    PROVE  JobTypeOK' /\ ChainInv' /\ Goes /\ now' = now
<1>1. CASE Create
  <2>1. status = "none" /\ status' = "Open" /\ UNCHANGED <<now, budget, submittedAt, rejectedAt, disputed, balance, holdUntil>>
    BY <1>1 DEF Create
  <2> QED BY <2>1 DEF JobTypeOK, ChainInv, Goes, Forward, Endings
<1>2. ASSUME NEW b \in Budgets, SetBudget(b) PROVE JobTypeOK' /\ ChainInv' /\ Goes /\ now' = now
  <2>1. status = "Open" /\ budget' = b /\ UNCHANGED <<now, status, submittedAt, rejectedAt, disputed, balance, holdUntil>>
    BY <1>2 DEF SetBudget
  <2> QED BY <2>1 DEF JobTypeOK, ChainInv, Goes, Forward, Endings
<1>3. CASE Fund
  <2>1. /\ status = "Open" /\ status' = "Funded" /\ balance' = budget + HalfFee(budget)
        /\ UNCHANGED <<now, budget, submittedAt, rejectedAt, disputed, holdUntil>>
    BY <1>3 DEF Fund
  <2>2. balance' \in Nat
    BY <2>1, Budgeted
  <2>3. JobTypeOK'
    BY <2>1, <2>2 DEF JobTypeOK
  <2>4. ChainInv'
    BY <2>1 DEF ChainInv, HalfFee, Fee
  <2> QED BY <2>1, <2>3, <2>4 DEF Goes, Forward, Endings
<1>4. CASE Hold
  <2>1. holdUntil' = now + HoldStep /\ UNCHANGED <<now, status, budget, submittedAt, rejectedAt, disputed, balance>>
    BY <1>4 DEF Hold
  <2>2. holdUntil' \in Nat
    BY <2>1 DEF JobTypeOK
  <2>3. JobTypeOK'
    BY <2>1, <2>2 DEF JobTypeOK
  <2>4. ChainInv'
    BY <2>1 DEF ChainInv, HalfFee, Fee
  <2> QED BY <2>1, <2>3, <2>4, StillGoes
<1> QED BY <1>1, <1>2, <1>3, <1>4

LEMMA OthersGo ==
    ASSUME JobTypeOK, ChainInv, Others
    PROVE  JobTypeOK' /\ ChainInv' /\ Goes /\ now' = now
<1>1. CASE RejectEarly
  <2>1. CASE status = "Funded" /\ Settle(0, "Rejected")
    BY <2>1, SettleGoes DEF Endings, Settle
  <2>2. CASE status = "Open" /\ status' = "Rejected"
             /\ UNCHANGED <<now, budget, submittedAt, rejectedAt, disputed, balance, holdUntil>>
    BY <2>2 DEF JobTypeOK, ChainInv, Goes, Forward, Endings
  <2> QED BY <1>1, <2>1, <2>2 DEF RejectEarly
<1>2. CASE Release \/ ConfirmRejection \/ ClaimRefund
  BY <1>2, SettleGoes
     DEF Release, ReleaseReady, ConfirmRejection, ConfirmReady, ClaimRefund, Endings, Settle
<1>3. ASSUME NEW bps \in Rulings, Rule(bps) PROVE JobTypeOK' /\ ChainInv' /\ Goes /\ now' = now
  <2>1. status = "Submitted"
    BY <1>3 DEF Rule, ChainInv
  <2>2. PICK st \in Endings : Settle((budget * bps) \div BPS, st)
    BY <1>3 DEF Rule, Endings
  <2> QED BY <2>1, <2>2, SettleGoes DEF Settle
<1> QED BY <1>1, <1>2, <1>3, OpeningGoes DEF Others

-----------------------------------------------------------------------------
(***************************************************************************)
(* Rows and calls.                                                         *)
(***************************************************************************)
\* What a row says stays true as the chain goes forward.
LEMMA TruthStays ==
    ASSUME NEW row, NEW st, NEW dis, NEW sub, NEW rej, NEW st2, NEW dis2, NEW sub2, NEW rej2,
           Truth(row, st, dis, sub, rej), Forward(st, dis, sub, rej, st2, dis2, sub2, rej2)
    PROVE  Truth(row, st2, dis2, sub2, rej2)
  BY DEF Truth, Forward, Endings

LEMMA WroteStays ==
    ASSUME NEW op, NEW from, NEW t \in Nat, NEW t2 \in Nat, t <= t2,
           NEW st, NEW dis, NEW sub, NEW rej \in Nat, NEW st2, NEW dis2, NEW sub2, NEW rej2 \in Nat,
           WroteFor(op, from, st, dis, sub, rej, t), Forward(st, dis, sub, rej, st2, dis2, sub2, rej2)
    PROVE  WroteFor(op, from, st2, dis2, sub2, rej2, t2)
  BY DEF WroteFor, Forward, Endings

LEMMA Moved ==
    ASSUME TypeOK, NEW w \in Workers, NEW c \in Calls, Move(w, c)
    PROVE  call' \in [Workers -> Calls] /\ call'[w] = c /\ \A v \in Workers \ {w} : call'[v] = call[v]
  BY DEF TypeOK, Move, Calls

LEMMA IdleTyped == Idle \in Calls /\ Idle.pc = "none" /\ \A st, dis, sub, rej : Truth(Idle.seen, st, dis, sub, rej)
  BY DEF Idle, Calls, Rows, Truth, Listed, Over

\* The calls that do not move keep what they hold.
LEMMA OtherCalls ==
    ASSUME JobsInv, JobTypeOK', Goes, now' >= now, NEW w \in Workers, call'[w] = call[w]
    PROVE  CallTrue(w)'
<1>1. CallTrue(w) /\ now \in Nat /\ now' \in Nat /\ rejectedAt \in Nat /\ rejectedAt' \in Nat
  BY DEF JobsInv, TypeOK, JobTypeOK
<1>2. Truth(call[w].seen, status', disputed', submittedAt', rejectedAt')
      /\ Truth(call[w].goal, status', disputed', submittedAt', rejectedAt')
  BY <1>1, TruthStays DEF CallTrue, True, Goes
<1>3. ASSUME call[w].pc = "write"
      PROVE  WroteFor(Op(w), call[w].seen.status, status', disputed', submittedAt', rejectedAt', now')
  <2>1. WroteFor(Op(w), call[w].seen.status, status, disputed, submittedAt, rejectedAt, now)
    BY <1>1, <1>3 DEF CallTrue
  <2>2. Forward(status, disputed, submittedAt, rejectedAt, status', disputed', submittedAt', rejectedAt')
    BY DEF Goes
  <2> QED BY <1>1, <2>1, <2>2, WroteStays
<1> QED BY <1>1, <1>2, <1>3 DEF CallTrue, True, Op

LEMMA RecordStays ==
    ASSUME JobsInv, Goes, record' = record
    PROVE  True(record)'
<1>1. Truth(record, status', disputed', submittedAt', rejectedAt')
  BY TruthStays DEF JobsInv, True, Goes
<1> QED BY <1>1 DEF True

\* The chain moves and the backend does not.
LEMMA ChainMoves ==
    ASSUME JobsInv, JobTypeOK', ChainInv', Goes, now' >= now, UNCHANGED <<record, call>>,
           token' \in [Tokens -> {"fresh", "live", "used"}], faults' = faults
    PROVE  JobsInv'
<1>1. TypeOK'
  BY DEF JobsInv, TypeOK
<1>2. True(record)'
  BY RecordStays
<1>3. \A w \in Workers : CallTrue(w)'
  BY OtherCalls
<1> QED BY <1>1, <1>2, <1>3 DEF JobsInv

LEMMA ChainStands ==
    ASSUME JobsInv, ChainSame
    PROVE  /\ JobTypeOK' /\ ChainInv' /\ Goes /\ now' >= now
           /\ UNCHANGED <<now, status, disputed, submittedAt, rejectedAt>>
<1>1. UNCHANGED <<now, status, budget, submittedAt, rejectedAt, disputed, balance, holdUntil>>
  BY DEF ChainSame, jobVars
<1>2. JobTypeOK /\ ChainInv
  BY DEF JobsInv, TypeOK
<1>3. JobTypeOK' /\ ChainInv'
  BY <1>1, <1>2 DEF JobTypeOK, ChainInv, HalfFee, Fee
<1>4. now' >= now
  BY <1>1, <1>2 DEF JobTypeOK
<1> QED BY <1>1, <1>3, <1>4, StillGoes

\* One call moves, to something true.
LEMMA CallMoves ==
    ASSUME JobsInv, JobTypeOK', ChainInv', Goes, now' >= now,
           NEW w \in Workers, NEW c \in Calls, Move(w, c),
           Truth(c.seen, status', disputed', submittedAt', rejectedAt'),
           Truth(c.goal, status', disputed', submittedAt', rejectedAt'),
           c.pc = "write" => WroteFor(c.op, c.seen.status, status', disputed', submittedAt', rejectedAt', now'),
           c.pc = "fund" => c.op = "fund",
           record' \in Rows, True(record)',
           token' \in [Tokens -> {"fresh", "live", "used"}], faults' \in 0..MaxFaults
    PROVE  JobsInv'
<1>1. call' \in [Workers -> Calls] /\ call'[w] = c /\ \A v \in Workers \ {w} : call'[v] = call[v]
  BY Moved DEF JobsInv
<1>2. TypeOK'
  BY <1>1 DEF TypeOK, Calls
<1>3. CallTrue(w)'
  BY <1>1 DEF CallTrue, True, Op
<1>4. \A v \in Workers \ {w} : CallTrue(v)'
  BY <1>1, OtherCalls
<1> QED BY <1>2, <1>3, <1>4 DEF JobsInv

LEMMA Typed ==
    ASSUME JobsInv, NEW w \in Workers
    PROVE  /\ call[w] \in Calls /\ call[w].seen \in Rows /\ call[w].goal \in Rows
           /\ record \in Rows /\ token \in [Tokens -> {"fresh", "live", "used"}]
           /\ faults \in 0..MaxFaults /\ now \in Nat \ {0} /\ rejectedAt \in Nat
           /\ True(record) /\ True(call[w].seen) /\ True(call[w].goal) /\ CallTrue(w)
  BY DEF JobsInv, TypeOK, JobTypeOK, CallTrue, Calls

\* A call ends, and the record may have been written.
LEMMA ReturnKeeps ==
    ASSUME JobsInv, JobTypeOK', ChainInv', Goes, now' >= now, NEW w \in Workers, Return(w),
           record' \in Rows, True(record)',
           token' \in [Tokens -> {"fresh", "live", "used"}], faults' \in 0..MaxFaults
    PROVE  JobsInv'
<1>1. Idle \in Calls /\ Move(w, Idle) /\ Idle.pc = "none" /\ Idle.goal = Idle.seen
  BY IdleTyped DEF Return, Idle
<1>2. Truth(Idle.seen, status', disputed', submittedAt', rejectedAt')
  BY IdleTyped
<1> QED BY <1>1, <1>2, CallMoves

\* sync's step is true of the chain it read.
LEMMA SyncedTrue ==
    ASSUME JobsInv, NEW row \in Rows, True(row)
    PROVE  Synced(row) \in Rows /\ True(Synced(row))
<1>1. row.status \in {"quoted", "disputed"} \cup Listed \cup Over /\ row.at \in Nat /\ rejectedAt \in Nat
  BY DEF Rows, JobsInv, TypeOK, JobTypeOK
<1>2. ASSUME NEW st \in {"quoted", "disputed"} \cup Listed \cup Over, NEW at \in Nat
      PROVE  Row(st, at) \in Rows /\ Row(st, at).status = st /\ Row(st, at).at = at
  BY DEF Row, Rows
<1>3. Synced(row) \in Rows
  BY <1>1, <1>2 DEF Synced, Listed, Over
<1>4. ChainInv
  BY DEF JobsInv
<1>5. True(Synced(row))
  BY <1>1, <1>2, <1>4 DEF Synced, True, Truth, ChainInv, Endings, Listed, Over
<1> QED BY <1>3, <1>5

\* A call goes on with a row that is true, or ends.
LEMMA DecideKeeps ==
    ASSUME JobsInv, ChainSame, NEW w \in Workers, NEW row \in Rows, True(row), Decide(w, row),
           record' \in Rows, True(record)', faults' = faults
    PROVE  JobsInv'
<1>1. /\ JobTypeOK' /\ ChainInv' /\ Goes /\ now' >= now
      /\ UNCHANGED <<now, status, disputed, submittedAt, rejectedAt>>
  BY ChainStands
<1>2. CASE Fits(w, row)
  <2> DEFINE seen == IF Op(w) = "deliver" THEN record ELSE row
             c == [call[w] EXCEPT !.pc = IF @ = "fund" THEN "write" ELSE "send",
                                  !.seen = seen, !.goal = Idle.goal]
  <2>1. Move(w, c) /\ token' = [t \in Tokens |-> IF t = call[w].link THEN "used" ELSE token[t]]
    BY <1>2 DEF Decide
  <2>2. seen \in Rows /\ True(seen)
    BY Typed
  <2>3. Idle.goal \in Rows /\ Idle.goal = Idle.seen
    BY DEF Idle, Rows
  <2> HIDE DEF seen
  <2>4. /\ c \in Calls /\ c.seen = seen /\ c.goal = Idle.goal /\ c.op = Op(w)
        /\ c.pc = IF call[w].pc = "fund" THEN "write" ELSE "send"
    BY <2>2, <2>3, Typed DEF Calls, Op
  <2>5. token' \in [Tokens -> {"fresh", "live", "used"}]
    BY <2>1, Typed
  <2>6. c.pc = "write" => Op(w) = "fund"
    BY <2>4, Typed DEF CallTrue
  <2>7. /\ Truth(c.seen, status', disputed', submittedAt', rejectedAt')
        /\ Truth(c.goal, status', disputed', submittedAt', rejectedAt')
    BY <1>1, <2>2, <2>3, <2>4, IdleTyped DEF True
  <2>8. c.pc = "write" => WroteFor(c.op, c.seen.status, status', disputed', submittedAt', rejectedAt', now')
    BY <2>4, <2>6 DEF WroteFor
  <2>9. faults' \in 0..MaxFaults /\ c.pc # "fund"
    BY <2>4, Typed
  <2> HIDE DEF c
  <2> QED BY <1>1, <2>1, <2>4, <2>5, <2>7, <2>8, <2>9, CallMoves
<1>3. CASE ~Fits(w, row)
  <2>1. Return(w) /\ UNCHANGED token
    BY <1>3 DEF Decide
  <2>2. token' \in [Tokens -> {"fresh", "live", "used"}] /\ faults' \in 0..MaxFaults
    BY <2>1, Typed
  <2> QED BY <1>1, <2>1, <2>2, ReturnKeeps
<1> QED BY <1>2, <1>3

LEMMA BeginKeeps ==
    ASSUME JobsInv, NEW w \in Workers, NEW op \in Ops, NEW link \in Tokens \cup {NoLink}, Begin(w, op, link)
    PROVE  JobsInv'
<1> DEFINE pc == IF op = "fund" THEN "fund" ELSE "sync"
           c == [Idle EXCEPT !.op = op, !.pc = pc, !.seen = record, !.link = link]
<1>1. Move(w, c) /\ ChainSame /\ UNCHANGED <<record, token, faults>>
  BY DEF Begin
<1>2. /\ JobTypeOK' /\ ChainInv' /\ Goes /\ now' >= now
      /\ UNCHANGED <<now, status, disputed, submittedAt, rejectedAt>>
  BY <1>1, ChainStands
<1>3. /\ c \in Calls /\ c.seen = record /\ c.goal = Idle.seen /\ c.op = op
      /\ c.pc = pc /\ (pc = "fund" => op = "fund") /\ pc # "write"
  <2> DEFINE c1 == [Idle EXCEPT !.op = op]
             c2 == [c1 EXCEPT !.pc = pc]
             c3 == [c2 EXCEPT !.seen = record]
             c4 == [c3 EXCEPT !.link = link]
  <2>1. pc \in {"fund", "sync"} /\ (pc = "fund" => op = "fund") /\ pc # "write"
    OBVIOUS
  <2>2. c = c4
    OBVIOUS
  <2>3. Idle \in Calls /\ Idle.goal = Idle.seen
    BY IdleTyped DEF Idle
  <2> HIDE DEF pc, c
  <2>4. c1 \in Calls /\ c1.op = op /\ c1.goal = Idle.seen
    BY <2>3 DEF Calls
  <2> HIDE DEF c1
  <2>5. c2 \in Calls /\ c2.op = op /\ c2.goal = Idle.seen /\ c2.pc = pc
    BY <2>1, <2>4 DEF Calls
  <2> HIDE DEF c2
  <2>6. c3 \in Calls /\ c3.op = op /\ c3.goal = Idle.seen /\ c3.pc = pc /\ c3.seen = record
    BY <2>5, Typed DEF Calls
  <2> HIDE DEF c3
  <2>7. c4 \in Calls /\ c4.op = op /\ c4.goal = Idle.seen /\ c4.pc = pc /\ c4.seen = record
    BY <2>6 DEF Calls
  <2> HIDE DEF c4
  <2> QED BY <2>1, <2>2, <2>7
<1>4. /\ Truth(c.seen, status', disputed', submittedAt', rejectedAt')
      /\ Truth(c.goal, status', disputed', submittedAt', rejectedAt')
  BY <1>2, <1>3, Typed, IdleTyped DEF True
<1>5. record' \in Rows /\ True(record)' /\ token' \in [Tokens -> {"fresh", "live", "used"}] /\ faults' \in 0..MaxFaults
  <2>1. True(record)'
    BY <1>1, <1>2, RecordStays
  <2> QED BY <1>1, <2>1, Typed
<1>6. c.pc # "write" /\ (c.pc = "fund" => c.op = "fund")
  BY <1>3
<1> HIDE DEF c
<1> QED BY <1>1, <1>2, <1>3, <1>4, <1>5, <1>6, CallMoves

LEMMA ReadKeeps ==
    ASSUME JobsInv, NEW w \in Workers, ReadChain(w) \/ PatchSynced(w) \/ FundCall(w)
    PROVE  JobsInv'
<1>1. ChainSame /\ faults' = faults
  BY DEF ReadChain, PatchSynced, FundCall
<1>2. /\ JobTypeOK' /\ ChainInv' /\ Goes /\ now' >= now
      /\ UNCHANGED <<now, status, disputed, submittedAt, rejectedAt>>
  BY <1>1, ChainStands
<1>3. CASE record' = record /\ Decide(w, call[w].seen)
  <2>1. record' \in Rows /\ True(record)'
    BY <1>2, <1>3, RecordStays, Typed
  <2> QED BY <1>1, <1>3, <2>1, DecideKeeps, Typed
<1>4. CASE record' = call[w].goal /\ Decide(w, call[w].goal)
  <2>1. record' \in Rows
    BY <1>4, Typed
  <2>2. Truth(record', status', disputed', submittedAt', rejectedAt')
    BY <1>2, <1>4, Typed DEF True
  <2>3. True(record)'
    BY <2>2 DEF True
  <2> QED BY <1>1, <1>4, <2>1, <2>3, DecideKeeps, Typed
<1>5. CASE /\ Move(w, [call[w] EXCEPT !.pc = "patch", !.goal = Synced(call[w].seen)])
           /\ UNCHANGED <<record, token>>
  <2> DEFINE c == [call[w] EXCEPT !.pc = "patch", !.goal = Synced(call[w].seen)]
  <2>1. Synced(call[w].seen) \in Rows /\ True(Synced(call[w].seen))
    BY Typed, SyncedTrue
  <2>2. c \in Calls /\ c.pc = "patch" /\ c.seen = call[w].seen /\ c.goal = Synced(call[w].seen)
    <3> DEFINE g == Synced(call[w].seen)
    <3>1. g \in Rows
      BY <2>1
    <3> HIDE DEF g
    <3>2. [call[w] EXCEPT !.pc = "patch", !.goal = g] \in Calls
          /\ [call[w] EXCEPT !.pc = "patch", !.goal = g].pc = "patch"
          /\ [call[w] EXCEPT !.pc = "patch", !.goal = g].seen = call[w].seen
          /\ [call[w] EXCEPT !.pc = "patch", !.goal = g].goal = g
      BY <3>1, Typed DEF Calls
    <3> QED BY <3>2 DEF g
  <2> HIDE DEF c
  <2>3. /\ Truth(c.seen, status', disputed', submittedAt', rejectedAt')
        /\ Truth(c.goal, status', disputed', submittedAt', rejectedAt')
    BY <1>2, <2>1, <2>2, Typed DEF True
  <2>4. record' \in Rows /\ token' \in [Tokens -> {"fresh", "live", "used"}] /\ faults' \in 0..MaxFaults
    BY <1>1, <1>5, Typed
  <2>5. True(record)'
    BY <1>2, <1>5, RecordStays
  <2>6. Move(w, c)
    BY <1>5 DEF c
  <2> QED BY <1>2, <2>2, <2>3, <2>4, <2>5, <2>6, CallMoves
<1> QED BY <1>3, <1>4, <1>5 DEF ReadChain, PatchSynced, FundCall

\* A transaction the chain takes leads the call to its writing; one it refuses ends it.
LEMMA SendKeeps ==
    ASSUME JobsInv, NEW w \in Workers, Send(w)
    PROVE  JobsInv'
<1> DEFINE c == [call[w] EXCEPT !.pc = "write"]
<1>1. /\ JobTypeOK /\ ChainInv /\ UNCHANGED <<record, token, faults>>
      /\ call[w] \in Calls /\ Op(w) = call[w].op
  BY Typed DEF Send, JobsInv, TypeOK, Op
<1>2. c \in Calls /\ c.pc = "write" /\ c.op = Op(w) /\ c.seen = call[w].seen /\ c.goal = call[w].goal
  BY <1>1 DEF Calls
<1> HIDE DEF c
<1>3. ASSUME JobTypeOK', ChainInv', Goes, now' = now, Move(w, c),
             WroteFor(Op(w), call[w].seen.status, status', disputed', submittedAt', rejectedAt', now')
      PROVE  JobsInv'
  <2>1. now' >= now
    BY <1>1, <1>3 DEF JobTypeOK
  <2>2. True(record)'
    BY <1>1, <1>3, RecordStays
  <2>3. /\ Truth(c.seen, status', disputed', submittedAt', rejectedAt')
        /\ Truth(c.goal, status', disputed', submittedAt', rejectedAt')
    BY <1>2, <1>3, Typed, TruthStays DEF True, Goes
  <2>4. record' \in Rows /\ token' \in [Tokens -> {"fresh", "live", "used"}] /\ faults' \in 0..MaxFaults
    BY <1>1, Typed
  <2>5. WroteFor(c.op, c.seen.status, status', disputed', submittedAt', rejectedAt', now')
    BY <1>2, <1>3
  <2>6. c.pc # "fund"
    BY <1>2
  <2> QED BY <1>2, <1>3, <2>1, <2>2, <2>3, <2>4, <2>5, <2>6, CallMoves
<1>4. ASSUME Return(w), ChainSame PROVE JobsInv'
  <2>1. /\ JobTypeOK' /\ ChainInv' /\ Goes /\ now' >= now
    BY <1>4, ChainStands
  <2>2. record' \in Rows /\ token' \in [Tokens -> {"fresh", "live", "used"}] /\ faults' \in 0..MaxFaults
    BY <1>1, Typed
  <2>3. True(record)'
    BY <1>1, <2>1, RecordStays
  <2> QED BY <1>4, <2>1, <2>2, <2>3, ReturnKeeps
<1>5. ASSUME Op(w) = "happy", CompleteReady, Complete, Move(w, c) PROVE JobsInv'
  <2>1. JobTypeOK' /\ ChainInv' /\ Goes /\ status' = "Completed" /\ now' = now
    BY <1>1, <1>5, SettleGoes DEF Complete, CompleteReady, Settle, Endings
  <2>2. WroteFor(Op(w), call[w].seen.status, status', disputed', submittedAt', rejectedAt', now')
    BY <1>5, <2>1 DEF WroteFor
  <2> QED BY <1>3, <1>5, <2>1, <2>2
<1>6. ASSUME Op(w) = "unhappy", Reject, Move(w, c) PROVE JobsInv'
  <2>1. JobTypeOK' /\ ChainInv' /\ Goes /\ rejectedAt' # 0 /\ rejectedAt' <= now /\ now' = now
    BY <1>1, <1>6, RejectGoes
  <2>2. WroteFor(Op(w), call[w].seen.status, status', disputed', submittedAt', rejectedAt', now')
    BY <1>6, <2>1 DEF WroteFor
  <2> QED BY <1>3, <1>6, <2>1, <2>2
<1>7. ASSUME Op(w) = "deliver", Submit, Move(w, c) PROVE JobsInv'
  <2>1. JobTypeOK' /\ ChainInv' /\ Goes /\ submittedAt' # 0 /\ now' = now
    BY <1>1, <1>7, SubmitGoes
  <2>2. WroteFor(Op(w), call[w].seen.status, status', disputed', submittedAt', rejectedAt', now')
    BY <1>7, <2>1 DEF WroteFor
  <2> QED BY <1>3, <1>7, <2>1, <2>2
<1>8. ASSUME Op(w) = "dispute", DisputeRejection, Move(w, c) PROVE JobsInv'
  <2>1. JobTypeOK' /\ ChainInv' /\ Goes /\ disputed' /\ now' = now
    BY <1>1, <1>8, DisputeGoes
  <2>2. WroteFor(Op(w), call[w].seen.status, status', disputed', submittedAt', rejectedAt', now')
    BY <1>8, <2>1 DEF WroteFor
  <2> QED BY <1>3, <1>8, <2>1, <2>2
<1>9. ASSUME Op(w) = "tick", call[w].seen.status = "submitted", Release, Move(w, c) PROVE JobsInv'
  <2>1. JobTypeOK' /\ ChainInv' /\ Goes /\ status' = "Completed" /\ now' = now
    BY <1>1, <1>9, SettleGoes DEF Release, ReleaseReady, Settle, Endings
  <2>2. WroteFor(Op(w), call[w].seen.status, status', disputed', submittedAt', rejectedAt', now')
    BY <1>9, <2>1 DEF WroteFor
  <2> QED BY <1>3, <1>9, <2>1, <2>2
<1>10. ASSUME Op(w) = "tick", call[w].seen.status = "rejected", ConfirmRejection, Move(w, c) PROVE JobsInv'
  <2>1. JobTypeOK' /\ ChainInv' /\ Goes /\ status' = "Rejected" /\ now' = now
    BY <1>1, <1>10, SettleGoes DEF ConfirmRejection, ConfirmReady, Settle, Endings
  <2>2. WroteFor(Op(w), call[w].seen.status, status', disputed', submittedAt', rejectedAt', now')
    BY <1>10, <2>1 DEF WroteFor
  <2> QED BY <1>3, <1>10, <2>1, <2>2
<1> QED BY <1>4, <1>5, <1>6, <1>7, <1>8, <1>9, <1>10 DEF Send, Tries, c

\* What a call writes after its transaction is true of the chain.
LEMMA WriteKeeps ==
    ASSUME JobsInv, NEW w \in Workers, Write(w)
    PROVE  JobsInv'
<1>1. At(w, "write") /\ Return(w) /\ ChainSame /\ UNCHANGED <<token, faults>>
      /\ record' \in {Written(w), record}
  BY DEF Write
<1>2. /\ JobTypeOK' /\ ChainInv' /\ Goes /\ now' >= now
      /\ UNCHANGED <<now, status, disputed, submittedAt, rejectedAt>>
  BY <1>1, ChainStands
<1>3. WroteFor(Op(w), call[w].seen.status, status, disputed, submittedAt, rejectedAt, now)
  BY <1>1, Typed DEF CallTrue, At
<1>4. ASSUME NEW st \in {"quoted", "disputed"} \cup Listed \cup Over, NEW at \in Nat
      PROVE  Row(st, at) \in Rows /\ Row(st, at).status = st /\ Row(st, at).at = at
  BY DEF Row, Rows
<1>5. call[w].seen.at \in Nat /\ now \in Nat /\ rejectedAt \in Nat /\ Op(w) \in Ops \cup {"none"}
  BY Typed DEF Rows, Calls, Op
<1>6. Written(w) \in Rows /\ True(Written(w))
  <2>1. CASE Op(w) = "fund"
    <3>1. Written(w) = Row("created", 0)
      BY <2>1 DEF Written
    <3> QED BY <1>4, <3>1 DEF True, Truth, Listed
  <2>2. CASE Op(w) = "deliver"
    <3>1. Written(w) = Row("submitted", 0)
      BY <2>2 DEF Written
    <3> QED BY <1>3, <1>4, <2>2, <3>1 DEF True, Truth, Listed, WroteFor
  <2>3. CASE Op(w) = "unhappy"
    <3>1. Written(w) = Row("rejected", now)
      BY <2>3 DEF Written
    <3> QED BY <1>3, <1>4, <1>5, <2>3, <3>1 DEF True, Truth, Listed, WroteFor
  <2>4. CASE Op(w) = "dispute"
    <3>1. Written(w) = Row("disputed", call[w].seen.at)
      BY <2>4 DEF Written
    <3> QED BY <1>3, <1>4, <1>5, <2>4, <3>1 DEF True, Truth, WroteFor
  <2>5. CASE Op(w) = "tick" /\ call[w].seen.status = "rejected"
    <3>1. Written(w) = Row("refunded", call[w].seen.at)
      BY <2>5 DEF Written
    <3> QED BY <1>3, <1>4, <1>5, <2>5, <3>1 DEF True, Truth, Over, WroteFor
  <2>6. CASE Op(w) = "happy" \/ (Op(w) = "tick" /\ call[w].seen.status # "rejected")
    <3>1. Written(w) = Row("completed", 0)
      BY <2>6 DEF Written
    <3>2. status = "Completed"
      BY <1>3, <2>6 DEF WroteFor
    <3> QED BY <1>4, <3>1, <3>2 DEF True, Truth, Over
  <2>7. Op(w) # "status" /\ Op(w) # "none"
    BY <1>3 DEF WroteFor
  <2> QED BY <1>5, <2>1, <2>2, <2>3, <2>4, <2>5, <2>6, <2>7 DEF Ops
<1>7. record' \in Rows /\ True(record)'
  <2>1. record' \in Rows /\ True(record')
    BY <1>1, <1>6, Typed
  <2>2. Truth(record', status', disputed', submittedAt', rejectedAt')
    BY <1>2, <2>1 DEF True
  <2> QED BY <2>1, <2>2 DEF True
<1>8. token' \in [Tokens -> {"fresh", "live", "used"}] /\ faults' \in 0..MaxFaults
  BY <1>1, Typed
<1> QED BY <1>1, <1>2, <1>7, <1>8, ReturnKeeps

-----------------------------------------------------------------------------
LEMMA InitHolds == Init => JobsInv
<1> SUFFICES ASSUME Init PROVE JobsInv
  OBVIOUS
<1>1. JobTypeOK /\ ChainInv
  <2>1. /\ now = 1 /\ status = "none" /\ budget = 0 /\ submittedAt = 0 /\ rejectedAt = 0
        /\ ~disputed /\ disputed \in BOOLEAN /\ balance = 0 /\ holdUntil = 0
    BY DEF Init, JobInit
  <2> QED BY <2>1 DEF JobTypeOK, ChainInv
<1>2. record = Idle.seen /\ Idle.goal = Idle.seen /\ Idle.seen \in Rows
  BY IdleTyped DEF Init, Row, Idle, Calls
<1>3. \A w \in Workers : call[w] = Idle
  BY DEF Init
<1>4. TypeOK
  BY <1>1, <1>2, IdleTyped DEF Init, TypeOK, Calls
<1>5. True(record)
  BY <1>2, IdleTyped DEF True
<1>6. \A w \in Workers : CallTrue(w)
  BY <1>2, <1>3, IdleTyped DEF CallTrue, True
<1> QED BY <1>1, <1>4, <1>5, <1>6 DEF JobsInv

LEMMA StepKeeps == ASSUME JobsInv, [Next]_vars PROVE JobsInv'
<1>1. /\ JobTypeOK /\ ChainInv /\ token \in [Tokens -> {"fresh", "live", "used"}] /\ now \in Nat
      /\ record \in Rows /\ faults \in 0..MaxFaults
  BY DEF JobsInv, TypeOK, JobTypeOK
<1>2. CASE Elsewhere
  <2>1. JobTypeOK' /\ ChainInv' /\ Goes /\ now' = now
    BY <1>1, <1>2, OthersGo DEF Elsewhere
  <2>2. now' >= now
    BY <1>1, <2>1
  <2> QED BY <1>1, <1>2, <2>1, <2>2, ChainMoves DEF Elsewhere
<1>3. ASSUME NEW t \in Tokens, RequestRelease(t) PROVE JobsInv'
  <2>1. ChainSame /\ UNCHANGED <<record, call, faults>> /\ token' \in [Tokens -> {"fresh", "live", "used"}]
    BY <1>1, <1>3 DEF RequestRelease
  <2> QED BY <2>1, ChainStands, ChainMoves
<1>4. ASSUME NEW w \in Workers, Fault(w) PROVE JobsInv'
  <2>1. Return(w) /\ ChainSame /\ UNCHANGED <<record, token>> /\ faults' \in 0..MaxFaults
    BY <1>1, <1>4 DEF Fault
  <2>2. /\ JobTypeOK' /\ ChainInv' /\ Goes /\ now' >= now
    BY <2>1, ChainStands
  <2>3. True(record)'
    BY <2>1, <2>2, RecordStays
  <2> QED BY <1>1, <2>1, <2>2, <2>3, ReturnKeeps
<1>5. CASE Clock
  <2>1. now' = now + 1 /\ UNCHANGED <<status, budget, submittedAt, rejectedAt, disputed, balance, holdUntil>>
        /\ UNCHANGED <<record, token, call, faults>>
    BY <1>5 DEF Clock, jobVars
  <2>2. JobTypeOK' /\ now' >= now
    BY <1>1, <2>1 DEF JobTypeOK
  <2>3. ChainInv'
    BY <1>1, <2>1 DEF ChainInv, HalfFee, Fee, JobTypeOK
  <2> QED BY <1>1, <2>1, <2>2, <2>3, StillGoes, ChainMoves
<1>6. ASSUME NEW w \in Workers,
             \/ BeginTick(w)
             \/ \E op \in {"fund", "status", "deliver", "dispute"} : Begin(w, op, NoLink)
             \/ \E t \in Tokens, op \in {"happy", "unhappy"} : BeginAnswer(w, t, op)
      PROVE  JobsInv'
  <2>1. PICK op \in Ops, link \in Tokens \cup {NoLink} : Begin(w, op, link)
    BY <1>6 DEF BeginTick, BeginAnswer, Ops
  <2> QED BY <2>1, BeginKeeps
<1>7. CASE UNCHANGED vars
  <2>1. ChainSame /\ UNCHANGED <<record, call, token, faults>>
    BY <1>7 DEF vars, ChainSame
  <2> QED BY <1>1, <2>1, ChainStands, ChainMoves
<1> QED BY <1>2, <1>3, <1>4, <1>5, <1>6, <1>7, ReadKeeps, SendKeeps, WriteKeeps DEF Next

\* Every row a call holds stays true of the chain, in every reachable state.
LEMMA JobsAlwaysTrue == Spec => []JobsInv
BY InitHolds, StepKeeps, PTL DEF Spec

\* Every field keeps its type, and the account covers any share the job is settled at.
THEOREM AccountsKept == Spec => []AccountKept
<1>1. ASSUME JobsInv PROVE AccountKept
  <2>1. JobTypeOK /\ budget \in Nat
    BY <1>1, Budgeted DEF JobsInv, TypeOK
  <2>2. balance # 0 => balance = budget + HalfFee(budget)
    BY <1>1 DEF JobsInv, ChainInv
  <2>3. SettlesInFull
    <3> SUFFICES ASSUME balance # 0, NEW bps \in 0..BPS
                 PROVE  ToProvider((budget * bps) \div BPS) + Fee((budget * bps) \div BPS) <= balance
      BY DEF SettlesInFull
    <3>1. (budget * bps) \div BPS \in 0..budget
      BY <2>1, ShareOfBudget
    <3> HIDE DEF SettlesInFull
    <3> QED BY <2>1, <2>2, <3>1, SettlementFits
  <2> QED BY <2>1, <2>3 DEF AccountKept
<1> QED BY <1>1, JobsAlwaysTrue, PTL

\* The record never shows an ending, a rejection, a dispute or a delivery the chain has not seen.
THEOREM RecordsAreTrue == Spec => []RecordIsTrue
<1>1. JobsInv => RecordIsTrue
  BY DEF JobsInv, True, Truth, RecordIsTrue, Ended, Endings
<1> QED BY <1>1, JobsAlwaysTrue, PTL
=============================================================================
