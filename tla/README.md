# Karwan: TLA+ models and proofs

Karwan is a marketplace whose deals settle on chain. `src/contracts/src/suite` holds the
contracts that hold the money; `src/backend` runs the agents, timers and watchers that drive
them; `src/frontend`, `src/cre` and the workers surround both. This directory models the parts
whose correctness rests on orders of events no test enumerates: first the contracts, then the
backend's durable work on top of them.

## 1. Inventory

### Contracts in use (`src/contracts/src/suite`)

| part | state | operations | what makes it correct |
|---|---|---|---|
| settlement base (`KarwanSettlementBase`, `SettlementLib`) | per deal: payer, payees, funded, balance, fee paid, promised, clocks, assignments; per asset: held, promised, parkable, parked, owed | open, addPayee, fund, pledge, payTo, payFee, close, withdrawOwed, assignPayout, rebalanceYield, hold, longstopSplit, recordOutcome, retryRecord | the escrow always holds what it owes; nobody but a deal's recipients gains; caps hold; every exit stays open |
| hub (`KarwanHub`) | families, caps, assets, guardian, pools | pause, resume, retire, revoke, setAsset, setCaps | a switch stops what enters and never what leaves |
| agreement family (`KarwanAgreementEscrow` and `agreement/`) | terms, state, tranche counters, delivery clocks, deadline, split offer | fund, payPart, cancelMissed, accept, markDelivered, startReview, requestMoreTime, release, claim, reclaim, extensions, splits, disputes | each side keeps the time and money the terms promise; a deal always ends |
| dispute library (`DisputeLib`) | per deal: opener, proposal, escalation | open, propose, escalate, executeProposal, rule, applyFallback | a dispute ends though officers stay silent, and moves only the disputed tranche |
| stake vault (`KarwanStakeVault`) | per person: active, cooling, reserved; per line: a reservation; owed | stake, requestWithdraw, cancelWithdraw, withdraw, reserve, extend, slash, release, releaseStale, withdrawOwed | a stake covers every reservation on it, and leaves only as its owner signed |
| trade finance (`KarwanTradeFinance`) | per line: terms, state; per deal: the line in its seat | open, settle, waive, keepStake | a line holds stake exactly while it is open, can always be settled, and a default is covered as far as the stake goes |
| yield pool (`KarwanYieldPool`) | principal per family, cash, Teller shares, buffer and cushion | deposit, withdraw, rebalance, sweepYield, backstop, setTeller, stop, resume, setBuffer, setCushion | families can take their principal back; only what is above it leaves as yield |
| job family (`KarwanJobEscrow`, `jobs/`) | per job: status, budget, clocks, dispute | create, setBudget, fund, submit, complete, release, reject, confirmRejection, disputeRejection, claimRefund, rulings; bounties | an account pays out what its ending says, whole |
| time family (`KarwanTimeEscrow`, `time/`) | per engagement: state, cycles to run; per cycle: claimed, approved, disputed, paid | open, accept, cancelOffer, fundCycle, submit, approve, settle, object, rulings, giveNotice, close | a cycle paid in parts pays what it would at once; approved units stay approved |
| check verifier, record, identity registry, oracle adapter, fees, timelock | their own | report; recordOutcome; binding; requests; fees; delays | one result per revision; one outcome per deal and party |

The families are thin layers over the settlement base, which they link as a library. They call
the hub (to ask), the token and the pool (to move money: either may refuse), the vault and the
record (a refusal is caught and never blocks an exit). Every transaction is atomic, so an action
of a contract is one transaction; what interleaves is the order of transactions of the buyer, the
seller, the officers, the guardian, governance, and anyone.

### Backend (`src/backend/src`)

| part | state | operations | what makes it correct |
|---|---|---|---|
| durable tasks (`agents/durableTaskRunner.ts`) | a Postgres table of tasks leased to workers, with attempts and checkpoints | claimDue, start, heartbeat, checkpoint, complete, reschedule, fail | a stale worker changes nothing; a task ends; rows tell the truth |
| watcher leases (`ops/watcherLease.ts`, `ops/leasedLoop.ts`) | a lease per background job, a claim per deal | take, drop, claim, unclaim, runLeasedTick, withClaim | one runner and one action at a time, and somebody always runs |
| agent jobs (`agentJobs/`) | a row per job of an outside agent, one-time links | fund, status, requestRelease, answer, markDelivered, sellerDispute, tick | the row claims nothing the escrow did not do, and catches up with it |
| hourly work (`work/`) | a row per engagement with its weeks | offer, accept, decline, cancel, logHours, approveHours, objectHours, fundNext, giveNotice, runDue | the same, over a row that is never read from the chain |
| evidence request queue, negotiation and offers, outgoing money, chat channels, assistant, API | their own | | not modelled, see section 6 |

The backend's parts read a row, await something (a balance, a wallet provider, a receipt), send a
transaction to one of the contracts and write the row. Two calls, two processes, a crash, a lost
receipt or a transaction by somebody else may come in between each of these.

### Hard behaviours

Races around clocks (claim against dispute, appeal against execution, late part against
cancellation); governance switches between two payments; a refused transfer, withdrawal, slash or
record inside a payout; roundings that must add up at the last tranche or cycle; several clocks in
three contracts that must stay in order; a Teller whose price moves inside the call that trades;
rows written from what was read before an await; leases that run out while their holder acts;
deals in which everybody falls silent. Each is listed at its line in `PROJECT.json` under
`hazards`, with the properties that watch it.

## 2. Plan

1. **Settlement** with its proofs, **DealAccount** (done).
2. **Agreement** with disputes and stake, and its proofs (done).
3. **DurableTasks** with its proofs (done).
4. **StakeVault** and **TradeFinance** on it, with their proofs (done).
5. **YieldPool** and **WatcherLease** with their proofs (done).
6. **JobEscrow** under **AgentJobs**, **WorkEscrow** under **Engagements**, with their proofs (done).
7. The sums over deals, users, families, tranches and weeks, with the lemmas of **FiniteSums** (done).
8. WorkEscrow shown to implement **DealAccount**, with its proof (done).
9. Next: the same for JobEscrow; bounties and `setProvider`; amendments and `endNow`; the evidence
   request queue and outgoing payments.

## 3. Modules

**DealAccount** is the abstract specification: what the settlement base promises of one deal's
money, and nothing about how. Money enters while the deal is live, what leaves never exceeds what
entered, the fee stays within the rate fixed at opening, and a deal closes only when everything
that entered has left. Settlement (deal by deal), Agreement and the work escrow under Engagements are
shown to implement it.

**Settlement** is the settlement base with an arbitrary family on top: `open`, `fund`, `payTo`,
`payFee` and `close` may be called in any order with any arguments, so what holds here holds for
every family. The variables are the fields of `DealAccount` and `SettlementStore` in
`SettlementLib.sol`; `books` groups the totals of one asset with the token balances (`cash` is the
escrow's own, `wallet` everybody else's). The cash desk (`Pull`, `Liquid`, `Deliver`, `Trim`) are
operators from books to the set of books a call may leave, since the token may refuse a transfer
and the pool a withdrawal at every call. `PayTo` is `payTo` with everything it calls: the taking,
the assignee's cut, the trim, and one or two deliveries. `LongstopSplit` is the whole of
`checkLongstop` and `payLongstop`, outcomes included.

**Agreement** is one deal of the Agreement family with its dispute, its stake reservation and its
settlement account. Deals meet only in the settlement's totals, which Settlement models, so one
deal is enough; what a payout delivers, assigns or credits is folded into `got`, what the two
sides were paid or are owed. Every external entry point of `KarwanAgreementEscrow` is an action:

* `Fund`, `PayPart`, `CancelMissed`, `Accept`, `AcceptWithStake`, `KeepStake`,
  `CancelUnaccepted` for funding and acceptance;
* `MarkDelivered`, `StartReview`, `AttestCheck`, `RequestMoreTime` for delivery, with `ReviewEnd`,
  `ClaimOpen` and `ReclaimOpen` for `reviewEnd`, `claimBar` and `reclaimBar`;
* `Release`, `ReleaseBySig`, `Claim`, `Reclaim` and the deadline moves;
* `ProposeSplit`, `CancelSplit`, `AcceptSplit`;
* `Dispute`, `ProposeRuling`, `Escalate`, `ExecuteRuling`, `Rule`, `ApplyFallback`;
* `LongstopSplit`, `Hold`, `ReleaseHold` of the base, `ReleaseStale` of the vault, and the two hub
  switches a running deal still feels.

A check result is signed (`SignVerdict`) some time before somebody submits it (`AttestCheck`), so
results may arrive after a new delivery or a payment. A buyer's release signature names the
tranche (`ReleaseBySig(k)`), and may be submitted by anyone while that tranche is next.

**StakeVault** is `KarwanStakeVault`: `active`, `cooling` and `reserved` per person, a reservation
per family and reference, what slashes could not deliver (`owed`). A person stakes, asks to
withdraw, withdraws after the cooldown; families reserve, extend, slash and release; anyone frees
a stale reservation; governance revokes a family. **TradeFinance** extends it with the lines of
`KarwanTradeFinance` and what a line sees of its deal (`receivableOf`, `assignmentOf`). `Open` is
the whole of `open`: its checks, the reservation, and the seller's assignment with the re-use of a
seat whose line has ended. `Settle` is the whole of `settle`, slash and release included. The
deal's environment pays, extends, ends and is assigned by the seller as the escrow allows; another
family makes reservations of the same person meanwhile.

**YieldPool** is `KarwanYieldPool` with its Teller. The Teller is a quote (bid, ask, whether it
answers) that changes between calls (`TellerMoves`) and within every call that trades: `Trades`
gives every quote and amount the trade may end with, so what the code measures after a trade is
not what it measured before. `Subscribe` is `_subscribe` with its undoing, `SweepYield` measures
again after redeeming as the code does.

**WatcherLease** is one background job and one deal: the `lease` and `claim` rows of the store,
and what each process does (`tick`, `event`). Times are what is left of them; `trusts` and `acts`
count how long a process may rely on what it was granted, which is how "at the same time" is told
from "after its grant ran out". `SkipTick`, `Renew`, `TryDeal`, `LeaveDeal`, `EndTick` follow
`runLeasedTick` and `withClaim`; a renewal or an unclaim may fail, time may pass the grants of a
process that stalls, and shutting down, stopping (`ShutDown`, `Stop`) and starting again are steps
of their own. A process is a place where one runs: each time it starts it has a new name, as
`PROCESS_HOLDER` is random, so what a stopped process left in a row becomes nobody's (`Orphaned`,
`Gone`) and only time frees it. `RunBy` bounds how many processes run a job.

**JobEscrow** is one job of `KarwanJobEscrow`; **AgentJobs** extends it with the backend's row and
the calls on it. A call is read from the code as its awaits cut it: `Begin` reads the row,
`FundCall`, `ReadChain` and `PatchSynced` are the checks against the chain, `Decide` plans,
`Send` sends the transaction (`Tries`: done, refused, or done with its receipt lost), `Write`
patches the row if its status is still one the call expects (`Patches`). `Fault` cuts a call short
at any of these. `Elsewhere` is everything others may do to the same job without the backend.
Workers stand for processes, so no lock is assumed between them.

**WorkEscrow** is one engagement of `KarwanTimeEscrow`, without what the backend never uses
(amendments, `endNow`, dropped objections, proposals, rollover). Its price is the code's: rate times
units over the unit scale (60 for hourly work), rounded down (`Gross`), so that minutes worth nothing
by themselves are worth something together; `Booked` is the early return of `_book` for a price that
has not grown, and a ruling awards its share of what the disputed units add to the price of the
approved ones (`RulingTx`). **Engagements** extends it with
the backend's row, whose weeks are one value written whole, the calls of the two people, and
`runDue`, the runner's pass (`BeginPass`, `PassOn`, which takes the row it carries along from step
to step and never reads again). The in-process locks are `LockOf` and `Busy`; `Marks` is
`patchIfStatus`; a call that was refused undoes its mark (`Undone`) as the code's `catch` does.
The row is never read from the chain, in the model as in the code. `WorkIsAccount` maps the
escrow to `DealAccount`: what entered is the cost of every week funded, the fee is what every
payment took for itself, and what the account no longer holds has left.

**DurableTasks** is the backend's queue of leased tasks, the runners that work it off, and the
handlers of the buyer agent's two timers. The variables `state`, `attempt`, `wait`, `owner` and
`lease` are the columns of a row of `agent_tasks`, `checkpoint` its one checkpoint's `data.step`;
`batch`, `current`, `phase` and `step` are where each runner's `runOnce` is. A store call is one
transaction and one action: `ClaimDue`, `Start`, `Heartbeat`, `Save` (`checkpoint`), `Complete`,
`HandlerWaits` (`reschedule`), `Fail`. Between two of them the process may stop (`Crash`), time
may pass (`Tick`) or another runner may act. `HandlerActs` is the handler between `start` and its
checkpoint: it looks at the request and, unless the timer is stale, acts at once, as `planClose`
and the first part of `finalizeBidCollection` do without awaiting anything. What it finds is a
choice: a request may fail to load at any attempt, and may have moved on. Times count down to 0,
so the model needs no bound on time. Each call uses the clock the code gives it: `heartbeat`,
`checkpoint` and the two ways to finish read the time anew, while `start` and `fail` get the time
the batch was claimed at, which no lease of the batch has outlived, so for those two the lease's
expiry never refuses.

The **MC** modules give the constants values for TLC. The theorems are in **SettlementProofs**,
**AgreementProofs**, **TradeFinanceProofs**, **YieldPoolProofs**, **LeaseProofs** (the task queue and
the watchers' leases), **AgentJobsProofs** and **EngagementsProofs**; **FiniteSums** has the lemmas
about sums over finite sets that they share. The definitions named `Slip...` are plausible bugs of
the definition they follow, used to see that each property notices one.

## 4. Runs

| run | asks | bounds |
|---|---|---|
| `settlement_shared` | do the books balance through refused transfers and a pool that cannot pay, and do governance's switches stop only what enters? | two deals (interchangeable), one payee, a fee and a yield share of a half so that shares round, two caps of each kind, every switch at any moment; 524,040 states |
| `settlement_parties` | who gains, in which order, and is every outcome kept? | one deal of one unit, two payees of whom one is also the assignee, re-assignment, a hold budget, three moments, a record that may refuse; 439,648 states |
| `agreement_delivery` | one deal's delivery | five kinds of terms (plain, goods with extension and buyer's last release, checked, a plan of three parts, a deposit); two deliveries, twelve moments |
| `agreement_disputes` | disputes, splits, stake, the long-stop, and that the deal ends | three kinds of terms (two milestones, the same staked, staked without an arbiter); the two sides act at any time up to 5, anyone later too; 332,036 states |
| `tasks_leases` | do leases fence, do rows tell the truth, and does every task end? | two runners, two tasks, batches of two, two attempts, leases of two moments; one task may wait |
| `tasks_reload` | is a waiting task looked at again? (expected to fail) | one runner, one task, two attempts, a grace of four moments |
| `trade_finance` | does a person's stake stand behind two lines as signed? | one person with at most two of stake, two lines on one deal that ask for one and two, a reservation of another family, three moments; 1,182,450 states |
| `yield_pool` | can families leave, and does only yield leave before them? | two families (interchangeable) that park at most three, four quotes (two prices, a spread, silence), two settings; 57,632 states |
| `watcher_leases` | one at a time, and somebody always? | three processes for a job that acts from its ticks only, two for one that acts on events too, a lease and a claim of one moment; 475,544 states |
| `agent_jobs` | does the row follow the escrow? | two calls at once, one link, an odd budget with a fee of a quarter, rulings of nothing and a quarter, four moments, one call cut short; 510,596 states |
| `engagements` | does the row follow an escrow it never reads? | two weeks of two units, two people's calls beside the pass, five moments, one crash or lost receipt, hours logged for the first week, a price of 5 for two units, settlement and ruling by others; 935,816 states |
| `engagements_ruled` | is work closed after a ruling? (expected to fail) | one week, one call at a time, no fault |

Why the bounds are enough. Two deals, families, lines or processes are needed for a total to differ
from its parts or for a race; no call reads a third. Amounts of one and two with rates of a half
make every share round down at least once; Agreement pays 13 with a fee rate of two quarters over
tranches of one and three quarters, where each tranche, fee and ruling rounds differently; a job's
5 at a quarter leaves an odd fee unit between the sides. A week's two units cost 5 at a unit scale of two,
so the first is worth 2 and the second 3, and a fee of a half leaves odd units at each of the prices
a week is paid in parts. Clocks are scaled down with their order
kept: the review windows, the start and silence longstops, the grace, the proposal, appeal and
ruling periods and the family's long-stop are all distinct in effect, and time runs until the
last of them has passed. The yield pool's Teller has a price that rounds (three over a unit of
two) and a spread.

`Settlement`'s run with two deals stops the clock and leaves out assignments, which
`settlement_parties` has with one deal; neither reads the other deal's clock or assignment.

In the task runs a lease of one or two moments lets a batch's second task start under an expired
lease, and two attempts make the last one differ from the first; the runs need no bound on time,
nor does `watcher_leases`. It has three processes, since beside the one that stays up two others may
take turns, the one taking the lease the other left when it was stopped, which two processes cannot
show. Its leases last a moment, so a renewal comes before the end of the moment or too late; what
holds within a grant is proved for leases of any length. The grace of `tasks_reload` is longer than all attempts together, as in
the code (120 s against eight waits of 5 s).

In `engagements`, `MaxCall` says which calls may last a moment: the pass, which walks through many
rows, while the people's calls end in the moment they began in (`engagements_ruled` lets all of
them last). `Billed` limits the week hours are logged for, `Outside` what others do: anyone may settle,
the review team may rule. `MaxFaults` is one: what a second fault could add is a
second call cut short, and no call depends on another's fault. In `agent_jobs` and `engagements`
a call that would be refused at once is not begun (`WorthACall`, and the guards of `Begin...`),
since it changes nothing.

Symmetry is declared in `settlement_shared`, `yield_pool` and `engagements`, over deals, families
and callers that the specification treats alike; their properties are invariants and properties of
single steps, for which this is sound.

A deal, job or engagement that has ended, and one nobody funded, have no next step, so the
Agreement, job and work runs do not check for deadlock; that they do not stop before is
`AcceptedDealEnds`, `NothingJams`, `DeliveredWorkEnds` and `LinesNeverJam`. The other runs do
check it.

### Fairness

`agreement_disputes` checks liveness under weak fairness of time and of `KeeperStep`: the
functions anyone may call without a role (`claim`, `reclaim`, `cancelMissed`, `executeRuling`,
`escalate` by a third party, `applyFallback`). This is the code's own assumption: the functions
are open to everyone so that nobody's silence blocks a deal, the side that is paid wants to call
them, and the backend's watchers do so for both. No fairness is assumed of the buyer, the seller,
the arbiter, the reviewer, the checkers, the guardian or the Safe. `LastLate` bounds how late a
keeper may be in the model, not whether it comes. A deal the seller never accepts is not promised
to end: the buyer may cancel it, and the long-stop covers the rest.

The task runs assume that time passes, that a runner with nothing left claims again (its loop runs
every second), and that whatever a runner awaits ends some way. Nothing is assumed of which way:
handlers may throw at every attempt, leases may run out, and processes may stop. `TasksEnd` holds
of tasks whose handlers never wait; for the others see below.

`watcher_leases` assumes that time passes and that each process that is up goes on with its loop
(`Loop`): the interval fires, and whatever a tick awaits ends some way. The latter is an assumption
about the jobs, not something the lease code sees to. A tick that hung would keep its lease, renewed
by its timer, for as long as its process lives, and `busy` would let no other tick begin
(`leasedLoop.ts:31`). It is not assumed that renewals or unclaims succeed, nor that any process stays
up. `DealStaysAttended` says what follows when one does and the others do not go on for ever dying in
the middle of a tick. Without the second condition it is false, of the code too: a process
started again and again, and stopped each time in the tick it began, may take every lease that runs
out before the one that stays up tries, since a lease is given to whoever asks first and nobody waits in line.

`agent_jobs` assumes that time passes until the model's clock stops, that a call that began goes
on to its end or is cut short, and that the runner's pass comes to the job again and again
(strongly fair, since a call in the same process may hold the job's lock when it comes: the
interval of `agentJobRunner.ts` does not give up). Nothing is assumed of the agent, the person,
the seller or anyone else. `engagements_ruled` assumes the same of the pass of `workRunner.ts`.

### What the failing runs show

`tasks_reload`. Every claim uses up an attempt, and a wait does not give it back. A task that
waits on its last attempt is `waiting` with no attempt left: `claimDue` takes only tasks with
attempts left, and sends only leased or running ones to the dead letters. It stays there for ever,
and no operator is told. With eight attempts 5 s apart this happens after 40 s, where
`durableTimers.ts:33` means a task to wait (120 s) "instead of giving up".

`engagements_ruled`. The pass takes objected hours to the review team and, once `RULING_MS` is
over, applies the fallback. If the team has ruled by then, the cycle is settled on chain and the
fallback reverts. Nothing reads the cycle back, so the week stays objected in the row, every pass
tries again, and the work is never closed on chain or in the row. `workRunner.ts:6` says of the
pass that it "closes finished work" and that a failed step "is tried again on the next pass".
Without a ruling (`Outside = {}`) `WorkCloses` holds.

Also noted, without a run of their own:

* A timer writes what it found (`close`, `stale`) into its checkpoint, but plans again at every
  attempt (`collectionClose.ts:92`). If the attempt that acted saves its checkpoint and then does
  not complete, the next one finds the timer stale, and `stale` under the key that holds `close`
  is a conflict. It ends in the dead letters, although the work was done and recorded;
  `docs/agent-workflows.md:19` promises that a restart resumes it.
* The store refuses a failure recorded after the lease has run out, as
  `durableTaskRunner.test.ts:128` requires, but the runner hands it the time its batch was claimed
  at (`durableTaskRunner.ts:1334`), so the refusal never happens. The harm is bounded: if anyone
  has claimed the task since, the token refuses it (`StaleWorkerHarmless`).
* `docs/architecture/11-contracts.md:393` says the stake is "kept reserved for as long as the deal
  can run". The reservation follows the deal's horizon, with the long-stop and 30 days on top. A
  deal that nobody touches stays Accepted past it, when the vault neither extends nor slashes it
  and anyone may free it (`AgreementCommon.sol:54`). A ruling given after that takes nothing.
* Two calls of `fundNext` may both pass `fundCheck` before either takes the `fund:` lock
  (`engagements.ts:458`); the second funds the following week, its proof names the wrong one, and
  the row never learns of the money. `giveNotice` leaves weeks the contract refunded as funded in
  the row, so their settlement is tried for ever. A crash between creating a row and its offer
  leaves it `offering`, which `listLive` never lists. Two overlapping `logHours` lose the first's hours from
  the row's log. `RecordIsTrue` and `AccountKept` bound the harm: nobody's money goes where the
  chain did not send it.
* Where events act on deals too, the tick of a process may drop the claim its own event handler
  holds, since both carry the process's name (`watcherLease.ts:97`); `OneActorInTime` is stated
  where only ticks act.
* `KarwanSettlementBase.sol:142` opens the long-stop "180 days after its last clock". The horizon it
  counts from is capped at `MAX_HORIZON` from now (`AgreementCommon.sol:50`), while a last part paid
  late moves the deadline by its lateness, without a limit (`AgreementLib.sol:483`). If nobody cancels
  a missed plan, the buyer first moves the deadline as far as the family allows and then pays the
  last part more than a year late, the deadline may lie past the opening of the long-stop.
  `LongstopComesLast` leaves plans out of its third clause for that reason.
* Nor is an appeal always over when the long-stop opens. The arbiter's proposal has no deadline while
  nobody escalates (`DisputeLib.sol:79`), starts an appeal window and moves no horizon. Made once the
  long-stop is open, or less than a window before, it leaves a clock running while the senior Safe may
  split the deal, and a side that could still appeal may lose that to the split. It takes a dispute in
  which nobody escalates for months, as anyone may once the proposal window is over. The last clause of
  `LongstopComesLast` therefore speaks of proposals made within the time a dispute is to take in all
  (`LONGEST`); without that condition TLC finds the late proposal, in eleven states. These are its two
  exceptions.
* The comment at `DisputeLib.sol:39` calls `LONGEST` the longest a dispute runs "before someone
  can always end it"; the bound holds only if someone escalates as soon as the proposal window
  ends, since the ruling period starts at the escalation.

## 5. What is proved

With TLAPS, for every value of the constants that satisfies the assumptions each module names:
that the constants are of their kind, rates within a whole, and the sets of deals, users,
families and references finite. Those that say more are

* `SettlementAssumption`: a deal has at most two payees, where the code allows eight;
* `AgreementAssumption`: a deal's fee rate is below a whole (`MAX_FEE_BPS` is 1,000 of 10,000) and
  windows are positive where the code's minimum is, and the whole time a dispute is
  to take (proposal, appeal and ruling: `LONGEST`) is within the longest horizon, an appeal window
  within the long-stop (the long-stop is 180 days and the longest horizon 730, the windows days);
* `WorkAssumption`: a week's budget is not nothing, so the price of all its units is at least one unit
  of money: `_validate` refuses other terms;
* `BoundsFit`, a hypothesis of `LongstopIsLast` only: the family's horizon and its longest grace
  together stay below the longest horizon and the long-stop. The constructor does not ask it; the
  deployed bounds (`endgame-5042002.config.json`: 365 and 30 days, against 730 and 180) keep it;
* `MarginAssumption`: the margin the pool keeps covers the price of one Teller share, the most a
  call loses by rounding (`MIN_MARGIN` is 1,000 units);
* `FinanceAssumption`: the longest horizon with the long-stop and the settling window is within the
  vault's longest term (730 + 180 + 30 of 1,095 days), as `LinesNeverStuck` needs of an extension;
* `BackoffAssumption`: powers of two are numbers, of which the provers know nothing.

The arguments:

* **Sums** (`FiniteSums`). What books and accounts add up to is a fold over a finite set, in an order
  the definition leaves open. `SumRemove` says that any element may be taken out first, `SumChange`
  what one changed value does to the sum, `SumDrop` what a change by the same amount on a part of
  the set does, `SumStep` and `PartialSums` what a prefix of a sequence adds up to. They are proved
  from well-founded induction on the subsets of a finite set (`SetInduction`, over a set of sets, so
  that no operator is a parameter).
* **The books** (`SettlementProofs`). `BooksInv` is `TypeOK` and `Solvent` with three facts they
  need: an assignee was never paid more than was signed over (or the cut would be negative), the
  hold budget, and that a live deal's payer is a user (or funding could not debit a wallet). The
  cash desk comes first: whatever the token and the pool answer, `Deliver` lowers the surplus of
  cash and parked money over what is owed by exactly the amount delivered, and `Taken` raises it by
  the amount taken. Each action is then one lemma.
* **Each deal** (same module). `DealInv`: the cap holds, a deal is empty unless live, balance and
  fee never exceed what entered, the fee is within its rate. `DealsImplementAccounts` maps every deal
  to `DealAccount`.
* **The totals, and who gains** (same module). `StepMovesOneDeal` says of every step that it is
  about at most one deal, that the totals move by what that deal moved, and that what is owed still
  adds up (`BooksFollow`), and who may gain and how much (`GainsWithin`). `BooksAlwaysAddUp` (the
  whole of `BooksAddUp`) and `RecipientsOnlyGain` follow. `ExposureStaysCapped` follows from the same
  lemma and the guards of `fund` and `pledge`. `OutcomesAlwaysKept` needs that who agreed is a payee
  (`ConsentKnown`), and that the two payees a long-stop pays are different people
  (`PayeesDistinct`). `AssigneesComeFirst` follows the cut through `PaidOut`. `ExitsAlwaysHaveTheMoney`
  (the whole of `ExitsStayOpen`) says two things of every exit: its checked subtractions never fail,
  which follows from the totals, and the cash desk has an answer though the token refuses every
  transfer and the pool every withdrawal. The answer is built along the call: the trim that the pool
  refused leaves the books as they were (`TrimMayDoNothing`), a delivery that was refused is credited
  (`RefusedDelivery`), the assignee's part first (`RefusedPayout`), and no wallet and nothing parked
  changes. What is owed is never more than cash and parked money together,
  so a pool that pays lets its owner take it.
* **One agreement** (`AgreementProofs`), for any terms of the escrow's types, any windows and any
  number of deliveries, extensions, holds and check results. `AgreementInv` has the types; the
  review clock (`ClocksInv`: a review starts within its longstop, and its end is the window and
  the extensions given, of which the silence longstop covers the most there can be); the dispute
  (`DisputesInv`: its clock runs exactly while the deal is disputed, a delivery exists only on a
  paid plan, and a running deal has a tranche left); and the checks (`ChecksInv`: whatever was
  signed about the current revision is about the current tranche, and only checked deals have
  checks). `DisputesMatch` and `ReviewsHold` follow. `ClaimsStay` and
  `RefundsStay` (together `ClocksStay`) are about single steps, one lemma per kind of step; the case that needs most is a review started, or
  passed, after the claim has opened, which must start where its longstop already put it.
  `CheckFitsTranche` is about running deals only: a split settles every tranche without clearing
  the delivery, so a deal that ended by one may keep a result about an earlier tranche, which
  decides nothing.
* **Its ledger** (same module). `LedgerInv` ties the balance to the plan: before it is paid in full,
  the parts paid; after, the net and the fee not yet released. What was released never exceeds the
  tranches' share of the price (`SharesInv`), from which the last tranche, which takes the rest,
  is never negative. `BooksAlwaysKept` follows, and `DealImplementsAccount` maps a deal to
  `DealAccount`; its map rests on the guard in `Pays` that amounts are unsigned.
* **Its stake** (same module). Every step is one of a few moves of the horizon and the stake
  (`StakeMoves`); each keeps that a reservation stands only while the deal runs and outlasts the
  long-stop unless it has run out (`ReservedInv`). That slashes stay in proportion to what rulings
  took (`SlashInv`) needs the two roundings of a ruling, the tranche's share and the slash's, to be
  compared as products, one factor at a time (`SlashCovered`). `StakeAlwaysAnswers` follows.
* **Its long-stop** (same module). `CoverInv` says how far the horizon reaches: past the offer's time,
  past the silence longstop of what is delivered, past all the time a dispute was to take when it was
  opened and past the term of a ruling (`ReachInv`), and,
  without instalments, so far that the refund's clock is past or the long-stop is still to come
  (`DueInv`). A horizon is capped at `MaxHorizon` from now, so this also needs that a deadline is at
  most the family's horizon away, counted from the opening of a dispute while one is open, for what
  is left of the deadline then is left again at its end (`SettlingCover`). `LongstopIsLast` follows
  under `BoundsFit` (see the assumptions above) with `ReviewsHold` and the cap on holds.
* **Nothing jams** (same module). A payment reverts when it is more than the balance, when its fee is
  more than what is left of the fee's limit, or, if it ends the deal, when it leaves something in the
  account. `PayableInv` says that the fee paid is never ahead of the fee released, that money in
  and money promised make up the price until the deal ends, and that no tranche is for nothing.
  With `LedgerInv` each ending empties the account: a claim or a release of the last tranche, a
  ruling for any share, a split at any share, where the two roundings leave a rest that goes to the
  buyer. `SlashFor` never divides by zero, for the seller's net of a valid plan is
  positive. `NothingEverJams` follows for every share from none to all.
* **The task queue** (`LeaseProofs`), for any number of tasks, runners, attempts and any times.
  `TasksInv` is `TypeOK`, `GivenUpAfterAllAttempts` and `SuccessIsRecorded` with `HandlerKept`: a
  handler that says it saved has its checkpoint in the store, and one that says it acted has
  acted. Without it a completion could succeed a task with nothing recorded. `RowsAlwaysTrue` is
  the two facts about rows. `StaleWorkersAreFenced` and `LiveLeasesAreKept` are about single steps
  and need only the types: whoever leaves a row's attempt holds its token.
* **The watchers' leases** (same module), for any number of processes and any lengths. `WatcherInv`
  says that whoever relies on a grant is the one the row names, for at least as long
  (`TrustIsBacked`, `ClaimIsBacked`). `OneAtATimeHolds` follows, since a row names one holder.
* **The stake and the lines** (`TradeFinanceProofs`), for any number of people, families, lines
  and deals. `VaultInv`, the vault's types and `StakeCoversReservations`, is inductive by itself:
  what is reserved and cooling never exceeds what is active, one lemma per call. `Inv` adds what
  open and ended lines hold (`LineInv`), that an assignee was never paid more than was signed over
  (`PaidWithin`), and that the seller of a line that was ever opened has a person behind their
  wallet. `LinesAlwaysHoldStake`, `DefaultsAreCovered` and `StakeIsSigned` follow; the last two
  are about single steps. `SumsInv` says that what a person has reserved is the sum of their
  reservations that stand, over all families and references (`ReservationsAlwaysAddUp`): each call
  changes one reservation, and the sum by as much. So no reservation is more than its
  owner has reserved, and freeing one never goes below zero. With what covers them this is
  `StakeBooksAlwaysKept`. `HorizonInv` keeps every deal's horizon
  within the longest from now, so that a longer reservation is within the vault's term.
  `LinesNeverStuck` puts the two together: settling, slashing, waiving and extending are never refused by the vault.
* **The pool** (`YieldPoolProofs`), for any quotes, settings, amounts and families, whatever the
  Teller does. `PoolTypesHold` says among others that cash never goes below zero; `PrincipalAdds`
  that the principal is the sum over families. `SweepsLeaveCovered` rests on the second measurement
  in `sweepYield`. `MarginsAbsorb` bounds what each call gives up by rounding; it needs that
  redeeming the shares a withdrawal computes returns what it was computed for, from the definition
  of division. `FamiliesAlwaysLeave` follows the shares a withdrawal asks for to what redeeming them
  brings; `SubscriptionsStand` does the same for a subscription at the quoted price.
* **Jobs** (`AgentJobsProofs`), for any number of calls, links, faults, budgets and rates.
  `JobsInv` says that the escrow's account is what its state says (`ChainInv`), and that the row,
  what every call read and what it is about to write were true of the chain and still are: the
  chain only moves forward (`Forward`), so a late write is stale but not false. `AccountsKept` and
  `RecordsAreTrue` follow.
* **Hourly work** (`EngagementsProofs`), for any rate, unit scale, fee, windows, weeks, callers and faults.
  The price is a quotient rounded down, so what is used of it is that it never falls as units are
  added (`GrossGrows`), never that it adds up: what is paid next is always the difference of two prices.
  `EngInv` has four parts. `WorkInv` is the chain's: a cycle that was paid in parts has been paid the
  rounded price of what is approved (`CycleOK`), cycles are funded in order and none is worked on before it
  starts (`CyclesInv`, which is why notice may give whole cycles back), and the account is the sum of
  what the cycles hold (`MoneyInv`). `TypesInv` keeps what a call checked in the row it read;
  `TruthInv` says that the row and every copy of it a call still holds are true of the chain, which
  takes nothing back (`Goes`): since the copies are whole rows, each week written with one's own is
  true too. `HoldInv` says that at most one call answers the offer, while the row is `offering`, and
  that calls about work run only once it is accepted. `AccountsAlwaysKept`, `RecordsAlwaysTrue`,
  `ApprovalsAlwaysStand` and `OffersAnsweredOnce` follow. `WorkImplementsAccount` takes the chain's
  transactions one by one. Funding a week is an entry of its cost. A payment may touch one week only
  (`OneWeekPays`): its fee grows by no more than what the week gives up of what it held (`WeekGives`),
  so what has left never shrinks. The work closes only when every funded week is settled, and a
  settled week holds nothing. The fees stay within the rate of all that was put in, since a week's
  fee is that of what it was paid, which is at most the price of its hours, and a sum of roundings
  is at most the rounding of the sum (`AccountStands`).

With TLC only: liveness (`AcceptedDealEnds`, `TasksEnd`, `DealStaysAttended`, `DeliveredWorkEnds`,
`RecordCatchesUp`), which is out of the prover's reach. Every invariant and every action property
of a passing run is proved. `ExitsStayOpen`, `NothingJams` and `LinesNeverJam` say that something
can be done, which one would write with `ENABLED`; the prover does not know `ENABLED`, so they are
stated by the guards the actions themselves are written with (`CanPayTo`, `CanClose`, `CanSplit`,
`CanPay`, `CanPayOut`, `CanDefault`, `CanExtend`): what the code checks and what it subtracts.

## 6. Not modelled

* Signatures, hashes and nonces beyond their use: a signature is who agreed to what.
* Widths of integers: amounts are `uint128` of tokens whose supply is far below, times are
  `uint64`. Unsigned subtraction is kept: the types require every difference to be natural.
* Tokens sent to the escrow outside a deal; a token that takes a fee (refused by `fund`).
* Gas: the vault's and the record's calls get what they need, or fail as a whole.
* The agent's allowance and the identity behind a wallet.
* Of the job family, bounties and `setProvider`; which ruling comes and when is left to the shared
  dispute clock, modelled in Agreement. Of the time family, amendments, `endNow`, dropped
  objections, the arbiter's proposals, rollover, holds and the long-stop.
* Of agent jobs, pairing, opening a quote and reminders; of hourly work, drafting, reminders,
  balances, the deal cap and the market it is hired from.
* First-generation contracts (`src/contracts/src/*.sol`), superseded by the suite.
* Of the durable tasks: an admin's replay of a dead letter (shadow tasks only), triggers and event
  ingestion, the in-process timer armed when a task cannot be queued, a window re-armed by a later
  offer (there the older task is `stale`, which `HandlerActs` allows at any time), and the hold of
  a close while sellers are still evaluating. That a timer has had its effect (`done`) is durable,
  as the agent's saved notes make it; a stop before the notes are written is not modelled.
* The rest of the backend: negotiation, offers and the assistant are driven by a language model
  and have no protocol of their own beyond the tasks above; the evidence request queue and
  outgoing payments are left to section 2; routes, notifications and chat are input and output.
* The frontend, which is most of the repository's lines (screens and translations), the oracle
  workflows (pure functions run by an external network), scripts and workers.
