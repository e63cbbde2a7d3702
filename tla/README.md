# Verification of Ghola's trading core

Ghola lets a consumer hold USDC with Ghola, trade perpetuals on pooled venue
accounts and withdraw to a wallet, and runs trading agents on the user's own
venue accounts. This directory models the parts of the repository that keep or
risk that money: the shared Postgres tables, the web routes and the worker that
change them, the two flows that leave the database (an order to the venue, a
withdrawal to Solana), the autopilot sessions of the worker and its two-legged
cross-venue executions.

## The system and its parts

| Part | State | Operations | Interacts with |
|---|---|---|---|
| Consumer production store (`apps/web/src/lib/consumer-production-store.ts`) | balances, ledger, reservations, venue orders, fills, deposits, withdrawals, wallet bindings, circuit | one SQL statement per operation | called by the web routes; shares its tables with the worker |
| Consumer runtime (`apps/private-agent-worker/src/consumer/runtime.js`) | reconciliation jobs, and the tables above | prepare/enqueue job, reconcile, deadline sweep, withdrawal dispatch and finality, halt, resume | called by the worker's HTTP routes and its interval timer |
| Pooled order route (`.../public-live/phoenix/submit/route.ts`) | none, one run per request | check circuit, reserve, call the worker, then release, or mark and record | store, worker |
| Worker order handler (`server.js`, `private-execution.js`, `solana_perps.js`) | cached receipts | prepare job, execute, enqueue job | consumer runtime, venue |
| Withdrawal routes (`.../balance/withdrawals/**`, `consumer-turnkey-treasury.ts`) | none, one run per request | request, prepare, submit, cancel | store, treasury signer, Solana |
| Circuit breaker (`consumer_circuit_state`) | open or halted, reasons | halt, resume | written by both tiers, read by the order route |
| Operator routes (`app/api/internal/**`) | none | halt/resume, evidence, adjustments | worker, store |
| Autopilot (`execution/autopilot.js`, `run-risk.js`, `policy.js`, routes of `server.js`) | session rows, positions, policy counters; timers and the set of running ticks in memory | create, tick, pause, resume, kill, watch, resume after a restart | private state store, venue |
| Private state store (`state/private-state.js`) | sessions, positions, counters, receipts by work order | one SQL statement per operation | autopilot, order handler |
| Cross-venue execution (`execution/cross-venue.js`; `cross-venue-execution*.ts`, `cross-venue-worker.ts` and three routes of the web tier) | the plan in the web tier's tables, the attempt record in the worker's | plan, submit, legs, hedge, unwind, report, ingest, cancel | both tiers by HTTP, the venues, the circuit |
| Idle stop (`api/private-agent/idle/route.ts`) | none | stop the worker's machine | reads the plans, stops the worker |

The rest of the repository (level triggers and arbitrage, identity crates,
relay, compute marketplace, on-chain programs, SDKs, apps) is listed in
`PROJECT.json` as not modelled, with the reason or the plan.

What makes this code hard: no two SQL statements are ever in one transaction,
so every pair of callers interleaves; the web tier runs in functions that may
stop at any await, the worker may restart, and answers are lost; two tiers may
pay out the same withdrawal; deadlines and limits are read before they are
used. The autopilot holds a copy of its session through awaits of seconds and
writes all of it back while calls change the row; a cross-venue run lives in
one process, its plan in another, and they meet only in numbered reports that
may be lost. `PROJECT.json` lists these hazards at their lines.

## Modules

* `Sums`: the SQL `SUM` over numbered rows, as a recursive function; `Autopilot`
  adds up the fills in flight with it.
* `ConsumerEscrow`: the abstract specification. Free money moves into an escrow
  once per order key, and leaves it once, returned in full or spent with the
  rest returned.
* `ConsumerDatabase`: one variable per table, one action per SQL statement that
  changes one, each an atomic step because each statement is its own
  transaction. The exception is the reservation, which is two: the statement
  takes its READ COMMITTED snapshot (`BeginReserve`), waits for the advisory
  lock inside itself and then commits (`reserveConsumerBalance` or
  `ReserveRefused`) with a daily sum and a duplicate test that may be stale, and
  a balance row that is read again. Here any statement may run at any time with
  any arguments, so what holds here holds whatever the callers do.
  The web store's `reconcileConsumerVenueOrder`, which only tests call, is the
  worker's `reconcile` without the job.
* `ConsumerCircuit`: the circuit row. The worker merges reasons in one
  statement; the web tier reads, merges and writes back.
* `ConsumerOrderFlow`: the order route and the worker's handler as processes
  over the tables, with the sweep, the evidence endpoint, the operator, crashes
  of either tier and lost answers. `live` is the set of requests whose
  transaction may exist on the venue.
* `ConsumerWithdrawalFlow`: the withdrawal routes, the worker's tick, the
  dispatch service and Solana. `queue` is the order of `updated_at` that the
  finality pass reads; the submit route is split at each await. `RowPending`
  is an RPC node that does not know a transaction, or a call to it that failed:
  a landed row may be passed over. `NewSignature` takes unused signatures in a
  fixed order, which loses nothing because they are only compared.
* `Autopilot`: one session. `row` is the status of the stored session, `loop`
  the timer loops with the tick each is in and the copy it holds, `registered`
  the timer `LOOP_TIMERS` knows, `ticking` the mutex `ACTIVE_TICKS`. A tick is a
  process with one step per await that touches the row, the position, the
  counters or the venue; any of its awaits may throw (`TickFails`) and the
  worker may restart at any point, after which the scan that starts the loops
  again may fail (`StartupScanFails`). A control reads the row, starts or stops the
  loop, and writes the row in a second step. `venue`, `lost` and `sent` are what
  the venue knows, `stops` and `raced` what callers may rely on.
* `CrossVenueExecution`: one execution. `plan` is the stored plan, `route`,
  `cancel` and `ingest` are functions of the web tier with the plan each
  computed from its read, `run` is the worker's coordinator and the report it is
  delivering, `exposure` what was bought less what was sold at the venues.
  `cron` is the idle stop between its look at the plans and the stop: the lease,
  the session count, the client and the machine's state are awaited in between,
  and any of them may end the call (`IdleStopDeclined`).
  `applyCrossVenueWorkerReport` and `requestCrossVenueCancellation` are the pure
  state machine of the plan.
* `MCConsumerDatabase`, `MCConsumerOrderFlow`, `MCConsumerWithdrawalFlow`: the
  symmetry sets for TLC. One `.cfg` per run.
* `SumsProofs`, `ConsumerDatabaseProofs`, `ConsumerMoneyProofs`,
  `ConsumerEscrowProofs`, `ConsumerOrderProofs`, `ConsumerWithdrawalProofs`,
  `AutopilotProofs`, `CrossVenueProofs`: the theorems, a module per component.

An operator whose comment begins with "Mutant" is the definition after it, or
the one it names, with a plausible slip in it;
no specification uses it. Substituted for the original it makes TLC find a
violation.

Abstractions. Rows are numbered; commitments, references and signatures are
model values. An idempotency key stands for the reservation id and the venue
order id, which are hashes of it. Amounts are small naturals and `MinFee`
replaces the 50,000 micro-USDC floor, so with the run's values the floor decides
the fee; the proportional part is in the definition and in the proofs. The
24-hour window of the daily limit is the whole behaviour. Expiry of a deposit
intent or a prepared withdrawal may happen at any time, and so may the end of
the 24-hour hold on a new wallet. A request that authentication, rollout or
risk policy refuses is a request that is never sent: those checks come before
any write. External, modelled from how the code uses them: the fills a venue
reports, the dispatch service (pays an id at most once, possibly after the
caller gave up: the code sends the id as `idempotency-key` and relies on it),
and finality on Solana.

In `Autopilot` a session is its status: `execution_enabled` is true exactly when
the status is `running`, and no other field guards a step but the cooldown,
which only delays proposals. Positions are quantities at price one; what a mark
says about profit and loss is free, so exits and the loss circuit may happen at
any tick that has a position. The daily notional is that of one day. A session
that waits for funding has no loop and is left out. In `CrossVenueExecution` leg
statuses and the hedge deadline are left out: with the reports the worker sends,
phase and amounts decide the status, and the only report that may follow the one
that sets the deadline is final, for which the deadline changes nothing. The
budgets for slippage and losses are one flag of a report. A crash of a function
or of the worker is a process that takes no more steps. The idle stop's lease and
count of armed sessions are only reasons to give up, and may come out either way
(a count that fails is taken as zero); `force=true`, an operator's call that looks
at no plan, is left out.

A refused settlement (`ReconcileRefused`) is decided and carried out on one
state, although the statement's target is a snapshot that may be a little older:
its fill and its job do not depend on the target, so only the moment differs.

## Runs

| Run | Result | Question |
|---|---|---|
| `DatabaseSettlement` | pass | Do balances, ledger and rows agree, and do the tables implement the escrow, for two orders under every order of statements? |
| `DatabaseLimits` | pass | By how much can overlapping reservations pass the daily limit? One order per other running statement. Does the ledger explain every mix of these with deposits, corrections, withdrawals and refunds? |
| `OrderFlow` | pass | Is an order sent at most once, never without a job, and is money marked only for a sent order? |
| `OrderFlowLiveness` | pass | Is every job closed and does reserved money move? |
| `OrderAmbiguity` | violation | Is a reservation never released while its order may be live? |
| `WithdrawalFlow` | pass | Is a withdrawal paid through one channel only, kept debited once dispatched, and do a broadcast that cannot be stored and every review halt trading? |
| `WithdrawalLiveness` | pass | Was what is finalized paid as requested although the wallet is bound anew, and is a landed withdrawal decided although a tick fails and the RPC node may not answer? |
| `WithdrawalPause` | violation | May the web tier stop without affecting custody? |
| `WithdrawalStarvation` | violation | Is a landed withdrawal decided when there are more rows than one pass reads? |
| `Autopilot` | pass | What do a stop, a risk halt, the order count, the capital ceiling and the recorded position mean while ticks, calls, failures and restarts interleave? |
| `AutopilotKill` | violation | Does an acknowledged kill hold? |
| `CrossVenue` | pass | Is a closed plan flat at the venues, a rejected one never traded, no report lost, and does a plan that needs a human halt trading? |

The four violations are in `PROJECT.json` under `findings`, each with the
sentence of the runbook or of the code it contradicts:

1. `OrderAmbiguity`: the route treats a lost answer, and a 500 after the
   transaction was sent, as a rejection and gives the money back.
2. `WithdrawalPause`: the transaction is broadcast before its signature is
   stored; a function that stops in between leaves a payment nobody records,
   and the row can be cancelled and refunded or prepared again.
3. `WithdrawalStarvation`: a finality pass reads the ten oldest submitted rows
   and pending rows keep their `updated_at`, so ten rows that never land hide
   all later ones. The model uses a pass of one row and two withdrawals.
4. `AutopilotKill`: a tick that read the session before the kill writes its copy
   back after it, status and all, and arms its timer again.

Some results worth knowing. `SubmissionNeverConflicts` shows that the branches
of the order route that halt with `nonce_or_idempotency_violation` are dead, so
the model has no step for them. `MissedDeadlineHalts` and `ReviewHalts` hold
only while the worker has not failed between the update and the halt: those are
two statements and nothing repeats the second. The worker may restart there
(`crashes`), or the halt may throw, `tick` logs the error and goes on, and the
next sweep no longer finds the jobs (`lostHalts`, `failures`). The first property
excludes these two and a resume by name. The evidence endpoint may lose its halt
the same way (`IngestHaltFails`); no property says otherwise. `ReservedMoneyMoves` has an
exception for a web function that died, because nothing enforces `expires_at`.
A row left `dispatching` by a restart stays there; `DispatchedNeverRefunded`
shows that it is not refunded. The web tier's halt can overwrite a reason code
that the worker adds at the same moment; the status stays halted.

For the autopilot, `QuietStopHolds` is what is left of a stop: acknowledged while
no tick is running and no resume is pending, it holds against orphaned timers,
watchers and restarts. `RunHasLoop` has two exceptions: a resume starts
the loop before it writes the row, and a startup scan that throws is logged and
not repeated. `raced` records either until a loop is started again. `BookMatchesVenue` and `ExposureBounded`
count the fills whose recording was cut off for good in `lost`: a crash or an
error between the order and `putAutopilotPosition` leaves a position that no
exit or ceiling sees. An expired session refuses its own protective exits
(`SubmitExit` needs `~expired`), and expiry ends the marking of an open position
unless the run was halted. `OpeningOrdersBounded` holds through all of it, since
the counter is stored before the order leaves.

For cross-venue executions, `ClosedMeansFlat` has the exceptions that the code
cannot see: a submission that times out is reported as failed without fills, a
lost answer counts as no fill, a hedge that times out may fill and is then
unwound as well, and fills whose report fails three times are never repaired.
`RejectedNeverTrades` rests on one coincidence: the route and the worker both
number their report 2. The run never looks at a cancel, and a cancelled plan is
not active, so the idle stop may take the worker away in the middle of a repair.
Without a cancel `IdleStopSpares` holds for every job that looked after the plan
was stored, however long it takes from the look to the stop. It does not hold of
a job that looked before (`cron = "early"`): look and stop are not atomic, the
POST route does not know of the job, and a plan stored and taken up in that
window is cut off without a cancel. The model has that behaviour, and
the other properties hold through it; no document of the repository promises
that it cannot happen, so it is not listed as a violation. A plan that needs a
human but whose function stopped before the halt stays without one:
`InterventionHalts` counts a function that is about to halt as halting, and says
nothing of one that died.

### Bounds

Two orders, two requests and two work orders let retries share a key, a work
order, both or neither. `DatabaseLimits` has two overlapping statements and
three keys, so the daily limit of one order really is passed and a third
reservation is refused. Two withdrawals, two signatures and two runs of the submit route
give every race of submit, cancel, re-preparation and claim, and two identical
transfers that are one transaction. One worker restart, lost halt, tick failure or
resume is enough to separate any two statements; more of them repeat the pattern.
`WithdrawalLiveness` reads as many rows per pass as there are withdrawals; the
opposite case is `WithdrawalStarvation`. Both passing withdrawal runs have a tick
that may fail anywhere (`MaxTickFailures = 1`). `WithdrawalLiveness` has two
amounts, so that a transaction may carry more than another row asks for, two
wallets and two bindings, with one run of the submit route; `WithdrawalFlow` has
two runs of it. The RPC node may fail any number of times. The longest runs are
`OrderFlow` and `WithdrawalLiveness` (three minutes); the largest, `CrossVenue`,
has 6.6 million states. `Autopilot` has two loops (one orphaned
beside a registered one), one call at a time, two opening orders and sizes that
can reach the ceiling, pass it and turn the position around; restarts, failures
and ticks are not bounded. `CrossVenue` has a notional of two, so that fills and
repairs may be partial and a residual may pass its budget of one, two attempts
per report and two ingesting functions, so that a late one races the next
attempt or the next report. One account suffices because every
statement touches the rows of one account; the theorems are for any number.
Deadlock checking is off everywhere: with finitely many keys the system may
simply be finished.

Symmetry is used for work orders, fill references, wallets and, in the database
runs, signatures, which are only compared for equality, and never in a run with a
liveness property. In the withdrawal flow signatures are new in a fixed order
instead.

### Fairness

`OrderFlowLiveness`: a web function or handler that is running takes its next
step (weak fairness per request; either may still crash), and the worker's
interval timer sweeps a late job and finishes its halt. Every deadline passes
in the end. Clients, evidence, operators and faults owe nothing.
`WithdrawalLiveness` and `WithdrawalStarvation`: the timer keeps ticking and
each call of a tick returns, the dispatch because it is cut off after 20
seconds; a tick that fails is followed by the next (`tick` catches what it
throws, a worker that died is restarted). Weak fairness of the worker's steps
together allows an RPC node that never knows a landed transaction, and then
nothing is decided. Strong fairness of `RowFinalized \/ RowReviewed` is the
assumption that a finality check which is made again and again gets an answer in
the end: the node is up now and then. Solana owes nothing: a transaction may
never land.

## Theorems

Proved by TLAPS for every value of the constants that satisfies their named
assumptions: any number of accounts, keys, requests, loops, calls and functions,
all amounts and limits. The assumptions say that counts and amounts are natural
numbers, that a statement can run at all and the fee is positive, and that the
model values for NULL are none of the values; the code's schema says as much.
Every inductive invariant was first checked by TLC as an invariant, with the
constants of the component's runs.

**Database** (`ConsumerDatabaseProofs`, `ConsumerMoneyProofs`, `SumsProofs`)

* `TypeCorrect` (`TypeOK`): all rows keep their type; in particular no balance
  column goes below zero. The inductive invariant `TypeInv` adds to `TypeOK`
  that a row in use belongs to an account (`RowsBelong`) and that a running
  statement has one, which the EXCEPT updates of a balance need.
* `OrdersFollow` (`OrderFollowsReservation`) and `LedgerExplains`
  (`LedgerExplainsRows`): order rows, reservations and ledger keys move
  together. Each is inductive with `TypeInv` (`RowsInv`).
* `OvershootBounded` (`DailyOvershootBounded`): the bound is not inductive, since
  a running statement holds an old daily sum. `DailyInv` counts, beside the rows,
  what every running statement that may still succeed would add: rows and pending
  additions never exceed the limit by more than one order per other statement.
* `ReservedExplained` (`ReservedIsHeld`): the reserved column is the sum of the
  reservations that hold money. So the guarded balance update of release and
  settlement always takes place, and the unconditional ledger insert beside it
  is right. `SumsProofs` gives the facts about `Total`: it changes by the
  difference when one row changes and is at least any one row.
* `LedgerAgrees` (`BalanceAgreesWithLedger`) and `TreasuryBacks`
  (`TreasuryBacksLiabilities`): from the same invariant `MoneyInv`; a release
  whose balance update were skipped would break it, so `ReservedIsHeld` has to be
  part of the induction.

**Refinement** (`ConsumerEscrowProofs`, and the first theorems of the flows)

* `DatabaseImplementsEscrow` (`ImplementsEscrow`): initial states map to initial
  states, reserve to `Hold`, release to `Return`, settlement to `Spend`,
  deposits, adjustments, withdrawals and refunds to `Transfer`, everything else
  to a stutter.
* `OrdersAreStatements` and `WithdrawalsAreStatements`: `FlowSpec => Spec` and
  `WithdrawalSpec => Spec`. Every step of a flow is one statement of the database
  with arguments the database allows, or leaves the tables alone. This is not
  immediate: that the key and the work order of a request are real ones, or that
  the worker holds a row when it finishes it, comes from the flow's invariant.
  `OrdersKeepMoney` and `WithdrawalsKeepMoney` draw the conclusion.

**Order flow** (`ConsumerOrderProofs`, invariant `FlowInv`): `OrderFlowTyped`,
`OneLive`, `LiveHasJob`, `SubmittedLive`, `NoConflict`, `OwnReservation`,
`DeadlineHalts`. The heart is `OwnKeys`: a request that holds a reservation, or
that held one and was seen by the worker, is the only one for its key, even after
it released the money or died. With the job row that `prepareReconciliation`
writes first, and with distinct work orders on jobs (`JobsDiffer`), one live
transaction per key and per work order follows, and a cached receipt turns out
to be the request's own (`ReceiptsOK`). `Undisturbed` is what nobody else
changes between two awaits of the route.

**Withdrawal flow** (`ConsumerWithdrawalProofs`, invariant `WithdrawalInv`):
`WithdrawalFlowTyped`, `OneWayOut`, `NoRefund`, `FinalizedPaid`, `DriftHalted`,
`ReviewHalted`. A prepared message is never taken off a row (`RowOK`): it
separates for good the rows the web tier may have broadcast from those the
dispatch service may have been asked for. `ClaimOK` says that a row the tick has
claimed stays its own until it answers, and `QueueOK` that the order of
`updated_at` lists the submitted rows, each once. `FinalizedPaid` needs a second
invariant on top of it. The finality check accepts any amount at least as large,
and compares the wallet it read with the pass; that the payment was exactly the
requested one follows from how the transaction was made. `ContentOK` says that every
transaction a row names, or the dispatch service has answered with, was signed
for that row's payment (`Signed`), because no step changes what a signed
transaction carries (`ContentKept`) or what a row pays (`TermsKept`).

**Autopilot** (`AutopilotProofs`, invariant `AutopilotInv`): `AutopilotTyped`,
`OrdersBounded`, `QuietStopKept`, `BookMatches`, `ExposureKept`, `RunKeepsLoop` and
the action property `HaltLatched` (`RiskHaltLatched`). All of them rest on
`OneTick`: `ACTIVE_TICKS` admits one tick however many loops a race of controls
and restarts has left alive. What a tick has read of the position is then still
so when it is used (`ViewOK`), and a copy of the row from before a risk halt can
be in no tick (`CopyOK`). `Timers` relates a pending resume to a loop.

**Cross-venue execution** (`CrossVenueProofs`, invariant `CrossVenueInv`):
`CrossVenueTyped`, `ClosedFlat`, `RejectedUntraded`, `InterventionSeen`,
`IdleStopSafe` and the action property `ReportsKept` (`ReportsOnlyAdd`).
`KeepsReports` compares what each writer has computed with the plan it is about
to replace: while the sequence is the one it read, writing loses nothing.
`Truthful` is what a final report must say of the exposure, by itself or with the
plan it finds, and survives reports that arrive late or twice. `RejectedUntraded`
shows what hangs on the number 2 that the route's rejection and the worker's first
report share.

Only model-checked: the liveness properties (`JobsAreDriven`,
`ReservedMoneyMoves`, `LandedIsDecided`), which need fairness and `ENABLED` and
are outside the prover's reach. Every invariant and every action property that a
passing run checks is a theorem. What the four violated properties say is false
and has no theorem.

## Not modelled

The request nonces, rate limits and wake jobs of the store: single statements
that no money depends on (`enqueueConsumerWake` may insert a second open job,
which only wakes the worker twice). The level-trigger and arbitrage strategies,
the other venues of the autopilot, and the SQLite and JSON variants of the
private state store. Cryptography, key derivation and capability tokens. User
interfaces, SDKs, command line tools and the services named in `PROJECT.json`,
each with its reason.

## Plan

1. Next modules: the level-trigger lifecycle under the tick of `Autopilot`, the
   batching of receipts in `said-receipts-service`, and the candidates named in
   `PROJECT.json` (nonce cache, relay, compute credits), each with its theorems.
2. Next theorems: the safety halves of the liveness properties. For
   `JobsAreDriven`, that an open job stays open until it is swept or reconciled;
   for `LandedIsDecided`, that a landed row stays in the queue and only moves
   towards its head while it is undecided; for `ReservedMoneyMoves`, that a
   reserved row always has a request that will move it or one that died.
