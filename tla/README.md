# Probeboard: a TLA+ model of the probe API and worker

This directory holds TLA+ models of the program in `src/`, the TLC
configurations that check them on small instances, and TLAPS proofs of the
results that matter most, for every value of the parameters.

Probeboard probes registered HTTP endpoints on an interval and keeps the results.
It is two kinds of process around one PostgreSQL database: the API, where users
register services and endpoints and sign in, and any number of worker processes,
which schedule and run probes, fold their results into aggregates, and retire old
partitions.  No process talks to another: everything they share is in the
database, and everything that can go wrong between them is a matter of the order
in which their statements and transactions commit.

## 1. Inventory

Paths are relative to `src/src/`.

| Component | State | Operations | Hard behaviour | What makes it correct |
| --- | --- | --- | --- | --- |
| **Probe scheduler** `worker/scheduler` | `endpoint_runtime` (next slot, current slot, lease), `claim_log`; in each worker the tick, the in-flight set, `stopping` | tick: adopt, reconcile, claim, dispatch; `runOne`: load, probe, record and release, or abandon; start, stop | any number of workers on the same rows; a crash between any two steps; replies lost; writes retried; a shutdown racing a tick | a slot is claimed once, one probe per endpoint at a time, one result per slot, no backlog replayed, a dead worker's slots reclaimed, a stop that leaves nothing running |
| **Probe pool** `services/probe-pool.service.ts` | map of in-flight slots | start, settle, drain | capacity read before an await and used after | bound on concurrent probes; the drain sees all work |
| **Result recorder** `services/result-recorder.service.ts` | `probe_results`, the lease | one transaction: insert and release; retries with a shrinking timeout | commit with a lost reply; retry past the grace | insert and release are atomic and idempotent |
| **Rollup** `worker/rollup` | `rollup_state.last_xid`, `probe_stats` | a pass: lock the state row, read the snapshot horizon, fold in batches, advance | result rows that commit out of xid order; two workers; failure between batches | every committed result folded exactly once, into every grain |
| **Partitions and retention** `worker/storage` | partition catalogue, pending detaches | create ahead; guard, detach concurrently, drop; recover | guard and detach are separate transactions; crash between detach and drop; a late insert | no unfolded result dropped; aggregates outlive raw rows; partitions exist before rows need them |
| **Statistics reads** `core/stats` | reads `probe_stats`, `rollup_state` and the retention edge | plan window, read, re-check retention, summarise | a partition retired while it is being read | a summary never silently misses retired rows |
| **Registration** `api/registration` | `services`, `endpoints`, headers, tags | create, update, delete under quotas | `FOR UPDATE` on the user, service or endpoint; two-row invariants | quota never exceeded, no lost or mixed update, a refused request stores nothing |
| **Rate limit** `api/auth` | `auth_attempts` | reserve (under advisory locks), succeed, prune | concurrent attempts | never more verifications in a window than the limit |
| **Password login, sessions** `api/auth` | `users.password_hash`, `sessions` | register, login, change password, logout, prune | a login racing a password change | a revocation reaches every session of its account; session cap |
| **OAuth login and linking** `api/auth` | `oauth_authorizations`, `oauth_identities` | start, complete, link, unlink | callback delivered twice, two first logins at once, two unlinks at once | one redemption per authorization, one owner per identity, never zero credentials |
| **Probe engine** `worker/probing`, with target host validation `core/ssrf` | one probe's deadline, its hop, the sockets, the bytes read | validate, resolve, connect, follow, read, judge | the deadline racing each await; two family queries; a connector with a timer of its own; a chain of redirects | every way of ending is one outcome, within the deadline; only validated addresses are dialled; up only on evidence |
| **Configuration** `core/config` | none | validation at start | relations between timeouts | the relations the scheduler's safety rests on |
| **Migrations** `core/db/migrator` | `schema_migrations` | up, down | two runs at once | each applied once, in order |
| Outcome mapping, histogram and percentile, JSON path and assertions | none | pure | boundaries | checked as operators of `ProbeRules` and `Stats` |
| Error log pacing, header encryption, provider strategies, audits, OpenAPI, bootstrap | none, or one small record | pure or I/O | none | unit-testable |

Interactions: the API's endpoint rows are what adopt, reconcile and claim join (the
scheduler never writes them; the API never writes `endpoint_runtime`, except by
the cascade of a delete). The recorder's transactions are what the rollup's
horizon waits for. The rollup's watermark guards retention. Retention moves the
edge that statistics reads check. `main.ts` stops the scheduler, then the rollup,
then closes the database pool.

`PROJECT.json` lists every component with its status, and every hazard with the
line where it bites and the property that covers it.

## 2. Plan

1. **`Scheduler`** with its abstract specification **`SlotLedger`**: the core.
   Done, with proofs (section 3).
2. **`Rollup`** with its abstract specification **`Aggregate`**. Done, with proofs
   (section 4).
3. **`Retention`**: partitions, the session lock, guard, detach, drop, crash and
   recovery, on top of what `Rollup` shows. Done, with proofs (section 5).
4. **`Accounts`** and **`AuthAttempts`**: the API's concurrent transactions on users,
   sessions, identities and OAuth flows, and the rate limiter before them. Done, with
   proofs (sections 6 and 7).
5. **`Registration`**: services, endpoints and their headers under row locks. Done, with
   proofs (section 8).
6. **`Stats`**: reads beside the rollup and retention, and the arithmetic of windows and
   percentiles. Done, with proofs (section 9).
7. **`ProbeRules`** and **`Probe`**: the rules of a probe and the probe itself. Done, with
   proofs (section 10).

Every safety property of a passing run is proved. Liveness (`DueSlotClaimed`,
`IntervalTakesEffect`, `EveryResultFolded`, `ExpiredRetired`, `EveryProbeEnds`) is checked and
not proved: the prover has no rule for it.

`Scheduler`, `Rollup` and `Retention` meet in the database, and each takes of the other what
that one is shown to do: a result is stored in one transaction (`Rollup`), "at or above
the watermark" is "not folded" (`Retention`), aggregates are exact and partitions go
whole (`Stats`). `AuthAttempts` stands before `Accounts` in every request.

Runs are kept to a few actors on one or two rows with clocks of a few units: the
interesting cases are orders of steps, not amounts. Every module is parameterised
by CONSTANTS with named assumptions and one action per operation and avoids
RECURSIVE, so that theorems can be stated of it.

## 3. The scheduler

### Modules

- `SlotLedger.tla`: what the scheduler promises. A ledger of slots: a claim appends a
  strictly later slot of its endpoint, an observation belongs to a claim and its
  claimer.
- `Scheduler.tla`: the program. `MCScheduler.tla` instantiates it for TLC.
- `SchedulerProofs.tla`: the theorems, in four parts: types and the pool, a graceful
  stop, the lease, and the evidence tables with the refinement.

### State and actions

| Model | Code |
| --- | --- |
| `runtime[e]`, `claimLog`, `results` | `endpoint_runtime`, `claim_log`, `probe_results` (by key) |
| `endpoints[e]` | the columns of `endpoints` the scheduler joins, and whether the row exists |
| `proc[w]` | `stopping`, `shutdownDeadline` and the drain timer of one process |
| `tick[w]` | the statement `runTick` awaits, the capacity it read, the rows a claim returned |
| `jobs[w]` | `ProbePoolService.inFlight`: for each slot where `runOne` awaits, the timer it runs under, the attempt number and the attempt id |
| `Adopt`, `Reconcile`, `Claim`/`ClaimFails`, `Dispatch` | the awaits of `runTick`, in order; each takes the code between its reply and the next await with it (the re-check of `stopping` and the capacity with `Reconcile`, for instance) |
| `LoadSucceeds` ... `AbandonFails` | the awaits of `runOne`, `recordAndRelease` and `guardedAbandon` |
| `Start`, `Stop`, `DrainStarts`, `DrainEnds`, `Exit`, `Crash` | `onModuleInit`, `doStop`, `drain`, `main.ts`, and losing the process |
| `CreateEndpoint`, `UpdateEndpoint`, `DeleteEndpoint` | the API's writes, as far as the scheduler sees them |

One statement is one step, with the database's `now()`. The claim is split: it
commits in `Claim` and its reply arrives in `Dispatch`, since a shutdown or crash
in between is what the lease is for. A lost reply of the claim leaves rows
leased that nobody runs. A terminal write may commit with its reply lost
(`ReleaseCommits` with `Fault`), and the worker then retries it.
`FOR UPDATE ... SKIP LOCKED` is modelled against the row locks that matter, those
of terminal writes in progress (`LockedRows`): reconcile and claim may each pass
over any of those rows.

Time is one integer clock. Every timer and statement timeout is an instant the
clock cannot pass without its owner acting (`Tick`), which says that a timeout does
fire, not how soon anything else happens. A claim's reply must start its slots
within `LEASE_SLACK` of the commit: this is the delay that the code allows for with
`SCHEDULER_LEASE_SLACK_MS`, and the lease theorems below rest on it.

### What the abstraction leaves out

- The cadence of the tick: a tick may start at any time after the last one ended.
- The 1 ms floor of a statement timeout, below the unit of the clock: a write that
  starts with no time left begins and ends in the same instant.
- A statement of a crashed worker that the server still commits afterwards. For the
  claim, it is the same as a claim whose reply is lost, which is modelled.
- The contents of a monitor, an outcome and a log line.
- `DbService`'s pool of connections: a statement that cannot get one is a failed call.
- `started_at` in the key of a result: one attempt has one, like its attempt id.

### Runs

| Run | Instance | Shows |
| --- | --- | --- |
| `Lease` | 1 endpoint, 2 workers, the lease at its configured floor, 2 write attempts with a backoff, 1 fault, 1 crash or shutdown | `LeaseCoversProbe`, `NoConcurrentProbes`, `OneResultPerSlot`, `PoolWithinConcurrency`, `StopComplete` (nothing is left running by a stop, and no write begins after its grace), `ObservedOnlyWithResult`, `NoClaimAfterStop`, and that the scheduler implements the ledger |
| `Change` | fairness, 1 worker, intervals 1 and 2, jitter, 1 edit, 1 fault, 1 crash or shutdown | `BacklogNotReplayed`, `DueSlotClaimed`, `IntervalTakesEffect` |

Two workers are enough: every race here is between one holder of a lease and one
taker. `MAX_TIME` lets a lease be granted, lapse and be granted again; `MAX_FAULTS`,
`MAX_STOPS` and `MAX_EDITS` bound failed calls, crashes and shutdowns, and writes of
the API. A lease equal to `LOAD_BUDGET + PROBE_MAX + LEASE_SLACK` is the tightest the
configuration admits. Workers are symmetric in `Lease`, which checks no liveness.
`Lease` runs with CHECK_DEADLOCK FALSE: there the clock may end before a backoff or a
drain timer does. Its pool has one place, and one endpoint is enough to overfill it (a slot
still being written while the next is claimed); pools of any size are `PoolBounded`.
With a pool of one, a slot that is still being written keeps its worker from claiming, so
the statement that ends it cannot meet a later lease of the same worker on that endpoint
(the case of `endpoint-runtime.repository.ts:252`); a pool of two holds as well, in 7.4
million states, and the theorem `ObservationsBacked` covers every size.

`Change` uses `BACKOFF = 0`, so no timer ends after the clock does; its worker takes over
from the process it was before a crash, and what a peer adds to that, exclusion, is what
`Lease` checks.

### Fairness

`FairSpec` assumes that time passes; that a worker's tick goes on (it re-arms itself in
`finally`, whatever failed); that a slot in the pool gets to its end (every await of
`runOne` has a budget, a deadline or a statement timeout); and that a stop goes on to
its exit and a process that ended is started again (`docker-compose.yml:97`,
`restart: unless-stopped`). Nothing makes a fault, a crash, a stop or an API write
happen or not happen. Fairness is weak throughout, one condition for each loop of a
process, not one for each action.

### What is proved

For all finite sets of endpoints, all sets of workers, all intervals and all
configurations that satisfy the schema's cross-field rules (`ConfigAssumption`),
without any bound on time, faults, stops or edits beyond their being numbers (`SchedulerProofs`):

| Theorem | States |
| --- | --- |
| `TypeCorrectness` | `TypeOK` |
| `PoolBounded` | `PoolWithinConcurrency` |
| `ClaimsMoveForward` | `SlotsClaimedOnce` |
| `LeaseSufficient` | `LeaseCoversProbe` |
| `ProbesExclusive` | `NoConcurrentProbes` |
| `ResultsUnique` | `OneResultPerSlot` |
| `SchedulerImplementsLedger` | `ImplementsLedger` |
| `StopIsComplete` | `StopComplete` |
| `StopSendsNoClaim` | `NoClaimAfterStop` |
| `ObservationsBacked` | `ObservedOnlyWithResult` |
| `BacklogBounded` | `BacklogNotReplayed` |

The argument, from the bottom:

1. `TypeInv`: types, each pool finite, and an attempt id drawn before a slot is
   written. `PoolInv` adds that the places promised to a claim in flight are still
   free when its reply comes: only the tick adds to the pool, and it is one chain.
2. `SlotOrder`: a row's next slot is later than its current one, which is no earlier
   than any slot of its endpoint in the claim log, and an endpoint without a row that
   could get one has no claim in the log. `NextSlotLater` (the floor + 1) gives the
   strictness.
3. `LeaseInv` speaks of *hands*: the slots a worker was handed by a claim and has not
   yet probed to the end, in the reply on its way or in the pool. Each is in the claim
   log under this worker, no two hands hold the same slot, and each is covered by
   a lease that lasts as long as it may still take (slack, load and probe; then
   load and probe; then probe). A lease still running cannot be taken over, and its
   fence cannot be met by anybody else's write, since slots are claimed once.
   `LeaseCoversProbe` is the part of this about jobs that are loaded or probed.
4. `ResultInv`: a result is of a claimed slot, and while a slot is still in a pool
   every result of it is the one its own attempt wrote. That makes the retry after a
   lost reply harmless. The refinement follows from 2 and 4.
5. `StopsInv` says where every timer of a stopping process may end: within the grace
   counted from now until the drain starts, within the drain's own end afterwards. A
   slot that is loading leaves room for its probe. So the grace, which covers a load
   and a probe, outlives every slot, and no write begins after it.
6. `BacklogInv` counts what may still be replayed. An endpoint is *owed* a slot when its row
   was computed with another interval than the endpoint's, or its next slot was past when an
   earlier one was claimed. Only an edit adds an endpoint to `Owed`, and one at most; adopting,
   reconciling, releasing add none; a claim can replay only what was owed, and leaves its row
   with a slot after now. So replays and owed endpoints together never exceed the edits, which
   is inductive where `BacklogNotReplayed` is not.

What each needs of the configuration can be read off the proofs: the lease theorems use
`LEASE >= LOAD_BUDGET + PROBE_MAX + LEASE_SLACK`, `StopIsComplete` uses
`GRACE >= LOAD_BUDGET + PROBE_MAX`; the others use no relation between the parameters.

### What is only model-checked

`DueSlotClaimed` and `IntervalTakesEffect` are liveness, out of this prover's reach
(fairness and ENABLED).
Types and `SlotsClaimedOnce` are proved, and no run repeats them.

## 4. The rollup

### Modules

- `Aggregate.tla`: what the rollup promises. A stored result is counted once in each
  of its cells, in all of them at once, or not yet in any.
- `Rollup.tla`: the program. `MCRollup.tla` instantiates it for TLC.
- `RollupProofs.tla`: the theorems.

### State and actions

| Model | Code |
| --- | --- |
| `open`, `table`, `nextXid` | the transactions of the recorders, `probe_results` with `insert_xid`, PostgreSQL's transaction counter |
| `lastXid`, `stats` | `rollup_state.last_xid`, the additive columns of `probe_stats` (one stands for all: they are summed by the same statement) |
| `pass[w]` | the local variables of `runOnce` and what its transaction has written and not committed (`delta`) |
| `service[w]` | `RollupService`: running, stopping, or its process down |
| `InsertResult`, `CommitResult`, `AbortResult` | an attempt of `recordAndRelease` and its end |
| `LockState`, `ReadHorizon`, `FindUpper`, `FoldBatch`, `Advance` | the statements of `runOnce`, in order; `FindUpper` and `FoldBatch` once per batch |
| `PassFails`, `Stop`, `Exit`, `Crash`, `Start` | `tick`'s catch, `stop`, `main.ts`, and losing the process |

The transactions of a pass run at READ COMMITTED: each statement has a snapshot of its
own, so results may commit between the horizon, the batch bound and the fold, and
the model lets them. `SKIP LOCKED` makes a second pass end at once, having changed
nothing: it is the guard of `LockState`. A pass has a transaction id, drawn when it
locks the state row, which bounds its own horizon. No result carries that id, so the
model does not spend a number on it and keeps the number of the next id (`own`).
Other writing transactions, which hold a horizon back and store no result, are
represented by those that abort.

`InsertResult` waits for an earlier attempt at the same result, as the primary key
does, and inserts nothing after one that committed with its reply lost (ON CONFLICT DO
NOTHING). `Cell` truncates `started_at` to the grain, which is `date_trunc` at UTC.

Left out: `advanced_at`, which only paces a warning; percentile histograms, whose
buckets are added up by the fold as the counters are; the interval between passes.

### Runs

| Run | Instance | Shows |
| --- | --- | --- |
| `Exact` | fairness, 2 results, 2 workers, batches of 1 transaction, 2 write attempts, 1 failed pass, 1 crash or shutdown | `AggregatesExact`, `EveryResultFolded`, and that the rollup implements the aggregate |

Two results are the least with a batch, a next batch, and one that commits late behind the
other; they share a minute and an hour. More of them, with their batches, are `RollupExact`.
Two grains are enough: the third is another truncation.
The batch bound is counted in transactions, as the code's `OFFSET` over distinct
`insert_xid` does; a batch of one is the boundary where an off-by-one never ends.

### Fairness

`FairSpec` assumes that inserting transactions end (each statement has a timeout, and
PostgreSQL ends those of a lost connection), that a pass goes on and the next follows
(`tick` re-arms itself in `finally`), and that a process that ended is started again.
It is weak, one condition per worker for all steps of a pass. A write need never be
attempted, and a pass need never fail.

### What is proved

For all finite sets of results, all sets of workers and grains, every batch size, and
without a bound on faults, stops or attempts beyond their being numbers:

| Theorem | States |
| --- | --- |
| `TypeCorrectness` | `TypeOK` |
| `RollupExact` | `AggregatesExact` |
| `RollupImplementsAggregate` | `ImplementsAggregate` |

The inductive invariant `IInv` adds to types and exactness what makes the horizon work.
`XidInv`: no open transaction is below the watermark, so nothing can commit there any
more. `PassInv`: one pass at a time; its horizon is at most every open id, so the
ranges it has read are closed (`RangeClosed`); its `delta` is the count from the
watermark it started from to the end of its last batch. `FoldBatch` then extends a
range (`CountSplit`) and `Advance` joins it to the counted one. The refinement needs
`RowInv` besides: a result has one row, so that counting rows is counting results
(`CountResults`, by a bijection). That a horizon exists at all is `LeastOfNat`.

`EveryResultFolded` is liveness and is model-checked only.

## 5. Storage maintenance

### Modules

- `Retention.tla`: partition creation and retention by any number of workers.
  `MCRetention.tla` instantiates it for TLC.
- `RetentionProofs.tla`: the theorems.

### State and actions

| Model | Code |
| --- | --- |
| `catalog[f][n]` | the partition of family `f` for its `n`-th period: absent, attached, detach pending, or detached and not dropped |
| `holder` | the dedicated session with the retention advisory lock; `NoWorker` when none lives |
| `tick[w]` | the tick in progress: its `now`, the family and list `runFamily` is at, and the rows of that list still to do |
| `timer[w]`, `service[w]` | the timer `arm` set, and how many creations in a row were missed; lifecycle of `StorageMaintenanceService` |
| `result[r]` | a result from its probe to its fold, or to the drop of its partition |
| `StartWorker`, `TickFires`, `CreateCommits`, `CreateFails` | `onModuleInit`, the timer, and `ensure` with its transaction lock, awaited at the start and tried in a tick |
| `LockTried`, `ReadList`, `CheckGuard` | the lock of `run`, `pendingDetaches`/`expired`/`leftovers`, `blockedBy` |
| `DetachBegins`, `DetachEnds`, `DetachRefused`, `DetachTimesOut` | `detach`, in both modes: PostgreSQL commits the pending mark in a transaction of its own, waits for the users of the partition, and completes; one partition of a parent may be pending; a lock timeout leaves the mark |
| `DropTable`, `CloseSession`, `PassFails` | `drop`, `close`, and an error that ends the pass |
| `SessionLost`, `SessionGone` | the end of the lock's session, and the next statement on it |
| `Stop`, `Exit`, `Crash` | `onModuleDestroy`, `main.ts`, and losing the process |

The guard and the detach are two statements, and a result may commit, or a peer may
start a pass, between them. Reads go through the pool and go on after the session is lost;
`OnSession` lets a detach or a drop run only on the session that holds the lock.

The calendar is a constant: the start of each period of each family. A tick
computes its cutoffs from the `now` it began with (`at`), not from the clock at
the statement.

### What the abstraction leaves out

- The rollup is one step, `Fold`, that folds results found through the parent table, into
  partitions that are attached; a committed result counts as unfolded until then. That
  "at or above the watermark" is "not folded" is what `RollupExact` proves.
- Workers' clocks agree. Times are days against clock skews of seconds.
- `LATE`, the longest from a probe's start to its result's commit, is less than the raw
  retention: the retries of one write take some hours at the extreme of every setting
  (`RESULT_WRITE_ATTEMPTS`, `SCHEDULER_SHUTDOWN_GRACE_MS`), and the retention is at
  least two days (`schema.ts:477`).
- `AlignAssumption`: whatever a creation makes for raw results, it makes for their
  aggregates. It holds when `PARTITION_AHEAD_DAYS` is at most 28 times
  `PARTITION_AHEAD_MONTHS`; the defaults are 3 and 2. Beyond that a raw partition can
  for a while be ahead of the month of its hourly aggregates, before either is needed.
- `AheadAssumption`: what a creation makes reaches past `Gap`, the longest from its start to
  the commit of the next when `MAX_MISSED` are missed in between and every tick in between
  takes `PASS_TIME`; and the calendar holds every instant of the clock. With prompt passes and
  one creation missed this is what `schema.ts:635` demands, more than two intervals ahead.
- `horizonDays`, which only reports.

### Runs

| Run | Instance | Shows |
| --- | --- | --- |
| `Guard` | 1 result, 2 workers, raw and minute families, a day of one unit, 1 failed statement or lost session, 1 crash or shutdown | `RetentionInv` (types and `UnfoldedKept`), `RetentionHonoured`, `RetiredUnderLock` |
| `Retire` | fairness, 1 result, 1 worker, raw, claim log and hourly families, a day of 3 units and a month of 2 days, any creation missed but no two in a row, 1 failed statement, 1 crash or shutdown | `PartitionAtHand`, `ExpiredRetired` |

One result is enough for `Guard`: its guard concerns one partition and one
result that may be late, aborted, committed or folded at any step of the pass. Two workers are
needed for a lock that changes hands. A retention of two days in a run of four lets
partitions expire under a pass that began before and one that begins after. In `Retire` the clock
passes three days and into the second month, so that periods of every family are created, used
and left, and the tick that misses its creation may be the one before a new day.
At the end of the clock a tick is due at once (`Due`), which keeps `Retire` from
ending with a partition that only a later tick would retire.

### Fairness

`FairSpec` assumes that time passes, that a tick goes on and the next comes (`arm` in
`finally`), that a write that has begun ends, that the rollup folds what it finds
(its own fairness, section 4), and that a process that ended is started again. Nothing
makes a statement fail or a worker stop. Each condition is weak.

### What is proved

For any calendar, families, results and workers that satisfy the named assumptions of
`Retention`, without a bound on faults and stops, and for a calendar of any length (the clock's
bound says how far `AlignAssumption` was stated) (`RetentionProofs`):

| Theorem | States |
| --- | --- |
| `UnfoldedSafe` | `RetentionInv`: types, and `UnfoldedKept` |
| `RetentionPeriodHonoured` | `RetentionHonoured` |
| `RetiresUnderLock` | `RetiredUnderLock` |
| `PartitionsAhead` | `PartitionAtHand` |

`UnfoldedKept` is not inductive: the guard and the detach are two statements. What
bridges them is that a partition past its guard is *doomed*: past its retention, and
holding nothing unfolded. Doom is final. Time only adds to the first half; the second
could only be undone by a result that commits into the partition, and a write still open
began at most `LATE` ago, which `LATE < Keep["raw"]` and `Keep["raw"] <= Keep` of the
aggregates put within retention. The invariant `KeptInv` therefore says, beside types and
`UnfoldedKept`: a tick's `now` is not ahead of the clock (`TimeInv`); a write is no older
than `LATE` (`WritesInTime`) and its raw partition is attached until it commits
(`OpenAttached`); every attached raw partition has its aggregates' partitions attached, or past
their retention (`CellsAtHand`, by `AlignAssumption`); whatever has left its parent is doomed
(`RetiredDoomed`), and so is whatever a pass has guarded and is about to mark (`ListsDoomed`). `SessionAssumption` only says that
"no worker" is not one of them.

`PartitionAtHand` says only what holds now. What is inductive is how long it will: `AheadInv`
gives each running worker a `Deadline`, the latest instant at which its next creation commits
if it misses all it still may, and says that every instant until then has its partitions. A
missed creation moves the next try one interval and one pass later and takes one from what may
be missed, so the deadline stays; a creation that commits, by any worker, renews every
worker's (`CreationRenews`, by `AheadAssumption`); retention takes nothing that starts or
ends after now. A worker that found the creation lock taken and can miss no more counts on the
holder's creation instead. `TimesInv` is the part about timers: no tick runs longer than
`PASS_TIME`, no timer is overdue, none is set further than an interval.

That a creation another worker counts on does not fail (`MayFail`) and that no more than
`MAX_MISSED` fail in a row are bounds of the model, not of the code: a database that is away
longer than the horizon leaves no partition, whatever the workers do.

`ExpiredRetired` is liveness and is model-checked only.

## 6. Accounts, sessions and OAuth

### Modules

- `Accounts.tla`: every request of `api/auth` that changes an account, a session, an
  identity or a flow. `MCAccounts.tla` instantiates it for TLC. `AccountsProofs.tla`: the
  theorems.

### State and actions

| Model | Code |
| --- | --- |
| `users`, `identities`, `lastLogin` | `users` (existence, password version), `oauth_identities` and its `last_login_at` |
| `sessions`, `issuedAt` | `sessions` with the way each ended; `issued_at`, of which only the order counts |
| `authorizations` | `oauth_authorizations` |
| `req[r]` | a request: the statement it is at and its local variables |
| `Register`, `Login`, `InsertWaits`, `IssueSession`, `FindSurplus`, `RevokeVictims` | `register`, `login`, `issue` and `revokeBeyondNewest`. The insert takes its `issued_at` as it starts and may then wait for the account's row; the subquery and the UPDATE of the revocation are two steps |
| `Guarded`, `Logout`, `LogoutAll`, `ChangeRequested`, `ChangePassword` | `SessionGuard` and the requests behind it; `revokeAllForUser` with the lock it takes first |
| `StartFlow`, `Consume`, `ProviderAnswers`, `ProviderFails` | `start`, `complete` up to the provider's answer |
| `FindOwner`, `ReadUnderLock`, `LookupAddress`, `CreateAccount`, `AttachIdentity`, `ResolveWinner` | `resolveSignIn`, `resolveUnknownIdentity` and the race that ends in a unique violation |
| `LinkLocks` ... `LinkIssues` | `completeLink`, one transaction |
| `UnlinkChecks`, `UnlinkDeletes` | `unlink` |
| `Sweep`, `Die` | a flow that runs out of time, and a process or connection lost half way |

A step is one statement, or what lies between two points where another connection can get
in. The row locks are guards (`UserFree`, `RowFree`, `SignupLockFree`); what a transaction
has written and not committed stays in its request.

Left out: the hash and its verification, which take time and nothing else; expiry of a
session, which only shortens its life; the locks of the single rows one statement updates,
taken at once. The branch that links by a verified address (`linkByEmailAllowed`) cannot be
reached: nothing in the program sets `email_verified_at`, and `LookupAddress` refuses.

### Run

`Accounts`: three requests of any kind on one account that exists and one that may come to
exist, one provider account of each of two providers, two flows, a session cap of 2, one
password change, one death or lapse. Three requests are needed: several properties take two that race and a third that
prepared the ground (a flow, a session). It checks

- `AccountsInv`: types; `CredentialKept`, an account always has a way to sign in, however
  unlinks overlap; and `OneRedemption`, one flow, one sign-in or link;
- `LinkedSessionRevoked`: a session a link issued does not outlive a logout of everything
  that ended the session the link was made from;
- `SessionsCapped`: at rest an account has at most `MAX_SESSIONS` live sessions;
- `NotTakenByOneself`: a person is not told that an address is taken by the account their
  own concurrent sign-in has just made;
- `IdentityRowsKept`: an identity changes its owner only by an
  unlink, and `last_login_at` never goes back.

### What is proved

`AccountsProofs` states all five for any set of accounts, any finite sets of provider accounts,
flows, requests and first sessions (the latter within the cap, as the program would have
left them), any `MAX_SESSIONS`, and any number of password changes and deaths:

| Theorem | States |
| --- | --- |
| `AccountsKept` | `AccountsInv` |
| `LinkedRevoked` | `LinkedSessionRevoked` |
| `CapKept` | `SessionsCapped` |
| `NobodyShutOut` | `NotTakenByOneself` |
| `IdentitiesStay` | `IdentityRowsKept` |

None is inductive, for each rests on what another request is in the middle of. `IInv` says that:

1. `TypeInv`: types; what a request has at each statement (`Shaped`); and that a password has
   been replaced as often as changes are over (`PasswordsCounted`).
2. `RowsExclusive`: two requests never hold one users row. So an unlink that has counted two
   credentials still finds two when it deletes (`UnlinkLeavesOne`), and `CredentialKept`
   follows. `FlowsTakenOnce`: a flow somebody has is gone, and somebody is one request or
   session, which gives `OneRedemption`.
3. `BornInv`: of those who sign an address up one at a time is past the advisory lock; an
   account's own provider account is linked to it, and nobody between lookup and insert has
   an identity whose account is already there.
4. `SessionInv`: a session that does not exist yet has no row; a link in progress keeps its
   session active under the lock; the victims of a logout of everything include what was linked
   from them (`VictimsClosed`). `LinkedSessionRevoked` is then kept by both orders of the two
   transactions.
5. `CapInv`: stamps are distinct, and for *every set* of requests that are about to revoke, what
   their revocations would leave is within the cap, up to the sign-ins outside that set
   (`CapsReached`). `SessionsCapped` is the case of the empty set; the quantifier is needed
   since revocations computed from different reads commit in any order.

## 7. The authentication rate limit

### Modules

- `AuthAttempts.tla`: `reserve`, `markSucceeded`, `pruneBefore`. `MCAuthAttempts.tla`
  instantiates it for TLC. `AuthAttemptsProofs.tla`: the theorems.

### State and actions

| Model | Code |
| --- | --- |
| `addressRows`, `accountRows`, `succeeded` | the rows of `auth_attempts`, each named by the request that inserted it |
| `req[r]` | the request, with the timestamp it took on arrival, its keys, and where it is |
| `Arrive`, `CountAddress`, `CountAccount`, `Record` | `reserve`: timestamp, advisory locks, the counts and the insert |
| `Fails`, `Succeeds` | the verification's outcome; `markSucceeded`, which takes none of the locks |
| `Prune`, `Pass` | the sweep, and time |

A request may be held up between its timestamp and its insert, by at most `DELAY`. The
model assumes `RETENTION >= WINDOW + DELAY`; the configuration asks for
`AUTH_ATTEMPT_RETENTION_MS >= AUTH_WINDOW_MS` (the defaults leave a day and more between
them).

### Run and theorems

`Limit`: four requests of any kind from two addresses on one account, with every budget
at its least interesting value. Four are needed to fill a budget of two, overflow it, and have a success in between. It
checks `WithinLimits`: types, `AddressWithinLimit` and `AccountWithinLimit` (in *no* window are
more admitted than the limit, of the account those that no success has come after).

`LimitsHold` (`AuthAttemptsProofs`) states `WithinLimits` for any finite set of requests, any
addresses and accounts, all budgets, and any `RETENTION >= WINDOW + DELAY`, with no use of
the clock's bound. A full window is not by itself inductive: the count and the insert are
apart. The invariant `IInv` adds what each leans on. `Alone`: the advisory locks keep requests that
share a key from being between count and commit together. `Kept` and `Fresh`: an
admitted attempt leaves the table by a success (for its account) or when it is too old for any
request that still waits, so the table shows a request everything recent
(`CountsSeeRecent`). `Room`: whoever has counted a key still has a place when it inserts. The
insert then adds one to a set with room (`OneMore`); every other step admits nobody (`Calm`).

## 8. Registration

### Modules

- `Registration.tla`: the services `ServicesService` and `EndpointsService` of one user.
  `MCRegistration.tla` gives the request bodies. `RegistrationProofs.tla`: the theorems.

### State and actions

| Model | Code |
| --- | --- |
| `service`, `endpoint`, `headers` | the rows of `services`, `endpoints` and `headers`, committed |
| `req[r]` | a request: where its transaction is, its body, and what it has read |
| `Holds`, `Needs`, `WaitsFor` | the row locks and index entries a transaction has, and what a statement waits for |
| `Submit`, `Read` | the body's checks, and the read of the owner before the transaction |
| `LockUser`, `ReadService`, `Find`, `CreateService`, `Count`, `Insert` | `createForService` and `createImplicit` |
| `InsertService`, `KeyShare` | `createExplicit`: the insert, then the wait of its foreign key for the user's row |
| `LockOwner`, `Joined`, `Patch`, `Rename`, `Replace`, `Commit` | `update` of both services, header replacement included |
| `Statement` | delete, with its cascade, and `setEnabled` |
| `Victim` | PostgreSQL's deadlock detector |

A transaction's writes are applied by its last step, and until then its locks keep out
whoever would see them. A unique violation, a foreign key violation and the CHECK of
migration 0010 are outcomes of the statement that meets them: `refused` is an
answer the handler means, `fault` and `checkFault` are errors nothing catches.

Left out: tags, which are replaced as headers without secrets are; methods, names and
descriptions, which behave as `enabled` does; the spelling of URLs and paths (they are
canonical here, and a validation repeated for a changed base URL may refuse or not).

### Run

`Registration`: three overlapping requests, any of twenty-one bodies, a quota of two, one
service with one endpoint and a secret header at first. Two requests race; the third is needed
for a circle of three and for a rotation between a read and a write. It checks

- `BoundsKept`: the quota holds, and no request runs into the CHECK on interval and timeout;
- `StoredWhole`: types; the headers of an owner are one request's list, never a union; and a
  request that was refused or failed has left nothing behind;
- `KeptSecretCurrent`: a secret sent without a value never brings back one that was rotated
  since;
- `OnlyAskedFields`: an update changes what it was asked to change (no lost update);
- `DeadlocksKnown`: every circle of waits holds a `createExplicit`, or is an exchange: updates of
  base URLs, or of paths, each taking the name another is giving up.

### What is proved

`RegistrationProofs` states all five for any set of requests, any bodies the schemas accept
(`CallsAssumption`), any origins, paths, intervals and timeouts, and any quota:

| Theorem | States |
| --- | --- |
| `BoundsHold` | `BoundsKept` |
| `StoredWholeHolds` | `StoredWhole` |
| `KeptSecretsCurrent` | `KeptSecretCurrent` |
| `AskedFieldsOnly` | `OnlyAskedFields` |
| `DeadlocksAreKnown` | `DeadlocksKnown` |

The invariant `IInv`: a request follows the steps of its kind, and has what it goes on with
(`Shaped`); nothing is stored of one that is not done (`Fresh`), and nobody acts on a row that
was not stored (`KnownIds`). `UserAlone` and `OwnerAlone`: the two locks exclude, whatever
deadlocks are broken up meanwhile. Under them, what has been read of the owner is still so
(`OwnersCurrent`: the row, and the header rows that are deleted and rewritten), and whoever has
counted still has a place (`RoomLeft`); quota, CHECK, header lists and the two action
properties follow. `DeadlocksAreKnown` needs the locks only: from any circle without
an explicit creation follow the waits; whoever waits for the user's row waits for its holder, who
waits for an index entry, whose holder is an update past its owner's lock, and all that
such an update can wait for is another one's entry of the same kind.

The proof attempt found the second kind of deadlock. The property was stated without it at first,
and three requests of the bodies tried then do not show it; two updates of two services
exchanging base URLs do, and the bodies now include them.

An endpoint's path is joined to a base URL that its update does not lock
(`endpoints.service.ts:280`). Both are validated wherever either is written, so no
reachable state shows it, and no property is about it.

## 9. Statistics

### Modules

- `Stats.tla`: `StatsRepository.windowStats` with `planWindow` and `percentile`, beside a
  rollup that folds each probe in one step and a retention that detaches whole
  partitions. `MCStats.tla` gives a small calendar. `StatsProofs.tla`: the theorems.

| Model | Code |
| --- | --- |
| `Plan`, `Unavailable`, `Ask` | `planWindow`, `requireRetained`, `retainedFrom` |
| `Read`, `Answer` | the one statement over the planned buckets, and `assertStillRetained` |
| `Fold`, `Retire`, `Delete` | the worker's two services, as sections 4 and 5 show them, and the owner's delete |
| `BucketIndex`, `Histogram`, `Percentile` | `histogram.ts`, `percentile.ts`; a value is a fraction |

Time is in minutes (an unaligned window is refused before). The sums of an answer are
represented by how often each probe is counted in it. `MAX_PASSED` bounds how many older
partitions a retention pass may leave behind (blocked by their guard, or their detach timed
out) when it retires a later one.

### Runs

`Window`: every window of a calendar of three days of two hours of two minutes, months of two
days; six probes with latencies on both sides of an edge, on it, and beyond the last one;
`MAX_PASSED = 1`. All alignments of a window's ends occur. It checks
`AnswerExact` (an answer counts every folded probe of its window once, with the read and
the two looks at the catalogue apart, as long as no retired partition lies behind an
attached one), `PlanAsNeeded` (types; a refusal only of what is retired; the two-edges bound of
NFR-9), and `PercentilesSound`. `Hole` shows the disagreement of section 12.

### What is proved

For any calendar whose widths divide each other (`CalendarAssumption`), any probes, latencies,
families' states and `MAX_PASSED`, and any ascending edges in whole milliseconds
(`EdgeAssumption`, which `HISTOGRAM_EDGES_MS` meets) (`StatsProofs`):

| Theorem | States |
| --- | --- |
| `PlansAsNeeded` | `PlanAsNeeded` |
| `AnswersAlwaysExact` | `AnswerExact` |
| `PercentilesAlwaysSound` | `PercentilesSound` |

1. The loop of `planWindow` is a recursive function on instants. That the function exists is
   shown by naming it: from an instant it takes the steps (`Onward`) that every set closed
   under a step has (`TilesRecursive`; the library's induction theorems cannot be
   instantiated here, so a smallest counterexample, `LeastOfNat`, takes their place).
2. `PlanIsCoarsest` says what the loop computes without the loop: a bucket is planned exactly if
   it is aligned, lies in the window, and lies in no coarser aligned bucket that does. The
   coarser one would hold the step at its start, and the steps never jump over a start
   (`Uncut`).
3. From this, `PlanCoversOnce`: every minute of the window is in one planned bucket and nothing else
   is; and `LeftoversFew`: buckets of a finer width lie in the first and in the last partial
   bucket of the next width, which bounds their number (NFR-9).
4. `IInv` is inductive: types, a refusal only of what is retired (partitions go and do not come
   back), the plan is that of the window asked for, and `ReadInv`: what was read is
   exact if every partition the plan needs is attached now, since then it was attached
   at the read. That is what the second look at the catalogue rests on (`LookedUpAgain`), if no
   retired partition lies behind an attached one.

5. `PercentilesSound` compares a sum folded over a histogram with a count of probes. The
   library's `SumFunctionOnSet` folds by a choice of elements; that it is the sum which adds up
   element by element is again shown by a smallest counterexample, among the sets it sums over.
   With it, the sum of the buckets before one is the number of probes in them
   (`SumBefore`), and the sum of all of them the number of probes (`SumAll`).
6. Ascending edges put the latencies of an earlier bucket below those of a later one
   (`EdgesAscend` and what follows from it), so the bucket where the running sum reaches the rank
   is the bucket of the true rank (`RankIsTrue`), and what is left of the rank lies between
   nothing and the bucket's whole count (`RestWithin`).
7. The two ends of a bucket, tightened by the least and the greatest latency, stay inside the
   bucket and inside those extremes (`Ends`). An interpolated value lies between the ends, hence
   in its bucket (`ValueInBucket`), and a higher percentile is in a later bucket or further on
   in the same one: the values are ordered. Fractions are compared by cross-multiplication.

## 10. The probe

### Modules

- `ProbeRules.tla`: the pure rules. Address tables and host validation
  (`core/ssrf/host-validator.ts`), classification of failures (`failure-classes.ts`,
  `outcome-mapping.ts`), redirects (`redirect-rules.ts`), JSON path and assertions.
- `Probe.tla`: one probe (`probe.ts`, `pinned-connect.ts`, `abort-race.ts`,
  `body-cap.ts`). `MCProbe.tla` instantiates it for TLC. `ProbeProofs.tla`: the theorems.

### State and actions

| Model | Code |
| --- | --- |
| `pc`, `request`, `ahead` | the await `probe` is at, its local variables, what follows an awaited teardown |
| `dns`, `marks`, `endAt`, `cert` | the two queries of the resolver, the boundaries, `certExpiresAt` |
| `sockets` | connections of the dispatchers, with the connector's timer |
| `HopAborted`, `HopWithoutDns`, `HopResolves`, `FamilyAnswered`, `Resolved` | the start of a hop: guard and resolver (`Resolves` says whether it is called, which it is even when the deadline has passed) |
| `Connected`, `Secured`, `ConnectFails`, `ConnectorTimer` | the connector |
| `Answered`, `Discarded`, `PeerCloses`, `ChunkRead`, `BodyEnds`, `Closed` | headers, redirects, the capped read, teardown |
| `DeadlineFires`, `Tick` | the `AbortController`'s timer, and time |

A probe is one process and its environment: resolver, servers and two kinds of timer, which
fire at their time. The settings read only at the end (expected statuses, assertions) are
chosen there. The guard is enabled. A teardown is prompt for a socket nobody was handed
and otherwise may take time. Codes are those the source documents. Abstracted: URL and address parsing, the
grammar of a JSON path (a path is a sequence of segments, or unsupported), the walk along a
certificate chain.

### Runs

`Probe`: `TIMEOUT` 2, connector floor 1, two redirects, a cap of two letters; an https
origin, its plain form, another host as two literals (one public, one refused), and a blocked port;
names that resolve to public, private (mapped) and failing answers in each family; bodies at,
below and beyond the cap, in one chunk or two. Three hops are enough to leave the origin and
come back. It checks

- `OnlyValidatedPeers`: a socket is opened to an address the guard has passed, and no other;
- `ChainKeepsRules`: configured secrets go to the configured origin only and do not come back, a
  rewritten request keeps no header of its body, and only a redirect is refused on the budget;
- `SocketsEndWithProbe`: when the probe has ended, no connection is left open, and an attempt to
  connect that is still on is ended by its own timer within the probe's budget and the floor;
- `ReportOfFinalHop`: types; certificate and boundaries of the hop that ended it, the phase that
  was unfinished, and a latency without the teardown;
- `VerdictOfBody`: "up" rests on what was read, and a body that fits the cap is judged whole;
- `OutagesCounted`: a resolver's failure is an outage, a refusal is not;
- `EveryProbeEnds`.

CHECK_DEADLOCK is FALSE: a probe ends. `EveryProbeEnds` assumes
fairness of the engine alone (its own steps and its timers); nothing is expected of the
network. `Phase` shows the disagreement of section 12.

### What is proved

`ProbeProofs` states, for any urls, methods, statuses, bodies and answers of the resolver, any
deadline, connector floor, redirect budget and cap:

| Theorem | States |
| --- | --- |
| `PeersAlwaysValidated` | `OnlyValidatedPeers` |
| `ChainAlwaysKeepsRules` | `ChainKeepsRules` |
| `SocketsAlwaysEndWithProbe` | `SocketsEndWithProbe` |
| `ReportAlwaysOfFinalHop` | `ReportOfFinalHop` |
| `OutagesAlwaysCounted` | `OutagesCounted` |
| `VerdictAlwaysOfBody` | `VerdictOfBody` |

All but the last come from one invariant, `IInv`, which says where the probe is:

1. `Steady` holds at every await. Until the deadline has fired the clock has not passed it
   (`now <= TIMEOUT`), so that every connector's timer is set to end by `TIMEOUT + FLOOR`
   (`SocketsSafe`), which is what `SocketsEndWithProbe` asks of the attempts left behind. The rules of
   the chain are stated of the request that is *to come*: one that still has the
   configured headers is at home and every request before it was (`AtHome`), and one
   whose method is not the first one's has been rewritten to GET and lost the headers of its
   body (`MethodKept`). The properties are about the requests sent.
2. One predicate for each await (`AtHop` ... `AtDone`) says which boundaries are marked
   and which cannot be, what sockets there are, whether the request has gone out, and, for
   the two awaits of a teardown, what can follow it. `AtClosing` is where the ends meet: an
   end in sight is the last thing noticed, and a stalled phase is the one the marks show.
   That gives `ReportOfFinalHop` its phase and its latency.

Two assumptions are about the environment: the codes a socket, a TLS library or a resolver
reports are those `failure-classes.ts` documents (`CodesAssumption`; any other is an
UNKNOWN_ERROR), and a family that failed has no addresses (`InputAssumption`).

The proof attempt corrected two statements that held in the run for its choice of inputs.
`RewrittenCarriesNoBody` named POST and PUT as the methods that can be replaced; a 303 rewrites
any method but GET and HEAD, and the run now has DELETE beside POST and HEAD. `SecretsStayHome`
compared ports as written; an origin is the same with its default port spelled out or left
out.

`VerdictAlwaysOfBody` has an argument of its own, about data:

1. `EvidenceInv` follows a body: what has been read and what is left make up the text that was
   sent, however it was cut into chunks (`BodyRead`), and a verdict is on evidence as soon as
   it is given. `readCappedBody` therefore keeps the whole of a body that fits and the first
   `CAP` letters of one that does not.
2. Of a part of a text the evaluator answers yes only where the whole would (`PartJudged`):
   a text that is contained stays contained, and what asks for absence or for JSON is not
   concluded from a part.
3. Of a whole text it answers as the assertion means (`WholeJudged`). The reference is
   `Content`, what is found at every path into a value: an atom, so many elements, or the names
   of its members. `structurallyEqual` is equality of content (`EqualIsSameContent`), and what
   `readJsonPath` finds equals a value when the content *below* the path is that value's
   (`ReadIsBelow`).

The walk, the comparison, the content and the joining of chunks are recursive, and a recursive
definition chooses a function. The first group of lemmas shows that there is one: where every
value is made of values that come before it, functions on the parts of the domain are put
together to one on all of it (`RecursiveFunction`). What `JSON.parse` returns is such a domain
(`JsonAssumption`: a finite tree, where an object has each key once), and so are pairs of values
and the steps of a loop. `ShapeAssumption` says that a body is text in chunks, and an assertion
of one of the three kinds `evaluate.ts` knows, whose path the grammar reads or refuses. TLC
evaluates both on every run of `Probe`.

For this proof the walk in `ReadJsonPath` is a recursive function and no longer a fold, and
the reference of `Holds` is `Content`; it compared meanings as nested sets before.

`EveryProbeEnds` is liveness, which stays with TLC.

## 11. Not modelled

Left out for good: OpenAPI documents, HTTP bootstrap and wiring (no state), header encryption
and provider strategies (library calls and HTTP, whose outcomes are inputs here), audits
(read-only reports), error log pacing (a counter that chooses which errors are logged).
Migrations are run one at a time by the deployment; what two `migrate up` at once would do
(`migrator/runner.ts:41` takes no lock) has no promise of the code to be held to.

Reads (list, get) are left out of `Registration` and `Accounts`; parsing and validation of
request bodies and of configuration variables is taken as done.

## 12. Where the code and its documents disagree

- **A deadline between two answers** (run `Phase`). `failure-classes.ts` says that an
  earlier unfinished phase is never read as a later one. `timedResolver` marks `dns_done` when
  either family query is over, so a deadline that fires while the other is unanswered
  is reported as a connection timeout.
- **A hole behind the oldest partition** (run `Hole`). `window.ts:32` says "Always a typed
  rejection, never a plausible-looking partial answer". `retainedFrom` takes the oldest attached
  partition for the edge, but `runFamily` goes on past one that is blocked or that timed
  out, and a window over a partition that went before an older one is answered without it.

The following were met while modelling and are described, not run.

- **The lease and the terminal write.** `docs/m4-plan.md:817`: "The lease must outlast
  everything between the claim committing and the release committing". The configuration
  checks it against load, probe and slack; each statement of the terminal write may take
  `SCHEDULER_SHUTDOWN_GRACE_MS` (`scheduler.service.ts:298`) and the transaction is tried
  `RESULT_WRITE_ATTEMPTS` times. A release can commit on a lapsed lease. No harm follows
  to slots or results (section 3); the endpoint may be claimed by a peer while its last
  result is still being written.
- **The sweep at shutdown.** `docs/m4-plan.md:1065`: "Anything else this worker holds" is
  released at a stop. `doStop` has no such sweep: a slot whose write failed keeps its
  lease until it lapses.
- **The bound of a stop.** `docs/m4-plan.md:1078`: "A stop is therefore bounded by
  `SCHEDULER_SHUTDOWN_GRACE_MS`". `doStop` first awaits the tick in flight, whose statements
  have no timeout, and then drains for a whole grace.
- **Two missed ticks.** `schema.ts:632`: "Two missed maintenance ticks must still leave a
  partition to write into". The rule under it requires `PARTITION_AHEAD_DAYS` to exceed two
  intervals, but the tick after two missed ones comes three intervals after the last
  creation. With one day ahead and an interval of three sevenths of a day, a creation at
  hour 21 of a day covers the next day; the ticks that follow at 7 and 17 o'clock are
  missed, and the third comes at 3 o'clock on a day that has no partition. The default
  (3 days, 1 hour) is far from the edge.
- **Users first.** `user.repository.ts:139`: "a consistent users-first order is what keeps
  two transactions that both need both locks from deadlocking". `createExplicit` inserts its
  service before its foreign key asks for the user's row; an implicit creation of the same
  origin holds that row and waits for the insert's index entry. PostgreSQL ends one of the two
  with 40P01, which is answered 500. `DeadlocksKnown` shows that the only other way is a set of
  updates exchanging base URLs or paths, answered the same.
- **The session just issued.** `session.repository.ts:119`: "The session just issued is the
  newest, so it always survives". A concurrent login may be issued later and, with a cap
  of one, revoke it.
- **A password change beside a login.** `login` verifies the hash it has read and issues a
  session in another transaction (`auth.service.ts:106`); a change of the password between
  the two revokes the sessions there are, and the new one stays.
