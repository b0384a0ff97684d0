# venturi in TLA+

A specification of [venturi](../src/README.md), a durable job queue on PostgreSQL:
TLA+ modules translated from the Rust source and its SQL, TLC configurations that
check them on small instances, and TLAPS proofs of the safety properties for every
value of the constants. `PROJECT.json` maps each definition to the source
lines it stands for and lists the runs, mutants, findings, hazards and theorems.

Paths below are relative to the repository root (`src/worker/mod.rs` is
`src/src/worker/mod.rs` seen from here).

## 1. The system

| Component | State | Operations | Source |
|---|---|---|---|
| Storage adapter | jobs and journal tables | enqueue, claim_next, settle, recover, extend_lease, merge_into, cleanup; reads | `src/postgres/mod.rs`, `src/store.rs`, `migrations/` |
| Worker | JoinSet, `inflight`, `by_kind`, claim counter, cancellation token | run: recover, fill, wait, reap, drain, release | `src/worker/mod.rs` |
| Registry | kind -> handler, lease, cap | dispatch, catch panics, report | `src/worker/registry.rs`, `src/context.rs`, `src/outcome.rs` |
| Queue (producer) | none; locals of a call | enqueue, enqueue_at (submit, apply_merge, insert), cleanup, reads | `src/queue.rs`, `src/task.rs` |
| Backoff | none | retry_delay: Fibonacci, clamps, jitter | `src/backoff.rs` |
| Notifier | a LISTEN connection | connect, recv, reconnect | `src/postgres/notify.rs` |
| Migrations | schema history, the session's advisory lock | migrate: lock, apply, unlock | `src/postgres/migrations.rs` |
| Queries, statistics | none | query_jobs, job, stats | `src/postgres/mod.rs` |

Workers and producers never talk to each other: they share two tables, and each
store call is one transaction. A claim stamps a row with `claimed_by`, a lease and
a new `run_count`; that run number is the claim's epoch. Whoever ends the claim
(settle, release, recover) repeats the epoch in its WHERE clause.

What is hard here:

- a handler may outlive its lease while its job is recovered and run again, also by
  the same worker, also under the same identity;
- every worker keeps copies of rows (the claimed record, the rows of a stale scan)
  across awaits and writes counts from them later;
- any store call may fail, before or after it committed, and a process may die
  between any two;
- the loop's own bookkeeping (slots, per-kind counts, the map used to release
  aborted jobs) must survive panics, lost tasks and failed settlements;
- the priority rotation, the per-kind caps and the fallback claim interact;
- submit is a read-modify-write over three calls without a transaction;
- a worker goes to sleep on what it saw a moment ago, and only a notification on a
  connection that may be dead, or the end of the sleep, tells it of anything newer;
- a job's next run depends on counts, clamps and saturating arithmetic spread over
  the registry, the worker and the backoff, and a journal that may be unreadable;
- the migration lock belongs to a pooled connection, not to the call that took it;
- readers see a table that changes between their statements.

What makes each component correct: the journal and the failure count agree with
what ran (storage, lifecycle); a claim is ended by its holder or after expiry,
exactly once, and does not stay for ever (lifecycle); caps and slots hold of what
really runs, no claim is dropped, no tier starves, shutdown ends (worker); no
submission is lost, and content only where the documentation allows (dedup); work
is noticed within `poll_max`, and at once while the connection works (wakeups); a
failing job runs when its schedule says so, from the right carry, and ends (registry,
backoff); every version is applied once and wholly, and startups get through
(migrations); a walk neither repeats nor skips, a snapshot errs only about jobs that
moved (queries).

## 2. The modules

| Module | Models | Used by |
|---|---|---|
| `Store` | each SQL statement as a guard and a row function; no state | `Lifecycle`, `Dedup`, `Execution`, `History` |
| `Lifecycle` | tables, workers, producers; every transaction an action; crash, restart, failing calls | `MCLifecycle` |
| `AbstractQueue` | what the `Store` trait promises: jobs, runs and results, no tables or workers | `Lifecycle` (refinement) |
| `Backoff` | `retry_delay`, `Backoff::new`, `add_duration`; no state | `Execution` |
| `Execution` | one job through all its runs, with the actual schedule | `MCExecution` |
| `WorkerLoop` | one worker's loop by program counter; claim order, kinds, caps, JoinSet | `MCWorkerLoop` |
| `Dedup` | concurrent calls of `Queue::submit` against runs of the candidate | `MCDedup` |
| `Wakeup` | the LISTEN connection, its channel, `wait_duration` and the sleep, with time | `MCWakeup` |
| `Migrate` | concurrent startups under the advisory lock | `MCMigrate` |
| `History` | `query_jobs` page by page and `stats`, between writes | `MCHistory` |
| `StoreProofs`, and `...Proofs` of each state machine | lemmas about rows; the theorems of section 4 | `StoreProofs`: `LifecycleProofs`, `DedupProofs`, `ExecutionProofs` |

Operators named `Faulty...` are wrong variants of the definition that follows them
(a dropped guard, a missing reset). Only the mutation tests of `PROJECT.json` use
them: each property must fail when its mutant replaces the original.

### Store and Lifecycle

A row has the columns the lifecycle reads or writes. `carry` is abstracted to its
provenance, the run whose handler produced it (0: an enqueue or a merge). Kinds, priorities and
payloads are left to the other modules. `runs` is what the workers hold in memory:
a record per claim, from `claim_next` (`phase = "claimed"`) through `spawn`
(`"running"`) until it is reaped, released or lost. `stale` is the part of a stale
scan that is still to be recovered.

| Action | Code |
|---|---|
| `Enqueue`, `MergeInto`, `Cleanup` | `Store::enqueue`, `merge_into`, `cleanup` |
| `Claim`, `ClaimReplyLost`, `Spawn` | `claim_next`; an error after it committed; `apply_task_lease` and `spawn` |
| `Settle`, `LoseRun` | `reap`/`settle` with what `erased_run` reports; a settle or release that fails, or a JoinError |
| `FindStale`, `Recover`, `RecoverFails` | `recover_stale`, one `recover` per row |
| `Shutdown`, `ForceFinish`, `ReleaseRun`, `Stop` | leaving the loop, the end of the drain, `release`, return |
| `Crash`, `Restart`, `Tick` | the process, the database clock |

Times that the code takes from a worker's own clock (`visible_at`, `finished_at`)
are taken from the one clock here; the leases, which are what exclusion rests on,
are stamped and compared in database time in the code too. A delay is any member of
`Delays`, so neither the backoff schedule nor a skewed clock matters to the
properties.

### AbstractQueue

A job waits, is run by one run at a time, and each run that is over leaves exactly
one result under its number, which sends the job back to waiting or ends it.
`Lifecycle!Queue` instantiates it: `phase` is the row's status (`PhaseOf`), `started`
its run count, `results` the journal without the entries of merges (`ResultsOf`).
Everything about leases, epochs, copies, late settlements, faults and merges maps to
a step of one job or to stuttering; that is the property `ImplementsQueue`.

### Backoff and Execution

Execution follows one job: `Claim`, `LoadHistory` (`history_for`, which may fail and
then yields an empty history), one of `Returns`, `Pauses`, `Panics` (a handler,
`erased_run` and `settle` together, as `Finish`), `Released` (a forced shutdown) or
`Expires` (`recover_stale`). Delays are those of Backoff, in ticks; times in the row
are relative to now, so `Tick` counts `visible_at` down. The task is one that follows
the guide: it counts the failures in its history and gives up after `limit` of them,
or never. Contention for the job is Lifecycle's matter. A carry is the number of the
run that returned it. The jitter's f64 product is modelled by exact fractions,
truncated to whole ticks; its hash by any sample below one. After an expired lease the
code takes the worker's schedule even if the task has its own, and so does the model;
section 3 says what the documentation has to say to that.

| Action | Code |
|---|---|
| `Claim`, `LoadHistory` | `claim_next`; `history_for`, `Context::new` |
| `Returns`, `Pauses`, `Panics` | `erased_run`, `settle`, `settlement_for`, `retry_or_backstop` |
| `Released`, `Expires` | `release`; `recover_stale` with the worker's own backoff |

### WorkerLoop

The loop between two of its awaits is one step; `pc` says where it stands. Row data
is reduced to a status and a priority, and a settlement applies exactly if the task's
claim is still `live`, which is what Lifecycle shows of the SQL guard. A job name
stands for a stream of jobs of one kind, each in one of the tiers `TiersOf` gives it,
so that a queue that never runs dry has finitely many states; `claim_counter` is kept
modulo the period of the rotation. A wait may end at any time.

| Action | Code |
|---|---|
| `Enqueue`, `Merge`, `BecomeVisible` | producers (a merge overwrites the priority of a pending job), and the passing of time |
| `FinishHandler`, `LoseTask`, `Cancel` | a handler ends, panics outside the registry's guard, or reaches an await after `abort_all` |
| `RecoverStale`, `FillAttempt`, `FillNothing`, `FillShutdown` | `recover_stale`; the top of the fill loop |
| `ClaimNext`, `ClaimFallback`, `ClaimNone`, `ClaimFails` | `claim_next` at the reserved floor, then at none |
| `Spawn`, `Wake`, `WaitShutdown`, `Reap` | `spawn`; the branches of `select!` |
| `AbortAll`, `Join`, `JoinedAll`, `Release`, `Stop` | the end of `drain`; `force_finish` |

A claim passes over the rows that another session has locked just then (`SkipLocked`):
any set of the candidates, so the reserved claim may miss the only row it is reserved
for, and the fallback may go to another tier. `skips` counts such claims, under the
same bound as the faults. `abort_all` only marks a task "aborting"; it is over when it
reaches an await (`Cancel`) or its end (`FinishHandler`), if it ever does, and the join
waits for that without a deadline. `passed` is a history variable for `BoundedBypass`.
It starts anew when the watched job becomes eligible, changes its tier, or a merge or
an enqueue changes who shares the tier with it.

### Dedup

One submission is one call of `enqueue`: `Submit`, `Lookup` (dedup_candidate),
`Decide` (journal read and `Task::merge`, whose answer is free), `ApplyMerge`,
`Insert`; `Fail` and the second half of `Answer` are store calls that fail before
or after they committed. A payload is the set of submissions whose content it
contains. The job a submission inserts has its name. `acked` and `applied` are
history. `priority`, which a merge also overwrites, is left to `WorkerLoop`.

### Wakeup

The same loop as in WorkerLoop, reduced to when it looks at the table, with time
added. A countdown per row holds the ticks left to its `visible_at`, or to the
expiry of another worker's lease, and one holds what is left of the sleep; `Tick`
moves them all, so there is no last moment. A tick is the 5 ms below which
`wait_duration` does not go. A scan returns the `StaleLimit` claims that expired first
and leaves the others to later rounds (`FindStale`). Store calls, connection attempts
and the delivery of a notification may take any time; only the end of a sleep is prompt.

| Action | Code |
|---|---|
| `MakePending`, `ClaimElsewhere`, `FinishElsewhere` | `enqueue`, `claim_next` and `settle` by producers and other workers |
| `MergeBegin`, `MergeEnd` | the row lock of `merge_into`, which `SKIP LOCKED` passes over |
| `Forward`, `LoseConnection` | the task `listen` spawns; the connection dies, noticed or not |
| `Start`, `RecoverStale`, `ClaimNext`, `FillEnds` | one round of `run` |
| `Query` | `wait_duration` on `next_visible_at`, with this host's clock off by up to `Skew` |
| `SleepOver`, `Notified`, `Reconnect`, `Reap` | the branches of `select!` |

`late` counts the ticks a job was overdue while the loop slept, `blind` the rows the
timeout was computed without, `left` the scans that found an expired claim and had no
room for it; all three are history. Only the order of expiry matters to the scan, and
of two expired claims the one more scans have left over expired first.

### Migrate

One call of `PostgresStore::migrate` per process at a time, over a session of its
pool: `Get`, `Lock`, `Read` (refinery reads the history table), `Apply` once per
missing version (DDL and history row in one transaction, `Execute`), `ApplyEnds`,
`Unlock`. The lock is session-level: it is re-entrant (`depth`), stays with a
connection that goes back to the pool, and ends with the session. Faults: any
statement fails, the reply to a commit is lost, the caller drops the future (a lock
request on its way is still granted, `GrantDropped`), a connection breaks, a process
dies. How refinery decides what to apply and what PostgreSQL does with locks and
sessions is taken from how this code uses them.

### History

A reader walks the history with a filter (`WalkBegins`, `NextPage`, the cursor being
the last row of the page) or calls `stats` (`StatsCalled`, then one action per
statement: `CountPending`, `CountClaimed`, `CountDead`), while jobs are enqueued,
claimed, ended and deleted. `created_at` comes from the producer's clock, so any
stamp may be inserted at any time. `steady` is history: the jobs that matched the
filter, or kept their status, all along.

## 3. The runs

| Run | Checks | Result |
|---|---|---|
| `lifecycle` | type, failure count = failures in the journal, hole-free journal, one handler per epoch, supersession only by recovery, copies current; claims end by holder or expiry, carry only from the holder, terminal rows final | holds |
| `recovery` | an expired claim does not stay, with more of them than a scan returns; Lifecycle implements AbstractQueue | holds |
| `worker_loop` | type, exact bookkeeping, caps, no claim unaccounted for | holds |
| `worker_live` | bounded bypass past locked rows and merges; each tier is served, without caps, if handlers return; shutdown completes if each aborted handler reaches an await or its end | holds |
| `dedup` | type, no answered submission lost, content lost only by contention, progress only by a stale or replacing merge | holds |
| `wakeup` | type, lateness at most `poll_max`, and as much again per disturbance and per scan without room for the claim; each sleep covered by its timeout or a wakeup | holds |
| `execution` | type, runs when a schedule says so, a counting task gives up in time, the backstop is passed only by expiry, the carry is the last returned, the job ends | holds |
| `migrate` | type, what a call read of the history stays true, no half migration, the lock has an owner, startups return | holds |
| `history` | type, a walk neither repeats nor misses, a snapshot is off only by jobs that moved | holds |
| `backstop` | ADR 13: a job at the backstop is dead | violated |
| `worker_starves` | ADR 22: nothing starves, with a cap on the low tier's kind | violated |

The violated ones compare the code with a sentence of its documentation; the
counterexamples are described under `findings` in `PROJECT.json`. Six more places
where the text promises more than the code does show in the shape of a property that
holds:

- ADR 19 says that "recovery and ordinary retry share the same backoff", and the
  documentation of `Task::backoff` and the guide's table of builder options have the
  task's schedule override the worker's. `recover_stale` takes the worker's whatever
  the task's is, which the repository knows as the open todo
  01KTM8QQZ2YEHDDHMMFK79DWFJ. `RunsWhenDue` asks for the task's own schedule after a
  failed run, and accepts either after an expired lease.
- ADR 21 has the worker, at the drain timeout, abort "any handler still running" and
  release its job. `force_finish` joins all aborted tasks before it releases any job,
  and the join has no deadline. One handler that blocks its thread (a case that
  `docs/design/worker-model.md` and the comment on `default_concurrency` know of) keeps
  the worker from stopping and everybody else's jobs claimed until their leases
  expire. `ShutdownCompletes` has as its premise that no handler does so.
- `docs/design/worker-model.md` says a failed settlement "retries with backoff"; `reap`
  logs it and drops the result, and the job runs again once its lease has expired
  (`LoseRun`; `ExpiredClaimIsRecovered` and `ImplementsQueue` say what is left).
- `Task::merge` calls coalescing without concurrent enqueues exact; a single With
  that straddles a run of the candidate writes back the carry from before it
  (`ProgressLostOnlyByStaleMerge`).
- `migrate` calls a failed unlock harmless because the lock goes with the connection;
  the connection is pooled, so another process may wait for as long as this one keeps
  it. `LockHasOwner` and `MigrateReturns` except exactly such locks (`stray`).
- `Snapshot` is "point-in-time"; it is three statements (`SnapshotOffByMoved`).

### Bounds

- `lifecycle`: one job, two workers of the same identity (only the epoch tells them
  apart), three runs, time 0..4, lease 1 with a task lease of 3, one merge, one
  fault. Enough for: a lease that expires under a handler, recovery by the other or
  the same worker, a second claim while the first handler is alive, a late
  settlement, and a recovery from an old scan after the lease was extended or the
  job claimed anew. Rows are independent of each other except in the stale scan
  (`recovery`, two jobs with `StaleLimit` 1) and in claim order (`WorkerLoop`).
- `MaxInt` stands for 2^31 - 1; it is reached, so the failing claim at the top and
  the saturating failure count are both exercised.
- `worker_loop`: two slots, three tiers of two kinds, one of them capped, one fault or
  skip. Strict priority and no merges, since the other run has them. Symmetric in the
  task ids.
- `worker_live`: one slot and two jobs, so that every claim of one is one the other did
  not get; ratio 2 (period 4); merges raise the normal job to high and the low one, which
  is watched, to normal, and lower them again; one fault or skip. The bound of
  `BoundedBypass` is reached, with a skip and without, from either reserved floor. This
  run and `worker_starves` use no symmetry, since they check liveness.
- `dedup`: three submissions of one key are the least that show a lost With (the
  insert and two merges on one base), plus one without a key; two calls at a time,
  two runs per job, one fault. `Stamps = {0}` makes every choice among pending
  siblings possible, which covers any order of the producers' clocks.
- `wakeup`: three jobs and two slots give full and free slots with work left over;
  delays reach beyond `PollMax`, so both terms of the minimum occur; scans return one
  claim (`StaleLimit` 1), so two of three expired claims are left over; two
  disturbances, skew one tick. Symmetric in the jobs. `wakeup_exact` needs one job,
  no disturbance and no skew.
- `execution`: `MaxU64`, `MaxU128` and `Far` are small enough that every saturation
  happens: the curve reaches `MaxU64`, the delay its cap, a pause of 9 the end of the
  calendar at 6. The task's backoff is given as zero, which the constructor repairs.
  Three panics, expiries or failed reads take the count past the backstop of 6 and
  past a task that counts to 3; `MaxInt` 11 leaves room for every run.
- `migrate`: two processes, one with two connections so that a stray lock and a fresh
  call can meet in one pool; three versions as in the code; two faults at any point.
- `history`: three ids of two kinds with two stamps, so ties cross page boundaries;
  page sizes one, two and unlimited; no filter, and filters by kind, by status and by
  `finished_at`. Only the unfiltered walk has a page of two and another after it.

Deadlock checking is off where the system may stop: a worker that has returned, and
producers that have all been answered, a job that has ended, and startups that wait
for a lock nobody will release.

### Fairness

- `Lifecycle!Fairness`: a worker that is up keeps going round its loop, whose wait
  is bounded by `poll_max`: it scans, recovers the rows it found and spawns what it
  claimed. Nothing is assumed of handlers, producers, operators or the clock.
- `WorkerLoop!LoopFairness`: the loop goes on (weak fairness): its awaits are bounded,
  all but the join at the end, which has nothing to do until a task is over; `select!`
  polls its branches in random order, so neither the shutdown nor a finished handler is
  passed over for ever (strong fairness). What is asked of handlers stands in the
  properties: `EveryTierServed` has as its premise that they return, and
  `ShutdownCompletes` that each one that is aborted reaches an await or its end. A
  handler may be stuck in an await for ever; one that blocks its thread may hang the
  shutdown.
- `Execution!FairSpec`: the clock runs, an idle worker polls (`poll_max`), the journal
  read returns and a handler ends. Pauses, panics, releases and expiries are not fair.
- `Migrate!FairSpec`: a call under way goes on (weak fairness), and PostgreSQL queues
  the waiters of a lock, so one is not passed over for ever (strong fairness of `Lock`).

## 4. The proofs

Proved with TLAPS for every set of jobs, workers, processes, submissions and keys and
every value of the other constants, from the named assumptions of the modules
(`StoreAssumption`, `BackoffAssumption` and one per state machine). Every safety
property of the passing runs, invariant or action property, and the refinement is
stated by a theorem:

| Module | Theorems (property) |
|---|---|
| `LifecycleProofs`, invariants | `TypeCorrect` (TypeOK), `FailuresCounted` (FailureCountMatchesJournal), `HistoryComplete` (JournalHoleFree), `EpochsUnique` (OneHandlerPerEpoch), `SupersessionJournalled` (SupersededOnlyByRecovery), `SnapshotsStayCurrent` (SnapshotsCurrent) |
| `LifecycleProofs`, steps | `ClaimsEndProperly` (ClaimEndsByHolderOrExpiry), `CarryComesFromHolder` (CarryOnlyFromHolder), `TerminalRowsFinal` (TerminalIsFinal), `Refinement` (ImplementsQueue) |
| `WorkerLoopProofs` | `TypeCorrect`, `Bookkeeping` (BookkeepingExact), `Capped` (CapsRespected), `NoClaimForgotten` (ClaimsAccountedFor), `NoStarvation` (BoundedBypass) |
| `DedupProofs` | `TypeCorrect`, `NoWorkLost` (NoSubmissionLost), `ContentKept` (LostOnlyByContention), `ProgressKept` (ProgressLostOnlyByStaleMerge) |
| `WakeupProofs` | `TypeCorrect`, `SleepIsCovered` (SleepCovered), `DelayIsBounded` (DelayBounded) |
| `ExecutionProofs` | `TypeCorrect`, `DocumentedDelay`, `DelaysKept` (RunsWhenDue), `GivenUpInTime` (GivesUpInTime), `BackstopHolds` (BackstopPassedOnlyByExpiry), `CarryKept` (CarryIsLastReturned) |
| `MigrateProofs` | `TypeCorrect`, `StartupsExclude` (HistoryStaysCurrent), `MigrationsWhole` (NoHalfMigration), `LockOwned` (LockHasOwner) |
| `HistoryProofs` | `TypeCorrect`, `NoRepeats` (WalkNeverRepeats), `NothingMissed` (WalkMissesNothing), `SnapshotClose` (SnapshotOffByMoved) |

`StoreProofs` holds lemmas about the rows the statements of `Store` make. Each proof
module defines its inductive invariant as `Inv` and has one lemma per action; the
invariants were model-checked before they were proved.

Lifecycle. None of the invariants is inductive alone: that a settlement adds one
failure to the count and one to the journal needs the copy of the count to be
current, that needs epochs to be unique, and that the appended entry is the missing
one needs the journal to be hole-free up to the row's run count. `Inv` joins them
with facts about rows (an absent or deleted row has no history, a claimed one has a
lease, `finished_at` is set exactly on terminal rows). The only fact about the
claim that matters is that it raises `run_count` and nothing else does. `ConcludeInv`
treats all transactions that end a claim at once; each action then shows that it is
such an end, or that it leaves rows and copies alone. The action properties follow
from `Inv` and a case split on the step (`RowStep`).

Refinement. The initial states map to each other. For the steps, `Inv` gives what the
abstract guards ask: a row that is claimed has no entry with its own run number yet
(the journal is hole-free up to the run before), so the one appended is the first and
only result of that run; and whoever ends a claim holds its epoch or found the lease
expired, so the abstract job is running. A batch deletion is one `Remove`; steps that
touch only workers, leases, merges or the clock stutter.

WorkerLoop. The caps and the bookkeeping need each other: `by_kind` is compared with a
cap before the task it admits exists, so `Inv` says that what the fill found still
holds when the claim and the spawn follow (`SpawnInv`), and that every live task and
the job about to be spawned have a claim that is no other's (`ClaimInv`).
`BoundedBypass` takes arithmetic: `Distance` is how many claims ago the counter had the
value reserved for the watched job's tier, `Penalty` a period per fault and per claim
that skipped a row, and `BypassInv` bounds `passed` by the two between claims and within
one. A reserved claim that skips nothing takes the watched job (`ReservedClaim`); one that
skips a row may miss it and is paid for by its own period (`SkipFacts`, `ClaimBound`); a
merge or an enqueue that changes the tier's company sets `passed` back to zero
(`PriorityFacts`). The ratio is any number from two on, so the proof has lemmas about
remainders by its square.

Dedup. An answer is given in the step that leaves the job pending, and a pending
job goes on only by a claim, which raises its run count above the one at the
answer. The strengthening says that the job of a submission that has not inserted
does not exist, so no insert overwrites a row somebody was answered with. For content
and progress, `MergeInv` says what a candidate that was read is still worth: it holds
what the writes before it left (`SnapshotInv`), and the row differs from it only if
somebody wrote it since or a later run began (`StaleInv`). Both are relative to a list
of writes that only grows.

Wakeup. `SleepCovered` is inductive given the types. `DelayBounded` is not. Its two halves
are proved apart. For lateness it must be known that the rest of a sleep still fits into
the budget (`SleepPaid`), and for that, that whatever is overdue when a sleep begins is
new or was paid for: the round before claimed until nothing was left, and each expired
claim it did not recover was left over by its scan or by a fault (`RoundPaid`); a locked
row has its merge to pay for it (`LockedPaid`). A job whose time has not come was never
late (`NotYetDue`). The other half bounds the scans that leave a claim over, by counting:
each takes `StaleLimit` of the claims that expired no later (`Older`), and none joins
those, since a claim that expires later has been left over less often. So a claim left
over n times had n times `StaleLimit` other jobs before it, and there are only so many
(`LeftInv`, `ScanFacts`, `Leaving`).

Execution. `DocumentedDelay` says of the code's arithmetic, which saturates in three
places, that it is the documented `min(base * (fib(n) - 1), cap)` less the jitter,
for every base, cap, attempt and sample, if the cap is below the largest u64 (in
nanoseconds, 584 years; the code's comment says "for any sane configuration").
`DelaysKept` adds that the calendar reaches as far (`DateTime::MAX_UTC` is the year
262142). These two premises, `DelaysFit`, are stated in the theorem and not assumed of
the constants, since the constructor accepts a longer cap. That the curve, the
Fibonacci numbers and their sums exist as functions and satisfy their equations is
proved from the least element of a set of natural numbers (`Recursion`), since the
library's theorem on recursive functions has an operator as its parameter; no
induction rule is needed then. For the other properties, every run that ends leaves
one entry, so `failure_count` is what a task can count (`FailureInv`), except in a run
that was not given the journal or cannot answer, and each such run was paid for by an
unruly event (`LimitInv`).

Migrate. A call at work on an open session holds the lock, and no request of a
dropped call is on its way over that session (`LockInv`); so two calls at work on open
sessions are one, and what it read stays what is recorded. A commit whose call is gone
comes, if it does, in the step in which its session closes or is abandoned with the
lock. What a call knows is true, also after it lost its connection (`ResultInv`), which
`NoHalfMigration` needs for the result it reports.

History. Pages are ordered by the pair of stamp and id, which is total, and the cursor
is below everything shown (`CursorInv`); rows that come later may have any stamp, but
what they are inserted below is only ever shown later, and what they are above is not
shown at all. For `SnapshotOffByMoved` the counts of each statement are compared with
the jobs that stayed where they were (`SteadyInv`), with cardinalities of finite sets.

Only model-checked are the liveness properties `ExpiredClaimIsRecovered`,
`ShutdownCompletes`, `EveryTierServed`, `JobEnds` and `MigrateReturns`: each rests on
weak or strong fairness of actions, that is on ENABLED, which the prover does not
handle.

## 5. Plan

Every planned module is written and every safety property proved. What is left:

1. the safety half of the liveness properties, as theorems: a measure that no step of
   the drain raises (`ShutdownCompletes`), and a bound on the runs a job can have
   once its task counts or the backstop is set (`JobEnds`);
2. what one `WorkerLoop` step asks of the claim of its task (`live`) as a refinement of
   Lifecycle, which is so far an argument in this text.

## 6. Not modelled

Metrics and tracing, error texts, notes and attachments, JSON encoding beyond
whether it succeeds, the builder's defaults, type erasure, the size of the connection
pool, the point reads (`job`, `job_journal`) and the test store. PostgreSQL is assumed to give what the statements ask for: a
transaction is atomic, a row update sees the latest committed row.
