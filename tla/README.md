# crazyjob in TLA+

A model of crazyjob, the background job library in `src/crazyjob`, with the
properties that make it correct, the TLC runs that check them on small
instances and the TLAPS proofs that hold for every instance. Line numbers are
those of the sources beside this directory.

## 1. The system

crazyjob keeps its whole state in SQL tables; processes share nothing else.

| Component | State | Operations | Correct when |
|---|---|---|---|
| job store, PostgreSQL (`backends/postgresql/driver.py`, migration 001) | `cj_jobs`, `cj_workers`, `cj_dead_letters`, `cj_schedules`, `cj_queue_pauses` | one transaction per method: `enqueue`, `fetch_next` (claim and count the attempt in one statement), `mark_completed`, `mark_failed`, `move_to_dead`, `reenqueue_job`, the registry and schedule methods | a claim is exclusive and counted; every later write names the row by id only, so the callers must know what they do |
| job store, SQLite (`backends/sqlite/driver.py`) | the same tables; one connection, a `threading.Lock` and a closed flag per process | the same methods; `BEGIN IMMEDIATE`, rollback, `close` | its calls are as atomic as PostgreSQL's; text columns keep their meaning |
| worker engine (`core/worker.py`) | `_running`, the fetch threads, heartbeat thread, detector thread, one `JobRecord` per thread | `run`, `shutdown`, `_run_loop`, `JobExecutor.execute`, `_handle_failure`, `_heartbeat_loop`, `_detect_dead_workers` | no job runs past `max_attempts`; one worker per job; no job is lost; every job settles |
| client (`core/client.py`, `core/job.py`) | none | `enqueue` now, with a delay, at a time | what is enqueued is run |
| scheduler (`core/scheduler.py`) | `_running` | `run`, `_tick`, `_fire_schedule`, `shutdown` | one job per due time; a time is passed over only when its schedule is fired too late |
| retry policies (`core/retry.py`) | none | `delay_for`, jitter | a retry is not early, not much later than asked for, and backs off |
| dashboard actions (`dashboard/core/actions.py`, `sqlite_actions.py`) | none of its own | `resurrect`, `bulk_resurrect`, `cancel`, `clear_queue`, `pause_queue`, `resume_queue`, `trigger_schedule` | they never take a row from under a worker; a resurrected job starts anew, and once; a paused queue rests |
| CLI (`cli/commands.py`) | none | `worker`, `scheduler`, `purge`, `migrate` | the process ends when `run()` returns; purge, which takes rows of any status, breaks nothing but the rows it takes |
| middleware (`core/middleware.py`, `integrations/flask/context.py`) | the chain; what each hook puts on the job | `before_perform`, `after_perform`, `on_failure`, `run` | no hook hears of an execution it was not set up for; a failure is heard by all; the outcome is the one `perform()` asked for; no job is left active in nobody's hands |
| queries and metrics (`dashboard/core/queries.py`, `sqlite_queries.py`, `metrics.py`) | none | lists by status, letters, overview numbers | numbers read apart agree |
| adapters and templates (`dashboard/adapters/*.py`) | none | a route for each action, a page for each list | what the user is told has happened |
| integrations (`integrations/flask`, `integrations/fastapi`) | the global client, the backend, the mounted dashboard | `init_app`, `startup`, `shutdown` | nothing is accepted before there is a backend or after it is closed |
| config, serializer, queue, exceptions | none | pure values | see section 8 |

How they interact: clients and the scheduler insert rows; fetch threads of any
process claim them and write the outcome; detectors of every process look for
workers whose beat is old and take over their jobs; the dashboard edits rows,
letters and pauses beside all of them. There are no messages and no callbacks
across processes; all interaction is through rows read in one transaction and
written in a later one.

What is hard here:

* A worker taken for dead may be alive (a slow heartbeat, a drain that outlasts
  the threshold, a join that gives up). Its late writes and the detector's
  writes go to the same row, by id, without looking.
* Every process runs a detector, so two of them may handle the same dead worker.
* A process can die between any two transactions; its id (`hostname:pid`) can
  be used again.
* A database call can raise with its transaction committed or not, in places
  that are inside a `try` and in places that are not.
* `Retry` bypasses the attempts test; the limit is enforced by the next claim.
* The scheduler enqueues a job and updates its row in two transactions.
* SQLite stores times and JSON as text.
* `fetch_next` chooses among rows that others lock, write and delete, and skips
  what is locked; a pool has fewer connections than a process has threads.
* Any hook can raise, in any place of the chain, and replaces what was raised; so
  can the exit of the application context around `perform()`.
* Operators act on pages drawn earlier, in passes that overlap, and `purge` asks
  nobody who works on a row.
* A page, a bulk action and an overview are several transactions of one request.

## 2. Modules

| Module | Models | Builds on |
|---|---|---|
| `JobStore` | `cj_jobs`, `cj_workers` and the letters: each driver method an operator, each operator a committed transaction | |
| `WorkerPool` | worker processes, their threads and detectors, crash, restart and faults | `JobStore` |
| `AttemptLedger` | abstract: claims are counted, runs happen under a counted claim, once, within the limit | |
| `JobLifecycle` | abstract: the lifecycle the documentation draws for a job | |
| `Middleware` | one execution of a job hook by hook: load, chain, `perform()`, outcome, write | `JobStore` |
| `Scheduler` | cron scheduler processes over `cj_schedules` | |
| `Dashboard` | dashboard writes, purge, schedules' jobs, beside simple workers | `JobStore` |
| `WebApp` | the application around the dashboard: integration, client, routes and their messages, pages, overview | `Dashboard` |
| `RetryTiming` | backoff, jitter, `run_at` as stored and compared | |
| `DriverCalls` | the calls of a driver: which method may name which row, what it commits | `JobStore` |
| `PostgreSQLDriver` | the PostgreSQL driver below `JobStore`: pool, transactions, row locks, SKIP LOCKED, the order of a queue | `DriverCalls` |
| `SQLiteDriver` | the SQLite driver below `JobStore`: lock, write lock, transactions, `close` | `DriverCalls` |
| `MCWorkerPool`, `MCMiddleware`, `MCScheduler`, `MCRetryTiming`, `MCDashboard`, `MCWebApp`, `MCPostgreSQLDriver`, `MCSQLiteDriver` | the instances that TLC checks | |
| `WorkerPoolProofs`, `MiddlewareProofs`, `SchedulerProofs`, `RetryTimingProofs`, `PostgreSQLDriverProofs`, `SQLiteDriverProofs` | theorems about the module each is named for | `TLAPS` |
| `DashboardProofs` | theorems about `Dashboard` and about `WebApp` on top of it | `WebApp`, `TLAPS` |
| `DriverCallsProofs` | lemmas that the two driver proofs share | `DriverCalls`, `TLAPS` |

`WorkerPool` and `Dashboard` compose the same `JobStore` with different actors,
and `WebApp` puts the requests of an application on top of `Dashboard`. The
refinements form one tower:

* `PostgreSQLDriver` and `SQLiteDriver` implement the statements of `JobStore`
  (`StoreSteps`): whatever waits, fails or crashes, a step that changes the tables
  is one whole statement. This is what allows the modules above to take each
  driver method for one action.
* `Middleware` implements a thread of `WorkerPool` (`PoolSteps`): the nine stages
  of an execution with hooks are mapped to the `pc` of a thread, a
  retry for which no delay can be computed to a write that fails.
* `WorkerPool` implements `AttemptLedger` always (`LedgerSpec`) and `JobLifecycle`
  in a deployment without lost beats (`LifecycleSpec`).

The operators named "Mutated form" in comments are not part of any
specification: each is a definition changed as a plausible bug would change it,
kept next to the original to show which property notices.

### State and code

`JobStore`: `status`, `attempts`, `workerId`, `letters` are columns (or counts
of rows); `due` says whether `run_at IS NULL OR run_at <= NOW()`, and `beat`
whether `last_beat_at` is within `dead_worker_threshold`. The order by priority
and `created_at` is left open: any eligible row may be claimed. An `UPDATE ...
WHERE id` of a row that is gone changes nothing (`Update`). `move_to_dead` is a
SELECT, an INSERT and an UPDATE in one READ COMMITTED transaction; the one
effect of a write in between that later steps can see, a letter for a row that
was deleted meanwhile, is a disjunct of `MoveToDead`.

`WorkerPool`: `phase` follows `Worker.run`: `new`, `up` (`_running`),
`draining` (after `shutdown()`), `closing` (joins done, `_running` false),
`returned`, `down`. `pc`, `held`, `attempt` are a fetch thread and the
`JobRecord` in its hands, whose `attempts` are those of its own claim; `stale`,
`victim`, `found` are the detector's loop variables. Actions:

| Action | Code |
|---|---|
| `Start`, `Shutdown`, `StopJoining`, `Deregister`, `DeregisterFails`, `Exit` | `Worker.run` 166-216, `shutdown` 218 |
| `Heartbeat`, `BeatExpires` | `_heartbeat_loop` 258 and the threshold of `get_stale_workers` |
| `DetectScan`, `DetectPick`, `DetectJob`, `DetectDone`, `DetectAborts` | `_detect_dead_workers` 280-294, one transaction each, and the `except` around it |
| `Poll`, `ThreadEnds`, `FetchNothing`, `Claim`, `FetchFails`, `Expire`, `ExpireFails` | `_run_loop` 226-246 |
| `Perform`, `LoadFails`, `PerformEnds`, `PerformExits`, `Complete`, `CompleteFails`, `RetryRequested`, `HandleFailure`, `WriteFails` | `JobExecutor.execute` 53-71, `_handle_failure` 82-109, the `except` of `_run_loop` 248 |
| `Submit`, `Withdraw`, `TimePasses`, `Crash` | client, dashboard, clock, operating system |

`ran[j]` is a history variable: the attempt numbers under which user code was
started. `troubles` counts what goes wrong; a configuration chooses which kinds
may strike (`Troubles`) and how often (`MaxTroubles`). `max_jobs` of `run()` is
`None`, as the CLI calls it.

`Scheduler`: `clock` in ticks, slots at the multiples of `Period`; `batch` is
what `fetch_due_schedules` returned, `firing` and `now` the state of
`_fire_schedule` between the enqueue and the update; `jobs` and `fired` are history
variables, how many jobs were enqueued for a slot and when the last one of a
schedule was. A NULL timestamp is 0.

`Dashboard`: letters are named by the job they snapshot (its workers do not
crash, so a job is buried at most once); `todo` is the rest of a
`bulk_resurrect` loop. `PurgeJobs` deletes rows of any one status, active ones too,
as the command does; `PurgeLetters` and `PurgeJobs` are for SQLite only, because on
PostgreSQL the statement raises (section 3). `origin`, `single`, `asked`, `raised`,
`shared`, `runs`, `swept` are history variables; the last are the rows that were
purged while active.

`RetryTiming`: one job, one clock, delays in ticks with jitter in per cent. `text`
is the backend: SQLite compares `run_at` as text, in which two times of the same
date compare by 'T' against a blank. `zone` is the time zone of the PostgreSQL
sessions, in which a time without one is read. Both are chosen in `Init`.

`DriverCalls`: `call` and `row` are the method a thread is in and the row it
names; `Effect` is the statement of `JobStore` that the method commits. Threads
stand for whatever calls a driver: fetch threads, detectors, clients, requests.

`PostgreSQLDriver`: `free` and `shut` are the pool of a process; `owner` the row
locks; `at` is `idle`, `waiting` (for the pool), `connected`, `scanning` (inside
the SELECT of `fetch_next`), `read` (after the SELECT of `move_to_dead`),
`written`. `priority` and `older` are the columns of ORDER BY; `created_at` is
fixed when the transaction begins, as `NOW()` is. The rows of a snapshot are
looked at best first: one that is locked is skipped, one that no longer matches
the WHERE clause is skipped, else it is locked and claimed. `waited` is a
history variable: rows of the snapshot that were free and that no other transaction
has locked since. Only a lock takes a row out of it, never the fetch that skips.

`SQLiteDriver`: a call waits for the process's lock, then for the file's write
lock, selects, writes and commits; it may time out, raise and roll back, or die
with its process at every step. The tables hold what is committed.

`Middleware`: `stage` is where `_run_loop`, `JobExecutor.execute` and
`MiddlewarePipeline.run` are; `mw` the loop variable over the chain; `error` the
exception on its way up; `attempt` the record in hand. `begun`, `passed`,
`alerted` are the middlewares whose `before_perform`, `after_perform`,
`on_failure` has returned; `raised` and `thrown` are history variables. Every hook
may raise an error or a `Retry`; `context` is the Flask application context, which
is entered inside `perform_fn`: its teardowns run when `perform()` has raised, too,
and an error of theirs replaces a `Retry`. `delay` is what keeps a retry from getting
a time: an unknown `retry_backoff`, or seconds that overflow a `timedelta`. One job and one thread are enough: the pipeline
has no state between executions and threads share only rows.

`WebApp`: `app` follows the integration: `new`, `bare` (no dashboard), `mounted`,
`down`. `request`, `done`, `stats` are what a request of several transactions has
read and counted; `answer` is the message or exception of a user's last request,
`page` the letters in front of a user, which may be out of date when a button is
pressed. `Framework` selects the adapter: the FastAPI application closes its
backend at shutdown, the Flask one never does. `old` are the rows that the windows
of the overview leave out. A page shows `PerPage` letters, whichever come first; the
routes pass no page number. The routes are modelled by what they do and say; that
"cancelled" is said in every case is part of the model and no property judges it.

## 3. What the runs show

Passing runs:

| Run | Instance | Shows |
|---|---|---|
| `chaos` | 2 workers with 1 thread, 1 job of 2 attempts, every trouble, 2 strikes; about 0.9 million states | `PoisonBound`, `DistinctClaims`, `DeadIsExhausted`, `CompletedRan`, `DeadHasLetter` survive crashes, lapsed beats, early joins, reused ids and failing calls; the pool implements `AttemptLedger` (`LedgerSpec`) |
| `calm` | 2 workers, 2 jobs (1 and 2 attempts), beats on time, one stop or crash; fair | `ExclusiveRun`, `OneLetter`, `Recoverable`; the pool implements `JobLifecycle` (`LifecycleSpec`); every job settles (`Settles`) |
| `scheduler` | 1 process, 2 schedules, period 2, clock to 6, 2 interruptions; fair | `OneJobPerSlot` up to one repetition per interruption; `MissedByLatenessOnly`: a schedule leaves a slot after its job is enqueued and passes over later ones only if they had come before that; `DueIsServed` |
| `dashboard` | 1 worker, 2 users, 3 jobs of 2 attempts, SQLite | `HeldRowsStay`: no request takes a row from under a worker, only a purge of active rows does; `FullAttempts`; `BulkCovers`; `BulkOnce`: passes repeat a job only if they overlap |
| `retry` | each policy, base 10, cap 40, jitter 90/100/110 %, days of 24 ticks, clock to 60; SQLite, and PostgreSQL with sessions 7 ticks west of UTC, at it, 7 east | `EarlyAtMost`: early by the offset of a session east of UTC, else never; `LateAtMost`: late by a day on SQLite, by the offset of a session west of UTC, else never; `ExponentialGrows` |
| `sqlite` | 2 processes, 3 threads, 1 job, 4 calls of any method; fair | `StoreSteps`: only whole statements of `JobStore` are committed; `CloseWaits`; `TransactionsEnd` |
| `postgres` | 2 pools of 1 connection, 3 threads, 2 jobs of which one is stocked, 2 queues, 3 calls; fair | `StoreSteps`; `NoOvertaking`: a free row that nobody else locks meanwhile is never passed over, whatever is skipped before it; `CallsEnd`: no call hangs |
| `middleware` | 3 middlewares, a context that may fail, 1 job of 2 attempts, 1 failing driver call | `HooksPaired`, `OneVerdict`, `FailureHeard`, `RetryKept`, `NotStranded`; the execution implements a thread of the pool (`PoolSteps`) |
| `webapp` | Flask and SQLite, 2 users, 1 worker, 3 jobs of 1 attempt, pages of 2 letters, 3 requests; about 0.55 million states | `AnswersHold`: what is said of a job that was enqueued or resurrected, and the count of a bulk pass; `OverviewAgrees` |

Runs in which TLC finds the code breaking what its documentation says:

| Run | Property | What happens |
|---|---|---|
| `detectors` | `ExclusiveRun` | two detectors read one dead worker; the slower re-enqueues a job that is running again (`worker.py:292`) |
| `autostop` | `BlocksUntilShutdown` | the join timeouts run from the start: without a signal the worker stops (`worker.py:204`) |
| `delayed` | `DelayedJobsRun` | a delayed job gets a status that `fetch_next` never takes (`client.py:73`) |

More disagreements show up in a copy of one of these configurations with the
constants below; they are not kept as runs because each is a variation on one
that is, or restates one missing condition:

* `calm` with `Jobs = {j1}`, `MaxAttempts <- OneJobTwice`,
  `Troubles = {"stop", "lapse"}` and `MaxTroubles = 2` breaks `ExclusiveRun`: a
  stopping worker no longer beats (`worker.py:259`), and past the threshold its
  running job is given to another worker.
* `calm` with `Jobs = {j1}`, `MaxAttempts <- OneJobTwice`,
  `Troubles = {"stop", "timeout"}` and `MaxTroubles = 2` breaks `Recoverable`: a
  shutdown that times out deregisters and leaves its job `active` for ever
  (`worker.py:213`; `ARCHITECTURE.md:731` has it marked `failed`).
* `scheduler` with `Schedulers = {p1, p2}`, `Schedules = {s1}`, `Enabled = {s1}`
  and `MaxInterruptions = 0` breaks `OneJobPerSlot`: two schedulers fire one slot,
  since the row locks end before the jobs are enqueued (`scheduler.py:61`;
  `ARCHITECTURE.md:802` says that they never do).
* `dashboard` with `PROPERTY PausedQueuesRest`: a paused queue is served, since
  `fetch_next` does not read `cj_queue_pauses` (`actions.py:91`).

Disagreements that are read off the code, and what the modules make of them:

* On SQLite `resurrect` and the scheduler encode `args` and `kwargs`, which are text
  already, once more (`sqlite_actions.py:43`; `ARCHITECTURE.md:560` has one
  `json.dumps` for one `json.loads`). Every resurrected or scheduled job then gets a
  string for its arguments and can only fail. The modules leave open how an
  execution ends, so nothing here relies on it.
* On SQLite a due retry waits for the next UTC date (`sqlite/driver.py:106`), and in
  a PostgreSQL session east of UTC it runs early by the offset (`worker.py:64`), while
  `USER_GUIDE.md:497` promises "exactly 60 seconds". `LateAtMost` and `EarlyAtMost`
  bound both; with `LateBy` or `EarlyBy` read as 0, TLC finds the retries that break
  it.
* A schedule that is fired late gets one job for all the slots that have come by
  then, whether the scheduler was down or slow: `next_run_at` is counted from the time
  of firing (`scheduler.py:76`). `MissedByLatenessOnly` says that no other slot is
  missed.
* `purge` deletes the rows of whatever status it is given (`commands.py:101`,
  `122-134`), although its help names three: `purge --status active` takes rows from
  under workers, whose later writes then find no row. On PostgreSQL it deletes
  nothing: the placeholder stands inside the quoted `INTERVAL` (`commands.py:120`),
  and the statement raises.
* Two passes of `bulk_resurrect` that overlap make two jobs of one letter, and single
  `resurrect` requests as many as there are clicks: neither looks at
  `resurrected_at` (`actions.py:63-76`, `19-61`).
* "Job cancelled" is said whatever happened (`flask.py:123-127`): a job that has been
  claimed since the page was drawn, or waits for a retry, runs on.
* The page of the letters cannot be rendered under FastAPI: `dead.html:7` asks
  `url_for` for a Flask endpoint (`WebApp!Renders`). The pages show the 25 newest rows
  and no route passes a page number (`flask.py:66`): what is beyond cannot be seen,
  nor its letter resurrected but by `bulk_resurrect`.
* `USER_GUIDE.md:425` and `552` have queues polled in the listed order; `fetch_next`
  orders by priority and age across all of a worker's queues
  (`postgresql/driver.py:102`), and so does `PostgreSQLDriver`.

Seen in the code besides:

* `retry_jitter` is read by nothing; `exponential_cap` reaches its cap of an hour
  at attempt 8, not at attempt 5 as the tables in the documentation say; nothing
  writes the schedules that the `@schedule` decorator marks into `cj_schedules`.
* `on_failure` is documented as "called when perform() raises"
  (`middleware.py:26`) and is called when an `after_perform` raises as well;
  `AlertMiddleware` says that a job has died although a `Retry` on the last attempt
  puts it back; a job that is buried because it is over its limit calls no hook.
* An unknown `retry_backoff`, or seconds that no `timedelta` can hold, raise where
  the time of a retry is computed: the job stays `active` under a worker that beats
  (`NotStranded` names the case).
* A `Retry` is lost when a teardown of the application context raises around it
  (`context.py:15`): the job is backed off or buried instead (`RetryKept` names it).
* Nothing writes the status `failed`, so the error rate is always 0 and the page of
  the failed jobs empty.
* The Flask integration never closes its backend although
  `integrations/flask/__init__.py:85` registers a cleanup "at app shutdown".
* `--processes` is read by nothing, and `--all-queues` lists the queues once, at the
  start of the worker.

## 4. Bounds

* Two workers are enough for a worker, its rescuer and a zombie; `detectors`
  needs three (a dead one and two survivors).
* Two attempts give a first, a last and, through `Retry`, one above the limit.
* Two troubles combine any pair, such as a lapsed beat and a crash. In `chaos`
  the beats of `w2` are on time; the same run with both workers lapsing passes
  too (5.6 million states) but takes longer than it tells.
* Three jobs give a dead one and two resurrections, or two dead ones in one bulk.
  Two users let a pass overlap with another one or follow it, among single requests;
  each makes one pass that finds letters (`OnePassEach`), since without that
  bound the passes over the same letters only multiply the states. The proof of
  `BulkOnce` is without it.
* A clock of 60 ticks with base 10 lets every retry up to the third come due, in
  three dates of 24 ticks; zones of 7 ticks are smaller than a day and than
  a delay of any policy.
* A clock of 6 with period 2 has three slots, so that one can be missed between two
  that are not; two interruptions repeat a slot, or make the scheduler late for one.
* Four calls on SQLite give, for instance, enqueue, fetch, re-enqueue and a
  `cancel` that races with a `move_to_dead`. Three calls on PostgreSQL, with one
  job stocked, give two fetches that meet the row an enqueue is about to commit,
  and three threads on two connections make one wait for the pool.
* Three middlewares give one before, one at and one after the place where a hook
  raises; two attempts give an execution whose failure is not the last.
* Three jobs with pages of two letters let a page hide one; two users and three
  requests (`MaxVisits`) let a bulk action or an overview race with the other user's
  requests, with purge and with the worker. One row may outlive the windows
  (`MaxOld`). `--older-than` is a day at least: with `0d`, which the command takes,
  purge can delete between two reads of an overview what was completed a moment ago.

Deadlock is not an error in any run: when all processes are down, all jobs have
settled or a bound is reached, the system rightly stops.

## 5. Fairness

`WorkerPool!Fairness` is weak fairness of each thread (`FetchStep`,
`ExecuteStep`), each detector, each process that is stopping, the start of each
worker, the clock and the growing old of a beat. It says that the operating
system schedules threads, that `perform()` ends and that time passes. crazyjob
has no job timeout, so the end of `perform()` is a real assumption. Submitting,
stopping, crashing and failing are never assumed. `Scheduler!Fairness` restarts a
process that is down (`Restart=always` in the documented unit) and is strong for
its work, because `run()` ticks before it first sleeps, so that signals cannot
keep it from ticking. `SQLiteDriver!FairSpec` and `PostgreSQLDriver!FairSpec` let
each thread that is inside a call go on (weak fairness of `Proceed`); neither the
Python lock nor the pool is assumed to be granted in any order, and `CallsEnd`
does not rely on a timeout, on a failure or on a crash to end a wait.

## 6. What is proved

Every theorem holds for all values of the constants that satisfy the named
assumptions of the modules: any number of jobs, workers, threads, users,
schedules, middlewares, connections, troubles, calls. The assumptions are the
ones TLC evaluates in the runs: `StoreAssumption` (limits are at least 1, as
`Client.enqueue` and the CHECK constraint enforce), `PoolAssumption`,
`CallAssumption`, `PostgreSQLAssumption`, `MiddlewareAssumption`,
`SchedulerAssumption`, `DashboardAssumption`, `WebAssumption`,
`TimingAssumption`; apart from the jitter, which the code draws from 0.9 to 1.1,
they bound nothing. What a theorem assumes beyond them stands in its statement
and in this table.

| Module | Theorem | States | Assumes |
|---|---|---|---|
| `WorkerPoolProofs` | `Invariance` | `IInv` | |
| | `TypeCorrect`, `NoPoisoning`, `AttemptsAreExclusive` | `TypeOK`, `PoisonBound`, `DistinctClaims` | |
| | `CompletionsAreEarned`, `BurialsAreEarned`, `BurialsLeaveLetters` | `CompletedRan`, `DeadIsExhausted`, `DeadHasLetter` | |
| | `ImplementsLedger` | `LedgerSpec`, the refinement of `AttemptLedger` | |
| | `DelayedJobsNeverRun` | a delayed job stays as it is | |
| | `ExclusiveWhileSoleRescuer`, `OneLetterWhileSoleRescuer` | `ExclusiveRun`, `OneLetter` | `DeathsAreReal`, `[]SoleRescuer` |
| | `TwoWorkersRunExclusively`, `TwoWorkersBuryOnce` | `ExclusiveRun`, `OneLetter` | `DeathsAreReal`, `TwoWorkers` |
| | `LifecycleWhileSoleRescuer`, `TwoWorkersFollowLifecycle` | `LifecycleSpec`, the refinement of `JobLifecycle` | the same, and no failing call |
| | `DeadWorkersJobsAreFound` | `Recoverable` | `OnlyStops` |
| `MiddlewareProofs` | `ExecutionInvariance` | `IInv` | |
| | `HooksInOrder`, `VerdictsAreSingle`, `FailuresAreHeard` | `HooksPaired`, `OneVerdict`, `FailureHeard` | |
| | `RetriesAreKept`, `NothingIsStranded` | `RetryKept`, `NotStranded` | |
| | `ImplementsPoolThread` | `PoolSteps`, the steps of a thread of `WorkerPool` | |
| `PostgreSQLDriverProofs` | `DriverInvariance`, `PriorityIsKept` | `IInv`, `NoOvertaking` | |
| | `CommitsAreStatements` | `StoreSteps` | |
| `SQLiteDriverProofs` | `DriverInvariance`, `ClosingWaits` | `IInv`, `CloseWaits` | |
| | `CommitsAreStatements` | `StoreSteps` | |
| `DashboardProofs` | `DashboardInvariance`, `TypeCorrect` | `RowInv /\ Passes`, `TypeOK` | |
| | `HeldRowsAreSafe`, `BurialsAreEarned`, `BulkIsComplete` | `HeldRowsStay`, `FullAttempts`, `BulkCovers` | |
| | `BulkResurrectsOnce` | `BulkOnce` | |
| | `SiteInvariance`, `PromisesKept` | `Site`, and `Dashboard`'s promises in an application | finitely many jobs |
| | `AnswersAreTrue`, `OverviewsAgree` | `AnswersHold`, `OverviewAgrees` | finitely many jobs |
| `SchedulerProofs` | `TypeCorrect`, `ManyProcessesOnTime` | `TypeOK`, `OnTime` | |
| | `LoneInvariance`, `FiresOnce`, `OnlyLatenessMisses` | `IInv`, `OneJobPerSlot`, `MissedByLatenessOnly` | `OneProcess` |
| `RetryTimingProofs` | `TimingInvariance`, `DelaysGrow` | `Timed /\ Growing`, `ExponentialGrows` | |
| | `RetriesAreNotLate`, `RetriesAreNotEarly` | `LateAtMost`, `EarlyAtMost` | |

**The worker pool.** `IInv` is `TypeOK /\ Holding /\ ClaimInv /\ RowInv`. None of
the checked invariants is inductive alone. `Holding` says that a thread works
exactly when it holds a job, and only in a live process. `ClaimInv` adds what a
claim means: a thread's attempt is at most the row's `attempts`
(`ClaimBounds`), a thread past the limit test is within the limit
(`WithinLimit`), a detector's snapshot never exceeds the row (`FoundBounds`),
runs never exceed the claims (`RanBounds`), an attempt that is claimed and not
performed is not in `ran` (`NotYetRun`), one that is underway is
(`RanUnderway`). The key is that `fetch_next` is the only statement that writes
`attempts` and only ever increments it, so each claim gets a number no other
thread can hold: this carries `DistinctClaims` and, with the test in
`_run_loop`, `PoisonBound`. `RowInv` follows from `RowMoves`, which says what
one step may do to one row: it becomes completed only in the hands of a thread
whose run is underway, and dead only with its attempts used up, by the holder's
claim or by a detector's old snapshot, because attempts never fall. Lemmas about
the statements (`JobStatementsTyped`, `WritesKeepAttempts`,
`StatementsMoveRows`, ...) are stated once for all actions that use them.
`DelayedJobsNeverRun` turns the run `delayed` around: what TLC shows on one
instance, that the status of a delayed job is one no statement takes it out of,
is so in every pool (`Parked`: a row that is absent or delayed has no attempt,
while every write of a thread or detector is of a row that has one).

**Who owns a row.** `ExclusiveRun` is what "SKIP LOCKED guarantees" in the
documentation, and it is not true of every deployment. The proofs say which ones.
A worker's later writes name the row by id alone, so they are right only as long
as nobody has taken the row away, and only detectors take rows away.

* `DeathsAreReal`: no live worker lets its beat lapse and no id is used twice.
  Then `Deaths` is inductive: what is stale, or has been read as stale, is a process
  that is down, and it stays down.
* `SoleRescuer`: no two detectors handle the same dead worker at a time. This is
  the condition that the run `detectors` refutes for three workers, and it is a
  property of the behaviour, not of a constant, so the theorems assume `[]SoleRescuer`
  beside `Spec`. Of two workers the survivor is the only detector (`OneSurvivor`,
  `TwoWorkersSuffice`), so for `TwoWorkers` nothing has to be assumed.

Under these, `Ownership` is inductive: a thread holds the row that the row says its
worker holds, under the attempt that the row counts (`Owned`); two threads never
hold one row (`ExclusiveRun`); what a detector has read is still so when it writes
(`Snapshots`); a job has a letter exactly when it is dead (`BuriedOnce`); a row
that waits is within its limit (`WaitsWithinLimit`). The conclusion is stronger than
what `calm` checks: crashes, join timeouts, exits of the interpreter and failing
calls may all strike, as often as they like. A lapsed beat, a reused id and two
detectors on one dead worker are therefore the only ways in which a pool breaks
exclusive execution. The refinement of `JobLifecycle` follows, provided that no call
fails: a `mark_completed` that raises after its commit takes a job from completed
back to waiting.

`RecoveryInv` is the counterpart for jobs that nobody executes: a registered row of
a dead process stays registered until its detector has handled every job
(`Covered`), and a process deregisters only after its threads have ended (`Posts`).
`OnlyStops` is needed: a join that times out (section 3), a failing call, a reused id
or a `perform()` that exits the thread each leave an active row that no one looks
for.

**An execution.** The invariant describes each stretch of
`MiddlewarePipeline.run`: on the way in (`Forward`) nothing has raised and
exactly the first `mw - 1` hooks have returned; in the `except` clause
(`Backward`) all are set up and the first `mw - 1` have been alerted; `Settling`
and `Over` carry this past the last write to the next claim. What may come between a
`Retry` and its row is listed once, in `raised`: the context, an `on_failure`, the
delay, the driver. The refinement needs
one more invariant, `Mapped`: what the pool remembers of the thread (its runs,
its claim) is what the stages say.

**The drivers.** A commit is the statement of `JobStore` only if the row that was
selected still satisfies the WHERE clause when the transaction ends. On
PostgreSQL this is `Locked`: a written row belongs to the transaction that wrote
it, and every other effect needs the lock first. `NoOvertaking` needs `Ready`
beside it: a row that nobody else has locked since the snapshot is unlocked and
still matches, so that the fetch, which skips only what is locked or changed, can
never skip it, and takes nothing that is served after it. On SQLite it is
`Exclusive`: one transaction in the file at a time, so that nothing changes between
`SELECT` and `UPDATE`; `Serial`, at most one thread in the lock of a process and
none in a closed one, makes the writer of a file a single thread, and gives
`CloseWaits`. `StoreSteps` then goes through the methods (`JobCommits`,
`RegistryCommits`).

**The dashboard.** `Counted` relates claims to executions: equal while a job
waits, one more while it is held, so that a burial, which the code decides on
`attempts`, comes after the full number of executions; `Held` says that a row in
a worker's hands is active, or was purged while it was (`swept`), and no request deletes
an active one. `BulkOnce` rests on `OnceFor`: a pass reads a letter only while it is
not marked, and marks it in the transaction that makes its job, so that a letter that
no two passes had before them at once has either its one job or the one pass that
may still make it, raising after a commit included.

**The application.** `Site` carries the dashboard's invariant under the requests,
where jobs can also be delayed. Its properties are about what was true when a user
was told and must not be taken back: `Lasting` says what no step of anybody undoes
(a row that was made keeps its origin, a completed one within the windows stays, a
mark stays). `Told` adds to each answer what it says of the tables;
for a `bulk_resurrect` underway it says that the count lies between the letters
asked for that have not raised and those that are marked, which is why two passes
that race may both count a letter and neither lies. `Reading` says how the numbers
already read relate to the rows now, which is enough for the third read to fit.

**The scheduler.** With one process the slot to come has no job, the slot of a
row being fired has at least one, and the present slot has at most one for every
earlier interruption (`Counted`); `NextSlotIsNext` is the arithmetic of
`croniter.get_next`. `MissedByLatenessOnly` follows from `NoSlotBetween`: no slot lies
between the time that `_fire_schedule` took before the enqueue and the slot that
`get_next` gives for it. `OneProcess` is not a convenience: with two processes
`OneJobPerSlot` is false (section 3). What is left of the promise for any number of
processes is `OnTime`: never ahead of the clock, and never put off by more than a
period, although a slow process may set `next_run_at` back.

**Retries.** `Timed` says that a retrying row's `run_at` is what the driver stores
for the time that was wanted. How early or late the stored time may make it is
`EarlyBy` and `LateBy`: nothing at UTC on PostgreSQL, the offset of the session on one
side elsewhere, up to a day late on SQLite, where `DaysGrow` turns the comparison of
texts into one of dates. `Growing` bounds every delay given so far by 55/100 of the
present unit `2^attempts * base`, and a new one is 90/100 of it less what whole ticks
cut off, so no jitter within a tenth turns the order around; it holds with retries
that `perform()` asks for in between. Powers are recursive in the library, so the
facts about them that the proofs need are derived from the number of subsets of a
set (`FS_SUBSET`).

## 7. What is only model-checked

* Liveness (`Settles`, `DueIsServed`, `TransactionsEnd`, `CallsEnd`): fairness and
  ENABLED are beyond the prover used. The safety half of `DelayedJobsRun`, that such
  a job never leaves its status, is proved.
* The violations of `detectors` and `autostop`, which are counterexamples.
* Every invariant and every action property of the passing runs is the subject of a
  theorem, under the conditions the table of section 6 names.

## 8. What is not modelled

* `dashboard/core/metrics.py`, which nothing calls; `list_jobs`, `list_workers` and
  `list_schedules`, which only show rows; the layout of templates.
* What `Client.enqueue` rejects: an exception before anything is written.
* Config, serializer, queue and exception classes: values and pure conversions.
  Arguments are not part of any state, so that SQLite encodes some twice is not
  either (section 3).
* `migrate` and the schema files, apart from the columns, defaults and the CHECK
  that the modules use; option parsing in the CLI.
* Several applications in one process, which share the global client.
* Text times of `cj_schedules` on SQLite: `Scheduler` compares clocks.
* What is no `Exception`: a hook that raises `SystemExit`, which ends its thread as
  `perform()` does when it raises one (`PerformExits`), and a `BaseException` in the
  middle of a SQLite transaction, which `sqlite/driver.py:56` and `140` do not roll
  back.
* Statements that lock several rows, `clear_queue`, `purge` and
  `fetch_due_schedules`, among the calls of `PostgreSQLDriver`: `CallsEnd` says nothing
  of them, and its three calls say nothing of starvation by an endless stream of others.
* Crashes and detectors beside the dashboard: the workers of `Dashboard` and `WebApp`
  end every execution, and nobody re-enqueues their rows.
* The `max_jobs` argument of `Worker.run`, which only tests pass.

## 9. Plan

Done, in this order: `JobStore` and `WorkerPool` with both abstract
specifications and their proofs; `Scheduler`; `Dashboard`; `RetryTiming`;
`SQLiteDriver`; `DriverCalls`, `PostgreSQLDriver` and the registry methods;
`Middleware`; `WebApp`; proofs of every safety property of these modules.

Next, most important first:

1. Losses that `chaos` only bounds: a reused worker id, a live worker marked
   `stopped`, a failed write under a beating worker, each as a statement about
   `Recoverable` with the weakest condition under which it holds.
2. What `ExclusiveRun` becomes once beats lapse: which threads may run a job
   beside its owner, and for how long.
3. `Scheduler` over text columns, where a due slot waits for the next date as a
   retry does.
