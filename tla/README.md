# A TLA+ model of the Cronye daemon

Cronye is a local job scheduler: a Go daemon (`daemon/`) with an SQLite
database, an HTTP API and a local web page (`ui/`). This directory models the
daemon and the page's editor in TLA+, checks the models with TLC and proves
with TLAPS every safety property and every action property that a run checks. Paths below are relative to the
repository, `internal/` is `daemon/internal/`.

## 1. Inventory

| Component | State | Operations | Interacts with |
|---|---|---|---|
| Runner, `internal/runner` | `activeRunJobs`, `activeCancels` under `activeMu`; what each worker goroutine holds; output files | `Start`, `Stop`, `CancelRunningByJob`, `processOne` (claim, look up, mark active, execute, clear, finish, retry, alert) | `jobs`, `job_runs`, output directory, webhook |
| Run repository, `internal/runs` | table `job_runs` | `CreateQueued*`, `ClaimNextDue`, `MarkFinished`, `ExistsByJobAndScheduledAt`, reads | SQLite |
| Job repository, `internal/jobs` | table `jobs` | `Create`, `Update`, `SetEnabled`, `Delete`, `ListEnabled`, reads | SQLite; deletes cascade to `job_runs` |
| Scheduler, `internal/scheduler` | `entries` under `mu`, and the entries inside robfig/cron | `Start`, `Reload`, `Stop`, the callback | `jobs`; cron; enqueues into `job_runs` |
| Application, `internal/app`, `cmd/daemon` | setting `scheduler_heartbeat_at`; which parts have started | `Run` (catch-up, then scheduler, runner, maintenance, heartbeat, server), `Shutdown` | all |
| Maintenance, `internal/maintenance` | none of its own; last night and last VACUUM in `settings` | three purges, the log cap, the worker's cycle | `job_runs`, output directory |
| API, `internal/api` | none | job CRUD, pause, resume, run, cancel-running, purges, settings, license, reads | all repositories, scheduler, runner, maintenance |
| Alerts, `internal/alerts` | none | `NotifyTerminalFailure` | `settings`, webhook |
| Settings, `internal/settings` | table `settings` | `Get`, `GetInt`, `Upsert`, `Delete`, in handlers that use several keys | API, maintenance, catch-up, alerts, license |
| License, `internal/license` | three rows of `settings`; the public key | `Activate`, `Deactivate`, `Status`, `verify` | settings, clock |
| Migrations, `internal/db` | table `schema_migrations`, the schema | `OpenAndMigrate` | the file, other processes that open it |
| Web page, `ui/src/App.tsx` | selection, form, lists, `busy`; handlers that wait for an answer | save, run, pause, delete, select, new, refresh, poll | API |
| Events, HTTP aliasing, config, ids, service installer | append-only rows; files | see `components` in PROJECT.json | |
| Landing page, scripts | | | |

Every statement goes through one connection (`SetMaxOpenConns(1)`), so a
statement, or a transaction, is atomic and nothing else about the database is
concurrent. The hard behaviour is everywhere else: between the statements of a
handler, a worker or a purge; between the statements and the in-memory maps;
between table and cron entries during a reload, while cron fires; between a
signal and a `Run` that has not finished starting; at a crash; and in files
whose names are in rows other calls delete.

What makes each component correct:

- *Runner*: a run is processed by one worker at a time and gets one outcome;
  `skip` is respected; a failure is retried up to `retry_max` and then reported
  once; the active maps mirror what executes; nothing waits for ever but for
  shell commands whose children keep their output open.
- *Scheduler*: after the requests have settled, entries equal the enabled rows;
  no stale entry survives; an instant fires once; the lock is always given back.
- *Application*: a missed tick is replayed, once; the heartbeat never passes a
  tick that still has to be replayed; a clean stop loses no trigger.
- *Maintenance*: no file in use is removed; the cap is reached and takes the
  oldest first; a day on which a cycle comes to its end has had exactly one
  purge (more only if its record was lost), recorded only when done.
- *Settings, license*: a request of several statements that nothing disturbs
  does all it says; one that stops half way does a part that makes sense; what
  was answered last stays true over restarts.
- *Migrations*: a process that runs has all its migrations, each applied once.
- *Life cycle*: a signal ends the process, and the database is closed last.
- *Web page*: the form belongs to the selection; late and lost answers do not
  leave the page showing what is not so.

## 2. Modules

| Module | Models | Runs |
|---|---|---|
| `RunStatus` | status values of a run | |
| `RunQueue` | abstract: what `job_runs` promises | through `ImplementsRunQueue` |
| `Runner` | the pool, both tables, the handlers that write them, the process | `runner_*` (`MCRunner`) |
| `RunnerProofs` | theorems about `Runner` | |
| `Scheduler` | handlers, reloads, `s.mu`, cron | `scheduler` (`MCScheduler`) |
| `SchedulerProofs` | theorems about `Scheduler` | |
| `License` | the three license requests, statement by statement | `scheduler` |
| `LicenseProofs` | theorem about `License` | |
| `Catchup` | catch-up, heartbeat, `Run` beside `Shutdown`, crashes | `catchup*` (`MCCatchup`) |
| `CatchupProofs` | theorems about `Catchup` | |
| `Outputs` | output files, purges, log cap, runner, worker | `outputs` (`MCOutputs`) |
| `Backoff` | `computeBackoff` on machine integers | `outputs` |
| `OutputTail` | `tailBuffer`, `outputCapture` | `outputs` |
| `Timestamps` | RFC3339Nano texts and their comparison | `outputs` |
| `OutputsProofs` | theorems about `Outputs`, `Backoff`, `OutputTail`, `Timestamps` | |
| `MaintenanceCycle` | the maintenance worker: nights and VACUUMs, what it records | `settings` (`MCSettings`) |
| `Settings` | PUT /settings/retention, and who enforces the log limit | `settings` |
| `MaintenanceProofs` | theorems about `MaintenanceCycle` and `Settings` | |
| `Lifecycle` | `runDaemon`, `Run`, `Shutdown` and all parts of a process | `settings` |
| `Migrations` | several processes that open and migrate one file | `settings` |
| `ProcessProofs` | theorems about `Lifecycle` and `Migrations` | |
| `LocalUI` | the page: selection, form, lists, calls that wait for answers | `ui*` |
| `LocalUIProofs` | theorem about `LocalUI` | |

Each module declares its parameters as CONSTANTS with a named assumption; an
`MC` module gives them small values. `MCScheduler`, `MCOutputs` and `MCSettings`
hold several components that share no state: their variable `subject`, chosen
in the initial state, names the one that moves in a behaviour, so that one run
is the sum of the runs of its components, each with its own fairness.
Definitions under a comment that begins "Variants" are one-mistake versions
of code definitions; the properties are tested against them (`mutants` in
PROJECT.json).

### Runner

`worker[w]` is the local state of `processOne` in goroutine `w`, and its `pc`
names the next call that touches shared state: `poll` (ClaimNextDue), `lookup`
(jobs.GetByID), `activate` (markActive), `exec`, `clear` (clearActive),
`finish` (MarkFinished), `retry` (CreateQueuedWithAttempt), `notify`
(runs.GetByID), `deliver` (the POST), and `early` for the three early returns.
`active` is the common domain of the two maps; `toCancel` holds the cancel
functions that `CancelRunningByJob` has collected under the lock and calls after
it. `daemon` says whether the workers' context still lives: once Stop has
cancelled it every statement of a worker fails (`DbWorks`, `DbFails`) and an
execution in progress is interrupted. `Faults` adds failing statements, a
failing webhook (which also stands for one that is not configured), Stop and
crashes. The HTTP handlers are actions that any row allows: enqueue, write,
pause, delete a job (with its runs), delete a run, cancel. A purge that deletes
several rows is several `DeleteRun` steps here; what matters about its
atomicity is in `Outputs`.

Abstractions: a second is the unit of time, and runs due in the same second
are claimed in any order (`Timestamps` shows that the text comparison is exact
to the second, no further); `RetryDelays` stands for what `Backoff` computes; an
execution is one step whose result is any the code can return under the
context's state.

`RunQueue` is the abstract machine: queued, claimed by one holder, outcome
final, or let go. `Runner` implements it with `status` mapped to the column and
`holder` to the run a worker still owes an outcome.

### Scheduler

`call[c]` is a request, or `Start`, at one of its steps: write the row, wait for
`s.mu`, remove the entries, list the table, register one row after the other,
unlock. Cron (`Wake`) and the clock run between any two steps. `cron` is the
library's list, `entries` the map `s.entries`: a reload removes from the list
what the map names, so that two reloads at once would leave entries in the list
that nothing can remove and that fire for ever; the lock is what prevents it.
`Specs` are the schedules `validateUpsertJob` accepts, `Registrable` those that
`AddFunc` accepts behind the `CRON_TZ=` prefix that `registerLocked` puts before
them. The initial table is arbitrary: it is what the last process left. The
removal of all entries is one step, so that a reload stops all of cron at once;
the instants lost between removal and registration are there all the same.
`@every` schedules, which count from their registration, are not modelled.

### Catchup

Schedules match even instants and clock readings are odd, because a reading has
nanoseconds and a schedule's instant has none; the deduplication by
`scheduled_at` hinges on it. `Run` and `Shutdown` are two processes, as in
`runDaemon`. `queue` is the set of ticks still to be replayed, `current` the job the
outer loop is at: it takes a job's ticks in their order and the jobs in any, since
`ListEnabled` has no ORDER BY. `missed`, `down`, `cut`, `fired`, `lost` and
`early` record, for the properties only, what happened to ticks. Only ticks
after a first heartbeat count as missed: before it there is no window to replay.
With the fault `timeout` an insert may outlast the ten seconds of `Shutdown`, and
its trigger with it; `TriggersKept` is about the other settings.

### Outputs

A file belongs to a run, by name. A maintenance call is a list of stages
(`select`, `delete`, `files` for a purge; `items`, `total`, `trim`, `clear` for
the log cap); each is one statement or one file operation. `Measure` is one step
because `runOutputBytes` keeps its query, and with it the only connection, open
while it measures. In `keep_recent` the place of a queued row, which counts by
its schedule, is arbitrary: an over-approximation. `Sorted` are the orders the
cap's SELECT may return its rows in: by the end of the run, ties in any order
(the query compares texts, which agree with the instants to the second, see
`Timestamps`). With the event `unremovable` the log cap may fail to remove a file,
whose error the code ignores; a purge that fails on one ends there (`Abort`).

### MaintenanceCycle

`pc` is the next statement of `runCycle`; `cycle` holds its clock reading, the
`retention_days` it has loaded and the number of rows it has deleted. Purge and
log cap are single steps here (`Outputs` has them statement by statement), but a
purge may fail before its DELETE and after it. A failing statement gives the
cycle up, except where the code only logs it. `Worker.Stop` makes every further
statement of the cycle fail, which is what a crash looks like to the tables.

A request that changes the retention while a cycle runs is a step of this module;
what the request itself does is in `Settings`.

### Settings

`put[q]` is a PUT /settings/retention at one of its statements: three reads, the
check of the merged values, three writes, the log cap. `cap[e]` is one of the
other two that enforce `max_log_bytes`, the maintenance cycle and POST
/maintenance/purge, each with the limit it has read. The log cap itself is one
step that leaves at most the limit it was called with, or a part of that when it
fails; `Outputs` has what it does to files. `before` and `overlapped` record what
a request found and whether another was at work beside it.

### License

A token is what its claims say (`genuine`, `from`, `until`). `ask[q]` is a
request at one of its statements; requests come in the order of their numbers,
and a clock reading is named after the request that made it, as it has
nanoseconds. `word` is the license the last change answered for; it is `Open`
while a change is under way, and stays open when two changes overlap.
`Reconfigure` ends the daemon at any statement and starts it with another key,
or none. The writes of the rows that ignore their errors in the code
(`last_checked_at`) ignore them here.

### Lifecycle

`run` is where `Run` is, `stage` where main and `Shutdown` are; `RunOrder` and
`StopOrder` say what comes after what. `running` stands for the flags of the
three workers and for `heartbeatCancel`, `asked` for the cancelled contexts and
the closed channels, `part[p]` for the goroutines of a part (or the requests of
the server). What a part does is in the other modules; here it is busy, which
is to use the database, or idle. `schedMu` is the scheduler's mutex, which its
`Stop` waits for without regard to the ten seconds.

### Migrations

`opener[p]` is a process at `CREATE TABLE schema_migrations`, at the check of its
n-th migration, at the transaction that applies it, or ready. The migrations of a
version are those numbered up to `Version[p]`, as the embedded files sort by
number. `applied` counts commits of a migration's SQL; the primary key of
`schema_migrations` refuses the second of two processes that both found it missing.

### LocalUI

Each handler of the page is a `Call` that runs to its next `await` in one step;
`sel` is the `selectedJobId` its closure captured, `got` the answer once the
daemon has given it. `Handle` is the daemon's part, `Answer` what the page does
when the answer arrives, `Lost` a request that fails. The effect on
`selectedJobId` and the interval of eight seconds start loads of their own. What
`busy` disables is guarded by it, what it does not is not. A job's fields are
abstracted to the job they belong to.

## 3. What the runs show

All runs pass `CHECK_DEADLOCK FALSE`: ids, clock, boots, requests and faults are
bounded, so every model stops when they are used up.

| Run | Instance | Shows |
|---|---|---|
| `runner_core` | 1 job, 3 runs, 2 workers, Stop, crash, 2 processes | `TypeOK`, `ClaimExclusive`, `RunningIsOwned`, `RetryChain`, `AlertOnce`, `NoSilentFailure`, `ActiveExact`, `OutcomeFinal`, `SkipRespected`, `ImplementsRunQueue` |
| `runner_live` | 1 job edited between http with a retry and shell without, 2 runs, 1 worker, failing statements and webhooks, Stop, fair | `DueRunsStart`, `RunsEnd`, `StopDrains` |
| `scheduler` | 2 jobs, 2 requests, 3 schedules, 2 instants, any table, disconnects | `StaleIsPending`, `RegistrationSettles`, `FiredOnce`, `QuietInstantsFire`, `LockFollowsReload` |
| | 3 license requests, 2 tokens, 2 days, 1 failure or restart | `LastWordStands` |
| `catchup` | 2 jobs (one never matches), 4 ticks, 3 boots, failing statements, signals, crashes, fair | `ReplayedOnce`, `DowntimeReplayed`, `TriggersKept`, `DowntimeRuns` |
| `outputs` | 2 runs, worker and 1 request, every event | `NamedFileExists`, `CapReached`, `OldestGoesFirst` |
| | all inputs within the bounds | `WithinAFifth`, `TailOfAll`, `DueToTheSecond` |
| `settings` | 3 days of 2 units, 2 processes, 1 failing statement, 2 retentions, runs ending at 2 instants, fair | `SavedNightIsPurged`, `OneNightADay`, `NightsCome`, `CycleDayPurged`, `VacuumKept` |
| | 2 concurrent requests with 3 bodies, 2 enforcers, 1 failing statement, fair | `AloneUpdateIsExact`, `LimitObeyed` |
| | one process, 5 parts, a reload, fair | `ClosedLast`, `StopsInTime` |
| | 3 processes of 2 versions, 3 failures or crashes | `SchemaReady` |
| `ui` | 2 jobs, 2 calls when the user clicks, 1 lost answer, fair | `PageSettles` |

Why the bounds are enough to be interesting. Three runs and two workers make two
executions and a retry overlap; `MaxNow = 1` in `runner_core` makes a retry wait
for the clock (`runner_live` stops the clock, which its properties do not need, to
afford faults and fairness). In `runner_live` two runs and one worker fill the
pool, which a shell command may then keep for ever, and the job changes between
the lookup and the decision to retry. `runner_core` has one configuration, so
that there an edit changes `enabled` alone; what it checks is proved for any
configurations (section 5). Two processes make what one leaves behind the other's problem; the
constraint `TwoRunsAfterStop` of `runner_core` cuts behaviours with a third run after the
first Stop or crash, and lets the third run meet everything else. Two requests
make a reload list what another request wrote; two jobs make one poison the
other's registration. Three license requests make a change, an overlapping one
and a status meet. Four ticks over three boots let a window be interrupted and
done again with `MaxReplay = 2` truncating it. Three days with two processes let
a night be given up, done again, or cross midnight, and runs that end at two
instants, on different days, let a purge delete some and leave others; with
`VacuumDeleted = 1` each of them is a large one. Two runs whose files together
exceed the cap, and one alone, let two calls of the log cap and a purge meet. A
16-bit `Width` with 10 units to the second overflows within 18 attempts. Three
retries let two older processes race, one die and the newer one take over. Two
jobs and two calls (which an effect and a poll each raise) let answers overtake
each other, and a selection move while both are out.

### Where code and documents differ

Five statements of the documentation, or of the page itself, that the code does
not keep have a run each, in which TLC finds a behaviour (the lines are under `findings` in
PROJECT.json):

- `runner_skip_violated`: `skip` after cancel-running (`SkipRespected` is what
  remains true: the other execution has at least been asked to stop);
- `runner_stop_violated`: rows left "running" by Stop;
- `runner_alert_violated`: a retry that `skip` drops, without an alert;
- `catchup_gap_violated`: ticks between the catch-up's window and cron;
- `ui_violated`: Run now selects the job it starts and leaves the form alone, so
  that the next Save overwrites that job with the fields of a new one.

Others are in the models but have no run of their own; the properties name them
as exceptions:

- a reload removes every entry before it adds them again, so an instant that
  passes in between is lost for all jobs (`QuietInstantsFire` asks for an
  instant without requests);
- a schedule that already starts with `CRON_TZ=` passes `validateUpsertJob` and
  is refused by `AddFunc`: the next start of the daemon fails, and a reload
  leaves the jobs after it in the list unregistered (`lastOk`);
- a write whose read-back fails answers 500 and does not reload (`dropped`);
- a VACUUM that fails after a large purge is not made up for before `vacuumEvery`
  has passed (`VacuumKept` is about cycles that come to their end);
- a signal during the start makes Shutdown persist the present as heartbeat over
  a window still to be replayed (`early` in `DowntimeReplayed`);
- the row of a live trigger bears a clock reading and is not found by the
  catch-up's deduplication, so a tick fired after the last heartbeat is replayed
  (`ReplayedOnce` counts the replays alone);
- a schedule that never matches gets a run at the zero time;
- the file of a run deleted while it executes, or of a deleted job, is never
  removed (`NamedFileExists` is the other direction only);
- of two PUT /settings/retention that overlap, one may take back a key that only
  the other named (`overlapped` in `AloneUpdateIsExact`);
- an activation that fails after its first statement answers 400 though the token
  is stored, and a status beside a deactivation leaves `last_checked_at` behind
  (`interfered` and `word` in `LastWordStands`);
- `scheduler.Stop` waits for its mutex, behind a reload or the `Start` of a `Run`
  under way, beyond the ten seconds (`StopsInTime` holds because both end);
- a part that `Run` starts after `Shutdown` has passed it over is never told to
  end, and the database is closed under it (`hasty` in `ClosedLast`);
  `heartbeatCancel` is written by one goroutine and read by the other without a
  lock, which the model takes as one of the two orders;
- `loadJobs` of a click or a poll clears the editor by the selection it captured,
  so that one under way when the selection changes may wipe what has been typed
  since (`TheEditorFollows` proves that form and selection stay together, not that
  nothing is lost);
- two calls of the log cap at once trim below the cap, and one whose rows a
  purge deletes stops above it (`crossed` in `CapReached`);
- the log cap counts a file that it cannot remove as freed and clears its name;
  another call with the same list that measures after that stops above the cap
  (`crossed` again);
- a shell command whose children keep its output open outlives its timeout,
  cancel-running and Stop (the exceptions of `DueRunsStart`, `RunsEnd` and
  `StopDrains`; see section 4).

## 4. Fairness

- `Runner`: weak fairness of every worker's next step, unless it is in a shell
  command (`InShell`), and of the cancel functions already collected. A goroutine
  is scheduled, a statement of SQLite returns, an http request ends with its
  context and a POST with the client's eight seconds. Nothing ends a shell command
  for certain: `timeout_sec`, cancel-running and Stop kill `/bin/sh` alone, and as
  its output goes through a pipe and there is no `WaitDelay`, `cmd.Run` waits on for
  any child that holds the pipe (`runner/service.go:403-410`; `server &` is
  enough). Such a command may never return, and the three liveness properties name
  it as their exception: no due run waits while the pool is not held by such
  commands alone, no other run and no other worker is kept. None for the clock,
  handlers, Stop, crash or boot.
- `Scheduler`: none; it has safety properties only. `LockFollowsReload` is what
  the model adds to the fairness of Go's `RWMutex` for requests to end.
- `Catchup`: weak fairness of `Run` and of `Shutdown`.
- `MaintenanceCycle`: weak fairness of the worker, whose ticker ticks, and of
  starting the daemon again; failures and crashes are bounded. None for the clock,
  which may also pass through a day between two steps of a cycle: `NightsCome` is
  about a day that lasts long enough, `CycleDayPurged`, a safety property, about
  every day whose date a cycle has read.
- `License`, `Migrations`: none; safety only.
- `Settings`: weak fairness of a request at work and of the maintenance cycle,
  whose ticker ticks. Nobody has to send a request.
- `Lifecycle`: weak fairness of main, of the ten-second timer, of a reload and of
  a `Start` that holds the mutex (the 30 seconds of `Run`'s context bound it), and
  strong fairness of the step in which `Stop` takes that mutex, since a
  `sync.Mutex` hands itself to one that has waited for a millisecond. That a part
  ever ends what it does is not assumed.
- `LocalUI`: strong fairness of the poll, whose interval fires whatever the user
  does (strong, because the bound on calls may disable it for a while); weak
  fairness of the answers to the polls' calls and to the others. The user does
  what he likes; `MaxLosses` bounds the failing requests.

## 5. What is proved

`RunnerProofs`, for every set of jobs, runs and workers, every configuration,
delay and bound, and every subset of the faults, from `RunnerAssumption` alone:

- `TypeCorrect`, `ClaimsAreExclusive`, `RetriesFormChains`, `AlertsAreUnique`,
  `ActiveIsExact`, `RunningRowsAreOwned`, `FailuresAreAnswered` (`Spec => []Inv`);
- `OutcomesAreFinal`, `SkipIsRespected` (`Spec => [][A]_vars`);
- `PoolImplementsRunQueue` (`Spec => Q!Spec`).

The argument is one inductive invariant, `IInv`, built of named parts.
`ClaimExclusive` alone is not inductive: a claim takes a queued run, and nothing
in it says that no other worker holds a queued run. `WorkerShape` and
`RowsMatch` say what a worker at each `pc` holds and which status the row of the
run has, so that a held run is running, removed, or already given the outcome
its holder carries. `Links` ties `parent` to the rows: a retry's attempt and job
follow its parent's, and a worker about to retry or to alert has not done so
yet; `Chain` and `Alerted` are then `RetryChain` and `AlertOnce` with the
worker's part added. `Bounded` bounds attempts by a `retry_max` of
`JobConfigs`, `DownIdle` says that no worker holds anything in a dead process.
The step lemmas go action by action; the actions that touch neither workers nor
rows of held runs share a lemma.

`RunningRowsAreOwned` and `FailuresAreAnswered` need a second invariant, `CalmInv`,
proved beside the first: a row that is there has its job's row (`Rooted`, the
foreign key), so that, with no failing statement, a retry is refused and an early
return fails a run only when a delete has taken the row along.

`SchedulerProofs`, for every set of jobs and requests, all schedules and every
table a restart may find, from `SchedulerAssumption`: `LockIsGivenBack`,
`OncePerInstant`, `StaleOnesAreWritten`, `RegistrationsFollowTheTable` and
`UndisturbedInstantsFire`, which are all the properties of the run `scheduler`
about the scheduler. Each adds a part to one invariant. `Settling` has the lock:
of two calls in a reload one would not hold it, so a reload is alone. Then
`OneEntryEach` says that `s.entries` names the only entry of a job, which is why
a reload that removes what the map names leaves nothing, and `NotAgain` that a
job fired in an instant is next due in a later one. `TableFollowed` says of
the registrations, and of the rows still to be registered, that they agree with
the table unless some request has written the job since (`Excused`); none of the
properties is inductive without the rows still to be registered. `NextIsAhead`
and `Undisturbed` follow the entries' Next through an instant without requests;
what they need of cron is `NextMatchIsNext`, that Next is the first match after
now, proved from the definition of `Min` by well-foundedness.

`MaintenanceProofs`, for days of any length, all retentions and any number of
cycles, failing statements and processes, from `CycleAssumption`:
`RecordedNightsArePurged` (`Spec => []SavedNightIsPurged`),
`NightsAreNotRepeated` (`Spec => []OneNightADay`) and `DaysOfCyclesArePurged`
(`Spec => CycleDayPurged`). A purge may come long after the
clock reading that will be recorded and after that reading's day has passed;
`PurgedNow` has what it leaves until the record is written, `RecordBefore` that
the record on disk is never ahead of the reading and, once the night is due, of an
earlier day, and `NightsCounted` that a day with a purge is on record, about to
be, or unsaved. `DaysPass`, that an instant is on no earlier day than one before
it, is proved from the division by the length of a day. `DayPurged` has what the third
needs: a recorded night's day has been purged, and so has the day of a cycle that
has found its night done or has done it, up to its end.

A VACUUM is owed only to what the two settings and the cycle's own count say, so
`VacuumsAreKept` (`Spec => VacuumKept`) needs no more than the types (`VacuumTypes`):
a cycle that ends without a failure has saved its VACUUM, or found none due.

The same module has `UpdatesAreExact`
(`SettingsInit /\ [][SettingsNext]_settingsVars => AloneUpdateIsExact`), from
`SettingsAssumption`. `Pairs` says that of two requests at work neither is alone,
so that nobody else writes beside one that is; `Alone` says for such a request how
much of its body is in the table at each of its statements (`Done`), and that the
values it will write are those it has found with its own put over them.

`ProcessProofs`, for every set of processes and every assignment of versions,
from `MigrationsAssumption`: `MigrationsAreReady`
(`MigrationsSpec => []SchemaReady`). Its invariant adds to the property that what
lies behind a process on its way through the migrations is recorded
(`Behind`): no row is ever deleted, so what one has seen recorded stays so. And
`DatabaseIsClosedLast` (`LifeSpec => []ClosedLast`).
`ClosedLast` speaks of the last stage only; `LoopInv` says for each loop what
`Run` and `Shutdown` have made of it by wherever they are: not started before
`Run` comes to it, told to end or marked running once started, and, once
`Shutdown` has left it behind, at its end, or outlasting the ten seconds, or
started behind Shutdown's back.

`CatchupProofs`, for every set of jobs, every schedule and limit, any number of
boots and all faults, from `CatchupAssumption`: `TicksAreReplayedOnce`,
`DowntimeIsReplayed` and `TriggersAreKept`. `DowntimeReplayed` is about the
heartbeat, which moves only where the catch-up is over; `WindowKept` has what is
known before: every tick of the downtime has its row, was cut off by the limit or
is still in the queue. `Past` puts those ticks before the reading the process
booted at, so that the window it computes holds them, and `Phases` says what
runs by where `Run` and `Shutdown` are: cron is off until the replay is done, and
callbacks have ended before the process does.

`OutputsProofs`, for every set of runs and requests and all sizes, from
`OutputsAssumption`: `NamedFilesExist`, `TheCapIsReached` and
`TheOldestGoesFirst`, of one invariant (`OutputsInvariant`). A call holds on to
what it has read while everything else goes on, so each part says what is left
of that reading: `InHand`, that the files it may remove are of runs that are over,
which no runner writes any more; `Once`, that it lists each file once; `Passed`, that before an item of the log cap's
list come all older ones that rows name, runs that end meanwhile being younger;
`Counted`, that the total it counts down covers the files still on its list, but
for the one it has just removed, or tried to, unless rows were deleted or another
call gave a file up (`crossed`). Sizes are added up as the cardinality of
the set of bytes (`Bytes`), and `WeightDrops` says what taking a file away does
to it.

The computations have three theorems there. `DelaysAreWithinAFifth`: if the exact
delay with its jitter fits, then so do the product of base and second, the shift
and every sum on the way (`WrapFits`). `TheTailIsOfTheWhole`: a chunk after a
truncated output leaves the same as truncating all (`TailOfConcat`, by cases on the
lengths). `RunsAreDueToTheSecond`: the first two characters of a text decide
(`TextOfAnInstant`, `SecondsComeFirst`). The provers know no more of `b^n` than that
it is an integer; `PowersOfTwo` and `PowersOfTen` assume its recurrence up to the
bound in use, and TLC evaluates them.

`LocalUIProofs`, for every set of jobs and any number of calls:
`TheEditorFollows` (`UISpec => []EditorFollows`), which no run checks besides. With `strayed` recording the two
ways in which the selection moves by itself, the property is inductive with the
types of the calls: every other assignment to the one comes with one to the other.

`LicenseProofs`, for every set of tokens and number of requests and troubles:
`TheLastWordStands` (`LicenseSpec => LastWordStands`, an action property). The rows agree with the word only between changes; `Written` says how
much of its license a change under way has written, and `Marked` that a change
leaves its mark on all that go on beside it, so that no unmarked request finds
rows of two.

Model-checked only: the liveness properties (`DueRunsStart`, `RunsEnd`, `StopDrains`, `DowntimeRuns`,
`NightsCome`, `LimitObeyed`, `StopsInTime`, `PageSettles`), since
TLAPS has no liveness under fairness here. The runs that expect a violation have
nothing to prove.

## 6. Not modelled

See `components` in PROJECT.json for each part and its reason. In short: event
rows, logs, exit codes, durations and JSON are left out because nothing decides
on them; PUT /settings/alerts is one statement, and the read-only handlers
decide nothing; the path aliasing and file server are stateless; configuration,
ids and the service installer do one thing once; the page's output pane,
storage and settings panels, filters and rendering only show what they load; the
landing page and packaging are not the daemon. `@every` schedules, whose
instants depend on when they are registered, are not in `Scheduler`. A failing
write to the output file is not in `OutputTail`: the capture writes the tail
first, and after a failed file write it is written no more.
Some hazards have no property; each says why.

## 7. Plan

Done: 1. `RunStatus`, `RunQueue`, `Runner`. 2. `Scheduler`. 3. `Catchup`.
4. `Outputs`. 5. `Backoff`, `OutputTail`, `Timestamps`. 6. `MaintenanceCycle`.
7. `Settings`. 8. `Lifecycle`. 9. `License`. 10. `Migrations`. 11. `LocalUI`; all with
proofs.

Next refinements: an abstract `Registry` (entries are a function of a table
some request has listed) that `Scheduler` implements, and an abstract
`TickLog` for `Catchup`, both checked and then proved as `RunQueue` is.
