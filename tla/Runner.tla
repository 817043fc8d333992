------------------------------- MODULE Runner -------------------------------
(***************************************************************************)
(* The worker pool of internal/runner over the tables jobs and job_runs.   *)
(*                                                                         *)
(* Every statement and every transaction goes through one SQLite           *)
(* connection (SetMaxOpenConns(1)), so one of them is one step here.  What *)
(* a worker keeps between two statements is its record in `worker`; what   *)
(* the workers and the HTTP handlers share in memory is `active` (the two  *)
(* maps under activeMu, which always have the same domain) and `toCancel`  *)
(* (cancel functions collected under the lock and not called yet).         *)
(*                                                                         *)
(* A unit of `now` is one second.  Inside a second the order of due runs   *)
(* is arbitrary, as it is for the trimmed RFC 3339 strings the code        *)
(* compares.  Log lines, event rows, exit codes, output and durations are  *)
(* left out.                                                               *)
(***************************************************************************)
EXTENDS Integers, RunStatus

CONSTANTS
  Jobs,         \* ids of jobs
  RunIds,       \* ids of runs; an id is used once (idgen.New)
  Workers,      \* the goroutines Start creates, NewService makes it >= 1
  JobConfigs,   \* the job rows the API may write
  RetryDelays,  \* seconds computeBackoff may return
  Faults,       \* what may go wrong: subset of {"db", "webhook", "stop", "crash"}
  MaxNow,       \* bound on the clock
  MaxBoots,     \* bound on the number of daemon processes
  NoJob, NoRun

JobRecord == [enabled : BOOLEAN, overlap : {"skip", "allow"},
              retryMax : Nat, kind : {"shell", "http"}]

ASSUME RunnerAssumption ==
  /\ NoJob \notin Jobs /\ NoRun \notin RunIds
  /\ JobConfigs \subseteq JobRecord /\ NoJob \notin JobRecord
  /\ RetryDelays \subseteq Nat
  /\ MaxNow \in Nat /\ MaxBoots \in Nat
  /\ Workers # {}

VARIABLES
  daemon,    \* "up", "stopping" (Stop has cancelled the context) or "down"
  boots,     \* processes started so far
  now,       \* the wall clock, in seconds
  jobs,      \* table jobs: NoJob or the columns the runner reads
  runs,      \* table job_runs
  worker,    \* processOne of every worker
  active,    \* keys of activeRunJobs and activeCancels
  toCancel,  \* runs whose cancel function CancelRunningByJob has yet to call
  parent,    \* history: the run a retry was created for
  alerts     \* history: webhook events delivered for a run

proc == <<daemon, boots, now>>
db   == <<jobs, runs>>
hist == <<parent, alerts>>
vars == <<proc, jobs, runs, worker, active, toCancel, parent, alerts>>

(***************************************************************************)
(* Workers                                                                 *)
(***************************************************************************)
Owning == {"lookup", "activate", "early", "exec", "clear", "finish"}
After  == {"retry", "notify", "deliver"}
Pcs    == {"poll", "exited"} \cup Owning \cup After

Idle(at) == [pc |-> at, run |-> NoRun, job |-> NoJob, res |-> "none", cancelled |-> FALSE]

pc(w)     == worker[w].pc
Job(r)    == runs[r].job
Status(r) == runs[r].status
Holds(w)  == pc(w) \in Owning \cup After

\* The worker's context ends with Stop; a request's context does not.
DbWorks == daemon = "up"
DbFails == daemon = "stopping" \/ "db" \in Faults

Go(w, to)      == worker' = [worker EXCEPT ![w].pc = to]
GoWith(w, to, res) == worker' = [worker EXCEPT ![w] = [@ EXCEPT !.pc = to, !.res = res]]
Leave(w)       == worker' = [worker EXCEPT ![w] = Idle("poll")]

Init ==
  /\ daemon = "up" /\ boots = 1 /\ now = 0
  /\ jobs = [j \in Jobs |-> NoJob]
  /\ runs = [r \in RunIds |-> [job |-> NoJob, status |-> "none", attempt |-> 0, at |-> 0]]
  /\ worker = [w \in Workers |-> Idle("poll")]
  /\ active = {} /\ toCancel = {}
  /\ parent = [r \in RunIds |-> NoRun]
  /\ alerts = [r \in RunIds |-> 0]

-----------------------------------------------------------------------------
\* Variants of definitions below, each with one plausible mistake: what the
\* properties must be able to tell from the code.
ClaimableAnyStatus(r) == Status(r) \in {"queued", "running"} /\ runs[r].at <= now
NextDueStrict == {r \in RunIds : /\ Status(r) = "queued" /\ runs[r].at <= now
                                 /\ \A q \in RunIds \ {r} : Status(q) = "queued" => runs[r].at < runs[q].at}
NextAttemptDown(r)    == runs[r].attempt - 1
MatchesQueued(r)      == Status(r) = "queued"
OverlapIgnored(r, job) == FALSE
OutcomesUncancelled(w) == IF daemon = "stopping" /\ worker[w].job.kind = "http" THEN {}
                          ELSE {"success", "failed", "timed_out"}
KeepActive(r)         == active
ShouldRetryCancelled(s) == s \in Retryable \cup {"cancelled"}
ShouldRetryFailedOnly(s) == s = "failed"
AttemptsLeftInclusive(w) == runs[worker[w].run].attempt <= worker[w].job.retryMax

-----------------------------------------------------------------------------
(* job_runs *)

\* ClaimNextDue's WHERE clause.
Claimable(r) == Status(r) = "queued" /\ runs[r].at <= now

\* ... and its ORDER BY scheduled_at, to the second.
NextDue == {r \in RunIds : Claimable(r) /\ \A q \in RunIds : Claimable(q) => runs[r].at <= runs[q].at}

SetStatus(r, s) == runs' = [runs EXCEPT ![r].status = s]

\* CreateQueuedWithAttempt: the foreign key needs the job's row.
CreateQueued(r, j, at, attempt) ==
  /\ Status(r) = "none"
  /\ jobs[j] # NoJob
  /\ runs' = [runs EXCEPT ![r] = [job |-> j, status |-> "queued", attempt |-> attempt, at |-> at]]

NextAttempt(r) == runs[r].attempt + 1

\* MarkFinished's WHERE clause matches the id alone, whatever status the row has.
Matches(r) == Status(r) # "removed"
MarkFinished(r, s) == Matches(r) /\ SetStatus(r, s)

\* DELETE FROM job_runs for the rows of S that exist.
RemoveRuns(S) ==
  runs' = [r \in RunIds |-> IF r \in S /\ Status(r) # "none"
                            THEN [runs[r] EXCEPT !.status = "removed"] ELSE runs[r]]

-----------------------------------------------------------------------------
(* processOne *)

Claim(w) ==
  /\ pc(w) = "poll" /\ DbWorks
  /\ \E r \in NextDue :
       /\ SetStatus(r, "running")
       /\ worker' = [worker EXCEPT ![w] = [Idle("lookup") EXCEPT !.run = r]]
  /\ UNCHANGED <<proc, jobs, active, toCancel, hist>>

\* jobs.GetByID: any error is taken for "job_not_found".
Lookup(w) ==
  LET job == jobs[Job(worker[w].run)] IN
  /\ pc(w) = "lookup"
  /\ \/ DbWorks /\ job # NoJob /\ job.enabled
        /\ worker' = [worker EXCEPT ![w] = [@ EXCEPT !.pc = "activate", !.job = job]]
     \/ DbWorks /\ job # NoJob /\ ~job.enabled /\ GoWith(w, "early", "cancelled")
     \/ (DbFails \/ job = NoJob) /\ GoWith(w, "early", "failed")
  /\ UNCHANGED <<proc, db, active, toCancel, hist>>

\* The runs that make markActive refuse run r of a job with record `job`.
OverlapBlocks(r, job) ==
  job.overlap = "skip" /\ \E q \in active : q # r /\ Job(q) = Job(r)

MarkActive(w) ==
  LET r == worker[w].run IN
  /\ pc(w) = "activate"
  /\ IF OverlapBlocks(r, worker[w].job)
     THEN GoWith(w, "early", "skipped_overlap") /\ UNCHANGED active
     ELSE Go(w, "exec") /\ active' = active \cup {r}
  /\ UNCHANGED <<proc, db, toCancel, hist>>

\* The early returns ignore the error of MarkFinished.
FinishEarly(w) ==
  /\ pc(w) = "early"
  /\ \/ DbWorks /\ MarkFinished(worker[w].run, worker[w].res)
     \/ (DbFails \/ ~Matches(worker[w].run)) /\ UNCHANGED runs
  /\ Leave(w)
  /\ UNCHANGED <<proc, jobs, active, toCancel, hist>>

\* What execute returns.  A shell run looks at its context after the command,
\* whatever the command returned; an HTTP run only when Do fails, so a cancel
\* that arrives later is not seen, or becomes "http_read_failed".
Interrupted(w) == worker[w].cancelled \/ daemon = "stopping"
Outcomes(w) ==
  IF ~Interrupted(w) THEN {"success", "failed", "timed_out"}
  ELSE {"cancelled", "timed_out", "failed"}
       \cup (IF worker[w].job.kind = "http" THEN {"success"} ELSE {})

Execute(w) ==
  /\ pc(w) = "exec"
  /\ \E s \in Outcomes(w) : GoWith(w, "clear", s)
  /\ UNCHANGED <<proc, db, active, toCancel, hist>>

WithoutActive(r) == active \ {r}

ClearActive(w) ==
  /\ pc(w) = "clear"
  /\ active' = WithoutActive(worker[w].run)
  /\ Go(w, "finish")
  /\ UNCHANGED <<proc, db, toCancel, hist>>

ShouldRetry(s) == s \in Retryable

\* The attempt is compared with retry_max as it was at the lookup.
AttemptsLeft(w) == runs[worker[w].run].attempt < worker[w].job.retryMax

\* An error of MarkFinished, or no row to update, ends processOne here.
Finish(w) ==
  LET r == worker[w].run
      s == worker[w].res IN
  /\ pc(w) = "finish"
  /\ \/ DbWorks /\ MarkFinished(r, s)
        /\ IF ~ShouldRetry(s) THEN Leave(w)
           ELSE Go(w, IF AttemptsLeft(w) THEN "retry" ELSE "notify")
     \/ (DbFails \/ ~Matches(r)) /\ UNCHANGED runs /\ Leave(w)
  /\ UNCHANGED <<proc, jobs, active, toCancel, hist>>

\* A failed insert is logged and nothing else.
Retry(w) ==
  LET p == worker[w].run IN
  /\ pc(w) = "retry"
  /\ \/ /\ DbWorks
        /\ \E r \in RunIds, d \in RetryDelays :
             /\ CreateQueued(r, Job(p), now + d, NextAttempt(p))
             /\ parent' = [parent EXCEPT ![r] = p]
     \/ (DbFails \/ jobs[Job(p)] = NoJob) /\ UNCHANGED <<runs, parent>>
  /\ Leave(w)
  /\ UNCHANGED <<proc, jobs, active, toCancel, alerts>>

\* Without the row there is no alert, and no trace of it.
LoadForAlert(w) ==
  /\ pc(w) = "notify"
  /\ \/ DbWorks /\ Status(worker[w].run) # "removed" /\ Go(w, "deliver")
     \/ (DbFails \/ Status(worker[w].run) = "removed") /\ Leave(w)
  /\ UNCHANGED <<proc, db, active, toCancel, hist>>

\* NotifyTerminalFailure: one POST, never repeated.
Deliver(w) ==
  /\ pc(w) = "deliver"
  /\ \/ alerts' = [alerts EXCEPT ![worker[w].run] = @ + 1]
     \/ (DbFails \/ "webhook" \in Faults) /\ UNCHANGED alerts
  /\ Leave(w)
  /\ UNCHANGED <<proc, db, active, toCancel, parent>>

\* Variant of WorkerExit with one plausible mistake: runs that are due come first.
WorkerExitIdle(w) ==
  /\ pc(w) = "poll" /\ daemon = "stopping" /\ NextDue = {}
  /\ Go(w, "exited")
  /\ UNCHANGED <<proc, db, active, toCancel, hist>>

\* A worker returns only from its select, so it ends its run first.
WorkerExit(w) ==
  /\ pc(w) = "poll" /\ daemon = "stopping"
  /\ Go(w, "exited")
  /\ UNCHANGED <<proc, db, active, toCancel, hist>>

WorkerStep(w) ==
  \/ Claim(w) \/ Lookup(w) \/ MarkActive(w) \/ FinishEarly(w) \/ Execute(w)
  \/ ClearActive(w) \/ Finish(w) \/ Retry(w) \/ LoadForAlert(w) \/ Deliver(w)
  \/ WorkerExit(w)

-----------------------------------------------------------------------------
(* The HTTP handlers and the cron callback; the server outlives the runner. *)

Serving == daemon \in {"up", "stopping"}

\* POST /jobs/{id}/run, a cron entry that fires, a missed run at startup.
Enqueue(j, r) ==
  /\ Serving /\ CreateQueued(r, j, now, 0)
  /\ UNCHANGED <<proc, jobs, worker, active, toCancel, hist>>

\* POST /jobs and PUT /jobs/{id}; a deleted id never comes back, so only ids
\* without runs may be new.
WriteJob(j, c) ==
  /\ Serving
  /\ jobs[j] = NoJob => \A r \in RunIds : Job(r) # j
  /\ jobs' = [jobs EXCEPT ![j] = c]
  /\ UNCHANGED <<proc, runs, worker, active, toCancel, hist>>

\* POST /jobs/{id}/pause and /resume.
SetEnabled(j, b) ==
  /\ Serving /\ jobs[j] # NoJob
  /\ jobs' = [jobs EXCEPT ![j].enabled = b]
  /\ UNCHANGED <<proc, runs, worker, active, toCancel, hist>>

\* DELETE /jobs/{id}: ON DELETE CASCADE takes the runs along.
DeleteJob(j) ==
  /\ Serving /\ jobs[j] # NoJob
  /\ jobs' = [jobs EXCEPT ![j] = NoJob]
  /\ RemoveRuns({r \in RunIds : Job(r) = j})
  /\ UNCHANGED <<daemon, boots, now, worker, active, toCancel, hist>>

\* DELETE /runs/{id}, and the purges: no condition on the status.
DeleteRun(r) ==
  /\ Serving /\ Status(r) \notin {"none", "removed"}
  /\ RemoveRuns({r})
  /\ UNCHANGED <<proc, jobs, worker, active, toCancel, hist>>

\* CancelRunningByJob under activeMu: the entries leave the maps at once.
Collected(j) == {r \in active : Job(r) = j}

CancelRunningByJob(j) ==
  /\ Serving /\ jobs[j] # NoJob /\ Collected(j) # {}
  /\ active' = active \ Collected(j)
  /\ toCancel' = toCancel \cup Collected(j)
  /\ UNCHANGED <<proc, db, worker, hist>>

\* ... and after the unlock, one cancel function after the other.
CallCancel(r) ==
  /\ r \in toCancel
  /\ toCancel' = toCancel \ {r}
  /\ worker' = [w \in Workers |->
                 IF worker[w].run = r /\ pc(w) = "exec"
                 THEN [worker[w] EXCEPT !.cancelled = TRUE] ELSE worker[w]]
  /\ UNCHANGED <<proc, db, active, hist>>

-----------------------------------------------------------------------------
(* The process *)

\* Stop cancels the context of every worker; nothing waits for the claims.
Stop ==
  /\ "stop" \in Faults /\ daemon = "up"
  /\ daemon' = "stopping"
  /\ UNCHANGED <<boots, now, db, worker, active, toCancel, hist>>

\* A crash, or Stop returning: because the workers are done, or because its
\* context (10 s) is.  Only the database survives.
ProcessExit ==
  /\ \/ daemon = "stopping"
     \/ daemon = "up" /\ "crash" \in Faults
  /\ daemon' = "down"
  /\ worker' = [w \in Workers |-> Idle("exited")]
  /\ active' = {} /\ toCancel' = {}
  /\ UNCHANGED <<boots, now, db, hist>>

\* NewService and Start: empty maps, nothing read from job_runs.
Boot ==
  /\ daemon = "down" /\ boots < MaxBoots
  /\ daemon' = "up" /\ boots' = boots + 1
  /\ worker' = [w \in Workers |-> Idle("poll")]
  /\ UNCHANGED <<now, db, active, toCancel, hist>>

Tick ==
  /\ now < MaxNow /\ now' = now + 1
  /\ UNCHANGED <<daemon, boots, db, worker, active, toCancel, hist>>

Handlers ==
  \/ \E j \in Jobs, r \in RunIds : Enqueue(j, r)
  \/ \E j \in Jobs, c \in JobConfigs : WriteJob(j, c)
  \/ \E j \in Jobs, b \in BOOLEAN : SetEnabled(j, b)
  \/ \E j \in Jobs : DeleteJob(j) \/ CancelRunningByJob(j)
  \/ \E r \in RunIds : DeleteRun(r) \/ CallCancel(r)

Next == (\E w \in Workers : WorkerStep(w)) \/ Handlers \/ Stop \/ ProcessExit \/ Boot \/ Tick

Spec == Init /\ [][Next]_vars

\* An HTTP request ends because of its context, a POST because of the client's
\* timeout.  A shell command need not: timeout and cancel kill the shell alone,
\* and cmd.Run waits on for any child that holds the output open.
InShell(w) == pc(w) = "exec" /\ worker[w].job.kind = "shell"

\* A worker is a goroutine, so it is scheduled; a handler calls what it collected.
Fairness ==
  /\ \A w \in Workers : WF_vars(WorkerStep(w) /\ ~InShell(w))
  /\ \A r \in RunIds : WF_vars(CallCancel(r))

FairSpec == Spec /\ Fairness

-----------------------------------------------------------------------------
(* Safety *)

RunRow == [job : Jobs \cup {NoJob}, status : Statuses, attempt : Nat, at : Nat]
WorkerRecord == [pc : Pcs, run : RunIds \cup {NoRun}, job : JobRecord \cup {NoJob},
                 res : Terminal \cup {"none"}, cancelled : BOOLEAN]

TypeOK ==
  /\ daemon \in {"up", "stopping", "down"} /\ boots \in Nat /\ now \in Nat
  /\ jobs \in [Jobs -> JobRecord \cup {NoJob}]
  /\ runs \in [RunIds -> RunRow]
  /\ worker \in [Workers -> WorkerRecord]
  /\ active \subseteq RunIds /\ toCancel \subseteq RunIds
  /\ parent \in [RunIds -> RunIds \cup {NoRun}]
  /\ alerts \in [RunIds -> Nat]

\* Two workers never process the same run: the claim is atomic.
ClaimExclusive ==
  \A v, w \in Workers : v # w /\ Holds(v) /\ Holds(w) => worker[v].run # worker[w].run

\* In the first process, until it stops, with every statement and POST working.
Calm == daemon = "up" /\ boots = 1 /\ Faults \cap {"db", "webhook"} = {}

\* Short of faults a row says "running" exactly while a worker still owes it an
\* outcome: no delete, cancel, pause or edit strands a row.
Owns(w, r) == pc(w) \in Owning /\ worker[w].run = r
RunningIsOwned ==
  \A r \in RunIds :
    /\ (\E w \in Workers : Owns(w, r)) => Status(r) \in {"running", "removed"}
    /\ Calm /\ Status(r) = "running" => \E w \in Workers : Owns(w, r)

\* Although MarkFinished overwrites any status, no recorded outcome changes.
OutcomeFinal ==
  [][\A r \in RunIds : Status(r) \in Terminal => Status(r)' \in {Status(r), "removed"}]_vars

\* A run has at most one retry, of the same job, one attempt later and within a
\* retry_max the job had; a cancelled or skipped run has none.
Retries(p) == {r \in RunIds : parent[r] = p}
RetryChain ==
  \A p \in RunIds : \A r \in Retries(p) :
    /\ Retries(p) = {r}
    /\ Status(p) \in Retryable \cup {"removed"}
    /\ Job(r) = Job(p) /\ runs[r].attempt = runs[p].attempt + 1
    /\ \E c \in JobConfigs : runs[r].attempt <= c.retryMax

\* At most one webhook event per run, for a failure, and never for a run that
\* is retried.
AlertOnce ==
  \A r \in RunIds : alerts[r] > 0 =>
    /\ alerts[r] = 1
    /\ Retries(r) = {}
    /\ Status(r) \in Retryable \cup {"removed"}

\* Short of faults a failed run whose row is still there was retried or
\* reported before its worker let go of it.
Unheld(r) == \A w \in Workers : worker[w].run # r
NoSilentFailure ==
  Calm =>
    \A r \in RunIds :
      Status(r) \in Retryable /\ Unheld(r) => Retries(r) # {} \/ alerts[r] = 1

\* The maps hold no stale entry, which would make `skip` refuse the job for
\* ever, and miss no executing run but those a cancel was requested for.
CancelRequested(w) == worker[w].cancelled \/ worker[w].run \in toCancel
ActiveExact ==
  /\ \A r \in active : \E w \in Workers : worker[w].run = r /\ pc(w) \in {"exec", "clear"}
  /\ \A w \in Workers : pc(w) = "exec" => worker[w].run \in active \/ CancelRequested(w)

\* A run under `skip` starts only when every execution of its job still going
\* on has been asked to stop.
SkipRespected ==
  [][\A w \in Workers :
       pc(w) = "activate" /\ pc(w)' = "exec" /\ worker[w].job.overlap = "skip" =>
         \A v \in Workers \ {w} :
           pc(v) = "exec" /\ Job(worker[v].run) = Job(worker[w].run) => CancelRequested(v)]_vars

-----------------------------------------------------------------------------
(* Liveness *)

\* While the daemon stays up every due run is claimed (or deleted), unless shell
\* commands that never return come to hold the whole pool ...
DueRunsStart ==
  []<>(\E w \in Workers : ~InShell(w)) =>
    \A r \in RunIds :
      Status(r) = "queued" /\ runs[r].at <= now ~> Status(r) # "queued" \/ daemon # "up"

\* ... and every claimed run comes to its end, retry and alert included: its
\* worker lets go of it, with an outcome (RunningIsOwned) or for an error.  Only
\* a shell command can keep it for ever, past timeout_sec, cancel-running and Stop.
RunsEnd ==
  \A r \in RunIds :
    \/ ~Unheld(r) ~> Unheld(r)
    \/ <>[](\E w \in Workers : worker[w].run = r /\ InShell(w))

\* Stop gets every worker back, whatever it was doing, but those that a shell
\* command keeps: only for these does its wait need the ten seconds.
StopDrains ==
  \A w \in Workers :
    \/ daemon = "stopping" ~> pc(w) = "exited" \/ daemon # "stopping"
    \/ <>[]InShell(w)

-----------------------------------------------------------------------------
(* What a user of job_runs relies on *)

RowStatus == [r \in RunIds |-> Status(r)]
Holder    == [w \in Workers |-> IF pc(w) \in Owning THEN worker[w].run ELSE NoRun]

Q == INSTANCE RunQueue WITH status <- RowStatus, holder <- Holder

\* The worker pool keeps the promise of RunQueue.
ImplementsRunQueue == Q!Spec

-----------------------------------------------------------------------------
(* What the documentation says and the code does not do *)

\* docs/planning/mvp-backlog.md: "Overlap policy `skip` is enforced."
Executing(w) == pc(w) = "exec"
SkipEnforced ==
  \A v, w \in Workers :
    v # w /\ Executing(v) /\ Executing(w) /\ Job(worker[v].run) = Job(worker[w].run) =>
      worker[v].job.overlap = "allow" \/ worker[w].job.overlap = "allow"

\* docs/planning/mvp-backlog.md: "Persist run state transitions and output tails."
StopPersists ==
  daemon = "stopping" /\ (\A w \in Workers : pc(w) = "exited") =>
    \A r \in RunIds : Status(r) # "running"

\* docs/planning/mvp-backlog.md: "Final failure sends one webhook event."
DroppedRetryReported ==
  \A r \in RunIds :
    parent[r] # NoRun /\ Status(r) = "skipped_overlap" /\ Unheld(r) =>
      alerts[r] + alerts[parent[r]] = 1

=============================================================================
