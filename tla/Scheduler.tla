------------------------------ MODULE Scheduler ------------------------------
(***************************************************************************)
(* internal/scheduler, with the job handlers of internal/api that write    *)
(* the table jobs and then reload the scheduler, and the table itself.     *)
(*                                                                         *)
(* A handler's write and its Reload are separate steps; Reload holds s.mu  *)
(* over several, and the cron goroutine, which does not take s.mu, fires   *)
(* between them.  `cron` is the list inside the cron library and `entries` *)
(* the map s.entries, whose ids point to the newest entry of each job.  A  *)
(* schedule is the set of instants it matches (Times); the clock moves     *)
(* from instant to instant.                                                *)
(***************************************************************************)
EXTENDS Integers, SequencesExt

CONSTANTS
  Jobs, Handlers,
  Specs,        \* schedules that validateUpsertJob accepts ...
  Registrable,  \* ... and those AddFunc accepts behind a "CRON_TZ=" prefix
  Times,        \* instants a schedule matches
  Faults,       \* subset of {"disconnect"}: a request's context may end
  MaxNow,       \* bound on the clock
  NoJob, Nobody, Starter

Row   == [enabled : BOOLEAN, spec : Specs]

ASSUME SchedulerAssumption ==
  /\ Registrable \subseteq Specs /\ MaxNow \in Nat
  /\ Times \in [Specs -> SUBSET (1..MaxNow)]
  /\ Starter \notin Handlers /\ Nobody \notin Handlers \cup {Starter}
  /\ NoJob \notin Row

VARIABLES
  phase,    \* "starting" (Start reloads), "serving", "failed" (Start returned an error)
  now,
  jobs,     \* table jobs: NoJob, or whether it is enabled and its schedule
  entries,  \* s.entries: the jobs in it
  cron,     \* cron's entries of a job: schedule and Next, oldest first
  mu,       \* who holds s.mu
  call,     \* the request or the Start in progress
  lastOk,   \* the last reload returned nil
  dropped,  \* history: jobs written, since the table was last listed, by a
            \* request that ended before its reload
  quiet,    \* history: the table and the registrations have agreed since the
            \* present instant began: no request, no failed reload
  fired     \* history: how often a job was fired at an instant

vars == <<phase, now, jobs, entries, cron, mu, call, lastOk, dropped, quiet, fired>>
regs == <<entries, cron>>
hist == <<dropped, quiet>>

Callers == Handlers \cup {Starter}
Resting == [pc |-> "idle", job |-> NoJob, todo |-> {}]

\* Variants of definitions below, each with one plausible mistake.
KeepRegistered == cron
LeaveLocked(c) == UNCHANGED mu
LockShared     == TRUE
EnabledOrNot   == {j \in Jobs : jobs[j] # NoJob}

\* robfig/cron's Schedule.Next: the first match strictly after t (past the
\* bound if there is none).
NextMatch(spec, t) == Min({i \in Times[spec] : i > t} \cup {MaxNow + 1})

Init ==
  /\ phase = "starting" /\ now = 0
  /\ jobs \in [Jobs -> Row \cup {NoJob}]
  /\ entries = {} /\ cron = [j \in Jobs |-> <<>>]
  /\ mu = Starter
  /\ call = [c \in Callers |-> IF c = Starter THEN [Resting EXCEPT !.pc = "clear"] ELSE Resting]
  /\ lastOk = TRUE /\ dropped = {} /\ quiet = FALSE
  /\ fired = [j \in Jobs |-> [t \in 0..MaxNow |-> 0]]

Goto(c, to) == call' = [call EXCEPT ![c].pc = to]

-----------------------------------------------------------------------------
(* Handlers *)

\* POST /jobs, PUT /jobs/{id}, /pause, /resume (a row) and DELETE (NoJob).
\* Once the statement is committed the read-back of the row may still fail:
\* the handler answers 500 and does not reload.
Write(h, j, row) ==
  /\ phase = "serving" /\ call[h].pc = "idle"
  /\ row = NoJob => jobs[j] # NoJob
  /\ jobs' = [jobs EXCEPT ![j] = row]
  /\ quiet' = FALSE
  /\ \/ /\ call' = [call EXCEPT ![h] = [Resting EXCEPT !.pc = "reload", !.job = j]]
        /\ UNCHANGED dropped
     \/ /\ "disconnect" \in Faults /\ row # NoJob
        /\ dropped' = dropped \cup {j}
        /\ UNCHANGED call
  /\ UNCHANGED <<phase, now, regs, mu, lastOk, fired>>

MuIsFree == mu = Nobody

\* Reload takes the lock whatever became of its context.
Lock(h) ==
  /\ call[h].pc = "reload" /\ MuIsFree
  /\ mu' = h /\ Goto(h, "clear")
  /\ UNCHANGED <<phase, now, jobs, regs, lastOk, hist, fired>>

-----------------------------------------------------------------------------
(* reloadLocked *)

\* cron.Remove takes the ids of the map: what it does not name stays.
Cleared == [j \in Jobs |-> IF j \in entries THEN Front(cron[j]) ELSE cron[j]]

Clear(c) ==
  /\ call[c].pc = "clear"
  /\ cron' = Cleared /\ entries' = {}
  /\ Goto(c, "list")
  /\ UNCHANGED <<phase, now, jobs, mu, lastOk, hist, fired>>

\* The deferred unlock.
Unlock(c) == mu' = Nobody

\* An error leaves the entries as far as they got; in Start it ends Run.
Fail(c) ==
  /\ Unlock(c)
  /\ lastOk' = FALSE
  /\ call' = [call EXCEPT ![c] = Resting]
  /\ phase' = IF c = Starter THEN "failed" ELSE phase

\* ListEnabled
Enabled == {j \in Jobs : jobs[j] # NoJob /\ jobs[j].enabled}

Listed == {[job |-> j, spec |-> jobs[j].spec] : j \in Enabled}

List(c) ==
  /\ call[c].pc = "list"
  /\ \/ /\ call' = [call EXCEPT ![c] = [@ EXCEPT !.pc = "register", !.todo = Listed]]
        /\ dropped' = {}
        /\ UNCHANGED <<phase, mu, lastOk>>
     \/ "disconnect" \in Faults /\ Fail(c) /\ UNCHANGED dropped
  /\ UNCHANGED <<now, jobs, regs, quiet, fired>>

\* registerLocked, for the rows in any order (the query has no ORDER BY).
Register(c) ==
  /\ call[c].pc = "register"
  /\ \E item \in call[c].todo :
       \/ /\ item.spec \in Registrable
          /\ cron' = [cron EXCEPT ![item.job] =
                        Append(@, [spec |-> item.spec, next |-> NextMatch(item.spec, now)])]
          /\ entries' = entries \cup {item.job}
          /\ call' = [call EXCEPT ![c].todo = @ \ {item}]
          /\ UNCHANGED <<phase, mu, lastOk>>
       \/ item.spec \notin Registrable /\ Fail(c) /\ UNCHANGED regs
  /\ UNCHANGED <<now, jobs, hist, fired>>

\* The entries of S get a new Next.
Renewed(S) ==
  [j \in Jobs |-> [i \in DOMAIN cron[j] |->
     IF <<j, i>> \in S THEN [cron[j][i] EXCEPT !.next = NextMatch(cron[j][i].spec, now)] ELSE cron[j][i]]]

AllEntries == UNION {{j} \X DOMAIN cron[j] : j \in Jobs}

\* cron.Start, last step of Start, computes every Next anew.
Started == phase' = "serving" /\ cron' = Renewed(AllEntries) /\ UNCHANGED entries

Finish(c) ==
  /\ call[c].pc = "register" /\ call[c].todo = {}
  /\ Unlock(c)
  /\ lastOk' = TRUE
  /\ call' = [call EXCEPT ![c] = Resting]
  /\ IF c = Starter THEN Started ELSE UNCHANGED <<phase, regs>>
  /\ UNCHANGED <<now, jobs, hist, fired>>

Reload(c) == Clear(c) \/ List(c) \/ Register(c) \/ Finish(c)

-----------------------------------------------------------------------------
(* Cron and the clock *)

Due == {e \in AllEntries : cron[e[1]][e[2]].next <= now}

\* The library's run loop: every due entry gets a goroutine, whose callback
\* inserts a run (Runner, Catchup), and a new Next.
Wake ==
  /\ phase = "serving" /\ Due # {}
  /\ fired' = [j \in Jobs |-> [fired[j] EXCEPT ![now] = @ + Cardinality({e \in Due : e[1] = j})]]
  /\ cron' = Renewed(Due)
  /\ UNCHANGED <<phase, now, jobs, entries, mu, call, lastOk, hist>>

\* The cron goroutine is never a whole instant late.
Settled == phase = "serving" /\ \A h \in Handlers : call[h].pc = "idle"

Tick ==
  /\ now < MaxNow /\ (phase = "serving" => Due = {})
  /\ now' = now + 1
  /\ quiet' = (Settled /\ lastOk /\ dropped = {})
  /\ UNCHANGED <<phase, jobs, regs, mu, call, lastOk, dropped, fired>>

Next ==
  \/ \E h \in Handlers :
       \/ \E j \in Jobs, row \in Row \cup {NoJob} : Write(h, j, row)
       \/ Lock(h)
  \/ \E c \in Callers : Reload(c)
  \/ Wake
  \/ Tick

Spec == Init /\ [][Next]_vars

-----------------------------------------------------------------------------
(* Properties *)

Current(j) == j \in Enabled /\ \A e \in ToSet(cron[j]) : e.spec = jobs[j].spec
Pending(j) == \E h \in Handlers : call[h].job = j

\* A registration that no longer agrees with the table (a job paused, deleted
\* or rescheduled) is on its way out: the request that wrote the row has not
\* answered, or it ended between its write and its reload and no reload has
\* listed the table since.  No interleaving of other requests, and no failing
\* reload, leaves one behind.
StaleIsPending ==
  \A j \in Jobs :
    phase = "serving" /\ cron[j] # <<>> => Current(j) \/ Pending(j) \/ j \in dropped

\* When no request is in progress and the last reload went through, the enabled
\* jobs are registered, with their schedules, and no others, in whatever order
\* the requests wrote, queued for the lock and listed.
RegistrationSettles ==
  Settled /\ lastOk /\ dropped = {} =>
    \A j \in Jobs : IF j \in Enabled THEN Len(cron[j]) = 1 /\ Current(j) ELSE cron[j] = <<>>

\* However often it is registered anew, by whichever requests at once, a job
\* has one cron entry at most and fires once per instant.
FiredOnce == \A j \in Jobs, t \in 0..MaxNow : fired[j][t] <= 1

\* In an instant that no request disturbs the enabled jobs whose schedule
\* matches it are fired, and no others.  (A reload makes cron miss the instants
\* that pass between its removals and its registrations, for every job.)
QuietInstantsFire ==
  quiet /\ Due = {} =>
    \A j \in Jobs :
      fired[j][now] = 1 <=> jobs[j] # NoJob /\ jobs[j].enabled /\ now \in Times[jobs[j].spec]

\* s.mu is held by the call that is in its reload, and by no call that is not:
\* no error path of a reload, of Start or of a request that has ended keeps the
\* lock, which would stop every later request, nor gives it up too early.
InReload(c) == call[c].pc \in {"clear", "list", "register"}
LockFollowsReload == \A c \in Callers : mu = c <=> InReload(c)

=============================================================================
