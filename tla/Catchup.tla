------------------------------- MODULE Catchup -------------------------------
(***************************************************************************)
(* internal/app: the life of the daemon process around the scheduler.  Run *)
(* replays the ticks missed since the persisted heartbeat and then starts  *)
(* cron; a loop persists the heartbeat; Shutdown, in another goroutine,    *)
(* stops both and persists a last heartbeat.  The process may die and be   *)
(* booted again at any step.                                               *)
(*                                                                         *)
(* Schedules match even instants.  A clock reading is an odd one: it is    *)
(* nanoseconds past the second, so it never equals an instant of a         *)
(* schedule.  Hence a row replayed for tick t is stored at t, and one that *)
(* cron fires for it at t + 1.  Jobs are the enabled ones (their edits are *)
(* in Scheduler), and rows counts the rows of job_runs by scheduled_at.    *)
(***************************************************************************)
EXTENDS Integers, FiniteSets

CONSTANTS
  Jobs,
  Times,       \* the instants a job's schedule matches; none for "0 0 30 2 *"
  MaxReplay,   \* startupCatchupMaxRunsPerJob
  Faults,      \* subset of {"db", "timeout", "earlyStop", "crash"}
  MaxNow,      \* bound on the clock
  MaxBoots,    \* bound on the boots of the process
  NoHeartbeat

Instants == 0..(MaxNow + 1)
Readings == {t \in Instants : t % 2 = 1}

ASSUME CatchupAssumption ==
  /\ MaxNow \in Nat /\ MaxBoots \in Nat /\ MaxReplay \in Nat \ {0}
  /\ Times \in [Jobs -> SUBSET ((Instants \ Readings) \ {0})]
  /\ NoHeartbeat \notin Instants

VARIABLES
  now, boots,
  heartbeat,   \* setting scheduler_heartbeat_at
  rows,        \* table job_runs: how many rows a job has at an instant
  pc,          \* where Run is; "off" when there is no process
  stop,        \* where Shutdown is
  startupNow,
  queue,       \* what runStartupCatchup has left to replay: [job, at] ...
  current,     \* ... and the job its outer loop is at, as long as it has some left
  cron,        \* the cron goroutine runs
  beating,     \* the heartbeat loop runs
  callbacks,   \* triggers about to insert their row
  missed,      \* history: ticks that passed, after a first heartbeat, without cron ...
  down,        \* ... and those of them that passed without a process
  cut,         \* history: ticks missedRunTimes truncated
  fired,       \* history: ticks cron fired ...
  lost,        \* ... and triggers whose insert failed or died with the process
  early        \* history: a signal has come while Run was starting

process == <<pc, stop, startupNow, queue, current, cron, beating, callbacks>>
history == <<missed, down, cut, fired, lost, early>>
vars == <<now, boots, heartbeat, rows, process, history>>

Tick   == [job : Jobs, at : Instants]
Up     == pc # "off"
Breaks == "db" \in Faults  \* a statement may fail

\* Variants of definitions below, each with one plausible mistake.
ExistsNever(job, at)         == FALSE
DrainedAtOnce                == TRUE
PersistedFirst               == pc = "replay"

Init ==
  /\ now = 1 /\ boots = 0 /\ heartbeat = NoHeartbeat
  /\ rows = [j \in Jobs |-> [t \in Instants |-> 0]]
  /\ pc = "off" /\ stop = "no" /\ startupNow = 1 /\ queue = {} /\ current = {}
  /\ cron = FALSE /\ beating = FALSE /\ callbacks = {}
  /\ missed = {} /\ down = {} /\ cut = {} /\ fired = {} /\ lost = {} /\ early = FALSE

\* CreateQueued
Insert(job, at) == rows' = [rows EXCEPT ![job][at] = @ + 1]

\* ExistsByJobAndScheduledAt
Exists(job, at) == rows[job][at] > 0

\* The process ends: by a crash, by an error of Run, or after Shutdown.
Die ==
  /\ pc' = "off" /\ stop' = "no" /\ queue' = {} /\ current' = {}
  /\ cron' = FALSE /\ beating' = FALSE /\ callbacks' = {}
  /\ UNCHANGED startupNow

\* Run returns an error.  Nobody waits for it once Shutdown has begun.
RunFails ==
  /\ Breaks
  /\ IF stop = "no" THEN Die
     ELSE /\ pc' = "failed"
          /\ UNCHANGED <<stop, startupNow, queue, current, cron, beating, callbacks>>

-----------------------------------------------------------------------------
(* Run *)

Boot ==
  /\ ~Up /\ boots < MaxBoots
  /\ boots' = boots + 1 /\ pc' = "load" /\ startupNow' = now
  /\ UNCHANGED <<now, heartbeat, rows, stop, queue, current, cron, beating, callbacks, history>>

TicksBetween(job, from, to) == {t \in Times[job] : from < t /\ t <= to}

\* missedRunTimes: the first of the ticks.  Schedule.Next answers the zero time
\* for a schedule that never matches, and the zero time is not after the end of
\* the window.  (The list then holds it MaxReplay times; all but the first find
\* the row.)
MissedRunTimes(job, from, to) ==
  IF Times[job] = {} THEN {0}
  ELSE LET ticks == TicksBetween(job, from, to)
       IN  {t \in ticks : Cardinality({u \in ticks : u < t}) < MaxReplay}

Window == {p \in Tick : p.at \in MissedRunTimes(p.job, heartbeat, startupNow)}

Truncated == {p \in Tick : p.at \in TicksBetween(p.job, heartbeat, startupNow)} \ Window

\* runStartupCatchup up to the loops.
Load ==
  /\ pc = "load"
  /\ \/ /\ pc' = "replay"
        /\ IF heartbeat = NoHeartbeat \/ heartbeat >= startupNow
           THEN UNCHANGED <<queue, cut>>
           ELSE queue' = Window /\ cut' = cut \cup Truncated
        /\ UNCHANGED <<stop, startupNow, current, cron, beating, callbacks>>
     \/ RunFails /\ UNCHANGED cut
  /\ UNCHANGED <<now, boots, heartbeat, rows, missed, down, fired, lost, early>>

\* One round of the inner loop: the next tick of the current job, or the first
\* of another one (ListEnabled has no ORDER BY).  CreateQueued may fail after
\* its INSERT, when it reads the row back.
Replay(p) ==
  /\ pc = "replay" /\ p \in queue
  /\ current \subseteq {p.job} /\ \A q \in queue : q.job = p.job => p.at <= q.at
  /\ \/ /\ IF Exists(p.job, p.at) THEN UNCHANGED rows ELSE Insert(p.job, p.at)
        /\ queue' = queue \ {p}
        /\ current' = {q.job : q \in queue'} \cap {p.job}
        /\ UNCHANGED <<pc, stop, startupNow, cron, beating, callbacks>>
     \/ RunFails /\ (UNCHANGED rows \/ (~Exists(p.job, p.at) /\ Insert(p.job, p.at)))
  /\ UNCHANGED <<now, boots, heartbeat, history>>

CatchupDone == pc = "replay" /\ queue = {}

\* persistCatchupStats and persistSchedulerHeartbeat.
PersistStartup ==
  /\ CatchupDone
  /\ \/ /\ heartbeat' = startupNow
        /\ pc' = "cron"
        /\ UNCHANGED <<stop, startupNow, queue, current, cron, beating, callbacks>>
     \/ RunFails /\ UNCHANGED heartbeat
  /\ UNCHANGED <<now, boots, rows, history>>

\* scheduler.Start
StartCron ==
  /\ pc = "cron"
  /\ \/ /\ cron' = TRUE /\ pc' = "loop"
        /\ UNCHANGED <<stop, startupNow, queue, current, beating, callbacks>>
     \/ RunFails
  /\ UNCHANGED <<now, boots, heartbeat, rows, history>>

\* startSchedulerHeartbeatLoop, after the runner and the maintenance worker.
StartLoop ==
  /\ pc = "loop"
  /\ beating' = TRUE /\ pc' = "serve"
  /\ UNCHANGED <<now, boots, heartbeat, rows, stop, startupNow, queue, current, cron, callbacks, history>>

Run == Load \/ (\E p \in queue : Replay(p)) \/ PersistStartup \/ StartCron \/ StartLoop

-----------------------------------------------------------------------------
(* The heartbeat loop, cron and the clock *)

\* The ticker fires; a failed write is logged, which is a step of no effect.
Beat ==
  /\ beating /\ heartbeat' = now
  /\ UNCHANGED <<now, boots, rows, process, history>>

\* The clock passes the instant between two readings.  Cron fires what is due
\* at once; the callback reads the clock before it inserts.
Pass ==
  /\ now + 2 <= MaxNow + 1
  /\ now' = now + 2
  /\ LET due == {j \in Jobs : now + 1 \in Times[j]}
         ticks == {[job |-> j, at |-> now + 1] : j \in due}
         owed == IF heartbeat = NoHeartbeat THEN {} ELSE ticks
     IN  \/ /\ cron
            /\ callbacks' = callbacks \cup {[job |-> j, at |-> now + 2] : j \in due}
            /\ fired' = fired \cup ticks
            /\ UNCHANGED <<missed, down>>
         \/ /\ ~cron
            /\ missed' = missed \cup owed
            /\ down' = IF Up THEN down ELSE down \cup owed
            /\ UNCHANGED <<callbacks, fired>>
  /\ UNCHANGED <<boots, heartbeat, rows, pc, stop, startupNow, queue, current, cron, beating, cut, lost, early>>

\* The callback's insert, which may fail and is not retried.
Trigger(c) ==
  /\ callbacks' = callbacks \ {c}
  /\ \/ Insert(c.job, c.at) /\ UNCHANGED lost
     \/ Breaks /\ UNCHANGED rows /\ lost' = lost \cup {c}
  /\ UNCHANGED <<now, boots, heartbeat, pc, stop, startupNow, queue, current, cron, beating,
                 missed, down, cut, fired, early>>

-----------------------------------------------------------------------------
(* Shutdown *)

\* SIGTERM: Shutdown begins with stopSchedulerHeartbeatLoop, which finds
\* nothing to stop while Run is still starting, and leaves Run to go on.
Signal ==
  /\ Up /\ stop = "no" /\ (pc = "serve" \/ "earlyStop" \in Faults)
  /\ stop' = "cron" /\ beating' = FALSE
  /\ early' = (early \/ pc # "serve")
  /\ UNCHANGED <<now, boots, heartbeat, rows, pc, startupNow, queue, current, cron, callbacks,
                 missed, down, cut, fired, lost>>

\* scheduler.Stop
StopCron ==
  /\ stop = "cron"
  /\ stop' = "drain" /\ cron' = FALSE
  /\ UNCHANGED <<now, boots, heartbeat, rows, pc, startupNow, queue, current, beating, callbacks, history>>

\* Stop waits for the callbacks that are running, or for the end of Shutdown's
\* ten seconds.
Drained == callbacks = {} \/ "timeout" \in Faults

LastBeat ==
  /\ stop = "drain" /\ Drained
  /\ heartbeat' = now \/ (Breaks /\ UNCHANGED heartbeat)
  /\ stop' = "exit"
  /\ UNCHANGED <<now, boots, rows, pc, startupNow, queue, current, cron, beating, callbacks, history>>

\* server.Shutdown, db.Close and the return of main.
Exit ==
  /\ stop = "exit" /\ Die
  /\ UNCHANGED <<now, boots, heartbeat, rows, history>>

Shutdown == StopCron \/ LastBeat \/ Exit

Crash ==
  /\ "crash" \in Faults /\ Up /\ Die
  /\ lost' = lost \cup callbacks
  /\ UNCHANGED <<now, boots, heartbeat, rows, missed, down, cut, fired, early>>

Next ==
  \/ Boot \/ Run
  \/ Beat \/ Pass
  \/ \E c \in callbacks : Trigger(c)
  \/ Signal \/ Shutdown
  \/ Crash

Spec == Init /\ [][Next]_vars

\* Run and Shutdown are goroutines; nothing else has to happen.
FairSpec == Spec /\ WF_vars(Run) /\ WF_vars(Shutdown)

-----------------------------------------------------------------------------
(* Properties *)

Replayed(p) == Exists(p.job, p.at)

\* A tick is replayed at most once, however often the catch-up is interrupted
\* and done again over the same window.
ReplayedOnce == \A j \in Jobs, t \in Instants \ Readings : rows[j][t] <= 1

\* The heartbeat passes no tick of the downtime that has not been replayed: a
\* catch-up that fails or dies leaves the rest of its window to the next one.
\* That is so as long as no signal comes while Run is starting; Shutdown would
\* persist the present as heartbeat over a window still to be replayed.
DowntimeReplayed ==
  ~early => \A p \in down : Replayed(p) \/ p \in cut \/ heartbeat = NoHeartbeat \/ p.at > heartbeat

\* What cron fired gets its row, unless its insert fails or the process dies:
\* over stops and restarts no trigger is lost to the end of the process.  (A
\* signal while Run is starting may stop cron before Run starts it, and an insert
\* may outlast the ten seconds of Shutdown.)
TriggersKept ==
  ~early /\ "timeout" \notin Faults => \A p \in fired :
    LET c == [p EXCEPT !.at = @ + 1] IN Exists(c.job, c.at) \/ c \in callbacks \cup lost

\* A process that stays up, and gets no signal while it starts, replays all
\* that it finds missing.
DowntimeRuns ==
  pc = "load" ~> (\A p \in down : Replayed(p) \/ p \in cut) \/ ~Up \/ early

-----------------------------------------------------------------------------
(* What the documentation says and the code does not do *)

\* daemon/README.md: "Startup catch-up that replays missed cron windows since
\* last scheduler heartbeat".
MissedReplayed ==
  \A p \in missed : Replayed(p) \/ p \in cut \/ heartbeat = NoHeartbeat \/ p.at > heartbeat

=============================================================================
