-------------------------- MODULE MaintenanceCycle --------------------------
(***************************************************************************)
(* When the maintenance worker of internal/maintenance does what: every    *)
(* cycle the log cap, once a day the purge of old runs, now and then a     *)
(* VACUUM.  What it has done it knows from two settings only, which it     *)
(* writes after the deed; a statement may fail and the process may die     *)
(* between any two.  How purge and log cap work is in Outputs.             *)
(*                                                                         *)
(* A unit of time is a part of a day.  A run is the instant it ended at,   *)
(* and one run ends at an instant.  A Stop of the worker cancels the       *)
(* context of its statements; the table sees of it what it sees of a       *)
(* crash, which is the one that is modelled.                               *)
(***************************************************************************)
EXTENDS Integers, FiniteSets

CONSTANTS
  DayLength,      \* units in a day
  VacuumEvery,    \* Worker.vacuumEvery (7 days)
  VacuumDeleted,  \* Worker.vacuumDeleted (10000)
  Retentions,     \* values of setting retention_days
  MaxNow,         \* bound on the clock
  EndTimes,       \* bound: the instants at which runs may end
  MaxFailures,    \* bound on the failing statements
  MaxBoots,       \* bound on the processes
  NoTime

Times == 0..MaxNow

ASSUME CycleAssumption ==
  /\ DayLength \in Nat \ {0} /\ VacuumEvery \in Nat \ {0} /\ VacuumDeleted \in Nat \ {0}
  /\ Retentions \subseteq Nat \ {0} /\ Retentions # {}
  /\ MaxNow \in Nat /\ MaxFailures \in Nat /\ MaxBoots \in Nat
  /\ NoTime \notin Int

VARIABLES
  now, failures, boots,
  retention,   \* setting retention_days
  lastRun,     \* setting maintenance_last_run_at
  lastVacuum,  \* setting maintenance_last_vacuum_at
  rows,        \* the ended runs in job_runs
  pc,          \* the next statement of the worker; "wait" for its ticker, "off"
  cycle,       \* the cycle's clock reading, its retention_days, its deleted rows
  held,        \* history: the retention_days of the night lastRun tells of
  nights,      \* history: how many purges the cycles of a day have done
  unsaved      \* history: days with a purge that was not saved

vars == <<now, failures, boots, retention, lastRun, lastVacuum, rows, pc, cycle, held, nights, unsaved>>
settings == <<retention, lastRun, lastVacuum>>
hist == <<held, nights, unsaved>>

Day(t)  == t \div DayLength
Days    == {Day(t) : t \in Times}
NoCycle == [at |-> 0, days |-> 0, deleted |-> 0]

\* Variants of definitions below, each with one plausible mistake.
NightDueAlways    == TRUE
NightDueOnce      == lastRun = NoTime
ExpiredLate(days) == {t \in rows : t < now - (days + 1) * DayLength}
VacuumDueByAge    == lastVacuum = NoTime \/ cycle.at - lastVacuum >= VacuumEvery

Init ==
  /\ now = 0 /\ failures = 0 /\ boots = 0
  /\ retention \in Retentions /\ lastRun = NoTime /\ lastVacuum = NoTime
  /\ rows = {} /\ pc = "off" /\ cycle = NoCycle
  /\ held = 0 /\ nights = [d \in Days |-> 0] /\ unsaved = {}

-----------------------------------------------------------------------------
(* runCycle *)

At(name) == pc = name
Failing  == failures < MaxFailures /\ failures' = failures + 1

\* Variant of GiveUp with one plausible mistake: the loop ends with its cycle.
GiveUpEndsLoop == Failing /\ pc' = "ended" /\ cycle' = NoCycle

\* The cycle is given up: a statement has failed.
GiveUp == Failing /\ pc' = "wait" /\ cycle' = NoCycle

\* The ticker; the first cycle follows the boot at once.
Begin ==
  /\ At("wait") /\ pc' = "cap"
  /\ UNCHANGED <<now, failures, boots, settings, rows, cycle, hist>>

\* EnforceOutputLogCap with max_log_bytes; then the clock is read.
CapLogs ==
  /\ At("cap")
  /\ \/ pc' = "night" /\ cycle' = [NoCycle EXCEPT !.at = now] /\ UNCHANGED failures
     \/ GiveUp
  /\ UNCHANGED <<now, boots, settings, rows, hist>>

\* shouldRunNightly: the dates of the two instants differ.
NightDue == lastRun = NoTime \/ Day(lastRun) # Day(cycle.at)

DecideNight ==
  /\ At("night")
  /\ \/ pc' = (IF NightDue THEN "retention" ELSE "vacuumDue") /\ UNCHANGED <<failures, cycle>>
     \/ GiveUp
  /\ UNCHANGED <<now, boots, settings, rows, hist>>

LoadRetention ==
  /\ At("retention")
  /\ \/ pc' = "purge" /\ cycle' = [cycle EXCEPT !.days = retention] /\ UNCHANGED failures
     \/ GiveUp
  /\ UNCHANGED <<now, boots, settings, rows, hist>>

\* PurgeRuns counts from its own clock reading.
Expired(days) == {t \in rows : t < now - days * DayLength}

\* It may fail before its DELETE, and after it while it removes the files.
PurgeNight ==
  LET old == Expired(cycle.days) IN
  /\ At("purge")
  /\ \/ /\ rows' = rows \ old
        /\ nights' = [nights EXCEPT ![Day(cycle.at)] = @ + 1]
        /\ \/ /\ cycle' = [cycle EXCEPT !.deleted = Cardinality(old)]
              /\ pc' = "saveRun"
              /\ UNCHANGED <<failures, unsaved>>
           \/ GiveUp /\ unsaved' = unsaved \cup {Day(cycle.at)}
     \/ GiveUp /\ UNCHANGED <<rows, nights, unsaved>>
  /\ UNCHANGED <<now, boots, settings, held>>

\* What is stored is the reading from before the purge.  A failure is only
\* logged.
SaveRun ==
  /\ At("saveRun") /\ pc' = "vacuumDue"
  /\ \/ lastRun' = cycle.at /\ held' = cycle.days /\ UNCHANGED <<failures, unsaved>>
     \/ Failing /\ unsaved' = unsaved \cup {Day(cycle.at)} /\ UNCHANGED <<lastRun, held>>
  /\ UNCHANGED <<now, boots, retention, lastVacuum, rows, cycle, nights>>

\* shouldVacuum
VacuumDue ==
  \/ cycle.deleted >= VacuumDeleted
  \/ lastVacuum = NoTime
  \/ cycle.at - lastVacuum >= VacuumEvery

DecideVacuum ==
  /\ At("vacuumDue")
  /\ \/ /\ IF VacuumDue THEN pc' = "vacuum" /\ UNCHANGED cycle
           ELSE pc' = "wait" /\ cycle' = NoCycle
        /\ UNCHANGED failures
     \/ cycle.deleted < VacuumDeleted /\ GiveUp
  /\ UNCHANGED <<now, boots, settings, rows, hist>>

Vacuum ==
  /\ At("vacuum")
  /\ \/ pc' = "saveVacuum" /\ UNCHANGED <<failures, cycle>>
     \/ GiveUp
  /\ UNCHANGED <<now, boots, settings, rows, hist>>

SaveVacuum ==
  /\ At("saveVacuum")
  /\ \/ lastVacuum' = cycle.at /\ pc' = "wait" /\ cycle' = NoCycle /\ UNCHANGED failures
     \/ GiveUp /\ UNCHANGED lastVacuum
  /\ UNCHANGED <<now, boots, retention, lastRun, rows, hist>>

Cycle ==
  \/ Begin \/ CapLogs \/ DecideNight \/ LoadRetention \/ PurgeNight \/ SaveRun
  \/ DecideVacuum \/ Vacuum \/ SaveVacuum

-----------------------------------------------------------------------------
(* Around the worker *)

\* PUT /settings/retention
SetRetention ==
  /\ \E days \in Retentions : retention' = days
  /\ UNCHANGED <<now, failures, boots, lastRun, lastVacuum, rows, pc, cycle, hist>>

\* A run ends (MarkFinished).
RunEnds ==
  /\ now \in EndTimes
  /\ rows' = rows \cup {now}
  /\ UNCHANGED <<now, failures, boots, settings, pc, cycle, hist>>

\* Worker.Start in a new process.
Boot ==
  /\ At("off") /\ boots < MaxBoots
  /\ boots' = boots + 1 /\ pc' = "cap"
  /\ UNCHANGED <<now, failures, settings, rows, cycle, hist>>

\* The process dies, or Worker.Stop cancels what the cycle had still to do.
Crash ==
  /\ pc # "off" /\ boots < MaxBoots
  /\ pc' = "off" /\ cycle' = NoCycle
  /\ unsaved' = IF At("saveRun") THEN unsaved \cup {Day(cycle.at)} ELSE unsaved
  /\ UNCHANGED <<now, failures, boots, settings, rows, held, nights>>

Tick ==
  /\ now < MaxNow /\ now' = now + 1
  /\ UNCHANGED <<failures, boots, settings, rows, pc, cycle, hist>>

Next == Cycle \/ SetRetention \/ RunEnds \/ Boot \/ Crash \/ Tick

Spec == Init /\ [][Next]_vars

\* The worker's goroutine is scheduled and its ticker ticks; a daemon that has
\* died is started again.
FairSpec == Spec /\ WF_vars(Cycle) /\ WF_vars(Boot)

-----------------------------------------------------------------------------
(* Properties *)

\* A night on record has been done: no run is left that was too old, by the
\* retention the night found, at the instant on record.  No crash, failure or
\* change of the setting leaves a record of a purge that did not happen.
SavedNightIsPurged ==
  lastRun # NoTime => \A t \in rows : t >= lastRun - held * DayLength

\* A day has one night, whatever the number of cycles, processes and changes of
\* date within a cycle; only a purge that could not be recorded is done again.
OneNightADay == \A d \in Days : nights[d] > 1 => d \in unsaved

\* Whatever has failed or died, from every moment on there comes one at which the
\* night on record is that of the day it then is.  The clock may pass through a day
\* faster than any cycle does, so this is about a day that lasts long enough (here
\* the one the clock stays on); one that is over before a cycle of its own has
\* come to its end may go without.  CycleDayPurged is about the others.
NightsCome == []<>(boots > 0 => lastRun # NoTime /\ Day(lastRun) = Day(now))

CycleEnds == pc \in {"vacuumDue", "saveVacuum"} /\ pc' = "wait" /\ failures' = failures

\* However short the day: when a cycle has come to its end, the day whose date it
\* read has had its purge, by this cycle, an earlier one or an earlier process,
\* midnight before that purge or not.  With OneNightADay: exactly one, but for
\* records that were lost.
CycleDayPurged == [][CycleEnds => nights[Day(cycle.at)] > 0]_vars

\* A cycle that comes to its end leaves the database vacuumed within VacuumEvery,
\* and right now if it has deleted much.  (One that fails on its VACUUM after
\* such a purge does not make up for it: the next one has deleted nothing.)
VacuumKept ==
  [][CycleEnds =>
       /\ lastVacuum' # NoTime /\ cycle.at - lastVacuum' < VacuumEvery
       /\ cycle.deleted >= VacuumDeleted => lastVacuum' = cycle.at]_vars

=============================================================================
