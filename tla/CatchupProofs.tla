---------------------------- MODULE CatchupProofs ----------------------------
(***************************************************************************)
(* The catch-up, for every set of jobs and schedules, every limit on the   *)
(* replay, any number of boots and all faults.                             *)
(***************************************************************************)
EXTENDS Catchup, TLAPS

CatchupTypes ==
  /\ now \in Readings /\ startupNow \in Instants
  /\ rows \in [Jobs -> [Instants -> Nat]]
  /\ pc \in {"off", "load", "replay", "cron", "loop", "serve", "failed"}
  /\ stop \in {"no", "cron", "drain", "exit"}
  /\ callbacks \subseteq [job : Jobs, at : Readings]
  /\ fired \subseteq Tick /\ \A p \in fired : p.at + 1 \in Instants
  /\ down \subseteq Tick /\ \A p \in down : p.at \in Times[p.job]
  /\ cron \in BOOLEAN /\ beating \in BOOLEAN /\ early \in BOOLEAN /\ queue \subseteq Tick

\* What runs by where Run is, and by where Shutdown is if it began on a Run that
\* had finished starting.
Phases ==
  /\ pc \in {"off", "load", "replay", "cron"} => ~cron /\ callbacks = {}
  /\ beating => pc = "serve"
  /\ ~early =>
       /\ pc # "failed"
       /\ stop # "no" => pc = "serve"
       /\ stop \in {"drain", "exit"} => ~cron
       /\ stop = "exit" /\ "timeout" \notin Faults => callbacks = {}

\* The past: a heartbeat tells of it, and so do the ticks of the downtime, which
\* a process finds behind it when it boots.
Past ==
  /\ heartbeat = NoHeartbeat => down = {}
  /\ heartbeat # NoHeartbeat => heartbeat \in Instants /\ heartbeat <= now
  /\ startupNow <= now
  /\ \A p \in down : p.at < now /\ (Up => p.at < startupNow)

\* What has been done about a tick of the downtime once a replay is under way,
\* and once it is over.
WindowKept ==
  ~early => \A p \in down :
    /\ pc = "replay" => Replayed(p) \/ p \in cut \/ p \in queue
    /\ pc \in {"cron", "loop", "serve"} => Replayed(p) \/ p \in cut

CatchupInv ==
  CatchupTypes /\ Phases /\ Past /\ WindowKept /\ ReplayedOnce /\ DowntimeReplayed /\ TriggersKept

-----------------------------------------------------------------------------
(* The clock, and a row more *)

LEMMA Clock ==
  ASSUME NEW t \in Readings
  PROVE  /\ t \in Nat /\ t \in Instants
         /\ t + 2 <= MaxNow + 1 => t + 2 \in Readings /\ t + 1 \in Instants /\ t + 1 \notin Readings
<1>1. MaxNow \in Nat /\ t \in 0..(MaxNow + 1) /\ t % 2 = 1
  BY CatchupAssumption DEF Readings, Instants
<1>2. (t + 2) % 2 = 1 /\ (t + 1) % 2 = 0
  BY <1>1
<1> QED BY <1>1, <1>2 DEF Readings, Instants

LEMMA FirstReading == 1 \in Readings /\ Instants \subseteq Nat /\ Readings \subseteq Instants
BY CatchupAssumption DEF Readings, Instants

\* An insert adds a row where it inserts and leaves the others.
LEMMA RowMore ==
  ASSUME rows \in [Jobs -> [Instants -> Nat]], NEW j \in Jobs, NEW t \in Instants, Insert(j, t)
  PROVE  /\ rows' \in [Jobs -> [Instants -> Nat]]
         /\ rows'[j][t] = rows[j][t] + 1
         /\ \A i \in Jobs, u \in Instants : <<i, u>> # <<j, t>> => rows'[i][u] = rows[i][u]
BY DEF Insert

-----------------------------------------------------------------------------
(* Init *)

LEMMA CatchupInit == Init => CatchupInv
<1> SUFFICES ASSUME Init PROVE CatchupInv
  OBVIOUS
<1>1. CatchupTypes
  BY FirstReading DEF Init, CatchupTypes
<1>2. ReplayedOnce
  BY FirstReading DEF Init, ReplayedOnce
<1> QED BY <1>1, <1>2, CatchupAssumption DEF Init, CatchupInv, Phases, Past, WindowKept,
           DowntimeReplayed, TriggersKept, Up

-----------------------------------------------------------------------------
(* The parts that a step keeps when it does not touch what they are about *)

\* Rows are never taken away, and nothing of the past is forgotten.
Grown ==
  /\ \A p \in Tick : Exists(p.job, p.at) => Exists(p.job, p.at)'
  /\ \A j \in Jobs, t \in Instants \ Readings : rows'[j][t] <= 1

LEMMA GrownByInsert ==
  ASSUME CatchupInv, NEW j \in Jobs, NEW t \in Instants, Insert(j, t),
         t \in Readings \/ ~Exists(j, t)
  PROVE  Grown /\ Exists(j, t)' /\ rows' \in [Jobs -> [Instants -> Nat]]
<1>1. /\ rows \in [Jobs -> [Instants -> Nat]] /\ ReplayedOnce
      /\ rows' \in [Jobs -> [Instants -> Nat]] /\ rows'[j][t] = rows[j][t] + 1
      /\ \A i \in Jobs, u \in Instants : <<i, u>> # <<j, t>> => rows'[i][u] = rows[i][u]
  BY RowMore DEF CatchupInv, CatchupTypes
<1>2. \A i \in Jobs, u \in Instants : rows[i][u] \in Nat /\ rows[i][u] <= rows'[i][u]
  <2> SUFFICES ASSUME NEW i \in Jobs, NEW u \in Instants
               PROVE  rows[i][u] \in Nat /\ rows[i][u] <= rows'[i][u]
    OBVIOUS
  <2> QED BY <1>1
<1>3. \A p \in Tick : Exists(p.job, p.at) => Exists(p.job, p.at)'
  <2> SUFFICES ASSUME NEW p \in Tick, Exists(p.job, p.at) PROVE Exists(p.job, p.at)'
    OBVIOUS
  <2>1. p.job \in Jobs /\ p.at \in Instants
    BY DEF Tick
  <2>2. rows'[p.job][p.at] \in Nat
    BY <1>1, <2>1
  <2> QED BY <1>2, <2>1, <2>2 DEF Exists
<1>4. Exists(j, t)'
  BY <1>1, <1>2 DEF Exists
<1>5. ASSUME NEW i \in Jobs, NEW u \in Instants \ Readings PROVE rows'[i][u] <= 1
  <2>1. CASE <<i, u>> = <<j, t>>
    <3>1. rows[j][t] \in Nat /\ ~(rows[j][t] > 0)
      BY <1>5, <2>1, <1>2 DEF Exists
    <3> QED BY <1>1, <2>1, <3>1
  <2>2. CASE <<i, u>> # <<j, t>>
    BY <1>1, <2>2 DEF ReplayedOnce
  <2> QED BY <2>1, <2>2
<1> QED BY <1>1, <1>3, <1>4, <1>5 DEF Grown

LEMMA GrownByNothing == ASSUME CatchupInv, UNCHANGED rows PROVE Grown
BY DEF CatchupInv, ReplayedOnce, Grown, Exists

\* Triggers, when a step fires nothing and loses no callback.
LEMMA TriggersStay ==
  ASSUME CatchupInv, Grown, fired' = fired, early => early',
         ~early' /\ "timeout" \notin Faults =>
           \A c \in callbacks \cup lost : Exists(c.job, c.at)' \/ c \in callbacks' \cup lost'
  PROVE  TriggersKept'
<1> SUFFICES ASSUME ~early', "timeout" \notin Faults, NEW p \in fired,
                    NEW c, c = [p EXCEPT !.at = @ + 1]
             PROVE  Exists(c.job, c.at)' \/ c \in callbacks' \cup lost'
  BY DEF TriggersKept
<1>1. p \in Tick /\ p.at + 1 \in Instants
  BY DEF CatchupInv, CatchupTypes
<1>2. c \in Tick
  BY <1>1 DEF Tick
<1>3. Exists(c.job, c.at) \/ c \in callbacks \cup lost
  BY DEF CatchupInv, TriggersKept
<1> QED BY <1>2, <1>3 DEF Grown

\* The ticks of the downtime, when a step adds none.
LEMMA DowntimeStays ==
  ASSUME CatchupInv, Grown, down' = down, cut \subseteq cut', early => early',
         heartbeat' = heartbeat \/ pc \in {"cron", "loop", "serve"} \/ early'
  PROVE  DowntimeReplayed'
<1> SUFFICES ASSUME ~early', NEW p \in down
             PROVE  Replayed(p)' \/ p \in cut' \/ heartbeat' = NoHeartbeat \/ p.at > heartbeat'
  BY DEF DowntimeReplayed
<1>1. p \in Tick
  BY DEF CatchupInv, CatchupTypes
<1>2. Replayed(p) => Replayed(p)'
  BY <1>1 DEF Grown, Replayed
<1>3. CASE heartbeat' = heartbeat
  BY <1>2, <1>3 DEF CatchupInv, DowntimeReplayed
<1>4. CASE pc \in {"cron", "loop", "serve"}
  BY <1>2, <1>4 DEF CatchupInv, WindowKept
<1> QED BY <1>3, <1>4

LEMMA WindowStays ==
  ASSUME CatchupInv, Grown, down' = down, cut' = cut, early => early',
         pc' = "replay" => pc = "replay" /\ queue' = queue,
         pc' \in {"cron", "loop", "serve"} => pc \in {"cron", "loop", "serve"}
  PROVE  WindowKept'
<1> SUFFICES ASSUME ~early', NEW p \in down
             PROVE  /\ pc' = "replay" => Replayed(p)' \/ p \in cut' \/ p \in queue'
                    /\ pc' \in {"cron", "loop", "serve"} => Replayed(p)' \/ p \in cut'
  BY DEF WindowKept
<1>1. p \in Tick
  BY DEF CatchupInv, CatchupTypes
<1>2. Replayed(p) => Replayed(p)'
  BY <1>1 DEF Grown, Replayed
<1> QED BY <1>2 DEF CatchupInv, WindowKept

-----------------------------------------------------------------------------
(* The process ends *)

LEMMA DieKeeps ==
  ASSUME CatchupInv, Die, Grown, rows' \in [Jobs -> [Instants -> Nat]],
         UNCHANGED <<now, missed, down, cut, fired, early>>,
         heartbeat' = heartbeat, lost \subseteq lost',
         ~early /\ "timeout" \notin Faults => callbacks \subseteq lost'
  PROVE  CatchupInv'
<1>1. CatchupTypes'
  BY DEF CatchupInv, CatchupTypes, Die
<1>2. Phases' /\ Past'
  BY DEF CatchupInv, Phases, Past, Die, Up
<1>3. WindowKept'
  BY WindowStays DEF Die
<1>4. ReplayedOnce'
  BY DEF Grown, ReplayedOnce
<1>5. DowntimeReplayed'
  BY DowntimeStays
<1>6. TriggersKept'
  BY TriggersStay DEF Die
<1> QED BY <1>1, <1>2, <1>3, <1>4, <1>5, <1>6 DEF CatchupInv

\* Run fails while it starts: nobody has been fired, and a Run whose failure
\* nobody waits for is one that a signal has met.
LEMMA FailureKeeps ==
  ASSUME CatchupInv, RunFails, Grown, rows' \in [Jobs -> [Instants -> Nat]],
         pc \in {"load", "replay", "cron"}, UNCHANGED <<now, heartbeat, history>>
  PROVE  CatchupInv'
<1> USE DEF history
<1>1. CASE Die
  <2>1. callbacks = {}
    BY DEF CatchupInv, Phases
  <2> QED BY <1>1, <2>1, DieKeeps
<1>2. CASE ~Die
  <2>1. /\ pc' = "failed" /\ stop # "no"
        /\ UNCHANGED <<stop, startupNow, queue, current, cron, beating, callbacks>>
    BY <1>2 DEF RunFails
  <2>2. early /\ early'
    BY <2>1 DEF CatchupInv, Phases, CatchupTypes
  <2>3. CatchupTypes'
    BY <2>1 DEF CatchupInv, CatchupTypes
  <2>4. Phases' /\ Past' /\ WindowKept'
    BY <2>1, <2>2 DEF CatchupInv, Phases, Past, WindowKept, Up
  <2>5. ReplayedOnce' /\ DowntimeReplayed' /\ TriggersKept'
    BY <2>2 DEF Grown, ReplayedOnce, DowntimeReplayed, TriggersKept
  <2> QED BY <2>3, <2>4, <2>5 DEF CatchupInv
<1> QED BY <1>1, <1>2

LEMMA CrashKeeps == ASSUME CatchupInv, Crash PROVE CatchupInv'
BY GrownByNothing, DieKeeps DEF Crash, CatchupInv, CatchupTypes

LEMMA ExitKeeps == ASSUME CatchupInv, Exit PROVE CatchupInv'
<1>1. ~early /\ "timeout" \notin Faults => callbacks = {}
  BY DEF CatchupInv, Phases, Exit
<1> QED BY <1>1, GrownByNothing, DieKeeps DEF Exit, CatchupInv, CatchupTypes, history

-----------------------------------------------------------------------------
(* Run *)

LEMMA BootKeeps == ASSUME CatchupInv, Boot PROVE CatchupInv'
<1> USE DEF Boot, history
<1>1. Grown
  BY GrownByNothing
<1>2. CatchupTypes'
  BY FirstReading DEF CatchupInv, CatchupTypes
<1>3. Phases' /\ Past'
  BY FirstReading DEF CatchupInv, CatchupTypes, Phases, Past, Up
<1>4. WindowKept'
  BY <1>1, WindowStays
<1>5. ReplayedOnce' /\ DowntimeReplayed' /\ TriggersKept'
  BY <1>1, DowntimeStays, TriggersStay DEF Grown, ReplayedOnce, Exists
<1> QED BY <1>2, <1>3, <1>4, <1>5 DEF CatchupInv

\* The window and what is cut off it hold every tick of the downtime behind the
\* heartbeat.
LEMMA WindowHolds ==
  ASSUME NEW p \in Tick, p.at \in Times[p.job], heartbeat < p.at, p.at <= startupNow
  PROVE  p \in Window \/ p \in Truncated
BY DEF Window, Truncated, TicksBetween

LEMMA LoadKeeps == ASSUME CatchupInv, Load PROVE CatchupInv'
<1>1. Grown /\ rows' \in [Jobs -> [Instants -> Nat]]
  BY GrownByNothing DEF Load, CatchupInv, CatchupTypes
<1>2. CASE RunFails /\ UNCHANGED cut
  BY <1>1, <1>2, FailureKeeps DEF Load, history
<1>3. CASE pc' # "off" /\ pc' # "failed"
  <2>1. /\ pc = "load" /\ pc' = "replay"
        /\ IF heartbeat = NoHeartbeat \/ heartbeat >= startupNow
           THEN UNCHANGED <<queue, cut>>
           ELSE queue' = Window /\ cut' = cut \cup Truncated
        /\ UNCHANGED <<now, boots, heartbeat, rows, stop, startupNow, cron, beating, callbacks>>
        /\ UNCHANGED <<missed, down, fired, lost, early>>
    BY <1>3 DEF Load, RunFails, Die
  <2>2. CatchupTypes'
    BY <2>1 DEF CatchupInv, CatchupTypes, Window
  <2>3. Phases' /\ Past'
    BY <2>1 DEF CatchupInv, Phases, Past, Up
  <2>4. WindowKept'
    <3> SUFFICES ASSUME ~early, NEW p \in down
                 PROVE  Replayed(p) \/ p \in cut' \/ p \in queue'
      BY <2>1 DEF WindowKept, Replayed, Exists
    <3>1. /\ p \in Tick /\ p.at \in Times[p.job] /\ p.at < startupNow
          /\ startupNow \in Nat /\ p.at \in Nat
          /\ heartbeat # NoHeartbeat /\ heartbeat \in Nat
          /\ Replayed(p) \/ p \in cut \/ p.at > heartbeat
      BY <2>1, FirstReading DEF CatchupInv, CatchupTypes, Past, DowntimeReplayed, Up, Tick
    <3> QED BY <2>1, <3>1, WindowHolds
  <2>5. cut \subseteq cut'
    BY <2>1
  <2>6. ReplayedOnce' /\ DowntimeReplayed' /\ TriggersKept'
    BY <1>1, <2>1, <2>5, DowntimeStays, TriggersStay DEF Grown, ReplayedOnce, Exists
  <2> QED BY <2>2, <2>3, <2>4, <2>6 DEF CatchupInv
<1> QED BY <1>2, <1>3 DEF Load

LEMMA ReplayKeeps == ASSUME CatchupInv, NEW p \in queue, Replay(p) PROVE CatchupInv'
<1>0. /\ p \in Tick /\ p.job \in Jobs /\ p.at \in Instants /\ pc = "replay"
      /\ UNCHANGED <<now, boots, heartbeat, history>>
  BY DEF CatchupInv, CatchupTypes, Replay, Tick
<1>1. /\ Grown /\ rows' \in [Jobs -> [Instants -> Nat]]
      /\ Replayed(p)' \/ RunFails
  <2>1. CASE UNCHANGED rows
    <3>1. Exists(p.job, p.at) => Replayed(p)'
      BY <2>1 DEF Replayed, Exists
    <3>2. Exists(p.job, p.at) \/ RunFails \/ Insert(p.job, p.at)
      BY <2>1 DEF Replay
    <3>3. Insert(p.job, p.at) /\ ~Exists(p.job, p.at) => Replayed(p)'
      BY <1>0, GrownByInsert DEF Replayed
    <3> QED BY <2>1, <3>1, <3>2, <3>3, GrownByNothing DEF CatchupInv, CatchupTypes
  <2>2. CASE ~Exists(p.job, p.at) /\ Insert(p.job, p.at)
    BY <1>0, <2>2, GrownByInsert DEF Replayed
  <2> QED BY <2>1, <2>2 DEF Replay
<1>2. CASE RunFails
  BY <1>0, <1>1, <1>2, FailureKeeps
<1>3. CASE ~RunFails
  <2>1. /\ queue' = queue \ {p} /\ Replayed(p)'
        /\ UNCHANGED <<pc, stop, startupNow, cron, beating, callbacks>>
    BY <1>1, <1>3 DEF Replay
  <2>2. CatchupTypes'
    BY <1>0, <1>1, <2>1 DEF CatchupInv, CatchupTypes, history
  <2>3. Phases' /\ Past'
    BY <1>0, <2>1 DEF CatchupInv, Phases, Past, Up, history
  <2>4. WindowKept'
    <3> SUFFICES ASSUME ~early, NEW q \in down
                 PROVE  Replayed(q)' \/ q \in cut \/ q \in queue'
      BY <1>0, <2>1 DEF WindowKept, history
    <3>1. q \in Tick /\ (Replayed(q) \/ q \in cut \/ q \in queue)
      BY <1>0 DEF CatchupInv, CatchupTypes, WindowKept
    <3> QED BY <1>1, <2>1, <3>1 DEF Grown, Replayed
  <2>5. ReplayedOnce' /\ DowntimeReplayed' /\ TriggersKept'
    BY <1>0, <1>1, <2>1, DowntimeStays, TriggersStay DEF Grown, ReplayedOnce, history
  <2> QED BY <2>2, <2>3, <2>4, <2>5 DEF CatchupInv
<1> QED BY <1>2, <1>3

LEMMA PersistStartupKeeps == ASSUME CatchupInv, PersistStartup PROVE CatchupInv'
<1>1. /\ Grown /\ pc = "replay" /\ queue = {} /\ UNCHANGED <<now, boots, rows, history>>
      /\ rows' \in [Jobs -> [Instants -> Nat]]
  BY GrownByNothing DEF PersistStartup, CatchupDone, CatchupInv, CatchupTypes
<1>2. CASE RunFails /\ UNCHANGED heartbeat
  BY <1>1, <1>2, FailureKeeps
<1>3. CASE /\ heartbeat' = startupNow /\ pc' = "cron"
           /\ UNCHANGED <<stop, startupNow, queue, current, cron, beating, callbacks>>
  <2> USE <1>1, <1>3 DEF history
  <2>1. \A p \in down : ~early => Replayed(p) \/ p \in cut
    BY DEF CatchupInv, WindowKept
  <2>2. CatchupTypes'
    BY DEF CatchupInv, CatchupTypes
  <2>3. Phases'
    BY DEF CatchupInv, Phases
  <2>4. Past'
    BY CatchupAssumption DEF CatchupInv, CatchupTypes, Past, Up
  <2>5. WindowKept' /\ DowntimeReplayed'
    BY <2>1 DEF WindowKept, DowntimeReplayed, Replayed, Exists
  <2>6. ReplayedOnce' /\ TriggersKept'
    BY TriggersStay DEF Grown, ReplayedOnce, Exists
  <2> QED BY <2>2, <2>3, <2>4, <2>5, <2>6 DEF CatchupInv
<1> QED BY <1>2, <1>3 DEF PersistStartup

LEMMA StartCronKeeps == ASSUME CatchupInv, StartCron PROVE CatchupInv'
<1>1. /\ Grown /\ pc = "cron" /\ UNCHANGED <<now, boots, heartbeat, rows, history>>
      /\ rows' \in [Jobs -> [Instants -> Nat]]
  BY GrownByNothing DEF StartCron, CatchupInv, CatchupTypes
<1>2. CASE RunFails
  BY <1>1, <1>2, FailureKeeps
<1>3. CASE ~RunFails
  <2> USE <1>1 DEF history
  <2>1. /\ cron' = TRUE /\ pc' = "loop"
        /\ UNCHANGED <<stop, startupNow, queue, beating, callbacks>>
    BY <1>3 DEF StartCron
  <2>2. CatchupTypes'
    BY <2>1 DEF CatchupInv, CatchupTypes
  <2>3. Phases' /\ Past'
    BY <2>1 DEF CatchupInv, Phases, Past, Up
  <2>4. WindowKept'
    BY <2>1, WindowStays
  <2>5. ReplayedOnce' /\ DowntimeReplayed' /\ TriggersKept'
    BY <2>1, DowntimeStays, TriggersStay DEF Grown, ReplayedOnce, Exists
  <2> QED BY <2>2, <2>3, <2>4, <2>5 DEF CatchupInv
<1> QED BY <1>2, <1>3

\* Steps of a Run that has started that only change what runs.
LEMMA ServingKeeps ==
  ASSUME CatchupInv, Phases', UNCHANGED <<now, boots, rows, startupNow, queue, callbacks>>,
         UNCHANGED <<missed, down, cut, fired, lost>>, early => early',
         stop' \in {"no", "cron", "drain", "exit"}, pc' \in {pc, "serve"},
         pc' # pc => pc = "loop",
         cron' \in BOOLEAN, beating' \in BOOLEAN, early' \in BOOLEAN,
         heartbeat' = heartbeat \/ (heartbeat' = now /\ (pc = "serve" \/ early'))
  PROVE  CatchupInv'
<1>0. Grown /\ now \in Instants
  BY GrownByNothing, FirstReading DEF CatchupInv, CatchupTypes
<1>1. CatchupTypes'
  BY DEF CatchupInv, CatchupTypes
<1>2. Past'
  BY <1>0, FirstReading, CatchupAssumption DEF CatchupInv, CatchupTypes, Past, Up
<1>3. WindowKept'
  BY <1>0, WindowStays
<1>4. ReplayedOnce' /\ DowntimeReplayed' /\ TriggersKept'
  BY <1>0, DowntimeStays, TriggersStay DEF Grown, ReplayedOnce, Exists
<1> QED BY <1>1, <1>2, <1>3, <1>4 DEF CatchupInv

LEMMA StartLoopKeeps == ASSUME CatchupInv, StartLoop PROVE CatchupInv'
<1>1. Phases'
  BY DEF StartLoop, CatchupInv, Phases, history
<1> QED BY <1>1, ServingKeeps DEF StartLoop, CatchupInv, CatchupTypes, history

-----------------------------------------------------------------------------
(* The heartbeat, cron and Shutdown *)

LEMMA BeatKeeps == ASSUME CatchupInv, Beat PROVE CatchupInv'
<1>1. Phases' /\ pc = "serve"
  BY DEF Beat, CatchupInv, Phases, process, history
<1> QED BY <1>1, ServingKeeps DEF Beat, CatchupInv, CatchupTypes, process, history

LEMMA SignalKeeps == ASSUME CatchupInv, Signal PROVE CatchupInv'
<1>1. Phases' /\ early' \in BOOLEAN /\ (early => early')
  BY DEF Signal, CatchupInv, CatchupTypes, Phases
<1> QED BY <1>1, ServingKeeps DEF Signal, CatchupInv, CatchupTypes

LEMMA StopCronKeeps == ASSUME CatchupInv, StopCron PROVE CatchupInv'
<1>1. Phases'
  BY DEF StopCron, CatchupInv, Phases, history
<1> QED BY <1>1, ServingKeeps DEF StopCron, CatchupInv, CatchupTypes, history

LEMMA LastBeatKeeps == ASSUME CatchupInv, LastBeat PROVE CatchupInv'
<1>1. Phases' /\ (pc = "serve" \/ early)
  BY DEF LastBeat, Drained, CatchupInv, CatchupTypes, Phases, history
<1> QED BY <1>1, ServingKeeps DEF LastBeat, CatchupInv, CatchupTypes, history

\* An instant passes: cron fires its ticks, or they are missed.
LEMMA PassKeeps == ASSUME CatchupInv, Pass PROVE CatchupInv'
<1> DEFINE due   == {j \in Jobs : now + 1 \in Times[j]}
           ticks == {[job |-> j, at |-> now + 1] : j \in due}
           owed  == IF heartbeat = NoHeartbeat THEN {} ELSE ticks
           calls == {[job |-> j, at |-> now + 2] : j \in due}
<1>1. /\ now' = now + 2 /\ now \in Nat /\ now + 2 \in Readings /\ now + 1 \in Instants
      /\ UNCHANGED <<boots, heartbeat, rows, pc, stop, startupNow, queue, current, cron, beating>>
      /\ UNCHANGED <<cut, lost, early>>
      /\ \/ /\ cron /\ callbacks' = callbacks \cup calls /\ fired' = fired \cup ticks
            /\ UNCHANGED <<missed, down>>
         \/ /\ ~cron /\ down' = (IF Up THEN down ELSE down \cup owed)
            /\ UNCHANGED <<callbacks, fired>>
  BY Clock DEF Pass, CatchupInv, CatchupTypes
<1>2. Grown /\ now + 2 \in Instants
  BY <1>1, GrownByNothing, FirstReading
<1>3. /\ ticks \subseteq Tick /\ \A p \in ticks : p.at = now + 1 /\ p.at \in Times[p.job]
      /\ calls \subseteq [job : Jobs, at : Readings]
  BY <1>1 DEF Tick
<1>4. \A p \in ticks : [p EXCEPT !.at = @ + 1] \in calls
  <2> SUFFICES ASSUME NEW j \in due PROVE [[job |-> j, at |-> now + 1] EXCEPT !.at = @ + 1] \in calls
    OBVIOUS
  <2>1. [[job |-> j, at |-> now + 1] EXCEPT !.at = @ + 1] = [job |-> j, at |-> now + 2]
    BY <1>1
  <2> QED BY <2>1
<1> HIDE DEF due, ticks, calls
<1>5. CatchupTypes'
  <2>1. \A p \in ticks : p.at + 1 \in Instants
    BY <1>1, <1>2, <1>3
  <2> QED BY <1>1, <1>3, <2>1 DEF CatchupInv, CatchupTypes
<1>6. Phases'
  BY <1>1 DEF CatchupInv, CatchupTypes, Phases
<1>7. down' = down \/ (~Up /\ heartbeat # NoHeartbeat /\ down' = down \cup ticks)
  BY <1>1
<1>8. Past'
  <2>1. \A p \in down : p.at \in Nat /\ p.at < now
    BY FirstReading DEF CatchupInv, CatchupTypes, Past, Tick
  <2>2. startupNow \in Nat /\ (heartbeat # NoHeartbeat => heartbeat \in Nat)
    BY FirstReading DEF CatchupInv, CatchupTypes, Past
  <2> QED BY <1>1, <1>3, <1>7, <2>1, <2>2 DEF CatchupInv, Past, Up
<1>9. WindowKept' /\ DowntimeReplayed'
  <2>1. CASE down' = down
    BY <1>1, <1>2, <2>1, WindowStays, DowntimeStays
  <2>2. CASE ~Up /\ heartbeat # NoHeartbeat /\ down' = down \cup ticks
    <3>1. WindowKept'
      BY <1>1, <2>2 DEF WindowKept, Up
    <3>0. heartbeat \in Nat /\ heartbeat <= now
      BY <2>2, FirstReading DEF CatchupInv, Past
    <3>2. \A p \in ticks : p.at > heartbeat
      BY <1>1, <1>3, <3>0
    <3> QED BY <1>1, <2>2, <3>1, <3>2 DEF CatchupInv, DowntimeReplayed, Replayed, Exists
  <2> QED BY <1>7, <2>1, <2>2
<1>10. TriggersKept'
  <2>1. CASE fired' = fired
    BY <1>1, <1>2, <2>1, TriggersStay
  <2>2. CASE callbacks' = callbacks \cup calls /\ fired' = fired \cup ticks
    BY <1>1, <1>4, <2>2 DEF CatchupInv, TriggersKept, Exists
  <2> QED BY <1>1, <2>1, <2>2
<1> QED BY <1>2, <1>5, <1>6, <1>8, <1>9, <1>10 DEF CatchupInv, Grown, ReplayedOnce

LEMMA TriggerKeeps == ASSUME CatchupInv, NEW c \in callbacks, Trigger(c) PROVE CatchupInv'
<1>1. /\ c.job \in Jobs /\ c.at \in Instants /\ c.at \in Readings
      /\ callbacks' = callbacks \ {c}
      /\ UNCHANGED <<now, boots, heartbeat, pc, stop, startupNow, queue, current, cron, beating>>
      /\ UNCHANGED <<missed, down, cut, fired, early>>
  BY FirstReading DEF CatchupInv, CatchupTypes, Trigger
<1>2. /\ Grown /\ rows' \in [Jobs -> [Instants -> Nat]]
      /\ lost \subseteq lost' /\ (Exists(c.job, c.at)' \/ c \in lost')
  <2>1. CASE Insert(c.job, c.at) /\ UNCHANGED lost
    BY <1>1, <2>1, GrownByInsert
  <2>2. CASE UNCHANGED rows /\ lost' = lost \cup {c}
    BY <2>2, GrownByNothing DEF CatchupInv, CatchupTypes
  <2> QED BY <2>1, <2>2 DEF Trigger
<1>3. CatchupTypes' /\ Phases' /\ Past'
  BY <1>1, <1>2 DEF CatchupInv, CatchupTypes, Phases, Past, Up
<1>4. WindowKept' /\ DowntimeReplayed' /\ ReplayedOnce'
  BY <1>1, <1>2, WindowStays, DowntimeStays DEF Grown, ReplayedOnce
<1>5. TriggersKept'
  <2>1. ASSUME NEW d \in callbacks \cup lost PROVE Exists(d.job, d.at)' \/ d \in callbacks' \cup lost'
    BY <1>1, <1>2, <2>1
  <2> QED BY <1>1, <1>2, <2>1, TriggersStay
<1> QED BY <1>3, <1>4, <1>5 DEF CatchupInv

-----------------------------------------------------------------------------
(* The theorems *)

LEMMA CatchupStep == ASSUME CatchupInv, [Next]_vars PROVE CatchupInv'
<1>1. CASE UNCHANGED vars
  <2> USE <1>1 DEF vars, process, history
  <2>1. CatchupTypes' /\ Phases' /\ Past' /\ WindowKept'
    BY DEF CatchupInv, CatchupTypes, Phases, Past, WindowKept, Up, Replayed, Exists
  <2>2. ReplayedOnce' /\ DowntimeReplayed' /\ TriggersKept'
    BY DEF CatchupInv, ReplayedOnce, DowntimeReplayed, TriggersKept, Replayed, Exists
  <2> QED BY <2>1, <2>2 DEF CatchupInv
<1> QED BY <1>1, BootKeeps, LoadKeeps, ReplayKeeps, PersistStartupKeeps, StartCronKeeps,
           StartLoopKeeps, BeatKeeps, PassKeeps, TriggerKeeps, SignalKeeps, StopCronKeeps,
           LastBeatKeeps, ExitKeeps, CrashKeeps DEF Next, Run, Shutdown

LEMMA CatchupAlways == Spec => []CatchupInv
BY CatchupInit, CatchupStep, PTL DEF Spec

\* However often boots, crashes and failing statements interrupt the catch-up
\* (runStartupCatchup), a tick gets one replayed row at most.
THEOREM TicksAreReplayedOnce == Spec => []ReplayedOnce
<1>1. CatchupInv => ReplayedOnce
  BY DEF CatchupInv
<1> QED BY <1>1, CatchupAlways, PTL

\* The heartbeat (persistSchedulerHeartbeat, the loop, Shutdown) never passes a
\* tick of the downtime that is not replayed, unless it was cut off or a signal
\* came while Run was starting.
THEOREM DowntimeIsReplayed == Spec => []DowntimeReplayed
<1>1. CatchupInv => DowntimeReplayed
  BY DEF CatchupInv
<1> QED BY <1>1, CatchupAlways, PTL

\* Every tick cron has fired has its row, its callback still running, or a failed
\* insert: Shutdown waits for the callbacks before the process ends.
THEOREM TriggersAreKept == Spec => []TriggersKept
<1>1. CatchupInv => TriggersKept
  BY DEF CatchupInv
<1> QED BY <1>1, CatchupAlways, PTL

=============================================================================
