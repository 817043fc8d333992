---------------------------- MODULE ProcessProofs ----------------------------
(***************************************************************************)
(* The beginning and the end of a daemon process.  The end: wherever Run   *)
(* is when the signal comes, the database is closed under nobody's feet.   *)
(* The beginning: for every number of processes and every sequence of      *)
(* their versions, one that uses the database file has all its migrations  *)
(* in it, each applied once, in order.                                     *)
(***************************************************************************)
EXTENDS Lifecycle, Migrations, TLAPS

-----------------------------------------------------------------------------
(* The end (Lifecycle) *)

Stages == {"select", "heartbeat", "maintenance", "runner", "scheduler", "lastBeat", "server",
           "database", "return", "ended"}
Runs   == {"catchup", "scheduler", "runner", "maintenance", "heartbeat", "server", "serving",
           "over"}

LifeTypes ==
  /\ run \in Runs /\ stage \in Stages /\ running \subseteq Parts /\ asked \subseteq Parts
  /\ part \in [Parts -> {"none", "idle", "busy", "gone"}]
  /\ schedMu \in {"run", "request", "free"}
  /\ timeUp \in BOOLEAN /\ hasty \in BOOLEAN /\ database \in {"open", "closed"}

\* Run has not come to the start of a loop, or is at it.
Unstarted(p) ==
  \/ run \in {"catchup", "scheduler"}
  \/ run = "runner" /\ p # "scheduler"
  \/ run = "maintenance" /\ p \in {"maintenance", "heartbeat"}
  \/ run = "heartbeat" /\ p = "heartbeat"

\* Shutdown has left the Stop of a loop behind it.
PassedOver(p) ==
  \/ stage \in {"lastBeat", "server", "database", "return"}
  \/ stage = "scheduler" /\ p # "scheduler"
  \/ stage = "runner" /\ p \in {"maintenance", "heartbeat"}
  \/ stage = "maintenance" /\ p = "heartbeat"

\* A loop that Shutdown has left is at its end, or the time was over, or Run
\* has started it, or will, behind Shutdown's back.
Settled(p) == part[p] \in {"none", "gone"} \/ timeUp \/ (hasty /\ p \notin asked)

\* What a loop is, as far as Run and Shutdown have come.
LoopInv(p) ==
  /\ Unstarted(p) => part[p] = "none" /\ p \notin running \cup asked
  /\ part[p] # "none" => p \in running \cup asked
  /\ PassedOver(p) => Settled(p)

LifeInv ==
  /\ LifeTypes
  /\ database = "closed" => stage \in {"return", "ended"}
  /\ Stopping /\ (\E p \in Loops : Unstarted(p)) => hasty
  /\ stage \in {"database", "return"} => "server" \in asked /\ part["server"] # "busy"
  /\ stage # "ended" => \A p \in Loops : LoopInv(p)
  /\ stage = "ended" => run = "over" /\ \A p \in Parts : part[p] = "none"

LEMMA LifeInitHolds == LifeInit => LifeInv
BY DEF LifeInit, LifeInv, LifeTypes, LoopInv, Unstarted, PassedOver, Stopping, Loops, Parts,
       Stages, Runs

LEMMA MainEndsKeeps == ASSUME LifeInv, MainEnds PROVE LifeInv'
BY DEF MainEnds, LifeInv, LifeTypes, Stopping, Loops, Parts, Stages, Runs

LEMMA RunErrsKeeps == ASSUME LifeInv, RunErrs PROVE LifeInv'
<1>1. CASE ~Stopping
  BY <1>1, MainEndsKeeps DEF RunErrs
<1>2. CASE Stopping
  BY <1>2 DEF RunErrs, LifeInv, LifeTypes, Stopping, Loops, Runs, LoopInv, Unstarted,
              PassedOver, Settled
<1> QED BY <1>1, <1>2

\* A step of Run that starts a loop, or none.
LEMMA RunKeeps == ASSUME LifeInv, Run PROVE LifeInv'
<1> USE DEF LifeInv, LifeTypes, Stopping, Loops, Parts, Runs, LoopInv, Unstarted, PassedOver,
            Settled, Goes, RunOrder
<1>1. CASE Catchup
  BY <1>1, RunErrsKeeps DEF Catchup
<1>2. CASE LockScheduler
  BY <1>2 DEF LockScheduler
<1>3. CASE StartScheduler
  <2>1. CASE RunErrs
    BY <2>1, RunErrsKeeps
  <2>2. CASE Goes /\ Starts("scheduler") /\ schedMu' = "free" /\ run = "scheduler"
    BY <2>2 DEF Starts
  <2> QED BY <1>3, <2>1, <2>2 DEF StartScheduler
<1>4. ASSUME NEW p \in {"runner", "maintenance", "heartbeat"}, StartLoop(p) PROVE LifeInv'
  BY <1>4 DEF StartLoop, Starts
<1>5. CASE Listen
  <2>1. CASE RunErrs
    BY <2>1, RunErrsKeeps
  <2>2. CASE ~RunErrs
    BY <1>5, <2>2 DEF Listen
  <2> QED BY <2>1, <2>2
<1> QED BY <1>1, <1>2, <1>3, <1>4, <1>5 DEF Run

LEMMA PartKeeps ==
  ASSUME LifeInv, NEW p \in Parts, Works(p) \/ Rests(p) \/ Returns(p)
  PROVE  LifeInv'
<1>1. PICK to \in {"busy", "idle", "gone"} :
        /\ part' = [part EXCEPT ![p] = to]
        /\ part[p] \in {"idle", "busy"} /\ (to = "busy" => p \notin asked)
        /\ UNCHANGED <<portFree, run, stage, running, asked, schedMu, timeUp, database, hasty>>
  BY DEF Works, Rests, Returns, Turns
<1>2. LifeTypes'
  BY <1>1 DEF LifeInv, LifeTypes
<1>3. /\ part'[p] = to /\ \A q \in Parts : q # p => part'[q] = part[q]
      /\ stage # "ended"
  BY <1>1 DEF LifeInv, LifeTypes
<1>4. ASSUME NEW q \in Loops PROVE LoopInv(q)'
  <2>1. LoopInv(q) /\ q \in Parts
    BY <1>3 DEF LifeInv, Loops, Parts
  <2>2. CASE q # p
    BY <1>1, <1>3, <2>1, <2>2 DEF LoopInv, Unstarted, PassedOver, Settled
  <2>3. CASE q = p
    BY <1>1, <1>3, <2>1, <2>3 DEF LoopInv, Unstarted, PassedOver, Settled
  <2> QED BY <2>2, <2>3
<1>5. stage' \in {"database", "return"} => "server" \in asked' /\ part'["server"] # "busy"
  BY <1>1, <1>3 DEF LifeInv, Parts
<1> QED BY <1>1, <1>2, <1>3, <1>4, <1>5 DEF LifeInv, Stopping, Unstarted

LEMMA SignalKeeps == ASSUME LifeInv, Signal PROVE LifeInv'
BY DEF LifeInv, LifeTypes, Stopping, Loops, Parts, Runs, Stages, LoopInv, Unstarted, PassedOver,
       Signal, Proceeds, StopOrder

\* A step of Shutdown leaves a loop behind only when it has not been started,
\* or is at its end, or the time is over.
LEMMA ShutdownKeeps == ASSUME LifeInv, Shutdown PROVE LifeInv'
<1> USE DEF LifeInv, LifeTypes, Stopping, Loops, Parts, Stages, LoopInv, Unstarted, PassedOver,
            Settled, Proceeds, StopOrder
<1>1. ASSUME NEW p \in Loops, Tell(p) PROVE LifeInv'
  <2>1. CASE p \in running
    BY <1>1, <2>1 DEF Tell
  <2>2. CASE p \notin running
    <3>1. /\ Proceeds /\ stage = p /\ p \notin asked /\ part[p] = "none"
          /\ UNCHANGED <<portFree, run, running, part, asked, schedMu, timeUp, database, hasty>>
      BY <1>1, <2>2 DEF Tell
    <3> QED BY <3>1
  <2> QED BY <2>1, <2>2
<1>2. ASSUME NEW p \in Loops, WaitFor(p) PROVE LifeInv'
  BY <1>2 DEF WaitFor, Waited
<1>3. CASE LastBeat
  BY <1>3 DEF LastBeat
<1>4. CASE TellServer
  BY <1>4 DEF TellServer
<1>5. CASE WaitForServer
  <2>1. CASE MainEnds
    BY <2>1, MainEndsKeeps
  <2>2. CASE ~MainEnds
    <3>1. /\ stage = "server" /\ stage' = "database" /\ "server" \in asked
          /\ part["server"] # "busy"
          /\ UNCHANGED <<portFree, run, running, part, asked, schedMu, timeUp, database, hasty>>
      BY <1>5, <2>2 DEF WaitForServer
    <3> QED BY <3>1
  <2> QED BY <2>1, <2>2
<1>6. CASE Close
  BY <1>6 DEF Close
<1>7. CASE MainReturns
  BY <1>7, MainEndsKeeps DEF MainReturns
<1> QED BY <1>1, <1>2, <1>3, <1>4, <1>5, <1>6, <1>7 DEF Shutdown

LEMMA LifeNextKeeps == ASSUME LifeInv, [LifeNext]_lifeVars PROVE LifeInv'
<1>1. CASE TenSeconds
  BY <1>1 DEF TenSeconds, LifeInv, LifeTypes, Stopping, LoopInv, Unstarted, PassedOver, Settled
<1>2. CASE Reload \/ ReloadEnds
  BY <1>2 DEF Reload, ReloadEnds, Holds, LifeInv, LifeTypes, Stopping, LoopInv, Unstarted,
              PassedOver, Settled
<1>3. CASE UNCHANGED lifeVars
  BY <1>3 DEF lifeVars, LifeInv, LifeTypes, Stopping, LoopInv, Unstarted, PassedOver, Settled
<1> QED BY <1>1, <1>2, <1>3, RunKeeps, SignalKeeps, ShutdownKeeps, PartKeeps DEF LifeNext

\* Wherever the signal finds Run, and whatever its parts do: no request ever
\* meets a closed database, and no loop but one that outlasted the ten seconds
\* or was started after Shutdown had passed it over.
THEOREM DatabaseIsClosedLast == LifeSpec => []ClosedLast
<1>1. LifeInv => ClosedLast
  <2> SUFFICES ASSUME LifeInv, database = "closed" PROVE ClosedLast
    BY DEF ClosedLast
  <2>1. CASE stage = "return"
    BY <2>1 DEF LifeInv, ClosedLast, LoopInv, PassedOver, Settled
  <2>2. CASE stage = "ended"
    BY <2>2 DEF LifeInv, ClosedLast, Loops, Parts
  <2> QED BY <2>1, <2>2 DEF LifeInv
<1>2. LifeInv /\ [LifeNext]_lifeVars => LifeInv'
  BY LifeNextKeeps
<1> QED BY <1>1, <1>2, LifeInitHolds, PTL DEF LifeSpec

-----------------------------------------------------------------------------
(* The beginning (Migrations) *)

Steps == {"off", "check", "apply", "ready"}

TypeInv ==
  /\ versionTable \in BOOLEAN /\ recorded \subseteq Names /\ retries \in Nat
  /\ applied \in [Names -> Nat]
  /\ opener \in [Procs -> [at : Steps, n : Nat]]

\* The rows tell what is in the database, and leave no gap.
RecordTrue == \A n \in Names : applied[n] = IF n \in recorded THEN 1 ELSE 0
NoGap      == \A n \in recorded : 1..n \subseteq recorded

\* How far a process has looked: what lies behind it is recorded.
Behind(p) ==
  /\ opener[p].at = "check" => opener[p].n >= 1 /\ 1..(opener[p].n - 1) \subseteq recorded
  /\ opener[p].at = "apply" => opener[p].n \in 1..Version[p] /\ 1..(opener[p].n - 1) \subseteq recorded
  /\ opener[p].at = "ready" => 1..Version[p] \subseteq recorded

MigrationsInv == TypeInv /\ RecordTrue /\ NoGap /\ \A p \in Procs : Behind(p)

\* No row of schema_migrations is ever deleted, so what a process has seen
\* recorded stays so whatever the others do.
LEMMA OthersStayBehind ==
  ASSUME MigrationsInv, NEW p \in Procs, NEW q \in Procs, q # p,
         recorded \subseteq recorded', opener'[q] = opener[q]
  PROVE  Behind(q)'
BY DEF MigrationsInv, Behind

\* A step that leaves the rows alone and moves one process.
LEMMA OneMoves ==
  ASSUME MigrationsInv, NEW p \in Procs, NEW at \in Steps, NEW n \in Nat,
         Reaches(p, at, n), versionTable' \in BOOLEAN, retries' \in Nat,
         UNCHANGED <<recorded, applied>>,
         at = "check" => n >= 1 /\ 1..(n - 1) \subseteq recorded,
         at = "apply" => n \in 1..Version[p] /\ 1..(n - 1) \subseteq recorded,
         at = "ready" => 1..Version[p] \subseteq recorded
  PROVE  MigrationsInv'
<1>1. opener' = [opener EXCEPT ![p] = [at |-> at, n |-> n]]
  BY DEF Reaches, Opener
<1>2. TypeInv'
  BY <1>1 DEF MigrationsInv, TypeInv
<1>3. RecordTrue' /\ NoGap'
  BY DEF MigrationsInv, RecordTrue, NoGap
<1>4. opener'[p] = [at |-> at, n |-> n]
  BY <1>1 DEF MigrationsInv, TypeInv
<1>5. Behind(p)'
  BY <1>4 DEF Behind
<1>6. ASSUME NEW q \in Procs, q # p PROVE Behind(q)'
  <2>1. opener'[q] = opener[q]
    BY <1>1, <1>6 DEF MigrationsInv, TypeInv
  <2> QED BY <2>1, <1>6, OthersStayBehind
<1> QED BY <1>2, <1>3, <1>5, <1>6 DEF MigrationsInv

LEMMA QuitsKeeps ==
  ASSUME MigrationsInv, NEW p \in Procs, Quits(p),
         UNCHANGED <<versionTable, recorded, applied>>
  PROVE  MigrationsInv'
<1>1. Reaches(p, "off", 0) /\ retries' \in Nat /\ versionTable' \in BOOLEAN
  BY DEF Quits, MigrationsInv, TypeInv
<1> QED BY <1>1, OneMoves DEF Steps

LEMMA CheckKeeps ==
  ASSUME MigrationsInv, NEW p \in Procs, CheckMigration(p)
  PROVE  MigrationsInv'
<1> DEFINE n == opener[p].n
<1>1. /\ n \in Nat /\ n >= 1 /\ 1..(n - 1) \subseteq recorded /\ Version[p] \in Nat
      /\ versionTable' \in BOOLEAN /\ UNCHANGED <<versionTable, recorded, applied>>
      /\ retries \in Nat
  BY MigrationsAssumption DEF CheckMigration, MigrationsInv, TypeInv, Behind
<1>2. CASE n > Version[p] /\ Reaches(p, "ready", 0) /\ UNCHANGED retries
  <2>1. 1..Version[p] \subseteq recorded
    BY <1>1, <1>2
  <2> QED BY <1>1, <1>2, <2>1, OneMoves DEF Steps
<1>3. CASE n <= Version[p] /\ MigrationApplied(n) /\ Reaches(p, "check", n + 1) /\ UNCHANGED retries
  <2>1. n + 1 \in Nat /\ n + 1 >= 1 /\ 1..((n + 1) - 1) \subseteq recorded
    BY <1>1, <1>3 DEF MigrationApplied, MigrationsInv, NoGap
  <2> HIDE DEF n
  <2> QED BY <1>1, <1>3, <2>1, OneMoves DEF Steps
<1>4. CASE n <= Version[p] /\ ~MigrationApplied(n) /\ Reaches(p, "apply", n) /\ UNCHANGED retries
  <2>1. n \in 1..Version[p]
    BY <1>1, <1>4
  <2> HIDE DEF n
  <2> QED BY <1>1, <1>4, <2>1, OneMoves DEF Steps
<1>5. CASE Quits(p)
  BY <1>1, <1>5, QuitsKeeps
<1> QED BY <1>2, <1>3, <1>4, <1>5 DEF CheckMigration

LEMMA ApplyKeeps ==
  ASSUME MigrationsInv, NEW p \in Procs, ApplyMigration(p)
  PROVE  MigrationsInv'
<1> DEFINE n == opener[p].n
<1>1. /\ n \in Nat /\ n \in 1..Version[p] /\ 1..(n - 1) \subseteq recorded
      /\ Version[p] \in Nat /\ UNCHANGED versionTable
  BY MigrationsAssumption DEF ApplyMigration, MigrationsInv, TypeInv, Behind
<1>2. n \in Names
  BY <1>1 DEF Names
<1>3. CASE Quits(p) /\ RolledBack(n) /\ UNCHANGED recorded
  BY <1>1, <1>3, QuitsKeeps DEF RolledBack
<1>4. CASE /\ n \notin recorded
           /\ recorded' = recorded \cup {n} /\ applied' = [applied EXCEPT ![n] = @ + 1]
           /\ Reaches(p, "check", n + 1) /\ UNCHANGED retries
  <2>1. opener' = [opener EXCEPT ![p] = [at |-> "check", n |-> n + 1]]
    BY <1>4 DEF Reaches, Opener
  <2>2. TypeInv'
    BY <1>1, <1>2, <1>4, <2>1 DEF MigrationsInv, TypeInv, Steps
  <2>3. RecordTrue'
    <3> SUFFICES ASSUME NEW m \in Names PROVE applied'[m] = IF m \in recorded' THEN 1 ELSE 0
      BY DEF RecordTrue
    <3>1. applied[m] = IF m \in recorded THEN 1 ELSE 0
      BY DEF MigrationsInv, RecordTrue
    <3>2. applied \in [Names -> Nat]
      BY DEF MigrationsInv, TypeInv
    <3> HIDE DEF n
    <3>3. CASE m = n
      BY <1>2, <1>4, <3>1, <3>2, <3>3
    <3>4. CASE m # n
      BY <1>2, <1>4, <3>1, <3>2, <3>4
    <3> QED BY <3>3, <3>4
  <2>4. 1..n \subseteq recorded'
    BY <1>1, <1>4
  <2>5. NoGap'
    BY <1>4, <2>4 DEF MigrationsInv, NoGap
  <2>6. Behind(p)'
    <3>1. opener'[p] = [at |-> "check", n |-> n + 1]
      BY <2>1 DEF MigrationsInv, TypeInv
    <3>2. n + 1 >= 1 /\ 1..((n + 1) - 1) \subseteq recorded'
      BY <1>1, <2>4
    <3> QED BY <3>1, <3>2 DEF Behind
  <2>7. ASSUME NEW q \in Procs, q # p PROVE Behind(q)'
    <3>1. opener'[q] = opener[q]
      BY <2>1, <2>7 DEF MigrationsInv, TypeInv
    <3> QED BY <1>4, <2>7, <3>1, OthersStayBehind
  <2> QED BY <2>2, <2>3, <2>5, <2>6, <2>7 DEF MigrationsInv
<1> QED BY <1>3, <1>4 DEF ApplyMigration

LEMMA MigrationsInitHolds == MigrationsInit => MigrationsInv
<1> SUFFICES ASSUME MigrationsInit PROVE MigrationsInv
  OBVIOUS
<1>1. \A p \in Procs : opener[p] = [at |-> "off", n |-> 0]
  BY DEF MigrationsInit, Opener
<1>2. TypeInv
  BY DEF MigrationsInit, TypeInv, Opener, Steps
<1>3. RecordTrue /\ NoGap
  BY DEF MigrationsInit, RecordTrue, NoGap
<1>4. \A p \in Procs : Behind(p)
  BY <1>1 DEF Behind
<1> QED BY <1>2, <1>3, <1>4 DEF MigrationsInv

LEMMA MigrationsNextKeeps ==
  ASSUME MigrationsInv, [MigrationsNext]_migrationVars
  PROVE  MigrationsInv'
<1>1. ASSUME NEW p \in Procs, CreateVersionTable(p) PROVE MigrationsInv'
  <2>1. /\ Reaches(p, "check", 1) /\ versionTable' \in BOOLEAN /\ retries' \in Nat
        /\ UNCHANGED <<recorded, applied>> /\ 1..(1 - 1) \subseteq recorded
    BY <1>1 DEF CreateVersionTable, MigrationsInv, TypeInv
  <2> QED BY <2>1, OneMoves DEF Steps
<1>2. ASSUME NEW p \in Procs, CheckMigration(p) PROVE MigrationsInv'
  BY <1>2, CheckKeeps
<1>3. ASSUME NEW p \in Procs, ApplyMigration(p) PROVE MigrationsInv'
  BY <1>3, ApplyKeeps
<1>4. ASSUME NEW p \in Procs, CrashOrEnd(p) PROVE MigrationsInv'
  BY <1>4, QuitsKeeps DEF CrashOrEnd
<1>5. CASE UNCHANGED migrationVars
  BY <1>5 DEF migrationVars, MigrationsInv, TypeInv, RecordTrue, NoGap, Behind
<1> QED BY <1>1, <1>2, <1>3, <1>4, <1>5 DEF MigrationsNext

\* Whatever processes race, fail, die and come in newer versions: one that uses
\* the database has all its migrations in it, and the record tells exactly what
\* has been applied, each once and none before its predecessor.
THEOREM MigrationsAreReady == MigrationsSpec => []SchemaReady
<1>1. MigrationsInv => SchemaReady
  BY DEF MigrationsInv, SchemaReady, Behind, RecordTrue, NoGap
<1>2. MigrationsInv /\ [MigrationsNext]_migrationVars => MigrationsInv'
  BY MigrationsNextKeeps
<1> QED BY <1>1, <1>2, MigrationsInitHolds, PTL DEF MigrationsSpec

=============================================================================
