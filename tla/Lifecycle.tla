----------------------------- MODULE Lifecycle ------------------------------
(***************************************************************************)
(* A daemon process from app.Run to its end: Run starts the parts one      *)
(* after the other, in a goroutine; main waits for a signal or for Run to  *)
(* return; Shutdown then stops the parts in an order of its own, waiting   *)
(* for each until it is done or ten seconds have passed since the signal.  *)
(* What the parts do is in the other modules; here a part is busy, which   *)
(* is to use the database, or idle.                                        *)
(***************************************************************************)
VARIABLES
  portFree,   \* nobody else listens on the address
  run,        \* where Run is
  stage,      \* where main and Shutdown are
  running,    \* the parts whose `running` is set (heartbeatCancel for the loop)
  part,       \* the goroutines of a part, or the requests of the server
  asked,      \* the parts that have been told to end
  schedMu,    \* who holds the scheduler's mu: "run", "request" or "free"
  timeUp,     \* the ten seconds are over
  database,   \* "open" or "closed"
  hasty       \* history: the signal came before Run had started all parts

lifeVars == <<portFree, run, stage, running, part, asked, schedMu, timeUp, database, hasty>>

Loops == {"scheduler", "runner", "maintenance", "heartbeat"}
Parts == Loops \cup {"server"}

\* What comes after what: in Run, and in main with Shutdown.
RunOrder ==
  [catchup |-> "scheduler", scheduler |-> "runner", runner |-> "maintenance",
   maintenance |-> "heartbeat", heartbeat |-> "server"]
StopOrder ==
  [select |-> "heartbeat", heartbeat |-> "maintenance", maintenance |-> "runner",
   runner |-> "scheduler", scheduler |-> "lastBeat", lastBeat |-> "server",
   server |-> "database", database |-> "return"]

LifeInit ==
  /\ portFree \in BOOLEAN
  /\ run = "catchup" /\ stage = "select"
  /\ running = {} /\ part = [p \in Parts |-> "none"] /\ asked = {}
  /\ schedMu = "free" /\ timeUp = FALSE /\ database = "open" /\ hasty = FALSE

Ended    == stage = "ended"
Stopping == stage \notin {"select", "ended"}

\* main returns: the process and all that it does are gone.
MainEnds ==
  /\ stage' = "ended" /\ run' = "over"
  /\ running' = {} /\ part' = [p \in Parts |-> "none"] /\ asked' = {} /\ schedMu' = "free"
  /\ UNCHANGED <<portFree, timeUp, database, hasty>>

\* Variants, each with one plausible mistake.
WaitedForEver(p) == part[p] = "gone"
NotAwaited(p)    == TRUE

-----------------------------------------------------------------------------
(* Run *)

Goes == /\ run' = RunOrder[run]
        /\ UNCHANGED <<portFree, stage, asked, timeUp, database, hasty>>

\* An error of Run ends main, unless main is in Shutdown already.
RunErrs ==
  IF Stopping
  THEN /\ run' = "over" /\ schedMu' = IF schedMu = "run" THEN "free" ELSE schedMu
       /\ UNCHANGED <<portFree, stage, running, part, asked, timeUp, database, hasty>>
  ELSE MainEnds

Catchup ==
  /\ run = "catchup"
  /\ (Goes /\ UNCHANGED <<running, part, schedMu>>) \/ RunErrs

\* Start takes s.mu for the whole of reloadLocked.
LockScheduler ==
  /\ run = "scheduler" /\ schedMu = "free" /\ schedMu' = "run"
  /\ UNCHANGED <<portFree, run, stage, running, part, asked, timeUp, database, hasty>>

Starts(p) == running' = running \cup {p} /\ part' = [part EXCEPT ![p] = "idle"]

StartScheduler ==
  /\ run = "scheduler" /\ schedMu = "run"
  /\ (Goes /\ Starts("scheduler") /\ schedMu' = "free") \/ RunErrs

StartLoop(p) ==
  /\ run = p /\ Goes /\ Starts(p) /\ UNCHANGED schedMu

\* ListenAndServe: at once over when Shutdown has been at the server.
Listen ==
  /\ run = "server"
  /\ \/ /\ "server" \notin asked /\ portFree
        /\ run' = "serving" /\ part' = [part EXCEPT !["server"] = "idle"]
        /\ UNCHANGED <<portFree, stage, running, asked, schedMu, timeUp, database, hasty>>
     \/ "server" \notin asked /\ ~portFree /\ RunErrs
     \/ "server" \in asked /\ RunErrs

Run ==
  \/ Catchup \/ LockScheduler \/ StartScheduler \/ Listen
  \/ \E p \in {"runner", "maintenance", "heartbeat"} : StartLoop(p)

-----------------------------------------------------------------------------
(* The parts *)

Turns(p, to) ==
  /\ part' = [part EXCEPT ![p] = to]
  /\ UNCHANGED <<portFree, run, stage, running, asked, schedMu, timeUp, database, hasty>>

\* Cron fires, a worker claims, a ticker ticks, a request comes.
Works(p) == part[p] = "idle" /\ p \notin asked /\ Turns(p, "busy")
Rests(p) == part[p] = "busy" /\ (p = "server" => schedMu # "request") /\ Turns(p, "idle")
Returns(p) == part[p] = "idle" /\ p \in asked /\ Turns(p, "gone")

\* A request that writes a job calls scheduler.Reload.
Holds(who) ==
  /\ schedMu' = who
  /\ UNCHANGED <<portFree, run, stage, running, part, asked, timeUp, database, hasty>>
Reload     == part["server"] = "busy" /\ schedMu = "free" /\ Holds("request")
ReloadEnds == schedMu = "request" /\ Holds("free")

-----------------------------------------------------------------------------
(* Shutdown *)

Proceeds == stage' = StopOrder[stage]

\* SIGINT or SIGTERM.  A part whose `running` is not set is passed over, though
\* Run may be about to start it.
Signal ==
  /\ stage = "select" /\ Proceeds
  /\ hasty' = (run \notin {"server", "serving"})
  /\ UNCHANGED <<portFree, run, running, part, asked, schedMu, timeUp, database>>

\* The Stop of a part: under its mutex, which is to wait for a reload ...
Tell(p) ==
  /\ stage = p /\ p \notin asked
  /\ p = "scheduler" => schedMu = "free"
  /\ IF p \in running
     THEN running' = running \ {p} /\ asked' = asked \cup {p} /\ UNCHANGED stage
     ELSE Proceeds /\ UNCHANGED <<running, asked>>
  /\ UNCHANGED <<portFree, run, part, schedMu, timeUp, database, hasty>>

\* ... and then, without it, for the goroutines or the end of the ten seconds.
Waited(p) == part[p] = "gone" \/ timeUp
WaitFor(p) ==
  /\ stage = p /\ p \in asked /\ Waited(p) /\ Proceeds
  /\ UNCHANGED <<portFree, run, running, part, asked, schedMu, timeUp, database, hasty>>

LastBeat ==
  /\ stage = "lastBeat" /\ Proceeds
  /\ UNCHANGED <<portFree, run, running, part, asked, schedMu, timeUp, database, hasty>>

TellServer ==
  /\ stage = "server" /\ "server" \notin asked /\ asked' = asked \cup {"server"}
  /\ UNCHANGED <<portFree, run, stage, running, part, schedMu, timeUp, database, hasty>>

\* Idle connections are closed; with a request in progress at the end of the
\* time Shutdown returns the error and leaves the database open.
WaitForServer ==
  /\ stage = "server" /\ "server" \in asked
  /\ \/ /\ part["server"] # "busy" /\ Proceeds
        /\ UNCHANGED <<portFree, run, running, part, asked, schedMu, timeUp, database, hasty>>
     \/ part["server"] = "busy" /\ timeUp /\ MainEnds

Close ==
  /\ stage = "database"
  /\ database' = "closed" /\ Proceeds
  /\ UNCHANGED <<portFree, run, running, part, asked, schedMu, timeUp, hasty>>

MainReturns == stage = "return" /\ MainEnds

Shutdown ==
  \/ \E p \in Loops : Tell(p) \/ WaitFor(p)
  \/ LastBeat \/ TellServer \/ WaitForServer \/ Close \/ MainReturns

TenSeconds ==
  /\ Stopping /\ ~timeUp /\ timeUp' = TRUE
  /\ UNCHANGED <<portFree, run, stage, running, part, asked, schedMu, database, hasty>>

LifeNext ==
  \/ Run \/ Signal \/ Shutdown \/ TenSeconds
  \/ \E p \in Parts : Works(p) \/ Rests(p) \/ Returns(p)
  \/ Reload \/ ReloadEnds

\* main, the timer and a reload go on, and Run while it holds s.mu, which its 30
\* seconds bound; a mutex comes to who waits for it (sync.Mutex is starvation
\* free).  That a part comes to its end is not assumed.
LifeFairness ==
  /\ WF_lifeVars(Shutdown) /\ SF_lifeVars(Tell("scheduler")) /\ WF_lifeVars(TenSeconds)
  /\ WF_lifeVars(StartScheduler) /\ WF_lifeVars(ReloadEnds)

LifeSpec == LifeInit /\ [][LifeNext]_lifeVars /\ LifeFairness

-----------------------------------------------------------------------------
(* Properties *)

\* The database is closed under nobody's feet: under no request ever, and under
\* no part unless the ten seconds were over, or the part was started after
\* Shutdown had passed it over.
ClosedLast ==
  database = "closed" =>
    /\ part["server"] # "busy"
    /\ \A p \in Loops : part[p] \in {"none", "gone"} \/ timeUp \/ (hasty /\ p \notin asked)

\* A signal ends the process, whatever the parts do, whoever holds s.mu and
\* wherever Run is.
StopsInTime == Stopping ~> Ended

=============================================================================
