---------------------------- MODULE RunnerProofs ----------------------------
(***************************************************************************)
(* Proofs about Runner for every number of jobs, runs and workers, any     *)
(* retry delays and any combination of faults.                             *)
(***************************************************************************)
EXTENDS Runner, TLAPS

-----------------------------------------------------------------------------
(* The inductive invariant *)

\* A worker names a run exactly while it processes one; past some steps its
\* outcome is settled and its copy of the job is there.
WorkerShape ==
  \A w \in Workers :
    /\ worker[w].run \in RunIds <=> Holds(w)
    /\ pc(w) \in {"early", "clear", "finish"} => worker[w].res \in Terminal
    /\ pc(w) \in After => worker[w].res \in Retryable
    /\ pc(w) \in {"activate", "exec", "clear", "finish"} \cup After => worker[w].job # NoJob

\* The row of a run a worker still owes an outcome is "running" or deleted, and
\* after the outcome it says so.
RowsMatch ==
  /\ \A r \in RunIds : Status(r) # "none" => Job(r) \in Jobs
  /\ \A w \in Workers :
       /\ pc(w) \in Owning => Status(worker[w].run) \in {"running", "removed"}
       /\ pc(w) \in After => Status(worker[w].run) \in Retryable \cup {"removed"}

CoreInv == TypeOK /\ WorkerShape /\ RowsMatch /\ ClaimExclusive

\* Before its outcome a run has neither a retry nor an alert, and it has none
\* as long as a worker holds it; an id not in use is nobody's retry.
Unlinked(r) == alerts[r] = 0 /\ \A q \in RunIds : parent[q] # r
Links ==
  /\ \A r \in RunIds : Status(r) \in {"none", "queued"} => Unlinked(r)
  /\ \A r \in RunIds : Status(r) = "none" => parent[r] = NoRun
  /\ \A w \in Workers : Holds(w) => Unlinked(worker[w].run)

\* A retry is the only one of its parent, which failed.
Chain ==
  \A p, r \in RunIds : parent[r] = p =>
    /\ \A q \in RunIds : parent[q] = p => q = r
    /\ Status(p) \in Retryable \cup {"removed"}
    /\ Job(r) = Job(p) /\ runs[r].attempt = runs[p].attempt + 1

\* An alert is the only one for its run, which failed and has no retry.
Alerted ==
  \A r \in RunIds : alerts[r] > 0 =>
    /\ alerts[r] = 1
    /\ \A q \in RunIds : parent[q] # r
    /\ Status(r) \in Retryable \cup {"removed"}

LinkInv == CoreInv /\ Links /\ Chain /\ Alerted

\* Whatever retry_max a worker compares with, the API wrote it once.
Known(job) == job # NoJob => \E c \in JobConfigs : job.retryMax = c.retryMax
Bounded ==
  /\ \A j \in Jobs : Known(jobs[j])
  /\ \A w \in Workers : Known(worker[w].job) /\ (pc(w) = "retry" => AttemptsLeft(w))
  /\ \A r \in RunIds : runs[r].attempt > 0 => \E c \in JobConfigs : runs[r].attempt <= c.retryMax

\* Between two processes there is no worker.
DownIdle == daemon = "down" => \A w \in Workers : pc(w) = "exited"

IInv == LinkInv /\ Bounded /\ ActiveExact /\ DownIdle

-----------------------------------------------------------------------------
LEMMA InitCore == Init => CoreInv
  BY RunnerAssumption DEF Init, CoreInv, TypeOK, RunRow, WorkerRecord, WorkerShape, RowsMatch,
     ClaimExclusive, Idle, Holds, pc, Job, Status, Owning, After, Pcs, Statuses, Terminal

\* The idle record, and the record of a worker at any of its steps, are typed.
LEMMA WorkerTyped ==
  ASSUME TypeOK, NEW w \in Workers, NEW to \in Pcs
  PROVE  /\ Idle(to) \in WorkerRecord
         /\ \A r \in RunIds : [Idle(to) EXCEPT !.run = r] \in WorkerRecord
         /\ Go(w, to) => worker' \in [Workers -> WorkerRecord]
         /\ \A s \in Terminal : GoWith(w, to, s) => worker' \in [Workers -> WorkerRecord]
         /\ Leave(w) => worker' \in [Workers -> WorkerRecord]
<1>1. \A p \in Pcs : Idle(p) \in WorkerRecord
  BY DEF WorkerRecord, Idle
<1>2. \A r \in RunIds : [Idle(to) EXCEPT !.run = r] \in WorkerRecord
  BY DEF WorkerRecord, Idle
<1>3. Go(w, to) => worker' \in [Workers -> WorkerRecord]
  BY DEF TypeOK, WorkerRecord, Go
<1>4. \A s \in Terminal : GoWith(w, to, s) => worker' \in [Workers -> WorkerRecord]
  <2>1. \A s \in Terminal : [worker[w] EXCEPT !.pc = to, !.res = s] \in WorkerRecord
    BY DEF TypeOK, WorkerRecord
  <2> QED BY <2>1 DEF TypeOK, GoWith
<1>5. Leave(w) => worker' \in [Workers -> WorkerRecord]
  BY <1>1 DEF TypeOK, Leave, Pcs
<1> QED BY <1>1, <1>2, <1>3, <1>4, <1>5

\* Every statement on job_runs keeps the table typed.
LEMMA RowsTyped ==
  ASSUME TypeOK
  PROVE  /\ \A r \in RunIds, s \in Statuses : SetStatus(r, s) => runs' \in [RunIds -> RunRow]
         /\ \A r \in RunIds, j \in Jobs, at \in Nat, a \in Nat :
              CreateQueued(r, j, at, a) => runs' \in [RunIds -> RunRow]
         /\ \A S \in SUBSET RunIds : RemoveRuns(S) => runs' \in [RunIds -> RunRow]
<1>1. \A r \in RunIds, s \in Statuses : SetStatus(r, s) => runs' \in [RunIds -> RunRow]
  <2>1. ASSUME NEW r \in RunIds, NEW s \in Statuses PROVE [runs[r] EXCEPT !.status = s] \in RunRow
    BY <2>1 DEF TypeOK, RunRow
  <2> QED BY <2>1 DEF TypeOK, SetStatus
<1>2. \A r \in RunIds, j \in Jobs, at \in Nat, a \in Nat :
        CreateQueued(r, j, at, a) => runs' \in [RunIds -> RunRow]
  BY DEF TypeOK, RunRow, CreateQueued, Statuses
<1>3. \A S \in SUBSET RunIds : RemoveRuns(S) => runs' \in [RunIds -> RunRow]
  BY DEF TypeOK, RunRow, RemoveRuns, Statuses
<1> QED BY <1>1, <1>2, <1>3

LEMMA TypeStep == ASSUME CoreInv, [Next]_vars PROVE TypeOK'
<1> USE RunnerAssumption DEF CoreInv, proc, db, hist
<1>1. ASSUME NEW w \in Workers, Claim(w) PROVE TypeOK'
  <2>1. PICK r \in NextDue :
          SetStatus(r, "running") /\ worker' = [worker EXCEPT ![w] = [Idle("lookup") EXCEPT !.run = r]]
    BY <1>1 DEF Claim
  <2>2. r \in RunIds /\ "lookup" \in Pcs /\ "running" \in Statuses
    BY DEF NextDue, Pcs, Owning, Statuses
  <2>3. [Idle("lookup") EXCEPT !.run = r] \in WorkerRecord
    BY <2>2, WorkerTyped
  <2>4. worker' \in [Workers -> WorkerRecord] /\ runs' \in [RunIds -> RunRow]
    BY <2>1, <2>2, <2>3, RowsTyped DEF TypeOK
  <2> QED BY <1>1, <2>4 DEF TypeOK, Claim
<1>2. ASSUME NEW w \in Workers, Lookup(w) PROVE TypeOK'
  <2> DEFINE r == worker[w].run
  <2>1. r \in RunIds /\ Job(r) \in Jobs
    BY <1>2 DEF WorkerShape, RowsMatch, Lookup, Holds, Owning
  <2> DEFINE found == [worker[w] EXCEPT !.pc = "activate", !.job = jobs[Job(r)]]
  <2>2. CASE worker' = [worker EXCEPT ![w] = found]
    <3> HIDE DEF r
    <3>1. found \in WorkerRecord
      <4>1. jobs[Job(r)] \in JobRecord \cup {NoJob} /\ worker[w] \in WorkerRecord
        BY <2>1 DEF TypeOK
      <4>2. "activate" \in Pcs
        BY DEF Pcs, Owning
      <4> QED BY <4>1, <4>2 DEF WorkerRecord
    <3>2. worker' \in [Workers -> WorkerRecord]
      BY <2>2, <3>1 DEF TypeOK
    <3> QED BY <1>2, <3>2 DEF TypeOK, Lookup
  <2>3. CASE GoWith(w, "early", "cancelled") \/ GoWith(w, "early", "failed")
    BY <1>2, <2>3, WorkerTyped DEF TypeOK, Lookup, Pcs, Owning, Terminal
  <2> QED BY <1>2, <2>2, <2>3 DEF Lookup
<1>3. ASSUME NEW w \in Workers, MarkActive(w) PROVE TypeOK'
  <2>1. worker[w].run \in RunIds
    BY <1>3 DEF WorkerShape, MarkActive, Holds, Owning
  <2>2. worker' \in [Workers -> WorkerRecord]
    BY <1>3, WorkerTyped DEF MarkActive, Pcs, Owning, Terminal
  <2> QED BY <1>3, <2>1, <2>2 DEF TypeOK, MarkActive
<1>4. ASSUME NEW w \in Workers, FinishEarly(w) PROVE TypeOK'
  <2>1. worker[w].run \in RunIds /\ worker[w].res \in Statuses
    BY <1>4 DEF WorkerShape, FinishEarly, Holds, Owning, Statuses
  <2>2. worker' \in [Workers -> WorkerRecord]
    BY <1>4, WorkerTyped DEF FinishEarly, Pcs
  <2>3. runs' \in [RunIds -> RunRow]
    BY <1>4, <2>1, RowsTyped DEF FinishEarly, MarkFinished, TypeOK
  <2> QED BY <1>4, <2>2, <2>3 DEF TypeOK, FinishEarly
<1>5. ASSUME NEW w \in Workers, Execute(w) PROVE TypeOK'
  <2>1. worker' \in [Workers -> WorkerRecord]
    BY <1>5, WorkerTyped DEF Execute, Outcomes, Pcs, Owning, Terminal
  <2> QED BY <1>5, <2>1 DEF TypeOK, Execute
<1>6. ASSUME NEW w \in Workers, ClearActive(w) PROVE TypeOK'
  <2>1. worker' \in [Workers -> WorkerRecord]
    BY <1>6, WorkerTyped DEF ClearActive, Pcs, Owning
  <2> QED BY <1>6, <2>1 DEF TypeOK, ClearActive, WithoutActive
<1>7. ASSUME NEW w \in Workers, Finish(w) PROVE TypeOK'
  <2>1. worker[w].run \in RunIds /\ worker[w].res \in Statuses
    BY <1>7 DEF WorkerShape, Finish, Holds, Owning, Statuses
  <2>2. worker' \in [Workers -> WorkerRecord]
    BY <1>7, WorkerTyped DEF Finish, Pcs, After
  <2>3. runs' \in [RunIds -> RunRow]
    BY <1>7, <2>1, RowsTyped DEF Finish, MarkFinished, TypeOK
  <2> QED BY <1>7, <2>2, <2>3 DEF TypeOK, Finish
<1>8. ASSUME NEW w \in Workers, Retry(w) PROVE TypeOK'
  <2> DEFINE p == worker[w].run
  <2>1. p \in RunIds /\ Job(p) \in Jobs
    BY <1>8 DEF WorkerShape, RowsMatch, Retry, Holds, After, Retryable
  <2>2. worker' \in [Workers -> WorkerRecord]
    BY <1>8, WorkerTyped DEF Retry, Pcs
  <2>3. NextAttempt(p) \in Nat /\ \A d \in RetryDelays : now + d \in Nat
    BY <2>1 DEF TypeOK, RunRow, NextAttempt
  <2>4. CASE \E r \in RunIds, d \in RetryDelays :
               CreateQueued(r, Job(p), now + d, NextAttempt(p)) /\ parent' = [parent EXCEPT ![r] = p]
    <3>1. runs' \in [RunIds -> RunRow]
      BY <2>1, <2>3, <2>4, RowsTyped
    <3>2. parent' \in [RunIds -> RunIds \cup {NoRun}]
      BY <2>1, <2>4 DEF TypeOK
    <3> QED BY <1>8, <2>2, <3>1, <3>2 DEF TypeOK, Retry
  <2>5. CASE UNCHANGED <<runs, parent>>
    BY <1>8, <2>2, <2>5 DEF TypeOK, Retry
  <2> QED BY <1>8, <2>4, <2>5 DEF Retry
<1>9. ASSUME NEW w \in Workers, LoadForAlert(w) PROVE TypeOK'
  <2>1. worker' \in [Workers -> WorkerRecord]
    BY <1>9, WorkerTyped DEF LoadForAlert, Pcs, After
  <2> QED BY <1>9, <2>1 DEF TypeOK, LoadForAlert
<1>10. ASSUME NEW w \in Workers, Deliver(w) PROVE TypeOK'
  <2>1. worker' \in [Workers -> WorkerRecord]
    BY <1>10, WorkerTyped DEF Deliver, Pcs
  <2>2. alerts' \in [RunIds -> Nat]
    BY <1>10 DEF TypeOK, Deliver
  <2> QED BY <1>10, <2>1, <2>2 DEF TypeOK, Deliver
<1>11. ASSUME NEW w \in Workers, WorkerExit(w) PROVE TypeOK'
  <2>1. worker' \in [Workers -> WorkerRecord]
    BY <1>11, WorkerTyped DEF WorkerExit, Pcs
  <2> QED BY <1>11, <2>1 DEF TypeOK, WorkerExit
<1>12. ASSUME NEW j \in Jobs, NEW r \in RunIds, Enqueue(j, r) PROVE TypeOK'
  <2>1. runs' \in [RunIds -> RunRow]
    BY <1>12, RowsTyped DEF Enqueue, TypeOK
  <2> QED BY <1>12, <2>1 DEF TypeOK, Enqueue
<1>13. ASSUME NEW j \in Jobs, NEW c \in JobConfigs, WriteJob(j, c) PROVE TypeOK'
  BY <1>13 DEF TypeOK, WriteJob
<1>14. ASSUME NEW j \in Jobs, NEW b \in BOOLEAN, SetEnabled(j, b) PROVE TypeOK'
  <2>1. jobs' \in [Jobs -> JobRecord \cup {NoJob}]
    BY <1>14 DEF TypeOK, SetEnabled, JobRecord
  <2> QED BY <1>14, <2>1 DEF TypeOK, SetEnabled
<1>15. ASSUME NEW j \in Jobs, DeleteJob(j) PROVE TypeOK'
  <2>1. runs' \in [RunIds -> RunRow]
    BY <1>15, RowsTyped DEF DeleteJob
  <2> QED BY <1>15, <2>1 DEF TypeOK, DeleteJob
<1>16. ASSUME NEW r \in RunIds, DeleteRun(r) PROVE TypeOK'
  <2>1. runs' \in [RunIds -> RunRow]
    BY <1>16, RowsTyped DEF DeleteRun
  <2> QED BY <1>16, <2>1 DEF TypeOK, DeleteRun
<1>17. ASSUME NEW j \in Jobs, CancelRunningByJob(j) PROVE TypeOK'
  BY <1>17 DEF TypeOK, CancelRunningByJob, Collected
<1>18. ASSUME NEW r \in RunIds, CallCancel(r) PROVE TypeOK'
  <2>1. ASSUME NEW w \in Workers PROVE [worker[w] EXCEPT !.cancelled = TRUE] \in WorkerRecord
    <3>1. worker[w] \in WorkerRecord
      BY DEF TypeOK
    <3> QED BY <3>1 DEF WorkerRecord
  <2>2. worker' \in [Workers -> WorkerRecord]
    BY <1>18, <2>1 DEF TypeOK, CallCancel
  <2> QED BY <1>18, <2>2 DEF TypeOK, CallCancel
<1>19. ASSUME ProcessExit \/ Boot PROVE TypeOK'
  <2>1. worker' \in [Workers -> WorkerRecord]
    BY <1>19, WorkerTyped DEF ProcessExit, Boot, Pcs
  <2> QED BY <1>19, <2>1 DEF TypeOK, ProcessExit, Boot
<1>20. ASSUME Stop \/ Tick \/ UNCHANGED vars PROVE TypeOK'
  BY <1>20 DEF TypeOK, Stop, Tick, vars
<1> QED BY <1>1, <1>2, <1>3, <1>4, <1>5, <1>6, <1>7, <1>8, <1>9, <1>10, <1>11, <1>12, <1>13,
           <1>14, <1>15, <1>16, <1>17, <1>18, <1>19, <1>20 DEF Next, WorkerStep, Handlers

\* What a step of w leaves in its record, field by field, and that it leaves
\* the other workers' records alone.
Same(v) == worker'[v] = worker[v]

LEMMA WorkerFields ==
  ASSUME TypeOK, NEW w \in Workers
  PROVE  /\ \A to : Go(w, to) =>
              /\ worker'[w].pc = to /\ worker'[w].run = worker[w].run
              /\ worker'[w].job = worker[w].job /\ worker'[w].res = worker[w].res
              /\ worker'[w].cancelled = worker[w].cancelled
              /\ \A v \in Workers \ {w} : Same(v)
         /\ \A to, s : GoWith(w, to, s) =>
              /\ worker'[w].pc = to /\ worker'[w].run = worker[w].run
              /\ worker'[w].job = worker[w].job /\ worker'[w].res = s
              /\ worker'[w].cancelled = worker[w].cancelled
              /\ \A v \in Workers \ {w} : Same(v)
         /\ Leave(w) =>
              /\ worker'[w].pc = "poll" /\ worker'[w].run = NoRun
              /\ \A v \in Workers \ {w} : Same(v)
<1>1. worker[w] \in WorkerRecord
  BY DEF TypeOK
<1>2. ASSUME NEW to, NEW s, GoWith(w, to, s)
      PROVE  /\ worker'[w].pc = to /\ worker'[w].run = worker[w].run
             /\ worker'[w].job = worker[w].job /\ worker'[w].res = s
             /\ worker'[w].cancelled = worker[w].cancelled
             /\ \A v \in Workers \ {w} : Same(v)
  BY <1>1, <1>2 DEF TypeOK, WorkerRecord, GoWith, Same
<1>3. ASSUME NEW to, Go(w, to)
      PROVE  /\ worker'[w].pc = to /\ worker'[w].run = worker[w].run
             /\ worker'[w].job = worker[w].job /\ worker'[w].res = worker[w].res
             /\ worker'[w].cancelled = worker[w].cancelled
             /\ \A v \in Workers \ {w} : Same(v)
  BY <1>1, <1>3 DEF TypeOK, WorkerRecord, Go, Same
<1>4. ASSUME Leave(w)
      PROVE  /\ worker'[w].pc = "poll" /\ worker'[w].run = NoRun
             /\ \A v \in Workers \ {w} : Same(v)
  BY <1>4 DEF TypeOK, Leave, Idle, Same
<1> QED BY <1>2, <1>3, <1>4

\* What the statements on job_runs do to the row of each run.
LEMMA RowFields ==
  ASSUME TypeOK, NEW r \in RunIds
  PROVE  /\ \A s : SetStatus(r, s) =>
              /\ runs'[r].status = s
              /\ \A q \in RunIds : /\ q # r => runs'[q].status = runs[q].status
                                   /\ runs'[q].job = runs[q].job
                                   /\ runs'[q].attempt = runs[q].attempt
         /\ \A j, at, a : CreateQueued(r, j, at, a) =>
              /\ runs[r].status = "none" /\ jobs[j] # NoJob
              /\ runs'[r].status = "queued" /\ runs'[r].job = j /\ runs'[r].attempt = a
              /\ \A q \in RunIds \ {r} : runs'[q] = runs[q]
         /\ \A S : RemoveRuns(S) =>
              /\ runs'[r].status = IF r \in S /\ runs[r].status # "none" THEN "removed"
                                   ELSE runs[r].status
              /\ runs'[r].job = runs[r].job /\ runs'[r].attempt = runs[r].attempt
<1>1. \A q \in RunIds : runs[q] \in RunRow
  BY DEF TypeOK
<1> QED BY <1>1 DEF TypeOK, RunRow, SetStatus, CreateQueued, RemoveRuns, Status

LEMMA CoreStep == ASSUME CoreInv, [Next]_vars PROVE CoreInv'
<1> USE RunnerAssumption DEF CoreInv, proc, db, hist, pc, Job, Status, Holds, Owning, After
<1>0. TypeOK'
  BY TypeStep
<1> DEFINE Goal == WorkerShape' /\ RowsMatch' /\ ClaimExclusive'
<1>a. \A w \in Workers : worker[w] \in WorkerRecord
  BY DEF TypeOK
<1>1. ASSUME NEW w \in Workers, Claim(w) PROVE Goal
  <2>1. PICK r \in NextDue :
          SetStatus(r, "running") /\ worker' = [worker EXCEPT ![w] = [Idle("lookup") EXCEPT !.run = r]]
    BY <1>1 DEF Claim
  <2>2. r \in RunIds /\ runs[r].status = "queued"
    BY DEF NextDue, Claimable
  <2>3. /\ worker'[w].pc = "lookup" /\ worker'[w].run = r
        /\ \A v \in Workers \ {w} : Same(v)
    BY <2>1 DEF TypeOK, Idle, Same
  <2>4. \A v \in Workers : Holds(v) => worker[v].run # r
    BY <2>2 DEF RowsMatch, Retryable
  <2>5. WorkerShape' /\ ClaimExclusive'
    BY <2>2, <2>3, <2>4 DEF WorkerShape, ClaimExclusive, Same
  <2>6. RowsMatch'
    BY <2>1, <2>2, <2>3, <2>4, RowFields DEF RowsMatch, WorkerShape, Same
  <2> QED BY <2>5, <2>6
<1>2. ASSUME NEW w \in Workers, Lookup(w) PROVE Goal
  <2>1. /\ worker'[w].run = worker[w].run
        /\ \/ worker'[w].pc = "activate" /\ worker'[w].job # NoJob
           \/ worker'[w].pc = "early" /\ worker'[w].res \in Terminal
        /\ \A v \in Workers \ {w} : Same(v)
    <3>1. CASE worker' = [worker EXCEPT ![w] = [@ EXCEPT !.pc = "activate",
                                                         !.job = jobs[Job(worker[w].run)]]]
               /\ jobs[Job(worker[w].run)] # NoJob
      BY <1>a, <3>1 DEF TypeOK, WorkerRecord, Same
    <3>2. CASE GoWith(w, "early", "cancelled") \/ GoWith(w, "early", "failed")
      BY <3>2, WorkerFields DEF Terminal
    <3>3. \/ /\ worker' = [worker EXCEPT ![w] = [@ EXCEPT !.pc = "activate",
                                                          !.job = jobs[Job(worker[w].run)]]]
             /\ jobs[Job(worker[w].run)] # NoJob
          \/ GoWith(w, "early", "cancelled") \/ GoWith(w, "early", "failed")
      BY <1>2 DEF Lookup
    <3> QED BY <3>1, <3>2, <3>3
  <2>2. pc(w) = "lookup" /\ runs' = runs
    BY <1>2 DEF Lookup
  <2>3. WorkerShape' /\ ClaimExclusive'
    BY <2>1, <2>2 DEF WorkerShape, ClaimExclusive, Same
  <2>4. RowsMatch'
    BY <2>1, <2>2 DEF RowsMatch, Same
  <2> QED BY <2>3, <2>4
<1>3. ASSUME NEW w \in Workers, MarkActive(w) PROVE Goal
  <2>1. /\ worker'[w].run = worker[w].run /\ worker'[w].job = worker[w].job
        /\ worker'[w].pc = "exec" \/ (worker'[w].pc = "early" /\ worker'[w].res \in Terminal)
        /\ \A v \in Workers \ {w} : Same(v)
    <3>1. Go(w, "exec") \/ GoWith(w, "early", "skipped_overlap")
      BY <1>3 DEF MarkActive
    <3> QED BY <3>1, WorkerFields DEF Terminal
  <2>2. pc(w) = "activate" /\ runs' = runs
    BY <1>3 DEF MarkActive
  <2>3. WorkerShape' /\ ClaimExclusive'
    BY <2>1, <2>2 DEF WorkerShape, ClaimExclusive, Same
  <2>4. RowsMatch'
    BY <2>1, <2>2 DEF RowsMatch, Same
  <2> QED BY <2>3, <2>4
<1>4. ASSUME NEW w \in Workers, FinishEarly(w) PROVE Goal
  <2> DEFINE r == worker[w].run
  <2>1. /\ worker'[w].pc = "poll" /\ worker'[w].run = NoRun
        /\ \A v \in Workers \ {w} : Same(v)
    BY <1>4, WorkerFields DEF FinishEarly
  <2>2. r \in RunIds /\ runs[r].status # "none"
    BY <1>4 DEF FinishEarly, WorkerShape, RowsMatch
  <2>3. SetStatus(r, worker[w].res) \/ UNCHANGED runs
    BY <1>4 DEF FinishEarly, MarkFinished
  <2>4. WorkerShape' /\ ClaimExclusive'
    BY <2>1 DEF WorkerShape, ClaimExclusive, Same
  <2>5. CASE SetStatus(r, worker[w].res)
    BY <2>1, <2>2, <2>4, <2>5, <1>4, RowFields DEF RowsMatch, FinishEarly, ClaimExclusive, WorkerShape, Same
  <2>6. CASE UNCHANGED runs
    BY <2>1, <2>4, <2>6, <1>4 DEF RowsMatch, FinishEarly, Same
  <2> QED BY <2>3, <2>5, <2>6
<1>5. ASSUME NEW w \in Workers, Execute(w) PROVE Goal
  <2>1. /\ worker'[w].run = worker[w].run /\ worker'[w].job = worker[w].job
        /\ worker'[w].pc = "clear" /\ worker'[w].res \in Terminal
        /\ \A v \in Workers \ {w} : Same(v)
    BY <1>5, WorkerFields DEF Execute, Outcomes, Terminal
  <2> QED BY <1>5, <2>1 DEF Execute, WorkerShape, RowsMatch, ClaimExclusive, Same
<1>6. ASSUME NEW w \in Workers, ClearActive(w) PROVE Goal
  <2>1. /\ worker'[w].run = worker[w].run /\ worker'[w].job = worker[w].job
        /\ worker'[w].pc = "finish" /\ worker'[w].res = worker[w].res
        /\ \A v \in Workers \ {w} : Same(v)
    BY <1>6, WorkerFields DEF ClearActive
  <2> QED BY <1>6, <2>1 DEF ClearActive, WorkerShape, RowsMatch, ClaimExclusive, Same
<1>7. ASSUME NEW w \in Workers, Finish(w) PROVE Goal
  <2> DEFINE r == worker[w].run
  <2>1. r \in RunIds /\ runs[r].status # "none"
    BY <1>7 DEF Finish, WorkerShape, RowsMatch
  <2>2. \A v \in Workers \ {w} : Same(v)
    BY <1>7, WorkerFields DEF Finish
  <2>3. CASE Leave(w) /\ (UNCHANGED runs \/ SetStatus(r, worker[w].res))
    <3>1. worker'[w].pc = "poll" /\ worker'[w].run = NoRun
      BY <2>3, WorkerFields
    <3>2. WorkerShape' /\ ClaimExclusive'
      BY <2>2, <3>1 DEF WorkerShape, ClaimExclusive, Same
    <3>3. \A v \in Workers \ {w} : Holds(v) => worker[v].run # r
      BY <1>7 DEF Finish, ClaimExclusive
    <3>4. RowsMatch'
      BY <1>7, <2>1, <2>2, <2>3, <3>1, <3>3, RowFields DEF Finish, RowsMatch, WorkerShape, Same
    <3> QED BY <3>2, <3>4
  <2>4. CASE /\ SetStatus(r, worker[w].res) /\ worker[w].res \in Retryable
             /\ Go(w, "retry") \/ Go(w, "notify")
    <3>1. /\ worker'[w].pc \in After /\ worker'[w].run = r
          /\ worker'[w].res = worker[w].res /\ worker'[w].job = worker[w].job
      BY <2>4, WorkerFields
    <3>2. WorkerShape' /\ ClaimExclusive'
      BY <1>7, <2>2, <2>4, <3>1 DEF Finish, WorkerShape, ClaimExclusive, Same
    <3>3. \A v \in Workers \ {w} : Holds(v) => worker[v].run # r
      BY <1>7 DEF Finish, ClaimExclusive
    <3>4. RowsMatch'
      BY <1>7, <2>1, <2>2, <2>4, <3>1, <3>3, RowFields DEF Finish, RowsMatch, WorkerShape, Same
    <3> QED BY <3>2, <3>4
  <2> QED BY <1>7, <2>3, <2>4 DEF Finish, MarkFinished, ShouldRetry
<1>8. ASSUME NEW w \in Workers, Retry(w) PROVE Goal
  <2> DEFINE p == worker[w].run
  <2>1. /\ worker'[w].pc = "poll" /\ worker'[w].run = NoRun
        /\ \A v \in Workers \ {w} : Same(v)
    BY <1>8, WorkerFields DEF Retry
  <2>2. WorkerShape' /\ ClaimExclusive'
    BY <2>1 DEF WorkerShape, ClaimExclusive, Same
  <2>3. Job(p) \in Jobs
    BY <1>8 DEF Retry, WorkerShape, RowsMatch, Retryable
  <2>4. ASSUME NEW r \in RunIds, NEW d \in RetryDelays,
               CreateQueued(r, Job(p), now + d, NextAttempt(p))
        PROVE  RowsMatch'
    <3>1. /\ runs[r].status = "none" /\ runs'[r].status = "queued" /\ runs'[r].job = Job(p)
          /\ \A q \in RunIds \ {r} : runs'[q] = runs[q]
      BY <2>4, RowFields
    <3> QED BY <2>1, <2>3, <3>1 DEF RowsMatch, WorkerShape, Retryable, Same
  <2>5. CASE UNCHANGED runs
    BY <2>1, <2>2, <2>5, <1>8 DEF RowsMatch, Retry, Same
  <2> QED BY <1>8, <2>2, <2>4, <2>5 DEF Retry
<1>9. ASSUME NEW w \in Workers, LoadForAlert(w) PROVE Goal
  <2>1. /\ \/ /\ worker'[w].pc = "deliver" /\ worker'[w].run = worker[w].run
              /\ worker'[w].res = worker[w].res /\ worker'[w].job = worker[w].job
           \/ worker'[w].pc = "poll" /\ worker'[w].run = NoRun
        /\ \A v \in Workers \ {w} : Same(v)
    BY <1>9, WorkerFields DEF LoadForAlert
  <2> QED BY <1>9, <2>1 DEF LoadForAlert, WorkerShape, RowsMatch, ClaimExclusive, Same
<1>10. ASSUME NEW w \in Workers, Deliver(w) \/ WorkerExit(w) PROVE Goal
  <2>1. /\ worker'[w].pc \in {"poll", "exited"} /\ worker'[w].run \notin RunIds
        /\ \A v \in Workers \ {w} : Same(v)
    BY <1>10, WorkerFields DEF Deliver, WorkerExit, WorkerShape
  <2> QED BY <1>10, <2>1 DEF Deliver, WorkerExit, WorkerShape, RowsMatch, ClaimExclusive, Same
<1>11. ASSUME NEW j \in Jobs, NEW r \in RunIds, Enqueue(j, r) PROVE Goal
  BY <1>0, <1>11 DEF Enqueue, CreateQueued,
     WorkerShape, RowsMatch, ClaimExclusive, TypeOK, RunRow, WorkerRecord, Retryable, Terminal, Statuses, Idle
<1>12. ASSUME NEW j \in Jobs, NEW c \in JobConfigs, WriteJob(j, c) PROVE Goal
  BY <1>0, <1>12 DEF WriteJob,
     WorkerShape, RowsMatch, ClaimExclusive, TypeOK, RunRow, WorkerRecord, Retryable, Terminal, Statuses, Idle
<1>13. ASSUME NEW j \in Jobs, NEW b \in BOOLEAN, SetEnabled(j, b) PROVE Goal
  BY <1>0, <1>13 DEF SetEnabled,
     WorkerShape, RowsMatch, ClaimExclusive, TypeOK, RunRow, WorkerRecord, Retryable, Terminal, Statuses, Idle
<1>14. ASSUME NEW j \in Jobs, DeleteJob(j) PROVE Goal
  BY <1>0, <1>14 DEF DeleteJob, RemoveRuns,
     WorkerShape, RowsMatch, ClaimExclusive, TypeOK, RunRow, WorkerRecord, Retryable, Terminal, Statuses, Idle
<1>15. ASSUME NEW r \in RunIds, DeleteRun(r) PROVE Goal
  BY <1>0, <1>15 DEF DeleteRun, RemoveRuns,
     WorkerShape, RowsMatch, ClaimExclusive, TypeOK, RunRow, WorkerRecord, Retryable, Terminal, Statuses, Idle
<1>16. ASSUME NEW j \in Jobs, CancelRunningByJob(j) PROVE Goal
  BY <1>0, <1>16 DEF CancelRunningByJob,
     WorkerShape, RowsMatch, ClaimExclusive, TypeOK, RunRow, WorkerRecord, Retryable, Terminal, Statuses, Idle
<1>17. ASSUME NEW r \in RunIds, CallCancel(r) PROVE Goal
  BY <1>0, <1>17 DEF CallCancel,
     WorkerShape, RowsMatch, ClaimExclusive, TypeOK, RunRow, WorkerRecord, Retryable, Terminal, Statuses, Idle
<1>18. ASSUME ProcessExit \/ Boot PROVE Goal
  BY <1>0, <1>18 DEF ProcessExit, Boot,
     WorkerShape, RowsMatch, ClaimExclusive, TypeOK, RunRow, WorkerRecord, Retryable, Terminal, Statuses, Idle
<1>19. ASSUME Stop \/ Tick \/ UNCHANGED vars PROVE Goal
  BY <1>0, <1>19 DEF Stop, Tick, vars,
     WorkerShape, RowsMatch, ClaimExclusive, TypeOK, RunRow, WorkerRecord, Retryable, Terminal, Statuses, Idle
<1> QED BY <1>0, <1>1, <1>2, <1>3, <1>4, <1>5, <1>6, <1>7, <1>8, <1>9, <1>10, <1>11, <1>12, <1>13, <1>14, <1>15, <1>16, <1>17, <1>18, <1>19 DEF Next, WorkerStep, Handlers

-----------------------------------------------------------------------------
(* What one step does to a row and to what a worker holds *)

\* A row keeps its job and attempt, and moves only forward.
RowMoves(r) ==
  /\ Status(r) # "none" => /\ Job(r)' = Job(r) /\ runs'[r].attempt = runs[r].attempt
                           /\ Status(r)' # "none"
  /\ Status(r)' \in {"none", "queued"} => Status(r) \in {"none", "queued"}
  /\ Status(r) \in Terminal => Status(r)' \in {Status(r), "removed"}
  /\ Status(r) = "removed" => Status(r)' = "removed"

LEMMA RowStep == ASSUME CoreInv, [Next]_vars, NEW r \in RunIds PROVE RowMoves(r)
<1> USE DEF CoreInv, proc, db, hist
<1>1. ASSUME UNCHANGED runs PROVE RowMoves(r)
  BY <1>1 DEF RowMoves, Job, Status, Terminal
<1>2. ASSUME NEW q \in RunIds, NEW s, SetStatus(q, s),
             \/ s = "running" /\ Status(q) = "queued"
             \/ s \in Terminal /\ Status(q) = "running"
      PROVE RowMoves(r)
  BY <1>2, RowFields DEF RowMoves, Job, Status, Terminal
<1>3. ASSUME NEW q \in RunIds, NEW j, NEW at, NEW a, CreateQueued(q, j, at, a) PROVE RowMoves(r)
  BY <1>3, RowFields DEF RowMoves, Job, Status, Terminal
<1>4. ASSUME NEW S, RemoveRuns(S) PROVE RowMoves(r)
  BY <1>4, RowFields DEF RowMoves, Job, Status, Terminal
<1>5. ASSUME NEW w \in Workers, WorkerStep(w) PROVE RowMoves(r)
  <2>1. CASE Claim(w)
    BY <1>2, <2>1 DEF Claim, NextDue, Claimable
  <2>2. CASE FinishEarly(w) \/ Finish(w)
    <3> DEFINE q == worker[w].run
    <3>1. /\ q \in RunIds /\ Status(q) \in {"running", "removed"}
          /\ worker[w].res \in Terminal
      BY <2>2 DEF FinishEarly, Finish, WorkerShape, RowsMatch, Holds, Owning, pc
    <3>2. CASE MarkFinished(q, worker[w].res)
      BY <1>2, <3>1, <3>2 DEF MarkFinished, Matches
    <3> QED BY <1>1, <2>2, <3>2 DEF FinishEarly, Finish
  <2>3. CASE Retry(w)
    BY <1>1, <1>3, <2>3 DEF Retry
  <2>4. CASE \/ Lookup(w) \/ MarkActive(w) \/ Execute(w) \/ ClearActive(w)
             \/ LoadForAlert(w) \/ Deliver(w) \/ WorkerExit(w)
    BY <1>1, <2>4 DEF Lookup, MarkActive, Execute, ClearActive, LoadForAlert, Deliver, WorkerExit
  <2> QED BY <1>5, <2>1, <2>2, <2>3, <2>4 DEF WorkerStep
<1>6. ASSUME Handlers PROVE RowMoves(r)
  BY <1>1, <1>3, <1>4, <1>6 DEF Handlers, Enqueue, WriteJob, SetEnabled, DeleteJob, DeleteRun,
     CancelRunningByJob, CallCancel
<1> QED BY <1>1, <1>5, <1>6 DEF Next, Stop, ProcessExit, Boot, Tick, vars

\* A worker goes on with the run it holds, or starts with one nobody held.
HoldMoves(w) ==
  Holds(w)' => \/ Holds(w) /\ worker'[w].run = worker[w].run
               \/ worker'[w].run \in RunIds /\ Status(worker'[w].run) = "queued"

LEMMA HoldStep == ASSUME CoreInv, [Next]_vars, NEW v \in Workers PROVE HoldMoves(v)
<1> USE DEF CoreInv, proc, db, hist
<1>1. ASSUME Same(v) PROVE HoldMoves(v)
  BY <1>1 DEF HoldMoves, Same, Holds, pc
<1>2. ASSUME worker'[v].pc \in {"poll", "exited"} PROVE HoldMoves(v)
  BY <1>2 DEF HoldMoves, Holds, pc, Owning, After
<1>3. ASSUME Holds(v), worker'[v].run = worker[v].run PROVE HoldMoves(v)
  BY <1>3 DEF HoldMoves
<1>4. ASSUME NEW w \in Workers, WorkerStep(w) PROVE HoldMoves(v)
  <2>1. CASE Claim(w)
    <3>1. PICK r \in NextDue : worker' = [worker EXCEPT ![w] = [Idle("lookup") EXCEPT !.run = r]]
      BY <2>1 DEF Claim
    <3>2. r \in RunIds /\ Status(r) = "queued"
      BY DEF NextDue, Claimable
    <3>3. worker'[w].run = r /\ (v # w => Same(v))
      BY <3>1 DEF TypeOK, Idle, Same
    <3> QED BY <1>1, <3>2, <3>3 DEF HoldMoves
  <2>2. CASE Lookup(w)
    <3>1. Holds(w)
      BY <2>2 DEF Lookup, Holds, Owning
    <3>2. worker'[w].run = worker[w].run /\ (v # w => Same(v))
      <4>1. CASE GoWith(w, "early", "cancelled") \/ GoWith(w, "early", "failed")
        BY <4>1, WorkerFields
      <4>2. CASE worker' = [worker EXCEPT ![w] = [@ EXCEPT !.pc = "activate",
                                                           !.job = jobs[Job(worker[w].run)]]]
        BY <4>2 DEF TypeOK, WorkerRecord, Same
      <4> QED BY <2>2, <4>1, <4>2 DEF Lookup
    <3> QED BY <1>1, <1>3, <3>1, <3>2
  <2>3. CASE MarkActive(w) \/ Execute(w) \/ ClearActive(w) \/ Finish(w) \/ LoadForAlert(w)
    <3>1. Holds(w)
      BY <2>3 DEF MarkActive, Execute, ClearActive, Finish, LoadForAlert, Holds, Owning, After
    <3>2. Leave(w) \/ (\E to : Go(w, to)) \/ (\E to, s : GoWith(w, to, s))
      BY <2>3 DEF MarkActive, Execute, ClearActive, Finish, LoadForAlert
    <3>3. /\ worker'[w].run = worker[w].run \/ worker'[w].pc = "poll"
          /\ v # w => Same(v)
      BY <3>2, WorkerFields
    <3> QED BY <1>1, <1>2, <1>3, <3>1, <3>3
  <2>4. CASE FinishEarly(w) \/ Retry(w) \/ Deliver(w) \/ WorkerExit(w)
    <3>1. Leave(w) \/ Go(w, "exited")
      BY <2>4 DEF FinishEarly, Retry, Deliver, WorkerExit
    <3>2. worker'[w].pc \in {"poll", "exited"} /\ (v # w => Same(v))
      BY <3>1, WorkerFields
    <3> QED BY <1>1, <1>2, <3>2
  <2> QED BY <1>4, <2>1, <2>2, <2>3, <2>4 DEF WorkerStep
<1>5. ASSUME UNCHANGED worker PROVE HoldMoves(v)
  BY <1>1, <1>5 DEF Same
<1>6. ASSUME NEW r \in RunIds, CallCancel(r) PROVE HoldMoves(v)
  <2>1. worker[v] \in WorkerRecord
    BY DEF TypeOK
  <2>2. worker'[v].run = worker[v].run /\ worker'[v].pc = worker[v].pc
    BY <1>6, <2>1 DEF CallCancel, WorkerRecord
  <2> QED BY <2>2 DEF HoldMoves, Holds, pc
<1>7. ASSUME ProcessExit \/ Boot PROVE HoldMoves(v)
  BY <1>2, <1>7 DEF ProcessExit, Boot, Idle
<1>8. ASSUME Handlers PROVE HoldMoves(v)
  BY <1>5, <1>6, <1>8 DEF Handlers, Enqueue, WriteJob, SetEnabled, DeleteJob, DeleteRun,
     CancelRunningByJob
<1> QED BY <1>4, <1>5, <1>7, <1>8 DEF Next, Stop, Tick, vars

-----------------------------------------------------------------------------
(* Retries and alerts *)

LEMMA InitLinks == Init => Links /\ Chain /\ Alerted
  BY RunnerAssumption DEF Init, Links, Unlinked, Chain, Alerted, Holds, Idle, pc, Owning, After

\* A step that creates no retry and sends no alert cannot break a link.
LEMMA LinksKept ==
  ASSUME LinkInv, [Next]_vars, UNCHANGED <<parent, alerts>>
  PROVE  Links' /\ Chain' /\ Alerted'
<1> USE DEF LinkInv
<1>1. \A r \in RunIds : RowMoves(r)
  BY RowStep
<1>2. \A w \in Workers : HoldMoves(w)
  BY HoldStep
<1>3. \A r \in RunIds : Unlinked(r) <=> Unlinked(r)'
  BY DEF Unlinked
<1>4. Links'
  <2>1. \A r \in RunIds : Status(r)' \in {"none", "queued"} => Unlinked(r)'
    BY <1>1, <1>3 DEF Links, RowMoves
  <2>2. \A r \in RunIds : Status(r)' = "none" => parent'[r] = NoRun
    BY <1>1 DEF Links, RowMoves
  <2>3. \A w \in Workers : Holds(w) => worker[w].run \in RunIds
    BY DEF CoreInv, WorkerShape
  <2>4. \A w \in Workers : Holds(w)' => Unlinked(worker[w].run)'
    BY <1>2, <1>3, <2>3 DEF Links, HoldMoves
  <2> QED BY <2>1, <2>2, <2>4 DEF Links
<1>5. \A r \in RunIds : Status(r) \in Retryable \cup {"removed"} => Status(r)' \in Retryable \cup {"removed"}
  BY <1>1 DEF RowMoves, Retryable, Terminal
<1>6. Chain'
  <2>1. \A p, r \in RunIds : parent[r] = p => Status(p) # "none" /\ Status(r) # "none"
    BY RunnerAssumption DEF Chain, Links, Retryable
  <2> QED BY <1>1, <1>5, <2>1 DEF Chain, RowMoves, Job
<1>7. Alerted'
  BY <1>5 DEF Alerted
<1> QED BY <1>4, <1>6, <1>7

LEMMA RetryLinks ==
  ASSUME LinkInv, [Next]_vars, NEW w \in Workers, Retry(w)
  PROVE  Links' /\ Chain' /\ Alerted'
<1> DEFINE p == worker[w].run
<1> USE DEF LinkInv, proc, db, hist
<1>1. CASE UNCHANGED <<runs, parent>>
  BY <1>1, LinksKept DEF Retry
<1>2. ASSUME NEW r \in RunIds, NEW d \in RetryDelays,
             CreateQueued(r, Job(p), now + d, NextAttempt(p)),
             parent' = [parent EXCEPT ![r] = p]
      PROVE  Links' /\ Chain' /\ Alerted'
  <2>1. /\ Status(r) = "none" /\ Status(r)' = "queued" /\ Job(r)' = Job(p)
        /\ runs'[r].attempt = runs[p].attempt + 1
        /\ \A q \in RunIds \ {r} : runs'[q] = runs[q]
    BY <1>2, RowFields DEF CoreInv, Status, Job, NextAttempt
  <2>2. /\ p \in RunIds /\ Status(p) \in Retryable \cup {"removed"} /\ Unlinked(p) /\ p # r
    BY <2>1 DEF Retry, CoreInv, WorkerShape, RowsMatch, Links, Holds, After, Retryable
  <2>3. /\ parent'[r] = p /\ \A q \in RunIds \ {r} : parent'[q] = parent[q]
    BY <1>2 DEF CoreInv, TypeOK
  <2>4. Unlinked(r) /\ parent[r] = NoRun /\ UNCHANGED alerts
    BY <2>1 DEF Links, Retry
  <2>5. /\ worker'[w].pc = "poll" /\ \A v \in Workers \ {w} : Same(v)
    BY WorkerFields DEF Retry, CoreInv
  <2>6. \A q \in RunIds : q # p /\ Unlinked(q) => Unlinked(q)'
    BY <2>3, <2>4 DEF Unlinked
  <2>7. Links'
    <3>1. \A q \in RunIds : Status(q)' \in {"none", "queued"} => Unlinked(q)'
      BY <2>1, <2>2, <2>4, <2>6 DEF Links, Status, Retryable
    <3>2. \A q \in RunIds : Status(q)' = "none" => parent'[q] = NoRun
      BY <2>1, <2>3 DEF Links, Status
    <3>3. \A v \in Workers : Holds(v)' => Unlinked(worker[v].run)'
      <4> SUFFICES ASSUME NEW v \in Workers, Holds(v)' PROVE Unlinked(worker[v].run)'
        OBVIOUS
      <4>1. v # w
        BY <2>5 DEF Holds, pc, Owning, After
      <4>2. Holds(v) /\ worker'[v].run = worker[v].run
        BY <2>5, <4>1 DEF Same, Holds, pc
      <4>3. worker[v].run \in RunIds /\ worker[v].run # p
        BY <4>1, <4>2 DEF CoreInv, WorkerShape, ClaimExclusive, Retry, Holds, After
      <4> QED BY <2>6, <4>2, <4>3 DEF Links, Unlinked
    <3> QED BY <3>1, <3>2, <3>3 DEF Links
  <2>8. Chain'
    <3> SUFFICES ASSUME NEW a \in RunIds, NEW b \in RunIds, parent'[b] = a
                 PROVE  /\ \A q \in RunIds : parent'[q] = a => q = b
                        /\ Status(a)' \in Retryable \cup {"removed"}
                        /\ Job(b)' = Job(a)' /\ runs'[b].attempt = runs'[a].attempt + 1
      BY DEF Chain
    <3>1. CASE b = r
      <4>1. a = p /\ runs'[p] = runs[p]
        BY <2>1, <2>2, <2>3, <3>1
      <4> QED BY <2>1, <2>2, <2>3, <3>1, <4>1 DEF Unlinked, Status, Job
    <3>2. CASE b # r
      <4>1. parent[b] = a /\ a # p /\ a # r
        BY <2>2, <2>3, <2>4, <3>2 DEF Unlinked
      <4> QED BY <2>1, <2>3, <3>2, <4>1 DEF Chain, Status, Job
    <3> QED BY <3>1, <3>2
  <2>9. Alerted'
    <3> SUFFICES ASSUME NEW a \in RunIds, alerts'[a] > 0
                 PROVE  /\ alerts'[a] = 1
                        /\ \A q \in RunIds : parent'[q] # a
                        /\ Status(a)' \in Retryable \cup {"removed"}
      BY DEF Alerted
    <3>1. a # p /\ a # r
      BY <2>2, <2>4 DEF Unlinked
    <3> QED BY <2>1, <2>3, <2>4, <3>1 DEF Alerted, Status
  <2> QED BY <2>7, <2>8, <2>9
<1> QED BY <1>1, <1>2 DEF Retry

LEMMA DeliverLinks ==
  ASSUME LinkInv, [Next]_vars, NEW w \in Workers, Deliver(w)
  PROVE  Links' /\ Chain' /\ Alerted'
<1> DEFINE r == worker[w].run
<1> USE DEF LinkInv, proc, db, hist
<1>1. CASE UNCHANGED alerts
  BY <1>1, LinksKept DEF Deliver
<1>2. CASE alerts' = [alerts EXCEPT ![r] = @ + 1]
  <2>1. UNCHANGED <<runs, parent>>
    BY DEF Deliver
  <2>2. r \in RunIds /\ Status(r) \in Retryable \cup {"removed"} /\ Unlinked(r)
    BY DEF Deliver, CoreInv, WorkerShape, RowsMatch, Links, Holds, After
  <2>3. alerts'[r] = 1 /\ \A q \in RunIds \ {r} : alerts'[q] = alerts[q]
    BY <1>2, <2>2 DEF CoreInv, TypeOK, Unlinked
  <2>4. worker'[w].pc = "poll" /\ \A v \in Workers \ {w} : Same(v)
    BY WorkerFields DEF Deliver, CoreInv
  <2>5. \A q \in RunIds : q # r /\ Unlinked(q) => Unlinked(q)'
    BY <2>1, <2>3 DEF Unlinked
  <2>6. Links'
    <3>1. \A q \in RunIds : Status(q)' \in {"none", "queued"} => Unlinked(q)'
      BY <2>1, <2>2, <2>5 DEF Links, Status, Retryable
    <3>2. \A v \in Workers : Holds(v)' => Unlinked(worker[v].run)'
      <4> SUFFICES ASSUME NEW v \in Workers, Holds(v)' PROVE Unlinked(worker[v].run)'
        OBVIOUS
      <4>1. v # w
        BY <2>4 DEF Holds, pc, Owning, After
      <4>2. Holds(v) /\ worker'[v].run = worker[v].run
        BY <2>4, <4>1 DEF Same, Holds, pc
      <4>3. worker[v].run \in RunIds /\ worker[v].run # r
        BY <4>1, <4>2 DEF CoreInv, WorkerShape, ClaimExclusive, Deliver, Holds, After
      <4> QED BY <2>5, <4>2, <4>3 DEF Links, Unlinked
    <3> QED BY <2>1, <3>1, <3>2 DEF Links, Status
  <2>7. Chain'
    BY <2>1 DEF Chain, Status, Job
  <2>8. Alerted'
    BY <2>1, <2>2, <2>3 DEF Alerted, Unlinked, Status
  <2> QED BY <2>6, <2>7, <2>8
<1> QED BY <1>1, <1>2 DEF Deliver

LEMMA LinkStep == ASSUME LinkInv, [Next]_vars PROVE LinkInv'
<1>1. CoreInv'
  BY CoreStep DEF LinkInv
<1>2. ASSUME NEW w \in Workers, WorkerStep(w) PROVE Links' /\ Chain' /\ Alerted'
  <2>1. CASE Retry(w)
    BY <2>1, RetryLinks
  <2>2. CASE Deliver(w)
    BY <2>2, DeliverLinks
  <2>3. CASE UNCHANGED <<parent, alerts>>
    BY <2>3, LinksKept
  <2> QED BY <1>2, <2>1, <2>2, <2>3 DEF WorkerStep, Claim, Lookup, MarkActive, FinishEarly, Execute,
          ClearActive, Finish, LoadForAlert, WorkerExit, hist
<1>3. ASSUME Handlers PROVE UNCHANGED <<parent, alerts>>
  BY <1>3 DEF Handlers, Enqueue, WriteJob, SetEnabled, DeleteJob, DeleteRun, CancelRunningByJob,
     CallCancel, hist
<1>4. Links' /\ Chain' /\ Alerted'
  BY <1>2, <1>3, LinksKept DEF Next, Stop, ProcessExit, Boot, Tick, vars, hist
<1> QED BY <1>1, <1>4 DEF LinkInv

-----------------------------------------------------------------------------
(* The bound on attempts *)

\* What a step of w does to its copy of the job and to the copies of others.
LEMMA JobCopy ==
  ASSUME CoreInv, [Next]_vars, NEW v \in Workers
  PROVE  /\ \/ worker'[v].job = worker[v].job
            \/ worker'[v].job = NoJob
            \/ \E j \in Jobs : worker'[v].job = jobs[j]
         /\ \/ worker'[v].pc # "retry"
            \/ worker'[v].pc = worker[v].pc /\ worker'[v].run = worker[v].run
               /\ worker'[v].job = worker[v].job
            \/ /\ AttemptsLeft(v) /\ worker'[v].run = worker[v].run /\ Holds(v)
               /\ worker'[v].job = worker[v].job
<1> USE DEF CoreInv, proc, db, hist
<1> DEFINE Goal == /\ \/ worker'[v].job = worker[v].job
                      \/ worker'[v].job = NoJob
                      \/ \E j \in Jobs : worker'[v].job = jobs[j]
                   /\ \/ worker'[v].pc # "retry"
                      \/ worker'[v].pc = worker[v].pc /\ worker'[v].run = worker[v].run
                         /\ worker'[v].job = worker[v].job
                      \/ /\ AttemptsLeft(v) /\ worker'[v].run = worker[v].run /\ Holds(v)
                         /\ worker'[v].job = worker[v].job
<1>1. ASSUME Same(v) PROVE Goal
  BY <1>1 DEF Same
<1>2. ASSUME NEW at \in {"poll", "exited", "lookup"}, worker'[v].pc = at, worker'[v].job = NoJob PROVE Goal
  BY <1>2
<1>3. ASSUME NEW w \in Workers, WorkerStep(w) PROVE Goal
  <2>1. CASE Claim(w)
    <3>1. PICK r \in NextDue : worker' = [worker EXCEPT ![w] = [Idle("lookup") EXCEPT !.run = r]]
      BY <2>1 DEF Claim
    <3> QED BY <1>1, <3>1 DEF TypeOK, Idle, Same
  <2>2. CASE Lookup(w)
    <3>1. Job(worker[w].run) \in Jobs
      BY <2>2 DEF Lookup, WorkerShape, RowsMatch, Holds, Owning, pc
    <3>2. CASE GoWith(w, "early", "cancelled") \/ GoWith(w, "early", "failed")
      BY <1>1, <3>2, WorkerFields
    <3>3. CASE worker' = [worker EXCEPT ![w] = [@ EXCEPT !.pc = "activate",
                                                         !.job = jobs[Job(worker[w].run)]]]
      BY <1>1, <3>1, <3>3 DEF TypeOK, WorkerRecord, Same
    <3> QED BY <2>2, <3>2, <3>3 DEF Lookup
  <2>3. CASE Finish(w)
    <3>1. \/ Leave(w)
          \/ Go(w, "retry") /\ AttemptsLeft(w)
          \/ Go(w, "notify")
      BY <2>3 DEF Finish
    <3>2. Holds(w)
      BY <2>3 DEF Finish, Holds, Owning
    <3>3. CASE Leave(w)
      BY <1>1, <3>3 DEF TypeOK, Leave, Idle, Same
    <3>4. CASE Go(w, "retry") /\ AttemptsLeft(w)
      BY <1>1, <3>2, <3>4, WorkerFields
    <3>5. CASE Go(w, "notify")
      BY <1>1, <3>5, WorkerFields
    <3> QED BY <3>1, <3>3, <3>4, <3>5
  <2>4. CASE MarkActive(w) \/ Execute(w) \/ ClearActive(w) \/ LoadForAlert(w) \/ FinishEarly(w)
             \/ Retry(w) \/ Deliver(w) \/ WorkerExit(w)
    <3>1. \/ Leave(w)
          \/ \E to \in {"exec", "finish", "deliver", "exited"} : Go(w, to)
          \/ \E to \in {"early", "clear"}, s \in Terminal : GoWith(w, to, s)
      BY <2>4 DEF MarkActive, Execute, ClearActive, LoadForAlert, FinishEarly, Retry, Deliver,
         WorkerExit, Outcomes, Terminal
    <3>2. CASE Leave(w)
      BY <1>1, <3>2 DEF TypeOK, Leave, Idle, Same
    <3>3. CASE \E to \in {"exec", "finish", "deliver", "exited"} : Go(w, to)
      BY <1>1, <3>3, WorkerFields
    <3>4. CASE \E to \in {"early", "clear"}, s \in Terminal : GoWith(w, to, s)
      BY <1>1, <3>4, WorkerFields
    <3> QED BY <3>1, <3>2, <3>3, <3>4
  <2> QED BY <1>3, <2>1, <2>2, <2>3, <2>4 DEF WorkerStep
<1>4. ASSUME NEW r \in RunIds, CallCancel(r) PROVE Goal
  <2>1. worker[v] \in WorkerRecord
    BY DEF TypeOK
  <2>2. /\ worker'[v].run = worker[v].run /\ worker'[v].pc = worker[v].pc
        /\ worker'[v].job = worker[v].job
    BY <1>4, <2>1 DEF CallCancel, WorkerRecord
  <2> QED BY <2>2
<1>5. ASSUME UNCHANGED worker PROVE Goal
  BY <1>1, <1>5 DEF Same
<1>6. ASSUME ProcessExit \/ Boot PROVE Goal
  BY <1>6 DEF ProcessExit, Boot, Idle
<1>7. ASSUME Handlers PROVE Goal
  BY <1>4, <1>5, <1>7 DEF Handlers, Enqueue, WriteJob, SetEnabled, DeleteJob, DeleteRun,
     CancelRunningByJob
<1> QED BY <1>3, <1>5, <1>6, <1>7 DEF Next, Stop, Tick, vars

LEMMA BoundStep == ASSUME CoreInv, Bounded, [Next]_vars PROVE Bounded'
<1> USE RunnerAssumption DEF proc, db, hist
<1>1. \A j \in Jobs : Known(jobs'[j])
  <2>1. ASSUME NEW j \in Jobs, NEW c \in JobConfigs, WriteJob(j, c) PROVE \A i \in Jobs : Known(jobs'[i])
    BY <2>1 DEF Bounded, Known, WriteJob, CoreInv, TypeOK
  <2>2. ASSUME NEW j \in Jobs, NEW b \in BOOLEAN, SetEnabled(j, b) PROVE \A i \in Jobs : Known(jobs'[i])
    <3>1. jobs[j] \in JobRecord
      BY <2>2 DEF SetEnabled, CoreInv, TypeOK
    <3>2. jobs'[j].retryMax = jobs[j].retryMax /\ \A i \in Jobs \ {j} : jobs'[i] = jobs[i]
      BY <2>2, <3>1 DEF SetEnabled, CoreInv, TypeOK, JobRecord
    <3> QED BY <2>2, <3>2 DEF SetEnabled, Bounded, Known
  <2>3. ASSUME NEW j \in Jobs, DeleteJob(j) PROVE \A i \in Jobs : Known(jobs'[i])
    BY <2>3 DEF Bounded, Known, DeleteJob, CoreInv, TypeOK
  <2>4. ASSUME UNCHANGED jobs PROVE \A i \in Jobs : Known(jobs'[i])
    BY <2>4 DEF Bounded
  <2>5. ASSUME NEW w \in Workers, WorkerStep(w) PROVE UNCHANGED jobs
    BY <2>5 DEF WorkerStep, Claim, Lookup, MarkActive, FinishEarly, Execute, ClearActive, Finish,
       Retry, LoadForAlert, Deliver, WorkerExit
  <2> QED BY <2>1, <2>2, <2>3, <2>4, <2>5 DEF Next, Handlers, Enqueue, DeleteRun,
          CancelRunningByJob, CallCancel, Stop, ProcessExit, Boot, Tick, vars
<1>2. \A w \in Workers : Known(worker'[w].job)
  BY JobCopy DEF Bounded, Known
<1>3. \A w \in Workers : worker'[w].pc = "retry" => AttemptsLeft(w)'
  <2> SUFFICES ASSUME NEW w \in Workers, worker'[w].pc = "retry" PROVE AttemptsLeft(w)'
    OBVIOUS
  <2>1. /\ AttemptsLeft(w) /\ Holds(w) /\ worker'[w].run = worker[w].run
        /\ worker'[w].job = worker[w].job
    BY JobCopy DEF Bounded, pc, Holds, After
  <2>2. worker[w].run \in RunIds /\ Status(worker[w].run) # "none"
    BY <2>1 DEF CoreInv, WorkerShape, RowsMatch, Holds, Retryable
  <2>3. runs'[worker[w].run].attempt = runs[worker[w].run].attempt
    BY <2>2, RowStep DEF RowMoves
  <2> QED BY <2>1, <2>3 DEF AttemptsLeft
<1>4. \A r \in RunIds : runs'[r].attempt > 0 => \E c \in JobConfigs : runs'[r].attempt <= c.retryMax
  <2> SUFFICES ASSUME NEW r \in RunIds, runs'[r].attempt > 0
               PROVE  \E c \in JobConfigs : runs'[r].attempt <= c.retryMax
    OBVIOUS
  <2>1. CASE runs'[r].attempt = runs[r].attempt
    BY <2>1 DEF Bounded
  <2>2. CASE \E w \in Workers : Retry(w) /\ runs'[r].attempt # runs[r].attempt
    <3>1. PICK w \in Workers : Retry(w) /\ runs'[r].attempt # runs[r].attempt
      BY <2>2
    <3> DEFINE p == worker[w].run
    <3>2. PICK q \in RunIds, d \in RetryDelays : CreateQueued(q, Job(p), now + d, NextAttempt(p))
      BY <3>1 DEF Retry
    <3>3. runs'[r].attempt = runs[p].attempt + 1
      BY <3>1, <3>2, RowFields DEF CoreInv, NextAttempt
    <3>4. AttemptsLeft(w) /\ worker[w].job # NoJob /\ p \in RunIds
      BY <3>1 DEF Retry, Bounded, CoreInv, WorkerShape, After, Holds
    <3>5. PICK c \in JobConfigs : worker[w].job.retryMax = c.retryMax
      BY <3>4 DEF Bounded, Known
    <3>6. runs[p].attempt \in Nat /\ c.retryMax \in Nat
      BY <3>4 DEF CoreInv, TypeOK, RunRow, JobRecord
    <3> QED BY <3>3, <3>4, <3>5, <3>6 DEF AttemptsLeft
  <2>3. \/ runs'[r].attempt = runs[r].attempt
        \/ \E w \in Workers : Retry(w)
        \/ runs'[r].attempt = 0
    <3>1. ASSUME NEW w \in Workers, WorkerStep(w), ~Retry(w) PROVE runs'[r].attempt = runs[r].attempt
      <4>1. CASE Claim(w)
        BY <4>1, RowFields DEF CoreInv, Claim, NextDue
      <4>2. CASE FinishEarly(w) \/ Finish(w)
        <5>1. worker[w].run \in RunIds
          BY <4>2 DEF FinishEarly, Finish, CoreInv, WorkerShape, Holds, Owning
        <5> QED BY <4>2, <5>1, RowFields DEF CoreInv, FinishEarly, Finish, MarkFinished
      <4> QED BY <3>1, <4>1, <4>2 DEF WorkerStep, Lookup, MarkActive, Execute, ClearActive,
              LoadForAlert, Deliver, WorkerExit
    <3>2. ASSUME NEW j \in Jobs, NEW q \in RunIds, Enqueue(j, q)
          PROVE  runs'[r].attempt = runs[r].attempt \/ runs'[r].attempt = 0
      BY <3>2, RowFields DEF CoreInv, Enqueue
    <3>3. ASSUME NEW S, RemoveRuns(S) PROVE runs'[r].attempt = runs[r].attempt
      BY <3>3, RowFields DEF CoreInv
    <3> QED BY <3>1, <3>2, <3>3 DEF Next, Handlers, WriteJob, SetEnabled, DeleteJob, DeleteRun,
            CancelRunningByJob, CallCancel, Stop, ProcessExit, Boot, Tick, vars
  <2> QED BY <2>1, <2>2, <2>3
<1> QED BY <1>1, <1>2, <1>3, <1>4 DEF Bounded, pc

-----------------------------------------------------------------------------
(* The active map *)

Executes(at) == at \in {"exec", "clear"}

\* A worker that neither starts nor ends an execution leaves the map exact.
LEMMA ActiveKept ==
  ASSUME ActiveExact, UNCHANGED <<active, toCancel>>,
         \A v \in Workers : Same(v) \/ (~Executes(pc(v)) /\ ~Executes(worker'[v].pc))
  PROVE  ActiveExact'
<1>1. \A v \in Workers : Executes(pc(v)) \/ Executes(worker'[v].pc) => Same(v)
  OBVIOUS
<1> QED BY <1>1 DEF ActiveExact, CancelRequested, Same, Executes, pc

LEMMA ActiveStep == ASSUME CoreInv, ActiveExact, DownIdle, [Next]_vars PROVE ActiveExact'
<1> USE DEF CoreInv, proc, db, hist
<1>1. ASSUME NEW w \in Workers, WorkerStep(w) PROVE ActiveExact'
  <2> DEFINE r == worker[w].run
  <2>1. CASE Claim(w)
    <3>1. /\ pc(w) = "poll" /\ worker'[w].pc = "lookup" /\ UNCHANGED <<active, toCancel>>
          /\ \A v \in Workers \ {w} : Same(v)
      BY <2>1 DEF Claim, TypeOK, Idle, Same
    <3> QED BY <3>1, ActiveKept DEF Executes
  <2>2. CASE Lookup(w)
    <3>1. \/ worker' = [worker EXCEPT ![w] = [@ EXCEPT !.pc = "activate", !.job = jobs[Job(r)]]]
          \/ GoWith(w, "early", "cancelled") \/ GoWith(w, "early", "failed")
      BY <2>2 DEF Lookup
    <3>2. worker'[w].pc \in {"activate", "early"} /\ \A v \in Workers \ {w} : Same(v)
      <4>1. CASE worker' = [worker EXCEPT ![w] = [@ EXCEPT !.pc = "activate", !.job = jobs[Job(r)]]]
        BY <4>1 DEF TypeOK, WorkerRecord, Same
      <4> QED BY <3>1, <4>1, WorkerFields
    <3> QED BY <2>2, <3>2, ActiveKept DEF Executes, Lookup
  <2>3. CASE MarkActive(w)
    <3>1. CASE GoWith(w, "early", "skipped_overlap") /\ UNCHANGED active
      <4>1. worker'[w].pc = "early" /\ \A v \in Workers \ {w} : Same(v)
        BY <3>1, WorkerFields
      <4> QED BY <2>3, <3>1, <4>1, ActiveKept DEF Executes, MarkActive
    <3>2. CASE Go(w, "exec") /\ active' = active \cup {r}
      <4>1. /\ worker'[w].pc = "exec" /\ worker'[w].run = r /\ pc(w) = "activate"
            /\ UNCHANGED toCancel /\ \A v \in Workers \ {w} : Same(v)
        BY <2>3, <3>2, WorkerFields DEF MarkActive
      <4>2. \A q \in active' : \E v \in Workers : worker'[v].run = q /\ Executes(worker'[v].pc)
        <5> SUFFICES ASSUME NEW q \in active, q # r
                     PROVE  \E v \in Workers : worker'[v].run = q /\ Executes(worker'[v].pc)
          BY <3>2, <4>1 DEF Executes
        <5>1. PICK v \in Workers : worker[v].run = q /\ pc(v) \in {"exec", "clear"}
          BY DEF ActiveExact
        <5> QED BY <4>1, <5>1 DEF Same, Executes, pc
      <4>3. \A v \in Workers : worker'[v].pc = "exec" =>
              worker'[v].run \in active' \/ worker'[v].cancelled \/ worker'[v].run \in toCancel'
        BY <3>2, <4>1 DEF ActiveExact, CancelRequested, Same, pc
      <4> QED BY <4>2, <4>3 DEF ActiveExact, CancelRequested, Executes, pc
    <3> QED BY <2>3, <3>1, <3>2 DEF MarkActive
  <2>4. CASE Execute(w)
    <3>1. /\ worker'[w].pc = "clear" /\ worker'[w].run = r /\ pc(w) = "exec"
          /\ UNCHANGED <<active, toCancel>> /\ \A v \in Workers \ {w} : Same(v)
      BY <2>4, WorkerFields DEF Execute
    <3> QED BY <3>1 DEF ActiveExact, CancelRequested, Same, pc
  <2>5. CASE ClearActive(w)
    <3>1. /\ worker'[w].pc = "finish" /\ active' = active \ {r} /\ UNCHANGED toCancel
          /\ pc(w) = "clear" /\ \A v \in Workers \ {w} : Same(v)
      BY <2>5, WorkerFields DEF ClearActive, WithoutActive
    <3>2. \A v \in Workers \ {w} : pc(v) = "exec" => worker[v].run # r
      BY <3>1 DEF ClaimExclusive, Holds, Owning
    <3>3. \A q \in active' : \E v \in Workers : worker'[v].run = q /\ Executes(worker'[v].pc)
      <4> SUFFICES ASSUME NEW q \in active, q # r
                   PROVE  \E v \in Workers : worker'[v].run = q /\ Executes(worker'[v].pc)
        BY <3>1
      <4>1. PICK v \in Workers : worker[v].run = q /\ pc(v) \in {"exec", "clear"}
        BY DEF ActiveExact
      <4> QED BY <3>1, <4>1 DEF Same, Executes, pc
    <3>4. \A v \in Workers : worker'[v].pc = "exec" =>
            worker'[v].run \in active' \/ worker'[v].cancelled \/ worker'[v].run \in toCancel'
      BY <3>1, <3>2 DEF ActiveExact, CancelRequested, Same, pc
    <3> QED BY <3>3, <3>4 DEF ActiveExact, CancelRequested, Executes, pc
  <2>6. CASE FinishEarly(w) \/ Finish(w) \/ Retry(w) \/ LoadForAlert(w) \/ Deliver(w) \/ WorkerExit(w)
    <3>1. /\ ~Executes(pc(w)) /\ UNCHANGED <<active, toCancel>>
          /\ Leave(w) \/ \E to \in {"retry", "notify", "deliver", "exited"} : Go(w, to)
      BY <2>6 DEF FinishEarly, Finish, Retry, LoadForAlert, Deliver, WorkerExit, Executes
    <3>2. ~Executes(worker'[w].pc) /\ \A v \in Workers \ {w} : Same(v)
      BY <3>1, WorkerFields DEF Executes
    <3> QED BY <3>1, <3>2, ActiveKept
  <2> QED BY <1>1, <2>1, <2>2, <2>3, <2>4, <2>5, <2>6 DEF WorkerStep
<1>2. ASSUME NEW j \in Jobs, CancelRunningByJob(j) PROVE ActiveExact'
  BY <1>2 DEF CancelRunningByJob, ActiveExact, CancelRequested, pc
<1>3. ASSUME NEW r \in RunIds, CallCancel(r) PROVE ActiveExact'
  <2>1. \A v \in Workers : worker[v] \in WorkerRecord
    BY DEF TypeOK
  <2>2. \A v \in Workers :
          /\ worker'[v].pc = worker[v].pc /\ worker'[v].run = worker[v].run
          /\ worker'[v].cancelled = (worker[v].cancelled \/ (worker[v].run = r /\ worker[v].pc = "exec"))
    BY <1>3, <2>1 DEF CallCancel, WorkerRecord, pc
  <2>3. active' = active /\ toCancel' = toCancel \ {r}
    BY <1>3 DEF CallCancel
  <2>4. \A q \in active' : \E v \in Workers : worker'[v].run = q /\ pc(v)' \in {"exec", "clear"}
    BY <2>2, <2>3 DEF ActiveExact, pc
  <2>5. \A v \in Workers : worker'[v].pc = "exec" =>
          worker'[v].run \in active' \/ worker'[v].cancelled \/ worker'[v].run \in toCancel'
    BY <2>2, <2>3 DEF ActiveExact, CancelRequested, pc
  <2> QED BY <2>4, <2>5 DEF ActiveExact, CancelRequested, pc
<1>4. ASSUME ProcessExit PROVE ActiveExact'
  BY <1>4 DEF ProcessExit, Idle, ActiveExact, pc
<1>5. ASSUME Boot PROVE ActiveExact'
  <2>1. active = {}
    BY <1>5 DEF Boot, DownIdle, ActiveExact
  <2> QED BY <1>5, <2>1 DEF Boot, Idle, ActiveExact, pc
<1>6. ASSUME UNCHANGED <<worker, active, toCancel>> PROVE ActiveExact'
  BY <1>6, ActiveKept DEF Same
<1> QED BY <1>1, <1>2, <1>3, <1>4, <1>5, <1>6 DEF Next, Handlers, Enqueue, WriteJob, SetEnabled,
        DeleteJob, DeleteRun, Stop, Tick, vars

LEMMA DownStep == ASSUME CoreInv, DownIdle, [Next]_vars PROVE DownIdle'
<1> USE DEF CoreInv, proc, db, hist
<1>1. ASSUME daemon = "down", daemon' = "down" PROVE DownIdle'
  <2>1. \A w \in Workers : ~WorkerStep(w)
    BY <1>1 DEF DownIdle, WorkerStep, Claim, Lookup, MarkActive, FinishEarly, Execute, ClearActive,
       Finish, Retry, LoadForAlert, Deliver, WorkerExit
  <2>2. \A w \in Workers : worker'[w] = worker[w]
    BY <1>1, <2>1 DEF Next, Handlers, Enqueue, WriteJob, SetEnabled, DeleteJob, DeleteRun, Serving,
       CancelRunningByJob, CallCancel, DownIdle, Stop, ProcessExit, Boot, Tick, vars, TypeOK
  <2> QED BY <1>1, <2>2 DEF DownIdle, pc
<1>2. ASSUME daemon # "down", daemon' = "down" PROVE DownIdle'
  <2>1. ProcessExit
    BY <1>2 DEF Next, WorkerStep, Claim, Lookup, MarkActive, FinishEarly, Execute, ClearActive,
       Finish, Retry, LoadForAlert, Deliver, WorkerExit, Handlers, Enqueue, WriteJob, SetEnabled,
       DeleteJob, DeleteRun, CancelRunningByJob, CallCancel, Stop, Boot, Tick, vars
  <2> QED BY <2>1 DEF ProcessExit, DownIdle, Idle, pc
<1> QED BY <1>1, <1>2 DEF DownIdle

-----------------------------------------------------------------------------
(* Theorems *)

LEMMA Inductive == Spec => []IInv
<1>1. Init => IInv
  BY InitCore, InitLinks, RunnerAssumption
     DEF Init, IInv, LinkInv, Bounded, Known, ActiveExact, DownIdle, Idle, pc
<1>2. IInv /\ [Next]_vars => IInv'
  BY LinkStep, BoundStep, ActiveStep, DownStep DEF IInv, LinkInv
<1> QED BY <1>1, <1>2, PTL DEF Spec

\* The tables, the workers' records and the shared maps keep their types.
THEOREM TypeCorrect == Spec => []TypeOK
  BY Inductive, PTL DEF IInv, LinkInv, CoreInv

\* However many workers poll the table, no run is processed by two of them.
THEOREM ClaimsAreExclusive == Spec => []ClaimExclusive
  BY Inductive, PTL DEF IInv, LinkInv, CoreInv

\* MarkFinished needs no guard on the status: no step changes a recorded
\* outcome, except by deleting the row.
THEOREM OutcomesAreFinal == Spec => OutcomeFinal
<1>1. IInv /\ [Next]_vars =>
        [\A r \in RunIds : Status(r) \in Terminal => Status(r)' \in {Status(r), "removed"}]_vars
  BY RowStep DEF IInv, LinkInv, RowMoves
<1> QED BY <1>1, Inductive, PTL DEF Spec, OutcomeFinal

\* A failure is retried at most once, within a retry_max the job had.
THEOREM RetriesFormChains == Spec => []RetryChain
<1>1. IInv => RetryChain
  <2> SUFFICES ASSUME IInv, NEW p \in RunIds, NEW r \in Retries(p)
               PROVE  /\ Retries(p) = {r}
                      /\ Status(p) \in Retryable \cup {"removed"}
                      /\ Job(r) = Job(p) /\ runs[r].attempt = runs[p].attempt + 1
                      /\ \E c \in JobConfigs : runs[r].attempt <= c.retryMax
    BY DEF RetryChain
  <2>1. r \in RunIds /\ parent[r] = p
    BY DEF Retries
  <2>2. /\ \A q \in RunIds : parent[q] = p => q = r
        /\ Status(p) \in Retryable \cup {"removed"}
        /\ Job(r) = Job(p) /\ runs[r].attempt = runs[p].attempt + 1
    BY <2>1 DEF IInv, LinkInv, Chain
  <2>3. Retries(p) = {r}
    BY <2>1, <2>2 DEF Retries
  <2>4. runs[r].attempt > 0
    BY <2>2 DEF IInv, LinkInv, CoreInv, TypeOK, RunRow
  <2> QED BY <2>1, <2>2, <2>3, <2>4 DEF IInv, Bounded
<1> QED BY <1>1, Inductive, PTL

\* A failure is reported at most once, and not if it is retried.
THEOREM AlertsAreUnique == Spec => []AlertOnce
<1>1. IInv => AlertOnce
  BY DEF IInv, LinkInv, Alerted, AlertOnce, Retries
<1> QED BY <1>1, Inductive, PTL

\* The map of active runs holds no stale entry and misses no execution but
\* those that were asked to stop.
THEOREM ActiveIsExact == Spec => []ActiveExact
  BY Inductive, PTL DEF IInv

\* What `skip` guarantees: an execution starts beside another one of its job
\* only when that one was asked to stop.
THEOREM SkipIsRespected == Spec => SkipRespected
<1> DEFINE Respected ==
      \A w \in Workers :
        pc(w) = "activate" /\ pc(w)' = "exec" /\ worker[w].job.overlap = "skip" =>
          \A v \in Workers \ {w} :
            pc(v) = "exec" /\ Job(worker[v].run) = Job(worker[w].run) => CancelRequested(v)
<1>1. ASSUME IInv, [Next]_vars, NEW w \in Workers, NEW v \in Workers \ {w},
             pc(w) = "activate", worker'[w].pc = "exec", worker[w].job.overlap = "skip",
             pc(v) = "exec", Job(worker[v].run) = Job(worker[w].run)
      PROVE  CancelRequested(v)
  <2> USE DEF IInv, LinkInv, CoreInv, proc, db, hist
  <2>1. MarkActive(w)
    <3>1. ASSUME NEW u \in Workers, WorkerStep(u), u # w PROVE Same(w)
      <4>1. CASE Claim(u)
        BY <1>1, <3>1, <4>1 DEF Claim, TypeOK, Same
      <4>2. CASE Lookup(u)
        BY <1>1, <3>1, <4>2 DEF Lookup, GoWith, TypeOK, Same
      <4>3. CASE ~Claim(u) /\ ~Lookup(u)
        <5>1. Leave(u) \/ (\E to : Go(u, to)) \/ (\E to, s : GoWith(u, to, s))
          BY <3>1, <4>3 DEF WorkerStep, MarkActive, FinishEarly, Execute, ClearActive, Finish, Retry,
             LoadForAlert, Deliver, WorkerExit
        <5> QED BY <1>1, <3>1, <5>1, WorkerFields
      <4> QED BY <4>1, <4>2, <4>3
    <3>2. ASSUME Same(w) PROVE FALSE
      BY <1>1, <3>2 DEF Same, pc
    <3>3. ASSUME NEW r \in RunIds, CallCancel(r) PROVE worker'[w].pc = worker[w].pc
      BY <1>1, <3>3 DEF CallCancel, TypeOK, pc
    <3>4. UNCHANGED worker => Same(w)
      BY DEF Same
    <3>5. ASSUME ProcessExit \/ Boot PROVE FALSE
      BY <1>1, <3>5 DEF ProcessExit, Boot, Idle
    <3>6. WorkerStep(w)
      BY <1>1, <3>1, <3>2, <3>3, <3>4, <3>5 DEF Next, Handlers, Enqueue, WriteJob, SetEnabled, DeleteJob,
         DeleteRun, CancelRunningByJob, Stop, Tick, vars, pc
    <3> QED BY <1>1, <3>6 DEF WorkerStep, Claim, Lookup, FinishEarly, Execute, ClearActive, Finish,
            Retry, LoadForAlert, Deliver, WorkerExit
  <2>2. ~OverlapBlocks(worker[w].run, worker[w].job)
    <3>1. ~GoWith(w, "early", "skipped_overlap")
      BY <1>1, WorkerFields
    <3> QED BY <2>1, <3>1 DEF MarkActive
  <2>3. worker[v].run # worker[w].run
    BY <1>1 DEF ClaimExclusive, Holds, Owning
  <2> QED BY <1>1, <2>2, <2>3 DEF OverlapBlocks, ActiveExact
<1>2. IInv /\ [Next]_vars => [Respected]_vars
  BY <1>1 DEF pc
<1> QED BY <1>2, Inductive, PTL DEF Spec, SkipRespected

-----------------------------------------------------------------------------
(* Runner implements RunQueue *)

HolderOf(at, r) == IF at \in Owning THEN r ELSE NoRun

\* The abstract holders change where the workers' records do.
LEMMA HolderMoves ==
  ASSUME CoreInv, NEW w \in Workers, \A v \in Workers \ {w} : Same(v)
  PROVE  Holder' = [Holder EXCEPT ![w] = HolderOf(worker'[w].pc, worker'[w].run)]
<1>1. Holder = [v \in Workers |-> HolderOf(pc(v), worker[v].run)]
  BY DEF Holder, HolderOf
<1>2. Holder' = [v \in Workers |-> HolderOf(worker'[v].pc, worker'[v].run)]
  BY DEF Holder, HolderOf, pc
<1>3. \A v \in Workers \ {w} : HolderOf(worker'[v].pc, worker'[v].run) = HolderOf(pc(v), worker[v].run)
  BY DEF Same, pc
<1> QED BY <1>1, <1>2, <1>3

LEMMA HolderKept ==
  ASSUME CoreInv, NEW w \in Workers, \A v \in Workers \ {w} : Same(v),
         HolderOf(worker'[w].pc, worker'[w].run) = HolderOf(pc(w), worker[w].run)
  PROVE  UNCHANGED Holder
  BY DEF Holder, HolderOf, Same, pc

LEMMA RowsKept == ASSUME UNCHANGED runs PROVE UNCHANGED RowStatus
  BY DEF RowStatus, Status

LEMMA RowSet ==
  ASSUME CoreInv, NEW r \in RunIds, NEW s, SetStatus(r, s)
  PROVE  RowStatus' = [RowStatus EXCEPT ![r] = s]
<1>1. runs'[r].status = s /\ \A q \in RunIds \ {r} : runs'[q].status = runs[q].status
  BY RowFields DEF CoreInv
<1> QED BY <1>1 DEF RowStatus, Status

LEMMA RowAdded ==
  ASSUME CoreInv, NEW r \in RunIds, NEW j, NEW at, NEW a, CreateQueued(r, j, at, a),
         UNCHANGED Holder
  PROVE  Q!Enqueue(r)
<1>0. /\ runs[r].status = "none" /\ runs'[r].status = "queued"
      /\ \A q \in RunIds \ {r} : runs'[q] = runs[q]
  BY RowFields DEF CoreInv
<1>1. RowStatus[r] = "none"
  BY <1>0 DEF RowStatus, Status
<1>2. RowStatus' = [RowStatus EXCEPT ![r] = "queued"]
  BY <1>0 DEF RowStatus, Status
<1> QED BY <1>1, <1>2 DEF Q!Enqueue

LEMMA RowsGone ==
  ASSUME CoreInv, NEW S \in SUBSET RunIds, RemoveRuns(S), UNCHANGED worker
  PROVE  Q!Remove(S)
<1>1. RowStatus' = [r \in RunIds |-> IF r \in S /\ RowStatus[r] # "none" THEN "removed"
                                     ELSE RowStatus[r]]
  BY RowFields DEF CoreInv, RowStatus, Status
<1>2. UNCHANGED Holder
  BY DEF Holder, pc
<1> QED BY <1>1, <1>2 DEF Q!Remove

LEMMA WorkerStepRefines ==
  ASSUME IInv, [Next]_vars, NEW w \in Workers, WorkerStep(w)
  PROVE  Q!Next \/ UNCHANGED <<RowStatus, Holder>>
<1> DEFINE r == worker[w].run
           Goal == Q!Next \/ UNCHANGED <<RowStatus, Holder>>
<1> USE DEF IInv, LinkInv, CoreInv, proc, db, hist
<1>1. CASE Claim(w)
  <2>1. PICK q \in NextDue :
          SetStatus(q, "running") /\ worker' = [worker EXCEPT ![w] = [Idle("lookup") EXCEPT !.run = q]]
    BY <1>1 DEF Claim
  <2>2. q \in RunIds /\ Status(q) = "queued"
    BY DEF NextDue, Claimable
  <2>3. /\ worker'[w].pc = "lookup" /\ worker'[w].run = q /\ pc(w) = "poll"
        /\ \A v \in Workers \ {w} : Same(v)
    BY <1>1, <2>1 DEF Claim, TypeOK, Idle, Same
  <2>4. Holder' = [Holder EXCEPT ![w] = q] /\ Holder[w] = NoRun
    BY <2>3, HolderMoves DEF HolderOf, Holder, Owning
  <2>5. RowStatus' = [RowStatus EXCEPT ![q] = "running"] /\ RowStatus[q] = "queued"
    BY <2>1, <2>2, RowSet DEF RowStatus
  <2> QED BY <2>2, <2>4, <2>5 DEF Q!Next, Q!Claim
<1>2. CASE Lookup(w) \/ MarkActive(w) \/ Execute(w) \/ ClearActive(w)
  <2>1. UNCHANGED runs /\ pc(w) \in Owning
    BY <1>2 DEF Lookup, MarkActive, Execute, ClearActive, Owning
  <2>2. worker'[w].pc \in Owning /\ worker'[w].run = r /\ \A v \in Workers \ {w} : Same(v)
    <3>1. CASE worker' = [worker EXCEPT ![w] = [@ EXCEPT !.pc = "activate", !.job = jobs[Job(r)]]]
      BY <3>1 DEF TypeOK, WorkerRecord, Same, Owning
    <3>2. CASE \/ \E to \in {"exec", "finish"} : Go(w, to)
               \/ \E to \in {"early", "clear"}, s \in Terminal : GoWith(w, to, s)
      BY <3>2, WorkerFields DEF Owning
    <3> QED BY <1>2, <3>1, <3>2 DEF Lookup, MarkActive, Execute, ClearActive, Outcomes, Terminal
  <2> QED BY <2>1, <2>2, HolderKept, RowsKept DEF HolderOf
<1>3. CASE FinishEarly(w) \/ Finish(w)
  <2>1. /\ r \in RunIds /\ Status(r) \in {"running", "removed"} /\ pc(w) \in Owning
        /\ worker[w].res \in Terminal
    BY <1>3 DEF FinishEarly, Finish, WorkerShape, RowsMatch, Holds, Owning, pc
  <2>2. worker'[w].pc \notin Owning /\ \A v \in Workers \ {w} : Same(v)
    <3>1. Leave(w) \/ Go(w, "retry") \/ Go(w, "notify")
      BY <1>3 DEF FinishEarly, Finish
    <3> QED BY <3>1, WorkerFields DEF Owning
  <2>3. Holder' = [Holder EXCEPT ![w] = NoRun] /\ Holder[w] = r
    BY <2>1, <2>2, HolderMoves DEF HolderOf, Holder
  <2>4. CASE MarkFinished(r, worker[w].res)
    <3>1. Status(r) = "running" /\ SetStatus(r, worker[w].res)
      BY <2>1, <2>4 DEF MarkFinished, Matches
    <3>2. RowStatus' = [RowStatus EXCEPT ![r] = worker[w].res] /\ RowStatus[r] = "running"
      BY <2>1, <3>1, RowSet DEF RowStatus
    <3>3. Q!Finish(w, worker[w].res)
      BY <2>1, <2>3, <3>2 DEF Q!Finish
    <3>4. worker[w].res \in Q!Terminal
      BY <2>1 DEF Q!Terminal, Terminal
    <3> QED BY <3>3, <3>4 DEF Q!Next
  <2>5. CASE UNCHANGED runs
    BY <2>3, <2>5, RowsKept DEF Q!Next, Q!LetGo
  <2> QED BY <1>3, <2>4, <2>5 DEF FinishEarly, Finish
<1>4. CASE Retry(w) \/ LoadForAlert(w) \/ Deliver(w) \/ WorkerExit(w)
  <2>1. UNCHANGED Holder
    <3>1. pc(w) \notin Owning
      BY <1>4 DEF Retry, LoadForAlert, Deliver, WorkerExit, Owning
    <3>2. Leave(w) \/ Go(w, "deliver") \/ Go(w, "exited")
      BY <1>4 DEF Retry, LoadForAlert, Deliver, WorkerExit
    <3>3. worker'[w].pc \notin Owning /\ \A v \in Workers \ {w} : Same(v)
      BY <3>2, WorkerFields DEF Owning
    <3> QED BY <3>1, <3>3, HolderKept DEF HolderOf
  <2>2. UNCHANGED runs \/ \E q \in RunIds, d \in RetryDelays :
                             CreateQueued(q, Job(r), now + d, NextAttempt(r))
    BY <1>4 DEF Retry, LoadForAlert, Deliver, WorkerExit
  <2> QED BY <2>1, <2>2, RowsKept, RowAdded DEF Q!Next
<1> QED BY <1>1, <1>2, <1>3, <1>4 DEF WorkerStep

LEMMA StepRefines ==
  ASSUME IInv, [Next]_vars
  PROVE  Q!Next \/ UNCHANGED <<RowStatus, Holder>>
<1> DEFINE Goal == Q!Next \/ UNCHANGED <<RowStatus, Holder>>
<1> USE DEF IInv, LinkInv, CoreInv, proc, db, hist
<1>1. ASSUME UNCHANGED <<runs, worker>> PROVE Goal
  BY <1>1, RowsKept DEF Holder, pc
<1>2. ASSUME NEW j \in Jobs, NEW r \in RunIds, Enqueue(j, r) PROVE Goal
  <2>1. UNCHANGED Holder
    BY <1>2 DEF Enqueue, Holder, pc
  <2> QED BY <1>2, <2>1, RowAdded DEF Enqueue, Q!Next
<1>3. ASSUME NEW j \in Jobs, DeleteJob(j) PROVE Goal
  BY <1>3, RowsGone DEF DeleteJob, Q!Next
<1>4. ASSUME NEW r \in RunIds, DeleteRun(r) PROVE Goal
  BY <1>4, RowsGone DEF DeleteRun, Q!Next
<1>5. ASSUME NEW r \in RunIds, CallCancel(r) PROVE Goal
  <2>1. \A v \in Workers : worker[v] \in WorkerRecord
    BY DEF TypeOK
  <2>2. \A v \in Workers : worker'[v].pc = worker[v].pc /\ worker'[v].run = worker[v].run
    BY <1>5, <2>1 DEF CallCancel, WorkerRecord
  <2>3. UNCHANGED Holder
    BY <2>2 DEF Holder, pc
  <2> QED BY <1>5, <2>3, RowsKept DEF CallCancel
<1>6. ASSUME ProcessExit PROVE Goal
  <2>1. Holder' = [w \in Workers |-> NoRun] /\ UNCHANGED RowStatus
    BY <1>6, RowsKept DEF ProcessExit, Holder, pc, Idle, Owning
  <2> QED BY <2>1 DEF Q!Next, Q!Crash
<1>7. ASSUME Boot PROVE Goal
  <2>1. UNCHANGED Holder
    BY <1>7 DEF Boot, Holder, pc, Idle, Owning, DownIdle
  <2> QED BY <1>7, <2>1, RowsKept DEF Boot
<1> QED BY <1>1, <1>2, <1>3, <1>4, <1>5, <1>6, <1>7, WorkerStepRefines DEF Next, Handlers, WriteJob,
        SetEnabled, CancelRunningByJob, Stop, Tick, vars

\* A user of job_runs may rely on RunQueue: every step of the pool is one of
\* its steps or none.
THEOREM PoolImplementsRunQueue == Spec => ImplementsRunQueue
<1>1. Init => Q!Init
  BY DEF Init, Q!Init, RowStatus, Holder, Status, pc, Idle, Owning
<1>2. IInv /\ [Next]_vars => [Q!Next]_(Q!vars)
  BY StepRefines DEF Q!vars
<1> QED BY <1>1, <1>2, Inductive, PTL DEF Spec, ImplementsRunQueue, Q!Spec

-----------------------------------------------------------------------------
(* Short of faults *)

\* The foreign key: a run that is there has its job.
Rooted == \A r \in RunIds : Status(r) \notin {"none", "removed"} => jobs[Job(r)] # NoJob

\* RunningIsOwned and NoSilentFailure in the first process, and what an early
\* return has to do with them: it fails a run only when there is no row left.
Answered(r) == Retries(r) # {} \/ alerts[r] = 1
NothingLost ==
  /\ \A r \in RunIds : Status(r) = "running" => \E w \in Workers : Owns(w, r)
  /\ \A w \in Workers :
       pc(w) = "early" /\ worker[w].res \in Retryable => Status(worker[w].run) = "removed"
  /\ \A r \in RunIds : Status(r) \in Retryable /\ Unheld(r) => Answered(r)

CalmInv == boots >= 1 /\ Rooted /\ (Calm => NothingLost)

LEMMA RootedStep == ASSUME IInv, Rooted, [Next]_vars PROVE Rooted'
<1> USE DEF proc, db, hist
<1>0. TypeOK /\ CoreInv /\ \A r \in RunIds : Status(r) # "none" => Job(r) \in Jobs
  BY DEF IInv, LinkInv, CoreInv, RowsMatch
<1>1. \A r \in RunIds : RowMoves(r)
  BY <1>0, RowStep
<1>2. ASSUME \A r \in RunIds : Status(r) = "none" => Status(r)' = "none",
             \A j \in Jobs : jobs[j] # NoJob => jobs'[j] # NoJob
      PROVE  Rooted'
  BY <1>0, <1>1, <1>2 DEF Rooted, RowMoves
<1>3. ASSUME NEW q \in RunIds, NEW j \in Jobs, NEW at, NEW a, CreateQueued(q, j, at, a),
             UNCHANGED jobs
      PROVE  Rooted'
  BY <1>0, <1>1, <1>3, RowFields DEF Rooted, RowMoves, Status, Job
<1>4. ASSUME NEW w \in Workers, WorkerStep(w) PROVE Rooted'
  <2>1. CASE Retry(w)
    <3>1. Job(worker[w].run) \in Jobs
      BY <1>0, <2>1 DEF Retry, CoreInv, WorkerShape, RowsMatch, Holds, After, Retryable, pc
    <3>2. CASE UNCHANGED runs
      BY <1>2, <2>1, <3>2 DEF Retry, Status
    <3> QED BY <1>3, <2>1, <3>1, <3>2 DEF Retry
  <2>2. CASE ~Retry(w)
    <3>1. UNCHANGED jobs
      BY <1>4 DEF WorkerStep, Claim, Lookup, MarkActive, FinishEarly, Execute, ClearActive, Finish,
         Retry, LoadForAlert, Deliver, WorkerExit
    <3>2. \/ UNCHANGED runs
          \/ \E q \in RunIds : \E s : Status(q) # "none" /\ SetStatus(q, s)
      BY <1>0, <1>4, <2>2 DEF WorkerStep, Claim, NextDue, Claimable, Lookup, MarkActive, FinishEarly,
         Execute, ClearActive, Finish, LoadForAlert, Deliver, WorkerExit, MarkFinished,
         CoreInv, WorkerShape, RowsMatch, Holds, Owning, pc
    <3>3. \A r \in RunIds : Status(r) = "none" => Status(r)' = "none"
      <4>1. ASSUME NEW q \in RunIds, NEW s, Status(q) # "none", SetStatus(q, s)
            PROVE  \A r \in RunIds : Status(r) = "none" => Status(r)' = "none"
        BY <1>0, <4>1, RowFields DEF Status
      <4> QED BY <3>2, <4>1 DEF Status
    <3> QED BY <1>2, <3>1, <3>3
  <2> QED BY <2>1, <2>2
<1>5. ASSUME NEW j \in Jobs, NEW r \in RunIds, Enqueue(j, r) PROVE Rooted'
  BY <1>3, <1>5 DEF Enqueue
<1>6. ASSUME NEW j \in Jobs, NEW c \in JobConfigs, WriteJob(j, c) PROVE Rooted'
  <2>1. c # NoJob
    BY RunnerAssumption
  <2> QED BY <1>0, <1>2, <1>6, <2>1 DEF WriteJob, Status, TypeOK
<1>7. ASSUME NEW j \in Jobs, NEW b \in BOOLEAN, SetEnabled(j, b) PROVE Rooted'
  <2>1. [jobs[j] EXCEPT !.enabled = b] \in JobRecord
    BY <1>0, <1>7 DEF SetEnabled, TypeOK, JobRecord
  <2>2. jobs' = [jobs EXCEPT ![j] = [jobs[j] EXCEPT !.enabled = b]]
    BY <1>0, <1>7 DEF SetEnabled, TypeOK
  <2>3. [jobs[j] EXCEPT !.enabled = b] # NoJob
    BY <2>1, RunnerAssumption
  <2>4. \A k \in Jobs : jobs[k] # NoJob => jobs'[k] # NoJob
    <3> DEFINE new == [jobs[j] EXCEPT !.enabled = b]
    <3> HIDE DEF new
    <3>1. new # NoJob /\ jobs' = [jobs EXCEPT ![j] = new]
      BY <2>2, <2>3 DEF new
    <3> QED BY <1>0, <3>1 DEF TypeOK
  <2> QED BY <1>2, <1>7, <2>4 DEF SetEnabled, Status
<1>8. ASSUME NEW j \in Jobs, DeleteJob(j) PROVE Rooted'
  <2>1. \A r \in RunIds : /\ Status(r)' = IF Job(r) = j /\ Status(r) # "none" THEN "removed" ELSE Status(r)
                          /\ Job(r)' = Job(r)
    BY <1>0, <1>8, RowFields DEF DeleteJob, Status, Job
  <2>2. \A k \in Jobs : k # j => jobs'[k] = jobs[k]
    BY <1>0, <1>8 DEF DeleteJob, TypeOK
  <2> QED BY <1>0, <2>1, <2>2 DEF Rooted
<1>9. ASSUME NEW r \in RunIds, DeleteRun(r) PROVE Rooted'
  <2>1. \A q \in RunIds : Status(q) = "none" => Status(q)' = "none"
    BY <1>0, <1>9, RowFields DEF DeleteRun, Status
  <2> QED BY <1>2, <1>9, <2>1 DEF DeleteRun
<1>10. ASSUME UNCHANGED db PROVE Rooted'
  BY <1>2, <1>10 DEF Status
<1> QED BY <1>4, <1>5, <1>6, <1>7, <1>8, <1>9, <1>10 DEF Next, Handlers, CancelRunningByJob, CallCancel,
     Stop, ProcessExit, Boot, Tick, vars

\* Steps that leave every worker with its run, settle no outcome and make no
\* worker give up a run that is still there.
LEMMA NothingLostKept ==
  ASSUME IInv, NothingLost, [Next]_vars, UNCHANGED <<parent, alerts>>,
         \A r \in RunIds : Status(r)' \in {Status(r), "queued", "removed"},
         \A w \in Workers :
           /\ worker'[w].run = worker[w].run
           /\ pc(w) \in Owning => pc(w)' \in Owning
           /\ pc(w)' = "early" /\ worker'[w].res \in Retryable =>
                \/ pc(w) = "early" /\ worker[w].res \in Retryable
                \/ Holds(w) /\ Status(worker[w].run) = "removed"
  PROVE  NothingLost'
<1>1. \A r \in RunIds : RowMoves(r)
  BY RowStep DEF IInv, LinkInv
<1>2. \A w \in Workers : worker[w].run \in RunIds <=> Holds(w)
  BY DEF IInv, LinkInv, CoreInv, WorkerShape
<1>3. \A r \in RunIds : Status(r)' = "running" => \E w \in Workers : Owns(w, r)'
  BY DEF NothingLost, Owns
<1>4. ASSUME NEW w \in Workers, pc(w)' = "early", worker'[w].res \in Retryable
      PROVE  Status(worker[w].run)' = "removed"
  <2>1. Status(worker[w].run) = "removed" /\ Holds(w)
    BY <1>4 DEF NothingLost, Holds, Owning
  <2> QED BY <1>1, <1>2, <1>4, <2>1 DEF RowMoves, Status
<1>5. \A r \in RunIds : Status(r)' \in Retryable /\ Unheld(r)' => Answered(r)'
  BY DEF NothingLost, Unheld, Answered, Retries, Retryable
<1> QED BY <1>3, <1>4, <1>5 DEF NothingLost

LEMMA NothingLostStep ==
  ASSUME IInv, Rooted, Calm, NothingLost, [Next]_vars, Calm'
  PROVE  NothingLost'
<1> USE DEF proc, db, hist
<1>0. /\ TypeOK /\ CoreInv /\ DbWorks /\ ~DbFails /\ "webhook" \notin Faults
      /\ \A w \in Workers : worker[w] \in WorkerRecord
  BY DEF IInv, LinkInv, CoreInv, Calm, DbWorks, DbFails, TypeOK
<1>1. \A r \in RunIds : RowMoves(r)
  BY <1>0, RowStep
<1>2. \A w \in Workers : /\ worker[w].run \in RunIds <=> Holds(w)
                         /\ pc(w) \in Owning => Status(worker[w].run) \in {"running", "removed"}
                         /\ pc(w) \in After => Status(worker[w].run) \in Retryable \cup {"removed"}
                         /\ pc(w) \in {"early", "finish"} => worker[w].res \in Terminal
  BY <1>0 DEF CoreInv, WorkerShape, RowsMatch
<1>3. ASSUME NEW w \in Workers, Claim(w) PROVE NothingLost'
  <2>1. PICK r \in NextDue : /\ SetStatus(r, "running")
                             /\ worker' = [worker EXCEPT ![w] = [Idle("lookup") EXCEPT !.run = r]]
    BY <1>3 DEF Claim
  <2>2. r \in RunIds /\ Status(r) = "queued" /\ pc(w) = "poll"
    BY <1>3 DEF NextDue, Claimable, Claim
  <2>3. /\ worker'[w].run = r /\ pc(w)' = "lookup"
        /\ \A v \in Workers : v # w => worker'[v] = worker[v]
    BY <1>0, <2>1 DEF TypeOK, Idle, pc
  <2>4. Status(r)' = "running" /\ \A q \in RunIds : q # r => Status(q)' = Status(q)
    BY <1>0, <2>1, <2>2, RowFields DEF Status
  <2>5. ~Holds(w) /\ UNCHANGED <<parent, alerts>>
    BY <1>3, <2>2 DEF Holds, Owning, After, Claim
  <2>6. ASSUME NEW q \in RunIds, Status(q)' = "running" PROVE \E v \in Workers : Owns(v, q)'
    <3>1. CASE q = r
      BY <2>3, <3>1 DEF Owns, Owning
    <3>2. CASE q # r
      <4>1. PICK v \in Workers : Owns(v, q)
        BY <2>4, <2>6, <3>2 DEF NothingLost
      <4>2. v # w
        BY <2>2, <4>1 DEF Owns, Owning
      <4> QED BY <2>3, <4>1, <4>2 DEF Owns, pc
    <3> QED BY <3>1, <3>2
  <2>7. ASSUME NEW v \in Workers, pc(v)' = "early", worker'[v].res \in Retryable
        PROVE  Status(worker[v].run)' = "removed" /\ worker'[v].run = worker[v].run
    <3>1. v # w /\ worker'[v] = worker[v]
      BY <2>3, <2>7
    <3>2. Status(worker[v].run) = "removed" /\ worker[v].run \in RunIds
      BY <1>2, <2>7, <3>1 DEF NothingLost, pc, Holds, Owning
    <3> QED BY <1>1, <3>1, <3>2 DEF RowMoves
  <2>8. ASSUME NEW q \in RunIds, Status(q)' \in Retryable, Unheld(q)' PROVE Answered(q)'
    <3>1. q # r /\ Status(q) \in Retryable
      BY <2>4, <2>8 DEF Retryable
    <3>2. Unheld(q)
      <4>1. worker[w].run # q
        BY <1>2, <2>5
      <4> QED BY <2>3, <2>8, <4>1 DEF Unheld
    <3> QED BY <2>5, <3>1, <3>2 DEF NothingLost, Answered, Retries
  <2> QED BY <2>6, <2>7, <2>8 DEF NothingLost, Status
<1>4. ASSUME NEW w \in Workers, Lookup(w) PROVE NothingLost'
  <2> DEFINE r == worker[w].run
  <2>1. pc(w) = "lookup" /\ Holds(w) /\ r \in RunIds /\ UNCHANGED <<runs, parent, alerts>>
    BY <1>2, <1>4 DEF Lookup, Holds, Owning
  <2>2. /\ worker'[w].run = r /\ pc(w)' \in {"activate", "early"}
        /\ \A v \in Workers : v # w => worker'[v] = worker[v]
        /\ pc(w)' = "early" /\ worker'[w].res \in Retryable => jobs[Job(r)] = NoJob
    <3>1. CASE GoWith(w, "early", "cancelled")
      BY <1>0, <3>1, WorkerFields DEF Same, Retryable, pc
    <3>2. CASE jobs[Job(r)] = NoJob /\ GoWith(w, "early", "failed")
      BY <1>0, <3>2, WorkerFields DEF Same, pc
    <3>3. CASE worker' = [worker EXCEPT ![w] = [@ EXCEPT !.pc = "activate", !.job = jobs[Job(r)]]]
      BY <1>0, <3>3 DEF TypeOK, WorkerRecord, pc
    <3> QED BY <1>0, <1>4, <3>1, <3>2, <3>3 DEF Lookup
  <2>3. jobs[Job(r)] = NoJob => Status(r) = "removed"
    BY <1>2, <2>1 DEF Rooted, Owning
  <2> HIDE DEF r
  <2> QED BY <2>1, <2>2, <2>3, NothingLostKept DEF r, Status, pc, Owning
<1>5. ASSUME NEW w \in Workers, MarkActive(w) \/ Execute(w) \/ ClearActive(w) \/ WorkerExit(w)
      PROVE  NothingLost'
  <2>1. /\ UNCHANGED <<runs, parent, alerts>>
        /\ \/ MarkActive(w) /\ (GoWith(w, "early", "skipped_overlap") \/ Go(w, "exec"))
           \/ Execute(w) /\ \E s : GoWith(w, "clear", s)
           \/ ClearActive(w) /\ Go(w, "finish")
           \/ pc(w) = "poll" /\ Go(w, "exited")
    BY <1>5 DEF MarkActive, Execute, ClearActive, WorkerExit
  <2>2. \A v \in Workers : v # w => worker'[v] = worker[v]
    BY <1>0, <2>1, WorkerFields DEF Same
  <2>3. /\ worker'[w].run = worker[w].run
        /\ \/ pc(w)' = "early" /\ worker'[w].res = "skipped_overlap"
           \/ pc(w)' \in {"exec", "clear", "finish"}
           \/ pc(w) = "poll" /\ pc(w)' = "exited"
    BY <1>0, <2>1, WorkerFields DEF pc
  <2> QED BY <2>1, <2>2, <2>3, NothingLostKept DEF Status, pc, Owning, Retryable
<1>6. ASSUME NEW w \in Workers, FinishEarly(w) \/ Finish(w) PROVE NothingLost'
  <2>0. PICK r \in RunIds, s \in Terminal : r = worker[w].run /\ s = worker[w].res
    BY <1>2, <1>6 DEF FinishEarly, Finish, Holds, Owning
  <2>1. /\ pc(w) \in {"early", "finish"} /\ Status(r) \in {"running", "removed"}
        /\ UNCHANGED <<parent, alerts>>
    BY <1>2, <1>6, <2>0 DEF FinishEarly, Finish, Holds, Owning
  <2>2. /\ \A v \in Workers : v # w => worker'[v] = worker[v]
        /\ pc(w)' \in {"poll", "retry", "notify"}
        /\ worker'[w].run = r \/ pc(w)' = "poll"
    BY <1>0, <1>6, <2>0, WorkerFields DEF FinishEarly, Finish, Same, pc
  <2>3. /\ \A q \in RunIds : q # r => Status(q)' = Status(q)
        /\ Status(r) = "removed" => Status(r)' = "removed"
        /\ Status(r) = "running" => Status(r)' = s
    BY <1>0, <1>6, <2>0, <2>1, RowFields DEF FinishEarly, Finish, MarkFinished, Matches, Status
  <2>4. Status(r) = "running" /\ s \in Retryable => worker'[w].run = r
    <3>1. Status(r) = "running" /\ s \in Retryable => Finish(w)
      BY <1>6, <2>0, <2>1 DEF NothingLost, FinishEarly
    <3>2. ASSUME Finish(w), Status(r) = "running", s \in Retryable PROVE worker'[w].run = r
      <4>1. \E to : Go(w, to)
        BY <1>0, <2>0, <3>2 DEF Finish, Matches, ShouldRetry
      <4> QED BY <1>0, <2>0, <4>1, WorkerFields
    <3> QED BY <3>1, <3>2
  <2>5. ASSUME NEW q \in RunIds, Status(q)' = "running" PROVE \E v \in Workers : Owns(v, q)'
    <3>1. q # r
      BY <2>1, <2>3, <2>5 DEF Terminal
    <3>2. PICK v \in Workers : Owns(v, q)
      BY <2>3, <2>5, <3>1 DEF NothingLost
    <3>3. v # w
      BY <2>0, <3>1, <3>2 DEF Owns
    <3> QED BY <2>2, <3>2, <3>3 DEF Owns, pc
  <2>6. ASSUME NEW v \in Workers, pc(v)' = "early", worker'[v].res \in Retryable
        PROVE  Status(worker[v].run)' = "removed" /\ worker'[v].run = worker[v].run
    <3>1. v # w /\ worker'[v] = worker[v]
      BY <2>2, <2>6
    <3>2. Status(worker[v].run) = "removed" /\ worker[v].run \in RunIds
      BY <1>2, <2>6, <3>1 DEF NothingLost, pc, Holds, Owning
    <3> QED BY <1>1, <3>1, <3>2 DEF RowMoves
  <2>7. ASSUME NEW q \in RunIds, Status(q)' \in Retryable, Unheld(q)' PROVE Answered(q)'
    <3>1. q # r
      BY <2>1, <2>3, <2>4, <2>7 DEF Unheld, Retryable
    <3>2. Status(q) \in Retryable /\ Unheld(q)
      BY <2>0, <2>2, <2>3, <2>7, <3>1 DEF Unheld
    <3> QED BY <2>1, <3>2 DEF NothingLost, Answered, Retries
  <2> QED BY <2>5, <2>6, <2>7 DEF NothingLost, Status
<1>7. ASSUME NEW w \in Workers, Retry(w) \/ LoadForAlert(w) \/ Deliver(w) PROVE NothingLost'
  <2>0. PICK r \in RunIds : r = worker[w].run
    BY <1>2, <1>7 DEF Retry, LoadForAlert, Deliver, Holds, After
  <2>1. /\ pc(w) \in After /\ Status(r) \in Retryable \cup {"removed"}
        /\ Job(r) \in Jobs /\ alerts[r] = 0 /\ UNCHANGED jobs
    BY <1>2, <1>7, <2>0 DEF Retry, LoadForAlert, Deliver, Holds, After, IInv, LinkInv, CoreInv, RowsMatch,
       Links, Unlinked, Retryable
  <2>2. /\ \A v \in Workers : v # w => worker'[v] = worker[v]
        /\ pc(w)' \in {"poll", "deliver"}
        /\ worker'[w].run = r \/ pc(w)' = "poll"
    BY <1>0, <1>7, <2>0, WorkerFields DEF Retry, LoadForAlert, Deliver, Same, pc
  <2>3. \A q \in RunIds : Status(q)' = Status(q) \/ (Status(q) = "none" /\ Status(q)' = "queued")
    <3>1. CASE UNCHANGED runs
      BY <3>1 DEF Status
    <3>2. ASSUME NEW q \in RunIds, NEW j, NEW at, NEW a, CreateQueued(q, j, at, a)
          PROVE  \A p \in RunIds : Status(p)' = Status(p) \/ (Status(p) = "none" /\ Status(p)' = "queued")
      BY <1>0, <3>2, RowFields DEF Status
    <3> QED BY <1>7, <3>1, <3>2 DEF Retry, LoadForAlert, Deliver
  <2>4. \A q \in RunIds : Answered(q) => Answered(q)'
    <3>1. CASE UNCHANGED <<parent, alerts>>
      BY <3>1 DEF Answered, Retries
    <3>2. CASE Deliver(w)
      <4>1. \A q \in RunIds : q # r => alerts'[q] = alerts[q]
        BY <1>0, <2>0, <2>1, <3>2 DEF Deliver, TypeOK
      <4> QED BY <2>0, <2>1, <3>2, <4>1 DEF Deliver, Answered, Retries
    <3>3. CASE Retry(w)
      <4>1. UNCHANGED alerts
        BY <3>3 DEF Retry
      <4>2. ASSUME NEW q \in RunIds, NEW p \in RunIds, parent[p] = q PROVE parent'[p] = q
        <5>1. Status(p) # "none"
          BY <4>2, RunnerAssumption DEF IInv, LinkInv, Links
        <5>2. ASSUME NEW n \in RunIds, Status(n) = "none", parent' = [parent EXCEPT ![n] = r]
              PROVE  parent'[p] = q
          BY <1>0, <4>2, <5>1, <5>2 DEF TypeOK
        <5> QED BY <2>0, <3>3, <4>2, <5>2 DEF Retry, CreateQueued
      <4> QED BY <4>1, <4>2 DEF Answered, Retries
    <3> QED BY <1>7, <3>1, <3>2, <3>3 DEF LoadForAlert
  <2>5. Status(r) \in Retryable /\ worker'[w].run # r => Answered(r)'
    <3> SUFFICES ASSUME Status(r) \in Retryable, worker'[w].run # r PROVE Answered(r)'
      OBVIOUS
    <3>1. CASE Retry(w)
      <4>1. jobs[Job(r)] # NoJob
        BY <2>1 DEF Rooted, Retryable
      <4>2. PICK n \in RunIds : parent' = [parent EXCEPT ![n] = r]
        BY <1>0, <2>0, <3>1, <4>1 DEF Retry
      <4>3. n \in Retries(r)'
        BY <1>0, <4>2 DEF Retries, TypeOK
      <4> QED BY <4>3 DEF Answered
    <3>2. CASE LoadForAlert(w)
      <4>1. Go(w, "deliver")
        BY <1>0, <2>0, <3>2 DEF LoadForAlert, Retryable
      <4> QED BY <1>0, <2>0, <4>1, WorkerFields
    <3>3. CASE Deliver(w)
      <4>1. alerts'[r] = 1
        BY <1>0, <2>0, <2>1, <3>3 DEF Deliver, TypeOK
      <4> QED BY <4>1 DEF Answered
    <3> QED BY <1>7, <3>1, <3>2, <3>3
  <2>6. ASSUME NEW q \in RunIds, Status(q)' = "running" PROVE \E v \in Workers : Owns(v, q)'
    <3>1. PICK v \in Workers : Owns(v, q)
      BY <2>3, <2>6 DEF NothingLost
    <3>2. v # w
      BY <2>0, <2>1, <3>1 DEF Owns, Owning, After
    <3> QED BY <2>2, <3>1, <3>2 DEF Owns, pc
  <2>7. ASSUME NEW v \in Workers, pc(v)' = "early", worker'[v].res \in Retryable
        PROVE  Status(worker[v].run)' = "removed" /\ worker'[v].run = worker[v].run
    <3>1. v # w /\ worker'[v] = worker[v]
      BY <2>2, <2>7
    <3>2. Status(worker[v].run) = "removed" /\ worker[v].run \in RunIds
      BY <1>2, <2>7, <3>1 DEF NothingLost, pc, Holds, Owning
    <3> QED BY <1>1, <3>1, <3>2 DEF RowMoves
  <2>8. ASSUME NEW q \in RunIds, Status(q)' \in Retryable, Unheld(q)' PROVE Answered(q)'
    <3>1. Status(q) \in Retryable
      BY <2>3, <2>8 DEF Retryable
    <3>2. CASE q = r
      BY <2>5, <2>8, <3>1, <3>2 DEF Unheld
    <3>3. CASE q # r
      <4>1. Unheld(q)
        BY <2>0, <2>2, <2>8, <3>3 DEF Unheld
      <4> QED BY <2>4, <3>1, <4>1 DEF NothingLost
    <3> QED BY <3>2, <3>3
  <2> QED BY <2>6, <2>7, <2>8 DEF NothingLost, Status
<1>8. ASSUME Handlers PROVE NothingLost'
  <2>1. UNCHANGED <<parent, alerts>>
    BY <1>8 DEF Handlers, Enqueue, WriteJob, SetEnabled, DeleteJob, DeleteRun, CancelRunningByJob, CallCancel
  <2>2. \A r \in RunIds : Status(r)' \in {Status(r), "queued", "removed"}
    <3>1. CASE UNCHANGED runs
      BY <3>1 DEF Status
    <3>2. ASSUME NEW q \in RunIds, NEW j, NEW at, NEW a, CreateQueued(q, j, at, a)
          PROVE  \A r \in RunIds : Status(r)' \in {Status(r), "queued", "removed"}
      BY <1>0, <3>2, RowFields DEF Status
    <3>3. ASSUME NEW S, RemoveRuns(S)
          PROVE  \A r \in RunIds : Status(r)' \in {Status(r), "queued", "removed"}
      BY <1>0, <3>3, RowFields DEF Status
    <3> QED BY <1>8, <3>1, <3>2, <3>3 DEF Handlers, Enqueue, WriteJob, SetEnabled, DeleteJob, DeleteRun,
               CancelRunningByJob, CallCancel
  <2>3. \A w \in Workers : /\ worker'[w].run = worker[w].run /\ worker'[w].pc = worker[w].pc
                           /\ worker'[w].res = worker[w].res
    <3>1. ASSUME NEW r \in RunIds, CallCancel(r)
          PROVE  \A w \in Workers : /\ worker'[w].run = worker[w].run /\ worker'[w].pc = worker[w].pc
                                    /\ worker'[w].res = worker[w].res
      BY <1>0, <3>1 DEF CallCancel, WorkerRecord
    <3> QED BY <1>8, <3>1 DEF Handlers, Enqueue, WriteJob, SetEnabled, DeleteJob, DeleteRun,
               CancelRunningByJob
  <2> QED BY <2>1, <2>2, <2>3, NothingLostKept DEF pc
<1>9. ASSUME Tick \/ UNCHANGED vars PROVE NothingLost'
  <2>1. UNCHANGED <<runs, worker, parent, alerts>>
    BY <1>9 DEF Tick, vars
  <2> QED BY <2>1, NothingLostKept DEF pc, Status
<1>10. ~Stop /\ ~ProcessExit /\ ~Boot
  BY DEF Calm, Stop, ProcessExit, Boot
<1> QED BY <1>3, <1>4, <1>5, <1>6, <1>7, <1>8, <1>9, <1>10 DEF Next, WorkerStep

LEMMA CalmStep == ASSUME IInv, CalmInv, [Next]_vars PROVE CalmInv'
<1>1. Rooted'
  BY RootedStep DEF CalmInv
<1>2. boots' >= 1 /\ (Calm' => Calm)
  <2>1. boots \in Nat
    BY DEF IInv, LinkInv, CoreInv, TypeOK
  <2>2. CASE Stop \/ ProcessExit
    BY <2>2 DEF Stop, ProcessExit, Calm, CalmInv
  <2>3. CASE Boot
    BY <2>1, <2>3 DEF Boot, Calm, CalmInv
  <2>4. CASE UNCHANGED <<daemon, boots>>
    BY <2>4 DEF Calm, CalmInv
  <2>5. Stop \/ ProcessExit \/ Boot \/ UNCHANGED <<daemon, boots>>
    BY DEF Next, WorkerStep, Claim, Lookup, MarkActive, FinishEarly, Execute, ClearActive, Finish, Retry,
       LoadForAlert, Deliver, WorkerExit, Handlers, Enqueue, WriteJob, SetEnabled, DeleteJob, DeleteRun,
       CancelRunningByJob, CallCancel, Tick, vars, proc
  <2> QED BY <2>2, <2>3, <2>4, <2>5
<1> QED BY <1>1, <1>2, NothingLostStep DEF CalmInv

LEMMA CalmInit == Init => CalmInv
<1> SUFFICES ASSUME Init PROVE CalmInv
  OBVIOUS
<1>1. boots >= 1 /\ \A r \in RunIds : Status(r) = "none"
  BY DEF Init, Status
<1>2. \A w \in Workers : pc(w) = "poll"
  BY DEF Init, Idle, pc
<1> QED BY <1>1, <1>2 DEF CalmInv, Rooted, NothingLost, Retryable

LEMMA CalmAlways == Spec => []CalmInv
<1>1. IInv /\ CalmInv /\ [Next]_vars => CalmInv'
  BY CalmStep
<1> QED BY <1>1, CalmInit, Inductive, PTL DEF Spec

\* Short of faults a row says "running" exactly while a worker owes it an
\* outcome.
THEOREM RunningRowsAreOwned == Spec => []RunningIsOwned
<1>1. ASSUME IInv, CalmInv PROVE RunningIsOwned
  BY <1>1 DEF RunningIsOwned, IInv, LinkInv, CoreInv, RowsMatch, Owns, CalmInv, NothingLost
<1> QED BY <1>1, Inductive, CalmAlways, PTL

\* Short of faults a failed run that is still there was retried or reported.
THEOREM FailuresAreAnswered == Spec => []NoSilentFailure
<1>1. CalmInv => NoSilentFailure
  BY DEF NoSilentFailure, CalmInv, NothingLost, Answered
<1> QED BY <1>1, CalmAlways, PTL

=============================================================================
