------------------------------ MODULE RunQueue ------------------------------
(***************************************************************************)
(* What the table job_runs promises its users, whatever the workers do in  *)
(* between: a run is queued once, claimed at most once and by one worker,  *)
(* and its outcome, recorded by the worker that claimed it, is final.  A   *)
(* row may be deleted at any time, and a worker may let go of a run        *)
(* without recording an outcome: its row was deleted, a statement failed,  *)
(* or the process ended.                                                   *)
(***************************************************************************)
EXTENDS RunStatus

CONSTANTS RunIds, Workers, NoRun  \* NoRun is no id of a run

VARIABLES
  status,  \* status of every run
  holder   \* the run a worker owes an outcome, or NoRun

vars == <<status, holder>>

Init ==
  /\ status = [r \in RunIds |-> "none"]
  /\ holder = [w \in Workers |-> NoRun]

Enqueue(r) ==
  /\ status[r] = "none"
  /\ status' = [status EXCEPT ![r] = "queued"]
  /\ UNCHANGED holder

Claim(w, r) ==
  /\ status[r] = "queued" /\ holder[w] = NoRun
  /\ status' = [status EXCEPT ![r] = "running"]
  /\ holder' = [holder EXCEPT ![w] = r]

Finish(w, s) ==
  /\ holder[w] \in RunIds /\ status[holder[w]] = "running"
  /\ status' = [status EXCEPT ![holder[w]] = s]
  /\ holder' = [holder EXCEPT ![w] = NoRun]

LetGo(w) ==
  /\ holder' = [holder EXCEPT ![w] = NoRun]
  /\ UNCHANGED status

\* Rows of S go; an id without a row stays what it is.
Remove(S) ==
  /\ status' = [r \in RunIds |-> IF r \in S /\ status[r] # "none" THEN "removed" ELSE status[r]]
  /\ UNCHANGED holder

Crash ==
  /\ holder' = [w \in Workers |-> NoRun]
  /\ UNCHANGED status

Next ==
  \/ \E w \in Workers :
       \/ LetGo(w)
       \/ \E r \in RunIds : Claim(w, r)
       \/ \E s \in Terminal : Finish(w, s)
  \/ \E r \in RunIds : Enqueue(r)
  \/ \E S \in SUBSET RunIds : Remove(S)
  \/ Crash

Spec == Init /\ [][Next]_vars

=============================================================================
