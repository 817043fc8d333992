------------------------------- MODULE Outputs -------------------------------
(***************************************************************************)
(* internal/maintenance against internal/runner: who creates, references   *)
(* and removes the output files of runs.                                   *)
(*                                                                         *)
(* A run owns one file name; it writes its file while it executes and      *)
(* stores the name in its row (output_path) when it ends.  Purges read the *)
(* names, delete the rows and then the files; the log cap adds up the      *)
(* files, removes the oldest and clears their names.  Each statement and   *)
(* each file operation is a step; SQLite runs one statement at a time.     *)
(* The clock is the number of runs that have ended.                        *)
(***************************************************************************)
EXTENDS Integers, SequencesExt

CONSTANTS
  Runs,
  Requests,   \* purge and delete requests in progress at once
  MaxSize,    \* bytes in the largest file
  MaxBytes,   \* setting max_log_bytes
  Keeps,      \* values of keep_recent
  Events,     \* subset of {"stop", "disconnect", "deleteJob", "crash",
              \* "unremovable"}: the last lets the removal of a file fail
  NoRow, NoFile

Worker == "worker"
Tasks  == Requests \cup {Worker}

Statuses == {"queued", "running", "success", "failed"}
Stamps   == 0..Cardinality(Runs)
Row      == [status : Statuses, stamp : Nat, path : BOOLEAN]

\* What a maintenance call has to do.
Query == [kind : {"age"}, cutoff : Stamps, successOnly : BOOLEAN]
         \cup [kind : {"recent"}, keep : Keeps, successOnly : BOOLEAN]
         \cup [kind : {"one"}, run : Runs]

ASSUME OutputsAssumption ==
  /\ IsFiniteSet(Runs) /\ Keeps \subseteq Nat
  /\ MaxSize \in Nat \ {0} /\ MaxBytes \in Nat \ {0}
  /\ Worker \notin Requests /\ NoRow \notin Row /\ NoFile \notin Nat

VARIABLES
  time,     \* instant of the last end of a run
  row,      \* table job_runs; stamp is COALESCE(finished_at, created_at)
  begun,    \* the runs claimed, in the order of their started_at
  file,     \* output directory: size of a run's file
  exec,     \* a worker of the runner: "no", "shell", "http", "kept", "none", "over"
  task,     \* a maintenance call: stages to come, pc, and what it has read
  trimmed,  \* history: runs whose file the log cap removed
  crossed   \* history: calls of the log cap during which rows were deleted, or
            \* another call cleared the name of a file that it could not remove

hist == <<trimmed, crossed>>
vars == <<time, row, begun, file, exec, task, hist>>

Rest == [stages |-> <<>>, paths |-> {}, items |-> <<>>, total |-> 0, size |-> 0]

\* Variants of definitions below, each with one plausible mistake.
RefsUnchecked(r)    == {}
AboveByOne(total)   == total > MaxBytes + 1
NewestFirst(a, b)   == row[a].stamp > row[b].stamp

Rows       == {r \in Runs : row[r] # NoRow}
Referenced == {r \in Rows : row[r].path}
Size(r)    == IF file[r] = NoFile THEN 0 ELSE file[r]
\* Byte by byte.
Bytes(S)   == Cardinality({b \in S \X (1..MaxSize) : b[2] <= Size(b[1])})

Init ==
  /\ time = 0
  /\ row = [r \in Runs |-> [status |-> "queued", stamp |-> 0, path |-> FALSE]]
  /\ begun = <<>>
  /\ file = [r \in Runs |-> NoFile]
  /\ exec = [r \in Runs |-> "no"]
  /\ task = [t \in Tasks |-> Rest]
  /\ trimmed = {} /\ crossed = {}

-----------------------------------------------------------------------------
(* The runner *)

\* Claim and the first step of execute: newOutputCapture creates the file; an
\* HTTP run creates none yet.
Start(r) ==
  /\ r \in Rows /\ row[r].status = "queued" /\ exec[r] = "no"
  /\ row' = [row EXCEPT ![r].status = "running"]
  /\ begun' = Append(begun, r)
  /\ \/ exec' = [exec EXCEPT ![r] = "shell"] /\ file' = [file EXCEPT ![r] = 0]
     \/ exec' = [exec EXCEPT ![r] = "http"] /\ UNCHANGED file
  /\ UNCHANGED <<time, task, hist>>

\* execute returns: a shell command that does not succeed keeps its file
\* (CloseAndMaybeKeep), an HTTP answer that is not 2xx writes one
\* (writeFailureOutputFile).  A run may also fail without a file.
End(r) ==
  /\ exec[r] \in {"shell", "http"}
  /\ \/ /\ exec' = [exec EXCEPT ![r] = "none"]
        /\ file' = [file EXCEPT ![r] = NoFile]
     \/ /\ exec' = [exec EXCEPT ![r] = "kept"]
        /\ \E n \in 0..MaxSize : file' = [file EXCEPT ![r] = n]
  /\ UNCHANGED <<time, row, begun, task, hist>>

\* MarkFinished: it finds no row if the run has been deleted, and its context
\* is cancelled if the runner is stopping.
MarkFinished(r) ==
  /\ exec[r] \in {"kept", "none"}
  /\ exec' = [exec EXCEPT ![r] = "over"]
  /\ \/ /\ r \in Rows
        /\ time' = time + 1
        /\ \E s \in {"failed"} \cup (IF exec[r] = "none" THEN {"success"} ELSE {}) :
             row' = [row EXCEPT ![r] = [status |-> s, stamp |-> time + 1,
                                        path |-> exec[r] = "kept"]]
     \/ (r \notin Rows \/ "stop" \in Events) /\ UNCHANGED <<time, row>>
  /\ UNCHANGED <<begun, file, task, hist>>

-----------------------------------------------------------------------------
(* Maintenance calls *)

Stage(t)     == Head(task[t].stages)
At(t, name)  == task[t].stages # <<>> /\ Stage(t).do = name
Advance(t)   == [task[t] EXCEPT !.stages = Tail(@)]
Become(t, s) == task' = [task EXCEPT ![t] = s]

Purging(query) == [n \in 1..3 |-> [do |-> <<"select", "delete", "files">>[n], query |-> query]]
Capping        == [n \in 1..3 |-> [do |-> <<"items", "total", "trim">>[n]]]

\* A cycle of the maintenance worker: the log cap, at night also a purge.
Cycle ==
  /\ task[Worker].stages = <<>>
  /\ \/ Become(Worker, [Rest EXCEPT !.stages = Capping])
     \/ \E c \in 0..time :
          LET night == Purging([kind |-> "age", cutoff |-> c, successOnly |-> FALSE])
          IN  Become(Worker, [Rest EXCEPT !.stages = Capping \o night])
  /\ UNCHANGED <<time, row, begun, file, exec, hist>>

\* POST /maintenance/purge, POST /jobs/{id}/runs/purge, DELETE /runs/{id}.
Request(t) ==
  /\ task[t].stages = <<>>
  /\ \E query \in Query :
       /\ query.kind = "age" => query.cutoff <= time
       /\ LET after == IF query.kind = "age" THEN Capping ELSE <<>>
          IN  Become(t, [Rest EXCEPT !.stages = Purging(query) \o after])
  /\ UNCHANGED <<time, row, begun, file, exec, hist>>

\* The rows of PurgeJobRunsKeepRecent: all but the `keep` most recent, by the
\* time they started; a queued row counts by its schedule, anywhere.
OlderThan(r, q) ==
  \E i, n \in DOMAIN begun : i < n /\ begun[i] = r /\ begun[n] = q

AllButRecent(keep, candidates) ==
  {S \in SUBSET candidates :
     /\ Cardinality(candidates \ S) =
          IF Cardinality(candidates) < keep THEN Cardinality(candidates) ELSE keep
     /\ \A r \in S, q \in candidates \ S : ~OlderThan(q, r)}

\* The sets of rows a WHERE clause may select now.
Matching(query) ==
  LET candidates == {r \in Rows : query.kind = "one" \/ ~query.successOnly
                                  \/ row[r].status = "success"}
  IN  CASE query.kind = "age"    -> {{r \in candidates : row[r].stamp < query.cutoff}}
        [] query.kind = "recent" -> AllButRecent(query.keep, candidates)
        [] query.kind = "one"    -> {{query.run} \cap Rows}

SelectPaths(t) ==
  /\ At(t, "select")
  /\ \E S \in Matching(Stage(t).query) :
       Become(t, [Advance(t) EXCEPT !.paths = S \cap Referenced])
  /\ UNCHANGED <<time, row, begun, file, exec, hist>>

Listed == {u \in Tasks : task[u].items # <<>>}

\* The clause is evaluated again.  DeleteRunByID stops if it deletes nothing.
DeleteRows(t) ==
  /\ At(t, "delete")
  /\ \E S \in Matching(Stage(t).query) :
       /\ row' = [r \in Runs |-> IF r \in S THEN NoRow ELSE row[r]]
       /\ Become(t, IF S = {} /\ Stage(t).query.kind = "one" THEN Rest ELSE Advance(t))
  /\ crossed' = crossed \cup Listed
  /\ UNCHANGED <<time, begun, file, exec, trimmed>>

\* How many rows still hold the name of the file.
References(r) == {r} \cap Referenced

\* One round of deleteOrphanedPaths.  A name is in the row of its run only,
\* so that nothing changes between the count and the removal.
RemoveOrphan(t) ==
  /\ At(t, "files")
  /\ \/ \E r \in task[t].paths :
          /\ file' = IF References(r) = {} THEN [file EXCEPT ![r] = NoFile] ELSE file
          /\ Become(t, [task[t] EXCEPT !.paths = @ \ {r}])
     \/ task[t].paths = {} /\ Become(t, Advance(t)) /\ UNCHANGED file
  /\ UNCHANGED <<time, row, begun, exec, hist>>

Purge(t) == SelectPaths(t) \/ DeleteRows(t) \/ RemoveOrphan(t)

-----------------------------------------------------------------------------
(* EnforceOutputLogCap *)

\* The query compares the texts of the instants, which agree with the instants
\* to the second (Timestamps).
OldestFirst(a, b) == row[a].stamp < row[b].stamp

\* Rows of one instant come in any order.
Sorted(S) ==
  {s \in [1..Cardinality(S) -> S] :
     ToSet(s) = S /\ \A i, n \in DOMAIN s : i < n => ~OldestFirst(s[n], s[i])}

ListItems(t) ==
  /\ At(t, "items")
  /\ \E s \in Sorted(Referenced) : Become(t, [Advance(t) EXCEPT !.items = s])
  /\ UNCHANGED <<time, row, begun, file, exec, hist>>

\* runOutputBytes, whose query stays open while it measures the files.
Measure(t) ==
  /\ At(t, "total")
  /\ Become(t, [Advance(t) EXCEPT !.total = Bytes(Referenced)])
  /\ UNCHANGED <<time, row, begun, file, exec, hist>>

Above(total) == total > MaxBytes

\* Stat and Remove: a file that is gone counts for nothing, and one that cannot
\* be removed for as much as if it had been.
TrimFile(t) ==
  /\ At(t, "trim") /\ task[t].items # <<>> /\ Above(task[t].total)
  /\ LET r == Head(task[t].items) IN
       /\ \/ file' = [file EXCEPT ![r] = NoFile] /\ trimmed' = trimmed \cup {r}
          \/ "unremovable" \in Events /\ UNCHANGED <<file, trimmed>>
       /\ Become(t, [task[t] EXCEPT !.stages = <<[do |-> "clear"]>> \o @, !.size = Size(r)])
  /\ UNCHANGED <<time, row, begun, exec, crossed>>

\* UPDATE job_runs SET output_path = NULL
ClearPath(t) ==
  /\ At(t, "clear")
  /\ LET r == Head(task[t].items) IN
       /\ row' = IF r \in Rows THEN [row EXCEPT ![r].path = FALSE] ELSE row
       /\ crossed' = IF file[r] = NoFile THEN crossed ELSE crossed \cup (Listed \ {t})
  /\ Become(t, [Advance(t) EXCEPT !.items = Tail(@), !.total = @ - task[t].size, !.size = 0])
  /\ UNCHANGED <<time, begun, file, exec, trimmed>>

TrimDone(t) ==
  /\ At(t, "trim") /\ (task[t].items = <<>> \/ ~Above(task[t].total))
  /\ Become(t, [Advance(t) EXCEPT !.items = <<>>, !.total = 0])
  /\ crossed' = crossed \ {t}
  /\ UNCHANGED <<time, row, begun, file, exec, trimmed>>

Cap(t) == ListItems(t) \/ Measure(t) \/ TrimFile(t) \/ ClearPath(t) \/ TrimDone(t)

-----------------------------------------------------------------------------
(* What else happens to rows and calls *)

\* DELETE /jobs/{id}: the rows go with the job (ON DELETE CASCADE).
DeleteJob ==
  /\ "deleteJob" \in Events
  /\ row' = [r \in Runs |-> NoRow]
  /\ crossed' = crossed \cup Listed
  /\ UNCHANGED <<time, begun, file, exec, task, trimmed>>

\* The next statement of the call fails: its request has ended; or a purge
\* stops at a file that it cannot remove.
Abort(t) ==
  /\ "disconnect" \in Events /\ task[t].stages # <<>>
  /\ Become(t, Rest)
  /\ crossed' = crossed \ {t}
  /\ UNCHANGED <<time, row, begun, file, exec, trimmed>>

\* The daemon dies and comes back: no call and no execution goes on, and what
\* was running stays "running" in the table.
Crash ==
  /\ "crash" \in Events
  /\ exec' = [r \in Runs |-> IF exec[r] = "no" THEN "no" ELSE "over"]
  /\ task' = [t \in Tasks |-> Rest]
  /\ crossed' = {}
  /\ UNCHANGED <<time, row, begun, file, trimmed>>

Next ==
  \/ \E r \in Runs : Start(r) \/ End(r) \/ MarkFinished(r)
  \/ Cycle
  \/ \E t \in Requests : Request(t)
  \/ \E t \in Tasks : Purge(t) \/ Cap(t) \/ Abort(t)
  \/ DeleteJob
  \/ Crash

Spec == Init /\ [][Next]_vars

-----------------------------------------------------------------------------
(* Properties *)

\* A row that names its output has it: a purge whose rows have changed under
\* it, by another purge or by the run itself, removes no file still in use.
\* Only the log cap takes a file from a row, before it clears the name.
NamedFileExists == \A r \in Referenced : file[r] # NoFile \/ r \in trimmed

\* When a call of the log cap is done, the files it listed that rows still name
\* are within the cap, while runs end around it and other calls trim, unless
\* since it made its list rows were deleted, or another call gave up a file that
\* it could not remove: it counts such a file as freed space although the file
\* was no longer in the sum it measured.
CapReached ==
  \A t \in Tasks \ crossed :
    At(t, "trim") /\ ~Above(task[t].total)
      => Bytes(Referenced \cap ToSet(task[t].items)) <= MaxBytes

\* The log cap takes the oldest first: when a call removes a run's file, no row
\* that names one is older.
OldestGoesFirst ==
  [][\A r \in (trimmed' \ trimmed) \cap Rows, q \in Referenced :
       row[q].stamp >= row[r].stamp]_vars

=============================================================================
