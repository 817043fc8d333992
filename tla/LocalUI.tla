------------------------------- MODULE LocalUI -------------------------------
(***************************************************************************)
(* The editor and the lists of the local web page (ui/src/App.tsx): which  *)
(* job is selected, whose fields the form holds, whose runs are shown.     *)
(*                                                                         *)
(* A handler of the page runs up to its next await in one step and goes on *)
(* when the answer is there; what it read of the page before it has then   *)
(* captured (`sel`).  Between the two the user may click whatever `busy`   *)
(* does not disable, other answers arrive and the poll goes on.  A job's   *)
(* fields are abstracted to the job they belong to; switching a job on or  *)
(* off, the history actions and the storage and settings panels are here   *)
(* for the loads they do only.                                             *)
(***************************************************************************)
EXTENDS FiniteSets, Naturals

CONSTANTS
  PageJobs,     \* identifiers of jobs
  FirstLists,   \* the jobs there may be when the page is opened
  NobodyJob,    \* no job: null
  Blank, Draft, \* the form's default fields, and fields typed for a new job
  MaxCalls,     \* bound on the handlers at work when the user clicks
  MaxLosses     \* bound on the requests that fail

MaybeJob == PageJobs \cup {NobodyJob}

ASSUME PageAssumption ==
  /\ FirstLists \subseteq SUBSET PageJobs
  /\ NobodyJob \notin PageJobs /\ {Blank, Draft} \cap MaybeJob = {} /\ Blank # Draft
  /\ MaxCalls \in Nat /\ MaxLosses \in Nat

VARIABLES
  live, unborn,  \* table jobs: the jobs in it, the identifiers not yet given
  losses,
  listed,        \* jobs: the list on the page
  selected,      \* selectedJobId
  form,          \* jobForm: the job whose fields it holds, Blank or Draft
  shown,         \* runs: the job whose history is shown
  busy,
  calls,         \* the handlers that wait for an answer
  strayed        \* history: the selection has moved away from the form

server  == <<live, unborn, losses>>
page    == <<listed, selected, form, shown, busy, calls, strayed>>
uiVars  == <<server, page>>

\* A call waits for the answer to a save, a run, a delete, the list of jobs or
\* the runs of a job.  `job` is what it is about (at "jobs": whose runs it loads
\* next), `sel` the selectedJobId it has captured; a quiet one has not set
\* `busy`; `fields` is what a save sends, and `kept` that the form is still as
\* it was then.
NoAnswer == [tag |-> "none", list |-> {}, job |-> NobodyJob]
Ok       == [NoAnswer EXCEPT !.tag = "ok"]
Refused  == [NoAnswer EXCEPT !.tag = "refused"]
Call(at, job, sel) ==
  [at |-> at, job |-> job, sel |-> sel, fields |-> Blank, kept |-> TRUE, quiet |-> FALSE,
   got |-> NoAnswer]
Quietly(c) == [c EXCEPT !.quiet = TRUE]

LoadAll(sel)  == Call("jobs", sel, sel)
LoadJobs(sel) == Call("jobs", NobodyJob, sel)
LoadRuns(job) == Call("runs", job, NobodyJob)

UIInit ==
  /\ live \in FirstLists /\ unborn = PageJobs \ live
  /\ losses = 0
  /\ listed = {} /\ selected = NobodyJob /\ form = Blank /\ shown = NobodyJob
  /\ busy = TRUE /\ strayed = FALSE
  /\ calls = {LoadAll(NobodyJob)}

-----------------------------------------------------------------------------
(* The page *)

\* The effect that depends on selectedJobId: loadAll runs again.
Reloaded(sel) == IF sel = selected THEN {} ELSE {LoadAll(sel)}
BusyAfter(sel, otherwise) == sel # selected \/ otherwise

\* The form is filled anew: it is not that of a create under way any more.
Creates(c) == c.at = "save" /\ c.job = NobodyJob
Replaced(cs) == {[c EXCEPT !.kept = @ /\ ~Creates(c)] : c \in cs}

\* setSelectedJobId with setJobForm.
Show(sel, fields, cs, otherwise) ==
  /\ selected' = sel /\ form' = fields /\ strayed' = FALSE
  /\ calls' = Replaced(cs) \cup Reloaded(sel)
  /\ busy' = BusyAfter(sel, otherwise)

MayCall == Cardinality(calls) < MaxCalls

SelectJob(j) ==
  /\ MayCall /\ j \in listed
  /\ Show(j, j, calls \cup {Quietly(LoadRuns(j))}, busy)
  /\ UNCHANGED <<server, listed, shown>>

\* A variant with one plausible mistake.
PollJobsOnly == {Quietly(LoadJobs(selected))}

\* clearEditor
New ==
  /\ MayCall
  /\ Show(NobodyJob, Blank, calls, busy)
  /\ UNCHANGED <<server, listed, shown>>

\* The user types a name into the empty form.
Type ==
  /\ form = Blank /\ form' = Draft
  /\ UNCHANGED <<server, listed, selected, shown, busy, calls, strayed>>

\* A button that `busy` disables.
Click(call) ==
  /\ ~busy /\ MayCall
  /\ busy' = TRUE /\ calls' = calls \cup {call}
  /\ UNCHANGED <<server, listed, selected, form, shown, strayed>>

\* onSaveJob; a form without a name is not submitted.  (Bound: the identifiers.)
Save ==
  /\ form # Blank
  /\ selected = NobodyJob =>
       Cardinality({c \in calls : Creates(c) /\ c.got = NoAnswer}) < Cardinality(unborn)
  /\ Click([Call("save", selected, selected) EXCEPT !.fields = form])
RunNow    == \E j \in listed : Click(Call("run", j, selected))
DeleteJob == \E j \in listed : Click(Call("delete", j, selected))

\* What these ask for first is not in the model; they go on with a load.
PauseOrResume == listed # {} /\ Click(LoadJobs(selected))
ManageHistory == selected # NobodyJob /\ Click(LoadRuns(selected))
Refresh       == Click(LoadAll(selected))

\* The interval of 8 s.  (Bound: one poll at a time.)
PollCalls ==
  {Quietly(LoadJobs(selected))}
    \cup (IF selected = NobodyJob THEN {} ELSE {Quietly(LoadRuns(selected))})
Poll ==
  /\ MayCall /\ \A c \in calls : ~(c.quiet /\ c.at = "jobs")
  /\ calls' = calls \cup PollCalls
  /\ UNCHANGED <<server, listed, selected, form, shown, busy, strayed>>

User ==
  \/ \E j \in PageJobs : SelectJob(j)
  \/ New \/ Type \/ Save \/ RunNow \/ PauseOrResume \/ DeleteJob \/ ManageHistory \/ Refresh

-----------------------------------------------------------------------------
(* The daemon *)

Give(c, answer) == calls' = (calls \ {c}) \cup {[c EXCEPT !.got = answer]}

\* The daemon handles the request the call waits for, at some time before the
\* answer arrives: it lists, creates or deletes.  Of the other requests only
\* the outcome counts, which they find with the answer.
Lists(c)   == c.at = "jobs"
Deletes(c) == c.at = "delete"
Handle(c) ==
  /\ c.got = NoAnswer
  /\ \/ Lists(c) /\ Give(c, [Ok EXCEPT !.list = live]) /\ UNCHANGED <<live, unborn>>
     \/ /\ Creates(c)
        /\ \E j \in unborn :
             /\ live' = live \cup {j} /\ unborn' = unborn \ {j}
             /\ Give(c, [Ok EXCEPT !.job = j])
     \/ /\ Deletes(c)
        /\ live' = live \ {c.job}
        /\ Give(c, IF c.job \in live THEN Ok ELSE Refused)
        /\ UNCHANGED unborn
  /\ UNCHANGED <<losses, listed, selected, form, shown, busy, strayed>>

\* 404: the job is not there.
Outcome(c) ==
  IF Lists(c) \/ Creates(c) \/ Deletes(c) THEN c.got.tag
  ELSE IF c.job \in live THEN "ok" ELSE "refused"

-----------------------------------------------------------------------------
(* The answers *)

Got(c, at) == Outcome(c) = "ok" /\ c.at = at

\* finally: setBusy(false), for the calls that have set it.
BusyWithout(c) == busy /\ c.quiet

Others(c) == calls \ {c}
Onward(c, load) == Others(c) \cup {load}

\* createJob or updateJob has answered; loadJobs and loadRuns come next.
Saved(c) ==
  /\ Got(c, "save")
  /\ IF c.sel # NobodyJob
     THEN calls' = Onward(c, LoadAll(c.sel)) /\ UNCHANGED <<selected, form, busy, strayed>>
     ELSE LET j == c.got.job IN
             /\ selected' = j
             /\ form' = IF c.kept THEN j ELSE form
             /\ strayed' = (form' # j)
             /\ calls' = Onward(c, Call("jobs", j, NobodyJob)) \cup Reloaded(j)
             /\ busy' = BusyAfter(j, busy)
  /\ UNCHANGED <<listed, shown>>

\* runJobNow has answered: the job is selected, the form is left alone.
RunQueued(c) ==
  /\ Got(c, "run")
  /\ selected' = IF c.sel # c.job THEN c.job ELSE selected
  /\ strayed' = IF selected' = selected THEN strayed ELSE form # selected'
  /\ calls' = Onward(c, LoadRuns(c.job)) \cup Reloaded(selected')
  /\ busy' = BusyAfter(selected', busy)
  /\ UNCHANGED <<listed, form, shown>>

\* The editor is cleared when the job was the selected one at the click.
Deleted(c) ==
  /\ Got(c, "delete")
  /\ IF c.sel = c.job THEN Show(NobodyJob, Blank, Onward(c, LoadJobs(c.sel)), busy)
     ELSE calls' = Onward(c, LoadJobs(c.sel)) /\ UNCHANGED <<selected, form, busy, strayed>>
  /\ UNCHANGED <<listed, shown>>

\* loadJobs: a selection that the list does not hold is cleared; both are those
\* of the call.
JobsLoaded(c) ==
  LET over  == c.job = NobodyJob
      after == IF over THEN Others(c) ELSE Onward(c, LoadRuns(c.job))
      still == IF over THEN BusyWithout(c) ELSE busy
  IN
  /\ Got(c, "jobs")
  /\ listed' = c.got.list
  /\ IF c.sel # NobodyJob /\ c.sel \notin c.got.list
     THEN Show(NobodyJob, Blank, after, still) /\ shown' = NobodyJob
     ELSE calls' = after /\ busy' = still /\ UNCHANGED <<selected, form, shown, strayed>>

\* loadRuns: whatever is selected by now.
RunsLoaded(c) ==
  /\ Got(c, "runs")
  /\ shown' = c.job
  /\ calls' = Others(c) /\ busy' = BusyWithout(c)
  /\ UNCHANGED <<listed, selected, form, strayed>>

\* An error is shown and the call is over.
GivenUp(c) ==
  /\ calls' = Others(c) /\ busy' = BusyWithout(c)
  /\ UNCHANGED <<listed, selected, form, shown, strayed>>

Fails(c) == Outcome(c) = "refused" /\ GivenUp(c)

\* No answer, or 500; the daemon may have done its part.
Lost(c) ==
  /\ losses < MaxLosses /\ losses' = losses + 1
  /\ GivenUp(c)
  /\ UNCHANGED <<live, unborn>>

Answer(c) ==
  /\ \/ Saved(c) \/ RunQueued(c) \/ Deleted(c)
     \/ JobsLoaded(c) \/ RunsLoaded(c) \/ Fails(c)
  /\ UNCHANGED server

Going(cs) == \E c \in cs : Handle(c) \/ Answer(c)

UINext == User \/ Poll \/ Going(calls) \/ \E c \in calls : Lost(c)

\* The timer of the interval fires whatever the user does, and the daemon
\* answers; the user need not do anything.
Quiet(at) == {c \in calls : c.quiet /\ c.at = at}
Loud      == {c \in calls : ~c.quiet}
UISpec == UIInit /\ [][UINext]_uiVars
FairUISpec ==
  /\ UISpec /\ SF_uiVars(Poll)
  /\ WF_uiVars(Going(Quiet("jobs"))) /\ WF_uiVars(Going(Quiet("runs"))) /\ WF_uiVars(Going(Loud))

-----------------------------------------------------------------------------
(* Properties *)

\* The form holds the selected job, or a new one when none is selected, unless
\* the selection has moved by itself: Run now was clicked for another job, or a
\* create was answered after the form was filled anew.  No order of answers,
\* polls, clears and deletions separates the two otherwise.
EditorFollows ==
  ~strayed => form = selected \/ (selected = NobodyJob /\ form \in {Blank, Draft})

\* What the page says when it saves (App.tsx:346, `Saved changes for "<name in
\* the form>"`, under the heading "Edit Job"): an update goes to the job whose
\* fields the form holds.
UpdatesTheJobShown ==
  \A c \in calls : c.at = "save" /\ c.job # NobodyJob => c.fields = c.job

\* Late answers and lost ones do not last: the page comes to the jobs there are
\* and to a selection among them, to the runs of a job that stays selected, and
\* its buttons come back.
PageSettles ==
  /\ <>[](listed = live /\ selected \in live \cup {NobodyJob})
  /\ \A j \in PageJobs : <>[](selected = j) => <>[](shown = j)
  /\ []<>~busy

=============================================================================
