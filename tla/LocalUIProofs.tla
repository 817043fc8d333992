---------------------------- MODULE LocalUIProofs ----------------------------
(***************************************************************************)
(* The page's form belongs to the selected job, for any jobs, any number   *)
(* of handlers at work and any order of their answers.                     *)
(***************************************************************************)
EXTENDS LocalUI, TLAPS

Fields  == MaybeJob \cup {Blank, Draft}
Answers == [tag : {"none", "ok", "refused"}, list : SUBSET PageJobs, job : MaybeJob]
Calls   ==
  [at : {"jobs", "runs", "save", "run", "delete"}, job : MaybeJob, sel : MaybeJob, fields : Fields,
   kept : BOOLEAN, quiet : BOOLEAN, got : Answers]

UITypes ==
  /\ live \subseteq PageJobs /\ unborn \subseteq PageJobs /\ listed \subseteq PageJobs
  /\ selected \in MaybeJob /\ form \in Fields /\ calls \subseteq Calls

UIInv == UITypes /\ EditorFollows

-----------------------------------------------------------------------------
(* Calls *)

LEMMA CallTypes ==
  /\ NoAnswer \in Answers /\ Ok \in Answers /\ Refused \in Answers
  /\ \A at \in {"jobs", "runs", "save", "run", "delete"}, job, sel \in MaybeJob :
       Call(at, job, sel) \in Calls /\ Call(at, job, sel).job = job
<1>1. NoAnswer \in Answers
  BY DEF NoAnswer, Answers, MaybeJob
<1>2. Ok \in Answers /\ Refused \in Answers
  BY <1>1 DEF Ok, Refused, Answers
<1>3. Blank \in Fields
  BY DEF Fields
<1>4. ASSUME NEW at \in {"jobs", "runs", "save", "run", "delete"}, NEW job \in MaybeJob, NEW sel \in MaybeJob
      PROVE  Call(at, job, sel) \in Calls /\ Call(at, job, sel).job = job
  BY <1>1, <1>3 DEF Call, Calls
<1> QED BY <1>1, <1>2, <1>4

LEMMA LoadTypes ==
  \A j \in MaybeJob :
    LoadAll(j) \in Calls /\ LoadJobs(j) \in Calls /\ LoadRuns(j) \in Calls
<1>1. NobodyJob \in MaybeJob
  BY DEF MaybeJob
<1> QED BY <1>1, CallTypes DEF LoadAll, LoadJobs, LoadRuns

LEMMA QuietTypes == ASSUME NEW c \in Calls PROVE Quietly(c) \in Calls
BY DEF Calls, Quietly

LEMMA ReplacedTypes == ASSUME NEW cs \in SUBSET Calls PROVE Replaced(cs) \subseteq Calls
<1>1. ASSUME NEW c \in Calls PROVE [c EXCEPT !.kept = @ /\ ~Creates(c)] \in Calls
  <2> DEFINE kept == c.kept /\ ~Creates(c)
  <2>1. kept \in BOOLEAN
    OBVIOUS
  <2> HIDE DEF kept
  <2>2. [c EXCEPT !.kept = kept] \in Calls
    BY <2>1 DEF Calls
  <2> QED BY <2>2 DEF kept
<1> QED BY <1>1 DEF Replaced

LEMMA ReloadedTypes == ASSUME NEW j \in MaybeJob PROVE Reloaded(j) \subseteq Calls
BY LoadTypes DEF Reloaded

-----------------------------------------------------------------------------
(* Steps *)

\* The selection and the form are set together.
LEMMA ShowKeeps ==
  ASSUME UIInv, NEW sel \in MaybeJob, NEW fields, NEW cs \in SUBSET Calls, NEW otherwise,
         Show(sel, fields, cs, otherwise), fields = sel \/ (sel = NobodyJob /\ fields = Blank),
         live' \subseteq PageJobs, unborn' \subseteq PageJobs, listed' \subseteq PageJobs
  PROVE  UIInv'
<1>1. calls' \subseteq Calls
  BY ReplacedTypes, ReloadedTypes DEF Show
<1> QED BY <1>1 DEF Show, UIInv, UITypes, EditorFollows, Fields

\* A step that leaves the editor alone.
LEMMA EditorStays ==
  ASSUME UIInv, UNCHANGED <<selected, form, strayed>>, calls' \subseteq Calls,
         live' \subseteq PageJobs, unborn' \subseteq PageJobs, listed' \subseteq PageJobs
  PROVE  UIInv'
BY DEF UIInv, UITypes, EditorFollows

LEMMA UserKeeps == ASSUME UIInv, User PROVE UIInv'
<1> NobodyJob \in MaybeJob /\ PageJobs \subseteq MaybeJob
  BY DEF MaybeJob
<1> USE DEF UIInv, UITypes
<1>1. ASSUME NEW j \in PageJobs, SelectJob(j) PROVE UIInv'
  <2>1. calls \cup {Quietly(LoadRuns(j))} \in SUBSET Calls
    BY LoadTypes, QuietTypes
  <2>2. Show(j, j, calls \cup {Quietly(LoadRuns(j))}, busy) /\ UNCHANGED <<server, listed, shown>>
    BY <1>1 DEF SelectJob
  <2> QED BY <2>1, <2>2, ShowKeeps DEF server
<1>2. CASE New
  BY <1>2, ShowKeeps DEF New, server
<1>3. CASE Type
  BY <1>3, PageAssumption DEF Type, EditorFollows, server, Fields
<1>4. ASSUME NEW c \in Calls, Click(c) PROVE UIInv'
  BY <1>4, EditorStays DEF Click, server
<1>5. CASE Save
  <2>1. Call("save", selected, selected) \in Calls
    BY CallTypes
  <2>2. [Call("save", selected, selected) EXCEPT !.fields = form] \in Calls
    BY <2>1 DEF Calls
  <2> QED BY <1>4, <1>5, <2>2 DEF Save
<1>6. CASE RunNow
  BY <1>4, <1>6, CallTypes DEF RunNow
<1>7. CASE DeleteJob
  BY <1>4, <1>7, CallTypes DEF DeleteJob
<1>8. CASE PauseOrResume \/ ManageHistory \/ Refresh
  BY <1>4, <1>8, LoadTypes DEF PauseOrResume, ManageHistory, Refresh
<1> QED BY <1>1, <1>2, <1>3, <1>5, <1>6, <1>7, <1>8 DEF User

LEMMA PollKeeps == ASSUME UIInv, Poll PROVE UIInv'
<1>1. PollCalls \subseteq Calls
  BY LoadTypes, QuietTypes DEF PollCalls, UIInv, UITypes
<1> QED BY <1>1, EditorStays DEF Poll, server, UIInv, UITypes

LEMMA HandleKeeps == ASSUME UIInv, NEW c \in calls, Handle(c) PROVE UIInv'
<1>1. ASSUME NEW answer \in Answers, Give(c, answer) PROVE calls' \subseteq Calls
  <2>1. [c EXCEPT !.got = answer] \in Calls
    BY DEF UIInv, UITypes, Calls
  <2> QED BY <1>1, <2>1 DEF Give, UIInv, UITypes
<1>2. CASE Give(c, [Ok EXCEPT !.list = live]) /\ UNCHANGED <<live, unborn>>
  <2>1. [Ok EXCEPT !.list = live] \in Answers
    BY CallTypes DEF Answers, UIInv, UITypes
  <2> QED BY <1>1, <1>2, <2>1, EditorStays DEF Handle, UIInv, UITypes
<1>3. ASSUME NEW j \in unborn, live' = live \cup {j}, unborn' = unborn \ {j}, Give(c, [Ok EXCEPT !.job = j])
      PROVE  UIInv'
  <2>1. [Ok EXCEPT !.job = j] \in Answers
    BY CallTypes DEF Answers, UIInv, UITypes, MaybeJob
  <2> QED BY <1>1, <1>3, <2>1, EditorStays DEF Handle, UIInv, UITypes
<1>4. CASE /\ live' = live \ {c.job} /\ UNCHANGED unborn
           /\ Give(c, IF c.job \in live THEN Ok ELSE Refused)
  BY <1>1, <1>4, CallTypes, EditorStays DEF Handle, UIInv, UITypes
<1> QED BY <1>2, <1>3, <1>4 DEF Handle

LEMMA AnswerKeeps == ASSUME UIInv, NEW c \in calls, Answer(c) PROVE UIInv'
<1>1. /\ c \in Calls /\ c.job \in MaybeJob /\ c.sel \in MaybeJob /\ c.got \in Answers
      /\ c.got.job \in MaybeJob /\ c.got.list \subseteq PageJobs
  BY DEF UIInv, UITypes, Calls, Answers
<1>2. UNCHANGED <<live, unborn, losses>> /\ NobodyJob \in MaybeJob
  BY DEF Answer, server, MaybeJob
<1>3. Others(c) \subseteq Calls /\ \A load \in Calls : Onward(c, load) \subseteq Calls
  BY DEF Others, Onward, UIInv, UITypes
<1>4. CASE Saved(c)
  <2>1. CASE c.sel # NobodyJob
    BY <1>1, <1>2, <1>3, <1>4, <2>1, LoadTypes, EditorStays DEF Saved, UIInv, UITypes
  <2>2. CASE c.sel = NobodyJob
    <3>1. /\ selected' = c.got.job /\ form' = IF c.kept THEN c.got.job ELSE form
          /\ strayed' = (form' # c.got.job) /\ listed' = listed
          /\ calls' = Onward(c, Call("jobs", c.got.job, NobodyJob)) \cup Reloaded(c.got.job)
      BY <1>4, <2>2 DEF Saved
    <3>2. calls' \subseteq Calls
      BY <1>1, <1>2, <1>3, <3>1, CallTypes, ReloadedTypes
    <3> QED BY <1>1, <1>2, <3>1, <3>2 DEF UIInv, UITypes, EditorFollows, Fields
  <2> QED BY <2>1, <2>2
<1>5. CASE RunQueued(c)
  <2>1. /\ selected' \in MaybeJob /\ calls' = Onward(c, LoadRuns(c.job)) \cup Reloaded(selected')
        /\ strayed' = (IF selected' = selected THEN strayed ELSE form # selected')
        /\ UNCHANGED <<listed, form, shown>>
    BY <1>1, <1>5 DEF RunQueued, UIInv, UITypes
  <2>2. calls' \subseteq Calls
    BY <1>1, <1>3, <2>1, LoadTypes, ReloadedTypes
  <2> QED BY <1>2, <2>1, <2>2 DEF UIInv, UITypes, EditorFollows
<1>6. CASE Deleted(c)
  <2>1. Onward(c, LoadJobs(c.sel)) \in SUBSET Calls
    BY <1>1, <1>3, LoadTypes
  <2>2. CASE c.sel = c.job
    BY <1>2, <1>6, <2>1, <2>2, ShowKeeps DEF Deleted, UIInv, UITypes
  <2>3. CASE c.sel # c.job
    BY <1>2, <1>6, <2>1, <2>3, EditorStays DEF Deleted, UIInv, UITypes
  <2> QED BY <2>2, <2>3
<1>7. CASE JobsLoaded(c)
  <2> DEFINE over  == c.job = NobodyJob
             after == IF over THEN Others(c) ELSE Onward(c, LoadRuns(c.job))
             still == IF over THEN BusyWithout(c) ELSE busy
  <2>1. after \in SUBSET Calls /\ listed' \subseteq PageJobs
    BY <1>1, <1>3, <1>7, LoadTypes DEF JobsLoaded
  <2>2. \/ Show(NobodyJob, Blank, after, still)
        \/ calls' = after /\ UNCHANGED <<selected, form, strayed>>
    BY <1>7 DEF JobsLoaded
  <2> HIDE DEF after, still
  <2>3. CASE Show(NobodyJob, Blank, after, still)
    BY <1>2, <2>1, <2>3, ShowKeeps DEF UIInv, UITypes
  <2>4. CASE calls' = after /\ UNCHANGED <<selected, form, strayed>>
    BY <1>2, <2>1, <2>4, EditorStays DEF UIInv, UITypes
  <2> QED BY <2>2, <2>3, <2>4
<1>8. CASE RunsLoaded(c) \/ Fails(c)
  BY <1>2, <1>3, <1>8, EditorStays DEF RunsLoaded, Fails, GivenUp, UIInv, UITypes
<1> QED BY <1>4, <1>5, <1>6, <1>7, <1>8 DEF Answer

-----------------------------------------------------------------------------
(* Theorem *)

\* The form holds the selected job, or a new one when none is selected, until
\* the selection has moved by itself, in whatever order answers, polls, clears
\* and deletions come.
THEOREM TheEditorFollows == UISpec => []EditorFollows
<1>1. UIInit => UIInv
  BY PageAssumption, LoadTypes DEF UIInit, UIInv, UITypes, EditorFollows, MaybeJob, Fields
<1>2. UIInv /\ [UINext]_uiVars => UIInv'
  <2> SUFFICES ASSUME UIInv, [UINext]_uiVars PROVE UIInv'
    OBVIOUS
  <2>1. CASE UNCHANGED uiVars
    BY <2>1 DEF UIInv, UITypes, EditorFollows, uiVars, server, page
  <2>2. ASSUME NEW c \in calls, Lost(c) PROVE UIInv'
    BY <2>2, EditorStays DEF Lost, GivenUp, Others, UIInv, UITypes
  <2>3. CASE Going(calls)
    BY <2>3, HandleKeeps, AnswerKeeps DEF Going
  <2> QED BY <2>1, <2>2, <2>3, UserKeeps, PollKeeps DEF UINext
<1>3. UIInv => EditorFollows
  BY DEF UIInv
<1> QED BY <1>1, <1>2, <1>3, PTL DEF UISpec

=============================================================================
