------------------------------ MODULE License -------------------------------
(***************************************************************************)
(* internal/license over three rows of the table settings: the requests    *)
(* POST /license/activate, POST /license/deactivate and GET /license, each *)
(* several statements with others in between.  A statement may fail, and   *)
(* the daemon may end at any moment and start again with another public    *)
(* key, or with none.                                                      *)
(*                                                                         *)
(* A token is what its claims say.  A request reads the clock once, to the *)
(* nanosecond: its reading is named after the request.                     *)
(***************************************************************************)
EXTENDS Integers, Sequences

CONSTANTS
  MaxAsks,       \* bound on the requests
  Tokens,
  Claims,        \* of a token: genuine, from (not_before), until (expires_at)
  MaxDay,        \* bound on the clock
  MaxTroubles,   \* bound on the failing statements and restarts
  Nothing,       \* no row; no token
  Open           \* no word

LicenseCalls == 1..MaxAsks   \* in the order in which they come

ASSUME LicenseAssumption ==
  /\ Claims \in [Tokens -> [genuine : BOOLEAN, from : Int, until : Int]]
  /\ {Nothing, Open} \cap (Tokens \cup LicenseCalls) = {}
  /\ MaxAsks \in Nat /\ MaxDay \in Nat /\ MaxTroubles \in Nat

VARIABLES
  keyed,        \* a public key is configured
  today, troubles,
  kept,         \* the rows of settings
  ask,          \* the requests: which, next statement, token, activation, answer
  word,         \* history: the license the last change has answered for, or Open
  interfered    \* history: the requests that a change went on beside

licenseVars == <<keyed, today, troubles, kept, ask, word, interfered>>

\* A variant with one plausible mistake.
DeleteTokenOnly == <<"token", "last_checked_at">>

StoreOrder  == <<"token", "activated_at", "last_checked_at">>
DeleteOrder == <<"token", "activated_at", "last_checked_at">>

NoLicense == [token |-> Nothing, since |-> Nothing]
Unsent == [op |-> "none", at |-> "unsent", n |-> 1, token |-> Nothing, since |-> Nothing,
           answer |-> "none"]

LicenseInit ==
  /\ keyed \in BOOLEAN
  /\ today = 0 /\ troubles = 0
  /\ kept = [n \in {"token", "activated_at", "last_checked_at"} |-> Nothing]
  /\ ask = [q \in LicenseCalls |-> Unsent]
  /\ word = NoLicense /\ interfered = {}

Proceed(q, r) == ask' = [ask EXCEPT ![q] = r]
Reply(q, answer) == Proceed(q, [ask[q] EXCEPT !.at = "answered", !.answer = answer])
SetRow(n, v) == kept' = [kept EXCEPT ![n] = v]

Trouble == troubles < MaxTroubles /\ troubles' = troubles + 1
ReplyError(q) == Trouble /\ Reply(q, "error")

\* The history: a change opens the word, and it stands again when one answers
\* that no other was beside.
Asked(q)    == ask[q].at \notin {"unsent", "answered"}
Changing(q) == Asked(q) /\ ask[q].op # "status"
Comes(q, changes) ==
  /\ interfered' = interfered
       \cup (IF changes THEN {p \in LicenseCalls : Asked(p)} ELSE {})
       \cup (IF \E p \in LicenseCalls : Changing(p) THEN {q} ELSE {})
  /\ word' = IF changes THEN Open ELSE word
Unasked(q) == ask[q].at = "unsent" /\ \A p \in 1..(q - 1) : ask[p].at # "unsent"
Stands(q, license) == word' = IF q \in interfered THEN word ELSE license

-----------------------------------------------------------------------------
(* verify *)

Genuine(t) == Claims[t].genuine

TimeStatus(t) ==
  IF today < Claims[t].from THEN "not_yet_valid"
  ELSE IF today > Claims[t].until THEN "expired" ELSE "active"

Verified(t) ==
  IF ~keyed THEN "open_source"
  ELSE IF Genuine(t) THEN TimeStatus(t) ELSE "invalid"

Accepted(status) == status \in {"open_source", "active"}

-----------------------------------------------------------------------------
(* The requests that change the license *)

\* A token that is not accepted is refused with 400.
Activate(q, t) ==
  /\ Unasked(q)
  /\ LET r == [Unsent EXCEPT !.op = "activate", !.token = t, !.since = q] IN
       IF Accepted(Verified(t))
       THEN Proceed(q, [r EXCEPT !.at = "store"]) /\ Comes(q, TRUE)
       ELSE Proceed(q, [r EXCEPT !.at = "answered", !.answer = Verified(t)]) /\ Comes(q, FALSE)
  /\ UNCHANGED <<keyed, today, troubles, kept>>

Deactivate(q) ==
  /\ Unasked(q)
  /\ Proceed(q, [Unsent EXCEPT !.op = "deactivate", !.at = "delete"])
  /\ Comes(q, TRUE)
  /\ UNCHANGED <<keyed, today, troubles, kept>>

\* A statement of either; the last one answers.  One that fails answers 400 or
\* 500 and leaves what the others have done.
Statement(q, order, value) ==
  LET r == ask[q] IN
  \/ /\ SetRow(order[r.n], value)
     /\ IF r.n < Len(order)
        THEN Proceed(q, [r EXCEPT !.n = @ + 1]) /\ UNCHANGED word
        ELSE Reply(q, "ok") /\ Stands(q, [token |-> r.token, since |-> r.since])
     /\ UNCHANGED troubles
  \/ ReplyError(q) /\ UNCHANGED <<kept, word>>

StoreRow(q) ==
  /\ ask[q].at = "store"
  /\ Statement(q, StoreOrder, IF StoreOrder[ask[q].n] = "token" THEN ask[q].token ELSE q)
  /\ UNCHANGED <<keyed, today, interfered>>

DeleteRow(q) ==
  /\ ask[q].at = "delete"
  /\ Statement(q, DeleteOrder, Nothing)
  /\ UNCHANGED <<keyed, today, interfered>>

-----------------------------------------------------------------------------
(* GET /license *)

GetLicense(q) ==
  /\ Unasked(q)
  /\ Proceed(q, [Unsent EXCEPT !.op = "status", !.at = "read"])
  /\ Comes(q, FALSE)
  /\ UNCHANGED <<keyed, today, troubles, kept>>

WithoutToken == IF keyed THEN "missing" ELSE "open_source"

ReadToken(q) ==
  /\ ask[q].at = "read"
  /\ \/ /\ IF kept["token"] = Nothing THEN Reply(q, WithoutToken)
           ELSE Proceed(q, [ask[q] EXCEPT !.at = "check", !.token = kept["token"]])
        /\ UNCHANGED troubles
     \/ ReplyError(q)
  /\ UNCHANGED <<keyed, today, kept, word, interfered>>

\* The row last_checked_at is written whatever verify says; its error is ignored.
CheckToken(q) ==
  LET status == Verified(ask[q].token) IN
  /\ ask[q].at = "check"
  /\ \/ SetRow("last_checked_at", q) /\ UNCHANGED troubles
     \/ Trouble /\ UNCHANGED kept
  /\ Proceed(q, [ask[q] EXCEPT !.at = IF Accepted(status) THEN "since" ELSE "answered",
                              !.answer = status])
  /\ UNCHANGED <<keyed, today, word, interfered>>

\* ... as are those of the two reads that follow.
ReadSince(q) ==
  /\ ask[q].at = "since"
  /\ \/ Proceed(q, [ask[q] EXCEPT !.at = "answered", !.since = kept["activated_at"]])
        /\ UNCHANGED troubles
     \/ Trouble /\ Proceed(q, [ask[q] EXCEPT !.at = "answered"])
  /\ UNCHANGED <<keyed, today, kept, word, interfered>>

-----------------------------------------------------------------------------

\* The daemon ends and starts again: who has asked gets no answer.
Reconfigure ==
  /\ Trouble
  /\ keyed' \in BOOLEAN
  /\ ask' = [q \in LicenseCalls |-> IF Asked(q) THEN [ask[q] EXCEPT !.at = "answered", !.answer = "lost"]
                                    ELSE ask[q]]
  /\ UNCHANGED <<today, kept, word, interfered>>

NextDay ==
  /\ today < MaxDay /\ today' = today + 1
  /\ UNCHANGED <<keyed, troubles, kept, ask, word, interfered>>

LicenseStep(q) ==
  \/ \E t \in Tokens : Activate(q, t)
  \/ Deactivate(q) \/ GetLicense(q)
  \/ StoreRow(q) \/ DeleteRow(q) \/ ReadToken(q) \/ CheckToken(q) \/ ReadSince(q)

LicenseNext == (\E q \in LicenseCalls : LicenseStep(q)) \/ Reconfigure \/ NextDay

LicenseSpec == LicenseInit /\ [][LicenseNext]_licenseVars

-----------------------------------------------------------------------------
(* Properties *)

\* The last change that succeeded, with none beside it, keeps its word over all
\* its statements: the rows hold its license or none, and every later
\* GET /license tells of that one (token and activation), whatever other reads,
\* failing statements, expiries and restarts come between, until the next change.
Tells(q) == IF ask[q].since = Nothing THEN ask[q].token = word.token
            ELSE [token |-> ask[q].token, since |-> ask[q].since] = word
RowsKeepTheWord ==
  word # Open => [token |-> kept["token"], since |-> kept["activated_at"]] = word
AnswersTellIt ==
  \A q \in LicenseCalls \ interfered :
    Asked(q) /\ ask[q].op = "status" /\ word # Open /\ ask'[q].at = "answered"
      /\ ask'[q].answer \notin {"error", "lost"} => Tells(q)'
LastWordStands == [][RowsKeepTheWord' /\ AnswersTellIt]_licenseVars

=============================================================================
