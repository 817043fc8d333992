------------------------------ MODULE Settings ------------------------------
(***************************************************************************)
(* The settings a user changes, in the table of internal/settings, and the *)
(* handlers that change and use them: PUT /settings/retention, and the     *)
(* purge request and the maintenance cycle, which like it bring the output *)
(* files under max_log_bytes.  A handler reads and writes one key per      *)
(* statement; others come between, and a statement may fail, which ends    *)
(* the handler with 500 where it is.                                       *)
(*                                                                         *)
(* How the log cap chooses files is in Outputs; here it is one step that   *)
(* leaves at most the limit it was called with.                            *)
(***************************************************************************)
EXTENDS Integers, SequencesExt

CONSTANTS
  Puts,         \* bound: the requests to PUT /settings/retention
  Bodies,       \* what they may ask for: functions from some of Keys
  MaxWrites,    \* bound on the output the runs write
  MaxErrors,    \* bound on the failing statements
  Unset         \* no row

\* The order in which the handler reads and writes them.
KeyOrder == <<"retention_days", "max_log_bytes", "global_concurrency">>
Keys     == ToSet(KeyOrder)

ASSUME SettingsAssumption ==
  /\ \A body \in Bodies : DOMAIN body \subseteq Keys /\ \A k \in DOMAIN body : body[k] \in Int
  /\ MaxWrites \in Nat /\ MaxErrors \in Nat
  /\ Unset \notin Int

VARIABLES
  table,      \* the rows of settings
  put,        \* the requests: body, next statement, what was read, the answer
  cap,        \* the two that enforce the limit: the step and the limit read
  logBytes,   \* size of the output files
  written, errors,
  before,     \* history: the settings when the request came ...
  overlapped  \* ... and the requests with another one between begin and end

settingsVars == <<table, put, cap, logBytes, written, errors, before, overlapped>>

Enforcers == {"cycle", "purge"}

\* GetInt falls back when there is no row.
Fallback == [k \in Keys |-> IF k = "max_log_bytes" THEN MaxWrites + 1 ELSE 1]
Get(k)   == IF table[k] = Unset THEN Fallback[k] ELSE table[k]
Upsert(k, v) == table' = [table EXCEPT ![k] = v]
Present  == [k \in Keys |-> Get(k)]

Idle == [at |-> "idle", n |-> 0, body |-> <<>>, values |-> Fallback]

SettingsInit ==
  /\ table = [k \in Keys |-> Unset]
  /\ put = [q \in Puts |-> Idle]
  /\ cap = [e \in Enforcers |-> [at |-> "idle", limit |-> 0]]
  /\ logBytes = 0 /\ written = 0 /\ errors = 0
  /\ before = [q \in Puts |-> Fallback] /\ overlapped = {}

Min2(x, y) == IF x < y THEN x ELSE y

\* EnforceOutputLogCap; it may fail between two files.
Enforce(limit) == logBytes' = Min2(logBytes, limit)
EnforceInPart(limit) == \E left \in Min2(logBytes, limit)..logBytes : logBytes' = left

Err == errors < MaxErrors /\ errors' = errors + 1

-----------------------------------------------------------------------------
(* PUT /settings/retention *)

Working(q) == put[q].at \in {"load", "store", "cap"}
SetPut(q, r) == put' = [put EXCEPT ![q] = r]

Answered500(q) == Err /\ SetPut(q, [put[q] EXCEPT !.at = "failed"])

\* The history of who overlaps whom.
Arrives(q) ==
  LET others == {p \in Puts : Working(p)} IN
  /\ before' = [before EXCEPT ![q] = Present]
  /\ overlapped' = IF others = {} THEN overlapped ELSE overlapped \cup others \cup {q}

Put(q) ==
  /\ put[q].at = "idle"
  /\ \E body \in Bodies : SetPut(q, [Idle EXCEPT !.at = "load", !.n = 1, !.body = body])
  /\ Arrives(q)
  /\ UNCHANGED <<table, cap, logBytes, written, errors>>

Valid(body) ==
  /\ \A k \in DOMAIN body : body[k] > 0
  /\ "global_concurrency" \in DOMAIN body => body["global_concurrency"] <= 2

\* Variants, each with one plausible mistake.
MergeDefaults(values, body) == [k \in Keys |-> IF k \in DOMAIN body THEN body[k] ELSE Fallback[k]]
LimitUnread(e) == Fallback["max_log_bytes"]

\* What the request does not name keeps the value that was read.
Merge(values, body) == [k \in Keys |-> IF k \in DOMAIN body THEN body[k] ELSE values[k]]

LoadSetting(q) ==
  LET r == put[q]  read == [r.values EXCEPT ![KeyOrder[r.n]] = Get(KeyOrder[r.n])] IN
  /\ r.at = "load"
  /\ \/ /\ IF r.n < Len(KeyOrder) THEN SetPut(q, [r EXCEPT !.n = @ + 1, !.values = read])
           ELSE IF Valid(r.body)
           THEN SetPut(q, [r EXCEPT !.at = "store", !.n = 1, !.values = Merge(read, r.body)])
           ELSE SetPut(q, [r EXCEPT !.at = "refused"])
        /\ UNCHANGED errors
     \/ Answered500(q)
  /\ UNCHANGED <<table, cap, logBytes, written, before, overlapped>>

StoreSetting(q) ==
  LET r == put[q] IN
  /\ r.at = "store"
  /\ \/ /\ Upsert(KeyOrder[r.n], r.values[KeyOrder[r.n]])
        /\ SetPut(q, IF r.n < Len(KeyOrder) THEN [r EXCEPT !.n = @ + 1] ELSE [r EXCEPT !.at = "cap"])
        /\ UNCHANGED errors
     \/ Answered500(q) /\ UNCHANGED table
  /\ UNCHANGED <<cap, logBytes, written, before, overlapped>>

\* The value the request has stored, not the one the table holds by now.
CapAfterPut(q) ==
  LET r == put[q] IN
  /\ r.at = "cap"
  /\ \/ Enforce(r.values["max_log_bytes"]) /\ SetPut(q, [r EXCEPT !.at = "ok"]) /\ UNCHANGED errors
     \/ Answered500(q) /\ EnforceInPart(r.values["max_log_bytes"])
  /\ UNCHANGED <<table, cap, written, before, overlapped>>

PutStep(q) == LoadSetting(q) \/ StoreSetting(q) \/ CapAfterPut(q)

-----------------------------------------------------------------------------
(* The maintenance cycle and POST /maintenance/purge *)

LimitFor(e) == Get("max_log_bytes")

ReadLimit(e) ==
  /\ cap[e].at = "idle"
  /\ \/ cap' = [cap EXCEPT ![e] = [at |-> "cap", limit |-> LimitFor(e)]] /\ UNCHANGED errors
     \/ Err /\ UNCHANGED cap
  /\ UNCHANGED <<table, put, logBytes, written, before, overlapped>>

EnforceLimit(e) ==
  /\ cap[e].at = "cap"
  /\ \/ Enforce(cap[e].limit) /\ UNCHANGED errors
     \/ Err /\ EnforceInPart(cap[e].limit)
  /\ cap' = [cap EXCEPT ![e] = [at |-> "idle", limit |-> 0]]
  /\ UNCHANGED <<table, put, written, before, overlapped>>

Capping(e) == ReadLimit(e) \/ EnforceLimit(e)

\* A run ends and leaves its output.
RunWrites ==
  /\ written < MaxWrites
  /\ written' = written + 1 /\ logBytes' = logBytes + 1
  /\ UNCHANGED <<table, put, cap, errors, before, overlapped>>

SettingsNext ==
  \/ \E q \in Puts : Put(q) \/ PutStep(q)
  \/ \E e \in Enforcers : Capping(e)
  \/ RunWrites

\* A handler at work goes on, and the worker's ticker ticks; nobody has to send
\* a request.
SettingsFairness ==
  /\ \A q \in Puts : WF_settingsVars(PutStep(q))
  /\ WF_settingsVars(Capping("cycle"))

-----------------------------------------------------------------------------
(* Properties *)

\* A request that no other one overlapped keeps its promise over all its
\* statements: when it answers 200 it has set what it named and nothing else,
\* when it fails it has set that in some first keys of its order, and when it
\* refuses it has set nothing.  (Of two that overlap, the later statements win,
\* and one may take back a key that only the other one named.)
AloneUpdateIsExact ==
  [][\A q \in Puts \ overlapped :
       LET named     == DOMAIN put[q].body
           change(n) == named \cap ToSet(SubSeq(KeyOrder, 1, n))
           has(n)    == \A k \in Keys : Get(k)' = IF k \in change(n) THEN put[q].body[k] ELSE before[q][k]
           ends(how) == Working(q) /\ put'[q].at = how
       IN  /\ ends("ok") => has(Len(KeyOrder))
           /\ ends("refused") => has(0)
           /\ ends("failed") => \E n \in 0..Len(KeyOrder) : has(n)]_settingsVars

\* The limit that is stored is obeyed in the end, by whichever of the requests
\* and cycles comes last, though statements fail and each enforces a value that
\* it has read or stored earlier.
LimitObeyed ==
  \A limit \in 1..(MaxWrites - 1) : <>[](Get("max_log_bytes") = limit) => <>[](logBytes <= limit)

=============================================================================
