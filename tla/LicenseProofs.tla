---------------------------- MODULE LicenseProofs ----------------------------
(***************************************************************************)
(* The license, for every set of tokens and every number of requests,      *)
(* failures and restarts: the last change that succeeded, with none beside *)
(* it, keeps its word.                                                     *)
(***************************************************************************)
EXTENDS License, TLAPS

Places    == {"unsent", "store", "delete", "read", "check", "since", "answered"}
Answers   == {"none", "ok", "error", "lost", "invalid", "not_yet_valid", "expired", "active",
              "open_source", "missing"}
MaybeTok  == Tokens \cup {Nothing}
MaybeCall == LicenseCalls \cup {Nothing}
Rows      == {"token", "activated_at", "last_checked_at"}

LicenseTypes ==
  /\ kept \in [Rows -> MaybeTok \cup MaybeCall]
  /\ ask \in [LicenseCalls ->
       [op : {"none", "activate", "deactivate", "status"}, at : Places, n : 1..3,
        token : MaybeTok \cup MaybeCall, since : MaybeTok \cup MaybeCall, answer : Answers]]

\* A change has come to its n-th statement: what it has written is what it
\* will answer for, as long as nobody else writes these rows.
Written(q) ==
  /\ ask[q].n >= 2 => kept["token"] = ask[q].token
  /\ ask[q].n >= 3 => kept["activated_at"] = ask[q].since

\* What a request is about, by the statement it is at.
AskInv(q) ==
  /\ ask[q].at = "store" => ask[q].op = "activate" /\ ask[q].since = q
  /\ ask[q].at = "delete" =>
       ask[q].op = "deactivate" /\ ask[q].token = Nothing /\ ask[q].since = Nothing
  /\ ask[q].at \in {"read", "check", "since"} => ask[q].op = "status" /\ ask[q].since = Nothing
  /\ ask[q].at = "read" => ask[q].token = Nothing
  /\ Changing(q) /\ q \notin interfered => Written(q)
  /\ ask[q].at \in {"check", "since"} /\ q \notin interfered /\ word # Open =>
       ask[q].token = kept["token"]

\* A change that is under way leaves its mark on all the others.
Marked == \A p, q \in LicenseCalls : Changing(p) /\ Asked(q) /\ p # q => q \in interfered

\* The word is open while somebody changes the license, and the rows keep it.
WordInv ==
  /\ word # Open => \A q \in LicenseCalls : ~Changing(q)
  /\ word # Open => [token |-> kept["token"], since |-> kept["activated_at"]] = word

LicenseInv == LicenseTypes /\ (\A q \in LicenseCalls : AskInv(q)) /\ Marked /\ WordInv

LEMMA LicenseInitHolds == LicenseInit => LicenseInv
<1> SUFFICES ASSUME LicenseInit PROVE LicenseInv
  OBVIOUS
<1>1. \A q \in LicenseCalls : ask[q] = Unsent /\ ~Asked(q) /\ ~Changing(q)
  BY DEF LicenseInit, Asked, Changing, Unsent
<1>2. LicenseTypes
  BY DEF LicenseInit, LicenseTypes, Unsent, Places, Answers, MaybeTok, MaybeCall, Rows
<1>3. \A q \in LicenseCalls : AskInv(q)
  BY <1>1 DEF AskInv, Unsent
<1>4. Marked /\ WordInv
  BY <1>1 DEF Marked, WordInv, LicenseInit, NoLicense
<1> QED BY <1>2, <1>3, <1>4 DEF LicenseInv

\* A request comes, and is asked or answered at once.
LEMMA ComesKeeps ==
  ASSUME LicenseInv, NEW q \in LicenseCalls, NEW changes \in BOOLEAN, Unasked(q),
         NEW r \in [op : {"activate", "deactivate", "status"}, at : Places, n : {1},
                    token : MaybeTok, since : MaybeCall, answer : Answers],
         Proceed(q, r), Comes(q, changes), UNCHANGED kept,
         \/ changes /\ r.at = "store" /\ r.op = "activate" /\ r.since = q
         \/ changes /\ r.at = "delete" /\ r.op = "deactivate" /\ r.token = Nothing
              /\ r.since = Nothing
         \/ ~changes /\ r.at = "read" /\ r.op = "status" /\ r.token = Nothing
              /\ r.since = Nothing
         \/ ~changes /\ r.at = "answered"
  PROVE  LicenseInv'
<1>1. /\ ask' = [ask EXCEPT ![q] = r] /\ ask[q].at = "unsent"
      /\ ask'[q] = r /\ \A p \in LicenseCalls : p # q => ask'[p] = ask[p]
  BY DEF Proceed, Unasked, LicenseInv, LicenseTypes
<1>2. LicenseTypes'
  BY <1>1 DEF LicenseInv, LicenseTypes
<1>3. /\ interfered \subseteq interfered'
      /\ changes => \A p \in LicenseCalls : Asked(p) => p \in interfered'
      /\ (\E p \in LicenseCalls : Changing(p)) => q \in interfered'
      /\ word' = IF changes THEN Open ELSE word
  BY DEF Comes
<1>4. /\ Changing(q)' => changes
      /\ \A p \in LicenseCalls : p # q => (Asked(p)' <=> Asked(p)) /\ (Changing(p)' <=> Changing(p))
      /\ ~Asked(q)
  BY <1>1 DEF Asked, Changing
<1>5. Marked'
  BY <1>3, <1>4 DEF Marked, LicenseInv, Changing
<1>6. ASSUME NEW p \in LicenseCalls, p # q PROVE AskInv(p)'
  <2>1. AskInv(p) /\ ask'[p] = ask[p]
    BY <1>1, <1>6 DEF LicenseInv
  <2> QED BY <2>1, <1>3, <1>4, <1>6 DEF AskInv, Written
<1>7. AskInv(q)'
  BY <1>1 DEF AskInv, Written
<1>8. WordInv'
  BY <1>3, <1>4 DEF WordInv, LicenseInv
<1> QED BY <1>2, <1>5, <1>6, <1>7, <1>8 DEF LicenseInv

\* A request goes on or answers, without a row that tells of the license.
LEMMA ReadsKeep ==
  ASSUME LicenseInv, NEW q \in LicenseCalls,
         NEW r \in [op : {"status"}, at : {"check", "since", "answered"}, n : 1..3,
                    token : MaybeTok \cup MaybeCall, since : MaybeTok \cup MaybeCall,
                    answer : Answers],
         ask[q].at \in {"read", "check", "since"}, Proceed(q, r),
         kept' \in [Rows -> MaybeTok \cup MaybeCall],
         kept'["token"] = kept["token"], kept'["activated_at"] = kept["activated_at"],
         UNCHANGED <<word, interfered>>,
         r.at # "answered" => r.since = Nothing
           /\ (q \notin interfered /\ word # Open => r.token = kept["token"])
  PROVE  LicenseInv'
<1>1. /\ ask' = [ask EXCEPT ![q] = r]
      /\ ask'[q] = r /\ \A p \in LicenseCalls : p # q => ask'[p] = ask[p]
  BY DEF Proceed, LicenseInv, LicenseTypes
<1>2. LicenseTypes'
  BY <1>1 DEF LicenseInv, LicenseTypes, Places
<1>3. /\ Asked(q) /\ ~Changing(q)'
      /\ \A p \in LicenseCalls : p # q => (Asked(p)' <=> Asked(p)) /\ (Changing(p)' <=> Changing(p))
  BY <1>1 DEF Asked, Changing
<1>4. Marked' /\ WordInv'
  BY <1>3 DEF Marked, WordInv, LicenseInv
<1>5. ASSUME NEW p \in LicenseCalls PROVE AskInv(p)'
  <2>1. CASE p # q
    BY <1>1, <1>3, <2>1 DEF LicenseInv, AskInv, Written
  <2>2. CASE p = q
    BY <1>1, <1>3, <2>2 DEF AskInv
  <2> QED BY <2>1, <2>2
<1> QED BY <1>2, <1>4, <1>5 DEF LicenseInv

\* A statement of a change: the word, if it stands again, is of the rows.
LEMMA StatementKeeps ==
  ASSUME LicenseInv, NEW q \in LicenseCalls, NEW value \in MaybeTok \cup MaybeCall,
         NEW order, order = <<"token", "activated_at", "last_checked_at">>,
         ask[q].at \in {"store", "delete"}, UNCHANGED interfered,
         order[ask[q].n] = "token" => value = ask[q].token,
         order[ask[q].n] = "activated_at" => value = ask[q].since,
         Statement(q, order, value)
  PROVE  LicenseInv'
<1> DEFINE n == ask[q].n
           Left == [op : {"activate", "deactivate"}, at : {"store", "delete", "answered"},
                    n : 1..3, token : MaybeTok \cup MaybeCall,
                    since : MaybeTok \cup MaybeCall, answer : Answers]
<1>0. /\ n \in 1..3 /\ Len(order) = 3 /\ Changing(q) /\ Asked(q) /\ word = Open
      /\ order[1] = "token" /\ order[2] = "activated_at" /\ order[3] = "last_checked_at"
      /\ order[n] \in Rows /\ AskInv(q)
      /\ ask[q].op \in {"activate", "deactivate"}
  BY DEF LicenseInv, LicenseTypes, AskInv, Changing, Asked, WordInv, Rows
<1>1. PICK r \in Left :
        /\ ask' = [ask EXCEPT ![q] = r]
        /\ r.op = ask[q].op /\ r.token = ask[q].token /\ r.since = ask[q].since
        /\ \/ /\ r.at = ask[q].at /\ n < 3 /\ r.n = n + 1
              /\ kept' = [kept EXCEPT ![order[n]] = value] /\ word' = word
           \/ /\ r.at = "answered" /\ n = 3
              /\ kept' = [kept EXCEPT ![order[n]] = value]
              /\ word' = IF q \in interfered THEN word
                         ELSE [token |-> r.token, since |-> r.since]
           \/ r.at = "answered" /\ kept' = kept /\ word' = word
  <2>1. ask[q] \in [op : {"activate", "deactivate"}, at : {"store", "delete"}, n : 1..3,
                    token : MaybeTok \cup MaybeCall, since : MaybeTok \cup MaybeCall,
                    answer : Answers]
    BY <1>0 DEF LicenseInv, LicenseTypes
  <2>2. CASE SetRow(order[n], value) /\ n < 3 /\ Proceed(q, [ask[q] EXCEPT !.n = @ + 1]) /\ UNCHANGED word
    <3>1. [ask[q] EXCEPT !.n = @ + 1] \in Left
      BY <2>1, <2>2, <1>0
    <3> QED BY <3>1, <2>1, <2>2, <1>0 DEF SetRow, Proceed
  <2>3. CASE SetRow(order[n], value) /\ ~(n < 3) /\ Reply(q, "ok")
             /\ Stands(q, [token |-> ask[q].token, since |-> ask[q].since])
    <3>1. [ask[q] EXCEPT !.at = "answered", !.answer = "ok"] \in Left
      BY <2>1, <1>0 DEF Answers
    <3>2. ask' = [ask EXCEPT ![q] = [ask[q] EXCEPT !.at = "answered", !.answer = "ok"]]
      BY <2>3 DEF Reply, Proceed
    <3>3. /\ word' = IF q \in interfered THEN word
                    ELSE [token |-> ask[q].token, since |-> ask[q].since]
          /\ kept' = [kept EXCEPT ![order[n]] = value] /\ n = 3
      BY <2>3, <1>0 DEF SetRow, Stands
    <3> DEFINE r == [ask[q] EXCEPT !.at = "answered", !.answer = "ok"]
    <3>4. /\ r.op = ask[q].op /\ r.token = ask[q].token /\ r.since = ask[q].since
          /\ r.at = "answered"
      BY <2>1
    <3> HIDE DEF r, n, Left
    <3> QED BY <3>1, <3>2, <3>3, <3>4 DEF r
  <2>4. CASE ReplyError(q) /\ UNCHANGED <<kept, word>>
    <3>1. [ask[q] EXCEPT !.at = "answered", !.answer = "error"] \in Left
      BY <2>1, <1>0 DEF Answers
    <3> QED BY <3>1, <2>1, <2>4, <1>0 DEF Proceed, Reply, ReplyError
  <2> QED BY <1>0, <2>2, <2>3, <2>4 DEF Statement
<1>2. ask'[q] = r /\ \A p \in LicenseCalls : p # q => ask'[p] = ask[p]
  BY <1>1 DEF LicenseInv, LicenseTypes
<1>3. LicenseTypes'
  BY <1>0, <1>1 DEF LicenseInv, LicenseTypes, Places
<1>4. /\ Changing(q)' => Changing(q)
      /\ Asked(q)' => Asked(q)
      /\ \A p \in LicenseCalls : p # q => (Asked(p)' <=> Asked(p)) /\ (Changing(p)' <=> Changing(p))
  BY <1>0, <1>2 DEF Asked, Changing
<1>5. Marked'
  BY <1>4 DEF Marked, LicenseInv
<1>6. \A p \in LicenseCalls : p # q /\ Asked(p) => p \in interfered
  BY <1>0 DEF LicenseInv, Marked
<1>7. /\ kept'["token"] = IF n = 1 /\ kept' # kept THEN value ELSE kept["token"]
      /\ kept'["activated_at"] = IF n = 2 /\ kept' # kept THEN value ELSE kept["activated_at"]
      /\ kept' # kept => kept' = [kept EXCEPT ![order[n]] = value]
  BY <1>0, <1>1 DEF LicenseInv, LicenseTypes, Rows
<1>8. ASSUME q \notin interfered PROVE Written(q)' \/ ~Changing(q)'
  BY <1>0, <1>1, <1>2, <1>7, <1>8 DEF AskInv, Written, Changing, Asked, LicenseInv, LicenseTypes, Rows
<1>9. ASSUME NEW p \in LicenseCalls PROVE AskInv(p)'
  <2>1. CASE p # q
    BY <1>2, <1>4, <1>6, <2>1 DEF LicenseInv, AskInv, Changing, Asked
  <2>2. CASE p = q
    BY <1>0, <1>1, <1>2, <1>8, <2>2 DEF AskInv
  <2> QED BY <2>1, <2>2
<1>10. WordInv'
  <2>1. CASE word' = word
    BY <1>0, <2>1 DEF WordInv
  <2>2. CASE word' # word
    <3>1. /\ q \notin interfered /\ n = 3 /\ word' = [token |-> r.token, since |-> r.since]
          /\ r.at = "answered" /\ kept' = [kept EXCEPT ![order[n]] = value]
      BY <1>1, <2>2
    <3>2. kept'["token"] = r.token /\ kept'["activated_at"] = r.since
      BY <1>0, <1>1, <3>1 DEF AskInv, Written, LicenseInv, LicenseTypes, Rows
    <3>3. \A p \in LicenseCalls : ~Changing(p)'
      BY <1>0, <1>2, <1>4, <3>1 DEF LicenseInv, Marked, Changing, Asked
    <3> QED BY <3>1, <3>2, <3>3 DEF WordInv
  <2> QED BY <2>1, <2>2
<1> QED BY <1>3, <1>5, <1>9, <1>10 DEF LicenseInv
LEMMA ReadTokenKeeps ==
  ASSUME LicenseInv, NEW q \in LicenseCalls, ReadToken(q)
  PROVE  LicenseInv'
<1>1. /\ ask[q].at = "read" /\ ask[q].op = "status" /\ ask[q].since = Nothing
      /\ UNCHANGED <<kept, word, interfered>> /\ kept \in [Rows -> MaybeTok \cup MaybeCall]
      /\ ask[q] \in [op : {"status"}, at : Places, n : 1..3, token : MaybeTok \cup MaybeCall,
                     since : MaybeTok \cup MaybeCall, answer : Answers]
  BY DEF ReadToken, LicenseInv, LicenseTypes, AskInv
<1>2. ASSUME NEW a \in Answers, Reply(q, a) PROVE LicenseInv'
  <2> DEFINE r == [ask[q] EXCEPT !.at = "answered", !.answer = a]
  <2>1. /\ r \in [op : {"status"}, at : {"check", "since", "answered"}, n : 1..3,
                  token : MaybeTok \cup MaybeCall, since : MaybeTok \cup MaybeCall,
                  answer : Answers]
        /\ r.at = "answered" /\ Proceed(q, r)
    BY <1>1, <1>2 DEF Reply
  <2> HIDE DEF r
  <2> QED BY <1>1, <2>1, ReadsKeep
<1>3. CASE Proceed(q, [ask[q] EXCEPT !.at = "check", !.token = kept["token"]])
  <2> DEFINE r == [ask[q] EXCEPT !.at = "check", !.token = kept["token"]]
  <2>1. /\ r \in [op : {"status"}, at : {"check", "since", "answered"}, n : 1..3,
                  token : MaybeTok \cup MaybeCall, since : MaybeTok \cup MaybeCall,
                  answer : Answers]
        /\ r.since = Nothing /\ r.token = kept["token"] /\ Proceed(q, r)
    BY <1>1, <1>3 DEF Rows
  <2> HIDE DEF r
  <2> QED BY <1>1, <2>1, ReadsKeep
<1> QED BY <1>2, <1>3 DEF ReadToken, ReplyError, WithoutToken, Answers

LEMMA CheckTokenKeeps ==
  ASSUME LicenseInv, NEW q \in LicenseCalls, CheckToken(q)
  PROVE  LicenseInv'
<1> DEFINE status == Verified(ask[q].token)
           r == [ask[q] EXCEPT !.at = IF Accepted(status) THEN "since" ELSE "answered",
                               !.answer = status]
<1>1. status \in Answers
  BY DEF Verified, TimeStatus, Answers
<1>2. /\ ask[q].at = "check" /\ ask[q].op = "status" /\ ask[q].since = Nothing
      /\ UNCHANGED <<word, interfered>> /\ kept \in [Rows -> MaybeTok \cup MaybeCall]
      /\ q \notin interfered /\ word # Open => ask[q].token = kept["token"]
      /\ ask[q] \in [op : {"status"}, at : Places, n : 1..3, token : MaybeTok \cup MaybeCall,
                     since : MaybeTok \cup MaybeCall, answer : Answers]
  BY DEF CheckToken, LicenseInv, LicenseTypes, AskInv
<1>3. /\ kept' \in [Rows -> MaybeTok \cup MaybeCall]
      /\ kept'["token"] = kept["token"] /\ kept'["activated_at"] = kept["activated_at"]
  BY <1>2 DEF CheckToken, SetRow, Rows, MaybeCall
<1>4. Proceed(q, r)
  BY DEF CheckToken
<1> HIDE DEF status
<1>5. /\ r \in [op : {"status"}, at : {"check", "since", "answered"}, n : 1..3,
                token : MaybeTok \cup MaybeCall, since : MaybeTok \cup MaybeCall,
                answer : Answers]
      /\ r.since = Nothing /\ r.token = ask[q].token
  BY <1>1, <1>2
<1> HIDE DEF r
<1> QED BY <1>2, <1>3, <1>4, <1>5, ReadsKeep

LEMMA ReadSinceKeeps ==
  ASSUME LicenseInv, NEW q \in LicenseCalls, ReadSince(q)
  PROVE  LicenseInv'
<1>1. /\ ask[q].at = "since" /\ UNCHANGED <<kept, word, interfered>>
      /\ kept \in [Rows -> MaybeTok \cup MaybeCall]
      /\ ask[q] \in [op : {"status"}, at : Places, n : 1..3, token : MaybeTok \cup MaybeCall,
                     since : MaybeTok \cup MaybeCall, answer : Answers]
  BY DEF ReadSince, LicenseInv, LicenseTypes, AskInv
<1>2. PICK r \in [op : {"status"}, at : {"check", "since", "answered"}, n : 1..3,
                 token : MaybeTok \cup MaybeCall, since : MaybeTok \cup MaybeCall,
                 answer : Answers] :
        r.at = "answered" /\ Proceed(q, r)
  BY <1>1 DEF ReadSince, Rows
<1> QED BY <1>1, <1>2, ReadsKeep

\* The daemon ends: nobody is asked any more.
LEMMA ReconfigureKeeps == ASSUME LicenseInv, Reconfigure PROVE LicenseInv'
<1>1. \A q \in LicenseCalls : ask'[q].at \in {"unsent", "answered"}
  BY DEF Reconfigure, Asked, LicenseInv, LicenseTypes
<1>2. UNCHANGED <<kept, word, interfered>>
  BY DEF Reconfigure
<1>3. LicenseTypes'
  BY DEF Reconfigure, LicenseInv, LicenseTypes, Places, Answers
<1>4. \A q \in LicenseCalls : ~Asked(q)' /\ ~Changing(q)'
  BY <1>1 DEF Asked, Changing
<1>5. \A q \in LicenseCalls : AskInv(q)'
  BY <1>1, <1>4 DEF AskInv
<1> QED BY <1>2, <1>3, <1>4, <1>5 DEF LicenseInv, Marked, WordInv

LEMMA LicenseNextKeeps == ASSUME LicenseInv, [LicenseNext]_licenseVars PROVE LicenseInv'
<1>1. ASSUME NEW q \in LicenseCalls, NEW t \in Tokens, Activate(q, t) PROVE LicenseInv'
  <2> DEFINE R == [op : {"activate", "deactivate", "status"}, at : Places, n : {1},
                   token : MaybeTok, since : MaybeCall, answer : Answers]
             r == [Unsent EXCEPT !.op = "activate", !.token = t, !.since = q]
  <2>1. Unasked(q) /\ UNCHANGED kept
    BY <1>1 DEF Activate
  <2>2. CASE Accepted(Verified(t))
    <3> DEFINE s == [r EXCEPT !.at = "store"]
    <3>1. s \in R /\ s.at = "store" /\ s.op = "activate" /\ s.since = q
      BY DEF Unsent, Places, Answers, MaybeTok, MaybeCall
    <3>2. Proceed(q, s) /\ Comes(q, TRUE)
      BY <1>1, <2>2 DEF Activate
    <3> HIDE DEF s
    <3> QED BY <2>1, <3>1, <3>2, ComesKeeps
  <2>3. CASE ~Accepted(Verified(t))
    <3> DEFINE s == [r EXCEPT !.at = "answered", !.answer = Verified(t)]
    <3>1. Verified(t) \in Answers
      BY DEF Verified, TimeStatus, Answers
    <3>2. s \in R /\ s.at = "answered"
      BY <3>1 DEF Unsent, Places, MaybeTok, MaybeCall
    <3>3. Proceed(q, s) /\ Comes(q, FALSE)
      BY <1>1, <2>3 DEF Activate
    <3> HIDE DEF s
    <3> QED BY <2>1, <3>2, <3>3, ComesKeeps
  <2> QED BY <2>2, <2>3
<1>2. ASSUME NEW q \in LicenseCalls, Deactivate(q) PROVE LicenseInv'
  <2> DEFINE r == [Unsent EXCEPT !.op = "deactivate", !.at = "delete"]
  <2>1. /\ r \in [op : {"activate", "deactivate", "status"}, at : Places, n : {1},
                  token : MaybeTok, since : MaybeCall, answer : Answers]
        /\ r.at = "delete" /\ r.op = "deactivate" /\ r.token = Nothing /\ r.since = Nothing
    BY DEF Unsent, Places, Answers, MaybeTok, MaybeCall
  <2>2. Unasked(q) /\ UNCHANGED kept /\ Proceed(q, r) /\ Comes(q, TRUE)
    BY <1>2 DEF Deactivate
  <2> HIDE DEF r
  <2> QED BY <2>1, <2>2, ComesKeeps
<1>3. ASSUME NEW q \in LicenseCalls, GetLicense(q) PROVE LicenseInv'
  <2> DEFINE r == [Unsent EXCEPT !.op = "status", !.at = "read"]
  <2>1. /\ r \in [op : {"activate", "deactivate", "status"}, at : Places, n : {1},
                  token : MaybeTok, since : MaybeCall, answer : Answers]
        /\ r.at = "read" /\ r.op = "status" /\ r.token = Nothing /\ r.since = Nothing
    BY DEF Unsent, Places, Answers, MaybeTok, MaybeCall
  <2>2. Unasked(q) /\ UNCHANGED kept /\ Proceed(q, r) /\ Comes(q, FALSE)
    BY <1>3 DEF GetLicense
  <2> HIDE DEF r
  <2> QED BY <2>1, <2>2, ComesKeeps
<1>4. ASSUME NEW q \in LicenseCalls, StoreRow(q) PROVE LicenseInv'
  <2> DEFINE value == IF StoreOrder[ask[q].n] = "token" THEN ask[q].token ELSE q
  <2>1. /\ value \in MaybeTok \cup MaybeCall /\ ask[q].at = "store" /\ ask[q].since = q
        /\ UNCHANGED interfered /\ Statement(q, StoreOrder, value)
    BY <1>4 DEF StoreRow, LicenseInv, LicenseTypes, AskInv, MaybeCall
  <2>2. /\ StoreOrder[ask[q].n] = "token" => value = ask[q].token
        /\ StoreOrder[ask[q].n] = "activated_at" => value = ask[q].since
    BY <2>1
  <2> HIDE DEF value
  <2> QED BY <2>1, <2>2, StatementKeeps DEF StoreOrder
<1>5. ASSUME NEW q \in LicenseCalls, DeleteRow(q) PROVE LicenseInv'
  <2>1. /\ Nothing \in MaybeTok \cup MaybeCall /\ ask[q].at = "delete"
        /\ ask[q].token = Nothing /\ ask[q].since = Nothing
        /\ UNCHANGED interfered /\ Statement(q, DeleteOrder, Nothing)
    BY <1>5 DEF DeleteRow, LicenseInv, AskInv, MaybeCall
  <2> QED BY <2>1, StatementKeeps DEF DeleteOrder
<1>6. CASE NextDay
  BY <1>6 DEF NextDay, LicenseInv, LicenseTypes, AskInv, Marked, WordInv, Written, Changing, Asked
<1>7. CASE UNCHANGED licenseVars
  BY <1>7 DEF licenseVars, LicenseInv, LicenseTypes, AskInv, Marked, WordInv, Written, Changing,
              Asked
<1> QED BY <1>1, <1>2, <1>3, <1>4, <1>5, <1>6, <1>7, ReadTokenKeeps, CheckTokenKeeps,
           ReadSinceKeeps, ReconfigureKeeps DEF LicenseNext, LicenseStep

\* The last statement of a GET /license answers what the rows say, which is the
\* word.
LEMMA AnswersTellTheWord ==
  ASSUME LicenseInv, [LicenseNext]_licenseVars
  PROVE  [AnswersTellIt]_licenseVars
<1> SUFFICES ASSUME NEW q \in LicenseCalls, q \notin interfered, LicenseNext,
                    Asked(q), ask[q].op = "status", word # Open, ask'[q].at = "answered",
                    ask'[q].answer \notin {"error", "lost"}
             PROVE  Tells(q)'
  BY DEF AnswersTellIt
<1>1. [token |-> kept["token"], since |-> kept["activated_at"]] = word
  BY DEF LicenseInv, WordInv
<1>2. word.token = kept["token"]
  BY <1>1
<1>3. ReadToken(q) \/ CheckToken(q) \/ ReadSince(q)
  <2>1. ask[q].at # "answered" /\ ask[q].at # "unsent" /\ ask[q].at \notin {"store", "delete"}
    BY DEF Asked, LicenseInv, AskInv
  <2>2. ASSUME NEW p \in LicenseCalls, LicenseStep(p), p # q PROVE FALSE
    <3>1. PICK r : ask' = [ask EXCEPT ![p] = r]
      BY <2>2 DEF LicenseStep, Activate, Deactivate, GetLicense, StoreRow, DeleteRow, Statement,
                  ReadToken, CheckToken, ReadSince, Reply, ReplyError, Proceed
    <3>2. ask'[q] = ask[q]
      BY <2>2, <3>1 DEF LicenseInv, LicenseTypes
    <3> QED BY <2>1, <3>2
  <2>3. CASE LicenseStep(q)
    BY <2>1, <2>3 DEF LicenseStep, Activate, Deactivate, GetLicense, StoreRow, DeleteRow, Unasked
  <2>4. ASSUME Reconfigure PROVE FALSE
    <3>1. ask'[q] = [ask[q] EXCEPT !.at = "answered", !.answer = "lost"]
      BY <2>4 DEF Reconfigure
    <3>2. ask[q] \in [op : {"none", "activate", "deactivate", "status"},
                     at : Places,
                     n : 1..3,
                     token : MaybeTok \cup MaybeCall,
                     since : MaybeTok \cup MaybeCall,
                     answer : Answers]
      BY DEF LicenseInv, LicenseTypes
    <3>3. ask'[q].answer = "lost"
      BY <3>1, <3>2
    <3> QED BY <3>3
  <2>5. ~NextDay
    BY <2>1 DEF NextDay
  <2> QED BY <2>2, <2>3, <2>4, <2>5 DEF LicenseNext
<1>4. /\ ask[q].since = Nothing
      /\ ask[q].at = "read" => ask[q].token = Nothing
      /\ ask[q].at \in {"check", "since"} => ask[q].token = kept["token"]
  BY <1>3 DEF LicenseInv, AskInv, ReadToken, CheckToken, ReadSince
<1>5. word' = word
  BY <1>3 DEF ReadToken, CheckToken, ReadSince
<1>6. CASE ReadToken(q)
  <2>1. ask \in [LicenseCalls -> [op : {"none", "activate", "deactivate", "status"}, at : Places,
          n : 1..3, token : MaybeTok \cup MaybeCall, since : MaybeTok \cup MaybeCall,
          answer : Answers]]
    BY DEF LicenseInv, LicenseTypes
  <2>2. /\ ~(Trouble /\ Proceed(q, [ask[q] EXCEPT !.at = "answered", !.answer = "error"]))
        /\ ~Proceed(q, [ask[q] EXCEPT !.at = "check", !.token = kept["token"]])
    <3>1. /\ [ask[q] EXCEPT !.at = "answered", !.answer = "error"].answer = "error"
          /\ [ask[q] EXCEPT !.at = "check", !.token = kept["token"]].at = "check"
      BY <2>1
    <3>2. \A r : Proceed(q, r) => ask'[q] = r
      BY <2>1 DEF Proceed
    <3>3. ASSUME Proceed(q, [ask[q] EXCEPT !.at = "answered", !.answer = "error"]) PROVE FALSE
      BY <3>1, <3>2, <3>3
    <3>4. ASSUME Proceed(q, [ask[q] EXCEPT !.at = "check", !.token = kept["token"]]) PROVE FALSE
      BY <3>1, <3>2, <3>4
    <3> QED BY <3>3, <3>4
  <2>3. kept["token"] = Nothing /\ Proceed(q, [ask[q] EXCEPT !.at = "answered", !.answer = WithoutToken])
    BY <1>6, <2>2 DEF ReadToken, Reply, ReplyError
  <2>4. ask'[q].token = Nothing /\ ask'[q].since = Nothing
    BY <2>1, <2>3, <1>4, <1>6 DEF Proceed, ReadToken
  <2> QED BY <1>2, <1>5, <2>3, <2>4 DEF Tells
<1>7. CASE CheckToken(q)
  BY <1>2, <1>4, <1>5, <1>7 DEF CheckToken, Proceed, Tells, LicenseInv, LicenseTypes
<1>8. CASE ReadSince(q)
  <2>1. ask'[q].token = ask[q].token /\ ask'[q].since \in {Nothing, kept["activated_at"]}
    <3>1. /\ ask[q] \in [op : {"none", "activate", "deactivate", "status"}, at : Places, n : 1..3,
               token : MaybeTok \cup MaybeCall, since : MaybeTok \cup MaybeCall, answer : Answers]
          /\ \A r : Proceed(q, r) => ask'[q] = r
      BY DEF Proceed, LicenseInv, LicenseTypes
    <3>2. PICK v \in {Nothing, kept["activated_at"]} :
            Proceed(q, [ask[q] EXCEPT !.at = "answered", !.since = v])
      <4>1. [ask[q] EXCEPT !.at = "answered"] = [ask[q] EXCEPT !.at = "answered", !.since = Nothing]
        BY <1>4, <3>1
      <4> QED BY <1>8, <4>1 DEF ReadSince
    <3>3. ask'[q] = [ask[q] EXCEPT !.at = "answered", !.since = v]
      BY <3>1, <3>2
    <3> QED BY <3>1, <3>3
  <2>2. ask[q].token = kept["token"]
    BY <1>4, <1>8 DEF ReadSince
  <2> QED BY <1>1, <1>2, <1>5, <2>1, <2>2 DEF Tells
<1> QED BY <1>3, <1>6, <1>7, <1>8

\* The last change that succeeded with none beside it keeps its word: the rows
\* hold its license, and every undisturbed GET /license tells of it, however
\* often the clock, the key, the other reads and failures come between.
THEOREM TheLastWordStands == LicenseSpec => LastWordStands
<1>1. LicenseInv /\ [LicenseNext]_licenseVars => LicenseInv'
  BY LicenseNextKeeps
<1>2. ASSUME LicenseInv, [LicenseNext]_licenseVars
      PROVE  [RowsKeepTheWord' /\ AnswersTellIt]_licenseVars
  <2>1. RowsKeepTheWord'
    BY <1>1, <1>2 DEF LicenseInv, WordInv, RowsKeepTheWord
  <2>2. [AnswersTellIt]_licenseVars
    BY <1>2, AnswersTellTheWord
  <2> QED BY <2>1, <2>2
<1> QED BY <1>1, <1>2, LicenseInitHolds, PTL DEF LicenseSpec, LastWordStands

=============================================================================
