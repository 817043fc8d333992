--------------------------- MODULE SchedulerProofs ---------------------------
(***************************************************************************)
(* The scheduler, for every set of jobs and requests, every schedule and   *)
(* every table that a restart may find.                                    *)
(***************************************************************************)
EXTENDS Scheduler, TLAPS, FiniteSetTheorems, WellFoundedInduction

Entry == [spec : Specs, next : Nat]
Item  == [job : Jobs, spec : Specs]
Steps == {"idle", "reload", "clear", "list", "register"}

TypeInv ==
  /\ phase \in {"starting", "serving", "failed"} /\ now \in 0..MaxNow
  /\ jobs \in [Jobs -> Row \cup {NoJob}]
  /\ entries \subseteq Jobs /\ cron \in [Jobs -> Seq(Entry)]
  /\ mu \in Callers \cup {Nobody}
  /\ call \in [Callers -> [pc : Steps, job : Jobs \cup {NoJob}, todo : SUBSET Item]]
  /\ lastOk \in BOOLEAN /\ quiet \in BOOLEAN /\ dropped \subseteq Jobs
  /\ fired \in [Jobs -> [0..MaxNow -> Nat]]

\* Start comes before every request.
StartFirst ==
  /\ call[Starter].pc # "reload"
  /\ phase = "serving" => call[Starter].pc = "idle"
  /\ phase # "serving" => \A h \in Handlers : call[h].pc = "idle"

Settling == TypeInv /\ StartFirst /\ LockFollowsReload

-----------------------------------------------------------------------------
(* Facts about schedules and sequences of entries *)

LEMMA MinOfNaturals ==
  ASSUME NEW S, S \subseteq Nat, S # {}
  PROVE  Min(S) \in S /\ \A y \in S : Min(S) <= y
<1> DEFINE R == {ss \in Nat \X Nat : ss[1] < ss[2]}
<1>1. IsWellFoundedOn(R, Nat)
  BY NatLessThanWellFounded DEF OpToRel
<1>2. PICK x \in S : \A y \in S : ~(<<y, x>> \in R)
  <2> HIDE DEF R
  <2> QED BY <1>1, WFMin
<1>3. \A y \in S : x <= y
  <2> SUFFICES ASSUME NEW y \in S, y < x PROVE FALSE
    OBVIOUS
  <2>1. <<y, x>> \in Nat \X Nat
    OBVIOUS
  <2>2. <<y, x>> \in R
    BY <2>1
  <2> QED BY <1>2, <2>2
<1> QED BY <1>3 DEF Min

\* The next match is the first instant after t that the schedule matches.
LEMMA NextMatchIsNext ==
  ASSUME NEW spec \in Specs, NEW t \in Nat
  PROVE  /\ NextMatch(spec, t) \in Nat
         /\ t <= MaxNow => t < NextMatch(spec, t)
         /\ NextMatch(spec, t) \in Times[spec] \cup {MaxNow + 1}
         /\ \A i \in Times[spec] : t < i => NextMatch(spec, t) <= i
<1> DEFINE S == {i \in Times[spec] : i > t} \cup {MaxNow + 1}
<1>1. Times[spec] \subseteq 1..MaxNow /\ MaxNow \in Nat
  BY SchedulerAssumption
<1>2. S \subseteq Nat /\ S # {}
  BY <1>1
<1>3. Min(S) \in S /\ \A y \in S : Min(S) <= y
  <2> HIDE DEF S
  <2> QED BY <1>2, MinOfNaturals
<1>4. NextMatch(spec, t) = Min(S)
  BY DEF NextMatch
<1> QED BY <1>1, <1>3, <1>4

LEMMA NotNobody == Starter \notin Handlers /\ Nobody \notin Callers /\ Handlers \subseteq Callers
BY SchedulerAssumption DEF Callers

\* New values of cron's entries.
LEMMA RenewedType ==
  ASSUME TypeInv, NEW S
  PROVE  /\ Renewed(S) \in [Jobs -> Seq(Entry)]
         /\ \A j \in Jobs :
              /\ Len(Renewed(S)[j]) = Len(cron[j]) /\ DOMAIN Renewed(S)[j] = DOMAIN cron[j]
              /\ \A i \in DOMAIN cron[j] :
                   Renewed(S)[j][i] =
                     IF <<j, i>> \in S THEN [cron[j][i] EXCEPT !.next = NextMatch(cron[j][i].spec, now)]
                     ELSE cron[j][i]
<1> SUFFICES ASSUME NEW j \in Jobs
             PROVE  /\ Renewed(S)[j] \in Seq(Entry)
                    /\ Len(Renewed(S)[j]) = Len(cron[j]) /\ DOMAIN Renewed(S)[j] = DOMAIN cron[j]
                    /\ \A i \in DOMAIN cron[j] :
                         Renewed(S)[j][i] =
                           IF <<j, i>> \in S
                           THEN [cron[j][i] EXCEPT !.next = NextMatch(cron[j][i].spec, now)]
                           ELSE cron[j][i]
  BY DEF Renewed
<1> DEFINE s == cron[j]
           val(i) == IF <<j, i>> \in S THEN [s[i] EXCEPT !.next = NextMatch(s[i].spec, now)] ELSE s[i]
           r == [i \in DOMAIN s |-> val(i)]
<1>1. s \in Seq(Entry) /\ now \in Nat /\ Len(s) \in Nat /\ DOMAIN s = 1..Len(s)
  BY SchedulerAssumption DEF TypeInv
<1>2. Renewed(S)[j] = r
  BY DEF Renewed
<1>3. \A i \in 1..Len(s) : val(i) \in Entry
  <2> SUFFICES ASSUME NEW i \in 1..Len(s) PROVE val(i) \in Entry
    OBVIOUS
  <2>1. s[i] \in Entry
    BY <1>1
  <2>2. NextMatch(s[i].spec, now) \in Nat
    BY <1>1, <2>1, NextMatchIsNext DEF Entry
  <2> QED BY <2>1, <2>2 DEF Entry
<1> HIDE DEF val
<1>4. r \in Seq(Entry) /\ Len(r) = Len(s) /\ DOMAIN r = DOMAIN s
  BY <1>1, <1>3
<1> QED BY <1>2, <1>4 DEF val

-----------------------------------------------------------------------------
(* The lock *)

LEMMA InitSettling == Init => Settling
<1> SUFFICES ASSUME Init PROVE Settling
  OBVIOUS
<1>1. TypeInv
  <2>1. \A c \in Callers : call[c] \in [pc : Steps, job : Jobs \cup {NoJob}, todo : SUBSET Item]
    BY DEF Init, Resting, Steps
  <2>2. call \in [Callers -> [pc : Steps, job : Jobs \cup {NoJob}, todo : SUBSET Item]]
    BY <2>1 DEF Init
  <2>3. fired \in [Jobs -> [0..MaxNow -> Nat]] /\ cron \in [Jobs -> Seq(Entry)] /\ now \in 0..MaxNow
    BY SchedulerAssumption DEF Init
  <2> QED BY <2>2, <2>3 DEF Init, TypeInv, Callers
<1>2. StartFirst /\ LockFollowsReload
  BY NotNobody DEF Init, Resting, StartFirst, LockFollowsReload, InReload, Callers
<1> QED BY <1>1, <1>2 DEF Settling

\* A step of one call: it takes the lock as it comes into its reload, keeps it
\* within, and gives it back as it leaves.
LEMMA CallMoves ==
  ASSUME Settling, NEW c \in Callers,
         NEW r \in [pc : Steps, job : Jobs \cup {NoJob}, todo : SUBSET Item],
         call' = [call EXCEPT ![c] = r],
         c = Starter => r.pc # "reload",
         \/ InReload(c) /\ r.pc \in {"clear", "list", "register"} /\ UNCHANGED <<mu, phase>>
         \/ ~InReload(c) /\ r.pc = "clear" /\ mu = Nobody /\ mu' = c /\ c # Starter /\ UNCHANGED phase
              /\ phase = "serving"
         \/ InReload(c) /\ r.pc = "idle" /\ mu' = Nobody
              /\ phase' = (IF c = Starter THEN phase' ELSE phase)
              /\ phase' \in {"starting", "serving", "failed"}
         \/ ~InReload(c) /\ r.pc \in {"idle", "reload"} /\ UNCHANGED <<mu, phase>>
              /\ phase = "serving" /\ c # Starter
  PROVE  StartFirst' /\ LockFollowsReload' /\ mu' \in Callers \cup {Nobody}
         /\ call' \in [Callers -> [pc : Steps, job : Jobs \cup {NoJob}, todo : SUBSET Item]]
<1>1. /\ call'[c] = r /\ \A d \in Callers : d # c => call'[d] = call[d]
      /\ call' \in [Callers -> [pc : Steps, job : Jobs \cup {NoJob}, todo : SUBSET Item]]
  BY DEF Settling, TypeInv
<1>2. InReload(c)' <=> r.pc \in {"clear", "list", "register"}
  BY <1>1 DEF InReload
<1>3. \A d \in Callers : d # c => (InReload(d)' <=> InReload(d))
  BY <1>1 DEF InReload
<1>4. LockFollowsReload'
  BY <1>2, <1>3, NotNobody DEF LockFollowsReload, Settling, InReload
<1>5. mu' \in Callers \cup {Nobody}
  BY DEF Settling, TypeInv
<1>6. StartFirst'
  BY <1>1, NotNobody DEF StartFirst, Settling, InReload, Callers
<1> QED BY <1>1, <1>4, <1>5, <1>6

\* The entry that AddFunc makes.
NewEntry(spec) == [spec |-> spec, next |-> NextMatch(spec, now)]

LEMMA NewEntryType ==
  ASSUME TypeInv, NEW spec \in Specs
  PROVE  NewEntry(spec) \in Entry
<1>1. now \in Nat
  BY SchedulerAssumption DEF TypeInv
<1> QED BY <1>1, NextMatchIsNext DEF NewEntry, Entry

LEMMA CallType ==
  ASSUME TypeInv, NEW c \in Callers
  PROVE  call[c] \in [pc : Steps, job : Jobs \cup {NoJob}, todo : SUBSET Item]
BY DEF TypeInv

\* The steps that fail, in List and in Register.
LEMMA FailMoves ==
  ASSUME Settling, NEW c \in Callers, InReload(c), Fail(c)
  PROVE  /\ StartFirst' /\ LockFollowsReload' /\ mu' = Nobody /\ lastOk' = FALSE
         /\ call' = [call EXCEPT ![c] = Resting]
         /\ call' \in [Callers -> [pc : Steps, job : Jobs \cup {NoJob}, todo : SUBSET Item]]
         /\ phase' \in {"starting", "serving", "failed"}
<1>1. Resting \in [pc : Steps, job : Jobs \cup {NoJob}, todo : SUBSET Item] /\ Resting.pc = "idle"
  BY DEF Resting, Steps
<1>2. /\ call' = [call EXCEPT ![c] = Resting] /\ mu' = Nobody /\ lastOk' = FALSE
      /\ phase' = (IF c = Starter THEN phase' ELSE phase)
      /\ phase' \in {"starting", "serving", "failed"}
  BY DEF Fail, Unlock, Settling, TypeInv
<1> HIDE DEF Resting
<1>3. StartFirst' /\ LockFollowsReload'
      /\ call' \in [Callers -> [pc : Steps, job : Jobs \cup {NoJob}, todo : SUBSET Item]]
  BY <1>1, <1>2, CallMoves
<1> QED BY <1>2, <1>3

LEMMA WriteSettling ==
  ASSUME Settling, NEW h \in Handlers, NEW j \in Jobs, NEW row \in Row \cup {NoJob}, Write(h, j, row)
  PROVE  Settling'
<1> DEFINE r == [Resting EXCEPT !.pc = "reload", !.job = j]
<1>1. /\ phase = "serving" /\ call[h].pc = "idle" /\ jobs' = [jobs EXCEPT ![j] = row]
      /\ quiet' \in BOOLEAN /\ dropped' \subseteq Jobs
      /\ UNCHANGED <<phase, now, entries, cron, mu, lastOk, fired>>
      /\ call' = [call EXCEPT ![h] = r] \/ call' = call
  BY DEF Write, Settling, TypeInv, regs
<1>2. r \in [pc : Steps, job : Jobs \cup {NoJob}, todo : SUBSET Item] /\ r.pc = "reload"
  BY DEF Resting, Steps
<1>3. ~InReload(h) /\ h \in Callers /\ h # Starter
  BY <1>1, NotNobody DEF InReload
<1> HIDE DEF r
<1>4. /\ StartFirst' /\ LockFollowsReload'
      /\ call' \in [Callers -> [pc : Steps, job : Jobs \cup {NoJob}, todo : SUBSET Item]]
  <2>1. CASE call' = call
    BY <1>1, <2>1 DEF Settling, TypeInv, StartFirst, LockFollowsReload, InReload
  <2>2. CASE call' = [call EXCEPT ![h] = r]
    BY <1>1, <1>2, <1>3, <2>2, CallMoves
  <2> QED BY <1>1, <2>1, <2>2
<1> QED BY <1>1, <1>4 DEF Settling, TypeInv

LEMMA LockSettling ==
  ASSUME Settling, NEW h \in Handlers, Lock(h)
  PROVE  Settling'
<1> DEFINE r == [call[h] EXCEPT !.pc = "clear"]
<1>1. h \in Callers /\ h # Starter
  BY NotNobody
<1>2. r \in [pc : Steps, job : Jobs \cup {NoJob}, todo : SUBSET Item] /\ r.pc = "clear"
  BY <1>1, CallType DEF Settling, Steps
<1>3. /\ call[h].pc = "reload" /\ call' = [call EXCEPT ![h] = r] /\ mu = Nobody /\ mu' = h
      /\ UNCHANGED <<phase, now, jobs, entries, cron, lastOk, dropped, quiet, fired>>
  BY DEF Lock, Goto, MuIsFree, regs, hist
<1>4. ~InReload(h) /\ phase = "serving"
  BY <1>3 DEF InReload, Settling, StartFirst
<1> HIDE DEF r
<1>5. /\ StartFirst' /\ LockFollowsReload' /\ mu' \in Callers \cup {Nobody}
      /\ call' \in [Callers -> [pc : Steps, job : Jobs \cup {NoJob}, todo : SUBSET Item]]
  BY <1>1, <1>2, <1>3, <1>4, CallMoves
<1> QED BY <1>3, <1>5 DEF Settling, TypeInv

LEMMA ClearSettling ==
  ASSUME Settling, NEW c \in Callers, Clear(c)
  PROVE  Settling'
<1> DEFINE r == [call[c] EXCEPT !.pc = "list"]
<1>1. r \in [pc : Steps, job : Jobs \cup {NoJob}, todo : SUBSET Item] /\ r.pc = "list"
  BY CallType DEF Settling, Steps
<1>2. /\ InReload(c) /\ call' = [call EXCEPT ![c] = r] /\ cron' = Cleared /\ entries' = {}
      /\ UNCHANGED <<phase, now, jobs, mu, lastOk, dropped, quiet, fired>>
  BY DEF Clear, Goto, InReload, hist
<1> HIDE DEF r
<1>3. /\ StartFirst' /\ LockFollowsReload'
      /\ call' \in [Callers -> [pc : Steps, job : Jobs \cup {NoJob}, todo : SUBSET Item]]
  BY <1>1, <1>2, CallMoves
<1>4. Cleared \in [Jobs -> Seq(Entry)]
  <2> SUFFICES ASSUME NEW j \in Jobs PROVE Front(cron[j]) \in Seq(Entry) /\ cron[j] \in Seq(Entry)
    BY DEF Cleared
  <2>1. cron[j] \in Seq(Entry)
    BY DEF Settling, TypeInv
  <2> QED BY <2>1 DEF Front
<1> QED BY <1>2, <1>3, <1>4 DEF Settling, TypeInv

LEMMA ListedType == ASSUME TypeInv PROVE Listed \in SUBSET Item
BY DEF Listed, Item, Enabled, TypeInv, Row

LEMMA ListSettling ==
  ASSUME Settling, NEW c \in Callers, List(c)
  PROVE  Settling'
<1> DEFINE r == [call[c] EXCEPT !.pc = "register", !.todo = Listed]
<1>1. InReload(c) /\ UNCHANGED <<now, jobs, entries, cron, quiet, fired>>
  BY DEF List, InReload, regs
<1>2. CASE call' = [call EXCEPT ![c] = r] /\ dropped' = {} /\ UNCHANGED <<phase, mu, lastOk>>
  <2>1. r \in [pc : Steps, job : Jobs \cup {NoJob}, todo : SUBSET Item] /\ r.pc = "register"
    BY CallType, ListedType DEF Settling, Steps
  <2> HIDE DEF r
  <2>2. /\ StartFirst' /\ LockFollowsReload'
        /\ call' \in [Callers -> [pc : Steps, job : Jobs \cup {NoJob}, todo : SUBSET Item]]
    BY <1>1, <1>2, <2>1, CallMoves
  <2> QED BY <1>1, <1>2, <2>2 DEF Settling, TypeInv
<1>3. CASE Fail(c) /\ UNCHANGED dropped
  BY <1>1, <1>3, FailMoves DEF Settling, TypeInv
<1> QED BY <1>2, <1>3 DEF List

\* A row that AddFunc accepts.
Registers(c, item) ==
  /\ item \in call[c].todo /\ item.spec \in Registrable
  /\ cron' = [cron EXCEPT ![item.job] = Append(@, NewEntry(item.spec))]
  /\ entries' = entries \cup {item.job}
  /\ call' = [call EXCEPT ![c].todo = @ \ {item}]
  /\ UNCHANGED <<phase, mu, lastOk>>

LEMMA RegisterCases ==
  ASSUME NEW c \in Callers, Register(c)
  PROVE  /\ call[c].pc = "register" /\ UNCHANGED <<now, jobs, dropped, quiet, fired>>
         /\ (\E item \in call[c].todo : Registers(c, item)) \/ (Fail(c) /\ UNCHANGED <<entries, cron>>)
BY DEF Register, Registers, NewEntry, regs, hist

LEMMA RegisterSettling ==
  ASSUME Settling, NEW c \in Callers, Register(c)
  PROVE  Settling'
<1>1. /\ call[c].pc = "register" /\ UNCHANGED <<now, jobs, dropped, quiet, fired>>
      /\ (\E item \in call[c].todo : Registers(c, item)) \/ (Fail(c) /\ UNCHANGED <<entries, cron>>)
  BY RegisterCases
<1>2. InReload(c)
  BY <1>1 DEF InReload
<1>3. ASSUME NEW item \in call[c].todo, Registers(c, item) PROVE Settling'
  <2> DEFINE r == [call[c] EXCEPT !.todo = @ \ {item}]
  <2>1. /\ r \in [pc : Steps, job : Jobs \cup {NoJob}, todo : SUBSET Item] /\ r.pc = "register"
        /\ item \in Item
    BY <1>1, CallType DEF Settling
  <2>2. call' = [call EXCEPT ![c] = r]
    BY <1>3 DEF Registers
  <2> HIDE DEF r
  <2>3. /\ StartFirst' /\ LockFollowsReload'
        /\ call' \in [Callers -> [pc : Steps, job : Jobs \cup {NoJob}, todo : SUBSET Item]]
    BY <1>2, <1>3, <2>1, <2>2, CallMoves DEF Registers
  <2>4. cron' \in [Jobs -> Seq(Entry)] /\ entries' \subseteq Jobs
    <3>1. item.job \in Jobs /\ item.spec \in Specs /\ cron \in [Jobs -> Seq(Entry)]
      BY <2>1 DEF Item, Settling, TypeInv
    <3>2. NewEntry(item.spec) \in Entry
      BY <3>1, NewEntryType DEF Settling
    <3>3. Append(cron[item.job], NewEntry(item.spec)) \in Seq(Entry)
      BY <3>1, <3>2
    <3> QED BY <1>3, <3>1, <3>3 DEF Registers, Settling, TypeInv
  <2> QED BY <1>1, <1>3, <2>3, <2>4 DEF Settling, TypeInv, Registers
<1>4. CASE Fail(c) /\ UNCHANGED <<entries, cron>>
  BY <1>1, <1>2, <1>4, FailMoves DEF Settling, TypeInv
<1> QED BY <1>1, <1>3, <1>4

LEMMA FinishSettling ==
  ASSUME Settling, NEW c \in Callers, Finish(c)
  PROVE  Settling'
<1>1. /\ call[c].pc = "register" /\ mu' = Nobody /\ lastOk' = TRUE
      /\ call' = [call EXCEPT ![c] = Resting]
      /\ phase' = (IF c = Starter THEN phase' ELSE phase)
      /\ phase' \in {"starting", "serving", "failed"} /\ entries' = entries
      /\ cron' = Renewed(AllEntries) \/ cron' = cron
      /\ UNCHANGED <<now, jobs, dropped, quiet, fired>>
  BY DEF Finish, Started, Unlock, regs, hist, Settling, TypeInv
<1>2. InReload(c)
  BY <1>1 DEF InReload
<1>3. Resting \in [pc : Steps, job : Jobs \cup {NoJob}, todo : SUBSET Item] /\ Resting.pc = "idle"
  BY DEF Resting, Steps
<1>4. /\ StartFirst' /\ LockFollowsReload'
      /\ call' \in [Callers -> [pc : Steps, job : Jobs \cup {NoJob}, todo : SUBSET Item]]
  <2> HIDE DEF Resting
  <2> QED BY <1>1, <1>2, <1>3, CallMoves
<1>5. cron' \in [Jobs -> Seq(Entry)]
  BY <1>1, RenewedType DEF Settling, TypeInv
<1> QED BY <1>1, <1>4, <1>5 DEF Settling, TypeInv

LEMMA DueFinite ==
  ASSUME TypeInv, NEW j \in Jobs
  PROVE  /\ IsFiniteSet({e \in Due : e[1] = j})
         /\ Cardinality({e \in Due : e[1] = j}) \in Nat
         /\ Len(cron[j]) <= 1 => Cardinality({e \in Due : e[1] = j}) <= 1
         /\ Cardinality({e \in Due : e[1] = j}) # 0 =>
              \E i \in DOMAIN cron[j] : cron[j][i].next <= now
         /\ Cardinality({e \in Due : e[1] = j}) = 0 =>
              \A i \in DOMAIN cron[j] : ~(cron[j][i].next <= now)
<1> DEFINE D == {e \in Due : e[1] = j}
<1>1. cron[j] \in Seq(Entry) /\ Len(cron[j]) \in Nat /\ DOMAIN cron[j] = 1..Len(cron[j])
  BY DEF TypeInv
<1>2. \A e : e \in D <=> \E i \in DOMAIN cron[j] : e = <<j, i>> /\ cron[j][i].next <= now
  <2> SUFFICES ASSUME NEW e
               PROVE  e \in D <=> \E i \in DOMAIN cron[j] : e = <<j, i>> /\ cron[j][i].next <= now
    OBVIOUS
  <2>1. ASSUME e \in D PROVE \E i \in DOMAIN cron[j] : e = <<j, i>> /\ cron[j][i].next <= now
    <3>1. e \in AllEntries /\ e[1] = j /\ cron[e[1]][e[2]].next <= now
      BY <2>1 DEF Due
    <3>2. PICK k \in Jobs : e \in {k} \X DOMAIN cron[k]
      BY <3>1 DEF AllEntries
    <3>3. PICK i \in DOMAIN cron[k] : e = <<k, i>>
      BY <3>2
    <3>4. k = j
      BY <3>1, <3>3
    <3> QED BY <3>1, <3>3, <3>4
  <2>2. ASSUME NEW i \in DOMAIN cron[j], e = <<j, i>>, cron[j][i].next <= now PROVE e \in D
    <3>1. e \in {j} \X DOMAIN cron[j] /\ e[1] = j /\ e[2] = i
      BY <2>2
    <3>2. e \in AllEntries
      BY <3>1 DEF AllEntries
    <3> QED BY <2>2, <3>1, <3>2 DEF Due
  <2> QED BY <2>1, <2>2
<1> HIDE DEF D
<1>3. IsFiniteSet(D)
  <2>1. IsFiniteSet(1..Len(cron[j])) /\ IsFiniteSet({j})
    <3>1. IsFiniteSet(1..Len(cron[j]))
      <4> DEFINE n == Len(cron[j])
      <4>1. n \in Int /\ 1 \in Int
        BY <1>1
      <4> HIDE DEF n
      <4>2. IsFiniteSet(1..n)
        BY <4>1, FS_Interval
      <4> QED BY <4>2 DEF n
    <3>2. IsFiniteSet({j})
      BY FS_Singleton
    <3> QED BY <3>1, <3>2
  <2>2. IsFiniteSet({j} \X (1..Len(cron[j])))
    BY <2>1, FS_Product
  <2>3. D \subseteq {j} \X (1..Len(cron[j]))
    BY <1>1, <1>2
  <2> QED BY <2>2, <2>3, FS_Subset
<1>4. Cardinality(D) \in Nat
  BY <1>3, FS_CardinalityType
<1>5. ASSUME Len(cron[j]) <= 1 PROVE Cardinality(D) <= 1
  <2>1. D \subseteq {<<j, 1>>}
    BY <1>1, <1>2, <1>5
  <2>2. IsFiniteSet({<<j, 1>>}) /\ Cardinality({<<j, 1>>}) = 1
    BY FS_Singleton
  <2> QED BY <2>1, <2>2, FS_Subset
<1>6. Cardinality(D) = 0 <=> D = {}
  BY <1>3, FS_EmptySet
<1>7. ASSUME Cardinality(D) # 0 PROVE \E i \in DOMAIN cron[j] : cron[j][i].next <= now
  BY <1>2, <1>6, <1>7
<1>8. ASSUME Cardinality(D) = 0, NEW i \in DOMAIN cron[j] PROVE ~(cron[j][i].next <= now)
  BY <1>2, <1>6, <1>8
<1> QED BY <1>3, <1>4, <1>5, <1>7, <1>8 DEF D

\* What cron has fired by this step: once more for every due entry.
LEMMA WakeFires ==
  ASSUME TypeInv, Wake, NEW j \in Jobs
  PROVE  /\ fired'[j] = [fired[j] EXCEPT ![now] = @ + Cardinality({e \in Due : e[1] = j})]
         /\ fired'[j] \in [0..MaxNow -> Nat]
         /\ fired'[j][now] = fired[j][now] + Cardinality({e \in Due : e[1] = j})
         /\ \A t \in 0..MaxNow : t # now => fired'[j][t] = fired[j][t]
<1>1. fired' = [k \in Jobs |-> [fired[k] EXCEPT ![now] = @ + Cardinality({e \in Due : e[1] = k})]]
  BY DEF Wake
<1>2. Cardinality({e \in Due : e[1] = j}) \in Nat
  BY DueFinite
<1> DEFINE n == Cardinality({e \in Due : e[1] = j})
<1>3. fired'[j] = [fired[j] EXCEPT ![now] = @ + n]
  BY <1>1
<1>4. n \in Nat
  BY <1>2
<1> HIDE DEF n
<1> DEFINE f == fired[j]
           g == [f EXCEPT ![now] = @ + n]
<1>5. f \in [0..MaxNow -> Nat] /\ now \in 0..MaxNow
  BY DEF TypeInv
<1> HIDE DEF f
<1>6. /\ g \in [0..MaxNow -> Nat] /\ g[now] = f[now] + n
      /\ \A t \in 0..MaxNow : t # now => g[t] = f[t]
  BY <1>4, <1>5
<1>7. fired'[j] = g
  BY <1>3 DEF f
<1> QED BY <1>3, <1>6, <1>7 DEF n, f

LEMMA WakeSettling == ASSUME Settling, Wake PROVE Settling'
<1>1. /\ UNCHANGED <<phase, now, jobs, entries, mu, call, lastOk, dropped, quiet>>
      /\ cron' = Renewed(Due)
      /\ fired' = [j \in Jobs |-> [fired[j] EXCEPT ![now] = @ + Cardinality({e \in Due : e[1] = j})]]
  BY DEF Wake, hist
<1>2. \A j \in Jobs : fired'[j] \in [0..MaxNow -> Nat]
  BY WakeFires DEF Settling
<1>3. fired' \in [Jobs -> [0..MaxNow -> Nat]]
  <2> DEFINE f(j) == [fired[j] EXCEPT ![now] = @ + Cardinality({e \in Due : e[1] = j})]
  <2>1. fired' = [j \in Jobs |-> f(j)]
    BY <1>1
  <2> HIDE DEF f
  <2> QED BY <1>2, <2>1
<1>4. cron' \in [Jobs -> Seq(Entry)]
  BY <1>1, RenewedType DEF Settling
<1> QED BY <1>1, <1>3, <1>4 DEF Settling, TypeInv, StartFirst, LockFollowsReload, InReload

LEMMA TickSettling == ASSUME Settling, Tick PROVE Settling'
<1>1. /\ now' \in 0..MaxNow /\ quiet' \in BOOLEAN
      /\ UNCHANGED <<phase, jobs, entries, cron, mu, call, lastOk, dropped, fired>>
  BY SchedulerAssumption DEF Tick, regs, Settling, TypeInv, Settled
<1> QED BY <1>1 DEF Settling, TypeInv, StartFirst, LockFollowsReload, InReload

LEMMA NextSettling == ASSUME Settling, [Next]_vars PROVE Settling'
<1>1. CASE UNCHANGED vars
  BY <1>1 DEF vars, regs, hist, Settling, TypeInv, StartFirst, LockFollowsReload, InReload
<1> QED BY <1>1, WriteSettling, LockSettling, ClearSettling, ListSettling, RegisterSettling,
           FinishSettling, WakeSettling, TickSettling DEF Next, Reload

\* s.mu is held by the call in its reload and by no other, on every path.
THEOREM LockIsGivenBack == Spec => []LockFollowsReload
<1>1. Settling => LockFollowsReload
  BY DEF Settling
<1> QED BY <1>1, InitSettling, NextSettling, PTL DEF Spec

-----------------------------------------------------------------------------
(* One registration of a job, one run of it an instant *)

\* s.entries names the only entry of a job, and a reload that is registering
\* has each of its remaining jobs once, none of them registered.
OneEntryEach ==
  /\ \A j \in Jobs : IF j \in entries THEN Len(cron[j]) = 1 ELSE cron[j] = <<>>
  /\ \A c \in Callers :
       /\ call[c].pc = "list" => entries = {}
       /\ call[c].pc = "register" =>
            \A x \in call[c].todo :
              x.job \notin entries /\ \A y \in call[c].todo : y.job = x.job => y = x

\* A job that was fired in this instant is next due in a later one.
NotAgain ==
  /\ \A j \in Jobs, t \in 0..MaxNow : fired[j][t] <= 1 /\ (t > now => fired[j][t] = 0)
  /\ \A j \in Jobs : fired[j][now] = 0 \/ \A i \in DOMAIN cron[j] : cron[j][i].next > now

LEMMA Alone ==
  ASSUME Settling, NEW c \in Callers, NEW d \in Callers, InReload(c), InReload(d)
  PROVE  c = d
BY DEF Settling, LockFollowsReload

LEMMA ClearedAll ==
  ASSUME Settling, OneEntryEach
  PROVE  \A j \in Jobs : Cleared[j] = <<>>
<1> SUFFICES ASSUME NEW j \in Jobs PROVE Cleared[j] = <<>>
  OBVIOUS
<1>1. Cleared[j] = IF j \in entries THEN Front(cron[j]) ELSE cron[j]
  BY DEF Cleared
<1>2. CASE j \in entries
  <2>1. cron[j] \in Seq(Entry) /\ Len(cron[j]) = 1
    BY <1>2 DEF OneEntryEach, Settling, TypeInv
  <2>2. Front(cron[j]) = <<>>
    BY <2>1 DEF Front
  <2> QED BY <1>1, <1>2, <2>2
<1>3. CASE j \notin entries
  BY <1>1, <1>3 DEF OneEntryEach
<1> QED BY <1>2, <1>3

LEMMA AtMostOne ==
  ASSUME OneEntryEach, NEW j \in Jobs
  PROVE  Len(cron[j]) <= 1
<1>1. CASE j \in entries
  <2>1. Len(cron[j]) = 1
    BY <1>1 DEF OneEntryEach
  <2> QED BY <2>1
<1>2. CASE j \notin entries
  <2>1. cron[j] = <<>>
    BY <1>2 DEF OneEntryEach
  <2>2. Len(<<>>) = 0
    OBVIOUS
  <2> QED BY <2>1, <2>2
<1> QED BY <1>1, <1>2

LEMMA OneEntryEachInit == Init => OneEntryEach
BY DEF Init, OneEntryEach, Resting

LEMMA OneEntryEachNext ==
  ASSUME Settling, OneEntryEach, [Next]_vars
  PROVE  OneEntryEach'
<1> USE DEF OneEntryEach
<1>1. ASSUME NEW h \in Handlers, NEW j \in Jobs, NEW row \in Row \cup {NoJob}, Write(h, j, row)
      PROVE  OneEntryEach'
  <2>1. h \in Callers /\ call \in [Callers -> [pc : Steps, job : Jobs \cup {NoJob}, todo : SUBSET Item]]
    BY NotNobody DEF Settling, TypeInv
  <2> QED BY <1>1, <2>1 DEF Write, regs, Resting
<1>2. ASSUME NEW h \in Handlers, Lock(h) PROVE OneEntryEach'
  <2>1. h \in Callers /\ call \in [Callers -> [pc : Steps, job : Jobs \cup {NoJob}, todo : SUBSET Item]]
    BY NotNobody DEF Settling, TypeInv
  <2> QED BY <1>2, <2>1 DEF Lock, Goto, regs
<1>3. ASSUME NEW c \in Callers, Clear(c) PROVE OneEntryEach'
  <2>1. \A d \in Callers : d # c => ~InReload(d)
    BY <1>3, Alone DEF InReload, Clear
  <2>2. \A d \in Callers : call'[d] = IF d = c THEN [call[c] EXCEPT !.pc = "list"] ELSE call[d]
    BY <1>3 DEF Clear, Goto, Settling, TypeInv
  <2>3. call'[c].pc = "list"
    BY <2>2, CallType DEF Settling
  <2>4. \A j \in Jobs : cron'[j] = <<>>
    BY <1>3, ClearedAll DEF Clear
  <2>5. entries' = {}
    BY <1>3 DEF Clear
  <2> QED BY <2>1, <2>2, <2>3, <2>4, <2>5 DEF InReload
<1>4. ASSUME NEW c \in Callers, List(c) PROVE OneEntryEach'
  <2>1. \A d \in Callers : d # c => ~InReload(d)
    BY <1>4, Alone DEF InReload, List
  <2>2. entries = {} /\ UNCHANGED <<entries, cron>>
    BY <1>4 DEF List, regs
  <2>3. CASE call' = [call EXCEPT ![c] = [@ EXCEPT !.pc = "register", !.todo = Listed]]
    <3>1. \A d \in Callers :
            call'[d] = IF d = c THEN [call[c] EXCEPT !.pc = "register", !.todo = Listed] ELSE call[d]
      BY <2>3 DEF Settling, TypeInv
    <3>2. call'[c].pc = "register" /\ call'[c].todo = Listed
      BY <3>1, CallType DEF Settling
    <3>3. \A x \in Listed, y \in Listed : y.job = x.job => y = x
      BY DEF Listed
    <3> QED BY <2>1, <2>2, <3>1, <3>2, <3>3 DEF InReload
  <2>4. CASE Fail(c)
    BY <2>1, <2>2, <2>4 DEF Fail, Resting, InReload, Settling, TypeInv
  <2> QED BY <1>4, <2>3, <2>4 DEF List
<1>5. ASSUME NEW c \in Callers, Register(c) PROVE OneEntryEach'
  <2>1. /\ call[c].pc = "register" /\ UNCHANGED <<now, jobs, dropped, quiet, fired>>
        /\ (\E item \in call[c].todo : Registers(c, item)) \/ (Fail(c) /\ UNCHANGED <<entries, cron>>)
    BY <1>5, RegisterCases
  <2>2. \A d \in Callers : d # c => ~InReload(d)
    BY <2>1, Alone DEF InReload
  <2>3. ASSUME NEW item \in call[c].todo, Registers(c, item) PROVE OneEntryEach'
    <3>1. item \in Item /\ item.job \in Jobs /\ item.job \notin entries
      BY <2>1, <2>3, CallType DEF Settling, Item
    <3>2. \A d \in Callers :
            call'[d] = IF d = c THEN [call[c] EXCEPT !.todo = @ \ {item}] ELSE call[d]
      BY <2>3 DEF Registers, Settling, TypeInv
    <3>3. call'[c].pc = "register" /\ call'[c].todo = call[c].todo \ {item}
      BY <2>1, <3>2, CallType DEF Settling
    <3>4. entries' = entries \cup {item.job}
      BY <2>3 DEF Registers
    <3>5. \A j \in Jobs : j # item.job => cron'[j] = cron[j]
      BY <2>3 DEF Registers, Settling, TypeInv
    <3>6. Len(cron'[item.job]) = 1
      <4>1. cron'[item.job] = Append(cron[item.job], NewEntry(item.spec)) /\ cron[item.job] = <<>>
        BY <2>3, <3>1 DEF Registers, Settling, TypeInv
      <4> QED BY <4>1
    <3>7. \A x \in call'[c].todo :
            x.job \notin entries' /\ \A y \in call'[c].todo : y.job = x.job => y = x
      BY <2>1, <3>3, <3>4
    <3> QED BY <2>2, <3>1, <3>2, <3>3, <3>4, <3>5, <3>6, <3>7 DEF InReload
  <2>4. CASE Fail(c) /\ UNCHANGED <<entries, cron>>
    BY <2>2, <2>4 DEF Fail, Resting, InReload, Settling, TypeInv
  <2> QED BY <2>1, <2>3, <2>4
<1>6. ASSUME NEW c \in Callers, Finish(c) PROVE OneEntryEach'
  <2>1. \A d \in Callers : d # c => ~InReload(d)
    BY <1>6, Alone DEF InReload, Finish
  <2>2. entries' = entries /\ call' = [call EXCEPT ![c] = Resting]
        /\ (cron' = Renewed(AllEntries) \/ cron' = cron)
    BY <1>6 DEF Finish, Started, regs
  <2>3. \A j \in Jobs : Len(cron'[j]) = Len(cron[j]) /\ cron'[j] \in Seq(Entry)
    BY <2>2, RenewedType DEF Settling, TypeInv
  <2>4. \A j \in Jobs : cron[j] = <<>> => cron'[j] = <<>>
    BY <2>3
  <2> QED BY <2>1, <2>2, <2>3, <2>4 DEF Resting, InReload, Settling, TypeInv
<1>7. CASE Wake
  <2>1. entries' = entries /\ call' = call /\ cron' = Renewed(Due)
    BY <1>7 DEF Wake
  <2>2. \A j \in Jobs : Len(cron'[j]) = Len(cron[j]) /\ cron'[j] \in Seq(Entry)
    BY <2>1, RenewedType DEF Settling, TypeInv
  <2>3. \A j \in Jobs : cron[j] = <<>> => cron'[j] = <<>>
    BY <2>2
  <2> QED BY <2>1, <2>2, <2>3
<1>8. CASE Tick \/ UNCHANGED vars
  BY <1>8 DEF Tick, vars, regs
<1> QED BY <1>1, <1>2, <1>3, <1>4, <1>5, <1>6, <1>7, <1>8 DEF Next, Reload

LEMMA NotAgainInit == Init => NotAgain
BY SchedulerAssumption DEF Init, NotAgain

LEMMA NotAgainNext ==
  ASSUME Settling, OneEntryEach, NotAgain, [Next]_vars
  PROVE  NotAgain'
<1>0. now \in Nat /\ now \in 0..MaxNow
  BY SchedulerAssumption DEF Settling, TypeInv
<1>1. CASE UNCHANGED <<now, fired>> /\ \A j \in Jobs : cron'[j] = <<>> \/ cron'[j] = cron[j]
  BY <1>1 DEF NotAgain
<1>2. ASSUME NEW c \in Callers, Register(c) PROVE NotAgain'
  <2>1. /\ UNCHANGED <<now, fired>>
        /\ (\E item \in call[c].todo : Registers(c, item)) \/ UNCHANGED cron
    BY <1>2, RegisterCases
  <2>2. ASSUME NEW item \in call[c].todo, Registers(c, item) PROVE NotAgain'
    <3>1. item \in Item /\ item.job \in Jobs /\ item.spec \in Specs
      BY <2>2, CallType DEF Settling, Item
    <3>2. cron[item.job] = <<>>
      BY <1>2, <3>1, <2>2 DEF OneEntryEach, Register
    <3>3. \A j \in Jobs : j # item.job => cron'[j] = cron[j]
      BY <2>2 DEF Registers, Settling, TypeInv
    <3>4. cron'[item.job] = Append(<<>>, NewEntry(item.spec))
      BY <2>2, <3>1, <3>2 DEF Registers, Settling, TypeInv
    <3>5. NewEntry(item.spec).next > now
      BY <1>0, <3>1, NextMatchIsNext DEF NewEntry
    <3>6. \A i \in DOMAIN cron'[item.job] : cron'[item.job][i].next > now
      BY <3>4, <3>5
    <3> QED BY <2>1, <3>3, <3>6 DEF NotAgain
  <2> QED BY <1>1, <2>1, <2>2
<1>3. ASSUME NEW c \in Callers, Finish(c) PROVE NotAgain'
  <2>1. UNCHANGED <<now, fired>> /\ (cron' = Renewed(AllEntries) \/ cron' = cron)
    BY <1>3 DEF Finish, Started, regs
  <2>2. CASE cron' = Renewed(AllEntries)
    <3>1. ASSUME NEW j \in Jobs, NEW i \in DOMAIN cron'[j] PROVE cron'[j][i].next > now
      <4>1. i \in DOMAIN cron[j] /\ <<j, i>> \in AllEntries
        BY <2>2, <3>1, RenewedType DEF Settling, AllEntries
      <4>2. cron[j][i] \in Entry
        BY <4>1 DEF Settling, TypeInv
      <4>3. cron'[j][i] = [cron[j][i] EXCEPT !.next = NextMatch(cron[j][i].spec, now)]
        BY <2>2, <4>1, RenewedType DEF Settling
      <4>4. NextMatch(cron[j][i].spec, now) > now
        BY <1>0, <4>2, NextMatchIsNext DEF Entry
      <4> QED BY <4>2, <4>3, <4>4 DEF Entry
    <3> QED BY <2>1, <3>1 DEF NotAgain
  <2> QED BY <1>1, <2>1, <2>2
<1>4. CASE Wake
  <2>1. UNCHANGED now /\ cron' = Renewed(Due)
    BY <1>4 DEF Wake
  <2>2. ASSUME NEW j \in Jobs, NEW i \in DOMAIN cron'[j] PROVE cron'[j][i].next > now
    <3>1. i \in DOMAIN cron[j]
      BY <2>1, RenewedType DEF Settling
    <3>2. cron[j][i] \in Entry
      BY <3>1 DEF Settling, TypeInv
    <3>3. CASE <<j, i>> \in Due
      <4>1. cron'[j][i] = [cron[j][i] EXCEPT !.next = NextMatch(cron[j][i].spec, now)]
        BY <2>1, <3>1, <3>3, RenewedType DEF Settling
      <4>2. NextMatch(cron[j][i].spec, now) > now
        BY <1>0, <3>2, NextMatchIsNext DEF Entry
      <4> QED BY <3>2, <4>1, <4>2 DEF Entry
    <3>4. CASE <<j, i>> \notin Due
      <4>1. cron'[j][i] = cron[j][i]
        <5>1. Renewed(Due)[j][i] =
                IF <<j, i>> \in Due THEN [cron[j][i] EXCEPT !.next = NextMatch(cron[j][i].spec, now)]
                ELSE cron[j][i]
          BY <3>1, RenewedType DEF Settling
        <5> QED BY <2>1, <3>4, <5>1
      <4>2. ~(cron[j][i].next <= now)
        <5>1. <<j, i>> \in {j} \X DOMAIN cron[j] /\ <<j, i>>[1] = j /\ <<j, i>>[2] = i
          BY <3>1
        <5>2. <<j, i>> \in AllEntries
          BY <5>1 DEF AllEntries
        <5> DEFINE e == <<j, i>>
        <5>3. e \in AllEntries /\ e[1] = j /\ e[2] = i /\ e \notin Due
          BY <3>4, <5>1, <5>2
        <5> HIDE DEF e
        <5> QED BY <5>3 DEF Due
      <4> QED BY <1>0, <3>2, <4>1, <4>2 DEF Entry
    <3> QED BY <3>3, <3>4
  <2>3. ASSUME NEW j \in Jobs, NEW t \in 0..MaxNow
        PROVE  fired'[j][t] <= 1 /\ (t > now => fired'[j][t] = 0)
    <3> DEFINE n == Cardinality({e \in Due : e[1] = j})
    <3>1. /\ fired'[j][now] = fired[j][now] + n /\ n \in Nat
          /\ t # now => fired'[j][t] = fired[j][t]
      BY <1>4, WakeFires, DueFinite DEF Settling
    <3>2. n # 0 => fired[j][now] = 0
      <4>1. n # 0 => \E i \in DOMAIN cron[j] : cron[j][i].next <= now
        BY DueFinite DEF Settling
      <4>2. \A i \in DOMAIN cron[j] : cron[j][i].next \in Nat
        <5>1. cron[j] \in Seq(Entry)
          BY DEF Settling, TypeInv
        <5>2. \A i \in DOMAIN cron[j] : cron[j][i] \in Entry
          BY <5>1
        <5> QED BY <5>2 DEF Entry
      <4> HIDE DEF n
      <4> QED BY <1>0, <4>1, <4>2 DEF NotAgain
    <3>3. n <= 1
      BY AtMostOne, DueFinite DEF Settling
    <3>4. fired[j][t] \in Nat /\ fired[j][now] \in Nat
      BY <1>0 DEF Settling, TypeInv
    <3> HIDE DEF n
    <3> QED BY <1>0, <3>1, <3>2, <3>3, <3>4 DEF NotAgain
  <2> QED BY <2>1, <2>2, <2>3 DEF NotAgain
<1>5. CASE Tick
  <2>1. now' = now + 1 /\ now' \in 0..MaxNow /\ UNCHANGED <<cron, fired>>
    BY <1>0, <1>5, SchedulerAssumption DEF Tick, regs
  <2>2. \A j \in Jobs : fired[j][now'] = 0
    BY <1>0, <2>1 DEF NotAgain
  <2> QED BY <1>0, <2>1, <2>2 DEF NotAgain
<1>6. ASSUME NEW c \in Callers, Clear(c) PROVE NotAgain'
  BY <1>1, <1>6, ClearedAll DEF Clear
<1>7. ASSUME NEW c \in Callers, List(c) PROVE NotAgain'
  BY <1>1, <1>7 DEF List, regs
<1>8. ASSUME NEW h \in Handlers, Lock(h) \/ \E j \in Jobs, row \in Row \cup {NoJob} : Write(h, j, row)
      PROVE  NotAgain'
  BY <1>1, <1>8 DEF Lock, Write, regs
<1>9. CASE UNCHANGED vars
  BY <1>1, <1>9 DEF vars, regs
<1> QED BY <1>2, <1>3, <1>4, <1>5, <1>6, <1>7, <1>8, <1>9 DEF Next, Reload

\* However often it is registered anew, a job fires once per instant.
THEOREM OncePerInstant == Spec => []FiredOnce
<1> DEFINE Inv == Settling /\ OneEntryEach /\ NotAgain
<1>1. Init => Inv
  BY InitSettling, OneEntryEachInit, NotAgainInit
<1>2. Inv /\ [Next]_vars => Inv'
  BY NextSettling, OneEntryEachNext, NotAgainNext
<1>3. Inv => FiredOnce
  BY DEF NotAgain, FiredOnce
<1> QED BY <1>1, <1>2, <1>3, PTL DEF Spec

-----------------------------------------------------------------------------
(* The registrations follow the table *)

\* A job whose registration need not agree with the table: some request has
\* written it and has yet to list it, or has ended before it could.
Excused(j) ==
  \/ j \in dropped
  \/ \E h \in Handlers : call[h].job = j /\ call[h].pc \in {"reload", "clear", "list"}
Agrees(j, spec) == j \in Enabled /\ spec = jobs[j].spec

\* Every other job has the registration, or the row about to be registered,
\* that the table asks for: none that it does not (first two parts) and all
\* that it does, while a reload registers them and after one that went through.
TableFollowed ==
  /\ \A j \in Jobs : \A i \in DOMAIN cron[j] : Excused(j) \/ Agrees(j, cron[j][i].spec)
  /\ \A c \in Callers :
       call[c].pc = "register" =>
         /\ \A x \in call[c].todo : Excused(x.job) \/ Agrees(x.job, x.spec)
         /\ \A j \in Enabled : j \in entries \/ Excused(j) \/ \E x \in call[c].todo : x.job = j
  /\ mu = Nobody /\ lastOk /\ phase = "serving" =>
       \A j \in Enabled : j \in entries \/ Excused(j)

LEMMA RenewedSpec ==
  ASSUME TypeInv, NEW S, NEW j \in Jobs
  PROVE  /\ DOMAIN Renewed(S)[j] = DOMAIN cron[j]
         /\ \A i \in DOMAIN cron[j] : Renewed(S)[j][i].spec = cron[j][i].spec
<1>1. DOMAIN Renewed(S)[j] = DOMAIN cron[j]
  BY RenewedType
<1>2. ASSUME NEW i \in DOMAIN cron[j] PROVE Renewed(S)[j][i].spec = cron[j][i].spec
  <2>1. Renewed(S)[j][i] =
          IF <<j, i>> \in S THEN [cron[j][i] EXCEPT !.next = NextMatch(cron[j][i].spec, now)]
          ELSE cron[j][i]
    BY RenewedType
  <2>2. cron[j][i] \in Entry
    BY DEF TypeInv
  <2> QED BY <2>1, <2>2 DEF Entry
<1> QED BY <1>1, <1>2

LEMMA TableFollowedInit == Init => TableFollowed
<1> SUFFICES ASSUME Init PROVE TableFollowed
  OBVIOUS
<1>1. \A j \in Jobs : DOMAIN cron[j] = {}
  BY DEF Init
<1>2. \A c \in Callers : call[c].pc \in {"idle", "clear"}
  BY DEF Init, Resting
<1> QED BY <1>1, <1>2 DEF Init, TableFollowed

\* A step that leaves the table and the excuses as they are, and of the
\* registrations at most the times.
LEMMA TableFollowedKept ==
  ASSUME TableFollowed, UNCHANGED <<jobs, entries>>,
         \A j \in Jobs : Excused(j)' <=> Excused(j),
         \A j \in Jobs : /\ DOMAIN cron'[j] = DOMAIN cron[j]
                         /\ \A i \in DOMAIN cron[j] : cron'[j][i].spec = cron[j][i].spec,
         Settling,
         \A d \in Callers : call'[d].pc = "register" => call'[d] = call[d],
         mu' = Nobody /\ lastOk' /\ phase' = "serving" =>
           \/ mu = Nobody /\ lastOk /\ phase = "serving"
           \/ \E d \in Callers : call[d].pc = "register" /\ call[d].todo = {}
  PROVE  TableFollowed'
<1>1. Enabled' = Enabled /\ \A j, spec : Agrees(j, spec)' <=> Agrees(j, spec)
  BY DEF Enabled, Agrees
<1>2. Enabled \subseteq Jobs
  BY DEF Enabled
<1>3. \A d \in Callers : \A x \in call[d].todo : x.job \in Jobs
  BY CallType DEF Settling, Item
<1> HIDE DEF Excused, Agrees, Enabled
<1>4. (\A j \in Jobs : \A i \in DOMAIN cron[j] : Excused(j) \/ Agrees(j, cron[j][i].spec))'
  BY <1>1 DEF TableFollowed
<1>5. ASSUME NEW c \in Callers, call'[c].pc = "register"
      PROVE  /\ \A x \in call'[c].todo : (Excused(x.job) \/ Agrees(x.job, x.spec))'
             /\ \A j \in Enabled' : j \in entries' \/ Excused(j)' \/ \E x \in call'[c].todo : x.job = j
  BY <1>1, <1>2, <1>3, <1>5 DEF TableFollowed
<1>6. ASSUME mu' = Nobody, lastOk', phase' = "serving", NEW j \in Enabled'
      PROVE  j \in entries' \/ Excused(j)'
  BY <1>1, <1>2, <1>6 DEF TableFollowed
<1> QED BY <1>4, <1>5, <1>6 DEF TableFollowed

LEMMA TableFollowedNext ==
  ASSUME Settling, OneEntryEach, TableFollowed, [Next]_vars
  PROVE  TableFollowed'
<1>0. call \in [Callers -> [pc : Steps, job : Jobs \cup {NoJob}, todo : SUBSET Item]]
  BY DEF Settling, TypeInv
<1>1. ASSUME NEW h \in Handlers, NEW j \in Jobs, NEW row \in Row \cup {NoJob}, Write(h, j, row)
      PROVE  TableFollowed'
  <2>1. h \in Callers
    BY NotNobody
  <2>2. /\ jobs' = [jobs EXCEPT ![j] = row] /\ call[h].pc = "idle"
        /\ UNCHANGED <<phase, entries, cron, mu, lastOk>>
        /\ \/ /\ call' = [call EXCEPT ![h] = [Resting EXCEPT !.pc = "reload", !.job = j]]
              /\ dropped' = dropped
           \/ call' = call /\ dropped' = dropped \cup {j}
    BY <1>1 DEF Write, regs
  <2>3. Excused(j)' /\ \A k \in Jobs : Excused(k) => Excused(k)'
    <3>1. CASE call' = [call EXCEPT ![h] = [Resting EXCEPT !.pc = "reload", !.job = j]]
               /\ dropped' = dropped
      <4>1. call'[h].pc = "reload" /\ call'[h].job = j
        BY <1>0, <2>1, <3>1 DEF Resting
      <4>2. \A d \in Handlers : d # h => call'[d] = call[d]
        BY <1>0, <3>1, NotNobody
      <4>3. Excused(j)'
        BY <4>1 DEF Excused
      <4>4. ASSUME NEW k \in Jobs, Excused(k) PROVE Excused(k)'
        <5>1. CASE k \in dropped
          BY <3>1, <5>1 DEF Excused
        <5>2. CASE k \notin dropped
          <6>1. PICK d \in Handlers : call[d].job = k /\ call[d].pc \in {"reload", "clear", "list"}
            BY <4>4, <5>2 DEF Excused
          <6>2. call'[d] = call[d]
            BY <2>2, <4>2, <6>1
          <6> QED BY <6>1, <6>2 DEF Excused
        <5> QED BY <5>1, <5>2
      <4> QED BY <4>3, <4>4
    <3>2. CASE call' = call /\ dropped' = dropped \cup {j}
      BY <3>2 DEF Excused
    <3> QED BY <2>2, <3>1, <3>2
  <2>5. \A k \in Jobs : k # j => (k \in Enabled' <=> k \in Enabled)
                                 /\ \A spec : Agrees(k, spec)' <=> Agrees(k, spec)
    BY <2>2 DEF Enabled, Agrees, Settling, TypeInv
  <2>6. \A d \in Callers : call'[d].pc = "register" => call'[d] = call[d]
    BY <1>0, <2>1, <2>2 DEF Resting
  <2>7. \A d \in Callers : \A x \in call[d].todo : x.job \in Jobs
    BY <1>0 DEF Item
  <2>8. Enabled' \subseteq Jobs
    BY DEF Enabled
  <2> HIDE DEF Excused, Agrees, Enabled
  <2>9. (\A k \in Jobs : \A i \in DOMAIN cron[k] : Excused(k) \/ Agrees(k, cron[k][i].spec))'
    BY <2>2, <2>3, <2>5 DEF TableFollowed
  <2>10. ASSUME NEW c \in Callers, call'[c].pc = "register"
         PROVE  /\ \A x \in call'[c].todo : (Excused(x.job) \/ Agrees(x.job, x.spec))'
                /\ \A k \in Enabled' : k \in entries' \/ Excused(k)' \/ \E x \in call'[c].todo : x.job = k
    <3>1. call'[c] = call[c] /\ call[c].pc = "register"
      BY <2>6, <2>10
    <3>2. \A x \in call'[c].todo : (Excused(x.job) \/ Agrees(x.job, x.spec))'
      BY <3>1, <2>3, <2>5, <2>7 DEF TableFollowed
    <3>3. \A k \in Enabled' : k \in entries' \/ Excused(k)' \/ \E x \in call'[c].todo : x.job = k
      BY <3>1, <2>2, <2>3, <2>5, <2>8 DEF TableFollowed
    <3> QED BY <3>2, <3>3
  <2>11. ASSUME mu' = Nobody, lastOk', phase' = "serving", NEW k \in Enabled'
         PROVE  k \in entries' \/ Excused(k)'
    BY <2>2, <2>3, <2>5, <2>8, <2>11 DEF TableFollowed
  <2> QED BY <2>9, <2>10, <2>11 DEF TableFollowed
<1>2. ASSUME NEW h \in Handlers, Lock(h) PROVE TableFollowed'
  <2>1. h \in Callers /\ h # Nobody
    BY NotNobody
  <2>2. /\ call[h].pc = "reload" /\ call' = [call EXCEPT ![h].pc = "clear"] /\ mu' = h
        /\ UNCHANGED <<jobs, entries, cron, dropped>>
    BY <1>2 DEF Lock, Goto, regs, hist
  <2>3. \A j \in Jobs : Excused(j)' <=> Excused(j)
    BY <1>0, <2>1, <2>2 DEF Excused
  <2>4. \A d \in Callers : call'[d].pc = "register" => call'[d] = call[d]
    BY <1>0, <2>1, <2>2
  <2> QED BY <2>1, <2>2, <2>3, <2>4, TableFollowedKept
<1>3. ASSUME NEW c \in Callers, Clear(c) PROVE TableFollowed'
  <2>1. /\ call[c].pc = "clear" /\ call' = [call EXCEPT ![c].pc = "list"]
        /\ UNCHANGED <<jobs, mu, dropped>>
    BY <1>3 DEF Clear, Goto, hist
  <2>2. \A j \in Jobs : DOMAIN cron'[j] = {}
    BY <1>3, ClearedAll DEF Clear
  <2>3. \A d \in Callers : call'[d].pc # "register"
    BY <1>0, <2>1, Alone DEF InReload
  <2>4. mu' # Nobody
    BY <2>1, NotNobody DEF Settling, LockFollowsReload, InReload
  <2> QED BY <2>2, <2>3, <2>4 DEF TableFollowed
<1>4. ASSUME NEW c \in Callers, List(c) PROVE TableFollowed'
  <2>1. call[c].pc = "list" /\ UNCHANGED <<jobs, entries, cron>>
    BY <1>4 DEF List, regs
  <2>2. \A j \in Jobs : DOMAIN cron'[j] = {}
    BY <2>1 DEF OneEntryEach
  <2>3. \A d \in Callers : d # c => call[d].pc # "register"
    BY <2>1, Alone DEF InReload
  <2>4. CASE call' = [call EXCEPT ![c] = [@ EXCEPT !.pc = "register", !.todo = Listed]]
              /\ UNCHANGED mu
    <3>1. call'[c].todo = Listed /\ \A d \in Callers : d # c => call'[d] = call[d]
      BY <1>0, <2>4
    <3>2. mu' # Nobody
      BY <2>1, <2>4, NotNobody DEF Settling, LockFollowsReload, InReload
    <3>3. \A x \in Listed : Agrees(x.job, x.spec)'
      BY <2>1 DEF Listed, Agrees, Enabled
    <3>4. ASSUME NEW j \in Enabled' PROVE \E x \in Listed : x.job = j
      <4>1. [job |-> j, spec |-> jobs[j].spec] \in Listed
        BY <2>1 DEF Listed, Enabled
      <4> QED BY <4>1
    <3> HIDE DEF Listed, Agrees, Enabled, Excused
    <3> QED BY <2>2, <2>3, <3>1, <3>2, <3>3, <3>4 DEF TableFollowed
  <2>5. CASE Fail(c)
    <3>1. ~lastOk' /\ call' = [call EXCEPT ![c] = Resting]
      BY <2>5 DEF Fail
    <3>2. \A d \in Callers : call'[d].pc # "register"
      BY <1>0, <2>3, <3>1 DEF Resting
    <3> QED BY <2>2, <3>1, <3>2 DEF TableFollowed
  <2> QED BY <1>4, <2>4, <2>5 DEF List
<1>5. ASSUME NEW c \in Callers, Register(c) PROVE TableFollowed'
  <2>1. /\ call[c].pc = "register" /\ UNCHANGED <<now, jobs, dropped, quiet, fired>>
        /\ (\E item \in call[c].todo : Registers(c, item)) \/ (Fail(c) /\ UNCHANGED <<entries, cron>>)
    BY <1>5, RegisterCases
  <2>2. \A d \in Callers : d # c => call[d].pc # "register"
    BY <2>1, Alone DEF InReload
  <2>3. ASSUME NEW item \in call[c].todo, Registers(c, item) PROVE TableFollowed'
    <3>1. item \in Item /\ item.job \in Jobs
      BY <1>0 DEF Item
    <3>2. /\ call' = [call EXCEPT ![c].todo = @ \ {item}] /\ mu' = mu
          /\ entries' = entries \cup {item.job}
      BY <2>3 DEF Registers
    <3>3. \A d \in Callers : call'[d].pc = call[d].pc /\ call'[d].job = call[d].job
      BY <1>0, <3>2
    <3>4. call'[c].todo = call[c].todo \ {item}
      BY <1>0, <3>2
    <3>5. \A j : Excused(j)' <=> Excused(j)
      BY <2>1, <3>3, NotNobody DEF Excused
    <3>6. Enabled' = Enabled /\ \A j, spec : Agrees(j, spec)' <=> Agrees(j, spec)
      BY <2>1 DEF Enabled, Agrees
    <3>7. mu' # Nobody
      BY <2>1, <3>2, NotNobody DEF Settling, LockFollowsReload, InReload
    <3>8. \A j \in Jobs : j # item.job => cron'[j] = cron[j]
      BY <2>3 DEF Registers, Settling, TypeInv
    <3>9. \A i \in DOMAIN cron'[item.job] : cron'[item.job][i].spec = item.spec
      <4>1. cron[item.job] = <<>>
        BY <2>1, <3>1 DEF OneEntryEach
      <4>2. cron'[item.job] = Append(<<>>, NewEntry(item.spec))
        BY <2>3, <3>1, <4>1 DEF Registers, Settling, TypeInv
      <4> QED BY <4>2 DEF NewEntry
    <3>10. Excused(item.job) \/ Agrees(item.job, item.spec)
      BY <2>1 DEF TableFollowed
    <3> HIDE DEF Agrees, Enabled, Excused
    <3>11. (\A j \in Jobs : \A i \in DOMAIN cron[j] : Excused(j) \/ Agrees(j, cron[j][i].spec))'
      <4> SUFFICES ASSUME NEW j \in Jobs, NEW i \in DOMAIN cron'[j]
                   PROVE  Excused(j) \/ Agrees(j, cron'[j][i].spec)
        BY <3>5, <3>6
      <4>1. CASE j = item.job
        BY <3>9, <3>10, <4>1
      <4>2. CASE j # item.job
        BY <3>8, <4>2 DEF TableFollowed
      <4> QED BY <4>1, <4>2
    <3>12. \A x \in call'[c].todo : (Excused(x.job) \/ Agrees(x.job, x.spec))'
      BY <2>1, <3>4, <3>5, <3>6 DEF TableFollowed
    <3>13. \A j \in Enabled' : j \in entries' \/ Excused(j)' \/ \E x \in call'[c].todo : x.job = j
      BY <2>1, <3>2, <3>4, <3>5, <3>6 DEF TableFollowed
    <3> QED BY <2>2, <3>3, <3>7, <3>11, <3>12, <3>13 DEF TableFollowed
  <2>4. CASE Fail(c) /\ UNCHANGED <<entries, cron>>
    <3>1. ~lastOk' /\ call' = [call EXCEPT ![c] = Resting]
      BY <2>4 DEF Fail
    <3>2. \A d \in Callers : call'[d].pc # "register"
      BY <1>0, <2>2, <3>1 DEF Resting
    <3>3. \A j \in Jobs : Excused(j)' <=> Excused(j)
      BY <1>0, <2>1, <3>1, NotNobody DEF Excused, Resting
    <3> QED BY <2>1, <2>4, <3>1, <3>2, <3>3, TableFollowedKept
  <2> QED BY <2>1, <2>3, <2>4
<1>6. ASSUME NEW c \in Callers, Finish(c) PROVE TableFollowed'
  <2>1. /\ call[c].pc = "register" /\ call[c].todo = {} /\ call' = [call EXCEPT ![c] = Resting]
        /\ UNCHANGED <<jobs, entries, dropped>>
        /\ (cron' = Renewed(AllEntries) \/ cron' = cron)
    BY <1>6 DEF Finish, Started, regs, hist
  <2>2. \A j \in Jobs : /\ DOMAIN cron'[j] = DOMAIN cron[j]
                        /\ \A i \in DOMAIN cron[j] : cron'[j][i].spec = cron[j][i].spec
    BY <2>1, RenewedSpec DEF Settling
  <2>3. \A d \in Callers : call'[d].pc = "register" => call'[d] = call[d]
    BY <1>0, <2>1 DEF Resting
  <2>4. \A j \in Jobs : Excused(j)' <=> Excused(j)
    BY <1>0, <2>1, NotNobody DEF Excused, Resting
  <2> QED BY <2>1, <2>2, <2>3, <2>4, TableFollowedKept
<1>7. CASE Wake
  <2>1. cron' = Renewed(Due) /\ UNCHANGED <<phase, jobs, entries, mu, call, lastOk, dropped>>
    BY <1>7 DEF Wake, hist
  <2>2. \A j \in Jobs : /\ DOMAIN cron'[j] = DOMAIN cron[j]
                        /\ \A i \in DOMAIN cron[j] : cron'[j][i].spec = cron[j][i].spec
    BY <2>1, RenewedSpec DEF Settling
  <2> QED BY <2>1, <2>2, TableFollowedKept DEF Excused
<1>8. CASE Tick \/ UNCHANGED vars
  <2>1. UNCHANGED <<phase, jobs, entries, cron, mu, call, lastOk, dropped>>
    BY <1>8 DEF Tick, vars, regs, hist
  <2> QED BY <2>1, TableFollowedKept DEF Excused
<1> QED BY <1>1, <1>2, <1>3, <1>4, <1>5, <1>6, <1>7, <1>8 DEF Next, Reload

\* The registrations when nothing is under way.
LEMMA SettledFollows ==
  ASSUME Settling, OneEntryEach, TableFollowed, Settled, lastOk, dropped = {}, NEW j \in Jobs
  PROVE  /\ j \in entries <=> j \in Enabled
         /\ \A i \in DOMAIN cron[j] : cron[j][i].spec = jobs[j].spec
<1>1. ~Excused(j)
  BY DEF Settled, Excused
<1>2. mu = Nobody
  BY NotNobody DEF Settled, Settling, StartFirst, LockFollowsReload, InReload, TypeInv, Callers
<1>3. ASSUME j \in entries PROVE j \in Enabled
  <2>1. cron[j] \in Seq(Entry) /\ Len(cron[j]) = 1
    BY <1>3 DEF OneEntryEach, Settling, TypeInv
  <2>2. 1 \in DOMAIN cron[j]
    BY <2>1
  <2> QED BY <1>1, <2>2 DEF TableFollowed, Agrees
<1>4. j \in Enabled => j \in entries
  BY <1>1, <1>2 DEF TableFollowed, Settled
<1>5. \A i \in DOMAIN cron[j] : cron[j][i].spec = jobs[j].spec
  BY <1>1 DEF TableFollowed, Agrees
<1> QED BY <1>3, <1>4, <1>5

\* A registration that does not agree with the table is on its way out.
THEOREM StaleOnesAreWritten == Spec => []StaleIsPending
<1> DEFINE Inv == Settling /\ OneEntryEach /\ TableFollowed
<1>1. Init => Inv
  BY InitSettling, OneEntryEachInit, TableFollowedInit
<1>2. Inv /\ [Next]_vars => Inv'
  BY NextSettling, OneEntryEachNext, TableFollowedNext
<1>3. ASSUME Inv, NEW j \in Jobs, cron[j] # <<>> PROVE Current(j) \/ Pending(j) \/ j \in dropped
  <2>1. CASE Excused(j)
    BY <2>1 DEF Excused, Pending
  <2>2. CASE ~Excused(j)
    <3>1. \A i \in DOMAIN cron[j] : j \in Enabled /\ cron[j][i].spec = jobs[j].spec
      BY <1>3, <2>2 DEF TableFollowed, Agrees
    <3>2. DOMAIN cron[j] # {}
      <4>1. cron[j] \in Seq(Entry) /\ Len(cron[j]) = 1
        BY <1>3 DEF OneEntryEach, Settling, TypeInv
      <4>2. 1 \in DOMAIN cron[j]
        BY <4>1
      <4> QED BY <4>2
    <3> QED BY <3>1, <3>2 DEF Current, ToSet
  <2> QED BY <2>1, <2>2
<1>4. Inv => StaleIsPending
  BY <1>3 DEF StaleIsPending
<1> QED BY <1>1, <1>2, <1>4, PTL DEF Spec

\* Undisturbed, the enabled jobs are registered with their schedules, and no
\* others, whatever order the requests came and queued in.
THEOREM RegistrationsFollowTheTable == Spec => []RegistrationSettles
<1> DEFINE Inv == Settling /\ OneEntryEach /\ TableFollowed
<1>1. Init => Inv
  BY InitSettling, OneEntryEachInit, TableFollowedInit
<1>2. Inv /\ [Next]_vars => Inv'
  BY NextSettling, OneEntryEachNext, TableFollowedNext
<1>3. ASSUME Inv, Settled, lastOk, dropped = {}, NEW j \in Jobs
      PROVE  IF j \in Enabled THEN Len(cron[j]) = 1 /\ Current(j) ELSE cron[j] = <<>>
  <2>1. /\ j \in entries <=> j \in Enabled
        /\ \A i \in DOMAIN cron[j] : cron[j][i].spec = jobs[j].spec
    BY <1>3, SettledFollows
  <2> QED BY <1>3, <2>1 DEF OneEntryEach, Current, ToSet
<1>4. Inv => RegistrationSettles
  BY <1>3 DEF RegistrationSettles
<1> QED BY <1>1, <1>2, <1>4, PTL DEF Spec

-----------------------------------------------------------------------------
(* Undisturbed instants *)

\* An entry's Next skips no match of its schedule.
NextIsAhead ==
  \A j \in Jobs : \A i \in DOMAIN cron[j] :
    /\ cron[j][i].next \in Times[cron[j][i].spec] \cup {MaxNow + 1}
    /\ \A t \in Times[cron[j][i].spec] : t > now => cron[j][i].next <= t

\* In an instant that no request has disturbed, an enabled job either is due
\* and has not been fired, or has been fired exactly if the instant is one of
\* its schedule's.
DueOrDone(j) ==
  IF j \in Enabled
  THEN \/ now \in Times[jobs[j].spec] /\ cron[j][1].next = now /\ fired[j][now] = 0
       \/ cron[j][1].next > now
            /\ fired[j][now] = (IF now \in Times[jobs[j].spec] THEN 1 ELSE 0)
  ELSE fired[j][now] = 0
Undisturbed == quiet => Settled /\ lastOk /\ dropped = {} /\ \A j \in Jobs : DueOrDone(j)

\* What a step does to the Next of an entry.
LEMMA RenewedNext ==
  ASSUME TypeInv, NEW S, NEW j \in Jobs, NEW i \in DOMAIN cron[j]
  PROVE  Renewed(S)[j][i].next =
           IF <<j, i>> \in S THEN NextMatch(cron[j][i].spec, now) ELSE cron[j][i].next
<1>1. Renewed(S)[j][i] =
        IF <<j, i>> \in S THEN [cron[j][i] EXCEPT !.next = NextMatch(cron[j][i].spec, now)]
        ELSE cron[j][i]
  BY RenewedType
<1>2. cron[j][i] \in Entry
  BY DEF TypeInv
<1> QED BY <1>1, <1>2 DEF Entry

LEMMA RenewedIsAhead ==
  ASSUME TypeInv, NextIsAhead, UNCHANGED now, NEW S, cron' = Renewed(S)
  PROVE  NextIsAhead'
<1> SUFFICES ASSUME NEW j \in Jobs, NEW i \in DOMAIN cron'[j]
             PROVE  /\ cron'[j][i].next \in Times[cron'[j][i].spec] \cup {MaxNow + 1}
                    /\ \A t \in Times[cron'[j][i].spec] : t > now => cron'[j][i].next <= t
  BY DEF NextIsAhead
<1>1. i \in DOMAIN cron[j] /\ cron'[j][i].spec = cron[j][i].spec
  BY RenewedSpec
<1>2. cron[j][i].spec \in Specs /\ now \in Nat
  <2>1. cron[j] \in Seq(Entry) /\ now \in Nat
    BY SchedulerAssumption DEF TypeInv
  <2>2. cron[j][i] \in Entry
    BY <1>1, <2>1
  <2> QED BY <2>1, <2>2 DEF Entry
<1>3. cron'[j][i].next = IF <<j, i>> \in S THEN NextMatch(cron[j][i].spec, now) ELSE cron[j][i].next
  BY <1>1, RenewedNext
<1>4. CASE <<j, i>> \in S
  BY <1>1, <1>2, <1>3, <1>4, NextMatchIsNext
<1>5. CASE <<j, i>> \notin S
  BY <1>1, <1>3, <1>5 DEF NextIsAhead
<1> QED BY <1>4, <1>5

LEMMA NextIsAheadNext ==
  ASSUME Settling, OneEntryEach, NextIsAhead, [Next]_vars
  PROVE  NextIsAhead'
<1>0. now \in Nat
  BY SchedulerAssumption DEF Settling, TypeInv
<1>1. CASE UNCHANGED now /\ \A j \in Jobs : cron'[j] = <<>> \/ cron'[j] = cron[j]
  BY <1>1 DEF NextIsAhead
<1>2. ASSUME NEW c \in Callers, Register(c) PROVE NextIsAhead'
  <2>1. /\ call[c].pc = "register" /\ UNCHANGED now
        /\ (\E item \in call[c].todo : Registers(c, item)) \/ UNCHANGED cron
    BY <1>2, RegisterCases
  <2>2. ASSUME NEW item \in call[c].todo, Registers(c, item) PROVE NextIsAhead'
    <3>1. item \in Item /\ item.job \in Jobs /\ item.spec \in Specs
      BY <2>2, CallType DEF Settling, Item
    <3>2. cron[item.job] = <<>>
      BY <2>1, <3>1 DEF OneEntryEach
    <3>3. \A j \in Jobs : j # item.job => cron'[j] = cron[j]
      BY <2>2 DEF Registers, Settling, TypeInv
    <3>4. cron'[item.job] = Append(<<>>, NewEntry(item.spec))
      BY <2>2, <3>1, <3>2 DEF Registers, Settling, TypeInv
    <3>5. /\ NewEntry(item.spec).spec = item.spec
          /\ NewEntry(item.spec).next \in Times[item.spec] \cup {MaxNow + 1}
          /\ \A t \in Times[item.spec] : t > now => NewEntry(item.spec).next <= t
      BY <1>0, <3>1, NextMatchIsNext DEF NewEntry
    <3>6. \A i \in DOMAIN cron'[item.job] : cron'[item.job][i] = NewEntry(item.spec)
      BY <3>4
    <3> HIDE DEF NewEntry
    <3> QED BY <2>1, <3>3, <3>5, <3>6 DEF NextIsAhead
  <2> QED BY <1>1, <2>1, <2>2
<1>3. ASSUME NEW c \in Callers, Finish(c) PROVE NextIsAhead'
  <2>1. UNCHANGED now /\ (cron' = Renewed(AllEntries) \/ cron' = cron)
    BY <1>3 DEF Finish, Started, regs
  <2> QED BY <1>1, <2>1, RenewedIsAhead DEF Settling
<1>4. CASE Wake
  BY <1>4, RenewedIsAhead DEF Wake, Settling
<1>5. CASE Tick
  <2>1. now' = now + 1 /\ UNCHANGED cron
    BY <1>5 DEF Tick, regs
  <2>2. ASSUME NEW j \in Jobs, NEW i \in DOMAIN cron[j] PROVE Times[cron[j][i].spec] \subseteq Nat
    <3>1. cron[j] \in Seq(Entry)
      BY DEF Settling, TypeInv
    <3>2. cron[j][i] \in Entry
      BY <3>1
    <3>3. cron[j][i].spec \in Specs
      BY <3>2 DEF Entry
    <3> QED BY <3>3, SchedulerAssumption
  <2> QED BY <1>0, <2>1, <2>2 DEF NextIsAhead
<1>6. ASSUME NEW c \in Callers, Clear(c) PROVE NextIsAhead'
  BY <1>1, <1>6, ClearedAll DEF Clear
<1>7. ASSUME NEW c \in Callers, List(c) PROVE NextIsAhead'
  BY <1>1, <1>7 DEF List, regs
<1>8. ASSUME NEW h \in Handlers, Lock(h) \/ \E j \in Jobs, row \in Row \cup {NoJob} : Write(h, j, row)
      PROVE  NextIsAhead'
  BY <1>1, <1>8 DEF Lock, Write, regs
<1>9. CASE UNCHANGED vars
  BY <1>1, <1>9 DEF vars, regs
<1> QED BY <1>2, <1>3, <1>4, <1>5, <1>6, <1>7, <1>8, <1>9 DEF Next, Reload

\* The only entry of an enabled job.
LEMMA OnlyEntry ==
  ASSUME Settling, OneEntryEach, TableFollowed, Settled, lastOk, dropped = {}, NEW j \in Enabled
  PROVE  /\ j \in Jobs /\ DOMAIN cron[j] = {1}
         /\ cron[j][1] \in Entry /\ cron[j][1].spec = jobs[j].spec
<1>1. j \in Jobs
  BY DEF Enabled
<1>2. j \in entries /\ \A i \in DOMAIN cron[j] : cron[j][i].spec = jobs[j].spec
  BY <1>1, SettledFollows
<1>3. cron[j] \in Seq(Entry) /\ Len(cron[j]) = 1
  BY <1>1, <1>2 DEF OneEntryEach, Settling, TypeInv
<1> QED BY <1>1, <1>2, <1>3

LEMMA UndisturbedNext ==
  ASSUME Settling, OneEntryEach, NotAgain, TableFollowed, NextIsAhead, Undisturbed, [Next]_vars
  PROVE  Undisturbed'
<1>0. now \in Nat /\ now \in 0..MaxNow /\ MaxNow \in Nat
  BY SchedulerAssumption DEF Settling, TypeInv
<1>1. CASE UNCHANGED vars
  BY <1>1 DEF vars, regs, hist, Undisturbed, DueOrDone, Enabled, Settled
<1>2. CASE Tick
  <2>1. /\ now' = now + 1 /\ now < MaxNow /\ (phase = "serving" => Due = {})
        /\ quiet' = (Settled /\ lastOk /\ dropped = {})
        /\ UNCHANGED <<phase, jobs, cron, call, lastOk, dropped, fired>>
    BY <1>2 DEF Tick, regs
  <2> SUFFICES ASSUME Settled, lastOk, dropped = {}, NEW j \in Jobs PROVE DueOrDone(j)'
    BY <2>1 DEF Undisturbed, Settled
  <2>2. fired'[j][now'] = 0
    <3>1. now + 1 \in 0..MaxNow /\ now + 1 > now
      BY <1>0, <2>1
    <3> QED BY <2>1, <3>1 DEF NotAgain
  <2>3. CASE j \in Enabled
    <3>1. /\ DOMAIN cron[j] = {1} /\ cron[j][1].next \in Nat
          /\ cron[j][1].spec = jobs[j].spec /\ jobs[j].spec \in Specs
      BY <2>3, OnlyEntry DEF Entry
    <3>2. cron[j][1].next > now
      <4> DEFINE e == <<j, 1>>
      <4>1. e \in {j} \X DOMAIN cron[j] /\ e[1] = j /\ e[2] = 1
        BY <3>1
      <4> HIDE DEF e
      <4>2. e \in AllEntries
        BY <4>1 DEF AllEntries
      <4>3. ~(cron[j][1].next <= now)
        BY <2>1, <4>1, <4>2 DEF Due, Settled
      <4> QED BY <1>0, <3>1, <4>3
    <3>3. /\ cron[j][1].next \in Times[jobs[j].spec] \cup {MaxNow + 1}
          /\ \A t \in Times[jobs[j].spec] : t > now => cron[j][1].next <= t
      BY <3>1 DEF NextIsAhead
    <3>4. \/ now + 1 \in Times[jobs[j].spec] /\ cron[j][1].next = now + 1
          \/ now + 1 \notin Times[jobs[j].spec] /\ cron[j][1].next > now + 1
      BY <1>0, <2>1, <3>1, <3>2, <3>3
    <3> QED BY <2>1, <2>2, <2>3, <3>4 DEF DueOrDone, Enabled
  <2>4. CASE j \notin Enabled
    BY <2>1, <2>2, <2>4 DEF DueOrDone, Enabled
  <2> QED BY <2>3, <2>4
<1>3. CASE Wake
  <2>1. cron' = Renewed(Due) /\ UNCHANGED <<phase, now, jobs, call, lastOk, dropped, quiet>>
    BY <1>3 DEF Wake, hist
  <2> SUFFICES ASSUME quiet, Settled, lastOk, dropped = {}, NEW j \in Jobs, DueOrDone(j)
               PROVE  DueOrDone(j)'
    BY <2>1 DEF Undisturbed, Settled
  <2> DEFINE n == Cardinality({e \in Due : e[1] = j})
  <2>2. n \in Nat /\ (Len(cron[j]) <= 1 => n <= 1) /\ fired'[j][now] = fired[j][now] + n
        /\ (n # 0 => \E i \in DOMAIN cron[j] : cron[j][i].next <= now)
        /\ (n = 0 => \A i \in DOMAIN cron[j] : ~(cron[j][i].next <= now))
    BY <1>3, DueFinite, WakeFires DEF Settling
  <2> HIDE DEF n
  <2>3. n <= 1
    BY <2>2, AtMostOne
  <2>4. CASE j \in Enabled
    <3>1. /\ DOMAIN cron[j] = {1} /\ cron[j][1].next \in Nat
          /\ cron[j][1].spec = jobs[j].spec /\ jobs[j].spec \in Specs
      BY <2>4, OnlyEntry DEF Entry
    <3>2. cron'[j][1].next =
            IF <<j, 1>> \in Due THEN NextMatch(jobs[j].spec, now) ELSE cron[j][1].next
      BY <2>1, <3>1, RenewedNext DEF Settling
    <3>3. <<j, 1>> \in Due <=> cron[j][1].next <= now
      <4> DEFINE e == <<j, 1>>
      <4>1. e \in {j} \X DOMAIN cron[j] /\ e[1] = j /\ e[2] = 1
        BY <3>1
      <4> HIDE DEF e
      <4>2. e \in AllEntries
        BY <4>1 DEF AllEntries
      <4>3. e \in Due <=> cron[j][1].next <= now
        BY <4>1, <4>2 DEF Due
      <4> QED BY <4>3 DEF e
    <3>4. NextMatch(jobs[j].spec, now) > now
      BY <1>0, <3>1, NextMatchIsNext
    <3>5. (cron[j][1].next = now \/ cron[j][1].next > now) /\ fired[j][now] \in Nat
      BY <1>0, <2>4 DEF DueOrDone, Settling, TypeInv
    <3>6. CASE cron[j][1].next = now
      <4>1. now \in Times[jobs[j].spec] /\ fired[j][now] = 0
        BY <1>0, <2>4, <3>6 DEF DueOrDone
      <4>2. n = 1
        BY <1>0, <2>2, <2>3, <3>1, <3>6
      <4>3. cron'[j][1].next > now
        BY <1>0, <3>2, <3>3, <3>4, <3>6
      <4> QED BY <2>1, <2>2, <2>4, <4>1, <4>2, <4>3 DEF DueOrDone, Enabled
    <3>7. CASE cron[j][1].next > now
      <4>1. ~(cron[j][1].next <= now)
        BY <1>0, <3>1, <3>7
      <4>2. n = 0
        BY <2>2, <3>1, <4>1
      <4>3. cron'[j][1].next = cron[j][1].next /\ fired'[j][now] = fired[j][now]
        BY <2>2, <3>2, <3>3, <3>5, <4>1, <4>2
      <4>4. fired[j][now] = IF now \in Times[jobs[j].spec] THEN 1 ELSE 0
        BY <1>0, <2>4, <3>7 DEF DueOrDone
      <4> QED BY <2>1, <2>4, <3>7, <4>3, <4>4 DEF DueOrDone, Enabled
    <3> QED BY <3>5, <3>6, <3>7
  <2>5. CASE j \notin Enabled
    <3>1. cron[j] = <<>>
      BY <2>5, SettledFollows DEF OneEntryEach
    <3>2. n = 0
      BY <2>2, <3>1
    <3> QED BY <2>1, <2>2, <2>5, <3>2 DEF DueOrDone, Enabled
  <2> QED BY <2>4, <2>5
<1>4. ASSUME NEW h \in Handlers, NEW j \in Jobs, NEW row \in Row \cup {NoJob}, Write(h, j, row)
      PROVE  Undisturbed'
  BY <1>4 DEF Write, Undisturbed
<1>5. CASE quiet' = quiet /\ (~Settled \/ phase # "serving" \/ \E c \in Callers : call[c].pc # "idle")
  <2>1. Settled => phase = "serving" /\ \A c \in Callers : call[c].pc = "idle"
    BY DEF Settled, Callers, Settling, StartFirst
  <2> QED BY <1>5, <2>1 DEF Undisturbed
<1>6. ASSUME NEW h \in Handlers, Lock(h) PROVE Undisturbed'
  BY <1>5, <1>6, NotNobody DEF Lock, hist
<1>7. ASSUME NEW c \in Callers, Reload(c) PROVE Undisturbed'
  <2>1. quiet' = quiet /\ call[c].pc # "idle"
    BY <1>7 DEF Reload, Clear, List, Register, Finish, hist
  <2> QED BY <1>5, <2>1
<1> QED BY <1>1, <1>2, <1>3, <1>4, <1>6, <1>7 DEF Next

\* In an instant that no request disturbs the enabled jobs whose schedule
\* matches it are fired, and no others.
THEOREM UndisturbedInstantsFire == Spec => []QuietInstantsFire
<1> DEFINE Inv == Settling /\ OneEntryEach /\ NotAgain /\ TableFollowed /\ NextIsAhead /\ Undisturbed
<1>1. Init => Inv
  BY InitSettling, OneEntryEachInit, NotAgainInit, TableFollowedInit
     DEF Init, NextIsAhead, Undisturbed
<1>2. Inv /\ [Next]_vars => Inv'
  BY NextSettling, OneEntryEachNext, NotAgainNext, TableFollowedNext, NextIsAheadNext, UndisturbedNext
<1>3. ASSUME Inv, quiet, Due = {}, NEW j \in Jobs
      PROVE  fired[j][now] = 1 <=> jobs[j] # NoJob /\ jobs[j].enabled /\ now \in Times[jobs[j].spec]
  <2>1. Settled /\ lastOk /\ dropped = {} /\ DueOrDone(j)
    BY <1>3 DEF Undisturbed
  <2>2. CASE j \in Enabled
    <3>1. DOMAIN cron[j] = {1}
      BY <1>3, <2>1, <2>2, OnlyEntry
    <3> DEFINE e == <<j, 1>>
    <3>2. e \in {j} \X DOMAIN cron[j] /\ e[1] = j /\ e[2] = 1
      BY <3>1
    <3> HIDE DEF e
    <3>3. e \in AllEntries
      BY <3>2 DEF AllEntries
    <3>4. ~(cron[j][1].next <= now)
      BY <1>3, <3>2, <3>3 DEF Due
    <3>5. now \in Nat
      BY <1>3, SchedulerAssumption DEF Settling, TypeInv
    <3>6. fired[j][now] = IF now \in Times[jobs[j].spec] THEN 1 ELSE 0
      BY <2>1, <2>2, <3>4, <3>5 DEF DueOrDone
    <3> QED BY <2>2, <3>6 DEF Enabled
  <2>3. CASE j \notin Enabled
    BY <2>1, <2>3 DEF DueOrDone, Enabled
  <2> QED BY <2>2, <2>3
<1>4. Inv => QuietInstantsFire
  BY <1>3 DEF QuietInstantsFire
<1> QED BY <1>1, <1>2, <1>4, PTL DEF Spec

=============================================================================
