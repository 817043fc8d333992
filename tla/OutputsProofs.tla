---------------------------- MODULE OutputsProofs ----------------------------
(***************************************************************************)
(* The files that rows name are there, and the log cap takes the oldest    *)
(* first and reaches its goal, for any runs, calls and sizes.  After that   *)
(* the computations beside them: the delay before a retry, the tail of an  *)
(* output and the texts of instants.                                       *)
(***************************************************************************)
EXTENDS Outputs, Backoff, OutputTail, Timestamps, FiniteSetTheorems, SequenceTheorems, TLAPS

Execs == {"no", "shell", "http", "kept", "none", "over"}
Files == [Runs -> (0..MaxSize) \cup {NoFile}]
Night == [kind : {"age"}, cutoff : Nat, successOnly : BOOLEAN]
Step  == [do : {"select", "delete", "files"}, query : Query \cup Night]
         \cup [do : {"items", "total", "trim", "clear"}]
Work  == [stages : Seq(Step), paths : SUBSET Runs, items : Seq(Runs), total : Int, size : Int]

OutputsTypes ==
  /\ time \in Nat /\ row \in [Runs -> Row \cup {NoRow}] /\ file \in Files
  /\ exec \in [Runs -> Execs] /\ task \in [Tasks -> Work]

\* What comes after a stage, if anything does.
After == [select |-> "delete", delete |-> "files", files |-> "items", items |-> "total",
          total |-> "trim", clear |-> "trim", trim |-> "select"]
InOrder(s) == \A i \in 1..(Len(s) - 1) : s[i + 1].do = After[s[i].do]

\* A name is stored when its file is written for good, and ends are dated in
\* their order.
RunInv(r) ==
  /\ r \in Referenced => exec[r] = "over" /\ (file[r] # NoFile \/ r \in trimmed)
  /\ exec[r] = "kept" => file[r] # NoFile
  /\ r \in Rows => row[r].stamp <= time

\* The bytes of the files of S.
Weight(f, S) == Cardinality({b \in S \X (1..MaxSize) : f[b[1]] # NoFile /\ b[2] <= f[b[1]]})
Left(t)      == Referenced \cap ToSet(task[t].items)

\* A call has in hand only files of runs that are over, each once; it has passed
\* all the older ones that rows name; and, unless what it counts was taken away,
\* the total it counts down covers what is left of its list, but for the file
\* whose name it is about to clear.
InHand(t)  == \A r \in task[t].paths \cup ToSet(task[t].items) : exec[r] = "over"
Passed(t)  ==
  \A i \in DOMAIN task[t].items, q \in Referenced :
    task[t].items[i] \in Rows /\ row[q].stamp < row[task[t].items[i]].stamp
      => \E j \in 1..(i - 1) : task[t].items[j] = q
Once(t)    == \A i, j \in DOMAIN task[t].items : i # j => task[t].items[i] # task[t].items[j]
Trimmed(t) == At(t, "clear") => task[t].items # <<>>
Other(t)   == Left(t) \ {Head(task[t].items)}
Counted(t) ==
  t \notin crossed =>
    /\ \A r \in ToSet(task[t].items) \ Referenced : file[r] = NoFile
    /\ At(t, "trim") => Weight(file, Left(t)) <= task[t].total
    /\ At(t, "clear") => Weight(file, Other(t)) <= task[t].total - task[t].size

CallInv(t) ==
  InOrder(task[t].stages) /\ InHand(t) /\ Passed(t) /\ Once(t) /\ Trimmed(t) /\ Counted(t)

OutputsInv == OutputsTypes /\ (\A r \in Runs : RunInv(r)) /\ (\A t \in Tasks : CallInv(t))

-----------------------------------------------------------------------------
(* Stages *)

LEMMA PlanTypes ==
  ASSUME NEW query \in Query \cup Night
  PROVE  /\ Capping \in Seq(Step) /\ InOrder(Capping)
         /\ Purging(query) \in Seq(Step) /\ InOrder(Purging(query))
<1> DEFINE pdo == <<"select", "delete", "files">>  cdo == <<"items", "total", "trim">>
<1>1. /\ \A n \in 1..3 : pdo[n] \in {"select", "delete", "files"}
      /\ \A n \in 1..3 : cdo[n] \in {"items", "total", "trim", "clear"}
      /\ \A n \in 1..2 : pdo[n + 1] = After[pdo[n]] /\ cdo[n + 1] = After[cdo[n]]
  BY DEF After
<1> HIDE DEF pdo, cdo
<1>2. ASSUME NEW s, s = [n \in 1..3 |-> [do |-> pdo[n], query |-> query]]
      PROVE  s \in Seq(Step) /\ InOrder(s)
  <2>1. \A n \in 1..3 : [do |-> pdo[n], query |-> query] \in Step
    BY <1>1 DEF Step
  <2>2. s \in Seq(Step) /\ Len(s) = 3
    BY <1>2, <2>1
  <2> QED BY <1>1, <1>2, <2>2 DEF InOrder
<1>3. ASSUME NEW s, s = [n \in 1..3 |-> [do |-> cdo[n]]]
      PROVE  s \in Seq(Step) /\ InOrder(s)
  <2>1. \A n \in 1..3 : [do |-> cdo[n]] \in Step
    BY <1>1 DEF Step
  <2>2. s \in Seq(Step) /\ Len(s) = 3
    BY <1>3, <2>1
  <2> QED BY <1>1, <1>3, <2>2 DEF InOrder
<1> QED BY <1>2, <1>3 DEF Purging, Capping, pdo, cdo

LEMMA BothPlans ==
  ASSUME NEW query \in Query \cup Night
  PROVE  /\ Capping \o Purging(query) \in Seq(Step) /\ InOrder(Capping \o Purging(query))
         /\ Purging(query) \o Capping \in Seq(Step) /\ InOrder(Purging(query) \o Capping)
         /\ Purging(query) \o <<>> = Purging(query)
         /\ Head(Capping).do = "items" /\ Head(Capping \o Purging(query)).do = "items"
         /\ Head(Purging(query)).do = "select" /\ Head(Purging(query) \o Capping).do = "select"
<1>1. /\ Len(Capping) = 3 /\ Len(Purging(query)) = 3
      /\ Capping[1].do = "items" /\ Capping[3].do = "trim"
      /\ Purging(query)[1].do = "select" /\ Purging(query)[3].do = "files"
  BY DEF Capping, Purging
<1>2. ASSUME NEW s \in Seq(Step), NEW u \in Seq(Step), InOrder(s), InOrder(u), Len(s) = 3, Len(u) = 3,
             u[1].do = After[s[3].do]
      PROVE  s \o u \in Seq(Step) /\ InOrder(s \o u)
  <2>1. /\ s \o u \in Seq(Step) /\ Len(s \o u) = 6
        /\ \A i \in 1..3 : (s \o u)[i] = s[i]
        /\ \A i \in 4..6 : (s \o u)[i] = u[i - 3]
    <3>1. /\ s \o u \in Seq(Step) /\ Len(s \o u) = Len(s) + Len(u)
          /\ \A i \in 1..(Len(s) + Len(u)) : (s \o u)[i] = IF i <= Len(s) THEN s[i] ELSE u[i - Len(s)]
      BY ConcatProperties
    <3>2. Len(s) = 3 /\ Len(u) = 3
      BY <1>2
    <3>3. \A i \in 1..6 : (s \o u)[i] = IF i <= 3 THEN s[i] ELSE u[i - 3]
      BY <3>1, <3>2
    <3>4. s \o u \in Seq(Step)
      BY <3>1
    <3>5. Len(s \o u) = 6
      BY <3>1, <3>2
    <3>6. \A i \in 1..3 : i \in 1..6 /\ i <= 3
      OBVIOUS
    <3>7. \A i \in 4..6 : i \in 1..6 /\ ~(i <= 3)
      OBVIOUS
    <3> QED BY <3>3, <3>4, <3>5, <3>6, <3>7
  <2>2. ASSUME NEW i \in 1..5 PROVE (s \o u)[i + 1].do = After[(s \o u)[i].do]
    <3>1. CASE i \in 1..2
      BY <1>2, <2>1, <3>1 DEF InOrder
    <3>2. CASE i = 3
      BY <1>2, <2>1, <3>2
    <3>3. CASE i \in 4..5
      <4>1. i - 3 \in 1..2 /\ i \in 4..6 /\ i + 1 \in 4..6 /\ i + 1 - 3 = i - 3 + 1
        BY <3>3
      <4>2. u[i - 3 + 1].do = After[u[i - 3].do]
        BY <1>2, <4>1 DEF InOrder
      <4>3. (s \o u)[i] = u[i - 3] /\ (s \o u)[i + 1] = u[i - 3 + 1]
        BY <2>1, <4>1
      <4> QED BY <4>2, <4>3
    <3>4. i \in 1..2 \/ i = 3 \/ i \in 4..5
      OBVIOUS
    <3> QED BY <3>1, <3>2, <3>3, <3>4
  <2> QED BY <2>1, <2>2 DEF InOrder
<1>3. After["files"] = "items" /\ After["trim"] = "select"
  BY DEF After
<1>4. Purging(query) \o <<>> = Purging(query)
  BY PlanTypes
<1>5. ASSUME NEW s \in Seq(Step), NEW u \in Seq(Step), Len(s) = 3 PROVE Head(s) = s[1] /\ Head(s \o u) = s[1]
  <2>1. Len(s \o u) = 3 + Len(u) /\ (s \o u)[1] = s[1]
    <3>1. /\ Len(s \o u) = Len(s) + Len(u) /\ Len(u) \in Nat
          /\ \A i \in 1..(Len(s) + Len(u)) : (s \o u)[i] = IF i <= Len(s) THEN s[i] ELSE u[i - Len(s)]
      BY ConcatProperties
    <3>2. 1 \in 1..(Len(s) + Len(u)) /\ 1 <= Len(s)
      BY <1>5, <3>1
    <3> QED BY <1>5, <3>1, <3>2
  <2> QED BY <2>1
<1>6. /\ Head(Capping) = Capping[1] /\ Head(Capping \o Purging(query)) = Capping[1]
      /\ Head(Purging(query)) = Purging(query)[1] /\ Head(Purging(query) \o Capping) = Purging(query)[1]
  BY <1>1, <1>5, PlanTypes
<1> QED BY <1>1, <1>2, <1>3, <1>4, <1>6, PlanTypes

LEMMA NextStage ==
  ASSUME NEW s \in Seq(Step), s # <<>>, InOrder(s)
  PROVE  /\ Tail(s) \in Seq(Step) /\ InOrder(Tail(s))
         /\ Tail(s) # <<>> => Head(Tail(s)).do = After[Head(s).do]
<1>1. /\ Tail(s) \in Seq(Step) /\ Len(Tail(s)) = Len(s) - 1 /\ Len(s) \in Nat /\ Len(s) >= 1
      /\ \A i \in 1..(Len(s) - 1) : Tail(s)[i] = s[i + 1]
  OBVIOUS
<1>2. InOrder(Tail(s))
  <2> SUFFICES ASSUME NEW i \in 1..(Len(Tail(s)) - 1) PROVE Tail(s)[i + 1].do = After[Tail(s)[i].do]
    BY DEF InOrder
  <2>1. i \in 1..(Len(s) - 1) /\ i + 1 \in 1..(Len(s) - 1)
    BY <1>1
  <2> QED BY <1>1, <2>1 DEF InOrder
<1>3. ASSUME Tail(s) # <<>> PROVE Head(Tail(s)).do = After[Head(s).do]
  <2>1. 1 \in 1..(Len(s) - 1) /\ Head(Tail(s)) = Tail(s)[1] /\ Head(s) = s[1]
    BY <1>1, <1>3
  <2>2. Tail(s)[1] = s[2] /\ s[2].do = After[s[1].do]
    BY <1>1, <2>1 DEF InOrder
  <2> QED BY <2>1, <2>2
<1> QED BY <1>1, <1>2, <1>3

-----------------------------------------------------------------------------
(* Bytes *)

LEMMA WeightTypes ==
  ASSUME NEW f \in Files, NEW S \in SUBSET Runs
  PROVE  /\ Weight(f, S) \in Nat
         /\ IsFiniteSet({b \in S \X (1..MaxSize) : f[b[1]] # NoFile /\ b[2] <= f[b[1]]})
<1> DEFINE pairs == S \X (1..MaxSize)
           bytes == {b \in pairs : f[b[1]] # NoFile /\ b[2] <= f[b[1]]}
<1>1. IsFiniteSet(S) /\ IsFiniteSet(1..MaxSize)
  <2>1. IsFiniteSet(S)
    BY OutputsAssumption, FS_Subset
  <2>2. 1 \in Int /\ MaxSize \in Int
    BY OutputsAssumption
  <2> QED BY <2>1, <2>2, FS_Interval
<1>2. IsFiniteSet(pairs)
  BY <1>1, FS_Product
<1>3. bytes \in SUBSET pairs
  OBVIOUS
<1> HIDE DEF pairs, bytes
<1>4. IsFiniteSet(bytes) /\ Cardinality(bytes) \in Nat
  BY <1>2, <1>3, FS_Subset, FS_CardinalityType
<1> QED BY <1>4 DEF bytes, pairs, Weight

\* Fewer and smaller files weigh less.
LEMMA WeightShrinks ==
  ASSUME NEW f \in Files, NEW g \in Files, NEW S \in SUBSET Runs, NEW T \in SUBSET S,
         \A r \in T : g[r] \in {f[r], NoFile}
  PROVE  Weight(g, T) <= Weight(f, S)
<1> DEFINE small == {b \in T \X (1..MaxSize) : g[b[1]] # NoFile /\ b[2] <= g[b[1]]}
           large == {b \in S \X (1..MaxSize) : f[b[1]] # NoFile /\ b[2] <= f[b[1]]}
<1>1. small \in SUBSET large
  OBVIOUS
<1>2. IsFiniteSet(large)
  BY WeightTypes
<1> HIDE DEF small, large
<1>3. Cardinality(small) <= Cardinality(large)
  BY <1>1, <1>2, FS_Subset
<1> QED BY <1>3 DEF small, large, Weight

\* A file that goes takes its size with it.
LEMMA WeightDrops ==
  ASSUME NEW f \in Files, NEW S \in SUBSET Runs, NEW r \in S, f[r] # NoFile
  PROVE  Weight([f EXCEPT ![r] = NoFile], S) = Weight(f, S) - f[r]
<1> DEFINE g     == [f EXCEPT ![r] = NoFile]
           all   == {b \in S \X (1..MaxSize) : f[b[1]] # NoFile /\ b[2] <= f[b[1]]}
           rest  == {b \in S \X (1..MaxSize) : g[b[1]] # NoFile /\ b[2] <= g[b[1]]}
           gone  == {r} \X (1..f[r])
<1>1. f[r] \in 0..MaxSize /\ MaxSize \in Nat
  BY OutputsAssumption DEF Files
<1>2. g[r] = NoFile /\ \A q \in S : q # r => g[q] = f[q]
  BY DEF Files
<1>3. all = rest \cup gone /\ rest \cap gone = {}
  BY <1>1, <1>2
<1>4. IsFiniteSet(gone) /\ Cardinality(gone) = f[r]
  <2>1. IsFiniteSet({r}) /\ Cardinality({r}) = 1
    BY FS_Singleton
  <2>2. IsFiniteSet(1..f[r]) /\ Cardinality(1..f[r]) = f[r]
    <3>1. 1 \in Int /\ f[r] \in Int /\ f[r] >= 0
      BY <1>1
    <3>2. IsFiniteSet(1..f[r]) /\ Cardinality(1..f[r]) = IF 1 > f[r] THEN 0 ELSE f[r] - 1 + 1
      BY <3>1, FS_Interval
    <3> QED BY <3>1, <3>2
  <2> HIDE DEF all, rest
  <2>3. IsFiniteSet({r} \X (1..f[r])) /\ Cardinality({r} \X (1..f[r])) = Cardinality({r}) * Cardinality(1..f[r])
    BY <2>1, <2>2, FS_Product
  <2>4. Cardinality(gone) = 1 * f[r]
    BY <2>1, <2>2, <2>3
  <2> QED BY <1>1, <2>3, <2>4
<1>5. IsFiniteSet(rest) /\ Cardinality(rest) \in Nat
  <2>1. g \in Files
    BY DEF Files
  <2> QED BY <2>1, WeightTypes DEF Weight
<1>6. Cardinality(rest \cup gone) = Cardinality(rest) + Cardinality(gone) - Cardinality(rest \cap gone)
  BY <1>4, <1>5, FS_Union
<1>7. Cardinality({}) = 0
  BY FS_EmptySet
<1> HIDE DEF all, rest, gone
<1>8. Cardinality(all) = Cardinality(rest) + f[r]
  <2>1. Cardinality(all) = Cardinality(rest) + Cardinality(gone) - 0
    BY <1>3, <1>6, <1>7
  <2>2. Cardinality(gone) = f[r] /\ f[r] \in Int /\ Cardinality(rest) \in Int
    BY <1>1, <1>4, <1>5
  <2> QED BY <2>1, <2>2
<1> QED BY <1>1, <1>5, <1>8 DEF Weight, all, rest

LEMMA BytesAre == ASSUME OutputsTypes, NEW S \in SUBSET Runs PROVE Bytes(S) = Weight(file, S)
<1>1. {b \in S \X (1..MaxSize) : b[2] <= Size(b[1])}
        = {b \in S \X (1..MaxSize) : file[b[1]] # NoFile /\ b[2] <= file[b[1]]}
  BY DEF OutputsTypes, Files, Size
<1> QED BY <1>1 DEF Bytes, Weight

-----------------------------------------------------------------------------
(* Frames *)

\* What a step may do to runs: those that are over lose their file, the name or
\* the row, and a name comes to a row only with its end.
RunsMove ==
  /\ row' \in [Runs -> Row \cup {NoRow}] /\ file' \in Files
  /\ \A r \in Runs :
       IF exec[r] = "over"
       THEN /\ exec'[r] = "over" /\ file'[r] \in {file[r], NoFile}
            /\ r \in Rows' => r \in Rows /\ row'[r].stamp = row[r].stamp
            /\ r \in Referenced' => r \in Referenced
       ELSE r \in Referenced' => row'[r].stamp = time + 1

\* Names go only with their files, as far as a call is concerned.
NamesKept(t) ==
  t \notin crossed' =>
    t \notin crossed /\ (task[t].items = <<>> \/ \A r \in Referenced \ Referenced' : file'[r] = NoFile)

LEMMA ListTypes ==
  ASSUME OutputsTypes, NEW t \in Tasks
  PROVE  /\ task[t] \in Work /\ task[t].items \in Seq(Runs) /\ task[t].stages \in Seq(Step)
         /\ ToSet(task[t].items) \subseteq Runs /\ Left(t) \subseteq Runs /\ Referenced \subseteq Runs
         /\ \A i \in DOMAIN task[t].items : task[t].items[i] \in ToSet(task[t].items)
         /\ task[t].items # <<>> => Head(task[t].items) \in ToSet(task[t].items)
<1>1. task[t] \in Work
  BY DEF OutputsTypes
<1>2. task[t].items \in Seq(Runs) /\ task[t].stages \in Seq(Step)
  BY <1>1 DEF Work
<1>3. ToSet(task[t].items) \subseteq Runs
  BY <1>2 DEF ToSet
<1>4. Referenced \subseteq Runs
  BY DEF Referenced, Rows
<1>5. \A i \in DOMAIN task[t].items : task[t].items[i] \in ToSet(task[t].items)
  BY DEF ToSet
<1>6. task[t].items # <<>> => Head(task[t].items) \in ToSet(task[t].items)
  <2> SUFFICES ASSUME task[t].items # <<>> PROVE Head(task[t].items) \in ToSet(task[t].items)
    OBVIOUS
  <2>1. 1 \in DOMAIN task[t].items /\ Head(task[t].items) = task[t].items[1]
    BY <1>2
  <2> QED BY <1>5, <2>1
<1> QED BY <1>1, <1>2, <1>3, <1>4, <1>5, <1>6 DEF Left

\* What is listed, when a step does not change the list.
LEMMA ListStays ==
  ASSUME OutputsInv, RunsMove, NEW t \in Tasks, task'[t].items = task[t].items, NamesKept(t)
  PROVE  /\ \A r \in ToSet(task[t].items) : exec'[r] = "over"
         /\ Passed(t)'
         /\ t \notin crossed' => \A r \in ToSet(task[t].items) \ Referenced' : file'[r] = NoFile
<1> DEFINE items == task[t].items
<1>1. /\ CallInv(t) /\ OutputsTypes /\ \A r \in Runs : RunInv(r)
      /\ \A r \in ToSet(items) : r \in Runs /\ exec[r] = "over"
  BY ListTypes DEF OutputsInv, CallInv, InHand
<1>2. \A r \in ToSet(items) : exec'[r] = "over"
  BY <1>1 DEF RunsMove
<1>3. Passed(t)'
  <2> SUFFICES ASSUME NEW i \in DOMAIN items, NEW q \in Referenced',
                      items[i] \in Rows', row'[q].stamp < row'[items[i]].stamp
               PROVE  \E j \in 1..(i - 1) : items[j] = q
    BY DEF Passed
  <2>1. items[i] \in ToSet(items) /\ items[i] \in Runs
    BY <1>1, ListTypes
  <2>2. items[i] \in Rows /\ row'[items[i]].stamp = row[items[i]].stamp
    BY <1>1, <2>1 DEF RunsMove
  <2>3. row[items[i]].stamp <= time /\ row[items[i]].stamp \in Nat /\ time \in Nat
    BY <1>1, <2>1, <2>2 DEF RunInv, OutputsTypes, Rows, Row
  <2>4. q \in Runs
    BY DEF Referenced, Rows
  <2>5. exec[q] = "over"
    BY <2>2, <2>3, <2>4 DEF RunsMove
  <2>6. q \in Referenced /\ row'[q].stamp = row[q].stamp
    BY <2>4, <2>5 DEF RunsMove, Referenced
  <2> QED BY <1>1, <2>2, <2>6 DEF CallInv, Passed
<1>4. ASSUME t \notin crossed', NEW r \in ToSet(items), r \notin Referenced' PROVE file'[r] = NoFile
  <2>1. t \notin crossed /\ (items = <<>> \/ \A q \in Referenced \ Referenced' : file'[q] = NoFile)
    BY <1>4 DEF NamesKept
  <2>2. items # <<>>
    BY <1>4 DEF ToSet
  <2>3. r \notin Referenced => file[r] = NoFile
    BY <1>1, <1>4, <2>1 DEF CallInv, Counted
  <2>4. file'[r] \in {file[r], NoFile}
    BY <1>1, <1>4 DEF RunsMove
  <2> QED BY <1>4, <2>1, <2>2, <2>3, <2>4
<1> QED BY <1>2, <1>3, <1>4

LEMMA CallStays ==
  ASSUME OutputsInv, RunsMove, NEW t \in Tasks, task'[t] = task[t], NamesKept(t)
  PROVE  CallInv(t)'
<1> DEFINE items == task[t].items
<1>1. /\ CallInv(t) /\ OutputsTypes
      /\ \A r \in ToSet(items) : r \in Runs /\ exec[r] = "over"
  BY ListTypes DEF OutputsInv, CallInv, InHand
<1>2. InOrder(task[t].stages)' /\ InHand(t)'
  <2>1. task[t].paths \subseteq Runs
    BY <1>1 DEF OutputsTypes, Work
  <2>2. \A r \in task[t].paths \cup ToSet(items) : exec'[r] = "over"
    BY <1>1, <2>1 DEF CallInv, InHand, RunsMove
  <2> QED BY <1>1, <2>2 DEF CallInv, InHand
<1>3. Passed(t)'
  BY ListStays
<1>4. Once(t)' /\ Trimmed(t)'
  BY <1>1 DEF CallInv, Once, Trimmed, At, Stage
<1>5. Counted(t)'
  <2> SUFFICES ASSUME t \notin crossed' PROVE Counted(t)'
    BY DEF Counted
  <2>1. t \notin crossed
    BY DEF NamesKept
  <2>2. \A r \in ToSet(items) \ Referenced' : file'[r] = NoFile
    BY ListStays
  <2>3. /\ Left(t)' \in SUBSET Left(t) /\ \A r \in Left(t)' : file'[r] \in {file[r], NoFile}
        /\ Other(t)' \in SUBSET Other(t) /\ \A r \in Other(t)' : file'[r] \in {file[r], NoFile}
    BY <1>1 DEF Left, Other, RunsMove
  <2>4. /\ Weight(file', Left(t)') <= Weight(file, Left(t))
        /\ Weight(file, Left(t)) \in Nat /\ Weight(file', Left(t)') \in Nat
        /\ Weight(file', Other(t)') <= Weight(file, Other(t))
        /\ Weight(file, Other(t)) \in Nat /\ Weight(file', Other(t)') \in Nat
    <3>1. Left(t) \in SUBSET Runs /\ Other(t) \in SUBSET Runs /\ file \in Files /\ file' \in Files
      BY <1>1, ListTypes DEF OutputsTypes, RunsMove, Other
    <3> QED BY <2>3, <3>1, WeightShrinks, WeightTypes
  <2>5. task[t].total \in Int /\ task[t].size \in Int
    BY <1>1 DEF OutputsTypes, Work
  <2>6. (At(t, "trim") => Weight(file, Left(t)) <= task[t].total)
        /\ (At(t, "clear") => Weight(file, Other(t)) <= task[t].total - task[t].size)
    BY <1>1, <2>1 DEF CallInv, Counted
  <2>7. \A do \in {"trim", "clear"} : At(t, do)' <=> At(t, do)
    BY DEF At, Stage
  <2>8. /\ At(t, "trim")' => Weight(file', Left(t)') <= task[t].total
        /\ At(t, "clear")' => Weight(file', Other(t)') <= task[t].total - task[t].size
    BY <2>4, <2>5, <2>6, <2>7
  <2> QED BY <2>2, <2>8 DEF Counted
<1> QED BY <1>2, <1>3, <1>4, <1>5 DEF CallInv

\* A call comes to a stage at which it trims nothing.
LEMMA CallTurns ==
  ASSUME OutputsInv, RunsMove, NEW t \in Tasks, task'[t].items = task[t].items, NamesKept(t),
         InOrder(task'[t].stages), \A r \in task'[t].paths : exec'[r] = "over",
         ~At(t, "trim")', ~At(t, "clear")'
  PROVE  CallInv(t)'
BY ListStays DEF CallInv, InHand, Once, Trimmed, Counted, OutputsInv

\* A call goes on.
LEMMA CallMoves ==
  ASSUME OutputsInv, RunsMove, time' \in Nat, exec' \in [Runs -> Execs], \A r \in Runs : RunInv(r)',
         NEW t \in Tasks, NEW s \in Work, Become(t, s),
         \A u \in Tasks : u # t => NamesKept(u), CallInv(t)'
  PROVE  OutputsInv'
<1>1. task' \in [Tasks -> Work] /\ \A u \in Tasks : u # t => task'[u] = task[u]
  BY DEF OutputsInv, OutputsTypes, Become
<1>2. OutputsTypes'
  BY <1>1 DEF OutputsTypes, RunsMove
<1>3. ASSUME NEW u \in Tasks PROVE CallInv(u)'
  BY <1>1, CallStays
<1> QED BY <1>2, <1>3 DEF OutputsInv

\* A call has nothing listed.
LEMMA NothingListed ==
  ASSUME NEW t, task'[t].items = <<>>, InOrder(task[t].stages)', \A r \in task'[t].paths : exec'[r] = "over",
         ~At(t, "trim")', ~At(t, "clear")'
  PROVE  CallInv(t)'
<1>1. ToSet(task'[t].items) = {} /\ DOMAIN task'[t].items = {}
  BY DEF ToSet
<1> QED BY <1>1 DEF CallInv, InHand, Passed, Once, Trimmed, Counted

\* Calls only look.
LEMMA RunsStay ==
  ASSUME OutputsInv, UNCHANGED <<time, row, file, exec, trimmed>>
  PROVE  /\ RunsMove /\ time' \in Nat /\ exec' \in [Runs -> Execs]
         /\ Referenced' = Referenced /\ Rows' = Rows /\ \A r \in Runs : RunInv(r)'
<1>1. Referenced' = Referenced /\ Rows' = Rows
  BY DEF Referenced, Rows
<1>2. RunsMove
  BY <1>1 DEF RunsMove, OutputsInv, OutputsTypes, RunInv
<1>3. \A r \in Runs : RunInv(r)'
  BY <1>1 DEF OutputsInv, RunInv
<1> QED BY <1>1, <1>2, <1>3 DEF OutputsInv, OutputsTypes

LEMMA RunsOnly ==
  ASSUME OutputsInv, RunsMove, time' \in Nat, exec' \in [Runs -> Execs], \A r \in Runs : RunInv(r)',
         UNCHANGED task, \A u \in Tasks : NamesKept(u)
  PROVE  OutputsInv'
<1>1. OutputsTypes'
  BY DEF OutputsInv, OutputsTypes, RunsMove
<1>2. ASSUME NEW u \in Tasks PROVE CallInv(u)'
  BY CallStays
<1> QED BY <1>1, <1>2 DEF OutputsInv

LEMMA Advanced ==
  ASSUME OutputsInv, NEW t \in Tasks, task[t].stages # <<>>
  PROVE  /\ Advance(t) \in Work /\ InOrder(Advance(t).stages)
         /\ Advance(t).stages # <<>> => Head(Advance(t).stages).do = After[Stage(t).do]
         /\ Advance(t).paths = task[t].paths /\ Advance(t).items = task[t].items
         /\ Advance(t).total = task[t].total /\ Advance(t).size = task[t].size
<1>1. task[t] \in Work /\ task[t].stages \in Seq(Step) /\ InOrder(task[t].stages)
  BY ListTypes DEF OutputsInv, CallInv
<1>2. /\ Tail(task[t].stages) \in Seq(Step) /\ InOrder(Tail(task[t].stages))
      /\ Tail(task[t].stages) # <<>> => Head(Tail(task[t].stages)).do = After[Head(task[t].stages).do]
  BY <1>1, NextStage
<1>3. Advance(t).stages = Tail(task[t].stages)
  BY <1>1 DEF Advance, Work
<1>4. Advance(t) \in Work
  BY <1>1, <1>2 DEF Advance, Work
<1> QED BY <1>1, <1>2, <1>3, <1>4 DEF Advance, Stage, Work

-----------------------------------------------------------------------------
(* The runner *)

LEMMA StartKeeps == ASSUME OutputsInv, NEW r \in Runs, Start(r) PROVE OutputsInv'
<1>1. /\ row \in [Runs -> Row \cup {NoRow}] /\ row[r] \in Row /\ exec[r] = "no" /\ file \in Files
      /\ exec \in [Runs -> Execs] /\ time \in Nat
      /\ row' = [row EXCEPT ![r] = [row[r] EXCEPT !.status = "running"]]
      /\ UNCHANGED <<time, task, trimmed, crossed>>
  BY DEF OutputsInv, OutputsTypes, Start, Rows, hist
<1>2. [row[r] EXCEPT !.status = "running"] \in Row
  BY <1>1 DEF Row, Statuses
<1>3. /\ row' \in [Runs -> Row \cup {NoRow}] /\ row'[r] \in Row
      /\ row'[r].path = row[r].path /\ row'[r].stamp = row[r].stamp
      /\ \A q \in Runs : q # r => row'[q] = row[q]
  BY <1>1, <1>2 DEF Row
<1>4. Rows' = Rows /\ Referenced' = Referenced
  <2>1. NoRow \notin Row
    BY OutputsAssumption
  <2>2. \A q \in Runs : (row'[q] # NoRow <=> row[q] # NoRow)
    BY <1>1, <1>3, <2>1
  <2> QED BY <1>3, <2>2 DEF Rows, Referenced
<1>5. /\ exec' \in [Runs -> Execs] /\ exec'[r] \in {"shell", "http"}
      /\ \A q \in Runs : q # r => exec'[q] = exec[q] /\ file'[q] = file[q]
      /\ file' \in Files
  <2>1. 0 \in 0..MaxSize
    BY OutputsAssumption
  <2> QED BY <1>1, <2>1 DEF Start, Execs, Files
<1>6. RunsMove
  <2>1. r \notin Referenced
    BY <1>1 DEF OutputsInv, RunInv
  <2> QED BY <1>1, <1>3, <1>4, <1>5, <2>1 DEF RunsMove, OutputsInv, RunInv
<1>7. \A q \in Runs : RunInv(q)'
  <2>1. r \notin Referenced
    BY <1>1 DEF OutputsInv, RunInv
  <2>2. RunInv(r)'
    BY <1>1, <1>3, <1>4, <1>5, <2>1 DEF OutputsInv, RunInv
  <2> QED BY <1>1, <1>3, <1>4, <1>5, <2>2 DEF OutputsInv, RunInv
<1> QED BY <1>1, <1>4, <1>5, <1>6, <1>7, RunsOnly DEF NamesKept

LEMMA EndKeeps == ASSUME OutputsInv, NEW r \in Runs, End(r) PROVE OutputsInv'
<1>1. /\ exec[r] \in {"shell", "http"} /\ file \in Files
      /\ exec \in [Runs -> Execs] /\ time \in Nat
      /\ UNCHANGED <<time, row, task, trimmed, crossed>>
  BY DEF OutputsInv, OutputsTypes, End, hist
<1>2. Rows' = Rows /\ Referenced' = Referenced /\ r \notin Referenced
  BY <1>1 DEF Rows, Referenced, OutputsInv, RunInv
<1>3. /\ exec' \in [Runs -> Execs] /\ file' \in Files /\ exec'[r] \in {"kept", "none"}
      /\ exec'[r] = "kept" => file'[r] # NoFile
      /\ \A q \in Runs : q # r => exec'[q] = exec[q] /\ file'[q] = file[q]
  <2>1. CASE exec' = [exec EXCEPT ![r] = "none"] /\ file' = [file EXCEPT ![r] = NoFile]
    BY <1>1, <2>1 DEF Execs, Files
  <2>2. CASE exec' = [exec EXCEPT ![r] = "kept"] /\ \E n \in 0..MaxSize : file' = [file EXCEPT ![r] = n]
    <3>1. PICK n \in 0..MaxSize : file' = [file EXCEPT ![r] = n]
      BY <2>2
    <3>2. n # NoFile
      BY OutputsAssumption
    <3> QED BY <1>1, <2>2, <3>1, <3>2 DEF Execs, Files
  <2> QED BY <2>1, <2>2 DEF End
<1>4. RunsMove
  BY <1>1, <1>2, <1>3 DEF RunsMove, OutputsInv, OutputsTypes, RunInv
<1>5. \A q \in Runs : RunInv(q)'
  BY <1>1, <1>2, <1>3 DEF OutputsInv, RunInv
<1> QED BY <1>1, <1>2, <1>3, <1>4, <1>5, RunsOnly DEF NamesKept

LEMMA MarkFinishedKeeps == ASSUME OutputsInv, NEW r \in Runs, MarkFinished(r) PROVE OutputsInv'
<1>1. /\ exec[r] \in {"kept", "none"} /\ file \in Files /\ row \in [Runs -> Row \cup {NoRow}]
      /\ exec \in [Runs -> Execs] /\ time \in Nat /\ exec' = [exec EXCEPT ![r] = "over"]
      /\ UNCHANGED <<file, task, trimmed, crossed>>
      /\ r \notin Referenced
  BY DEF OutputsInv, OutputsTypes, MarkFinished, hist, RunInv
<1>2. /\ exec' \in [Runs -> Execs] /\ exec'[r] = "over"
      /\ \A q \in Runs : q # r => exec'[q] = exec[q]
  BY <1>1 DEF Execs
<1>3. CASE UNCHANGED <<time, row>>
  <2>1. Rows' = Rows /\ Referenced' = Referenced
    BY <1>3 DEF Rows, Referenced
  <2>2. RunsMove
    BY <1>1, <1>2, <1>3, <2>1 DEF RunsMove, OutputsInv, RunInv
  <2>3. \A q \in Runs : RunInv(q)'
    BY <1>1, <1>2, <1>3, <2>1 DEF OutputsInv, RunInv
  <2> QED BY <1>1, <1>2, <1>3, <2>1, <2>2, <2>3, RunsOnly DEF NamesKept
<1>4. ASSUME r \in Rows, time' = time + 1, NEW s \in {"success", "failed"},
             row' = [row EXCEPT ![r] = [status |-> s, stamp |-> time + 1, path |-> exec[r] = "kept"]]
      PROVE  OutputsInv'
  <2> DEFINE kept == exec[r] = "kept"
  <2>1. kept \in BOOLEAN /\ (kept <=> exec[r] = "kept")
    OBVIOUS
  <2>2. row' = [row EXCEPT ![r] = [status |-> s, stamp |-> time + 1, path |-> kept]]
    BY <1>4
  <2> HIDE DEF kept
  <2>3. [status |-> s, stamp |-> time + 1, path |-> kept] \in Row
    BY <1>1, <2>1 DEF Row, Statuses
  <2>4. /\ row' \in [Runs -> Row \cup {NoRow}] /\ row'[r] \in Row /\ row'[r] # NoRow
        /\ row'[r].stamp = time + 1 /\ row'[r].path = kept
        /\ \A q \in Runs : q # r => row'[q] = row[q]
    BY <1>1, <2>2, <2>3, OutputsAssumption
  <2>5. /\ \A q \in Runs : q # r => (q \in Rows' <=> q \in Rows) /\ (q \in Referenced' <=> q \in Referenced)
        /\ r \in Referenced' <=> kept
    BY <2>1, <2>4 DEF Rows, Referenced
  <2>6. RunsMove
    BY <1>1, <1>2, <2>4, <2>5 DEF RunsMove, OutputsInv, RunInv
  <2>7. ASSUME NEW q \in Runs PROVE RunInv(q)'
    <3>1. CASE q = r
      <4>1. kept => file'[r] # NoFile
        BY <1>1, <2>1 DEF OutputsInv, RunInv
      <4>2. row'[r].stamp <= time'
        BY <1>1, <1>4, <2>4
      <4> QED BY <1>2, <2>5, <3>1, <4>1, <4>2 DEF RunInv
    <3>2. CASE q # r
      <4>1. q \in Rows => row[q].stamp \in Nat /\ row[q].stamp <= time
        BY <1>1 DEF OutputsInv, RunInv, Rows, Row
      <4>2. q \in Rows' => row'[q].stamp <= time'
        BY <1>1, <1>4, <2>4, <2>5, <3>2, <4>1
      <4> QED BY <1>1, <1>2, <2>5, <3>2, <4>2 DEF OutputsInv, RunInv
    <3> QED BY <3>1, <3>2
  <2>8. Referenced \subseteq Referenced'
    BY <1>1, <2>5 DEF Referenced, Rows
  <2>9. \A u \in Tasks : NamesKept(u)
    BY <1>1, <2>8 DEF NamesKept
  <2> QED BY <1>1, <1>2, <1>4, <2>6, <2>7, <2>9, RunsOnly
<1> QED BY <1>3, <1>4 DEF MarkFinished

-----------------------------------------------------------------------------
(* Calls begin and end *)

LEMMA RestIs ==
  Rest \in Work /\ Rest.stages = <<>> /\ Rest.items = <<>> /\ Rest.paths = {} /\ InOrder(<<>>)
<1>1. <<>> \in Seq(Runs) /\ <<>> \in Seq(Step) /\ {} \in SUBSET Runs
  OBVIOUS
<1>2. Rest \in Work
  BY <1>1 DEF Rest, Work
<1>3. Rest.stages = <<>> /\ Rest.items = <<>> /\ Rest.paths = {}
  BY DEF Rest
<1>4. InOrder(<<>>)
  BY DEF InOrder
<1> QED BY <1>2, <1>3, <1>4

LEMMA RestTypes ==
  ASSUME NEW s \in Seq(Step)
  PROVE  /\ [Rest EXCEPT !.stages = s] \in Work /\ [Rest EXCEPT !.stages = s].stages = s
         /\ [Rest EXCEPT !.stages = s].items = <<>> /\ [Rest EXCEPT !.stages = s].paths = {}
BY RestIs DEF Work

LEMMA Begins ==
  ASSUME OutputsInv, NEW t \in Tasks, NEW s \in Work, Become(t, s), s.items = <<>>, s.paths = {},
         InOrder(s.stages), s.stages = <<>> \/ Head(s.stages).do \in {"items", "select"},
         UNCHANGED <<time, row, file, exec, trimmed>>, crossed' \in {crossed, crossed \ {t}}
  PROVE  OutputsInv'
<1>1. task'[t] = s
  BY DEF Become, OutputsInv, OutputsTypes
<1>2. CallInv(t)'
  BY <1>1, NothingListed DEF At, Stage
<1>3. \A u \in Tasks : u # t => NamesKept(u)
  BY RunsStay DEF NamesKept
<1> QED BY <1>2, <1>3, RunsStay, CallMoves

LEMMA CycleKeeps == ASSUME OutputsInv, Cycle PROVE OutputsInv'
<1>1. Worker \in Tasks /\ UNCHANGED <<time, row, file, exec, trimmed, crossed>> /\ time \in Nat
  BY DEF Cycle, Tasks, hist, OutputsInv, OutputsTypes
<1>2. ASSUME NEW s \in Seq(Step), InOrder(s), Head(s).do \in {"items", "select"},
             Become(Worker, [Rest EXCEPT !.stages = s])
      PROVE  OutputsInv'
  <2> DEFINE w == [Rest EXCEPT !.stages = s]
  <2>1. w \in Work /\ w.stages = s /\ w.items = <<>> /\ w.paths = {}
    BY RestTypes
  <2>2. Become(Worker, w)
    BY <1>2
  <2> HIDE DEF w
  <2> QED BY <1>1, <1>2, <2>1, <2>2, Begins
<1>3. CASE Become(Worker, [Rest EXCEPT !.stages = Capping])
  <2>1. [kind |-> "age", cutoff |-> 0, successOnly |-> FALSE] \in Night
    BY DEF Night
  <2>2. Capping \in Seq(Step) /\ InOrder(Capping) /\ Head(Capping).do = "items"
    BY <2>1, PlanTypes, BothPlans
  <2> QED BY <1>2, <1>3, <2>2
<1>4. ASSUME NEW c \in 0..time,
             Become(Worker, [Rest EXCEPT !.stages =
               Capping \o Purging([kind |-> "age", cutoff |-> c, successOnly |-> FALSE])])
      PROVE  OutputsInv'
  <2> DEFINE q == [kind |-> "age", cutoff |-> c, successOnly |-> FALSE]
  <2>1. q \in Night
    BY <1>1 DEF Night
  <2>2. Become(Worker, [Rest EXCEPT !.stages = Capping \o Purging(q)])
    BY <1>4
  <2> HIDE DEF q
  <2> QED BY <1>2, <2>1, <2>2, BothPlans
<1> QED BY <1>3, <1>4 DEF Cycle

LEMMA RequestKeeps == ASSUME OutputsInv, NEW t \in Requests, Request(t) PROVE OutputsInv'
<1>1. t \in Tasks /\ UNCHANGED <<time, row, file, exec, trimmed, crossed>>
  BY DEF Request, Tasks, hist
<1>2. PICK query \in Query :
        Become(t, [Rest EXCEPT !.stages =
          Purging(query) \o (IF query.kind = "age" THEN Capping ELSE <<>>)])
  BY DEF Request
<1>3. PICK s \in Seq(Step) :
        /\ s = Purging(query) \o (IF query.kind = "age" THEN Capping ELSE <<>>)
        /\ InOrder(s) /\ Head(s).do = "select"
  BY PlanTypes, BothPlans
<1> DEFINE w == [Rest EXCEPT !.stages = s]
<1>4. w \in Work /\ w.stages = s /\ w.items = <<>> /\ w.paths = {}
  BY RestTypes
<1>5. Become(t, w)
  BY <1>2, <1>3
<1> HIDE DEF w
<1> QED BY <1>1, <1>3, <1>4, <1>5, Begins

LEMMA AbortKeeps == ASSUME OutputsInv, NEW t \in Tasks, Abort(t) PROVE OutputsInv'
BY RestIs, Begins DEF Abort

LEMMA CrashKeeps == ASSUME OutputsInv, Crash PROVE OutputsInv'
<1>1. /\ exec \in [Runs -> Execs] /\ UNCHANGED <<time, row, begun, file, trimmed>>
      /\ exec' = [r \in Runs |-> IF exec[r] = "no" THEN "no" ELSE "over"]
      /\ task' = [t \in Tasks |-> Rest]
  BY DEF Crash, OutputsInv, OutputsTypes
<1>2. exec' \in [Runs -> Execs] /\ Rows' = Rows /\ Referenced' = Referenced
  BY <1>1 DEF Execs, Rows, Referenced
<1>4. OutputsTypes'
  BY <1>1, <1>2, RestIs DEF OutputsInv, OutputsTypes
<1>5. \A r \in Runs : RunInv(r)'
  BY <1>1, <1>2 DEF OutputsInv, RunInv
<1>6. ASSUME NEW t \in Tasks PROVE CallInv(t)'
  BY <1>1, RestIs, NothingListed DEF At
<1> QED BY <1>4, <1>5, <1>6 DEF OutputsInv

-----------------------------------------------------------------------------
(* Purges *)

\* Rows, names and files go.
LEMMA RunsShrink ==
  ASSUME OutputsInv, row' \in [Runs -> Row \cup {NoRow}], file' \in Files, UNCHANGED <<time, exec>>,
         trimmed \subseteq trimmed',
         \A r \in Rows' : r \in Rows /\ row'[r].stamp = row[r].stamp,
         \A r \in Referenced' : r \in Referenced /\ (file'[r] = file[r] \/ r \in trimmed'),
         \A r \in Runs : file'[r] = file[r] \/ (exec[r] = "over" /\ file'[r] = NoFile)
  PROVE  RunsMove /\ time' \in Nat /\ exec' \in [Runs -> Execs] /\ \A r \in Runs : RunInv(r)'
<1>1. ASSUME NEW r \in Runs PROVE RunInv(r)'
  <2>1. RunInv(r)
    BY DEF OutputsInv
  <2>2. r \in Referenced' => exec'[r] = "over" /\ (file'[r] # NoFile \/ r \in trimmed')
    BY <2>1 DEF RunInv
  <2>3. exec'[r] = "kept" => file'[r] # NoFile
    BY <2>1 DEF RunInv
  <2> QED BY <2>1, <2>2, <2>3 DEF RunInv
<1>2. RunsMove
  BY DEF RunsMove, OutputsInv, RunInv
<1> QED BY <1>1, <1>2 DEF OutputsInv, OutputsTypes

\* The stage is over, and no trimming comes next.
LEMMA StageTurns ==
  ASSUME OutputsInv, NEW t \in Tasks, NEW d, At(t, d), After[d] \notin {"trim", "clear"},
         task'[t].stages = Advance(t).stages
  PROVE  ~At(t, "trim")' /\ ~At(t, "clear")' /\ InOrder(task'[t].stages)
BY Advanced DEF At, Stage

LEMMA SelectPathsKeeps == ASSUME OutputsInv, NEW t \in Tasks, SelectPaths(t) PROVE OutputsInv'
<1> PICK S : Become(t, [Advance(t) EXCEPT !.paths = S \cap Referenced])
  BY DEF SelectPaths
<1> DEFINE w == [Advance(t) EXCEPT !.paths = S \cap Referenced]
<1>1. At(t, "select") /\ task[t].stages # <<>> /\ UNCHANGED <<time, row, file, exec, trimmed, crossed>>
  BY DEF SelectPaths, At, hist
<1>2. w \in Work /\ w.stages = Advance(t).stages /\ w.items = task[t].items /\ w.paths = S \cap Referenced
  BY <1>1, Advanced, ListTypes DEF Work, OutputsInv
<1>3. task'[t] = w /\ Become(t, w)
  BY DEF Become, OutputsInv, OutputsTypes
<1> HIDE DEF w
<1>4. RunsMove /\ Referenced' = Referenced /\ \A u \in Tasks : NamesKept(u)
  BY <1>1, RunsStay DEF NamesKept
<1>5. \A r \in w.paths : exec'[r] = "over"
  BY <1>1, <1>2 DEF OutputsInv, RunInv, Referenced, Rows
<1>6. CallInv(t)'
  <2>1. After["select"] \notin {"trim", "clear"}
    BY DEF After
  <2> QED BY <1>1, <1>2, <1>3, <1>4, <1>5, <2>1, StageTurns, CallTurns
<1> QED BY <1>1, <1>2, <1>3, <1>4, <1>6, RunsStay, CallMoves

LEMMA DeleteRowsKeeps == ASSUME OutputsInv, NEW t \in Tasks, DeleteRows(t) PROVE OutputsInv'
<1> PICK S :
      /\ row' = [r \in Runs |-> IF r \in S THEN NoRow ELSE row[r]]
      /\ Become(t, IF S = {} /\ Stage(t).query.kind = "one" THEN Rest ELSE Advance(t))
  BY DEF DeleteRows
<1>1. /\ At(t, "delete") /\ task[t].stages # <<>> /\ UNCHANGED <<time, file, exec, trimmed>>
      /\ crossed' = crossed \cup Listed
  BY DEF DeleteRows, At
<1>2. /\ row' \in [Runs -> Row \cup {NoRow}] /\ file \in Files
      /\ \A r \in Rows' : r \in Rows /\ row'[r] = row[r]
      /\ \A r \in Referenced' : r \in Referenced
  BY DEF OutputsInv, OutputsTypes, Rows, Referenced
<1>3. RunsMove /\ time' \in Nat /\ exec' \in [Runs -> Execs] /\ \A r \in Runs : RunInv(r)'
  BY <1>1, <1>2, RunsShrink
<1>4. \A u \in Tasks : NamesKept(u)
  BY <1>1 DEF NamesKept, Listed
<1>5. CASE Become(t, Rest)
  <2>1. task'[t] = Rest
    BY <1>5 DEF Become, OutputsInv, OutputsTypes
  <2>2. CallInv(t)'
    BY <2>1, RestIs, NothingListed DEF At
  <2> QED BY <1>3, <1>4, <1>5, <2>2, RestIs, CallMoves
<1>6. CASE Become(t, Advance(t))
  <2>1. task'[t] = Advance(t)
    BY <1>6 DEF Become, OutputsInv, OutputsTypes
  <2>2. After["delete"] \notin {"trim", "clear"}
    BY DEF After
  <2>3. \A r \in Advance(t).paths : exec'[r] = "over"
    BY <1>1, Advanced DEF OutputsInv, CallInv, InHand
  <2>4. Advance(t).items = task[t].items /\ Advance(t) \in Work
    BY <1>1, Advanced
  <2>5. CallInv(t)'
    BY <1>1, <1>3, <1>4, <2>1, <2>2, <2>3, <2>4, StageTurns, CallTurns
  <2> QED BY <1>3, <1>4, <1>6, <2>4, <2>5, CallMoves
<1> QED BY <1>5, <1>6

LEMMA RemoveOrphanKeeps == ASSUME OutputsInv, NEW t \in Tasks, RemoveOrphan(t) PROVE OutputsInv'
<1>1. /\ At(t, "files") /\ task[t].stages # <<>> /\ Stage(t).do = "files"
      /\ UNCHANGED <<time, row, exec, trimmed, crossed>>
      /\ task[t] \in Work /\ InOrder(task[t].stages) /\ file \in Files
      /\ \A r \in task[t].paths : r \in Runs /\ exec[r] = "over"
  BY DEF RemoveOrphan, At, hist, OutputsInv, OutputsTypes, CallInv, InHand, Work
<1>2. Rows' = Rows /\ Referenced' = Referenced
  BY <1>1 DEF Rows, Referenced
<1>3. \A u \in Tasks : NamesKept(u)
  BY <1>1, <1>2 DEF NamesKept
<1>4. ASSUME NEW r \in task[t].paths,
             file' = IF References(r) = {} THEN [file EXCEPT ![r] = NoFile] ELSE file,
             Become(t, [task[t] EXCEPT !.paths = @ \ {r}])
      PROVE  OutputsInv'
  <2> DEFINE w == [task[t] EXCEPT !.paths = @ \ {r}]
  <2>1. w \in Work /\ w.stages = task[t].stages /\ w.items = task[t].items /\ w.paths = task[t].paths \ {r}
    BY <1>1 DEF Work
  <2>2. task'[t] = w /\ Become(t, w)
    BY <1>4 DEF Become, OutputsInv, OutputsTypes
  <2> HIDE DEF w
  <2>3. file' \in Files /\ \A q \in Runs : file'[q] = file[q] \/ (q = r /\ r \notin Referenced /\ file'[q] = NoFile)
    BY <1>1, <1>4 DEF Files, References
  <2>4. row' \in [Runs -> Row \cup {NoRow}] /\ Referenced \subseteq Runs
    BY <1>1 DEF OutputsInv, OutputsTypes, Referenced, Rows
  <2>5. RunsMove /\ time' \in Nat /\ exec' \in [Runs -> Execs] /\ \A q \in Runs : RunInv(q)'
    BY <1>1, <1>2, <2>3, <2>4, RunsShrink
  <2>6. ~At(t, "trim")' /\ ~At(t, "clear")'
    BY <1>1, <2>1, <2>2 DEF At, Stage
  <2>7. CallInv(t)'
    BY <1>1, <1>3, <2>1, <2>2, <2>5, <2>6, CallTurns
  <2> QED BY <1>3, <2>1, <2>2, <2>5, <2>7, CallMoves
<1>5. CASE Become(t, Advance(t)) /\ UNCHANGED file
  <2>1. task'[t] = Advance(t)
    BY <1>5 DEF Become, OutputsInv, OutputsTypes
  <2>2. After["files"] \notin {"trim", "clear"}
    BY DEF After
  <2>3. \A r \in Advance(t).paths : exec'[r] = "over"
    BY <1>1, Advanced
  <2>4. Advance(t).items = task[t].items /\ Advance(t) \in Work
    BY <1>1, Advanced
  <2>5. RunsMove
    BY <1>1, <1>5, RunsStay
  <2>6. CallInv(t)'
    BY <1>1, <1>3, <2>1, <2>2, <2>3, <2>4, <2>5, StageTurns, CallTurns
  <2> QED BY <1>1, <1>3, <1>5, <2>4, <2>6, RunsStay, CallMoves
<1> QED BY <1>4, <1>5 DEF RemoveOrphan

LEMMA DeleteJobKeeps == ASSUME OutputsInv, DeleteJob PROVE OutputsInv'
<1>1. /\ row' = [r \in Runs |-> NoRow] /\ UNCHANGED <<time, file, exec, task, trimmed>>
      /\ crossed' = crossed \cup Listed
  BY DEF DeleteJob
<1>2. row' \in [Runs -> Row \cup {NoRow}] /\ Rows' = {} /\ Referenced' = {} /\ file' \in Files
  BY <1>1 DEF Rows, Referenced, OutputsInv, OutputsTypes
<1>3. RunsMove /\ time' \in Nat /\ exec' \in [Runs -> Execs] /\ \A r \in Runs : RunInv(r)'
  BY <1>1, <1>2, RunsShrink
<1>4. \A u \in Tasks : NamesKept(u)
  BY <1>1 DEF NamesKept, Listed
<1> QED BY <1>1, <1>3, <1>4, RunsOnly

-----------------------------------------------------------------------------
(* The log cap *)

LEMMA ListItemsKeeps == ASSUME OutputsInv, NEW t \in Tasks, ListItems(t) PROVE OutputsInv'
<1> PICK s \in Sorted(Referenced) : Become(t, [Advance(t) EXCEPT !.items = s])
  BY DEF ListItems
<1> DEFINE w == [Advance(t) EXCEPT !.items = s]
<1>1. /\ At(t, "items") /\ task[t].stages # <<>> /\ Stage(t).do = "items"
      /\ UNCHANGED <<time, row, file, exec, trimmed, crossed>>
      /\ Referenced \subseteq Runs /\ row \in [Runs -> Row \cup {NoRow}]
  BY DEF ListItems, At, hist, OutputsInv, OutputsTypes, Referenced, Rows
<1>2. /\ s \in Seq(Runs) /\ ToSet(s) = Referenced
      /\ \A i, n \in DOMAIN s : i < n => ~OldestFirst(s[n], s[i])
      /\ \A i, n \in DOMAIN s : i # n => s[i] # s[n]
      /\ DOMAIN s = 1..Cardinality(Referenced) /\ Cardinality(Referenced) \in Nat
  <2>1. IsFiniteSet(Referenced)
    BY <1>1, OutputsAssumption, FS_Subset
  <2>2. Cardinality(Referenced) \in Nat
    BY <2>1, FS_CardinalityType
  <2>3. s \in [1..Cardinality(Referenced) -> Runs]
    BY <1>1 DEF Sorted
  <2>4. s \in Seq(Runs)
    BY <2>2, <2>3
  <2>5. \A i, n \in DOMAIN s : i # n => s[i] # s[n]
    <3> DEFINE places == 1..Cardinality(Referenced)
    <3>1. s \in [places -> Referenced] /\ \A q \in Referenced : \E i \in places : s[i] = q
      BY DEF Sorted, ToSet
    <3>2. IsFiniteSet(places) /\ Cardinality(places) = Cardinality(Referenced)
      BY <2>2, FS_Interval
    <3> HIDE DEF places
    <3>3. s \in Surjection(places, Referenced)
      BY <3>1 DEF Surjection
    <3>4. s \in Injection(places, Referenced)
      BY <3>2, <3>3, FS_Surjection
    <3> QED BY <3>4 DEF Injection, IsInjective
  <2> QED BY <2>2, <2>3, <2>4, <2>5 DEF Sorted
<1>3. w \in Work /\ w.stages = Advance(t).stages /\ w.items = s /\ w.paths = task[t].paths
  BY <1>1, <1>2, Advanced DEF Work
<1>4. task'[t] = w /\ Become(t, w)
  BY DEF Become, OutputsInv, OutputsTypes
<1> HIDE DEF w
<1>5. RunsMove /\ Referenced' = Referenced /\ Rows' = Rows /\ \A u \in Tasks : NamesKept(u)
  BY <1>1, RunsStay DEF NamesKept
<1>6. After["items"] \notin {"trim", "clear"}
  BY DEF After
<1>7. ~At(t, "trim")' /\ ~At(t, "clear")' /\ InOrder(task'[t].stages)
  BY <1>1, <1>3, <1>4, <1>6, StageTurns
<1>8. InHand(t)'
  BY <1>1, <1>2, <1>3, <1>4 DEF InHand, OutputsInv, CallInv, RunInv
<1>9. Passed(t)'
  <2> SUFFICES ASSUME NEW i \in DOMAIN s, NEW q \in Referenced, s[i] \in Rows, row[q].stamp < row[s[i]].stamp
               PROVE  \E j \in 1..(i - 1) : s[j] = q
    BY <1>1, <1>3, <1>4, <1>5 DEF Passed
  <2>1. PICK j \in DOMAIN s : s[j] = q
    BY <1>2 DEF ToSet
  <2>2. row[q].stamp \in Nat /\ row[s[i]].stamp \in Nat
    BY <1>1 DEF Referenced, Rows, Row
  <2>3. ~(i < j) /\ i # j
    BY <1>2, <2>1, <2>2 DEF OldestFirst
  <2> QED BY <1>2, <2>1, <2>3
<1>10. Once(t)' /\ Trimmed(t)' /\ Counted(t)'
  BY <1>2, <1>3, <1>4, <1>5, <1>7 DEF Once, Trimmed, Counted
<1>11. CallInv(t)'
  BY <1>7, <1>8, <1>9, <1>10 DEF CallInv
<1> QED BY <1>1, <1>3, <1>4, <1>5, <1>11, RunsStay, CallMoves

LEMMA MeasureKeeps == ASSUME OutputsInv, NEW t \in Tasks, Measure(t) PROVE OutputsInv'
<1> DEFINE w == [Advance(t) EXCEPT !.total = Bytes(Referenced)]
<1>1. /\ At(t, "total") /\ task[t].stages # <<>> /\ Stage(t).do = "total" /\ Become(t, w)
      /\ UNCHANGED <<time, row, file, exec, trimmed, crossed>>
      /\ Referenced \in SUBSET Runs /\ file \in Files
  BY DEF Measure, At, hist, OutputsInv, OutputsTypes, Referenced, Rows
<1>2. Bytes(Referenced) = Weight(file, Referenced) /\ Bytes(Referenced) \in Nat
  BY <1>1, BytesAre, WeightTypes DEF OutputsInv
<1>3. /\ w \in Work /\ w.stages = Advance(t).stages /\ w.items = task[t].items /\ w.paths = task[t].paths
      /\ w.total = Weight(file, Referenced)
  BY <1>1, <1>2, Advanced DEF Work
<1>4. task'[t] = w
  BY <1>1 DEF Become, OutputsInv, OutputsTypes
<1> HIDE DEF w
<1>5. RunsMove /\ Referenced' = Referenced /\ Rows' = Rows /\ \A u \in Tasks : NamesKept(u)
  BY <1>1, RunsStay DEF NamesKept
<1>6. ~At(t, "clear")' /\ InOrder(task'[t].stages)
  <2>1. After["total"] = "trim"
    BY DEF After
  <2> QED BY <1>1, <1>3, <1>4, <2>1, Advanced DEF At, Stage
<1>7. InHand(t)' /\ Passed(t)' /\ Once(t)'
  BY <1>1, <1>3, <1>4, <1>5, ListStays DEF InHand, Once, OutputsInv, CallInv
<1>8. Counted(t)'
  <2>1. Left(t)' \in SUBSET Referenced
    BY <1>5 DEF Left
  <2>2. Weight(file', Left(t)') <= task'[t].total
    BY <1>1, <1>3, <1>4, <2>1, WeightShrinks
  <2>3. t \notin crossed' => \A r \in ToSet(task'[t].items) \ Referenced' : file'[r] = NoFile
    BY <1>3, <1>4, <1>5, ListStays
  <2> QED BY <1>6, <2>2, <2>3 DEF Counted
<1>9. CallInv(t)'
  BY <1>6, <1>7, <1>8 DEF CallInv, Trimmed
<1> QED BY <1>1, <1>3, <1>5, <1>9, RunsStay, CallMoves

LEMMA TrimFileKeeps == ASSUME OutputsInv, NEW t \in Tasks, TrimFile(t) PROVE OutputsInv'
<1> PICK r : r = Head(task[t].items)
  OBVIOUS
<1> DEFINE stages == <<[do |-> "clear"]>> \o task[t].stages
           w      == [task[t] EXCEPT !.stages = stages, !.size = Size(r)]
<1>1. /\ At(t, "trim") /\ task[t].stages # <<>> /\ Stage(t).do = "trim" /\ task[t].items # <<>>
      /\ \/ file' = [file EXCEPT ![r] = NoFile] /\ trimmed' = trimmed \cup {r}
         \/ UNCHANGED <<file, trimmed>>
      /\ UNCHANGED <<time, row, exec, crossed>> /\ Become(t, w)
      /\ task[t] \in Work /\ file \in Files /\ CallInv(t) /\ task[t].total \in Int
  BY DEF TrimFile, At, OutputsInv, OutputsTypes, Work
<1>2. r \in ToSet(task[t].items) /\ r \in Runs /\ exec[r] = "over" /\ task[t].stages \in Seq(Step)
  BY <1>1, ListTypes DEF OutputsInv, CallInv, InHand
<1>3. /\ stages \in Seq(Step) /\ InOrder(stages) /\ stages # <<>> /\ Head(stages).do = "clear"
  <2> DEFINE first == [do |-> "clear"]
  <2>1. first \in Step /\ first.do = "clear"
    BY DEF Step
  <2> HIDE DEF first
  <2>2. <<first>> \in Seq(Step) /\ Len(<<first>>) = 1 /\ <<first>>[1] = first
    BY <2>1
  <2>3. /\ <<first>> \o task[t].stages \in Seq(Step)
        /\ Len(<<first>> \o task[t].stages) = 1 + Len(task[t].stages)
        /\ \A i \in 1..(1 + Len(task[t].stages)) :
             (<<first>> \o task[t].stages)[i] = IF i <= 1 THEN <<first>>[i] ELSE task[t].stages[i - 1]
    BY <1>2, <2>2, ConcatProperties
  <2>4. stages = <<first>> \o task[t].stages
    BY DEF first
  <2> HIDE DEF stages
  <2>5. Len(task[t].stages) \in Nat /\ Len(task[t].stages) >= 1 /\ Head(task[t].stages) = task[t].stages[1]
    BY <1>1, <1>2
  <2>6. stages[1] = first /\ \A i \in 2..(1 + Len(task[t].stages)) : stages[i] = task[t].stages[i - 1]
    BY <2>2, <2>3, <2>4, <2>5
  <2>7. Head(stages) = stages[1] /\ stages # <<>>
    BY <2>3, <2>4, <2>5
  <2>8. InOrder(stages)
    <3> SUFFICES ASSUME NEW i \in 1..(Len(stages) - 1) PROVE stages[i + 1].do = After[stages[i].do]
      BY DEF InOrder
    <3>1. Len(stages) = 1 + Len(task[t].stages)
      BY <2>3, <2>4
    <3>2. CASE i = 1
      <4>1. stages[2] = task[t].stages[1] /\ stages[1].do = "clear"
        BY <2>1, <2>5, <2>6
      <4>2. After["clear"] = "trim"
        BY DEF After
      <4> QED BY <1>1, <2>5, <3>2, <4>1, <4>2 DEF Stage
    <3>3. CASE i # 1
      <4>1. i \in 2..(1 + Len(task[t].stages)) /\ i + 1 \in 2..(1 + Len(task[t].stages))
            /\ i - 1 \in 1..(Len(task[t].stages) - 1) /\ i - 1 + 1 = i /\ i + 1 - 1 = i
        BY <2>5, <3>1, <3>3
      <4>2. task[t].stages[i].do = After[task[t].stages[i - 1].do]
        BY <1>1, <4>1 DEF CallInv, InOrder
      <4>3. stages[i] = task[t].stages[i - 1] /\ stages[i + 1] = task[t].stages[i + 1 - 1]
        BY <2>6, <4>1
      <4>4. stages[i + 1] = task[t].stages[i]
        BY <4>1, <4>3
      <4> QED BY <4>2, <4>3, <4>4
    <3> QED BY <3>2, <3>3
  <2> QED BY <2>1, <2>3, <2>4, <2>6, <2>7, <2>8
<1> HIDE DEF stages
<1>4. Size(r) \in Int /\ (file[r] = NoFile => Size(r) = 0) /\ (file[r] # NoFile => Size(r) = file[r])
  BY <1>1, <1>2 DEF Size, Files
<1>5. /\ w \in Work /\ w.stages = stages /\ w.items = task[t].items /\ w.paths = task[t].paths
      /\ w.total = task[t].total /\ w.size = Size(r)
  BY <1>1, <1>3, <1>4 DEF Work
<1>6. task'[t] = w
  BY <1>1 DEF Become, OutputsInv, OutputsTypes
<1> HIDE DEF w
<1>7. Rows' = Rows /\ Referenced' = Referenced /\ \A u \in Tasks : NamesKept(u)
  BY <1>1 DEF Rows, Referenced, NamesKept
<1>8. /\ file' \in Files /\ trimmed \subseteq trimmed' /\ \A q \in Runs : q # r => file'[q] = file[q]
      /\ file'[r] = file[r] \/ (file'[r] = NoFile /\ r \in trimmed')
  BY <1>1, <1>2 DEF Files
<1>9. RunsMove /\ time' \in Nat /\ exec' \in [Runs -> Execs] /\ \A q \in Runs : RunInv(q)'
  <2>1. row' \in [Runs -> Row \cup {NoRow}] /\ Referenced \subseteq Runs
    BY <1>1 DEF OutputsInv, OutputsTypes, Referenced, Rows
  <2> QED BY <1>1, <1>2, <1>7, <1>8, <2>1, RunsShrink
<1>10. InHand(t)' /\ Passed(t)' /\ Once(t)'
  BY <1>1, <1>5, <1>6, <1>7, <1>9, ListStays DEF InHand, Once, CallInv
<1>11. Trimmed(t)'
  BY <1>1, <1>5, <1>6 DEF Trimmed
<1>12. Counted(t)'
  <2> SUFFICES ASSUME t \notin crossed' PROVE Counted(t)'
    BY DEF Counted
  <2>1. \A q \in ToSet(task'[t].items) \ Referenced' : file'[q] = NoFile
    BY <1>5, <1>6, <1>7, <1>9, ListStays
  <2>2. ~At(t, "trim")'
    BY <1>3, <1>5, <1>6 DEF At, Stage
  <2>3. Left(t)' = Left(t) /\ Left(t) \in SUBSET Runs /\ Other(t)' = Left(t) \ {r}
    BY <1>5, <1>6, <1>7, ListTypes DEF Left, Other, OutputsInv
  <2>4. Weight(file, Left(t)) <= task[t].total /\ Weight(file, Left(t)) \in Int /\ task[t].total \in Int
    <3>1. Weight(file, Left(t)) \in Nat
      BY <1>1, <2>3, WeightTypes
    <3>2. t \notin crossed
      BY <1>1
    <3> QED BY <1>1, <3>1, <3>2 DEF CallInv, Counted
  <2>5. Weight(file', Left(t) \ {r}) <= task[t].total - Size(r)
    <3> DEFINE gone == [file EXCEPT ![r] = NoFile]
    <3>1. gone \in Files /\ gone[r] = NoFile /\ \A q \in Runs : q # r => gone[q] = file[q]
      BY <1>1, <1>2 DEF Files
    <3>2. Weight(gone, Left(t)) <= task[t].total - Size(r)
      <4>1. CASE file[r] = NoFile
        <5>1. gone = file
          BY <1>1, <1>2, <4>1 DEF Files
        <5> HIDE DEF gone
        <5> QED BY <1>4, <2>4, <4>1, <5>1
      <4>2. CASE file[r] # NoFile
        <5>1. r \in Left(t)
          BY <1>1, <1>2, <4>2 DEF CallInv, Counted, Left
        <5>2. Weight(gone, Left(t)) = Weight(file, Left(t)) - file[r]
          BY <1>1, <2>3, <4>2, <5>1, WeightDrops
        <5> HIDE DEF gone
        <5> QED BY <1>4, <2>4, <4>2, <5>2
      <4> QED BY <4>1, <4>2
    <3> HIDE DEF gone
    <3>3. Left(t) \ {r} \in SUBSET Left(t) /\ \A q \in Left(t) \ {r} : file'[q] \in {gone[q], NoFile}
      BY <1>8, <2>3, <3>1
    <3>4. Weight(file', Left(t) \ {r}) <= Weight(gone, Left(t))
      BY <1>8, <2>3, <3>1, <3>3, WeightShrinks
    <3>5. Weight(gone, Left(t)) \in Nat /\ Weight(file', Left(t) \ {r}) \in Nat
      BY <1>8, <2>3, <3>1, WeightTypes
    <3> QED BY <1>4, <2>4, <3>2, <3>4, <3>5
  <2>6. Weight(file', Other(t)') <= task'[t].total - task'[t].size
    BY <1>5, <1>6, <2>3, <2>5
  <2> QED BY <2>1, <2>2, <2>6 DEF Counted
<1>13. CallInv(t)'
  BY <1>3, <1>5, <1>6, <1>10, <1>11, <1>12 DEF CallInv
<1> QED BY <1>1, <1>5, <1>7, <1>9, <1>13, CallMoves

LEMMA ClearPathKeeps == ASSUME OutputsInv, NEW t \in Tasks, ClearPath(t) PROVE OutputsInv'
<1> PICK r : r = Head(task[t].items)
  OBVIOUS
<1> DEFINE items == task[t].items
           w     == [Advance(t) EXCEPT !.items = Tail(@), !.total = @ - task[t].size, !.size = 0]
<1>1. /\ At(t, "clear") /\ task[t].stages # <<>> /\ Stage(t).do = "clear"
      /\ row' = IF r \in Rows THEN [row EXCEPT ![r].path = FALSE] ELSE row
      /\ crossed' = IF file[r] = NoFile THEN crossed ELSE crossed \cup (Listed \ {t})
      /\ UNCHANGED <<time, file, exec, trimmed>> /\ Become(t, w)
      /\ task[t] \in Work /\ file \in Files /\ CallInv(t) /\ row \in [Runs -> Row \cup {NoRow}]
      /\ task[t].total \in Int /\ task[t].size \in Int
  BY DEF ClearPath, At, hist, OutputsInv, OutputsTypes, Work
<1>2. /\ items \in Seq(Runs) /\ items # <<>> /\ r \in ToSet(items) /\ r \in Runs /\ r = items[1]
      /\ exec[r] = "over"
  BY <1>1, ListTypes DEF CallInv, Trimmed, InHand, OutputsInv
<1>3. /\ row' \in [Runs -> Row \cup {NoRow}] /\ Rows' = Rows /\ Referenced' = Referenced \ {r}
      /\ \A q \in Rows : row'[q].stamp = row[q].stamp
  <2>1. CASE r \in Rows
    <3>1. row[r] \in Row
      BY <1>1, <1>2, <2>1 DEF Rows
    <3>2. [row[r] EXCEPT !.path = FALSE] \in Row
      BY <3>1 DEF Row
    <3>3. row' = [row EXCEPT ![r] = [row[r] EXCEPT !.path = FALSE]]
      BY <1>1, <2>1
    <3>4. /\ row' \in [Runs -> Row \cup {NoRow}] /\ row'[r] \in Row /\ row'[r] # NoRow
          /\ row'[r].stamp = row[r].stamp /\ row'[r].path = FALSE
          /\ \A q \in Runs : q # r => row'[q] = row[q]
      <4> DEFINE new == [row[r] EXCEPT !.path = FALSE]
      <4>1. new \in Row /\ new # NoRow /\ new.stamp = row[r].stamp /\ new.path = FALSE
        BY <3>1, <3>2, OutputsAssumption DEF Row
      <4>2. row \in [Runs -> Row \cup {NoRow}] /\ row' = [row EXCEPT ![r] = new]
        BY <1>1, <3>3
      <4> HIDE DEF new
      <4> QED BY <1>2, <4>1, <4>2
    <3> QED BY <2>1, <3>4 DEF Rows, Referenced
  <2>2. CASE r \notin Rows
    BY <1>1, <2>2 DEF Rows, Referenced
  <2> QED BY <2>1, <2>2
<1>4. /\ Tail(items) \in Seq(Runs) /\ Len(Tail(items)) = Len(items) - 1
      /\ \A i \in 1..Len(Tail(items)) : Tail(items)[i] = items[i + 1]
      /\ Len(items) \in Nat /\ DOMAIN Tail(items) = 1..Len(Tail(items)) /\ DOMAIN items = 1..Len(items)
  BY <1>2, HeadTailProperties
<1>5. ToSet(Tail(items)) \subseteq ToSet(items) /\ r \notin ToSet(Tail(items))
  <2>1. \A i \in 1..Len(Tail(items)) : i + 1 \in DOMAIN items /\ i + 1 # 1 /\ 1 \in DOMAIN items
    BY <1>4
  <2>2. \A i \in 1..Len(Tail(items)) : Tail(items)[i] # r
    BY <1>1, <1>2, <1>4, <2>1 DEF CallInv, Once
  <2> QED BY <1>4, <2>1, <2>2 DEF ToSet
<1>6. /\ w \in Work /\ w.stages = Advance(t).stages /\ w.items = Tail(items) /\ w.paths = task[t].paths
      /\ w.total = task[t].total - task[t].size
  <2>1. /\ Advance(t) \in Work /\ Advance(t).paths = task[t].paths /\ Advance(t).items = items
        /\ Advance(t).total = task[t].total
    BY <1>1, Advanced
  <2>2. task[t].total - task[t].size \in Int /\ 0 \in Int
    BY <1>1
  <2> QED BY <1>4, <2>1, <2>2 DEF Work
<1>7. task'[t] = w
  BY <1>1 DEF Become, OutputsInv, OutputsTypes
<1> HIDE DEF w
<1>8. RunsMove /\ time' \in Nat /\ exec' \in [Runs -> Execs] /\ \A q \in Runs : RunInv(q)'
  BY <1>1, <1>3, RunsShrink
<1>9. \A u \in Tasks : u # t => NamesKept(u)
  <2> SUFFICES ASSUME NEW u \in Tasks, u # t, u \notin crossed' PROVE NamesKept(u)
    BY DEF NamesKept
  <2>1. CASE file[r] = NoFile
    BY <1>1, <1>3, <2>1 DEF NamesKept
  <2>2. CASE file[r] # NoFile
    BY <1>1, <2>2 DEF NamesKept, Listed
  <2> QED BY <2>1, <2>2
<1>10. ~At(t, "clear")' /\ InOrder(task'[t].stages)
  <2>1. After["clear"] = "trim"
    BY DEF After
  <2> QED BY <1>1, <1>6, <1>7, <2>1, Advanced DEF At, Stage
<1>11. InHand(t)'
  BY <1>1, <1>5, <1>6, <1>7 DEF InHand, CallInv
<1>12. Passed(t)'
  <2> SUFFICES ASSUME NEW i \in DOMAIN Tail(items), NEW q \in Referenced',
                      Tail(items)[i] \in Rows', row'[q].stamp < row'[Tail(items)[i]].stamp
               PROVE  \E j \in 1..(i - 1) : Tail(items)[j] = q
    <3> DEFINE rest == Tail(items)
    <3>1. task'[t].items = rest
      BY <1>6, <1>7
    <3> HIDE DEF rest
    <3>2. (\A i \in DOMAIN rest, q \in Referenced' :
             rest[i] \in Rows' /\ row'[q].stamp < row'[rest[i]].stamp => \E j \in 1..(i - 1) : rest[j] = q)
            => Passed(t)'
      BY <3>1 DEF Passed
    <3> QED BY <3>2 DEF rest
  <2>1. /\ i + 1 \in DOMAIN items /\ Tail(items)[i] = items[i + 1] /\ i \in Int
        /\ i <= Len(Tail(items)) /\ items[i + 1] \in Rows
    BY <1>3, <1>4
  <2>2. q \in Referenced /\ q # r /\ q \in Rows
    BY <1>3 DEF Referenced
  <2>3. row[q].stamp < row[items[i + 1]].stamp
    BY <1>3, <2>1, <2>2
  <2>4. PICK j \in 1..(i + 1 - 1) : items[j] = q
    BY <1>1, <2>1, <2>2, <2>3 DEF CallInv, Passed
  <2>5. j # 1
    BY <1>2, <2>2, <2>4
  <2>6. j - 1 \in 1..(i - 1) /\ j - 1 \in 1..Len(Tail(items)) /\ j - 1 + 1 = j
    BY <1>4, <2>1, <2>4, <2>5
  <2>7. Tail(items)[j - 1] = q
    BY <1>4, <2>4, <2>6
  <2> QED BY <2>6, <2>7
<1>13. Counted(t)'
  <2> SUFFICES ASSUME t \notin crossed' PROVE Counted(t)'
    BY DEF Counted
  <2>1. t \notin crossed /\ \A q \in ToSet(Tail(items)) \ Referenced' : file'[q] = NoFile
    BY <1>1, <1>3, <1>5 DEF CallInv, Counted
  <2>2. Left(t)' \in SUBSET Other(t) /\ Other(t) \in SUBSET Runs
    BY <1>3, <1>5, <1>6, <1>7, ListTypes DEF Left, Other, OutputsInv
  <2>3. Weight(file, Other(t)) <= task[t].total - task[t].size
    BY <1>1, <2>1 DEF CallInv, Counted
  <2>4. /\ Weight(file', Left(t)') <= Weight(file, Other(t))
        /\ Weight(file, Other(t)) \in Nat /\ Weight(file', Left(t)') \in Nat
    <3>1. file \in Files /\ file' \in Files /\ \A q \in Left(t)' : file'[q] \in {file[q], NoFile}
      BY <1>1
    <3> QED BY <2>2, <3>1, WeightShrinks, WeightTypes
  <2>5. Weight(file', Left(t)') <= task'[t].total
    BY <1>1, <1>6, <1>7, <2>3, <2>4
  <2> QED BY <1>6, <1>7, <1>10, <2>1, <2>5 DEF Counted
<1>14. Once(t)'
  <2>1. /\ \A i, j \in DOMAIN Tail(items) : i # j => i + 1 \in DOMAIN items /\ j + 1 \in DOMAIN items /\ i + 1 # j + 1
    BY <1>4
  <2>2. \A i, j \in DOMAIN Tail(items) : i # j => Tail(items)[i] # Tail(items)[j]
    BY <1>1, <1>4, <2>1 DEF CallInv, Once
  <2> QED BY <1>6, <1>7, <2>2 DEF Once
<1>15. CallInv(t)'
  BY <1>10, <1>11, <1>12, <1>13, <1>14 DEF CallInv, Trimmed
<1> QED BY <1>1, <1>6, <1>8, <1>9, <1>15, CallMoves

LEMMA TrimDoneKeeps == ASSUME OutputsInv, NEW t \in Tasks, TrimDone(t) PROVE OutputsInv'
<1> DEFINE w == [Advance(t) EXCEPT !.items = <<>>, !.total = 0]
<1>1. /\ At(t, "trim") /\ task[t].stages # <<>> /\ Become(t, w) /\ crossed' = crossed \ {t}
      /\ UNCHANGED <<time, row, file, exec, trimmed>>
  BY DEF TrimDone, At
<1>2. w \in Work /\ w.stages = Advance(t).stages /\ w.items = <<>> /\ w.paths = task[t].paths
  <2>1. <<>> \in Seq(Runs) /\ 0 \in Int
    OBVIOUS
  <2>2. Advance(t) \in Work /\ Advance(t).paths = task[t].paths
    BY <1>1, Advanced
  <2> QED BY <2>1, <2>2 DEF Work
<1>3. task'[t] = w
  BY <1>1 DEF Become, OutputsInv, OutputsTypes
<1> HIDE DEF w
<1>4. RunsMove /\ \A u \in Tasks : u # t => NamesKept(u)
  BY <1>1, RunsStay DEF NamesKept
<1>5. After["trim"] \notin {"trim", "clear"}
  BY DEF After
<1>6. ~At(t, "trim")' /\ ~At(t, "clear")' /\ InOrder(task'[t].stages)
  BY <1>1, <1>2, <1>3, <1>5, StageTurns
<1>7. CallInv(t)'
  BY <1>1, <1>2, <1>3, <1>6, NothingListed DEF OutputsInv, CallInv, InHand
<1> QED BY <1>1, <1>2, <1>4, <1>7, RunsStay, CallMoves

-----------------------------------------------------------------------------
(* Theorems *)

LEMMA OutputsStart == Init => OutputsInv
<1> SUFFICES ASSUME Init PROVE OutputsInv
  OBVIOUS
<1> DEFINE new == [status |-> "queued", stamp |-> 0, path |-> FALSE]
<1>1. new \in Row /\ new # NoRow /\ new.stamp = 0 /\ new.path = FALSE
  <2>1. new \in Row
    BY DEF Row, Statuses
  <2>2. new # NoRow
    BY <2>1, OutputsAssumption
  <2> QED BY <2>1, <2>2
<1>2. row = [r \in Runs |-> new]
  BY DEF Init
<1> HIDE DEF new
<1>3. OutputsTypes
  BY <1>1, <1>2, RestIs DEF Init, OutputsTypes, Files, Execs
<1>4. Referenced = {} /\ \A r \in Runs : RunInv(r)
  BY <1>1, <1>2 DEF Init, Referenced, Rows, RunInv
<1>5. ASSUME NEW t \in Tasks PROVE CallInv(t)
  <2>1. task[t].stages = <<>> /\ task[t].items = <<>> /\ task[t].paths = {}
    BY RestIs DEF Init
  <2>2. ToSet(task[t].items) = {} /\ DOMAIN task[t].items = {}
    BY <2>1 DEF ToSet
  <2> QED BY <2>1, <2>2, RestIs DEF CallInv, InHand, Passed, Once, Trimmed, Counted, At
<1> QED BY <1>3, <1>4, <1>5 DEF OutputsInv

LEMMA OutputsStep == OutputsInv /\ [Next]_vars => OutputsInv'
<1> SUFFICES ASSUME OutputsInv, [Next]_vars PROVE OutputsInv'
  OBVIOUS
<1>1. CASE UNCHANGED vars
  <2>1. UNCHANGED <<time, row, file, exec, trimmed, crossed, task>>
    BY <1>1 DEF vars, hist
  <2>2. \A u \in Tasks : NamesKept(u)
    BY <2>1, RunsStay DEF NamesKept
  <2> QED BY <2>1, <2>2, RunsStay, RunsOnly
<1>2. ASSUME NEW r \in Runs, Start(r) \/ End(r) \/ MarkFinished(r) PROVE OutputsInv'
  BY <1>2, StartKeeps, EndKeeps, MarkFinishedKeeps
<1>3. ASSUME NEW t \in Tasks, Purge(t) PROVE OutputsInv'
  BY <1>3, SelectPathsKeeps, DeleteRowsKeeps, RemoveOrphanKeeps DEF Purge
<1>4. ASSUME NEW t \in Tasks, Cap(t) PROVE OutputsInv'
  BY <1>4, ListItemsKeeps, MeasureKeeps, TrimFileKeeps, ClearPathKeeps, TrimDoneKeeps DEF Cap
<1>5. ASSUME NEW t \in Tasks, Abort(t) PROVE OutputsInv'
  BY <1>5, AbortKeeps
<1> QED BY <1>1, <1>2, <1>3, <1>4, <1>5, CycleKeeps, RequestKeeps, DeleteJobKeeps, CrashKeeps DEF Next

\* What the other theorems about the files rest on: the stages of a call come in
\* order, it removes or trims only what rows no longer name or what it means to
\* unname, and what it counts is what is left.
THEOREM OutputsInvariant == Spec => []OutputsInv
BY OutputsStart, OutputsStep, PTL DEF Spec

\* A row that names a file has it, unless the log cap has taken it and is about
\* to clear the name: no order of purges, caps, deletions, ends of runs, aborted
\* requests and crashes leaves a name without its file.
THEOREM NamedFilesExist == Spec => []NamedFileExists
<1>1. OutputsInv => NamedFileExists
  BY DEF OutputsInv, RunInv, NamedFileExists, Referenced, Rows
<1> QED BY <1>1, OutputsInvariant, PTL

\* A call of the log cap, when it is done, has brought what rows still name of
\* its list within the cap, whatever other calls and runs did meanwhile, and
\* whatever could not be removed, unless rows were deleted or another call gave
\* up a file that it could not remove.
THEOREM TheCapIsReached == Spec => []CapReached
<1>1. OutputsInv => CapReached
  <2> SUFFICES ASSUME OutputsInv, NEW t \in Tasks \ crossed, At(t, "trim"), ~Above(task[t].total)
               PROVE  Bytes(Left(t)) <= MaxBytes
    BY DEF CapReached, Left
  <2>1. Left(t) \in SUBSET Runs /\ file \in Files /\ task[t].total \in Int
    BY ListTypes DEF OutputsInv, OutputsTypes, Work
  <2>2. Weight(file, Left(t)) <= task[t].total
    BY DEF OutputsInv, CallInv, Counted
  <2>3. Bytes(Left(t)) = Weight(file, Left(t)) /\ Weight(file, Left(t)) \in Nat
    BY <2>1, BytesAre, WeightTypes DEF OutputsInv
  <2>4. task[t].total <= MaxBytes
    BY <2>1, OutputsAssumption DEF Above
  <2> QED BY <2>1, <2>2, <2>3, <2>4, OutputsAssumption
<1> QED BY <1>1, OutputsInvariant, PTL

\* The log cap takes the oldest first, although runs end, files go and names are
\* cleared between its list and its removals.
THEOREM TheOldestGoesFirst == Spec => OldestGoesFirst
<1>1. OutputsInv /\ [Next]_vars =>
        [\A r \in (trimmed' \ trimmed) \cap Rows, q \in Referenced :
           row[q].stamp >= row[r].stamp]_vars
  <2> SUFFICES ASSUME OutputsInv, Next, NEW r \in (trimmed' \ trimmed) \cap Rows, NEW q \in Referenced
               PROVE  row[q].stamp >= row[r].stamp
    BY DEF vars, hist
  <2>1. PICK t \in Tasks : TrimFile(t)
    <3>1. trimmed' # trimmed
      OBVIOUS
    <3> QED BY <3>1 DEF Next, Start, End, MarkFinished, Cycle, Request, Purge, SelectPaths, DeleteRows,
                        RemoveOrphan, Cap, ListItems, Measure, ClearPath, TrimDone, DeleteJob, Abort,
                        Crash, hist
  <2>2. task[t].items # <<>> /\ r = Head(task[t].items) /\ Passed(t) /\ task[t].items \in Seq(Runs)
    BY <2>1, ListTypes DEF TrimFile, OutputsInv, CallInv
  <2>3. 1 \in DOMAIN task[t].items /\ task[t].items[1] = r
    BY <2>2
  <2>4. row[q].stamp < row[r].stamp => \E j \in 1..(1 - 1) : task[t].items[j] = q
    BY <2>2, <2>3 DEF Passed
  <2>5. row[q].stamp \in Nat /\ row[r].stamp \in Nat
    BY DEF OutputsInv, OutputsTypes, Referenced, Rows, Row
  <2> QED BY <2>4, <2>5
<1> QED BY <1>1, OutputsInvariant, PTL DEF Spec, OldestGoesFirst

-----------------------------------------------------------------------------
(* Powers and least elements *)

LEMMA LeastOf ==
  ASSUME NEW S, S \subseteq Nat, S # {}
  PROVE  \E x \in S : \A y \in S : x <= y
<1> DEFINE R == {p \in Nat \X Nat : p[1] < p[2]}
<1>1. IsWellFoundedOn(R, Nat)
  BY NatLessThanWellFounded DEF OpToRel
<1>2. PICK x \in S : \A y \in S : ~(<<y, x>> \in R)
  <2> HIDE DEF R
  <2> QED BY <1>1, WFMin
<1>3. ASSUME NEW y \in S, y < x PROVE FALSE
  <2>1. <<y, x>> \in R
    BY <1>3
  <2> QED BY <1>2, <2>1
<1> QED BY <1>2, <1>3

\* Powers are positive and grow with the exponent.
LEMMA Powers ==
  ASSUME NEW b \in Nat \ {0}, NEW top \in Nat, b^0 = 1, \A n \in 1..top : b^n = b * b^(n - 1)
  PROVE  \A n \in 0..top : b^n \in Nat \ {0} /\ \A k \in 0..n : b^k <= b^n
<1> DEFINE Fine(n) == b^n \in Nat \ {0} /\ \A k \in 0..n : b^k <= b^n
           bad == {n \in 0..top : ~Fine(n)}
<1>1. SUFFICES ASSUME bad # {} PROVE FALSE
  BY DEF bad
<1>2. PICK n \in bad : \A m \in bad : n <= m
  <2>1. bad \subseteq Nat
    OBVIOUS
  <2> HIDE DEF bad
  <2> QED BY <1>1, <2>1, LeastOf
<1>3. n # 0
  BY <1>2
<1>4. n \in 1..top /\ n - 1 \in 0..top /\ n - 1 < n /\ n - 1 \notin bad
  BY <1>2, <1>3
<1>5. PICK low \in Nat \ {0} : low = b^(n - 1) /\ \A k \in 0..(n - 1) : b^k <= low
  BY <1>4
<1>6. PICK high \in Nat : high = b * low /\ high = b^n
  BY <1>4, <1>5
<1>7. high >= low /\ high # 0
  BY <1>5, <1>6
<1>8. ASSUME NEW k \in 0..n PROVE b^k <= high
  <2>1. CASE k = n
    BY <1>6, <2>1
  <2>2. CASE k \in 0..(n - 1)
    <3>1. b^k \in Int
      OBVIOUS
    <3> QED BY <1>5, <1>6, <1>7, <2>2, <3>1
  <2> QED BY <1>4, <2>1, <2>2
<1>9. n \notin bad
  BY <1>6, <1>7, <1>8
<1> QED BY <1>2, <1>9

-----------------------------------------------------------------------------
(* Backoff *)

LEMMA TwoToThe ==
  /\ \A n \in 0..Width : 2^n \in Nat \ {0} /\ \A k \in 0..n : 2^k <= 2^n
  /\ \A n \in 0..MaxAttempt : 2^n \in Nat \ {0} /\ \A k \in 0..n : 2^k <= 2^n
<1> DEFINE top == IF Width > MaxAttempt THEN Width ELSE MaxAttempt
<1>1. /\ Width \in Nat /\ MaxAttempt \in Nat /\ top \in Nat /\ Width <= top /\ MaxAttempt <= top
      /\ \A n \in 1..top : 2^n = 2 * 2^(n - 1)
  BY BackoffAssumption, PowersOfTwo
<1> HIDE DEF top
<1>2. 2 \in Nat \ {0} /\ 2^0 = 1
  OBVIOUS
<1>3. \A n \in 0..top : 2^n \in Nat \ {0} /\ \A k \in 0..n : 2^k <= 2^n
  BY <1>1, <1>2, Powers
<1>4. 0..Width \subseteq 0..top /\ 0..MaxAttempt \subseteq 0..top
  BY <1>1
<1> QED BY <1>3, <1>4

\* The bounds of a signed integer of Width bits.
LEMMA Halves == 2^(Width - 1) \in Nat \ {0} /\ 2^Width = 2 * 2^(Width - 1)
<1>1. Width \in Nat \ {0, 1} /\ MaxAttempt \in Nat
  BY BackoffAssumption
<1>2. Width - 1 \in 0..Width /\ Width \in 1..(IF Width > MaxAttempt THEN Width ELSE MaxAttempt)
  BY <1>1
<1> QED BY <1>2, TwoToThe, PowersOfTwo

\* A number that fits is not changed.
LEMMA WrapFits ==
  ASSUME NEW x \in Int, -2^(Width - 1) <= x, x < 2^(Width - 1)
  PROVE  Wrap(x) = x
<1>1. PICK h \in Nat \ {0} : h = 2^(Width - 1) /\ 2^Width = 2 * h
  BY Halves
<1>2. PICK m \in Nat \ {0} : m = 2 * h
  BY <1>1
<1>3. PICK y \in Nat : y = x + h /\ y < m
  BY <1>1, <1>2
<1>4. y % m = y
  <2>1. PICK q, rest : q = y \div m /\ rest = y % m
    OBVIOUS
  <2>2. q \in Int /\ rest \in 0..(m - 1) /\ y = m * q + rest
    BY <2>1
  <2>3. CASE q >= 1
    <3>1. m * q >= m
      BY <2>2, <2>3
    <3> QED BY <1>3, <2>2, <3>1
  <2>4. CASE q <= -1
    <3>1. m * q <= -m
      BY <2>2, <2>4
    <3> QED BY <1>3, <2>2, <3>1
  <2>5. CASE q = 0
    BY <2>1, <2>2, <2>5
  <2> QED BY <2>2, <2>3, <2>4, <2>5
<1> QED BY <1>1, <1>2, <1>3, <1>4 DEF Wrap

BackoffTypes == baseSec \in 0..MaxBase /\ attempt \in 0..MaxAttempt

\* The product of a base, a second and a power of two that fits is computed
\* without overflow.
LEMMA NoOverflow ==
  ASSUME BackoffTypes, Fits(attempt)
  PROVE  /\ Exact(attempt) \in Nat \ {0}
         /\ Exact(attempt) + Exact(attempt) \div 5 < 2^(Width - 1)
         /\ BackoffOf(baseSec, attempt) = Exact(attempt)
<1>1. PICK h \in Nat \ {0} : h = 2^(Width - 1)
  BY Halves
<1>2. PICK b \in Nat \ {0} : b = AtLeastOne(baseSec)
  BY BackoffAssumption DEF BackoffTypes, AtLeastOne
<1>3. PICK p \in Nat \ {0} : p = 2^attempt
  BY TwoToThe DEF BackoffTypes
<1>4. Second \in Nat \ {0} /\ Width \in Nat \ {0, 1} /\ attempt \in Nat
  BY BackoffAssumption DEF BackoffTypes
<1>5. PICK bs \in Nat \ {0} : bs = b * Second
  BY <1>2, <1>4
<1>6. PICK e \in Nat \ {0} : e = bs * p
  BY <1>3, <1>5
<1>7. Exact(attempt) = e
  BY <1>2, <1>3, <1>5, <1>6 DEF Exact
<1>8. e + e \div 5 < h /\ e < h
  BY <1>1, <1>7 DEF Fits
<1>9. p <= e /\ bs <= e
  BY <1>3, <1>5, <1>6
<1>10. attempt < Width - 1
  <2>1. CASE attempt >= Width - 1
    <3>1. Width - 1 \in 0..attempt
      BY <1>4, <2>1
    <3>2. h <= p
      BY <1>1, <1>3, <3>1, TwoToThe DEF BackoffTypes
    <3> QED BY <1>8, <1>9, <3>2
  <2> QED BY <1>4, <2>1
<1>11. Shift(attempt) = p
  <2>1. attempt < Width /\ -h <= p /\ p < h
    BY <1>4, <1>8, <1>9, <1>10
  <2> QED BY <1>1, <1>3, <2>1, WrapFits DEF Shift
<1>12. Wrap(bs) = bs
  <2>1. -h <= bs /\ bs < h
    BY <1>8, <1>9
  <2> QED BY <1>1, <2>1, WrapFits
<1>13. Wrap(e) = e
  <2>1. -h <= e /\ e < h
    BY <1>8
  <2> QED BY <1>1, <2>1, WrapFits
<1>14. BackoffOf(baseSec, attempt) = e
  BY <1>2, <1>5, <1>6, <1>11, <1>12, <1>13 DEF BackoffOf
<1> QED BY <1>1, <1>7, <1>8, <1>14

LEMMA DelaysFit == BackoffTypes => WithinAFifth
<1> SUFFICES ASSUME BackoffTypes, Fits(attempt), NEW d \in Delays(baseSec, attempt)
             PROVE  d > 0 /\ 5 * d >= 4 * Exact(attempt) /\ 5 * d <= 6 * Exact(attempt)
  BY DEF WithinAFifth
<1>1. PICK h \in Nat \ {0} : h = 2^(Width - 1)
  BY Halves
<1>2. PICK e \in Nat \ {0} : e = Exact(attempt) /\ e = BackoffOf(baseSec, attempt) /\ e + e \div 5 < h
  BY <1>1, NoOverflow
<1>3. PICK j \in Nat : j = e \div 5 /\ 5 * j <= e
  BY <1>2
<1>4. JitterRange(e) = j
  BY <1>3 DEF JitterRange, Quo
<1>5. CASE j <= 0
  <2>1. d = e
    BY <1>2, <1>4, <1>5 DEF Delays
  <2> QED BY <1>2, <2>1
<1>6. CASE j > 0
  <2>1. PICK x \in 0..(2 * j) : d = Wrap(e + x - j)
    <3>1. Delays(baseSec, attempt) = IF j <= 0 THEN {e} ELSE {Wrap(e + x - j) : x \in 0..(2 * j)}
      BY <1>2, <1>4, Zenon DEF Delays
    <3>2. ~(j <= 0)
      BY <1>6
    <3>3. d \in {Wrap(e + x - j) : x \in 0..(2 * j)}
      BY <3>1, <3>2
    <3> QED BY <3>3
  <2>2. e + x - j \in Int /\ -h <= e + x - j /\ e + x - j < h
    BY <1>2, <1>3
  <2>3. d = e + x - j
    BY <1>1, <2>1, <2>2, WrapFits
  <2>4. d > 0 /\ 5 * d >= 4 * e /\ 5 * d <= 6 * e
    BY <1>3, <2>3
  <2> QED BY <1>2, <2>4
<1> QED BY <1>3, <1>5, <1>6

\* Whatever the width of a Duration, the base and the attempt, a delay that
\* fits is positive and within a fifth of base * 2^attempt: nothing on the way
\* overflows.
THEOREM DelaysAreWithinAFifth == BackoffSpec => []WithinAFifth
<1>1. BackoffInit => BackoffTypes
  BY BackoffAssumption DEF BackoffInit, BackoffTypes
<1>2. BackoffTypes /\ [Retry]_backoffVars => BackoffTypes'
  BY BackoffAssumption DEF BackoffTypes, Retry, backoffVars
<1> QED BY <1>1, <1>2, DelaysFit, PTL DEF BackoffSpec

-----------------------------------------------------------------------------
(* OutputTail *)

\* What is left of a text that is at least TailMax long.
LEMMA LastMaxProperties ==
  ASSUME NEW s \in Seq(Nat), Len(s) >= TailMax
  PROVE  /\ LastMax(s) \in Seq(Nat) /\ Len(LastMax(s)) = TailMax
         /\ \A i \in 1..TailMax : LastMax(s)[i] = s[Len(s) - TailMax + i]
<1> DEFINE first == Len(s) - TailMax + 1
<1>1. TailMax \in Nat /\ Len(s) \in Nat
  BY TailAssumption, LenProperties
<1>2. first \in Int /\ Len(s) - first + 1 = TailMax /\ (first <= Len(s) <=> TailMax > 0)
  BY <1>1
<1>3. \A i \in first..Len(s) : s[i] \in Nat
  BY <1>1, ElementOfSeq
<1>4. /\ SubSeq(s, first, Len(s)) \in Seq(Nat)
      /\ Len(SubSeq(s, first, Len(s))) = IF first <= Len(s) THEN Len(s) - first + 1 ELSE 0
      /\ \A i \in 1..(Len(s) - first + 1) : SubSeq(s, first, Len(s))[i] = s[first + i - 1]
  BY <1>1, <1>2, <1>3, SubSeqProperties
<1>5. \A i \in 1..TailMax : first + i - 1 = Len(s) - TailMax + i
  BY <1>1
<1> HIDE DEF first
<1>6. LastMax(s) = SubSeq(s, first, Len(s))
  BY DEF LastMax, first
<1> QED BY <1>1, <1>2, <1>4, <1>5, <1>6

LEMMA LastMaxEqual ==
  ASSUME NEW s \in Seq(Nat), NEW t \in Seq(Nat), Len(s) >= TailMax, Len(t) >= TailMax,
         \A i \in 1..TailMax : s[Len(s) - TailMax + i] = t[Len(t) - TailMax + i]
  PROVE  LastMax(s) = LastMax(t)
<1>1. /\ LastMax(s) \in Seq(Nat) /\ Len(LastMax(s)) = TailMax
      /\ \A i \in 1..TailMax : LastMax(s)[i] = s[Len(s) - TailMax + i]
  BY LastMaxProperties
<1>2. /\ LastMax(t) \in Seq(Nat) /\ Len(LastMax(t)) = TailMax
      /\ \A i \in 1..TailMax : LastMax(t)[i] = t[Len(t) - TailMax + i]
  BY LastMaxProperties
<1>3. Len(LastMax(s)) = Len(LastMax(t)) /\ \A i \in 1..Len(LastMax(s)) : LastMax(s)[i] = LastMax(t)[i]
  BY <1>1, <1>2
<1> QED BY <1>1, <1>2, <1>3, SeqEqual

LEMMA TruncateTailProperties ==
  ASSUME NEW w \in Seq(Nat)
  PROVE  TruncateTail(w) \in Seq(Nat) /\ Len(TruncateTail(w)) <= TailMax
<1>1. TailMax \in Nat /\ Len(w) \in Nat
  BY TailAssumption, LenProperties
<1>2. CASE TailMax = 0
  BY <1>2, EmptySeq DEF TruncateTail
<1>3. CASE TailMax # 0 /\ Len(w) <= TailMax
  BY <1>1, <1>3 DEF TruncateTail
<1>4. CASE TailMax # 0 /\ Len(w) > TailMax
  BY <1>1, <1>4, LastMaxProperties DEF TruncateTail
<1> QED BY <1>1, <1>2, <1>3, <1>4

\* A chunk written after the end of what was truncated leaves the same as
\* truncating the whole.
LEMMA TailOfConcat ==
  ASSUME NEW w \in Seq(Nat), NEW p \in Seq(Nat)
  PROVE  Tailed(TruncateTail(w), p) = TruncateTail(w \o p)
<1>b. PICK b : b = TruncateTail(w)
  OBVIOUS
<1>w. PICK whole : whole = w \o p
  OBVIOUS
<1> SUFFICES Tailed(b, p) = TruncateTail(whole)
  BY <1>b, <1>w
<1>1. TailMax \in Nat /\ Len(w) \in Nat /\ Len(p) \in Nat
  BY TailAssumption, LenProperties
<1>2. b \in Seq(Nat) /\ Len(b) \in Nat /\ Len(b) <= TailMax
  BY <1>b, TruncateTailProperties, LenProperties
<1>3. /\ whole \in Seq(Nat) /\ Len(whole) \in Nat /\ Len(whole) = Len(w) + Len(p)
      /\ \A i \in 1..(Len(w) + Len(p)) : whole[i] = IF i <= Len(w) THEN w[i] ELSE p[i - Len(w)]
  BY <1>w, ConcatProperties, LenProperties
<1>4. PICK joined : joined = b \o p
  OBVIOUS
<1>5. /\ joined \in Seq(Nat) /\ Len(joined) \in Nat /\ Len(joined) = Len(b) + Len(p)
      /\ \A i \in 1..(Len(b) + Len(p)) : joined[i] = IF i <= Len(b) THEN b[i] ELSE p[i - Len(b)]
  BY <1>2, <1>4, ConcatProperties, LenProperties
<1>6. /\ TailMax = 0 => Tailed(b, p) = b
      /\ TailMax > 0 /\ Len(p) >= TailMax => Tailed(b, p) = LastMax(p)
      /\ TailMax > 0 /\ Len(p) < TailMax /\ Len(b) + Len(p) > TailMax => Tailed(b, p) = LastMax(joined)
      /\ TailMax > 0 /\ Len(p) < TailMax /\ Len(b) + Len(p) <= TailMax => Tailed(b, p) = joined
  <2>1. TailMax = 0 => Tailed(b, p) = b
    <3>1. TailMax = 0 => TailMax <= 0
      OBVIOUS
    <3> QED BY <3>1 DEF Tailed
  <2>2. ASSUME TailMax > 0, Len(p) >= TailMax
        PROVE  Tailed(b, p) = LastMax(p)
    <3>1. ~(TailMax <= 0)
      BY <1>1, <2>2
    <3> QED BY <2>2, <3>1 DEF Tailed
  <2>3. ASSUME TailMax > 0, Len(p) < TailMax
        PROVE  Tailed(b, p) = IF Len(b) + Len(p) > TailMax THEN LastMax(joined) ELSE joined
    <3>1. ~(TailMax <= 0) /\ ~(Len(p) >= TailMax)
      BY <1>1, <2>3
    <3>2. Tailed(b, p) = IF Len(b) + Len(p) > TailMax THEN LastMax(b \o p) ELSE b \o p
      BY <3>1 DEF Tailed
    <3> QED BY <1>4, <3>2
  <2>4. Len(b) + Len(p) <= TailMax <=> ~(Len(b) + Len(p) > TailMax)
    BY <1>1, <1>2
  <2> QED BY <2>1, <2>2, <2>3, <2>4
<1>7. /\ TailMax > 0 /\ Len(w) <= TailMax => b = w
      /\ TailMax > 0 /\ Len(w) > TailMax => b = LastMax(w)
  BY <1>1, <1>b DEF TruncateTail
<1>8. /\ TailMax > 0 /\ Len(whole) <= TailMax => TruncateTail(whole) = whole
      /\ TailMax > 0 /\ Len(whole) > TailMax => TruncateTail(whole) = LastMax(whole)
  BY <1>1, <1>3 DEF TruncateTail
<1>9. CASE TailMax = 0
  <2>1. Tailed(b, p) = b
    BY <1>6, <1>9
  <2>2. b = <<>> /\ TruncateTail(whole) = <<>>
    BY <1>9, <1>b DEF TruncateTail
  <2> QED BY <2>1, <2>2
<1>10. CASE TailMax > 0 /\ Len(p) >= TailMax
  <2>1. Tailed(b, p) = LastMax(p) /\ Len(whole) >= TailMax
    BY <1>1, <1>3, <1>6, <1>10
  <2>2. ASSUME NEW i \in 1..TailMax
        PROVE  whole[Len(whole) - TailMax + i] = p[Len(p) - TailMax + i]
    <3>1. PICK k : k = Len(whole) - TailMax + i
      OBVIOUS
    <3>2. k \in 1..(Len(w) + Len(p)) /\ ~(k <= Len(w)) /\ k - Len(w) = Len(p) - TailMax + i
      BY <1>1, <1>3, <1>10, <3>1
    <3>3. whole[k] = p[k - Len(w)]
      BY <1>3, <3>2
    <3> QED BY <3>1, <3>2, <3>3
  <2>3. LastMax(p) = LastMax(whole)
    BY <1>3, <1>10, <2>1, <2>2, LastMaxEqual
  <2>4. Len(whole) = TailMax => LastMax(whole) = whole
    <3> SUFFICES ASSUME Len(whole) = TailMax PROVE LastMax(whole) = whole
      OBVIOUS
    <3>1. LastMax(whole) = SubSeq(whole, 1, Len(whole))
      BY <1>1 DEF LastMax
    <3> QED BY <1>3, <3>1, SubSeqFull
  <2>5. Len(whole) = TailMax \/ Len(whole) > TailMax
    <3>1. Len(whole) \in Nat /\ TailMax \in Nat /\ Len(whole) >= TailMax
      BY <1>1, <1>3, <2>1
    <3> QED BY <3>1
  <2>6. TruncateTail(whole) = LastMax(whole)
    BY <1>1, <1>8, <1>10, <2>4, <2>5
  <2> QED BY <2>1, <2>3, <2>6
<1>11. CASE TailMax > 0 /\ Len(p) < TailMax /\ Len(w) <= TailMax
  <2>1. b = w /\ joined = whole
    BY <1>1, <1>4, <1>7, <1>11, <1>w
  <2> QED BY <1>1, <1>3, <1>6, <1>8, <1>11, <2>1
<1>12. CASE TailMax > 0 /\ Len(p) < TailMax /\ Len(w) > TailMax
  <2>1. b = LastMax(w)
    BY <1>7, <1>12
  <2>2. Len(b) = TailMax /\ \A i \in 1..TailMax : b[i] = w[Len(w) - TailMax + i]
    BY <1>1, <1>12, <2>1, LastMaxProperties
  <2>3. Len(whole) > TailMax /\ TruncateTail(whole) = LastMax(whole)
    BY <1>1, <1>3, <1>8, <1>12
  <2>4. Len(joined) = TailMax + Len(p) /\ Len(joined) >= TailMax
    BY <1>1, <1>5, <2>2
  <2>5. ASSUME NEW i \in 1..TailMax
        PROVE  joined[Len(joined) - TailMax + i] = whole[Len(whole) - TailMax + i]
    <3>1. Len(joined) - TailMax + i = Len(p) + i /\ Len(p) + i \in 1..(Len(b) + Len(p))
      BY <1>1, <2>2, <2>4
    <3>2. PICK k : k = Len(w) + Len(p) - TailMax + i
      OBVIOUS
    <3>3. Len(whole) - TailMax + i = k /\ k \in 1..(Len(w) + Len(p))
      BY <1>1, <1>3, <1>12, <3>2
    <3>4. CASE Len(p) + i <= TailMax
      <4>1. joined[Len(p) + i] = b[Len(p) + i]
        BY <1>5, <2>2, <3>1, <3>4
      <4>2. b[Len(p) + i] = w[k]
        <5>1. Len(p) + i \in 1..TailMax /\ Len(w) - TailMax + (Len(p) + i) = k
          BY <1>1, <3>2, <3>4
        <5> QED BY <2>2, <5>1
      <4>3. whole[k] = w[k]
        <5>1. k <= Len(w)
          BY <1>1, <3>2, <3>4
        <5> QED BY <1>3, <3>3, <5>1
      <4> QED BY <3>1, <3>3, <4>1, <4>2, <4>3
    <3>5. CASE Len(p) + i > TailMax
      <4>1. joined[Len(p) + i] = p[Len(p) + i - TailMax]
        <5>1. PICK j : j = Len(p) + i
          OBVIOUS
        <5>2. j \in 1..(Len(b) + Len(p)) /\ ~(j <= Len(b)) /\ j - Len(b) = Len(p) + i - TailMax
          BY <1>1, <2>2, <3>1, <3>5, <5>1
        <5>3. joined[j] = p[j - Len(b)]
          BY <1>5, <5>2
        <5> QED BY <5>1, <5>2, <5>3
      <4>2. whole[k] = p[k - Len(w)]
        <5>1. ~(k <= Len(w))
          BY <1>1, <3>2, <3>5
        <5> QED BY <1>3, <3>3, <5>1
      <4>3. k - Len(w) = Len(p) + i - TailMax
        BY <1>1, <3>2
      <4> QED BY <3>1, <3>3, <4>1, <4>2, <4>3
    <3>6. Len(p) + i <= TailMax \/ Len(p) + i > TailMax
      BY <1>1
    <3> QED BY <3>4, <3>5, <3>6
  <2>6. LastMax(joined) = LastMax(whole)
    <3>1. Len(whole) >= TailMax
      BY <1>1, <2>3
    <3>2. \A i \in 1..TailMax : joined[Len(joined) - TailMax + i] = whole[Len(whole) - TailMax + i]
      BY <2>5
    <3> QED BY <1>3, <1>5, <2>4, <3>1, <3>2, LastMaxEqual
  <2>7. CASE Len(p) > 0
    <3>1. Tailed(b, p) = LastMax(joined)
      BY <1>1, <1>6, <1>12, <2>2, <2>7
    <3> QED BY <2>3, <2>6, <3>1
  <2>8. CASE Len(p) = 0
    <3>1. Tailed(b, p) = joined
      BY <1>1, <1>6, <1>12, <2>2, <2>8
    <3>2. joined = LastMax(joined)
      <4>1. LastMax(joined) = SubSeq(joined, 1, Len(joined))
        BY <1>1, <2>4, <2>8 DEF LastMax
      <4> QED BY <1>5, <4>1, SubSeqFull
    <3> QED BY <2>3, <2>6, <3>1, <3>2
  <2> QED BY <1>1, <2>7, <2>8
<1>13. \/ TailMax = 0
       \/ TailMax > 0 /\ Len(p) >= TailMax
       \/ TailMax > 0 /\ Len(p) < TailMax /\ Len(w) <= TailMax
       \/ TailMax > 0 /\ Len(p) < TailMax /\ Len(w) > TailMax
  BY <1>1
<1> QED BY <1>9, <1>10, <1>11, <1>12, <1>13

TailInv == written \in Seq(Nat) /\ closed \in BOOLEAN /\ TailOfAll

LEMMA TailStart == TailInit => TailInv
<1> SUFFICES ASSUME TailInit PROVE TailInv
  OBVIOUS
<1>1. <<>> \in Seq(Nat) /\ Len(<<>>) = 0
  BY EmptySeq
<1>2. TruncateTail(<<>>) = <<>>
  BY <1>1, TailAssumption DEF TruncateTail
<1> QED BY <1>1, <1>2 DEF TailInit, TailInv, TailOfAll

LEMMA TailStep == TailInv /\ [Output]_tailVars => TailInv'
<1> SUFFICES ASSUME TailInv, [Output]_tailVars PROVE TailInv'
  OBVIOUS
<1>1. ASSUME NEW n \in 0..MaxChunk, Write(n) PROVE TailInv'
  <2> DEFINE chunk == [i \in 1..n |-> Len(written) + i]
  <2>1. n \in Nat /\ Len(written) \in Nat
    BY TailAssumption, LenProperties DEF TailInv
  <2>2. chunk \in Seq(Nat)
    <3>1. \A i \in 1..n : Len(written) + i \in Nat
      BY <2>1
    <3> QED BY <2>1, <3>1, IsASeq
  <2>3. ~closed /\ buf' = Tailed(buf, chunk) /\ written' = written \o chunk /\ closed' = closed
    BY <1>1 DEF Write
  <2> HIDE DEF chunk
  <2>4. buf = TruncateTail(written)
    BY <2>3 DEF TailInv, TailOfAll
  <2>5. buf' = TruncateTail(written \o chunk)
    BY <2>2, <2>3, <2>4, TailOfConcat DEF TailInv
  <2>6. written' \in Seq(Nat)
    BY <2>2, <2>3, ConcatProperties DEF TailInv
  <2>7. buf' = TruncateTail(written')
    BY <2>3, <2>5
  <2>8. TailOfAll'
    BY <2>7 DEF TailOfAll, TruncateTail, LastMax
  <2> QED BY <2>3, <2>6, <2>8 DEF TailInv
<1>2. ASSUME NEW keep \in BOOLEAN, Close(keep) PROVE TailInv'
  <2>1. <<>> \in Seq(Nat)
    BY EmptySeq
  <2>2. CASE keep
    BY <1>2, <2>2 DEF Close, TailInv, TailOfAll, TruncateTail, LastMax
  <2>3. CASE ~keep
    BY <1>2, <2>1, <2>3 DEF Close, TailInv, TailOfAll
  <2> QED BY <2>2, <2>3
<1>3. ASSUME UNCHANGED tailVars PROVE TailInv'
  BY <1>3 DEF tailVars, TailInv, TailOfAll, TruncateTail, LastMax
<1> QED BY <1>1, <1>2, <1>3 DEF Output

\* However a command cuts its output into chunks, the tail buffer holds what
\* truncateTail makes of the whole, for every TailMax and every output.
THEOREM TheTailIsOfTheWhole == TailSpec => []TailOfAll
<1>1. TailInv => TailOfAll
  BY DEF TailInv
<1> QED BY <1>1, TailStart, TailStep, PTL DEF TailSpec

-----------------------------------------------------------------------------
(* Timestamps *)

Times == 0..MaxTime

LEMMA UnitPositive == Unit \in Nat \ {0}
<1>1. Digits \in Nat /\ 10 \in Nat \ {0} /\ 10^0 = 1
  BY TimestampsAssumption
<1>2. \A n \in 0..Digits : 10^n \in Nat \ {0}
  <2>1. \A n \in 0..Digits : 10^n \in Nat \ {0} /\ \A k \in 0..n : 10^k <= 10^n
    BY <1>1, PowersOfTen, Powers
  <2> QED BY <2>1
<1> QED BY <1>1, <1>2 DEF Unit

LEMMA SecondsInAMinute ==
  ASSUME NEW t \in Times
  PROVE  Sec(t) \in 0..59
<1>1. MaxSec \in 0..59 /\ Unit \in Nat \ {0}
  BY TimestampsAssumption, UnitPositive
<1>2. MaxTime \in Int /\ t \in Nat /\ t < (MaxSec + 1) * Unit
  BY <1>1 DEF Times, MaxTime
<1>3. PICK q : q = t \div Unit
  OBVIOUS
<1>4. q \in Int /\ q * Unit <= t /\ t < (q + 1) * Unit
  BY <1>1, <1>2, <1>3
<1>5. q >= 0
  <2>1. CASE q + 1 <= 0
    <3>1. (q + 1) * Unit <= 0
      BY <1>1, <1>4, <2>1
    <3> QED BY <1>1, <1>2, <1>4, <3>1
  <2> QED BY <1>4, <2>1
<1>6. q <= MaxSec
  <2>1. CASE q >= MaxSec + 1
    <3>1. q * Unit >= (MaxSec + 1) * Unit
      BY <1>1, <1>4, <2>1
    <3> QED BY <1>1, <1>2, <1>4, <3>1
  <2> QED BY <1>1, <1>4, <2>1
<1> QED BY <1>1, <1>3, <1>4, <1>5, <1>6 DEF Sec

\* The first two characters of a text are its seconds, and more follow.
LEMMA TextOfAnInstant ==
  ASSUME NEW t \in Times
  PROVE  /\ \E codes : Format(t) \in Seq(codes)
         /\ Len(Format(t)) \in Nat /\ Len(Format(t)) >= 2
         /\ Format(t)[1] = Zero + (Sec(t) \div 10) /\ Format(t)[2] = Zero + (Sec(t) % 10)
<1> DEFINE codes == Int \cup {Zero + Digit(t, i) : i \in 1..Digits}
<1>1. Sec(t) \in 0..59
  BY SecondsInAMinute
<1>2. Seconds(t) \in Seq(codes) /\ Len(Seconds(t)) = 2
      /\ Seconds(t)[1] = Zero + (Sec(t) \div 10) /\ Seconds(t)[2] = Zero + (Sec(t) % 10)
  BY <1>1 DEF Seconds, Zero
<1>3. Fraction(t) \in Seq(codes)
  <2> DEFINE places == {i \in 1..Digits : Digit(t, i) # 0}
  <2>1. CASE places = {}
    BY <2>1, EmptySeq DEF Fraction
  <2>2. CASE places # {}
    <3>1. PICK last \in 1..Digits : last = Max(places)
      <4>1. \E m \in places : \A i \in places : m >= i
        <5> DEFINE gaps == {Digits - i : i \in places}
        <5>1. Digits \in Nat /\ gaps \subseteq Nat /\ gaps # {}
          BY <2>2, TimestampsAssumption
        <5>2. \E x \in gaps : \A y \in gaps : x <= y
          <6> HIDE DEF gaps
          <6> QED BY <5>1, LeastOf
        <5>3. PICK m \in places : \A i \in places : Digits - m <= Digits - i
          BY <5>2
        <5>4. \A i \in places : m >= i
          BY <5>1, <5>3
        <5> QED BY <5>4
      <4>2. Max(places) \in places
        BY <4>1 DEF Max
      <4> QED BY <4>2
    <3>2. last \in Nat /\ \A i \in 1..last : Zero + Digit(t, i) \in codes
      BY <3>1, TimestampsAssumption
    <3> HIDE DEF codes
    <3>3. [i \in 1..last |-> Zero + Digit(t, i)] \in Seq(codes)
      BY <3>2, IsASeq
    <3>4. Fraction(t) = <<Point>> \o [i \in 1..last |-> Zero + Digit(t, i)]
      BY <2>2, <3>1 DEF Fraction
    <3>5. <<Point>> \in Seq(codes)
      BY DEF Point, codes
    <3> QED BY <3>3, <3>4, <3>5, ConcatProperties
  <2> QED BY <2>1, <2>2
<1>4. <<Zulu>> \in Seq(codes) /\ Len(<<Zulu>>) = 1
  BY DEF Zulu
<1> HIDE DEF codes
<1>5. PICK head, rest : head = Seconds(t) /\ rest = Fraction(t) \o <<Zulu>>
  OBVIOUS
<1>6. head \in Seq(codes) /\ rest \in Seq(codes) /\ Len(rest) \in Nat
  BY <1>2, <1>3, <1>4, <1>5, ConcatProperties, LenProperties
<1>7. Format(t) = head \o rest
  BY <1>2, <1>3, <1>4, <1>5, ConcatAssociative DEF Format
<1>8. Format(t) \in Seq(codes) /\ Len(Format(t)) = 2 + Len(rest)
      /\ Format(t)[1] = head[1] /\ Format(t)[2] = head[2]
  <2>1. Len(head) = 2
    BY <1>2, <1>5
  <2>2. /\ head \o rest \in Seq(codes) /\ Len(head \o rest) = Len(head) + Len(rest)
        /\ \A i \in 1..(Len(head) + Len(rest)) :
             (head \o rest)[i] = IF i <= Len(head) THEN head[i] ELSE rest[i - Len(head)]
    BY <1>6, ConcatProperties
  <2> QED BY <1>6, <1>7, <2>1, <2>2
<1> QED BY <1>2, <1>5, <1>6, <1>8

\* In the order of texts the seconds come first.
LEMMA SecondsComeFirst ==
  ASSUME NEW s \in Times, NEW t \in Times
  PROVE  /\ AtMost(Format(s), Format(t)) => Sec(s) <= Sec(t)
         /\ Sec(s) < Sec(t) => AtMost(Format(s), Format(t))
<1>1. PICK u, v \in 0..59 : u = Sec(s) /\ v = Sec(t)
  BY SecondsInAMinute
<1>2. PICK a, b : a = Format(s) /\ b = Format(t)
  OBVIOUS
<1>3. /\ Len(a) \in Nat /\ Len(a) >= 2
      /\ a[1] = 48 + (u \div 10) /\ a[2] = 48 + (u % 10)
  BY <1>1, <1>2, TextOfAnInstant DEF Zero
<1>4. /\ Len(b) \in Nat /\ Len(b) >= 2
      /\ b[1] = 48 + (v \div 10) /\ b[2] = 48 + (v % 10)
  BY <1>1, <1>2, TextOfAnInstant DEF Zero
<1>5. /\ a[1] = b[1] /\ a[2] = b[2] => u = v
      /\ a[1] < b[1] => u < v
      /\ a[1] = b[1] /\ a[2] < b[2] => u < v
      /\ u < v => a[1] < b[1] \/ (a[1] = b[1] /\ a[2] < b[2])
  <2>1. PICK p, q : p = u \div 10 /\ q = u % 10
    OBVIOUS
  <2>2. p \in Int /\ q \in 0..9 /\ u = 10 * p + q
    BY <2>1
  <2>3. PICK x, y : x = v \div 10 /\ y = v % 10
    OBVIOUS
  <2>4. x \in Int /\ y \in 0..9 /\ v = 10 * x + y
    BY <2>3
  <2>5. a[1] = 48 + p /\ a[2] = 48 + q /\ b[1] = 48 + x /\ b[2] = 48 + y
    BY <1>3, <1>4, <2>1, <2>3
  <2> QED BY <2>2, <2>4, <2>5
<1>6. ASSUME IsPrefix(a, b) PROVE a[1] = b[1] /\ a[2] = b[2]
  <2>1. Len(a) <= Len(b) /\ SubSeq(a, 1, Len(a)) = SubSeq(b, 1, Len(a))
    BY <1>6 DEF IsPrefix
  <2>2. (\E codes : a \in Seq(codes)) /\ (\E codes : b \in Seq(codes))
    BY <1>2, TextOfAnInstant
  <2>3. \A i \in 1..Len(a) : SubSeq(a, 1, Len(a))[i] = a[i] /\ SubSeq(b, 1, Len(a))[i] = b[i]
    BY <1>3, <1>4, <2>1, <2>2
  <2>4. 1 \in 1..Len(a) /\ 2 \in 1..Len(a)
    BY <1>3
  <2> QED BY <2>1, <2>3, <2>4
<1>7. ASSUME NEW i \in 1..Len(a), i <= Len(b), a[i] < b[i], \A k \in 1..(i - 1) : a[k] = b[k]
      PROVE  u <= v
  <2>1. i = 1 \/ i = 2 \/ (1 \in 1..(i - 1) /\ 2 \in 1..(i - 1))
    BY <1>3
  <2>2. i = 2 => 1 \in 1..(i - 1)
    OBVIOUS
  <2>3. u < v \/ u = v
    BY <1>5, <1>7, <2>1, <2>2
  <2> QED BY <1>1, <2>3
<1>8. AtMost(a, b) => u <= v
  BY <1>5, <1>6, <1>7 DEF AtMost
<1>9. u < v => AtMost(a, b)
  <2>1. 1 \in 1..Len(a) /\ 1 <= Len(b) /\ 2 \in 1..Len(a) /\ 2 <= Len(b)
    BY <1>3, <1>4
  <2>2. ASSUME a[1] < b[1] PROVE AtMost(a, b)
    <3>1. \A k \in 1..(1 - 1) : a[k] = b[k]
      OBVIOUS
    <3> QED BY <2>1, <2>2, <3>1 DEF AtMost
  <2>3. ASSUME a[1] = b[1], a[2] < b[2] PROVE AtMost(a, b)
    <3>1. \A k \in 1..(2 - 1) : a[k] = b[k]
      BY <2>3
    <3> QED BY <2>1, <2>3, <3>1 DEF AtMost
  <2> QED BY <1>5, <2>2, <2>3
<1> QED BY <1>1, <1>2, <1>8, <1>9

ClockTypes == at \in Times /\ now \in Times

LEMMA ClockStart == ClockInit => ClockTypes
<1> SUFFICES ASSUME ClockInit PROVE ClockTypes
  OBVIOUS
<1>1. MaxSec \in Nat /\ Unit \in Nat
  BY TimestampsAssumption, UnitPositive
<1>2. MaxTime \in Int
  BY <1>1 DEF MaxTime
<1>3. at \in 0..MaxTime /\ now = IF at < Unit THEN 0 ELSE at - Unit
  BY DEF ClockInit
<1> QED BY <1>1, <1>2, <1>3 DEF ClockTypes, Times

LEMMA ClockStep == ClockTypes /\ [Tick]_clockVars => ClockTypes'
<1> SUFFICES ASSUME ClockTypes, [Tick]_clockVars PROVE ClockTypes'
  OBVIOUS
<1>1. MaxSec \in Nat /\ Unit \in Nat
  BY TimestampsAssumption, UnitPositive
<1>2. MaxTime \in Int
  BY <1>1 DEF MaxTime
<1>3. CASE Tick
  <2>1. now < MaxTime /\ now' = now + 1 /\ at' = at
    BY <1>3 DEF Tick
  <2> QED BY <1>2, <2>1 DEF ClockTypes, Times
<1>4. CASE UNCHANGED clockVars
  BY <1>4 DEF ClockTypes, clockVars
<1> QED BY <1>3, <1>4

\* Whatever digits the texts of two instants have lost, a run is never claimed
\* in an earlier second than its own, and always due in a later one, for every
\* number of digits of the fraction.
THEOREM RunsAreDueToTheSecond == ClockSpec => []DueToTheSecond
<1>1. ClockTypes => DueToTheSecond
  BY SecondsComeFirst DEF ClockTypes, DueToTheSecond, Due
<1> QED BY <1>1, ClockStart, ClockStep, PTL DEF ClockSpec

=============================================================================
