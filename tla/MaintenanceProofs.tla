-------------------------- MODULE MaintenanceProofs --------------------------
(***************************************************************************)
(* The nights of the maintenance worker, for days of any length, every     *)
(* retention and any number of failing statements and processes; and the   *)
(* PUT requests on the settings that a night reads, for any number of them *)
(* and any bodies.                                                         *)
(***************************************************************************)
EXTENDS MaintenanceCycle, Settings, FiniteSetTheorems, TLAPS

Statements == {"off", "wait", "cap", "night", "retention", "purge", "saveRun", "vacuumDue",
               "vacuum", "saveVacuum"}

CycleTypes ==
  /\ now \in Times /\ pc \in Statements /\ retention \in Nat /\ held \in Nat
  /\ rows \subseteq 0..now
  /\ cycle \in [at : 0..now, days : Nat, deleted : Nat]
  /\ lastRun = NoTime \/ lastRun \in 0..now
  /\ nights \in [Days -> Nat]

\* What the night of this cycle, once its DELETE has been done, leaves.
PurgedNow == At("saveRun") => \A t \in rows : t >= cycle.at - cycle.days * DayLength

\* The record is never ahead of the clock reading that will replace it, and a
\* cycle that is about to purge has found one of an earlier day.
RecordBefore ==
  lastRun # NoTime =>
    /\ pc \in {"night", "retention", "purge", "saveRun"} => lastRun <= cycle.at
    /\ pc \in {"retention", "purge"} => Day(lastRun) < Day(cycle.at)

\* A night that has been done, and whose record is not lost, is on record or
\* about to be.
OnRecord(d) == lastRun # NoTime /\ d <= Day(lastRun)
NightsCounted ==
  \A d \in Days : d \notin unsaved =>
    /\ nights[d] <= 1
    /\ nights[d] = 1 => OnRecord(d) \/ (At("saveRun") /\ Day(cycle.at) = d)

NightInv == CycleTypes /\ SavedNightIsPurged /\ PurgedNow /\ RecordBefore /\ NightsCounted

-----------------------------------------------------------------------------
(* Days *)

LEMMA DayBounds ==
  ASSUME NEW D \in Nat \ {0}, NEW a \in Nat
  PROVE  a \div D \in Nat /\ (a \div D) * D <= a /\ a < (a \div D) * D + D
OBVIOUS

LEMMA NextMultiple ==
  ASSUME NEW D \in Nat \ {0}, NEW p \in Nat, NEW q \in Nat, q + 1 <= p
  PROVE  q * D + D <= p * D
<1>1. p - q - 1 \in Nat
  OBVIOUS
<1>2. (p - q - 1) * D \in Nat
  BY <1>1
<1>3. (p - q - 1) * D = p * D - q * D - D
  OBVIOUS
<1> QED BY <1>2, <1>3

\* A later instant is on no earlier day.
LEMMA DaysPass ==
  ASSUME NEW a \in Nat, NEW b \in Nat, a <= b
  PROVE  Day(a) \in Nat /\ Day(b) \in Nat /\ Day(a) <= Day(b)
<1> DEFINE p == a \div DayLength
           q == b \div DayLength
<1>0. DayLength \in Nat \ {0}
  BY CycleAssumption
<1>1. p \in Nat /\ q \in Nat /\ p * DayLength <= a /\ b < q * DayLength + DayLength
  BY <1>0, DayBounds
<1> HIDE DEF p, q
<1>2. ASSUME q < p PROVE FALSE
  <2> DEFINE x == p * DayLength
             y == q * DayLength
  <2>1. y + DayLength <= x
    BY <1>0, <1>1, <1>2, NextMultiple
  <2>2. x \in Nat /\ y \in Nat /\ x <= a /\ b < y + DayLength
    BY <1>0, <1>1
  <2> HIDE DEF x, y
  <2> QED BY <1>0, <2>1, <2>2
<1>3. p <= q
  BY <1>1, <1>2
<1> QED BY <1>1, <1>3 DEF Day, p, q

LEMMA Span == ASSUME NEW n \in Nat PROVE n * DayLength \in Nat
BY CycleAssumption

LEMMA KnownDay == ASSUME CycleTypes PROVE Day(cycle.at) \in Days /\ cycle.at \in Nat /\ now \in Nat
BY CycleAssumption DEF CycleTypes, Days, Times

-----------------------------------------------------------------------------
(* The steps *)

LEMMA NightInit == Init => NightInv
<1> SUFFICES ASSUME Init PROVE NightInv
  OBVIOUS
<1>1. CycleTypes
  BY CycleAssumption DEF Init, CycleTypes, NoCycle, Statements, Times
<1>2. NightsCounted
  BY DEF Init, NightsCounted
<1> QED BY <1>1, <1>2 DEF Init, NightInv, SavedNightIsPurged, PurgedNow, RecordBefore, At

\* Steps that leave the nights alone, and go to no step of a night from one
\* that is not.
LEMMA NightKept ==
  ASSUME NightInv, CycleTypes', UNCHANGED <<lastRun, rows, held, nights, unsaved>>,
         pc # "saveRun", pc' # "saveRun",
         pc' \in {"night", "retention", "purge"} =>
           \/ pc \in {"night", "retention", "purge"} /\ cycle'.at = cycle.at
           \/ cycle'.at = now,
         pc' \in {"retention", "purge"} =>
           \/ pc \in {"retention", "purge"} /\ cycle'.at = cycle.at
           \/ lastRun # NoTime => Day(lastRun) < Day(cycle'.at)
  PROVE  NightInv'
<1>1. SavedNightIsPurged' /\ PurgedNow' /\ NightsCounted'
  BY DEF NightInv, SavedNightIsPurged, PurgedNow, NightsCounted, OnRecord, At
<1>2. lastRun # NoTime => lastRun \in Nat /\ now \in Nat /\ lastRun <= now
  BY CycleAssumption DEF NightInv, CycleTypes, Times
<1>3. RecordBefore'
  BY <1>2 DEF NightInv, RecordBefore, Day
<1> QED BY <1>1, <1>3 DEF NightInv

LEMMA NightStep == ASSUME NightInv, [Next]_vars PROVE NightInv'
<1> USE DEF settings, hist, At
<1>0. /\ CycleTypes /\ now \in Nat /\ cycle.at \in Nat /\ cycle.at <= now /\ cycle.days \in Nat
      /\ Day(cycle.at) \in Days /\ MaxNow \in Nat /\ Retentions \subseteq Nat /\ now <= MaxNow
      /\ lastRun # NoTime => lastRun \in Nat /\ lastRun <= now
  BY CycleAssumption, KnownDay DEF NightInv, CycleTypes, Times
<1>1. NoCycle \in [at : 0..now, days : Nat, deleted : Nat] /\ NoCycle.at = 0
  BY <1>0 DEF NoCycle
<1>2. CASE Begin \/ DecideVacuum \/ Vacuum \/ SaveVacuum
  <2>1. /\ UNCHANGED <<now, retention, lastRun, rows, held, nights, unsaved>>
        /\ pc # "saveRun" /\ pc' \in {"cap", "wait", "vacuum", "saveVacuum"}
        /\ cycle' \in {cycle, NoCycle}
    BY <1>2 DEF Begin, DecideVacuum, Vacuum, SaveVacuum, GiveUp
  <2>2. CycleTypes'
    BY <1>0, <1>1, <2>1 DEF CycleTypes, Statements
  <2> QED BY <2>1, <2>2, NightKept
<1>3. CASE CapLogs
  <2>1. /\ UNCHANGED <<now, retention, lastRun, rows, held, nights, unsaved>>
        /\ pc = "cap"
        /\ \/ pc' = "wait" /\ cycle' = NoCycle
           \/ pc' = "night" /\ cycle' = [NoCycle EXCEPT !.at = now]
    BY <1>3 DEF CapLogs, GiveUp
  <2>2. [NoCycle EXCEPT !.at = now] \in [at : 0..now, days : Nat, deleted : Nat]
        /\ [NoCycle EXCEPT !.at = now].at = now
    BY <1>0 DEF NoCycle
  <2>3. CycleTypes'
    BY <1>0, <1>1, <2>1, <2>2 DEF CycleTypes, Statements
  <2> QED BY <2>1, <2>2, <2>3, NightKept
<1>4. CASE DecideNight
  <2>1. /\ UNCHANGED <<now, retention, lastRun, rows, held, nights, unsaved>>
        /\ pc = "night"
        /\ \/ pc' = "wait" /\ cycle' = NoCycle
           \/ pc' \in {"retention", "vacuumDue"} /\ cycle' = cycle /\ (pc' = "retention" => NightDue)
    BY <1>4 DEF DecideNight, GiveUp
  <2>2. CycleTypes'
    BY <1>0, <1>1, <2>1 DEF CycleTypes, Statements
  <2>3. NightDue /\ lastRun # NoTime => Day(lastRun) < Day(cycle.at)
    <3> SUFFICES ASSUME NightDue, lastRun # NoTime PROVE Day(lastRun) < Day(cycle.at)
      OBVIOUS
    <3>1. lastRun \in Nat /\ lastRun <= cycle.at
      BY <1>0, <2>1 DEF NightInv, RecordBefore
    <3>2. Day(lastRun) \in Nat /\ Day(cycle.at) \in Nat /\ Day(lastRun) <= Day(cycle.at)
      BY <1>0, <3>1, DaysPass
    <3>3. Day(lastRun) # Day(cycle.at)
      BY DEF NightDue
    <3> HIDE DEF Day
    <3> QED BY <3>2, <3>3
  <2> QED BY <2>1, <2>2, <2>3, NightKept
<1>5. CASE LoadRetention
  <2>1. /\ UNCHANGED <<now, retention, lastRun, rows, held, nights, unsaved>>
        /\ pc = "retention"
        /\ \/ pc' = "wait" /\ cycle' = NoCycle
           \/ pc' = "purge" /\ cycle' = [cycle EXCEPT !.days = retention]
    BY <1>5 DEF LoadRetention, GiveUp
  <2>2. [cycle EXCEPT !.days = retention] \in [at : 0..now, days : Nat, deleted : Nat]
        /\ [cycle EXCEPT !.days = retention].at = cycle.at
    BY <1>0 DEF CycleTypes
  <2>3. CycleTypes'
    BY <1>0, <1>1, <2>1, <2>2 DEF CycleTypes, Statements
  <2> QED BY <2>1, <2>2, <2>3, NightKept
<1>6. CASE PurgeNight
  <2> DEFINE old == Expired(cycle.days)
             p == cycle.days * DayLength
  <2>1. p \in Nat
    BY <1>0, Span
  <2>2. Cardinality(old) \in Nat
    <3>1. IsFiniteSet(0..now)
      BY <1>0, FS_Interval
    <3>2. old \subseteq 0..now
      BY <1>0 DEF CycleTypes, Expired
    <3>3. IsFiniteSet(old)
      BY <3>1, <3>2, FS_Subset
    <3> QED BY <3>3, FS_CardinalityType
  <2>3. pc = "purge" /\ UNCHANGED <<now, retention, lastRun, lastVacuum, held>>
    BY <1>6 DEF PurgeNight
  <2>4. CASE UNCHANGED <<rows, nights, unsaved>> /\ pc' = "wait" /\ cycle' = NoCycle
    <3>1. CycleTypes'
      BY <1>0, <1>1, <2>3, <2>4 DEF CycleTypes, Statements
    <3> QED BY <2>3, <2>4, <3>1, NightKept
  <2>5. CASE /\ rows' = rows \ old
             /\ nights' = [nights EXCEPT ![Day(cycle.at)] = @ + 1]
             /\ \/ /\ cycle' = [cycle EXCEPT !.deleted = Cardinality(old)]
                   /\ pc' = "saveRun" /\ unsaved' = unsaved
                \/ /\ pc' = "wait" /\ cycle' = NoCycle
                   /\ unsaved' = unsaved \cup {Day(cycle.at)}
    <3> DEFINE c == [cycle EXCEPT !.deleted = Cardinality(old)]
    <3>1. c \in [at : 0..now, days : Nat, deleted : Nat] /\ c.at = cycle.at /\ c.days = cycle.days
      <4> DEFINE n == Cardinality(old)
      <4>1. n \in Nat
        BY <2>2
      <4> HIDE DEF n
      <4>2. [cycle EXCEPT !.deleted = n] \in [at : 0..now, days : Nat, deleted : Nat]
            /\ [cycle EXCEPT !.deleted = n].at = cycle.at /\ [cycle EXCEPT !.deleted = n].days = cycle.days
        BY <1>0, <4>1 DEF CycleTypes
      <4> QED BY <4>2 DEF n
    <3>2. \A t \in rows' : t >= now - p /\ t \in rows /\ t \in Nat
      BY <1>0, <2>1, <2>5 DEF Expired, CycleTypes
    <3>3. /\ nights' \in [Days -> Nat] /\ nights'[Day(cycle.at)] = nights[Day(cycle.at)] + 1
          /\ \A d \in Days : d # Day(cycle.at) => nights'[d] = nights[d]
      <4> HIDE DEF Day
      <4> QED BY <1>0, <2>5 DEF CycleTypes
    <3>4. Day(cycle.at) \notin unsaved => nights[Day(cycle.at)] = 0
      <4>1. ~OnRecord(Day(cycle.at))
        <5>1. lastRun # NoTime => Day(lastRun) \in Nat /\ Day(cycle.at) \in Nat /\ Day(lastRun) < Day(cycle.at)
          BY <1>0, <2>3, DaysPass DEF NightInv, RecordBefore
        <5> HIDE DEF Day
        <5> QED BY <5>1 DEF OnRecord
      <4>2. nights[Day(cycle.at)] \in Nat
        BY <1>0 DEF CycleTypes
      <4> HIDE DEF Day
      <4> QED BY <1>0, <2>3, <4>1, <4>2 DEF NightInv, NightsCounted
    <3> HIDE DEF c, old
    <3>5. CycleTypes'
      BY <1>0, <1>1, <2>3, <2>5, <3>1, <3>3 DEF CycleTypes, Statements, c
    <3>6. SavedNightIsPurged'
      BY <2>3, <3>2 DEF NightInv, SavedNightIsPurged
    <3>7. PurgedNow'
      <4> SUFFICES ASSUME pc' = "saveRun", NEW t \in rows' PROVE t >= cycle'.at - cycle'.days * DayLength
        BY DEF PurgedNow
      <4>1. cycle'.at = cycle.at /\ cycle'.days = cycle.days
        BY <2>5, <3>1 DEF c
      <4>2. t >= now - p /\ t \in Nat
        BY <3>2
      <4>3. cycle'.days * DayLength = p
        BY <4>1
      <4> HIDE DEF p
      <4> QED BY <1>0, <2>1, <4>1, <4>2, <4>3
    <3>8. RecordBefore'
      BY <2>3, <2>5, <3>1 DEF NightInv, RecordBefore, c
    <3>9. NightsCounted'
      <4> SUFFICES ASSUME NEW d \in Days, d \notin unsaved'
                   PROVE  /\ nights'[d] <= 1
                          /\ nights'[d] = 1 => OnRecord(d) \/ (pc' = "saveRun" /\ Day(cycle'.at) = d)
        BY <2>3 DEF NightsCounted, OnRecord
      <4>1. CASE d = Day(cycle.at)
        <5>1. d \notin unsaved /\ pc' = "saveRun" /\ cycle'.at = cycle.at
          BY <2>5, <3>1, <4>1 DEF c
        <5> QED BY <3>3, <3>4, <4>1, <5>1
      <4>2. CASE d # Day(cycle.at)
        <5>1. d \notin unsaved /\ nights'[d] = nights[d] /\ pc # "saveRun"
          BY <2>3, <2>5, <3>3, <4>2
        <5> QED BY <5>1 DEF NightInv, NightsCounted
      <4> QED BY <4>1, <4>2
    <3> QED BY <3>5, <3>6, <3>7, <3>8, <3>9 DEF NightInv
  <2> QED BY <1>6, <2>4, <2>5 DEF PurgeNight, GiveUp
<1>7. CASE SaveRun
  <2>1. /\ pc = "saveRun" /\ pc' = "vacuumDue" /\ UNCHANGED <<now, retention, rows, cycle, nights>>
        /\ \/ lastRun' = cycle.at /\ held' = cycle.days /\ unsaved' = unsaved
           \/ unsaved' = unsaved \cup {Day(cycle.at)} /\ UNCHANGED <<lastRun, held>>
    BY <1>7 DEF SaveRun
  <2>2. CycleTypes'
    BY <1>0, <2>1 DEF CycleTypes, Statements
  <2>3. SavedNightIsPurged'
    BY <2>1 DEF NightInv, SavedNightIsPurged, PurgedNow
  <2>4. PurgedNow' /\ RecordBefore'
    BY <2>1 DEF PurgedNow, RecordBefore
  <2>5. NightsCounted'
    <3> SUFFICES ASSUME NEW d \in Days, d \notin unsaved'
                 PROVE  nights[d] <= 1 /\ (nights[d] = 1 => OnRecord(d)')
      BY <2>1 DEF NightsCounted
    <3>1. /\ d \notin unsaved /\ nights[d] <= 1
          /\ nights[d] = 1 => OnRecord(d) \/ Day(cycle.at) = d
      BY <2>1 DEF NightInv, NightsCounted
    <3>2. CASE unsaved' = unsaved \cup {Day(cycle.at)} /\ UNCHANGED <<lastRun, held>>
      BY <3>1, <3>2 DEF OnRecord
    <3>3. CASE lastRun' = cycle.at /\ held' = cycle.days /\ unsaved' = unsaved
      <4>1. cycle.at # NoTime
        BY <1>0, CycleAssumption
      <4>2. Day(cycle.at) \in Nat
        BY <1>0, DaysPass
      <4>3. Day(cycle.at) = d => OnRecord(d)'
        BY <3>3, <4>1, <4>2 DEF OnRecord, Day
      <4>4. ASSUME OnRecord(d) PROVE OnRecord(d)'
        <5>1. lastRun # NoTime /\ lastRun \in Nat /\ lastRun <= cycle.at
          BY <1>0, <2>1, <4>4 DEF OnRecord, NightInv, RecordBefore
        <5>2. Day(lastRun) \in Nat /\ Day(lastRun) <= Day(cycle.at) /\ d <= Day(lastRun)
          BY <1>0, <4>4, <5>1, DaysPass DEF OnRecord
        <5>3. d \in Nat
          <6>1. PICK t \in Times : d = Day(t)
            BY DEF Days
          <6>2. t \in Nat
            BY <1>0 DEF Times
          <6> QED BY <6>1, <6>2, DaysPass
        <5>4. Day(lastRun') = Day(cycle.at)
          BY <3>3
        <5>5. d <= Day(lastRun')
          <6> HIDE DEF Day
          <6> QED BY <4>2, <5>2, <5>3, <5>4
        <5> QED BY <3>3, <4>1, <5>5 DEF OnRecord, Day
      <4> QED BY <3>1, <4>3, <4>4
    <3> QED BY <2>1, <3>1, <3>2, <3>3
  <2> QED BY <2>2, <2>3, <2>4, <2>5 DEF NightInv
<1>8. CASE SetRetention
  <2>1. CycleTypes'
    BY <1>0, <1>8 DEF SetRetention, CycleTypes
  <2> QED BY <1>8, <2>1 DEF SetRetention, NightInv, SavedNightIsPurged, PurgedNow, RecordBefore,
             NightsCounted, OnRecord
<1>9. CASE RunEnds
  <2>1. UNCHANGED <<now, retention, lastRun, pc, cycle, held, nights, unsaved>> /\ rows' = rows \cup {now}
    BY <1>9 DEF RunEnds
  <2>2. CycleTypes'
    BY <1>0, <2>1 DEF CycleTypes
  <2>3. SavedNightIsPurged'
    <3> DEFINE p == held * DayLength
    <3>1. p \in Nat
      BY <1>0, Span DEF CycleTypes
    <3> HIDE DEF p
    <3>2. lastRun # NoTime => now >= lastRun - p
      BY <1>0, <3>1
    <3> QED BY <2>1, <3>2 DEF NightInv, SavedNightIsPurged, p
  <2>4. PurgedNow'
    <3> DEFINE p == cycle.days * DayLength
    <3>1. p \in Nat
      BY <1>0, Span
    <3> HIDE DEF p
    <3>2. now >= cycle.at - p
      BY <1>0, <3>1
    <3> QED BY <2>1, <3>2 DEF NightInv, PurgedNow, p
  <2>5. RecordBefore' /\ NightsCounted'
    BY <2>1 DEF NightInv, RecordBefore, NightsCounted, OnRecord
  <2> QED BY <2>2, <2>3, <2>4, <2>5 DEF NightInv
<1>10. CASE Boot
  <2>1. /\ UNCHANGED <<now, retention, lastRun, rows, cycle, held, nights, unsaved>>
        /\ pc = "off" /\ pc' = "cap"
    BY <1>10 DEF Boot
  <2>2. CycleTypes'
    BY <2>1, <1>0 DEF CycleTypes, Statements
  <2> QED BY <2>1, <2>2, NightKept
<1>11. CASE Crash
  <2>1. /\ UNCHANGED <<now, retention, lastRun, rows, held, nights>>
        /\ pc' = "off" /\ cycle' = NoCycle
        /\ unsaved' = IF pc = "saveRun" THEN unsaved \cup {Day(cycle.at)} ELSE unsaved
    BY <1>11 DEF Crash
  <2>2. CycleTypes'
    BY <1>0, <1>1, <2>1 DEF CycleTypes, Statements
  <2>3. SavedNightIsPurged' /\ PurgedNow' /\ RecordBefore'
    BY <2>1 DEF NightInv, SavedNightIsPurged, PurgedNow, RecordBefore
  <2>4. NightsCounted'
    BY <2>1 DEF NightInv, NightsCounted, OnRecord
  <2> QED BY <2>2, <2>3, <2>4 DEF NightInv
<1>12. CASE Tick
  <2>1. /\ UNCHANGED <<retention, lastRun, rows, pc, cycle, held, nights, unsaved>>
        /\ now' = now + 1 /\ now < MaxNow
    BY <1>12 DEF Tick
  <2>2. 0..now \subseteq 0..(now + 1) /\ now + 1 \in Times
    BY <1>0, <2>1 DEF Times
  <2>3. CycleTypes'
    BY <1>0, <2>1, <2>2 DEF CycleTypes
  <2> QED BY <2>1, <2>3 DEF NightInv, SavedNightIsPurged, PurgedNow, RecordBefore, NightsCounted, OnRecord
<1>13. CASE UNCHANGED vars
  BY <1>13 DEF vars, NightInv, CycleTypes, SavedNightIsPurged, PurgedNow, RecordBefore, NightsCounted, OnRecord
<1> QED BY <1>2, <1>3, <1>4, <1>5, <1>6, <1>7, <1>8, <1>9, <1>10, <1>11, <1>12, <1>13 DEF Next, Cycle

-----------------------------------------------------------------------------
(* No cycle without its night *)

\* The day on record has had a purge, and so has the day of a cycle that is past
\* its night.
DayPurged ==
  /\ lastRun # NoTime => nights[Day(lastRun)] > 0
  /\ pc \in {"saveRun", "vacuumDue", "vacuum", "saveVacuum"} => nights[Day(cycle.at)] > 0

LEMMA DayPurgedStep == ASSUME NightInv, DayPurged, [Next]_vars PROVE DayPurged'
<1> USE DEF settings, hist, At
<1>0. /\ Day(cycle.at) \in Days /\ nights \in [Days -> Nat] /\ cycle.at # NoTime
      /\ lastRun # NoTime => Day(lastRun) \in Days
  BY CycleAssumption, KnownDay DEF NightInv, CycleTypes, Times, Days
<1>1. CASE Begin \/ CapLogs \/ LoadRetention \/ DecideVacuum \/ Vacuum \/ SaveVacuum \/ SetRetention
           \/ RunEnds \/ Boot \/ Crash \/ Tick \/ UNCHANGED vars
  <2>1. /\ UNCHANGED <<lastRun, nights>>
        /\ pc' \in {"saveRun", "vacuumDue", "vacuum", "saveVacuum"} =>
             cycle' = cycle /\ pc \in {"saveRun", "vacuumDue", "vacuum", "saveVacuum"}
    BY <1>1 DEF Begin, CapLogs, LoadRetention, DecideVacuum, Vacuum, SaveVacuum, GiveUp, SetRetention,
                RunEnds, Boot, Crash, Tick, vars
  <2> QED BY <2>1 DEF DayPurged, Day
<1>2. CASE DecideNight
  <2>1. UNCHANGED <<lastRun, nights>>
    BY <1>2 DEF DecideNight
  <2>2. ASSUME pc' \in {"saveRun", "vacuumDue", "vacuum", "saveVacuum"}
        PROVE  cycle' = cycle /\ lastRun # NoTime /\ Day(lastRun) = Day(cycle.at)
    BY <1>2, <2>2 DEF DecideNight, NightDue, GiveUp
  <2> QED BY <2>1, <2>2 DEF DayPurged, Day
<1>3. CASE PurgeNight
  <2>1. lastRun' = lastRun /\ cycle'.at \in {cycle.at, 0}
    BY <1>3, <1>0 DEF PurgeNight, GiveUp, NoCycle, NightInv, CycleTypes
  <2>2. \/ nights' = nights /\ pc' = "wait"
        \/ nights' = [nights EXCEPT ![Day(cycle.at)] = @ + 1] /\ (pc' = "wait" \/ cycle'.at = cycle.at)
    BY <1>3 DEF PurgeNight, GiveUp, NightInv, CycleTypes
  <2> QED BY <1>0, <2>1, <2>2 DEF DayPurged, Day
<1>4. CASE SaveRun
  BY <1>0, <1>4 DEF SaveRun, DayPurged, Day
<1> QED BY <1>1, <1>2, <1>3, <1>4 DEF Next, Cycle

-----------------------------------------------------------------------------
(* VACUUMs *)

VacuumTypes == failures \in Nat /\ (lastVacuum = NoTime \/ lastVacuum \in Nat)

LEMMA VacuumTypesStep == ASSUME NightInv, VacuumTypes, [Next]_vars PROVE VacuumTypes'
<1>1. cycle.at \in Nat
  BY CycleAssumption DEF NightInv, CycleTypes, Times
<1>2. failures' = failures \/ failures' = failures + 1
  BY DEF Next, vars, Cycle, Begin, CapLogs, DecideNight, LoadRetention, PurgeNight, SaveRun,
         DecideVacuum, Vacuum, SaveVacuum, GiveUp, Failing, SetRetention, RunEnds, Boot, Crash, Tick
<1>3. lastVacuum' = lastVacuum \/ lastVacuum' = cycle.at
  BY DEF Next, vars, settings, Cycle, Begin, CapLogs, DecideNight, LoadRetention, PurgeNight, SaveRun,
         DecideVacuum, Vacuum, SaveVacuum, SetRetention, RunEnds, Boot, Crash, Tick
<1> QED BY <1>1, <1>2, <1>3 DEF VacuumTypes

\* A cycle can end at two steps only without a failure.
LEMMA CycleEndsAt ==
  ASSUME VacuumTypes, [Next]_vars, CycleEnds
  PROVE  \/ SaveVacuum /\ lastVacuum' = cycle.at
         \/ DecideVacuum /\ ~VacuumDue /\ lastVacuum' = lastVacuum
<1>1. failures' # failures + 1
  BY DEF VacuumTypes, CycleEnds
<1>2. pc \in {"vacuumDue", "saveVacuum"} /\ pc' = "wait"
  BY DEF CycleEnds
<1>3. DecideVacuum \/ SaveVacuum
  BY <1>2 DEF Next, vars, Cycle, Begin, CapLogs, DecideNight, LoadRetention, PurgeNight, SaveRun,
              Vacuum, SetRetention, RunEnds, Boot, Crash, Tick, At
<1> QED BY <1>1, <1>2, <1>3 DEF DecideVacuum, SaveVacuum, GiveUp, Failing, settings

-----------------------------------------------------------------------------
(* Theorems *)

\* A night on record has been done, by the retention it found, whatever failed,
\* died or was set in between.
THEOREM RecordedNightsArePurged == Spec => []SavedNightIsPurged
<1>1. NightInv => SavedNightIsPurged
  BY DEF NightInv
<1> QED BY <1>1, NightInit, NightStep, PTL DEF Spec

\* A day has one night, but for those whose record was lost.
THEOREM NightsAreNotRepeated == Spec => []OneNightADay
<1>1. ASSUME NightInv PROVE OneNightADay
  <2>1. \A d \in Days : nights[d] \in Nat
    BY <1>1 DEF NightInv, CycleTypes
  <2> QED BY <1>1, <2>1 DEF NightInv, NightsCounted, OneNightADay
<1> QED BY <1>1, NightInit, NightStep, PTL DEF Spec

\* A cycle that comes to its end (runCycle, shouldRunNightly) leaves no day of
\* its own without a purge, however dates, failures and processes change.
THEOREM DaysOfCyclesArePurged == Spec => CycleDayPurged
<1>1. Init => DayPurged
  BY DEF Init, DayPurged
<1>2. NightInv /\ DayPurged => [CycleEnds => nights[Day(cycle.at)] > 0]_vars
  BY DEF CycleEnds, DayPurged
<1> QED BY <1>1, <1>2, NightInit, NightStep, DayPurgedStep, PTL DEF Spec, CycleDayPurged

\* A cycle that comes to its end (runCycle, shouldVacuum) leaves a VACUUM on
\* record that is not older than vacuumEvery, and is its own after a large purge.
THEOREM VacuumsAreKept == Spec => VacuumKept
<1>1. Init => VacuumTypes
  BY DEF Init, VacuumTypes
<1>2. ASSUME NightInv, VacuumTypes, [Next]_vars, CycleEnds
      PROVE  /\ lastVacuum' # NoTime /\ cycle.at - lastVacuum' < VacuumEvery
             /\ cycle.deleted >= VacuumDeleted => lastVacuum' = cycle.at
  <2>1. cycle.at \in Nat /\ cycle.at # NoTime /\ VacuumEvery \in Nat \ {0}
    BY <1>2, CycleAssumption DEF NightInv, CycleTypes, Times
  <2>2. CASE lastVacuum' = cycle.at
    BY <2>1, <2>2
  <2>3. CASE ~VacuumDue /\ lastVacuum' = lastVacuum
    BY <1>2, <2>1, <2>3 DEF VacuumDue, VacuumTypes
  <2> QED BY <1>2, <2>1, <2>2, <2>3, CycleEndsAt
<1>3. NightInv /\ VacuumTypes /\ [Next]_vars =>
        [CycleEnds => /\ lastVacuum' # NoTime /\ cycle.at - lastVacuum' < VacuumEvery
                      /\ cycle.deleted >= VacuumDeleted => lastVacuum' = cycle.at]_vars
  BY <1>2
<1> QED BY <1>1, <1>3, NightInit, NightStep, VacuumTypesStep, PTL DEF Spec, VacuumKept

-----------------------------------------------------------------------------
(* The settings *)

SettingsTypes ==
  /\ table \in [Keys -> Int \cup {Unset}]
  /\ put \in [Puts -> [at : {"idle", "load", "store", "cap", "ok", "refused", "failed"}, n : Nat,
                       body : Bodies \cup {<<>>}, values : [Keys -> Int]]]
  /\ \A q \in Puts : Working(q) => put[q].n \in 1..3 /\ put[q].body \in Bodies
  /\ before \in [Puts -> [Keys -> Int]] /\ overlapped \subseteq Puts
  /\ errors \in Nat

\* Of two requests at work, neither is alone.
Pairs ==
  \A p, q \in Puts : p # q /\ Working(p) /\ Working(q) => p \in overlapped /\ q \in overlapped

\* The settings are as the request found them, but for what it names among the
\* first n keys.
FirstKeys(n) == {KeyOrder[i] : i \in 1..n}
Done(q, n) ==
  \A k \in Keys : Get(k) = IF k \in DOMAIN put[q].body /\ k \in FirstKeys(n) THEN put[q].body[k]
                           ELSE before[q][k]

\* How far a request is that nobody overlapped.
Alone(q) ==
  q \notin overlapped =>
    /\ put[q].at = "load" =>
         Done(q, 0) /\ \A k \in FirstKeys(put[q].n - 1) : put[q].values[k] = before[q][k]
    /\ put[q].at = "store" =>
         Done(q, put[q].n - 1) /\ put[q].values = Merge(before[q], put[q].body)
    /\ put[q].at = "cap" => Done(q, 3)

AloneInv == SettingsTypes /\ Pairs /\ \A q \in Puts : Alone(q)

-----------------------------------------------------------------------------
(* Keys *)

LEMMA KeysAre ==
  /\ Keys = {"retention_days", "max_log_bytes", "global_concurrency"} /\ Len(KeyOrder) = 3
  /\ KeyOrder[1] = "retention_days" /\ KeyOrder[2] = "max_log_bytes"
  /\ KeyOrder[3] = "global_concurrency"
<1>1. /\ DOMAIN KeyOrder = {1, 2, 3} /\ Len(KeyOrder) = 3
      /\ KeyOrder[1] = "retention_days" /\ KeyOrder[2] = "max_log_bytes"
      /\ KeyOrder[3] = "global_concurrency"
  BY DEF KeyOrder
<1> QED BY <1>1 DEF Keys, ToSet

LEMMA FirstKeysAre ==
  /\ FirstKeys(0) = {} /\ FirstKeys(3) = Keys
  /\ \A n \in 1..3 : FirstKeys(n) = FirstKeys(n - 1) \cup {KeyOrder[n]} /\ KeyOrder[n] \in Keys
  /\ \A n \in 0..3 : FirstKeys(n) \subseteq Keys
  /\ \A n \in 0..3 : ToSet(SubSeq(KeyOrder, 1, n)) = FirstKeys(n)
<1>1. FirstKeys(0) = {}
  BY DEF FirstKeys
<1>2. FirstKeys(3) = Keys
  BY KeysAre DEF FirstKeys
<1>3. \A n \in 1..3 : FirstKeys(n) = FirstKeys(n - 1) \cup {KeyOrder[n]} /\ KeyOrder[n] \in Keys
  BY KeysAre DEF FirstKeys
<1>4. \A n \in 0..3 : FirstKeys(n) \subseteq Keys
  BY KeysAre DEF FirstKeys
<1>5. ASSUME NEW n \in 0..3 PROVE ToSet(SubSeq(KeyOrder, 1, n)) = FirstKeys(n)
  <2>1. KeyOrder \in Seq({"retention_days", "max_log_bytes", "global_concurrency"}) /\ Len(KeyOrder) = 3
    BY DEF KeyOrder
  <2>2. SubSeq(KeyOrder, 1, n) = [i \in 1..n |-> KeyOrder[i]]
    BY <2>1
  <2> QED BY <2>2 DEF ToSet, FirstKeys
<1> QED BY <1>1, <1>2, <1>3, <1>4, <1>5

LEMMA FallbackTypes == Fallback \in [Keys -> Int] /\ \A k \in Keys : Fallback[k] \in Int
BY SettingsAssumption DEF Fallback

LEMMA GetTypes == ASSUME SettingsTypes, NEW k \in Keys PROVE Get(k) \in Int
BY FallbackTypes DEF SettingsTypes, Get

LEMMA MergeTypes ==
  ASSUME NEW values \in [Keys -> Int], NEW body \in Bodies PROVE Merge(values, body) \in [Keys -> Int]
BY SettingsAssumption DEF Merge

LEMMA AloneInit == SettingsInit => AloneInv
<1> SUFFICES ASSUME SettingsInit PROVE AloneInv
  OBVIOUS
<1>1. SettingsTypes
  BY FallbackTypes DEF SettingsInit, SettingsTypes, Idle, Working
<1> QED BY <1>1 DEF SettingsInit, AloneInv, Pairs, Alone, Idle, Working

-----------------------------------------------------------------------------
(* A request comes *)

\* What concerns a request, when a step does not move it.
LEMMA AloneStays ==
  ASSUME AloneInv, NEW q \in Puts, put'[q] = put[q], before'[q] = before[q],
         overlapped \subseteq overlapped', table' = table
  PROVE  Alone(q)'
BY DEF AloneInv, Alone, Done, Get

LEMMA PutKeeps == ASSUME AloneInv, NEW q \in Puts, Put(q) PROVE AloneInv'
<1> DEFINE others == {p \in Puts : Working(p)}
<1>1. PICK body \in Bodies : put' = [put EXCEPT ![q] = [Idle EXCEPT !.at = "load", !.n = 1, !.body = body]]
  BY DEF Put, SetPut
<1>2. /\ put'[q].at = "load" /\ put'[q].n = 1 /\ put'[q].body = body /\ put'[q].values = Fallback
      /\ \A p \in Puts : p # q => put'[p] = put[p]
  BY <1>1 DEF AloneInv, SettingsTypes, Idle
<1>3. /\ put[q].at = "idle" /\ before' = [before EXCEPT ![q] = Present]
      /\ overlapped' = IF others = {} THEN overlapped ELSE overlapped \cup others \cup {q}
      /\ UNCHANGED <<table, cap, logBytes, written, errors>>
  BY DEF Put, Arrives
<1>4. Present \in [Keys -> Int]
  BY GetTypes DEF AloneInv, Present
<1>5. SettingsTypes'
  <2>1. put'[q] \in [at : {"idle", "load", "store", "cap", "ok", "refused", "failed"}, n : Nat,
                     body : Bodies \cup {<<>>}, values : [Keys -> Int]]
    BY <1>1, FallbackTypes DEF AloneInv, SettingsTypes, Idle
  <2>2. \A p \in Puts : p # q => (Working(p)' <=> Working(p))
    BY <1>2 DEF Working
  <2> QED BY <1>1, <1>2, <1>3, <1>4, <2>1, <2>2 DEF AloneInv, SettingsTypes
<1>6. Pairs'
  <2>1. \A p \in Puts : p # q => (Working(p)' <=> p \in others)
    BY <1>2 DEF Working
  <2> QED BY <1>3, <2>1 DEF AloneInv, Pairs
<1>7. ASSUME NEW p \in Puts PROVE Alone(p)'
  <2>1. CASE p # q
    BY <1>2, <1>3, <2>1, AloneStays DEF AloneInv, SettingsTypes
  <2>2. CASE p = q
    <3>1. before'[q] = Present
      BY <1>3 DEF AloneInv, SettingsTypes
    <3>2. \A k \in Keys : before'[q][k] = Get(k)'
      BY <1>3, <3>1 DEF Present, Get
    <3> QED BY <1>2, <2>2, <3>2, FirstKeysAre DEF Alone, Done
  <2> QED BY <2>1, <2>2
<1> QED BY <1>5, <1>6, <1>7 DEF AloneInv

-----------------------------------------------------------------------------
(* A request goes on *)

\* A request moves: the others are as they were, and those at work were not
\* alone with it.
LEMMA OneGoesOn ==
  ASSUME AloneInv, NEW q \in Puts, Working(q), NEW r, put' = [put EXCEPT ![q] = r],
         r \in [at : {"load", "store", "cap", "ok", "refused", "failed"}, n : Nat,
                body : Bodies, values : [Keys -> Int]],
         r.at \in {"load", "store", "cap"} => r.n \in 1..3,
         table' \in [Keys -> Int \cup {Unset}], errors' \in Nat, UNCHANGED <<before, overlapped>>,
         Alone(q)'
  PROVE  AloneInv'
<1>1. put'[q] = r /\ \A p \in Puts : p # q => put'[p] = put[p]
  BY DEF AloneInv, SettingsTypes
<1>2. SettingsTypes'
  <2>1. r \in [at : {"idle", "load", "store", "cap", "ok", "refused", "failed"}, n : Nat,
                body : Bodies \cup {<<>>}, values : [Keys -> Int]]
    OBVIOUS
  <2>2. \A p \in Puts : p # q => (Working(p)' <=> Working(p))
    BY <1>1 DEF Working
  <2>3. Working(q)' => put'[q].n \in 1..3 /\ put'[q].body \in Bodies
    BY <1>1 DEF Working
  <2> QED BY <1>1, <2>1, <2>2, <2>3 DEF AloneInv, SettingsTypes
<1>3. Pairs'
  BY <1>1 DEF AloneInv, Pairs, Working
<1>4. ASSUME NEW p \in Puts PROVE Alone(p)'
  <2>1. CASE p = q
    BY <2>1
  <2>2. CASE p # q /\ Working(p)
    BY <2>2 DEF AloneInv, Pairs, Alone
  <2>3. CASE p # q /\ ~Working(p)
    BY <1>1, <2>3 DEF Alone, Working
  <2> QED BY <2>1, <2>2, <2>3
<1> QED BY <1>2, <1>3, <1>4 DEF AloneInv

LEMMA Answered500Keeps ==
  ASSUME AloneInv, NEW q \in Puts, Working(q), Answered500(q), UNCHANGED <<table, before, overlapped>>
  PROVE  AloneInv'
<1> DEFINE r == [put[q] EXCEPT !.at = "failed"]
<1>1. put[q] \in [at : {"idle", "load", "store", "cap", "ok", "refused", "failed"}, n : Nat,
                  body : Bodies, values : [Keys -> Int]]
  BY DEF AloneInv, SettingsTypes
<1>2. /\ put' = [put EXCEPT ![q] = r] /\ r.at = "failed"
      /\ r \in [at : {"load", "store", "cap", "ok", "refused", "failed"}, n : Nat,
                body : Bodies, values : [Keys -> Int]]
  BY <1>1 DEF Answered500, SetPut
<1>3. errors' \in Nat /\ table' \in [Keys -> Int \cup {Unset}]
  BY DEF AloneInv, SettingsTypes, Answered500, Err
<1>4. Alone(q)'
  BY <1>2 DEF AloneInv, SettingsTypes, Alone
<1> HIDE DEF r
<1> QED BY <1>2, <1>3, <1>4, OneGoesOn

LEMMA LoadKeeps == ASSUME AloneInv, NEW q \in Puts, LoadSetting(q) PROVE AloneInv'
<1> DEFINE r    == put[q]
           key  == KeyOrder[r.n]
           read == [r.values EXCEPT ![key] = Get(key)]
<1>1. /\ Working(q) /\ r.at = "load" /\ r.n \in 1..3 /\ r.body \in Bodies /\ r.values \in [Keys -> Int]
      /\ r \in [at : {"idle", "load", "store", "cap", "ok", "refused", "failed"}, n : Nat,
                body : Bodies, values : [Keys -> Int]]
      /\ UNCHANGED <<table, cap, logBytes, written, before, overlapped>>
  BY DEF LoadSetting, Working, AloneInv, SettingsTypes
<1>2. key \in Keys /\ read \in [Keys -> Int] /\ FirstKeys(r.n) = FirstKeys(r.n - 1) \cup {key}
  BY <1>1, FirstKeysAre, GetTypes DEF AloneInv
<1>3. q \notin overlapped => Done(q, 0) /\ \A k \in FirstKeys(r.n) : read[k] = before[q][k]
  <2> SUFFICES ASSUME q \notin overlapped
               PROVE  Done(q, 0) /\ \A k \in FirstKeys(r.n) : read[k] = before[q][k]
    OBVIOUS
  <2>1. Done(q, 0) /\ \A k \in FirstKeys(r.n - 1) : r.values[k] = before[q][k]
    BY <1>1 DEF AloneInv, Alone
  <2>2. Get(key) = before[q][key]
    BY <1>2, <2>1, FirstKeysAre DEF Done
  <2>3. FirstKeys(r.n) \subseteq Keys
    BY <1>1, FirstKeysAre
  <2> QED BY <1>1, <1>2, <2>1, <2>2, <2>3
<1>4. CASE Answered500(q)
  BY <1>1, <1>4, Answered500Keeps
<1>5. CASE r.n < Len(KeyOrder) /\ SetPut(q, [r EXCEPT !.n = @ + 1, !.values = read]) /\ UNCHANGED errors
  <2> DEFINE next == [r EXCEPT !.n = @ + 1, !.values = read]
  <2>1. r.n + 1 \in 1..3 /\ r.n + 1 \in Nat /\ r.n + 1 - 1 = r.n
    BY <1>1, <1>5, KeysAre
  <2>2. put' = [put EXCEPT ![q] = next] /\ errors' \in Nat /\ table' \in [Keys -> Int \cup {Unset}]
    BY <1>1, <1>5 DEF AloneInv, SettingsTypes, SetPut
  <2>3. put'[q] = next
    BY <2>2 DEF AloneInv, SettingsTypes
  <2> HIDE DEF read, key
  <2>4. /\ next \in [at : {"load", "store", "cap", "ok", "refused", "failed"}, n : Nat,
                      body : Bodies, values : [Keys -> Int]]
        /\ next.at = "load" /\ next.n = r.n + 1 /\ next.values = read /\ next.body = r.body
    BY <1>1, <1>2, <2>1
  <2> HIDE DEF next
  <2>5. Alone(q)'
    <3>1. q \notin overlapped' => Done(q, 0)'
      BY <1>1, <1>3, <2>3, <2>4 DEF Done, Get
    <3> QED BY <1>1, <1>3, <2>1, <2>3, <2>4, <3>1 DEF Alone
  <2> QED BY <1>1, <2>1, <2>2, <2>4, <2>5, OneGoesOn
<1>6. CASE r.n = 3 /\ SetPut(q, [r EXCEPT !.at = "store", !.n = 1, !.values = Merge(read, r.body)])
           /\ UNCHANGED errors
  <2> DEFINE merged == Merge(read, r.body)
             next   == [r EXCEPT !.at = "store", !.n = 1, !.values = merged]
  <2>1. merged \in [Keys -> Int]
    BY <1>1, <1>2, MergeTypes
  <2> HIDE DEF merged, read, key
  <2>2. /\ next \in [at : {"load", "store", "cap", "ok", "refused", "failed"}, n : Nat,
                      body : Bodies, values : [Keys -> Int]]
        /\ next.at = "store" /\ next.n = 1
        /\ next.values = merged /\ next.body = r.body
    BY <1>1, <2>1
  <2>3. put'[q] = next /\ put' = [put EXCEPT ![q] = next]
    BY <1>6 DEF AloneInv, SettingsTypes, SetPut, merged, read, key
  <2> HIDE DEF next
  <2>4. q \notin overlapped => merged = Merge(before[q], r.body)
    BY <1>2, <1>3, <1>6, FirstKeysAre DEF Merge, merged
  <2>5. Alone(q)'
    BY <1>1, <1>3, <2>2, <2>3, <2>4 DEF Alone, Done, Get
  <2>6. errors' \in Nat /\ table' \in [Keys -> Int \cup {Unset}]
    BY <1>1, <1>6 DEF AloneInv, SettingsTypes
  <2>7. next.n \in 1..3
    BY <2>2
  <2> QED BY <1>1, <2>2, <2>3, <2>5, <2>6, <2>7, OneGoesOn
<1>7. CASE SetPut(q, [r EXCEPT !.at = "refused"]) /\ UNCHANGED errors
  <2> DEFINE next == [r EXCEPT !.at = "refused"]
  <2>1. /\ next \in [at : {"load", "store", "cap", "ok", "refused", "failed"}, n : Nat,
                      body : Bodies, values : [Keys -> Int]]
        /\ next.at = "refused"
    BY <1>1
  <2>2. put'[q] = next /\ put' = [put EXCEPT ![q] = next]
    BY <1>7 DEF AloneInv, SettingsTypes, SetPut
  <2> HIDE DEF next
  <2>3. Alone(q)'
    BY <2>1, <2>2 DEF Alone
  <2>4. errors' \in Nat /\ table' \in [Keys -> Int \cup {Unset}]
    BY <1>1, <1>7 DEF AloneInv, SettingsTypes
  <2> QED BY <1>1, <2>1, <2>2, <2>3, <2>4, OneGoesOn
<1>8. ~(r.n < Len(KeyOrder)) => r.n = 3
  BY <1>1, KeysAre
<1> QED BY <1>4, <1>5, <1>6, <1>7, <1>8 DEF LoadSetting

LEMMA StoreKeeps == ASSUME AloneInv, NEW q \in Puts, StoreSetting(q) PROVE AloneInv'
<1> DEFINE r    == put[q]
           next == IF r.n < Len(KeyOrder) THEN [r EXCEPT !.n = @ + 1] ELSE [r EXCEPT !.at = "cap"]
<1>1. /\ Working(q) /\ r.at = "store" /\ r.n \in 1..3 /\ r.body \in Bodies /\ r.values \in [Keys -> Int]
      /\ r \in [at : {"idle", "load", "store", "cap", "ok", "refused", "failed"}, n : Nat,
                body : Bodies, values : [Keys -> Int]]
      /\ UNCHANGED <<cap, logBytes, written, before, overlapped>>
  BY DEF StoreSetting, Working, AloneInv, SettingsTypes
<1> PICK n \in 1..3, key \in Keys : n = r.n /\ key = KeyOrder[r.n]
  BY <1>1, FirstKeysAre
<1>2. CASE Answered500(q) /\ UNCHANGED table
  BY <1>1, <1>2, Answered500Keeps
<1>3. CASE Upsert(key, r.values[key]) /\ SetPut(q, next) /\ UNCHANGED errors
  <2>1. FirstKeys(n) = FirstKeys(n - 1) \cup {key} /\ r.values[key] \in Int
    BY <1>1, FirstKeysAre
  <2>2. /\ next \in [at : {"load", "store", "cap", "ok", "refused", "failed"}, n : Nat,
                      body : Bodies, values : [Keys -> Int]]
        /\ next.at \in {"store", "cap"} /\ next.n \in 1..3
        /\ next.values = r.values /\ next.body = r.body
        /\ next.at = "store" => next.n - 1 = n
        /\ next.at = "cap" => n = 3
    BY <1>1, KeysAre
  <2>3. put' = [put EXCEPT ![q] = next] /\ errors' \in Nat
    BY <1>3 DEF AloneInv, SettingsTypes, SetPut
  <2>4. put'[q] = next
    BY <2>3 DEF AloneInv, SettingsTypes
  <2> HIDE DEF next
  <2>5. table' = [table EXCEPT ![key] = r.values[key]] /\ table \in [Keys -> Int \cup {Unset}]
    BY <1>3 DEF Upsert, AloneInv, SettingsTypes
  <2>6. /\ table' \in [Keys -> Int \cup {Unset}] /\ table'[key] = r.values[key]
        /\ \A k \in Keys : k # key => table'[k] = table[k]
    BY <2>1, <2>5
  <2>7. Get(key)' = r.values[key]
    BY <2>1, <2>6, SettingsAssumption DEF Get
  <2>8. ASSUME NEW k \in Keys, k # key PROVE Get(k)' = Get(k)
    BY <2>6, <2>8 DEF Get
  <2>9. ASSUME q \notin overlapped PROVE Done(q, n)' /\ r.values = Merge(before[q], r.body)
    <3>1. Done(q, n - 1) /\ r.values = Merge(before[q], r.body)
      BY <1>1, <2>9 DEF AloneInv, Alone
    <3>2. r.values[key] = IF key \in DOMAIN r.body THEN r.body[key] ELSE before[q][key]
      BY <2>1, <3>1 DEF Merge
    <3>3. put'[q].body = r.body /\ before' = before
      BY <1>1, <2>2, <2>4
    <3>4. ASSUME NEW k \in Keys
          PROVE  Get(k)' = IF k \in DOMAIN put'[q].body /\ k \in FirstKeys(n) THEN put'[q].body[k]
                           ELSE before'[q][k]
      <4>1. CASE k = key
        BY <2>1, <2>7, <3>2, <3>3, <4>1
      <4>2. CASE k # key
        <5>1. Get(k)' = Get(k) /\ (k \in FirstKeys(n) <=> k \in FirstKeys(n - 1))
          BY <2>1, <2>8, <4>2
        <5> QED BY <3>1, <3>3, <5>1 DEF Done
      <4> QED BY <4>1, <4>2
    <3> QED BY <3>1, <3>4 DEF Done
  <2>10. Alone(q)'
    <3> SUFFICES ASSUME q \notin overlapped PROVE Alone(q)'
      BY <1>1 DEF Alone
    <3>1. Done(q, n)' /\ r.values = Merge(before[q], r.body)
      BY <2>9
    <3>2. CASE next.at = "store"
      <4>1. put'[q].n - 1 = n /\ put'[q].at = "store"
        BY <2>2, <2>4, <3>2
      <4> QED BY <1>1, <2>2, <2>4, <3>1, <4>1 DEF Alone
    <3>3. CASE next.at = "cap"
      BY <2>2, <2>4, <3>1, <3>3 DEF Alone
    <3> QED BY <2>2, <3>2, <3>3
  <2> QED BY <1>1, <2>2, <2>3, <2>6, <2>10, OneGoesOn
<1> QED BY <1>2, <1>3 DEF StoreSetting

LEMMA CapKeeps == ASSUME AloneInv, NEW q \in Puts, CapAfterPut(q) PROVE AloneInv'
<1> DEFINE r    == put[q]
           next == [r EXCEPT !.at = "ok"]
<1>1. /\ Working(q) /\ r.at = "cap"
      /\ r \in [at : {"idle", "load", "store", "cap", "ok", "refused", "failed"}, n : Nat,
                body : Bodies, values : [Keys -> Int]]
      /\ UNCHANGED <<table, cap, written, before, overlapped>>
  BY DEF CapAfterPut, Working, AloneInv, SettingsTypes
<1>2. CASE Answered500(q)
  BY <1>1, <1>2, Answered500Keeps
<1>3. CASE SetPut(q, next) /\ UNCHANGED errors
  <2>1. /\ next \in [at : {"load", "store", "cap", "ok", "refused", "failed"}, n : Nat,
                      body : Bodies, values : [Keys -> Int]]
        /\ next.at = "ok"
    BY <1>1
  <2>2. put' = [put EXCEPT ![q] = next] /\ errors' \in Nat /\ table' \in [Keys -> Int \cup {Unset}]
    BY <1>1, <1>3 DEF AloneInv, SettingsTypes, SetPut
  <2>3. put'[q] = next
    BY <2>2 DEF AloneInv, SettingsTypes
  <2> HIDE DEF next
  <2>4. Alone(q)'
    BY <2>1, <2>3 DEF Alone
  <2> QED BY <1>1, <2>1, <2>2, <2>4, OneGoesOn
<1> QED BY <1>2, <1>3 DEF CapAfterPut

-----------------------------------------------------------------------------
(* Every step *)

LEMMA AloneStep == AloneInv /\ [SettingsNext]_settingsVars => AloneInv'
<1> SUFFICES ASSUME AloneInv, [SettingsNext]_settingsVars PROVE AloneInv'
  OBVIOUS
<1>1. ASSUME errors' \in Nat, UNCHANGED <<table, put, before, overlapped>> PROVE AloneInv'
  <2>1. SettingsTypes'
    BY <1>1 DEF AloneInv, SettingsTypes, Working
  <2>2. Pairs'
    BY <1>1 DEF AloneInv, Pairs, Working
  <2>3. \A q \in Puts : Alone(q)'
    BY <1>1, AloneStays
  <2> QED BY <2>1, <2>2, <2>3 DEF AloneInv
<1>2. CASE UNCHANGED settingsVars
  BY <1>1, <1>2 DEF AloneInv, SettingsTypes, settingsVars
<1>3. ASSUME NEW q \in Puts, Put(q) PROVE AloneInv'
  BY <1>3, PutKeeps
<1>4. ASSUME NEW q \in Puts, PutStep(q) PROVE AloneInv'
  BY <1>4, LoadKeeps, StoreKeeps, CapKeeps DEF PutStep
<1>5. ASSUME NEW e \in Enforcers, Capping(e) PROVE AloneInv'
  <2>1. UNCHANGED <<table, put, before, overlapped>> /\ errors' \in Nat
    BY <1>5 DEF Capping, ReadLimit, EnforceLimit, Err, AloneInv, SettingsTypes
  <2> QED BY <1>1, <2>1
<1>6. CASE RunWrites
  BY <1>1, <1>6 DEF RunWrites, AloneInv, SettingsTypes
<1> QED BY <1>2, <1>3, <1>4, <1>5, <1>6 DEF SettingsNext

\* A step leaves what the request found, but for what it names among the first
\* n keys.
HasSet(q, n) ==
  \A k \in Keys : Get(k)' = IF k \in DOMAIN put[q].body \cap ToSet(SubSeq(KeyOrder, 1, n))
                           THEN put[q].body[k] ELSE before[q][k]

Exact(q) ==
  /\ put'[q].at = "ok" => HasSet(q, Len(KeyOrder))
  /\ put'[q].at = "refused" => HasSet(q, 0)
  /\ put'[q].at = "failed" => \E n \in 0..Len(KeyOrder) : HasSet(q, n)

LEMMA ExactStep ==
  ASSUME AloneInv, [SettingsNext]_settingsVars, NEW q \in Puts \ overlapped, Working(q)
  PROVE  Exact(q)
<1>1. ASSUME NEW n \in 0..3, Done(q, n), UNCHANGED table PROVE HasSet(q, n)
  BY <1>1, FirstKeysAre DEF Done, Get, HasSet
<1>2. Alone(q) /\ put[q].n \in 1..3
  BY DEF AloneInv, SettingsTypes
<1>3. Len(KeyOrder) = 3
  BY KeysAre
<1>4. CASE put'[q] = put[q]
  BY <1>4 DEF Working, Exact
<1>5. CASE LoadSetting(q)
  <2>1. put[q].at = "load" /\ UNCHANGED table
    BY <1>5 DEF LoadSetting
  <2>2. HasSet(q, 0)
    BY <1>1, <1>2, <2>1 DEF Alone
  <2>3. put'[q].at # "ok"
    BY <1>5, <2>1 DEF LoadSetting, SetPut, Answered500, AloneInv, SettingsTypes
  <2> QED BY <1>3, <2>2, <2>3 DEF Exact
<1>6. CASE StoreSetting(q)
  <2>1. put[q].at = "store"
    BY <1>6 DEF StoreSetting
  <2>2. CASE Answered500(q) /\ UNCHANGED table
    <3>1. Done(q, put[q].n - 1) /\ put[q].n - 1 \in 0..3
      BY <1>2, <2>1 DEF Alone
    <3>2. HasSet(q, put[q].n - 1)
      BY <1>1, <2>2, <3>1
    <3>3. put'[q].at = "failed"
      BY <2>2 DEF Answered500, SetPut, AloneInv, SettingsTypes
    <3> QED BY <1>3, <3>1, <3>2, <3>3 DEF Exact
  <2>3. CASE SetPut(q, IF put[q].n < Len(KeyOrder) THEN [put[q] EXCEPT !.n = @ + 1]
                       ELSE [put[q] EXCEPT !.at = "cap"])
    <3>1. put'[q].at \in {"store", "cap"}
      BY <2>1, <2>3 DEF SetPut, AloneInv, SettingsTypes
    <3> QED BY <3>1 DEF Exact
  <2> QED BY <1>6, <2>2, <2>3 DEF StoreSetting
<1>7. CASE CapAfterPut(q)
  <2>1. put[q].at = "cap" /\ UNCHANGED table
    BY <1>7 DEF CapAfterPut
  <2>2. HasSet(q, 3)
    BY <1>1, <1>2, <2>1 DEF Alone
  <2>3. put'[q].at \in {"ok", "failed"}
    BY <1>7 DEF CapAfterPut, SetPut, Answered500, AloneInv, SettingsTypes
  <2> QED BY <1>3, <2>2, <2>3 DEF Exact
<1>8. put'[q] = put[q] \/ LoadSetting(q) \/ StoreSetting(q) \/ CapAfterPut(q)
  <2>1. ASSUME NEW p \in Puts, Put(p) \/ PutStep(p), p # q PROVE put'[q] = put[q]
    <3>1. ASSUME NEW r, put' = [put EXCEPT ![p] = r] PROVE put'[q] = put[q]
      BY <2>1, <3>1 DEF AloneInv, SettingsTypes
    <3> QED BY <2>1, <3>1 DEF Put, PutStep, LoadSetting, StoreSetting, CapAfterPut, Answered500, SetPut
  <2>2. ~Put(q)
    BY DEF Put, Working
  <2>3. ASSUME NEW e \in Enforcers, Capping(e) PROVE put'[q] = put[q]
    BY <2>3 DEF Capping, ReadLimit, EnforceLimit
  <2>4. RunWrites \/ UNCHANGED settingsVars => put'[q] = put[q]
    BY DEF RunWrites, settingsVars
  <2> QED BY <2>1, <2>2, <2>3, <2>4 DEF SettingsNext, PutStep
<1> QED BY <1>4, <1>5, <1>6, <1>7, <1>8

\* A request that no other overlapped has set what it named and nothing else
\* when it answers 200, a first part of that when a statement failed, and
\* nothing when it refuses, whatever the bodies and the number of requests.
THEOREM UpdatesAreExact == SettingsInit /\ [][SettingsNext]_settingsVars => AloneUpdateIsExact
<1>1. AloneInv /\ [SettingsNext]_settingsVars =>
        [\A q \in Puts \ overlapped :
           LET named     == DOMAIN put[q].body
               change(n) == named \cap ToSet(SubSeq(KeyOrder, 1, n))
               has(n)    == \A k \in Keys : Get(k)' = IF k \in change(n) THEN put[q].body[k] ELSE before[q][k]
               ends(how) == Working(q) /\ put'[q].at = how
           IN  /\ ends("ok") => has(Len(KeyOrder))
               /\ ends("refused") => has(0)
               /\ ends("failed") => \E n \in 0..Len(KeyOrder) : has(n)]_settingsVars
  BY ExactStep DEF Exact, HasSet
<1>2. AloneInv /\ [][SettingsNext]_settingsVars => AloneUpdateIsExact
  BY <1>1, AloneStep, PTL DEF AloneUpdateIsExact
<1> QED BY AloneInit, <1>2, PTL

=============================================================================
