------------------------- MODULE DailyUsageProofs ---------------------------
(***************************************************************************)
(* Proofs about DailyUsage for every number of days, every retention and   *)
(* every amount of traffic: type correctness, and, for a clock that only   *)
(* moves forward and a file that can be opened, that a clean store is a    *)
(* persisted one, that the file is never torn, and that the store          *)
(* implements UsageLedger.  Then the rows over time: none of a day gone by *)
(* is rewritten in memory, none is lost in the file, and the pipe serves   *)
(* what is in the file.                                                    *)
(***************************************************************************)
EXTENDS DailyUsage, FiniteSetTheorems, WellFoundedInduction, TLAPS

-----------------------------------------------------------------------------
(* The helpers on tables.                                                  *)

(* A table has finitely many rows newer than any day, and none newer than  *)
(* its newest.                                                             *)
LEMMA NewerFinite ==
  ASSUME NEW h, IsTable(h), NEW d \in Days
  PROVE  /\ IsFiniteSet(Newer(h, d))
         /\ Cardinality(Newer(h, d)) \in Nat
<1>1. IsFiniteSet(Days)
  BY FS_Interval, BoundsAssumption DEF Days
<1>2. Newer(h, d) \subseteq Days
  BY DEF Newer, IsTable
<1> QED BY <1>1, <1>2, FS_Subset, FS_CardinalityType

(* upsert_history and trim_history keep tables tables.                     *)
LEMMA UpsertTable ==
  ASSUME NEW h, IsTable(h), NEW d \in Days, NEW n \in Nat
  PROVE  /\ IsTable(upsert_history(h, d, n))
         /\ DOMAIN upsert_history(h, d, n) = DOMAIN h \cup {d}
         /\ upsert_history(h, d, n)[d] = n
BY DEF IsTable, upsert_history

(* trim_history: the rows with fewer than MaxDays newer ones, as they are. *)
LEMMA TrimTable ==
  ASSUME NEW h, IsTable(h)
  PROVE  /\ IsTable(trim_history(h))
         /\ DOMAIN trim_history(h) \subseteq DOMAIN h
         /\ \A e \in DOMAIN trim_history(h) : trim_history(h)[e] = h[e]
         /\ \A e \in DOMAIN h : Cardinality(Newer(h, e)) < MaxDays
                                   => e \in DOMAIN trim_history(h)
BY DEF IsTable, trim_history

(* A table with the current day in it is a table.                          *)
LEMMA SyncTable ==
  ASSUME NEW h, IsTable(h), NEW d \in Days, NEW n \in Nat
  PROVE  IsTable(sync_current_day_into_history(h, d, n))
BY UpsertTable, TrimTable DEF sync_current_day_into_history

(* What trim_history returns needs no more trimming.                       *)
LEMMA TrimTrims ==
  ASSUME NEW h, IsTable(h)
  PROVE  Trimmed(trim_history(h))
<1>1. SUFFICES ASSUME NEW e \in DOMAIN trim_history(h)
               PROVE  Cardinality(Newer(trim_history(h), e)) < MaxDays
  BY DEF Trimmed
<1>2. e \in DOMAIN h /\ e \in Days /\ Cardinality(Newer(h, e)) < MaxDays
  BY <1>1 DEF trim_history, IsTable
<1>3. Newer(trim_history(h), e) \subseteq Newer(h, e)
  BY TrimTable DEF Newer
<1>4. IsFiniteSet(Newer(h, e)) /\ Cardinality(Newer(h, e)) \in Nat
  BY <1>2, NewerFinite
<1>5. Cardinality(Newer(trim_history(h), e)) <= Cardinality(Newer(h, e))
  BY <1>3, <1>4, FS_Subset
<1>6. Cardinality(Newer(trim_history(h), e)) \in Nat
  BY <1>2, TrimTable, NewerFinite
<1> QED BY <1>2, <1>4, <1>5, <1>6, BoundsAssumption

(* Trimming a trimmed table changes nothing.                               *)
LEMMA TrimFixed ==
  ASSUME NEW h, IsTable(h), Trimmed(h)
  PROVE  trim_history(h) = h
<1>1. {e \in DOMAIN h : Cardinality(Newer(h, e)) < MaxDays} = DOMAIN h
  BY DEF Trimmed
<1>2. h = [e \in DOMAIN h |-> h[e]]
  BY DEF IsTable
<1> QED BY <1>1, <1>2 DEF trim_history

(* The newest day always survives a sync: it has no newer row.             *)
LEMMA SyncNewest ==
  ASSUME NEW h, IsTable(h), NEW d \in Days, NEW n \in Nat,
         \A e \in DOMAIN h : e <= d
  PROVE  LET s == sync_current_day_into_history(h, d, n) IN
         /\ IsTable(s) /\ Trimmed(s) /\ Newest(s, d, n)
         /\ s = trim_history(upsert_history(h, d, n))
<1> DEFINE u == upsert_history(h, d, n)
           s == sync_current_day_into_history(h, d, n)
<1>1. IsTable(u) /\ DOMAIN u = DOMAIN h \cup {d} /\ u[d] = n
  BY UpsertTable
<1>2. IsTable(s) /\ Trimmed(s) /\ s = trim_history(u)
  BY <1>1, TrimTable, TrimTrims DEF sync_current_day_into_history
<1>3. Newer(u, d) = {}
  BY <1>1 DEF Newer, IsTable, Days
<1>4. Cardinality(Newer(u, d)) < MaxDays
  BY <1>3, FS_EmptySet, BoundsAssumption
<1>5. d \in DOMAIN s /\ s[d] = n
  BY <1>1, <1>2, <1>4, TrimTable
<1>6. \A e \in DOMAIN s : e <= d
  BY <1>1, <1>2, TrimTable DEF Days
<1> QED BY <1>2, <1>5, <1>6 DEF Newest

(* Syncing the row that is already there changes nothing.                  *)
LEMMA SyncSame ==
  ASSUME NEW h, IsTable(h), Trimmed(h), NEW d \in DOMAIN h
  PROVE  sync_current_day_into_history(h, d, h[d]) = h
<1>1. upsert_history(h, d, h[d]) = [e \in DOMAIN h |-> h[e]]
  BY DEF upsert_history
<1>2. upsert_history(h, d, h[d]) = h
  BY <1>1 DEF IsTable
<1> QED BY <1>2, TrimFixed DEF sync_current_day_into_history

(* Overwriting the newest row of a trimmed table trims nothing.            *)
LEMMA SyncGrows ==
  ASSUME NEW h, IsTable(h), Trimmed(h), NEW d \in DOMAIN h, NEW n \in Nat
  PROVE  sync_current_day_into_history(h, d, n) = upsert_history(h, d, n)
<1> DEFINE u == upsert_history(h, d, n)
<1>1. d \in Days
  BY DEF IsTable
<1>2. IsTable(u) /\ DOMAIN u = DOMAIN h
  BY <1>1, UpsertTable
<1>3. \A e \in DOMAIN h : Newer(u, e) = Newer(h, e)
  BY <1>2 DEF Newer
<1>4. Trimmed(u)
  BY <1>2, <1>3 DEF Trimmed
<1> QED BY <1>2, <1>4, TrimFixed DEF sync_current_day_into_history

(* The empty table is a table.                                             *)
LEMMA NoRowsTable == IsTable(NoRows) /\ Trimmed(NoRows) /\ DOMAIN NoRows = {}
BY DEF IsTable, NoRows, Trimmed

(* An absent and a torn file are files; their day is a placeholder.        *)
LEMMA FirstDay == 1 \in Days
BY BoundsAssumption DEF Days

(* The two files without content.                                          *)
LEMMA EmptyImages == IsImage(Absent) /\ IsImage(Torn)
BY NoRowsTable, FirstDay DEF IsImage, Image, Absent, Torn

-----------------------------------------------------------------------------
(* Every variable of the store keeps its type, whatever the clock, the     *)
(* disk and the file do.                                                   *)
THEOREM TypeCorrect == Spec => []TypeOK
<1>1. Init => TypeOK
  <2> SUFFICES ASSUME Init PROVE TypeOK
    OBVIOUS
  <2>1. IsTable(history) /\ IsTable(published)
    BY NoRowsTable DEF Init
  <2>2. IsImage(file) /\ IsImage(tmp)
    BY EmptyImages DEF Init
  <2> QED BY <2>1, <2>2, FirstDay DEF Init, TypeOK
<1>2. TypeOK /\ [Next]_vars => TypeOK'
  <2> SUFFICES ASSUME TypeOK, [Next]_vars PROVE TypeOK'
    OBVIOUS
  <2> USE NoRowsTable, UpsertTable, TrimTable, SyncTable, FirstDay, EmptyImages
  <2>1. CASE Load
    <3>1. current_day' = today /\ current' \in Nat /\ IsTable(history')
      <4>1. CASE LoadWhole
        <5>1. /\ file.day \in Days /\ file.bytes \in Nat
              /\ IsTable(trim_history(file.rows))
          BY DEF TypeOK, IsImage
        <5>2. current' \in Nat
          BY <4>1, <5>1 DEF LoadWhole, LoadedWith
        <5> QED BY <4>1, <5>1, <5>2, SyncTable DEF LoadWhole, LoadedWith, TypeOK
      <4>2. CASE LoadedNothing
        BY <4>2 DEF LoadedNothing, TypeOK
      <4> QED BY <2>1, <4>1, <4>2 DEF Load, LoadAbsent, LoadUnopened, LoadTorn
    <3>2. IsImage(file')
      BY <2>1 DEF Load, LoadWhole, LoadAbsent, LoadUnopened, LoadTorn, TypeOK
    <3>3. pc' \in {"begin", "boot"} /\ dirty' \in BOOLEAN
      BY <2>1 DEF Load, LoadWhole, LoadAbsent, LoadUnopened, LoadTorn, LoadedWith,
                  LoadedNothing
    <3> QED BY <2>1, <3>1, <3>2, <3>3 DEF Load, TypeOK
  <2>2. CASE Record
    <3>1. current' \in Nat /\ IsTable(history')
      BY <2>2 DEF Record, TypeOK
    <3> QED BY <2>2, <3>1 DEF Record, TypeOK, disk
  <2>3. CASE Rollover
    BY <2>3 DEF Rollover, TypeOK, disk
  <2>4. CASE Boot \/ SameDay \/ Publish \/ MaybeFlush \/ Final \/ Shutdown
    BY <2>4 DEF Boot, SameDay, Publish, MaybeFlush, Final, Shutdown, TypeOK, mem, disk
  <2>5. CASE FlushBegin
    BY <2>5 DEF FlushBegin, FlushFails, TypeOK
  <2>6. CASE FlushWrite
    <3>1. IsImage(Image("whole", current_day, current, history))
      BY DEF TypeOK, IsImage, Image
    <3>2. IsImage(tmp')
      BY <2>6, <3>1 DEF FlushWrite, TypeOK
    <3> QED BY <2>6, <3>2 DEF FlushWrite, FlushFails, TypeOK, mem
  <2>7. CASE FlushReplace
    BY <2>7 DEF FlushReplace, FlushFails, TypeOK, mem, disk
  <2>8. CASE World
    <3>1. CASE NextDay
      BY <3>1, BoundsAssumption DEF NextDay, TypeOK, mem, disk, Days
    <3>2. CASE ClockBack
      BY <3>2 DEF ClockBack, TypeOK, mem, disk
    <3>3. CASE MinutePasses
      BY <3>3 DEF MinutePasses, TypeOK, mem, disk
    <3>4. CASE Kill
      BY <3>4 DEF Kill, TypeOK, disk
    <3>5. CASE Rot
      BY <3>5 DEF Rot, TypeOK, mem
    <3> QED BY <2>8, <3>1, <3>2, <3>3, <3>4, <3>5 DEF World
  <2>9. CASE UNCHANGED vars
    BY <2>9 DEF vars, TypeOK, mem, disk
  <2> QED BY <2>1, <2>2, <2>3, <2>4, <2>5, <2>6, <2>7, <2>8, <2>9
          DEF Next, Main, Loop, Flush
<1> QED BY <1>1, <1>2, PTL DEF Spec

-----------------------------------------------------------------------------
(* What the two safety theorems need at every step.                        *)
StoreInv == TypeOK /\ StoreInStep /\ CleanMeansPersisted

(* Rows that agree as tables agree day by day.                             *)
LEMMA SyncSelf ==
  ASSUME NEW h, IsTable(h), Trimmed(h), NEW d, NEW n, Newest(h, d, n)
  PROVE  sync_current_day_into_history(h, d, n) = h
BY SyncSame DEF Newest

(* load: a whole file of today is taken over as it is; of an earlier day,  *)
(* today's empty row is added to it and the store is dirty.                *)
LEMMA LoadWholeStep ==
  ASSUME StoreInv, LoadWhole, ~ClockMayGoBack
  PROVE  /\ file.kind = "whole" /\ file' = file
         /\ current_day' = today
         /\ Trimmed(history') /\ Newest(history', today, current')
         /\ \/ /\ file.day = today /\ history' = file.rows
               /\ dirty' = FALSE /\ pc' = "boot"
            \/ /\ file.day < today
               /\ history' = sync_current_day_into_history(file.rows, today, 0)
               /\ current' = 0
               /\ dirty' = TRUE /\ pc' = "begin"
<1>1. /\ file.kind = "whole" /\ IsTable(file.rows) /\ Trimmed(file.rows)
      /\ Newest(file.rows, file.day, file.bytes)
      /\ file.day <= today /\ file.day \in Days /\ today \in Days /\ file.bytes \in Nat
  BY DEF StoreInv, StoreInStep, FileInStep, LoadWhole, TypeOK, IsImage
<1>2. trim_history(file.rows) = file.rows
  BY <1>1, TrimFixed
<1>3. sync_current_day_into_history(file.rows, file.day, file.bytes) = file.rows
  BY <1>1, SyncSelf
<1>4. /\ current_day' = today
      /\ current' = IF file.day = today THEN file.bytes ELSE 0
      /\ history' = sync_current_day_into_history(file.rows, today, current')
      /\ dirty' = (file.day # today)
      /\ pc' = IF file.day # today THEN "begin" ELSE "boot"
      /\ file' = file
  BY <1>2, <1>3 DEF LoadWhole, LoadedWith
<1>5. CASE file.day = today
  <2>1. current' = file.bytes /\ dirty' = FALSE /\ pc' = "boot"
    BY <1>4, <1>5
  <2>2. history' = file.rows
    BY <1>3, <1>4, <1>5, <2>1
  <2> QED BY <1>1, <1>4, <1>5, <2>1, <2>2
<1>6. CASE file.day # today
  <2>1. file.day < today
    BY <1>1, <1>6 DEF Days
  <2>2. \A e \in DOMAIN file.rows : e <= today
    BY <1>1, <2>1 DEF Newest, IsTable, Days
  <2>3. LET s == sync_current_day_into_history(file.rows, today, 0)
        IN  Trimmed(s) /\ Newest(s, today, 0)
    BY <1>1, <2>2, SyncNewest
  <2> QED BY <1>1, <1>4, <1>6, <2>1, <2>3
<1> QED BY <1>5, <1>6

(* An empty load leaves one empty row, today's.                            *)
LEMMA LoadNothingStep ==
  ASSUME TypeOK, LoadedNothing
  PROVE  /\ Trimmed(history') /\ Newest(history', today, 0)
         /\ \A d \in Days : Row(history', d) = 0
         /\ history' = sync_current_day_into_history(NoRows, today, 0)
<1> DEFINE s == sync_current_day_into_history(NoRows, today, 0)
<1>1. today \in Days /\ history' = s
  BY DEF TypeOK, LoadedNothing
<1>2. IsTable(s) /\ Trimmed(s) /\ Newest(s, today, 0)
      /\ s = trim_history(upsert_history(NoRows, today, 0))
  BY <1>1, NoRowsTable, SyncNewest
<1>3. /\ IsTable(upsert_history(NoRows, today, 0))
      /\ DOMAIN upsert_history(NoRows, today, 0) = {today}
  <2>1. DOMAIN upsert_history(NoRows, today, 0) = DOMAIN NoRows \cup {today}
    BY DEF upsert_history
  <2> QED BY <1>1, <2>1, NoRowsTable, UpsertTable
<1>4. DOMAIN s \subseteq {today}
  BY <1>2, <1>3, TrimTable
<1>5. \A d \in Days : Row(s, d) = 0
  BY <1>2, <1>4 DEF Row, Newest
<1> QED BY <1>1, <1>2, <1>5

(* Every step of a store whose clock moves forward and whose file opens    *)
(* keeps the strengthened invariant.                                       *)
LEMMA StoreInvInductive ==
  ASSUME ~ClockMayGoBack, ~OpenMayFail, StoreInv, [Next]_vars, TypeOK'
  PROVE  StoreInv'
<1> USE DEF StoreInv
<1>1. /\ today \in Days /\ current_day \in Days /\ current \in Nat
      /\ IsTable(history) /\ IsTable(file.rows)
  BY DEF TypeOK, IsImage
<1>2. CASE Load
  <2>1. pc = "down" /\ today' = today /\ pc' \in {"begin", "boot"}
    BY <1>2 DEF Load, LoadWhole, LoadAbsent, LoadUnopened, LoadTorn, LoadedWith, LoadedNothing
  <2>2. TmpInStep'
    BY <2>1 DEF TmpInStep
  <2>3. CASE LoadWhole
    <3>1. MemoryInStep' /\ FileInStep'
      <4>1. /\ file' = file /\ current_day' = today
            /\ Trimmed(history') /\ Newest(history', today, current')
        BY <2>3, LoadWholeStep
      <4>2. MemoryInStep'
        BY <1>1, <2>1, <4>1 DEF MemoryInStep, Days
      <4>3. FileInStep'
        BY <2>1, <4>1 DEF FileInStep, StoreInStep
      <4> QED BY <4>2, <4>3
    <3>2. CleanMeansPersisted'
      BY <2>3, LoadWholeStep DEF CleanMeansPersisted
    <3> QED BY <2>2, <3>1, <3>2 DEF StoreInStep
  <2>4. CASE LoadAbsent \/ LoadTorn
    <3>1. LoadedNothing /\ file.kind # "whole" /\ file.rows = NoRows
      BY <2>4 DEF LoadAbsent, LoadTorn, StoreInStep, FileInStep
    <3>2. file'.kind # "whole" /\ file'.rows = NoRows
      BY <2>4, <3>1 DEF LoadAbsent, LoadTorn, Absent, Torn, Image
    <3>3. current_day' = today /\ current' = 0
      BY <3>1 DEF LoadedNothing
    <3>4. MemoryInStep' /\ FileInStep'
      BY <1>1, <2>1, <3>1, <3>2, <3>3, LoadNothingStep DEF MemoryInStep, FileInStep, Days
    <3>5. \A d \in Days : Row(history', d) = Row(file'.rows, d)
      BY <3>1, <3>2, LoadNothingStep, NoRowsTable DEF Row
    <3> QED BY <2>2, <3>4, <3>5 DEF StoreInStep, CleanMeansPersisted
  <2> QED BY <1>2, <2>3, <2>4 DEF Load, LoadUnopened
<1>3. CASE Record
  <2>1. PICK n \in 1..MaxBytes :
          /\ current' = current + n
          /\ history' = sync_current_day_into_history(history, current_day, current + n)
    BY <1>3 DEF Record
  <2>2. Trimmed(history) /\ Newest(history, current_day, current) /\ current_day <= today
    BY <1>3 DEF StoreInStep, MemoryInStep, Record, up
  <2>3. \A e \in DOMAIN history : e <= current_day
    BY <2>2 DEF Newest
  <2>4. Trimmed(history') /\ Newest(history', current_day, current')
    BY <1>1, <2>1, <2>3, SyncNewest
  <2>5. /\ today' = today /\ current_day' = current_day /\ pc = "loop" /\ pc' = "loop"
        /\ file' = file /\ dirty' = TRUE
    BY <1>3 DEF Record, disk
  <2> QED BY <2>2, <2>4, <2>5
          DEF StoreInStep, MemoryInStep, FileInStep, TmpInStep, CleanMeansPersisted
<1>4. CASE Rollover
  <2>1. /\ Trimmed(history) /\ Newest(history, current_day, current)
        /\ current_day < today
    BY <1>4 DEF StoreInStep, MemoryInStep, Rollover, up
  <2>2. \A e \in DOMAIN history : e <= today
    BY <1>1, <2>1 DEF Newest, IsTable, Days
  <2>3. /\ history' = sync_current_day_into_history(history, today, 0)
        /\ current_day' = today /\ current' = 0 /\ today' = today /\ pc' = "begin"
        /\ file' = file /\ dirty' = TRUE
    BY <1>4 DEF Rollover, disk
  <2>4. Trimmed(history') /\ Newest(history', today, current')
    BY <1>1, <2>2, <2>3, SyncNewest
  <2> QED BY <1>1, <2>3, <2>4
          DEF StoreInStep, MemoryInStep, FileInStep, TmpInStep, CleanMeansPersisted, Days
<1>5. CASE Boot \/ SameDay \/ Publish \/ MaybeFlush \/ Final \/ Shutdown
  <2>1. UNCHANGED <<today, current_day, current, history, dirty, file, tmp>>
    BY <1>5 DEF Boot, SameDay, Publish, MaybeFlush, Final, Shutdown, mem, disk
  <2>2. up /\ up' /\ pc' # "replace"
    BY <1>5 DEF Boot, SameDay, Publish, MaybeFlush, Final, Shutdown, up
  <2> QED BY <2>1, <2>2
          DEF StoreInStep, MemoryInStep, FileInStep, TmpInStep, CleanMeansPersisted
<1>6. CASE FlushBegin
  <2>1. /\ UNCHANGED <<today, current_day, current, dirty, file>> /\ up
        /\ pc' \in {"write", after}
        /\ history' = sync_current_day_into_history(history, current_day, current)
    BY <1>6 DEF FlushBegin, FlushFails, up
  <2>2. history' = history
    BY <1>1, <2>1, SyncSelf DEF StoreInStep, MemoryInStep
  <2>3. pc' \notin {"replace", "down"}
    BY <2>1 DEF TypeOK
  <2> QED BY <2>1, <2>2, <2>3
          DEF StoreInStep, MemoryInStep, FileInStep, TmpInStep, CleanMeansPersisted, up
<1>7. CASE FlushWrite
  <2>1. UNCHANGED <<today, current_day, current, history, dirty, file>> /\ up
    BY <1>7 DEF FlushWrite, FlushFails, mem, up
  <2>2. \/ pc' = "replace" /\ tmp' = Image("whole", current_day, current, history)
        \/ pc' = after /\ pc' # "replace"
    BY <1>7 DEF FlushWrite, FlushFails, TypeOK
  <2>3. up' /\ TmpInStep'
    BY <2>1, <2>2 DEF TypeOK, TmpInStep, up
  <2> QED BY <2>1, <2>3
          DEF StoreInStep, MemoryInStep, FileInStep, CleanMeansPersisted
<1>8. CASE FlushReplace
  <2>1. /\ UNCHANGED <<today, current_day, current, history>>
        /\ up /\ pc = "replace" /\ pc' = after
    BY <1>8 DEF FlushReplace, FlushFails, mem, up
  <2>2. MemoryInStep' /\ TmpInStep'
    BY <2>1 DEF StoreInStep, MemoryInStep, TmpInStep, TypeOK
  <2>3. tmp = Image("whole", current_day, current, history)
    BY <2>1 DEF StoreInStep, TmpInStep
  <2>4. CASE file' = tmp
    <3>1. /\ file'.kind = "whole" /\ file'.rows = history
          /\ file'.day = current_day /\ file'.bytes = current
      BY <2>3, <2>4 DEF Image
    <3>2. FileInStep'
      BY <2>1, <3>1 DEF FileInStep, StoreInStep, MemoryInStep
    <3>3. CleanMeansPersisted'
      BY <2>1, <3>1 DEF CleanMeansPersisted
    <3> QED BY <2>2, <3>2, <3>3 DEF StoreInStep
  <2>5. CASE FlushFails /\ UNCHANGED disk
    BY <2>1, <2>2, <2>5 DEF FlushFails, disk, StoreInStep, FileInStep, CleanMeansPersisted
  <2> QED BY <1>8, <2>4, <2>5 DEF FlushReplace
<1>9. CASE NextDay
  <2>1. today' = today + 1 /\ UNCHANGED <<pc, current_day, current, history, dirty, file, tmp>>
    BY <1>9 DEF NextDay, mem, disk
  <2>2. file.day \in Days
    BY DEF TypeOK, IsImage
  <2> QED BY <1>1, <2>1, <2>2
          DEF StoreInStep, MemoryInStep, FileInStep, TmpInStep, CleanMeansPersisted, Days, up
<1>10. CASE Kill
  BY <1>10 DEF Kill, disk, StoreInStep, MemoryInStep, FileInStep, TmpInStep,
               CleanMeansPersisted, up
<1>11. CASE Rot
  <2>1. /\ pc = "down" /\ pc' = "down" /\ file' = Torn
    BY <1>11 DEF Rot
  <2> QED BY <2>1 DEF StoreInStep, MemoryInStep, FileInStep, TmpInStep,
                      CleanMeansPersisted, up, Torn, Image
<1>12. CASE MinutePasses \/ UNCHANGED vars
  BY <1>12 DEF MinutePasses, vars, mem, disk, StoreInStep, MemoryInStep, FileInStep,
               TmpInStep, CleanMeansPersisted, up
<1> QED BY <1>2, <1>3, <1>4, <1>5, <1>6, <1>7, <1>8, <1>9, <1>10, <1>11, <1>12
        DEF Next, Main, Loop, Flush, World, ClockBack

(* Memory and file stay in step with current_* in every reachable state.   *)
THEOREM StoreInvCorrect ==
  ASSUME ~ClockMayGoBack, ~OpenMayFail
  PROVE  Spec => []StoreInv
<1>1. Init /\ TypeOK => StoreInv
  BY DEF Init, StoreInv, StoreInStep, MemoryInStep, FileInStep, TmpInStep, CleanMeansPersisted,
         up, Absent, Image
<1>2. TypeOK /\ TypeOK' /\ StoreInv /\ [Next]_vars => StoreInv'
  BY StoreInvInductive
<1> QED BY <1>1, <1>2, TypeCorrect, PTL DEF Spec

(* maybe_flush, load and the loop may trust dirty: a clean store is on     *)
(* disk, day by day, for every retention and every amount of traffic.      *)
THEOREM CleanIsPersisted ==
  ASSUME ~ClockMayGoBack, ~OpenMayFail
  PROVE  Spec => []CleanMeansPersisted
<1>1. StoreInv => CleanMeansPersisted
  BY DEF StoreInv
<1> QED BY <1>1, StoreInvCorrect, PTL

(* Memory, file and temporary file stay images of one another.             *)
THEOREM StoreStaysInStep ==
  ASSUME ~ClockMayGoBack, ~OpenMayFail
  PROVE  Spec => []StoreInStep
<1>1. StoreInv => StoreInStep
  BY DEF StoreInv
<1> QED BY <1>1, StoreInvCorrect, PTL

(* daily_totals.json is never torn by a death of the process, wherever in  *)
(* flush_now it falls and whichever step of the flush fails.               *)
THEOREM FileIsNeverTorn == Spec => []FileNeverTorn
<1> DEFINE Whole == pc = "replace" => tmp.kind = "whole"
           Inv == FileNeverTorn /\ Whole
<1>1. Init => Inv
  BY DEF Init, FileNeverTorn, Absent, Image
<1>2. TypeOK /\ Inv /\ [Next]_vars => Inv'
  <2> SUFFICES ASSUME TypeOK, Inv, [Next]_vars PROVE Inv'
    OBVIOUS
  <2>1. CASE Load
    BY <2>1 DEF Load, LoadWhole, LoadAbsent, LoadUnopened, LoadTorn, LoadedWith,
                LoadedNothing, FileNeverTorn, Absent, Image
  <2>2. CASE Loop \/ Record \/ Shutdown
    BY <2>2 DEF Loop, Boot, Rollover, SameDay, Publish, MaybeFlush, Final, Record,
                Shutdown, FileNeverTorn, disk
  <2>3. CASE FlushBegin
    BY <2>3 DEF FlushBegin, FlushFails, FileNeverTorn, TypeOK
  <2>4. CASE FlushWrite
    BY <2>4 DEF FlushWrite, FlushFails, FileNeverTorn, TypeOK, Image
  <2>5. CASE FlushReplace
    BY <2>5 DEF FlushReplace, FlushFails, FileNeverTorn, TypeOK, disk
  <2>6. CASE World
    BY <2>6 DEF World, NextDay, ClockBack, MinutePasses, Kill, Rot, FileNeverTorn, disk
  <2>7. CASE UNCHANGED vars
    BY <2>7 DEF vars, disk, FileNeverTorn
  <2> QED BY <2>1, <2>2, <2>3, <2>4, <2>5, <2>6, <2>7 DEF Next, Main, Flush
<1> QED BY <1>1, <1>2, TypeCorrect, PTL DEF Spec

-----------------------------------------------------------------------------
(* The refinement of UsageLedger.                                          *)

(* The ledger counts rows as the store does.                               *)
LEMMA SameCardinality == \A S : Ledger!Cardinality(S) = Cardinality(S)
BY DEF Cardinality, Ledger!Cardinality

(* A day later than every row opens with no bytes.                         *)
LEMMA OpensToday ==
  ASSUME TypeOK, NEW h, IsTable(h), \A e \in DOMAIN h : e < today
  PROVE  /\ today \in Ledger!Days /\ Ledger!Newer(h, today) = {}
         /\ today \notin DOMAIN h
         /\ sync_current_day_into_history(h, today, 0)
              = Ledger!KeepNewest(Ledger!Put(h, today, 0))
<1>1. today \in Ledger!Days
  BY DEF TypeOK, Days, Ledger!Days
<1>2. Ledger!Newer(h, today) = {} /\ today \notin DOMAIN h
  BY DEF TypeOK, IsTable, Days, Ledger!Newer
<1>3. upsert_history(h, today, 0) = Ledger!Put(h, today, 0)
  BY DEF upsert_history, Ledger!Put
<1>4. \A t : trim_history(t) = Ledger!KeepNewest(t)
  BY SameCardinality DEF trim_history, Ledger!KeepNewest, Newer, Ledger!Newer
<1> QED BY <1>1, <1>2, <1>3, <1>4 DEF sync_current_day_into_history

(* Every step of the store is a step of the ledger or leaves it alone.     *)
LEMMA LedgerStep ==
  ASSUME ~ClockMayGoBack, ~OpenMayFail, ~FileMayRot,
         StoreInv, FileNeverTorn, [Next]_vars
  PROVE  [Ledger!Next]_(Ledger!vars)
<1> USE DEF StoreInv
<1> DEFINE rows == IF up THEN history ELSE file.rows
           saved == file.rows
<1>1. /\ today \in Days /\ current_day \in Days /\ current \in Nat
      /\ IsTable(history) /\ IsTable(file.rows)
      /\ pc \in {"down", "boot", "loop", "publish", "maybe_flush", "begin",
                 "write", "replace", "final", "joining"}
      /\ after \in {"boot", "publish", "loop", "final"}
  BY DEF TypeOK, IsImage
<1>2. CASE rows' = rows /\ saved' = saved
  BY <1>2 DEF Ledger!vars
<1>3. ASSUME NEW h, IsTable(h), \A e \in DOMAIN h : e < today,
             rows = h, rows' = sync_current_day_into_history(h, today, 0), saved' = saved
      PROVE  Ledger!Next
  <2>1. /\ today \in Ledger!Days /\ Ledger!Newer(rows, today) = {}
        /\ today \notin DOMAIN rows
        /\ rows' = Ledger!KeepNewest(Ledger!Put(rows, today, 0))
    BY <1>3, OpensToday
  <2>2. Ledger!Open
    BY <2>1, <1>3 DEF Ledger!Open
  <2> QED BY <2>2 DEF Ledger!Next
<1>4. CASE Load
  <2>1. /\ pc = "down" /\ pc' \in {"begin", "boot"} /\ file' = file
    BY <1>4 DEF Load, LoadWhole, LoadAbsent, LoadUnopened, LoadTorn, LoadedWith,
                LoadedNothing, FileNeverTorn
  <2>2. rows = file.rows /\ rows' = history' /\ saved' = saved
    BY <2>1 DEF up
  <2>3. CASE LoadWhole
    <3>1. CASE file.day = today
      <4>1. ~(file.day < today)
        BY <1>1, <3>1 DEF Days
      <4> QED BY <1>2, <2>2, <2>3, <4>1, LoadWholeStep
    <3>2. CASE file.day < today
      <4>1. history' = sync_current_day_into_history(file.rows, today, 0)
        <5>1. file.day # today
          BY <1>1, <3>2 DEF Days
        <5> QED BY <2>3, <5>1, LoadWholeStep
      <4>2. \A e \in DOMAIN file.rows : e < today
        <5>1. file.kind = "whole"
          BY <2>3 DEF LoadWhole
        <5>2. file.day \in Days /\ Newest(file.rows, file.day, file.bytes)
          BY <5>1 DEF StoreInStep, FileInStep, TypeOK, IsImage
        <5> QED BY <1>1, <3>2, <5>2 DEF Newest, IsTable, Days
      <4> QED BY <1>1, <1>3, <2>2, <4>1, <4>2
    <3> QED BY <2>3, <3>1, <3>2, LoadWholeStep
  <2>4. CASE LoadAbsent
    <3>1. file.rows = NoRows
      BY <2>4 DEF LoadAbsent, StoreInStep, FileInStep
    <3>2. history' = sync_current_day_into_history(NoRows, today, 0)
      BY <2>4, LoadNothingStep DEF LoadAbsent
    <3> QED BY <1>3, <2>2, <3>1, <3>2, NoRowsTable
  <2> QED BY <1>4, <2>3, <2>4 DEF Load, LoadUnopened, LoadTorn, FileNeverTorn
<1>5. CASE Record
  <2>1. PICK n \in 1..MaxBytes :
          /\ current + n <= MaxBytes
          /\ history' = sync_current_day_into_history(history, current_day, current + n)
    BY <1>5 DEF Record
  <2>2. Trimmed(history) /\ Newest(history, current_day, current)
        /\ rows = history /\ rows' = history' /\ saved' = saved
    BY <1>5 DEF StoreInStep, MemoryInStep, Record, up, disk
  <2>3. current_day \in DOMAIN history /\ history[current_day] = current
    BY <2>2 DEF Newest
  <2>4. history' = upsert_history(history, current_day, current + n)
    BY <1>1, <2>1, <2>2, <2>3, SyncGrows
  <2>5. rows' = Ledger!Put(rows, current_day, current + n)
    BY <2>2, <2>4 DEF upsert_history, Ledger!Put
  <2>6. Ledger!Newer(rows, current_day) = {}
    BY <1>1, <2>2 DEF Newest, Ledger!Newer, IsTable, Days
  <2>7. current + n \in 0..MaxBytes /\ current + n > rows[current_day]
    BY <1>1, <2>1, <2>2, <2>3, BoundsAssumption
  <2>8. Ledger!Add
    BY <2>2, <2>3, <2>5, <2>6, <2>7 DEF Ledger!Add
  <2> QED BY <2>8 DEF Ledger!Next
<1>6. CASE Rollover
  <2>1. /\ Newest(history, current_day, current)
        /\ current_day < today /\ rows = history
        /\ rows' = sync_current_day_into_history(history, today, 0) /\ saved' = saved
    BY <1>6 DEF StoreInStep, MemoryInStep, Rollover, up, disk
  <2>2. \A e \in DOMAIN history : e < today
    BY <1>1, <2>1 DEF Newest, IsTable, Days
  <2> QED BY <1>1, <1>3, <2>1, <2>2
<1>7. CASE FlushBegin
  <2>1. /\ UNCHANGED file /\ up /\ up'
        /\ history' = sync_current_day_into_history(history, current_day, current)
    BY <1>1, <1>7 DEF FlushBegin, FlushFails, up
  <2>2. history' = history
    BY <1>1, <2>1, SyncSelf DEF StoreInStep, MemoryInStep
  <2> QED BY <1>2, <2>1, <2>2
<1>8. CASE FlushReplace
  <2>1. UNCHANGED history /\ up /\ up' /\ pc = "replace"
    BY <1>1, <1>8 DEF FlushReplace, FlushFails, mem, up
  <2>2. tmp.rows = history
    BY <2>1 DEF StoreInStep, TmpInStep, Image
  <2>3. CASE file' = tmp
    <3>1. Ledger!Save
      BY <2>1, <2>2, <2>3 DEF Ledger!Save
    <3> QED BY <3>1 DEF Ledger!Next
  <2>4. CASE file' = file
    BY <1>2, <2>1, <2>4
  <2> QED BY <1>8, <2>3, <2>4 DEF FlushReplace, disk
<1>9. CASE Kill
  <2>1. rows' = saved /\ saved' = saved
    BY <1>9 DEF Kill, up, disk
  <2>2. Ledger!Crash
    BY <2>1 DEF Ledger!Crash
  <2> QED BY <2>2 DEF Ledger!Next
<1>10. CASE Boot \/ SameDay \/ Publish \/ MaybeFlush \/ Final \/ Shutdown
  BY <1>2, <1>10 DEF Boot, SameDay, Publish, MaybeFlush, Final, Shutdown, mem, disk, up
<1>11. CASE FlushWrite
  BY <1>1, <1>2, <1>11 DEF FlushWrite, FlushFails, mem, disk, up
<1>12. CASE NextDay \/ MinutePasses \/ UNCHANGED vars
  BY <1>2, <1>12 DEF NextDay, MinutePasses, vars, mem, disk, up
<1> QED BY <1>4, <1>5, <1>6, <1>7, <1>8, <1>9, <1>10, <1>11, <1>12
        DEF Next, Main, Loop, Flush, World, ClockBack, Rot

(* The store implements the ledger: with a clock that moves forward and a  *)
(* file that opens and does not rot, bytes are only added to the newest    *)
(* day, a day opens after all others, the file receives the whole table,   *)
(* and a death costs exactly what was not saved.                           *)
THEOREM Refinement ==
  ASSUME ~ClockMayGoBack, ~OpenMayFail, ~FileMayRot
  PROVE  Spec => LedgerSpec
<1>1. Init => Ledger!Init
  BY DEF Init, Ledger!Init, up, Absent, Image, NoRows, Ledger!NoRows
<1>2. StoreInv /\ FileNeverTorn /\ [Next]_vars => [Ledger!Next]_(Ledger!vars)
  BY LedgerStep
<1> QED BY <1>1, <1>2, StoreInvCorrect, FileIsNeverTorn, PTL
        DEF Spec, LedgerSpec, Ledger!Spec

-----------------------------------------------------------------------------
(* What a trimmed table keeps.                                             *)

(* A set of days has a latest one.                                         *)
LEMMA LatestDay ==
  ASSUME NEW S, S \subseteq Days, S # {}
  PROVE  \E m \in S : \A e \in S : e <= m
<1> DEFINE T == {MaxDay - e : e \in S}
<1>1. T \subseteq Nat /\ T # {}
  <2>1. \A e \in S : e \in Nat /\ e <= MaxDay
    BY DEF Days
  <2>2. \A e \in S : MaxDay - e \in Nat
    BY <2>1, BoundsAssumption
  <2>3. PICK e \in S : MaxDay - e \in T
    OBVIOUS
  <2> QED BY <2>2, <2>3
<1> HIDE DEF T
<1>2. PICK x \in T : \A y \in T : <<y, x>> \notin OpToRel(<, Nat)
  BY <1>1, NatLessThanWellFounded, WFMin, Zenon
<1>3. \A y \in T : ~(y < x)
  <2> SUFFICES ASSUME NEW y \in T, y < x PROVE <<y, x>> \in OpToRel(<, Nat)
    BY <1>2, Zenon
  <2>1. <<y, x>> \in Nat \X Nat /\ <<y, x>>[1] = y /\ <<y, x>>[2] = x
    BY <1>1
  <2> QED BY <2>1, Zenon DEF OpToRel
<1> USE DEF T
<1>4. PICK m \in S : x = MaxDay - m
  OBVIOUS
<1>5. \A e \in S : MaxDay - e >= MaxDay - m
  BY <1>1, <1>3, <1>4
<1> QED BY <1>5, BoundsAssumption DEF Days

(* A day with MaxDays newer rows still has them when the table has been    *)
(* trimmed: what goes is always older than what stays.                     *)
LEMMA TrimKeepsNewest ==
  ASSUME NEW h, IsTable(h), NEW d \in Days, Cardinality(Newer(h, d)) >= MaxDays
  PROVE  Cardinality(Newer(trim_history(h), d)) >= MaxDays
<1> DEFINE K == Newer(trim_history(h), d)
           S == Newer(h, d) \ K
<1>1. /\ Cardinality(K) \in Nat /\ IsFiniteSet(K) /\ Cardinality(Newer(h, d)) \in Nat
      /\ K \subseteq Newer(h, d) /\ MaxDays \in Nat
  BY TrimTable, NewerFinite, BoundsAssumption DEF Newer
<1>2. SUFFICES ASSUME Cardinality(K) < MaxDays PROVE FALSE
  BY <1>1
<1>3. S # {}
  BY <1>1, <1>2
<1>4. PICK m \in S : \A e \in S : e <= m
  <2>1. S \subseteq Days
    BY DEF Newer, IsTable
  <2> QED BY <1>3, <2>1, LatestDay
<1>5. m \in DOMAIN h /\ m \in Days /\ m > d
  BY <1>4 DEF Newer, IsTable
<1>6. Newer(h, m) \subseteq K
  <2> SUFFICES ASSUME NEW e \in DOMAIN h, e > m PROVE e \in K
    BY DEF Newer
  <2>1. e \in Newer(h, d) /\ ~(e <= m)
    BY <1>5 DEF Newer, IsTable, Days
  <2> QED BY <1>4, <2>1
<1>7. Cardinality(Newer(h, m)) \in Nat /\ Cardinality(Newer(h, m)) <= Cardinality(K)
  BY <1>1, <1>5, <1>6, NewerFinite, FS_Subset
<1>8. Cardinality(Newer(h, m)) < MaxDays
  BY <1>1, <1>2, <1>7
<1>9. m \in DOMAIN trim_history(h)
  BY <1>5, <1>8, TrimTable
<1> QED BY <1>4, <1>5, <1>9 DEF Newer

(* A sync leaves the row of another day as it is, or pushes it out.        *)
LEMMA SyncSeals ==
  ASSUME NEW h, IsTable(h), NEW d \in Days, NEW n \in Nat, NEW e \in DOMAIN h, e # d
  PROVE  LET s == sync_current_day_into_history(h, d, n)
         IN  IF e \in DOMAIN s THEN s[e] = h[e] ELSE Cardinality(Newer(s, e)) >= MaxDays
<1> DEFINE u == upsert_history(h, d, n)
           s == sync_current_day_into_history(h, d, n)
<1>1. IsTable(u) /\ e \in DOMAIN u /\ u[e] = h[e] /\ e \in Days /\ s = trim_history(u)
  BY UpsertTable DEF upsert_history, IsTable, sync_current_day_into_history
<1>2. CASE e \in DOMAIN s
  BY <1>1, <1>2, TrimTable
<1>3. CASE e \notin DOMAIN s
  <2>1. Cardinality(Newer(u, e)) >= MaxDays
    BY <1>1, <1>3, TrimTable, NewerFinite, BoundsAssumption
  <2> QED BY <1>1, <1>3, <2>1, TrimKeepsNewest
<1> QED BY <1>2, <1>3

(* A sync that does not lower its own row covers what was covered.         *)
LEMMA SyncCovers ==
  ASSUME NEW h, IsTable(h), NEW d \in Days, NEW n \in Nat, n >= Row(h, d),
         NEW e \in Days, NEW m \in Nat, Covers(h, e, m)
  PROVE  Covers(sync_current_day_into_history(h, d, n), e, m)
<1> DEFINE u == upsert_history(h, d, n)
           s == sync_current_day_into_history(h, d, n)
<1>1. IsTable(u) /\ DOMAIN u = DOMAIN h \cup {d} /\ IsTable(s) /\ s = trim_history(u)
  BY UpsertTable, SyncTable DEF sync_current_day_into_history
<1>2. CASE Cardinality(Newer(h, e)) >= MaxDays
  <2>1. Newer(h, e) \subseteq Newer(u, e)
    BY <1>1 DEF Newer
  <2>2. Cardinality(Newer(h, e)) <= Cardinality(Newer(u, e))
    BY <1>1, <2>1, NewerFinite, FS_Subset
  <2>3. Cardinality(Newer(u, e)) >= MaxDays
    BY <1>1, <1>2, <2>2, NewerFinite, BoundsAssumption
  <2> QED BY <1>1, <2>3, TrimKeepsNewest DEF Covers
<1>3. CASE Row(h, e) >= m
  <2>1. CASE e \in DOMAIN s
    <3>1. s[e] = u[e] /\ s[e] \in Nat /\ e \in DOMAIN u
      BY <1>1, <2>1, TrimTable DEF IsTable
    <3>2. Row(h, e) \in Nat /\ s[e] >= Row(h, e)
      BY <3>1 DEF upsert_history, Row, IsTable
    <3> QED BY <1>3, <2>1, <3>1, <3>2 DEF Covers, Row
  <2>2. CASE e \notin DOMAIN s /\ e \in DOMAIN u
    <3>1. Cardinality(Newer(u, e)) >= MaxDays
      BY <1>1, <2>2, TrimTable, NewerFinite, BoundsAssumption
    <3> QED BY <1>1, <3>1, TrimKeepsNewest DEF Covers
  <2>3. CASE e \notin DOMAIN s /\ e \notin DOMAIN u
    BY <1>1, <1>3, <2>3 DEF Covers, Row
  <2> QED BY <2>1, <2>2, <2>3
<1> QED BY <1>2, <1>3 DEF Covers

-----------------------------------------------------------------------------
(* Whatever the clock, the disk and the file do: a core that runs writes   *)
(* the row of no day it has left, and forgets one only for MaxDays newer.  *)
THEOREM PastDaysStaySealed == Spec => PastDaysSealed
<1>1. ASSUME TypeOK, [Next]_vars, up, up', NEW d \in DOMAIN history, d < current_day'
      PROVE  PastDaySealed(d)
  <2> USE <1>1
  <2>1. IsTable(history) /\ d \in Days /\ today \in Days /\ current_day \in Days /\ current \in Nat
    BY DEF TypeOK, IsTable
  <2>2. ASSUME NEW n \in Nat,
               \/ current_day' = current_day \/ current_day' = today,
               history' = sync_current_day_into_history(history, current_day', n)
        PROVE  PastDaySealed(d)
    <3>1. current_day' \in Days /\ d # current_day'
      BY <2>1, <2>2 DEF Days
    <3> QED BY <2>1, <2>2, <3>1, SyncSeals DEF PastDaySealed
  <2>3. CASE history' = history
    BY <2>3 DEF PastDaySealed
  <2>4. CASE Record
    <3>1. PICK n \in 1..MaxBytes :
            history' = sync_current_day_into_history(history, current_day, current + n)
      BY <2>4 DEF Record
    <3>2. current + n \in Nat
      BY <2>1, BoundsAssumption
    <3> QED BY <2>2, <2>4, <3>1, <3>2 DEF Record
  <2>5. CASE Rollover
    BY <2>2, <2>5 DEF Rollover
  <2>6. CASE FlushBegin
    BY <2>1, <2>2, <2>6 DEF FlushBegin
  <2>7. CASE Load \/ Kill \/ Rot
    BY <2>7 DEF Load, Kill, Rot, up
  <2>8. CASE \/ Boot \/ SameDay \/ Publish \/ MaybeFlush \/ Final \/ Shutdown
             \/ FlushWrite \/ FlushReplace
             \/ NextDay \/ ClockBack \/ MinutePasses \/ UNCHANGED vars
    BY <2>3, <2>8 DEF Boot, SameDay, Publish, MaybeFlush, Final, Shutdown, FlushWrite,
                      FlushReplace, NextDay, ClockBack, MinutePasses, vars, mem
  <2> QED BY <2>4, <2>5, <2>6, <2>7, <2>8 DEF Next, Main, Loop, Flush, World
<1>2. TypeOK /\ [Next]_vars =>
        [up /\ up' => \A d \in DOMAIN history : d < current_day' => PastDaySealed(d)]_vars
  BY <1>1
<1> QED BY <1>2, TypeCorrect, PTL DEF Spec, PastDaysSealed

-----------------------------------------------------------------------------
(* What the file and the pipe say, for a clock that moves forward and a    *)
(* file that opens and does not rot.                                       *)

(* The rows of the file are in memory, or pushed out of it.                *)
MemoryCovers == up => \A d \in DOMAIN file.rows : Covers(history, d, file.rows[d])

(* What is flushed from the loop has been published before.                *)
FlushesPublished ==
  pc = "maybe_flush" \/ (pc \in {"begin", "write", "replace"} /\ after = "loop")
    => published = history

ServeInv == MemoryCovers /\ FlushesPublished /\ ServedIncludesPersisted

(* Any table covers the rows it is made of.                                *)
LEMMA CoversSelf ==
  ASSUME NEW h, IsTable(h), NEW d \in DOMAIN h
  PROVE  Covers(h, d, h[d])
BY DEF Covers, Row, IsTable

(* One step keeps memory over the file, and what is flushed published.     *)
LEMMA ServeInvInductive ==
  ASSUME ~ClockMayGoBack, ~OpenMayFail, ~FileMayRot,
         StoreInv, StoreInv', ServeInv, [Next]_vars
  PROVE  ServeInv' /\ [\A d \in DOMAIN file.rows : Covers(file'.rows, d, file.rows[d])]_file
<1> USE DEF ServeInv
<1>1. /\ today \in Days /\ current_day \in Days /\ current \in Nat
      /\ IsTable(history) /\ IsTable(file.rows)
      /\ \A d \in DOMAIN file.rows : d \in Days /\ file.rows[d] \in Nat
  BY DEF StoreInv, TypeOK, IsImage, IsTable
<1>2. CASE Load
  <2>1. /\ pc = "down" /\ pc' \in {"begin", "boot"} /\ after' = "boot"
    BY <1>2 DEF Load, LoadWhole, LoadAbsent, LoadUnopened, LoadTorn, LoadedWith, LoadedNothing
  <2>2. FlushesPublished' /\ ServedIncludesPersisted'
    BY <2>1 DEF FlushesPublished, ServedIncludesPersisted
  <2>3. CASE LoadWhole
    <3>1. file' = file /\ Newest(file.rows, file.day, file.bytes)
      BY <2>3 DEF LoadWhole, StoreInv, StoreInStep, FileInStep
    <3>2. CASE history' = file.rows
      BY <1>1, <2>2, <3>1, <3>2, CoversSelf DEF MemoryCovers
    <3>3. CASE file.day < today /\ history' = sync_current_day_into_history(file.rows, today, 0)
      <4>1. Row(file.rows, today) = 0
        BY <1>1, <3>1, <3>3 DEF Row, Newest, IsTable, Days
      <4>2. MemoryCovers'
        BY <1>1, <3>1, <3>3, <4>1, CoversSelf, SyncCovers DEF MemoryCovers
      <4> QED BY <2>2, <3>1, <4>2
    <3> QED BY <2>3, <3>2, <3>3, LoadWholeStep
  <2>4. CASE LoadAbsent \/ LoadTorn
    <3>1. file.rows = NoRows /\ file'.rows = NoRows
      BY <2>4 DEF LoadAbsent, LoadTorn, StoreInv, StoreInStep, FileInStep, Absent, Torn, Image
    <3> QED BY <2>2, <3>1, NoRowsTable DEF MemoryCovers
  <2> QED BY <1>2, <2>3, <2>4 DEF Load, LoadUnopened
<1>3. CASE Record
  <2>1. PICK n \in 1..MaxBytes :
          history' = sync_current_day_into_history(history, current_day, current + n)
    BY <1>3 DEF Record
  <2>2. pc = "loop" /\ pc' = "loop" /\ file' = file /\ published' = published /\ up
    BY <1>3 DEF Record, disk, up
  <2>3. current + n \in Nat /\ current + n >= Row(history, current_day)
    BY <1>1, <2>2, BoundsAssumption DEF StoreInv, StoreInStep, MemoryInStep, Newest, Row
  <2>4. MemoryCovers'
    BY <1>1, <2>1, <2>2, <2>3, SyncCovers DEF MemoryCovers
  <2> QED BY <2>2, <2>4 DEF FlushesPublished, ServedIncludesPersisted
<1>4. CASE Rollover
  <2>1. /\ pc = "loop" /\ pc' = "begin" /\ after' = "publish" /\ file' = file /\ up
        /\ current_day < today
        /\ history' = sync_current_day_into_history(history, today, 0)
    BY <1>4 DEF Rollover, disk, up
  <2>2. Row(history, today) = 0
    BY <1>1, <2>1 DEF StoreInv, StoreInStep, MemoryInStep, Newest, Row, IsTable, Days
  <2>3. MemoryCovers'
    BY <1>1, <2>1, <2>2, SyncCovers DEF MemoryCovers
  <2> QED BY <2>1, <2>3 DEF FlushesPublished, ServedIncludesPersisted
<1>5. CASE Boot \/ Publish \/ Final
  <2>1. /\ published' = history /\ history' = history /\ file' = file
        /\ pc' \in {"loop", "maybe_flush", "joining"} /\ up
    BY <1>5 DEF Boot, Publish, Final, mem, disk, up
  <2> QED BY <2>1 DEF MemoryCovers, FlushesPublished, ServedIncludesPersisted
<1>6. CASE SameDay \/ Shutdown
  <2>1. /\ UNCHANGED <<history, file, published>> /\ up
        /\ pc' = "publish" \/ (pc' = "begin" /\ after' = "final")
    BY <1>6 DEF SameDay, Shutdown, mem, disk, up
  <2> QED BY <2>1 DEF MemoryCovers, FlushesPublished, ServedIncludesPersisted
<1>7. CASE MaybeFlush
  <2>1. /\ UNCHANGED <<history, file, published>> /\ up /\ pc = "maybe_flush"
        /\ pc' \in {"begin", "loop"}
    BY <1>7 DEF MaybeFlush, mem, disk, up
  <2> QED BY <2>1 DEF MemoryCovers, FlushesPublished, ServedIncludesPersisted
<1>8. CASE FlushBegin \/ FlushWrite
  <2>1. /\ UNCHANGED <<file, published, after>> /\ up /\ pc \in {"begin", "write"}
        /\ pc' \in {"write", "replace"} \/ pc' = after
    BY <1>8 DEF FlushBegin, FlushWrite, FlushFails, up
  <2>2. history' = history
    BY <1>1, <1>8, <2>1, SyncSelf DEF FlushBegin, FlushWrite, mem, StoreInv, StoreInStep, MemoryInStep
  <2>3. after \in {"boot", "publish", "loop", "final"}
    BY DEF StoreInv, TypeOK
  <2> QED BY <2>1, <2>2, <2>3 DEF MemoryCovers, FlushesPublished, ServedIncludesPersisted
<1>9. CASE FlushReplace
  <2>1. /\ UNCHANGED <<history, published, after>> /\ up /\ pc = "replace" /\ pc' = after
    BY <1>9 DEF FlushReplace, FlushFails, mem, up
  <2>2. file' = file \/ file'.rows = history
    BY <1>9, <2>1 DEF FlushReplace, disk, StoreInv, StoreInStep, TmpInStep, Image
  <2>3. after \in {"boot", "publish", "loop", "final"}
    BY DEF StoreInv, TypeOK
  <2>4. MemoryCovers'
    BY <1>1, <2>1, <2>2, CoversSelf DEF MemoryCovers
  <2>5. FlushesPublished' /\ (pc' = "loop" => published' = history')
    BY <2>1, <2>3 DEF FlushesPublished
  <2>6. up'
    BY <2>1, <2>3 DEF up
  <2> QED BY <2>1, <2>2, <2>4, <2>5, <2>6 DEF MemoryCovers, ServedIncludesPersisted
<1>10. CASE NextDay \/ MinutePasses \/ UNCHANGED vars
  BY <1>10 DEF NextDay, MinutePasses, vars, mem, disk, up, MemoryCovers, FlushesPublished,
               ServedIncludesPersisted
<1>11. CASE Kill
  BY <1>11 DEF Kill, disk, up, MemoryCovers, FlushesPublished, ServedIncludesPersisted
<1> QED BY <1>2, <1>3, <1>4, <1>5, <1>6, <1>7, <1>8, <1>9, <1>10, <1>11
        DEF Next, Main, Loop, Flush, World, ClockBack, Rot

(* It holds in every reachable state.                                      *)
LEMMA ServeInvCorrect ==
  ASSUME ~ClockMayGoBack, ~OpenMayFail, ~FileMayRot
  PROVE  Spec => []ServeInv
<1>1. Init => ServeInv
  BY DEF Init, ServeInv, MemoryCovers, FlushesPublished, ServedIncludesPersisted, up
<1>2. StoreInv /\ StoreInv' /\ ServeInv /\ [Next]_vars => ServeInv'
  BY ServeInvInductive
<1> QED BY <1>1, <1>2, StoreInvCorrect, PTL DEF Spec

(* A flush never undoes an earlier one, however often the core was killed  *)
(* and whatever flushes failed in between: a day of the file keeps its     *)
(* bytes until MaxDays newer ones push it out.                             *)
THEOREM PersistedBytesStay ==
  ASSUME ~ClockMayGoBack, ~OpenMayFail, ~FileMayRot
  PROVE  Spec => PersistedBytesSurvive
<1>1. StoreInv /\ StoreInv' /\ ServeInv /\ [Next]_vars
        => [\A d \in DOMAIN file.rows : Covers(file'.rows, d, file.rows[d])]_file
  BY ServeInvInductive
<1> QED BY <1>1, StoreInvCorrect, ServeInvCorrect, PTL DEF Spec, PersistedBytesSurvive

(* Whenever the loop is between two rounds, what the pipe serves has every *)
(* row of the file, with no fewer bytes.                                   *)
THEOREM ServedIncludesFile ==
  ASSUME ~ClockMayGoBack, ~OpenMayFail, ~FileMayRot
  PROVE  Spec => []ServedIncludesPersisted
<1>1. ServeInv => ServedIncludesPersisted
  BY DEF ServeInv
<1> QED BY <1>1, ServeInvCorrect, PTL
=============================================================================
