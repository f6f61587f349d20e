--------------------------- MODULE FlowCacheProofs ---------------------------
(***************************************************************************)
(* Proofs about FlowCache for any numbers, thresholds and stalls: no byte  *)
(* goes unreported, no entry of a living process is given up early, and no *)
(* total of long ago comes back.                                           *)
(***************************************************************************)
EXTENDS FlowCache, TLAPS

(* What an entry that is not there leaves behind: nothing.                 *)
AbsentIsEmpty == \A p \in Pids : ~here(p) => entries[p] = None /\ reported[p] = 0

(* Bytes that wait for a report came since the last one, and no entry is   *)
(* older than the last snapshot allowed.                                   *)
DeltaIsRecent == \A p \in Pids : entries[p].delta = 0 \/ entries[p].age <= stall
AgeBounded == \A p \in Pids : entries[p].age <= Absolute + stall

(* Identities are given once, in order.                                    *)
BornBefore == \A p \in Pids : os[p] <= born /\ entries[p].last <= born

(* A process snapshot that is not due was taken after the last tick: it    *)
(* has, or missed, every process that still runs and was last seen before  *)
(* that tick.                                                              *)
SnapshotHasOld ==
  ~snapshot_due =>
    \A p \in Pids : here(p) /\ entries[p].age > 0 /\ entries[p].last = os[p] /\ os[p] # Nobody
                      => p \in running \cup missed

FlowInv == TypeOK /\ SpeedsAddUp /\ AbsentIsEmpty /\ DeltaIsRecent /\ AgeBounded
           /\ BornBefore /\ SnapshotHasOld

-----------------------------------------------------------------------------
USE BoundsAssumption, ThresholdAssumption, StallAssumption

(* What the assumptions say of the retentions, for the arithmetic below.   *)
LEMMA ConstantTypes ==
  /\ MaxBorn \in Nat /\ MaxBytes \in Nat /\ MaxStall \in Nat /\ MaxAge \in Nat
  /\ Inactive \in Nat /\ Exited \in Nat /\ Absolute \in Nat
  /\ Exited > 0 /\ Absolute > Exited /\ MaxAge > Absolute /\ Nobody = 0
BY DEF MaxAge, Nobody

(* An age after a tick is an age.                                          *)
LEMMA OlderType == \A a \in 0..MaxAge : Older(a) \in 0..MaxAge /\ Older(a) <= a + 1 /\ Older(a) >= a
BY ConstantTypes DEF Older

(* The absent entry is an entry, with no total and no delta.               *)
LEMMA NoneType == None \in Entry /\ None.total = 0 /\ None.delta = 0 /\ None.age = 0
                  /\ None.last = 0 /\ None.here = FALSE
BY ConstantTypes DEF None, Entry, Counts, Ids, Nobody

(* The aggregator starts in the invariant.                                 *)
LEMMA InitHolds == Init => FlowInv
<1> SUFFICES ASSUME Init PROVE FlowInv
  OBVIOUS
<1>1. TypeOK
  <2>1. 0 \in Counts /\ 0 \in 0..MaxBorn /\ MaxAge \in 0..MaxAge /\ 0 \in 0..MaxStall
    BY ConstantTypes DEF Counts
  <2>2. entries \in [Pids -> Entry]
    BY NoneType DEF Init
  <2>3. Unseen \in [total : Counts, delta : Counts, status : {"none", "active", "inactive"}]
    BY <2>1 DEF Unseen
  <2> QED BY <2>1, <2>2, <2>3 DEF Init, TypeOK
<1>2. SpeedsAddUp /\ AbsentIsEmpty /\ DeltaIsRecent /\ AgeBounded /\ BornBefore
  BY NoneType, ConstantTypes DEF Init, SpeedsAddUp, AbsentIsEmpty, DeltaIsRecent, AgeBounded, BornBefore
<1>3. SnapshotHasOld
  BY DEF Init, SnapshotHasOld
<1> QED BY <1>1, <1>2, <1>3 DEF FlowInv

-----------------------------------------------------------------------------
(* One lemma per kind of step.                                             *)
LEMMA EntryFields ==
  ASSUME TypeOK, NEW p \in Pids
  PROVE  /\ entries[p] \in Entry /\ entries[p].total \in 0..MaxBytes
         /\ entries[p].delta \in 0..MaxBytes /\ entries[p].age \in 0..MaxAge
         /\ entries[p].last \in Nat /\ entries[p].here \in BOOLEAN
         /\ reported[p] \in 0..MaxBytes /\ os[p] \in 0..MaxBorn
         /\ born \in 0..MaxBorn /\ stall \in 0..MaxStall
BY ConstantTypes DEF TypeOK, Entry, Counts, Ids

(* The snapshot of processes changes only in being taken again.            *)
LEMMA ProcessSnapshot ==
  ASSUME TypeOK, maybe_refresh_process_snapshot
  PROVE  /\ running' \in SUBSET Pids /\ missed' \in SUBSET Pids /\ snapshot_due' = FALSE
         /\ Alive \subseteq running' \cup missed' \/ (~snapshot_due /\ UNCHANGED <<running, missed>>)
BY DEF TypeOK, maybe_refresh_process_snapshot, query_process_snapshot, Alive, snapshot

(* A new process, also under a number used before.                         *)
LEMMA StartsKeeps ==
  ASSUME FlowInv, NEW q \in Pids, Starts(q)
  PROVE  FlowInv'
<1> USE DEF FlowInv
<1>1. /\ UNCHANGED <<entries, published, reported, stall, running, missed, snapshot_due>>
      /\ born \in 0..MaxBorn /\ born + 1 \in 1..MaxBorn
  BY EntryFields, ConstantTypes DEF Starts, snapshot, cache
<1>2. /\ os' = [os EXCEPT ![q] = born + 1] /\ born' = born + 1
      /\ since' = [since EXCEPT ![q] = 0]
  BY DEF Starts
<1>3. TypeOK'
  BY <1>1, <1>2, ConstantTypes DEF TypeOK, Ids
<1>4. (SpeedsAddUp /\ AbsentIsEmpty /\ DeltaIsRecent /\ AgeBounded)'
  BY <1>1 DEF SpeedsAddUp, AbsentIsEmpty, DeltaIsRecent, AgeBounded, here
<1>5. BornBefore'
  BY <1>1, <1>2, EntryFields DEF BornBefore, TypeOK
<1>6. \A p \in Pids : os'[p] = IF p = q THEN born + 1 ELSE os[p]
  BY <1>2 DEF TypeOK
<1>7. entries[q].last # born + 1
  BY EntryFields DEF BornBefore
<1>8. SnapshotHasOld'
  BY <1>1, <1>6, <1>7 DEF SnapshotHasOld, here
<1> QED BY <1>3, <1>4, <1>5, <1>8

(* A process that ends; the snapshot may still have it.                    *)
LEMMA ExitsKeeps ==
  ASSUME FlowInv, NEW q \in Pids, Exits(q)
  PROVE  FlowInv'
<1> USE DEF FlowInv
<1>1. UNCHANGED <<born, entries, published, reported, stall, running, missed, snapshot_due>>
  BY DEF Exits, snapshot, cache
<1>2. /\ os' = [os EXCEPT ![q] = Nobody] /\ since' = [since EXCEPT ![q] = 0]
  BY DEF Exits
<1>3. TypeOK'
  BY <1>1, <1>2, ConstantTypes DEF TypeOK
<1>4. (SpeedsAddUp /\ AbsentIsEmpty /\ DeltaIsRecent /\ AgeBounded)'
  BY <1>1 DEF SpeedsAddUp, AbsentIsEmpty, DeltaIsRecent, AgeBounded, here
<1>5. \A p \in Pids : os'[p] = IF p = q THEN Nobody ELSE os[p]
  BY <1>2 DEF TypeOK
<1>6. BornBefore'
  BY <1>1, <1>5, EntryFields, ConstantTypes DEF BornBefore
<1>7. SnapshotHasOld'
  BY <1>1, <1>5 DEF SnapshotHasOld, here
<1> QED BY <1>3, <1>4, <1>6, <1>7

(* FlowStat::record: total and delta grow together.                        *)
LEMMA RecordKeeps ==
  ASSUME FlowInv, NEW q \in Pids, Record(q)
  PROVE  FlowInv'
<1> USE DEF FlowInv
<1>1. UNCHANGED <<os, born, since, published, reported, stall>>
  BY DEF Record, world
<1>2. entries' = [entries EXCEPT ![q] =
        [total |-> entries[q].total + 1, delta |-> entries[q].delta + 1, age |-> 0,
         last |-> os[q], here |-> TRUE]]
  BY DEF Record
<1>3. /\ running' \in SUBSET Pids /\ missed' \in SUBSET Pids /\ snapshot_due' = FALSE
      /\ Alive \subseteq running' \cup missed' \/ (~snapshot_due /\ UNCHANGED <<running, missed>>)
  BY ProcessSnapshot DEF Record
<1>4. entries[q].total < MaxBytes /\ entries[q].delta <= entries[q].total
  BY EntryFields, ConstantTypes DEF Record, SpeedsAddUp
<1> DEFINE new == [total |-> entries[q].total + 1, delta |-> entries[q].delta + 1, age |-> 0,
                   last |-> os[q], here |-> TRUE]
<1>5. new \in Entry
  <2>1. /\ entries[q].total + 1 \in Counts /\ entries[q].delta + 1 \in Counts
        /\ os[q] \in Ids \cup {Nobody} /\ 0 \in 0..MaxAge
    BY <1>4, EntryFields, ConstantTypes DEF Counts, TypeOK
  <2> QED BY <2>1 DEF Entry
<1>6. \A p \in Pids : entries'[p] = IF p = q THEN new ELSE entries[p]
  BY <1>2 DEF TypeOK
<1>7. TypeOK'
  BY <1>1, <1>2, <1>3, <1>5 DEF TypeOK
<1>8. (SpeedsAddUp /\ AbsentIsEmpty)'
  BY <1>1, <1>6, EntryFields, ConstantTypes DEF SpeedsAddUp, AbsentIsEmpty, here
<1>9. (DeltaIsRecent /\ AgeBounded /\ BornBefore)'
  BY <1>1, <1>6, EntryFields, ConstantTypes DEF DeltaIsRecent, AgeBounded, BornBefore
<1>10. SnapshotHasOld'
  BY <1>1, <1>3, <1>6 DEF SnapshotHasOld, here, Alive
<1> QED BY <1>7, <1>8, <1>9, <1>10

(* A new process snapshot, or a query that failed.                         *)
LEMMA RefreshKeeps ==
  ASSUME FlowInv, Refresh
  PROVE  FlowInv'
<1> USE DEF FlowInv
<1>1. UNCHANGED <<os, born, since, entries, published, reported, stall>>
  BY DEF Refresh, world, cache
<1>2. /\ running' \in SUBSET Pids /\ missed' \in SUBSET Pids /\ snapshot_due' = FALSE
      /\ Alive \subseteq running' \cup missed' \/ (~snapshot_due /\ UNCHANGED <<running, missed>>)
  BY ProcessSnapshot DEF Refresh
<1>3. TypeOK'
  BY <1>1, <1>2 DEF TypeOK
<1>4. (SpeedsAddUp /\ AbsentIsEmpty /\ DeltaIsRecent /\ AgeBounded /\ BornBefore)'
  BY <1>1 DEF SpeedsAddUp, AbsentIsEmpty, DeltaIsRecent, AgeBounded, BornBefore, here
<1>5. SnapshotHasOld'
  BY <1>1, <1>2 DEF SnapshotHasOld, here, Alive
<1> QED BY <1>3, <1>4, <1>5

(* A snapshot resets what it reports, and what it keeps is young enough.   *)
LEMMA SnapshotKeeps ==
  ASSUME FlowInv, Snapshot
  PROVE  FlowInv'
<1> USE DEF FlowInv
<1> DEFINE gone == OldEntries \cup LeftEntries(running')
<1>1. UNCHANGED <<os, born, since>> /\ stall' = 0 /\ Forgets(gone)
  BY DEF Snapshot, world
<1>2. /\ running' \in SUBSET Pids /\ missed' \in SUBSET Pids /\ snapshot_due' \in BOOLEAN
      /\ \/ snapshot_due' = FALSE /\ Alive \subseteq running' \cup missed'
         \/ UNCHANGED <<running, missed, snapshot_due>>
  BY ProcessSnapshot DEF Snapshot, snapshot, TypeOK, maybe_refresh_process_snapshot
<1>3. \A p \in Pids : /\ entries'[p] = IF p \in gone THEN None ELSE [entries[p] EXCEPT !.delta = 0]
                      /\ reported'[p] = IF p \in gone THEN 0 ELSE reported[p] + entries[p].delta
  BY <1>1 DEF Forgets
<1>4. \A p \in Pids : [entries[p] EXCEPT !.delta = 0] \in Entry
  BY EntryFields, ConstantTypes DEF Entry, Counts
<1>5. \A p \in Pids : p \notin gone => entries[p].age <= Absolute \/ ~here(p)
  BY EntryFields, ConstantTypes DEF OldEntries
<1>6. \A p \in Pids :
        \/ entries'[p] = None /\ reported'[p] = 0
        \/ /\ here(p) /\ p \notin gone
           /\ entries'[p].total = entries[p].total /\ entries'[p].delta = 0
           /\ entries'[p].age = entries[p].age /\ entries'[p].last = entries[p].last
           /\ entries'[p].here /\ entries[p].age <= Absolute
           /\ reported'[p] = entries[p].total
  <2> TAKE p \in Pids
  <2>1. CASE p \in gone
    BY <2>1, <1>3
  <2>2. CASE p \notin gone /\ ~here(p)
    <3>1. entries[p] = None /\ reported[p] = 0
      BY <2>2 DEF AbsentIsEmpty
    <3>2. entries'[p] = [None EXCEPT !.delta = 0] /\ reported'[p] = 0 + None.delta
      BY <2>2, <3>1, <1>3
    <3>3. [None EXCEPT !.delta = 0] = None
      BY NoneType DEF Entry
    <3> QED BY <3>1, <3>2, <3>3, NoneType
  <2>3. CASE p \notin gone /\ here(p)
    <3>1. entries'[p] = [entries[p] EXCEPT !.delta = 0] /\ reported'[p] = reported[p] + entries[p].delta
      BY <2>3, <1>3
    <3>2. entries[p].total = reported[p] + entries[p].delta
      BY DEF SpeedsAddUp
    <3>3. entries[p] \in [total : Counts, delta : Counts, age : 0..MaxAge,
                          last : Ids \cup {Nobody}, here : BOOLEAN]
      BY EntryFields DEF Entry
    <3> HIDE DEF gone
    <3> QED BY <2>3, <3>1, <3>2, <3>3, <1>5 DEF here
  <2> QED BY <2>1, <2>2, <2>3
<1>7. TypeOK'
  <2>1. entries' \in [Pids -> Entry]
    BY <1>1, <1>4, NoneType DEF Forgets
  <2>2. reported' \in [Pids -> Counts]
    <3>1. \A p \in Pids : reported'[p] \in Counts
      BY <1>6, EntryFields, ConstantTypes DEF Counts
    <3> QED BY <1>1, <3>1 DEF Forgets
  <2>3. published' \in [Pids -> [total : Counts, delta : Counts,
                                 status : {"none", "active", "inactive"}]]
    BY <1>1, EntryFields, ConstantTypes DEF Forgets, Unseen, Status, Counts
  <2>4. stall' \in 0..MaxStall
    BY <1>1, ConstantTypes
  <2> QED BY <1>1, <1>2, <2>1, <2>2, <2>3, <2>4 DEF TypeOK
<1>8. (SpeedsAddUp /\ AbsentIsEmpty)'
  BY <1>6, EntryFields, NoneType, ConstantTypes DEF SpeedsAddUp, AbsentIsEmpty, here
<1>9. (DeltaIsRecent /\ AgeBounded /\ BornBefore)'
  BY <1>1, <1>6, EntryFields, NoneType, ConstantTypes DEF DeltaIsRecent, AgeBounded, BornBefore
<1>10. SnapshotHasOld'
  BY <1>1, <1>2, <1>6, NoneType DEF SnapshotHasOld, here, Alive
<1> QED BY <1>7, <1>8, <1>9, <1>10

(* Time passes: ages grow, the process snapshot becomes due.               *)
LEMMA TickKeeps ==
  ASSUME FlowInv, Tick
  PROVE  FlowInv'
<1> USE DEF FlowInv
<1>1. /\ UNCHANGED <<os, born, running, missed, published, reported>>
      /\ stall' = stall + 1 /\ stall < MaxStall /\ snapshot_due' = TRUE
      /\ since' = [p \in Pids |-> Older(since[p])]
  BY DEF Tick
<1>2. entries' = [p \in Pids |-> IF here(p) THEN [entries[p] EXCEPT !.age = Older(@)] ELSE None]
  BY DEF Tick
<1>3. \A p \in Pids : /\ [entries[p] EXCEPT !.age = Older(@)] \in Entry
                      /\ Older(entries[p].age) <= entries[p].age + 1
  BY EntryFields, OlderType DEF Entry
<1>4. \A p \in Pids :
        \/ entries'[p] = None /\ reported[p] = 0
        \/ /\ here(p) /\ entries'[p].here
           /\ entries'[p].total = entries[p].total /\ entries'[p].delta = entries[p].delta
           /\ entries'[p].age <= entries[p].age + 1 /\ entries'[p].last = entries[p].last
  <2> TAKE p \in Pids
  <2>1. CASE here(p)
    <3>1. entries'[p] = [entries[p] EXCEPT !.age = Older(@)]
      BY <2>1, <1>2
    <3> QED BY <2>1, <3>1, <1>3, EntryFields DEF here, Entry
  <2>2. CASE ~here(p)
    BY <2>2, <1>2 DEF AbsentIsEmpty
  <2> QED BY <2>1, <2>2
<1>5. TypeOK'
  <2>1. entries' \in [Pids -> Entry]
    BY <1>2, <1>3, NoneType
  <2>2. since' \in [Pids -> 0..MaxAge]
    BY <1>1, OlderType DEF TypeOK
  <2>3. stall' \in 0..MaxStall
    BY <1>1, ConstantTypes DEF TypeOK
  <2> QED BY <1>1, <2>1, <2>2, <2>3 DEF TypeOK
<1>6. (SpeedsAddUp /\ AbsentIsEmpty)'
  BY <1>1, <1>4, NoneType DEF SpeedsAddUp, AbsentIsEmpty, here
<1>7. \A p \in Pids : entries'[p].age \in Nat
  BY <1>5, ConstantTypes DEF TypeOK, Entry
<1>8. (DeltaIsRecent /\ AgeBounded)'
  BY <1>1, <1>4, <1>7, EntryFields, NoneType, ConstantTypes DEF DeltaIsRecent, AgeBounded
<1>9. BornBefore'
  BY <1>1, <1>4, EntryFields, NoneType DEF BornBefore
<1>10. SnapshotHasOld'
  BY <1>1 DEF SnapshotHasOld
<1> QED BY <1>5, <1>6, <1>8, <1>9, <1>10

(* One step of the aggregator, by the lemmas on its actions.               *)
LEMMA FlowInvInductive ==
  ASSUME FlowInv, [Next]_vars
  PROVE  FlowInv'
<1>1. CASE \E p \in Pids : Starts(p) \/ Exits(p) \/ Record(p)
  BY <1>1, StartsKeeps, ExitsKeeps, RecordKeeps
<1>2. CASE Refresh \/ Snapshot \/ Tick
  BY <1>2, RefreshKeeps, SnapshotKeeps, TickKeeps
<1>3. CASE FiveSeconds
  BY <1>3 DEF FiveSeconds, world, cache, FlowInv, TypeOK, SpeedsAddUp, AbsentIsEmpty,
              DeltaIsRecent, AgeBounded, BornBefore, SnapshotHasOld, here
<1>4. CASE UNCHANGED vars
  BY <1>4 DEF vars, world, snapshot, cache, FlowInv, TypeOK, SpeedsAddUp, AbsentIsEmpty,
              DeltaIsRecent, AgeBounded, BornBefore, SnapshotHasOld, here
<1> QED BY <1>1, <1>2, <1>3, <1>4 DEF Next

(* The strengthened invariant, of which the rest are consequences.         *)
THEOREM FlowInvCorrect == Spec => []FlowInv
BY InitHolds, FlowInvInductive, PTL DEF Spec

(* Speeds add up to totals for every number, every stall and every size of *)
(* history: no delta is lost or counted twice by record and snapshot.      *)
THEOREM SpeedsAddUpAlways == Spec => []SpeedsAddUp
<1>1. FlowInv => SpeedsAddUp
  BY DEF FlowInv
<1> QED BY <1>1, FlowInvCorrect, PTL

-----------------------------------------------------------------------------
(* Only a snapshot gives up an entry, and says why.                        *)
LEMMA GivenUp ==
  ASSUME FlowInv, Next, NEW p \in Pids, here(p), ~here(p)'
  PROVE  /\ Snapshot
         /\ entries[p].age > Exited
         /\ entries[p].age > Absolute \/ p \notin running'
<1> USE DEF FlowInv
<1>1. entries'[p] # entries[p]
  BY DEF here
<1>2. ASSUME NEW q \in Pids, Starts(q) \/ Exits(q) PROVE FALSE
  BY <1>1, <1>2 DEF Starts, Exits, cache
<1>3. ASSUME NEW q \in Pids, Record(q) PROVE FALSE
  BY <1>3 DEF Record, here, TypeOK
<1>4. ~Refresh /\ ~FiveSeconds
  BY <1>1 DEF Refresh, FiveSeconds, cache
<1>5. ~Tick
  BY EntryFields DEF Tick, here, Entry
<1>6. Snapshot
  BY <1>2, <1>3, <1>4, <1>5 DEF Next
<1>7. p \in OldEntries \cup LeftEntries(running')
  BY <1>6, EntryFields DEF Snapshot, Forgets, here, Entry
<1> QED BY <1>6, <1>7, EntryFields, ConstantTypes DEF OldEntries, LeftEntries

(* Whatever the stalls: an entry given up has been reported to the last    *)
(* byte, unless no snapshot came for longer than the retention.            *)
THEOREM NothingForgottenUnreported == Spec => ReportedBeforeForgotten
<1>1. ASSUME FlowInv, [Next]_vars
      PROVE [\A p \in Pids : here(p) /\ ~here(p)' => entries[p].delta = 0 \/ stall > Exited]_cache
  <2> SUFFICES ASSUME cache' # cache, NEW p \in Pids, here(p), ~here(p)'
               PROVE  entries[p].delta = 0 \/ stall > Exited
    OBVIOUS
  <2>1. Next
    BY <1>1 DEF vars
  <2>2. entries[p].age > Exited
    BY <1>1, <2>1, GivenUp
  <2> QED BY <1>1, <2>2, EntryFields, ConstantTypes DEF FlowInv, DeltaIsRecent
<1> QED BY <1>1, FlowInvCorrect, PTL DEF Spec, ReportedBeforeForgotten

(* The process snapshot is never so old that it misses a process with an   *)
(* entry past its retention: only one that failed or was cut short before  *)
(* the process costs the entry.                                            *)
THEOREM AliveIsKept == Spec => AliveKept
<1>1. ASSUME FlowInv, [Next]_vars
      PROVE [\A p \in Pids : here(p) /\ ~here(p)' /\ entries[p].age <= Absolute
                       => entries[p].last # os[p] \/ os[p] = Nobody \/ p \in missed']_cache
  <2> SUFFICES ASSUME cache' # cache, NEW p \in Pids, here(p), ~here(p)',
                      entries[p].age <= Absolute,
                      entries[p].last = os[p], os[p] # Nobody, p \notin missed'
               PROVE  FALSE
    OBVIOUS
  <2>1. Next
    BY <1>1 DEF vars
  <2>2. Snapshot /\ entries[p].age > Exited /\ p \notin running'
    BY <1>1, <2>1, GivenUp, EntryFields, ConstantTypes DEF FlowInv
  <2>3. p \in LeftEntries({}) \ OldEntries
    BY <1>1, <2>2, EntryFields, ConstantTypes DEF FlowInv, LeftEntries, OldEntries
  <2>4. maybe_refresh_process_snapshot
    BY <2>2, <2>3 DEF Snapshot
  <2>5. CASE Alive \subseteq running' \cup missed'
    BY <2>2, <2>5 DEF Alive
  <2>6. CASE ~snapshot_due /\ UNCHANGED <<running, missed>>
    BY <1>1, <2>2, <2>6, EntryFields, ConstantTypes DEF FlowInv, SnapshotHasOld
  <2> QED BY <1>1, <2>4, <2>5, <2>6, ProcessSnapshot DEF FlowInv
<1> QED BY <1>1, FlowInvCorrect, PTL DEF Spec, AliveKept

(* No entry that a packet finds is older than the absolute retention and   *)
(* the time without snapshots: totals of long ago do not come back.        *)
THEOREM NoTotalsOfLongAgo == Spec => NoOldTotals
<1>1. ASSUME FlowInv
      PROVE [\A p \in Pids : here(p) /\ entries'[p].total > entries[p].total
                       => entries[p].age <= Absolute + stall]_cache
  BY <1>1 DEF FlowInv, AgeBounded
<1> QED BY <1>1, FlowInvCorrect, PTL DEF NoOldTotals
=============================================================================
