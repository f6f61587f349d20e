--------------------------- MODULE PidMapperProofs ---------------------------
(***************************************************************************)
(* Proofs about PidMapper for any numbers of processes and any ages of the *)
(* caches: a name or category outlives its process by no more than the age *)
(* of the caches it rests on.                                              *)
(***************************************************************************)
EXTENDS PidMapper, TLAPS

(* p has had its process for longer than a cache of this age, so nothing   *)
(* in the cache comes from the process before.                             *)
Settled(p, age) == os[p] # Nobody /\ since[p] > age

NamesSettled ==
  \A p \in Pids : /\ names[p] # NoName => names[p].exe # Nobody
                  /\ Settled(p, cache_age) => names[p].exe \in {Nobody, Unnamed, os[p]}

PathsSettled ==
  \A p \in Pids : Settled(p, cache_age) /\ cats[p] \in {"system", "user"}
                    => cats[p] = classify_by_path(os[p])

TableSettled ==
  service_age < Overdue =>
    \A p \in Pids : Settled(p, service_age) /\ service_pids[p] # Nobody => os[p] \in services

(* A category of a service was looked up in a table of up to ServiceTtl.   *)
ServicesSettled ==
  \A p \in Pids : Settled(p, cache_age + ServiceTtl) /\ cats[p] = "service"
                    => os[p] \in services

MapperInv == TypeOK /\ NamesSettled /\ PathsSettled /\ TableSettled /\ ServicesSettled

-----------------------------------------------------------------------------
USE BornAssumption, TtlAssumption, PathAssumption

(* What the assumptions say of the lifetimes, for the arithmetic below.    *)
LEMMA ConstantTypes ==
  /\ MaxBorn \in Nat /\ CacheTtl \in Nat /\ CacheTtl > 0 /\ ServiceTtl \in Nat
  /\ MaxAge = CacheTtl + ServiceTtl + 1 /\ MaxAge \in Nat
  /\ Overdue = ServiceTtl + 1 /\ Overdue \in Nat
  /\ Nobody = 0 /\ Unnamed = MaxBorn + 1 /\ Ids = 1..MaxBorn
  /\ Nobody \notin Ids /\ Unnamed \notin Ids /\ Unnamed # Nobody
BY DEF MaxAge, Overdue, Nobody, Unnamed, Ids

(* An age after a tick is an age.                                          *)
LEMMA OlderType ==
  \A m \in Nat : \A a \in 0..m : /\ Older(a, m) \in 0..m
                                 /\ Older(a, m) = IF a < m THEN a + 1 ELSE a
BY DEF Older

(* What is kept for a number, with its ages.                               *)
LEMMA Fields ==
  ASSUME TypeOK, NEW p \in Pids
  PROVE  /\ os[p] \in Ids \cup {Nobody} /\ since[p] \in 0..MaxAge
         /\ names[p] \in Names /\ cats[p] \in Categories
         /\ names[p].exe \in Identities \cup {Unnamed}
         /\ service_pids[p] \in Identities
         /\ cache_age \in 0..MaxAge /\ service_age \in 0..Overdue
BY DEF TypeOK, Identities, Names

(* The name of nobody is a name, and no process's.                         *)
LEMMA NoNameType == NoName \in Names /\ NoName.exe = Nobody
BY DEF NoName, Names, Identities

(* classify_by_path gives one of three categories, and the first where     *)
(* there is no path.                                                       *)
LEMMA PathType ==
  /\ \A e \in Ids \cup {Nobody, Unnamed} : classify_by_path(e) \in {"unknown", "system", "user"}
  /\ classify_by_path(Unnamed) = "unknown"
BY ConstantTypes DEF classify_by_path

(* The caches start in the invariant: they are empty.                      *)
LEMMA InitHolds == Init => MapperInv
<1> SUFFICES ASSUME Init PROVE MapperInv
  OBVIOUS
<1>1. TypeOK
  <2>1. /\ MaxAge \in 0..MaxAge /\ 0 \in 0..MaxBorn /\ 0 \in 0..MaxAge /\ 0 \in 0..Overdue
        /\ Nobody \in Identities /\ "none" \in Categories
    BY ConstantTypes DEF Identities, Categories
  <2> QED BY <2>1, NoNameType DEF Init, TypeOK
<1>2. NamesSettled /\ PathsSettled /\ TableSettled /\ ServicesSettled
  BY DEF Init, NamesSettled, PathsSettled, TableSettled, ServicesSettled, Settled
<1> QED BY <1>1, <1>2 DEF MapperInv

-----------------------------------------------------------------------------
(* A new process, also under a number used before.                         *)
LEMMA StartsKeeps ==
  ASSUME MapperInv, NEW q \in Pids, Starts(q)
  PROVE  MapperInv'
<1> USE DEF MapperInv
<1>1. /\ UNCHANGED <<names, cats, cache_age, service_pids, service_age, index, index_due>>
      /\ os' = [os EXCEPT ![q] = born + 1] /\ since' = [since EXCEPT ![q] = 0]
      /\ born' = born + 1 /\ born + 1 \in Ids
      /\ services \subseteq services' /\ services' \in SUBSET Ids
  BY ConstantTypes DEF Starts, caches, queried, tables, TypeOK
<1>2. TypeOK'
  <2>1. born' \in 0..MaxBorn
    BY <1>1, ConstantTypes
  <2>2. os' \in [Pids -> Identities] /\ since' \in [Pids -> 0..MaxAge]
    BY <1>1, ConstantTypes DEF TypeOK, Identities
  <2> QED BY <1>1, <2>1, <2>2 DEF TypeOK
<1>3. ASSUME NEW p \in Pids PROVE
        /\ p = q => since'[p] = 0
        /\ p # q => os'[p] = os[p] /\ since'[p] = since[p]
  BY <1>1 DEF TypeOK
<1>4. \A p \in Pids : /\ Settled(p, cache_age)' => p # q /\ Settled(p, cache_age)
                      /\ Settled(p, service_age)' => p # q /\ Settled(p, service_age)
                      /\ Settled(p, cache_age + ServiceTtl)' => p # q /\ Settled(p, cache_age + ServiceTtl)
  BY <1>1, <1>3, Fields, ConstantTypes DEF Settled
<1>5. (NamesSettled /\ PathsSettled)'
  BY <1>1, <1>3, <1>4 DEF NamesSettled, PathsSettled
<1>6. (TableSettled /\ ServicesSettled)'
  BY <1>1, <1>3, <1>4 DEF TableSettled, ServicesSettled
<1> QED BY <1>2, <1>5, <1>6

(* A process that ends; the caches do not notice.                          *)
LEMMA ExitsKeeps ==
  ASSUME MapperInv, NEW q \in Pids, Exits(q)
  PROVE  MapperInv'
<1> USE DEF MapperInv
<1>1. /\ UNCHANGED <<services, born, names, cats, cache_age, service_pids, service_age,
                     index, index_due>>
      /\ os' = [os EXCEPT ![q] = Nobody] /\ since' = [since EXCEPT ![q] = 0]
  BY DEF Exits, caches, queried, tables
<1>2. TypeOK'
  BY <1>1, ConstantTypes DEF TypeOK, Identities
<1>3. ASSUME NEW p \in Pids PROVE
        /\ p = q => os'[p] = Nobody
        /\ p # q => os'[p] = os[p] /\ since'[p] = since[p]
  BY <1>1 DEF TypeOK
<1>4. \A p \in Pids : /\ Settled(p, cache_age)' => p # q /\ Settled(p, cache_age)
                      /\ Settled(p, service_age)' => p # q /\ Settled(p, service_age)
                      /\ Settled(p, cache_age + ServiceTtl)' => p # q /\ Settled(p, cache_age + ServiceTtl)
  BY <1>1, <1>3 DEF Settled
<1>5. (NamesSettled /\ PathsSettled)'
  BY <1>1, <1>3, <1>4 DEF NamesSettled, PathsSettled
<1>6. (TableSettled /\ ServicesSettled)'
  BY <1>1, <1>3, <1>4 DEF TableSettled, ServicesSettled
<1> QED BY <1>2, <1>5, <1>6

(* Nothing is older than the clear that has just been.                     *)
LEMMA RefreshKeeps ==
  ASSUME MapperInv, Refresh
  PROVE  MapperInv'
<1> USE DEF MapperInv
<1>1. UNCHANGED <<os, services, born, since, service_pids, service_age>>
  BY DEF Refresh, world, queried
<1>2. index' \in SUBSET Pids /\ index_due' \in BOOLEAN
  BY DEF Refresh, RefreshTables, rebuild_table_indexes, tables, TypeOK
<1>3. TableSettled'
  BY <1>1 DEF TableSettled, Settled
<1>4. CASE /\ names' = [p \in Pids |-> NoName] /\ cats' = [p \in Pids |-> "none"]
           /\ cache_age' = 0
  <2>1. TypeOK'
    BY <1>1, <1>2, <1>4, NoNameType, ConstantTypes DEF TypeOK, Categories
  <2>2. (NamesSettled /\ PathsSettled /\ ServicesSettled)'
    BY <1>4, NoNameType DEF NamesSettled, PathsSettled, ServicesSettled
  <2> QED BY <1>3, <2>1, <2>2
<1>5. CASE UNCHANGED caches
  <2>1. TypeOK'
    BY <1>1, <1>2, <1>5 DEF TypeOK, caches
  <2>2. (NamesSettled /\ PathsSettled /\ ServicesSettled)'
    BY <1>1, <1>5 DEF NamesSettled, PathsSettled, ServicesSettled, Settled, caches
  <2> QED BY <1>3, <2>1, <2>2
<1> QED BY <1>4, <1>5 DEF Refresh

(* A name is the process's own or "PID:n" when it is cached, and a         *)
(* category comes from that name or from a table no older than ServiceTtl. *)
LEMMA PacketKeeps ==
  ASSUME MapperInv, NEW q \in Pids, Packet(q)
  PROVE  MapperInv'
<1> USE DEF MapperInv
<1>0. PICK name \in get_process_name(q) :
        /\ names' = [names EXCEPT ![q] = name]
        /\ IF cats[q] = "none" /\ service_age > ServiceTtl
           THEN service_pids' \in query_service_pids /\ service_age' = 0
           ELSE UNCHANGED queried
        /\ cats' = [cats EXCEPT ![q] =
                      IF @ = "none" THEN classify_pid(q, service_pids', name) ELSE @]
  BY DEF Packet
<1> DEFINE cat == IF cats[q] = "none" THEN classify_pid(q, service_pids', name) ELSE cats[q]
<1>1. /\ UNCHANGED <<os, services, born, since, cache_age, index, index_due>>
      /\ names' = [names EXCEPT ![q] = name]
      /\ cats' = [cats EXCEPT ![q] = cat]
  BY <1>0 DEF Packet, world, tables
<1>2. \/ service_pids' \in {Running, NoServices} /\ service_age' = 0
      \/ /\ UNCHANGED <<service_pids, service_age>>
         /\ cats[q] # "none" \/ ~(service_age > ServiceTtl)
  BY <1>0 DEF query_service_pids, queried
<1>3. service_pids' \in [Pids -> Identities] /\ service_age' \in 0..Overdue
  BY <1>2, ConstantTypes DEF TypeOK, Running, NoServices, Identities
<1>4. /\ name \in Names /\ name.exe # Nobody
      /\ Settled(q, cache_age) => name.exe \in {Unnamed, os[q]}
  <2>1. CASE names[q] # NoName
    <3>1. name = names[q]
      BY <1>0, <2>1 DEF get_process_name
    <3> QED BY <2>1, <3>1, Fields DEF NamesSettled
  <2>2. CASE names[q] = NoName
    <3>1. PICK exe \in get_process_name_and_path(q) :
            name = [display |-> service_pids[q], exe |-> exe]
      BY <1>0, <2>2 DEF get_process_name
    <3>2. /\ exe \in {Unnamed, os[q]} /\ exe # Nobody
          /\ exe \in Identities \cup {Unnamed}
      BY Fields, ConstantTypes DEF get_process_name_and_path, Identities
    <3> QED BY <3>1, <3>2, Fields DEF Names
  <2> QED BY <2>1, <2>2
<1>5. name.exe \in Ids \cup {Unnamed}
  BY <1>4 DEF Names, Identities
<1>6. cat \in Categories
  BY <1>5, PathType, Fields DEF classify_pid, Categories
<1>7. TypeOK'
  <2>1. names' \in [Pids -> Names] /\ cats' \in [Pids -> Categories]
    BY <1>1, <1>4, <1>6 DEF TypeOK
  <2> QED BY <1>1, <1>3, <2>1 DEF TypeOK
<1>8. \A p \in Pids : /\ names'[p] = IF p = q THEN name ELSE names[p]
                      /\ cats'[p] = IF p = q THEN cat ELSE cats[p]
  BY <1>1 DEF TypeOK
<1>9. \A p \in Pids : /\ Settled(p, cache_age)' <=> Settled(p, cache_age)
                      /\ Settled(p, cache_age + ServiceTtl)' <=> Settled(p, cache_age + ServiceTtl)
  BY <1>1 DEF Settled
<1>10. NamesSettled'
  BY <1>1, <1>4, <1>8, <1>9 DEF NamesSettled
<1>11. TableSettled'
  BY <1>1, <1>2, <1>3 DEF TableSettled, Settled, Running, NoServices
<1>12. PathsSettled'
  <2>1. Settled(q, cache_age) /\ cat \in {"system", "user"} => cat = classify_by_path(os[q])
    BY <1>4, PathType DEF classify_pid, PathsSettled
  <2> QED BY <1>1, <1>8, <1>9, <2>1 DEF PathsSettled
<1>13. ServicesSettled'
  <2>1. ASSUME Settled(q, cache_age + ServiceTtl), cat = "service" PROVE os[q] \in services
    <3>1. CASE cats[q] = "service"
      BY <2>1, <3>1 DEF ServicesSettled
    <3>2. CASE cats[q] = "none"
      <4>1. service_pids'[q] # Nobody
        BY <2>1, <3>2, <1>5, PathType DEF classify_pid
      <4>2. ~(service_age' > ServiceTtl)
        BY <1>2, <3>2, ConstantTypes
      <4>3. since[q] > service_age' /\ service_age' < Overdue
        BY <2>1, <4>2, <1>3, Fields, ConstantTypes DEF Settled
      <4> QED BY <1>1, <1>11, <2>1, <4>1, <4>3 DEF TableSettled, Settled
    <3> QED BY <2>1, <3>1, <3>2
  <2> QED BY <1>1, <1>8, <1>9, <2>1 DEF ServicesSettled
<1> QED BY <1>7, <1>10, <1>11, <1>12, <1>13

(* A process and a cache grow older together.                              *)
LEMMA TickKeeps ==
  ASSUME MapperInv, Tick
  PROVE  MapperInv'
<1> USE DEF MapperInv
<1>1. /\ UNCHANGED <<os, services, born, names, cats, service_pids, index>>
      /\ since' = [p \in Pids |-> Older(since[p], MaxAge)] /\ index_due' = TRUE
      /\ cache_age' = Older(cache_age, MaxAge)
      /\ service_age' = Older(service_age, Overdue)
  BY DEF Tick
<1>2. TypeOK'
  BY <1>1, OlderType, ConstantTypes DEF TypeOK
<1>3. /\ cache_age' = IF cache_age < MaxAge THEN cache_age + 1 ELSE cache_age
      /\ service_age' = IF service_age < Overdue THEN service_age + 1 ELSE service_age
      /\ cache_age \in 0..MaxAge /\ service_age \in 0..Overdue
  BY <1>1, OlderType, ConstantTypes DEF TypeOK
<1>4. \A p \in Pids : /\ Settled(p, cache_age)' => Settled(p, cache_age)
                      /\ service_age' < Overdue =>
                           (Settled(p, service_age)' => Settled(p, service_age))
                      /\ Settled(p, cache_age + ServiceTtl)' => Settled(p, cache_age + ServiceTtl)
  <2> TAKE p \in Pids
  <2>1. since'[p] = IF since[p] < MaxAge THEN since[p] + 1 ELSE since[p]
    BY <1>1, OlderType, Fields, ConstantTypes
  <2> QED BY <1>1, <1>3, <2>1, Fields, ConstantTypes DEF Settled
<1>5. (NamesSettled /\ PathsSettled /\ ServicesSettled)'
  BY <1>1, <1>4 DEF NamesSettled, PathsSettled, ServicesSettled
<1>6. TableSettled'
  <2>1. service_age' < Overdue => service_age < Overdue
    BY <1>3, ConstantTypes
  <2> QED BY <1>1, <1>4, <2>1 DEF TableSettled
<1> QED BY <1>2, <1>5, <1>6

(* One step of the mapper, by the lemmas on its actions.                   *)
LEMMA MapperInvInductive ==
  ASSUME MapperInv, [Next]_vars
  PROVE  MapperInv'
<1>1. CASE \E p \in Pids : Starts(p) \/ Exits(p) \/ Packet(p)
  BY <1>1, StartsKeeps, ExitsKeeps, PacketKeeps
<1>2. CASE Refresh \/ Tick
  BY <1>2, RefreshKeeps, TickKeeps
<1>3. CASE HalfSecond
  BY <1>3 DEF HalfSecond, world, caches, queried, MapperInv, TypeOK, NamesSettled,
              PathsSettled, TableSettled, ServicesSettled, Settled
<1>4. CASE UNCHANGED vars
  BY <1>4 DEF vars, world, caches, queried, tables, MapperInv, TypeOK, NamesSettled,
              PathsSettled, TableSettled, ServicesSettled, Settled
<1> QED BY <1>1, <1>2, <1>3, <1>4 DEF Next

(* The strengthened invariant: a cache holds nothing of a process that had *)
(* the number before the cache was last cleared.                           *)
THEOREM MapperInvCorrect == Spec => []MapperInv
BY InitHolds, MapperInvInductive, PTL DEF Spec

(* For every number of processes and every PID_CACHE_TTL: clearing the     *)
(* caches periodically is enough against reused numbers, whatever name     *)
(* queries are refused and however late the main loop comes round.         *)
THEOREM ExeNamesAreFresh == Spec => []ExeNameFresh
<1>1. MapperInv => ExeNameFresh
  BY Fields, ConstantTypes DEF MapperInv, NamesSettled, Settled, OldestName, ExeNameFresh
<1> QED BY <1>1, MapperInvCorrect, PTL

(* A category rests on two caches and is fresh after the age of both.      *)
THEOREM CategoriesAreFresh == Spec => []CategoryFresh
<1>1. MapperInv => CategoryFresh
  <2> SUFFICES ASSUME MapperInv, NEW p \in Pids, os[p] # Nobody, since[p] > OldestName
               PROVE  /\ cats[p] \in {"system", "user"} => cats[p] = classify_by_path(os[p])
                      /\ cats[p] = "service" /\ since[p] > OldestName + ServiceTtl => os[p] \in services
    BY DEF CategoryFresh
  <2>1. /\ Settled(p, cache_age)
        /\ since[p] > OldestName + ServiceTtl => Settled(p, cache_age + ServiceTtl)
    BY Fields, ConstantTypes DEF MapperInv, Settled, OldestName
  <2> QED BY <2>1 DEF MapperInv, PathsSettled, ServicesSettled
<1> QED BY <1>1, MapperInvCorrect, PTL
=============================================================================
