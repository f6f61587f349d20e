------------------------------ MODULE PidMapper ------------------------------
(***************************************************************************)
(* The names and categories of PidMapper (rust_core/src/process/           *)
(* pid_map.rs) against the processes that come and go under it: Windows    *)
(* gives the number of a process that has ended to a new one, while the    *)
(* mapper keeps, each at its own age,                                      *)
(*                                                                         *)
(*   process_names, _paths, _categories   cleared together every 60 s      *)
(*   service_pids                         queried again when a category is *)
(*                                        looked up and they are over 30 s *)
(*   the TCP and UDP indexes              queried again after 500 ms       *)
(*                                                                         *)
(* One tick is 30 s; the half second may be over at any moment.  A process *)
(* is an identity, which stands for its exe name and its path.             *)
(* process_packet (main.rs) asks for name and category in one go.  The     *)
(* process snapshot (running and parent pids) is in FlowCache.             *)
(***************************************************************************)
EXTENDS Naturals, FiniteSets

CONSTANTS
  Pids,       \* process numbers
  MaxBorn,    \* processes that ever start (a bound)
  CacheTtl,   \* PID_CACHE_TTL, in ticks
  ServiceTtl, \* the age service_pids is used up to, in ticks
  InWindows   \* the processes whose path is under \Windows\

ASSUME BornAssumption == MaxBorn \in Nat
ASSUME TtlAssumption == CacheTtl \in Nat \ {0} /\ ServiceTtl \in Nat

Ids == 1..MaxBorn
ASSUME PathAssumption == InWindows \subseteq Ids
Nobody == 0             \* no process, no service, nothing cached
Unnamed == MaxBorn + 1  \* "PID:n" and an empty path: the system would not say

(* Ages are counted no further than any property looks, and that of        *)
(* service_pids no further than the code does.                             *)
MaxAge == CacheTtl + ServiceTtl + 1
Overdue == ServiceTtl + 1
Older(a, limit) == IF a < limit THEN a + 1 ELSE a

VARIABLES
  os,           \* the process running under each number, or Nobody
  services,     \* those of the processes ever born that are services
  born,         \* processes born so far
  since,        \* ticks since os changed for a number
  names,        \* process_names and process_paths
  cats,         \* process_categories
  cache_age,    \* pid_cache_last_clear.elapsed()
  service_pids, \* the service last seen under each number, or Nobody
  service_age,  \* service_pids_last_refresh.elapsed()
  index,        \* numbers that own a row of the cached connection tables
  index_due     \* table_cache_last_refresh is 500 ms ago

world == <<os, services, born, since>>
caches == <<names, cats, cache_age>>
queried == <<service_pids, service_age>>
tables == <<index, index_due>>
vars == <<world, caches, queried, tables>>

(* A name is the display name of a service or the exe name of a process.   *)
NoName == [display |-> Nobody, exe |-> Nobody]

Init == /\ os = [p \in Pids |-> Nobody] /\ services = {} /\ born = 0
        /\ since = [p \in Pids |-> MaxAge]
        /\ names = [p \in Pids |-> NoName]
        /\ cats = [p \in Pids |-> "none"]
        /\ cache_age = 0
        /\ service_pids = [p \in Pids |-> Nobody] /\ service_age = 0
        /\ index = {} /\ index_due = FALSE

-----------------------------------------------------------------------------
(* The system: a new process under a free number, a service or not.        *)
Starts(p) == /\ os[p] = Nobody /\ born < MaxBorn
             /\ born' = born + 1
             /\ os' = [os EXCEPT ![p] = born + 1]
             /\ services' \in {services, services \cup {born + 1}}
             /\ since' = [since EXCEPT ![p] = 0]
             /\ UNCHANGED <<caches, queried, tables>>

Exits(p) == /\ os[p] # Nobody
            /\ os' = [os EXCEPT ![p] = Nobody]
            /\ since' = [since EXCEPT ![p] = 0]
            /\ UNCHANGED <<services, born, caches, queried, tables>>

-----------------------------------------------------------------------------
(* The queries: what the system says now.  One of the service manager may  *)
(* fail, and then it says that there are no services.                      *)
Running == [p \in Pids |-> IF os[p] \in services THEN os[p] ELSE Nobody]
NoServices == [p \in Pids |-> Nobody]

query_service_pids == {Running, NoServices}

(* Any of the running processes may have connections; a table that grows   *)
(* between the query of its size and the query of its rows is left empty.  *)
rebuild_table_indexes == index' \in SUBSET {p \in Pids : os[p] # Nobody}

(* The exe name and the path, from up to two ways of opening the process.  *)
(* Both fail for a number without one; for one that runs, opening it or    *)
(* asking for its file may be refused as well, and the answer is the same. *)
get_process_name_and_path(p) == {Unnamed} \cup ({os[p]} \ {Nobody})

(* get_process_name: what is cached, else a query, and the display name of *)
(* service_pids whatever its age.  A refused query is cached like another. *)
get_process_name(p) ==
  IF names[p] # NoName THEN {names[p]}
  ELSE {[display |-> service_pids[p], exe |-> exe] : exe \in get_process_name_and_path(p)}

(* The path is empty where there was no answer.                            *)
classify_by_path(exe) == CASE exe = Unnamed      -> "unknown"
                           [] exe \in InWindows -> "system"
                           [] OTHER              -> "user"

(* classify_pid: a service by service_pids, else by the path, which was    *)
(* cached with the name.                                                   *)
classify_pid(p, table, name) ==
  IF table[p] # Nobody THEN "service" ELSE classify_by_path(name.exe)

RefreshTables == IF index_due THEN rebuild_table_indexes /\ index_due' = FALSE
                              ELSE UNCHANGED tables

-----------------------------------------------------------------------------
Refresh_KeepsNames ==
  /\ RefreshTables
  /\ IF cache_age >= CacheTtl
     THEN /\ cats' = [p \in Pids |-> "none"]
          /\ cache_age' = 0
          /\ UNCHANGED names
     ELSE UNCHANGED caches
  /\ UNCHANGED <<world, queried>>

Refresh_KeepsCategories ==
  /\ RefreshTables
  /\ IF cache_age >= CacheTtl
     THEN /\ names' = [p \in Pids |-> NoName]
          /\ cache_age' = 0
          /\ UNCHANGED cats
     ELSE UNCHANGED caches
  /\ UNCHANGED <<world, queried>>

(* maybe_refresh_tables, once per iteration of the main loop.              *)
Refresh ==
  /\ RefreshTables
  /\ IF cache_age >= CacheTtl
     THEN /\ names' = [p \in Pids |-> NoName]
          /\ cats' = [p \in Pids |-> "none"]
          /\ cache_age' = 0
     ELSE UNCHANGED caches
  /\ UNCHANGED <<world, queried>>

Packet_NoServiceRefresh(p) ==
  /\ p \in index
  /\ \E name \in get_process_name(p) :
       /\ names' = [names EXCEPT ![p] = name]
       /\ cats' = [cats EXCEPT ![p] =
                     IF @ = "none" THEN classify_pid(p, service_pids, name) ELSE @]
  /\ UNCHANGED <<world, cache_age, queried, tables>>

(* process_packet of a packet the index gives to p: the category is looked *)
(* up after the name, and unless it is cached service_pids with it.        *)
Packet(p) ==
  /\ p \in index
  /\ \E name \in get_process_name(p) :
       /\ names' = [names EXCEPT ![p] = name]
       /\ IF cats[p] = "none" /\ service_age > ServiceTtl
          THEN service_pids' \in query_service_pids /\ service_age' = 0
          ELSE UNCHANGED queried
       /\ cats' = [cats EXCEPT ![p] =
                     IF @ = "none" THEN classify_pid(p, service_pids', name) ELSE @]
  /\ UNCHANGED <<world, cache_age, tables>>

-----------------------------------------------------------------------------
(* Time.  It does not wait for the main loop, which may stay in a drain of *)
(* the packet channel while caches are due.                                *)
HalfSecond == /\ ~index_due
              /\ index_due' = TRUE
              /\ UNCHANGED <<world, caches, queried, index>>

Tick == /\ since' = [p \in Pids |-> Older(since[p], MaxAge)]
        /\ cache_age' = Older(cache_age, MaxAge)
        /\ service_age' = Older(service_age, Overdue)
        /\ index_due' = TRUE
        /\ UNCHANGED <<os, services, born, names, cats, service_pids, index>>

Next == \/ \E p \in Pids : Starts(p) \/ Exits(p) \/ Packet(p)
        \/ Refresh \/ HalfSecond \/ Tick

Spec == Init /\ [][Next]_vars

(* Time goes on; a process with connections has traffic, again and again.  *)
(* That the main loop comes round is left to the property that needs it.   *)
FairSpec == /\ Spec
            /\ WF_vars(Tick)
            /\ \A p \in Pids : SF_vars(Packet(p))

-----------------------------------------------------------------------------
(* Every variable has the values the code can give it.                     *)
Identities == Ids \cup {Nobody}
Names == [display : Identities, exe : Identities \cup {Unnamed}]
Categories == {"none", "service", "unknown", "system", "user"}
TypeOK == /\ os \in [Pids -> Identities] /\ services \in SUBSET Ids
          /\ born \in 0..MaxBorn
          /\ since \in [Pids -> 0..MaxAge]
          /\ names \in [Pids -> Names] /\ cats \in [Pids -> Categories]
          /\ cache_age \in 0..MaxAge
          /\ service_pids \in [Pids -> Identities] /\ service_age \in 0..Overdue
          /\ index \in SUBSET Pids /\ index_due \in BOOLEAN

(* What is cached is no older than PID_CACHE_TTL, or than the last clear   *)
(* where the main loop has not come round to the next one.                 *)
OldestName == IF cache_age > CacheTtl THEN cache_age ELSE CacheTtl

(* "Periodic clearing handles OS PID reuse": once a number has been its    *)
(* process's for longer than names are kept, the exe name cached for it is *)
(* not that of a process before: it is its own, or "PID:n" where the query *)
(* was refused.                                                            *)
ExeNameFresh ==
  \A p \in Pids : os[p] # Nobody /\ since[p] > OldestName
                   => names[p].exe \in {Nobody, Unnamed, os[p]}

(* The same for the category: one that comes from a path comes from the    *)
(* process's own.  That of a service also rests on service_pids: a process *)
(* is no service by the word of its predecessor once the number has been   *)
(* its own for the age of both.                                            *)
CategoryFresh ==
  \A p \in Pids : os[p] # Nobody /\ since[p] > OldestName =>
    /\ cats[p] \in {"system", "user"} => cats[p] = classify_by_path(os[p])
    /\ cats[p] = "service" /\ since[p] > OldestName + ServiceTtl => os[p] \in services

(* A query of the service manager that did not say what is running, and    *)
(* one for the name of a running process that was refused.                 *)
QueryFailed == service_age' < service_age /\ service_pids' # Running
NameRefused(p) == names[p] = NoName /\ os[p] # Nobody /\ names'[p].exe = Unnamed

(* What process_packet gives the aggregator for a packet of p, once it has *)
(* been looked up, and what it would be by the process that runs.          *)
Given(p) == [name |-> names[p], cat |-> cats[p]]
Own(p) == [name |-> [display |-> Running[p], exe |-> os[p]],
           cat |-> IF os[p] \in services THEN "service" ELSE classify_by_path(os[p])]
LookedUp(p) == names[p] # NoName

(* "so that reused PIDs get fresh lookups" and "For service PIDs, returns  *)
(* the SCM display name": where the main loop keeps coming round and the   *)
(* service manager answers, a process that goes on having traffic ends up  *)
(* with its own display name, and as a service just when it is one,        *)
(* whatever was cached under its number when it started; with its exe name *)
(* and the category of its path too, unless they go on being refused.      *)
RightInTheEnd ==
  <>[][~QueryFailed]_vars /\ []<><<Refresh>>_vars =>
    \A p \in Pids : <>[](os[p] # Nobody /\ p \in index) =>
      /\ []<>LookedUp(p)
      /\ <>[](LookedUp(p) => /\ names[p].display = Running[p]
                             /\ cats[p] = "service" <=> os[p] \in services)
      /\ <>[][~NameRefused(p)]_vars => <>[](LookedUp(p) => Given(p) = Own(p))
=============================================================================
