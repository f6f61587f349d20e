------------------------------ MODULE FlowCache ------------------------------
(***************************************************************************)
(* FlowAggregator (rust_core/src/stats/flow_stat.rs), the per-PID counters *)
(* the UI is shown, with the process snapshot of PidMapper it asks whether *)
(* a process is alive (rust_core/src/process/pid_map.rs).                  *)
(*                                                                         *)
(* Time goes in ticks, of which the three thresholds are multiples; the    *)
(* 5 s of the process snapshot are shorter than one.  Upload and download  *)
(* are one amount; a speed is stood for by the bytes it is computed from,  *)
(* since every speed is delta / elapsed of one and the same interval.      *)
(***************************************************************************)
EXTENDS Naturals, FiniteSets

CONSTANTS
  Pids,       \* process numbers
  MaxBorn,    \* processes that ever start (a bound)
  MaxBytes,   \* bytes an entry counts (a bound)
  Inactive,   \* INACTIVE_THRESHOLD, in ticks
  Exited,     \* EXITED_RETENTION
  Absolute,   \* ABSOLUTE_RETENTION
  MaxStall    \* ticks main may go without a publication (a bound)

ASSUME BoundsAssumption == MaxBorn \in Nat /\ MaxBytes \in Nat
ASSUME ThresholdAssumption ==
  /\ {Inactive, Exited, Absolute} \subseteq Nat \ {0}
  /\ Inactive < Exited /\ Exited < Absolute
ASSUME StallAssumption == MaxStall \in Nat

Nobody == 0

(* Ages are counted no further than any property looks.                    *)
MaxAge == Absolute + 3
Older(a) == IF a < MaxAge THEN a + 1 ELSE a

VARIABLES
  os,           \* the process running under each number, or Nobody
  born,         \* processes born so far
  since,        \* ticks since os changed for a number
  running,      \* running_pids
  missed,       \* processes that ran when they were queried and are not in them
  snapshot_due, \* process_snapshot_last_refresh is 5 s ago
  entries,      \* FlowAggregator.entries
  published,    \* latest_stats: what each entry was reported with
  reported,     \* bytes reported for an entry since it was made
  stall         \* ticks since the last publication

world == <<os, born, since>>
snapshot == <<running, missed, snapshot_due>>
cache == <<entries, published, reported>>
vars == <<world, snapshot, cache, stall>>

None == [total |-> 0, delta |-> 0, age |-> 0, last |-> Nobody, here |-> FALSE]
here(p) == entries[p].here
Unseen == [total |-> 0, delta |-> 0, status |-> "none"]

Init == /\ os = [p \in Pids |-> Nobody] /\ born = 0
        /\ since = [p \in Pids |-> MaxAge]
        /\ running = {} /\ missed = {} /\ snapshot_due = FALSE
        /\ entries = [p \in Pids |-> None]
        /\ published = [p \in Pids |-> Unseen]
        /\ reported = [p \in Pids |-> 0]
        /\ stall = 0

-----------------------------------------------------------------------------
(* The system: numbers are given to processes, and given again.            *)
Starts(p) == /\ os[p] = Nobody /\ born < MaxBorn
             /\ born' = born + 1
             /\ os' = [os EXCEPT ![p] = born + 1]
             /\ since' = [since EXCEPT ![p] = 0]
             /\ UNCHANGED <<snapshot, cache, stall>>

Exits(p) == /\ os[p] # Nobody
            /\ os' = [os EXCEPT ![p] = Nobody]
            /\ since' = [since EXCEPT ![p] = 0]
            /\ UNCHANGED <<born, snapshot, cache, stall>>

(* The processes there are; none at all when the snapshot cannot be taken, *)
(* and those before the one Process32NextW fails at: an error ends the     *)
(* list like its end.                                                      *)
Alive == {p \in Pids : os[p] # Nobody}
query_process_snapshot == SUBSET Alive

maybe_refresh_process_snapshot ==
  IF snapshot_due
  THEN /\ running' \in query_process_snapshot
       /\ missed' = Alive \ running'
       /\ snapshot_due' = FALSE
  ELSE UNCHANGED snapshot

-----------------------------------------------------------------------------
(* The tables give a packet to p: they are half a second old, and as old   *)
(* as a drain of the channel that has not ended since the last publication.*)
Attributed(p) == os[p] # Nobody \/ since[p] <= stall + 1

Record_NewTotal(p) ==
  /\ Attributed(p)
  /\ entries[p].total < MaxBytes
  /\ entries' = [entries EXCEPT ![p] =
       [total |-> 1, delta |-> @.delta + 1, age |-> 0, last |-> os[p], here |-> TRUE]]
  /\ maybe_refresh_process_snapshot
  /\ UNCHANGED <<world, published, reported, stall>>

(* record, for a packet of p (get_parent_pid just before it looks at the   *)
(* process snapshot): an entry is made or found, whoever it was made for.  *)
Record(p) ==
  /\ Attributed(p)
  /\ entries[p].total < MaxBytes
  /\ entries' = [entries EXCEPT ![p] =
       [total |-> @.total + 1, delta |-> @.delta + 1, age |-> 0,
        last |-> os[p], here |-> TRUE]]
  /\ maybe_refresh_process_snapshot
  /\ UNCHANGED <<world, published, reported, stall>>

(* The loop's maybe_refresh_tables.                                        *)
Refresh == /\ maybe_refresh_process_snapshot
           /\ UNCHANGED <<world, cache, stall>>

OldEntries_Never == {}
OldEntries_Exited == {p \in Pids : here(p) /\ entries[p].age > Exited}
LeftEntries_AnyAge(alive) == {p \in Pids : here(p) /\ p \notin alive}

(* The entries retain gives up: long unused, or used some time ago by a    *)
(* process the snapshot does not have.                                     *)
OldEntries == {p \in Pids : here(p) /\ entries[p].age > Absolute}
LeftEntries(alive) ==
  {p \in Pids : here(p) /\ entries[p].age > Exited /\ p \notin alive}

Status(e) == IF e.age > Inactive THEN "inactive" ELSE "active"

Forgets(gone) ==
  /\ entries' = [p \in Pids |-> IF p \in gone THEN None
                                ELSE [entries[p] EXCEPT !.delta = 0]]
  /\ published' = [p \in Pids |->
       IF p \in gone \/ ~here(p) THEN Unseen
       ELSE [total |-> entries[p].total, delta |-> entries[p].delta,
             status |-> Status(entries[p])]]
  /\ reported' = [p \in Pids |-> IF p \in gone THEN 0
                                 ELSE reported[p] + entries[p].delta]

(* snapshot, once a second: is_process_alive, which may refresh the        *)
(* process snapshot, is asked of the entries between the two retentions.   *)
Snapshot == /\ IF LeftEntries({}) \ OldEntries = {} THEN UNCHANGED snapshot
               ELSE maybe_refresh_process_snapshot
            /\ Forgets(OldEntries \cup LeftEntries(running'))
            /\ stall' = 0
            /\ UNCHANGED <<world>>

-----------------------------------------------------------------------------
FiveSeconds == /\ ~snapshot_due
               /\ snapshot_due' = TRUE
               /\ UNCHANGED <<world, running, missed, cache, stall>>

(* A tick is long enough for the loop to come round, refresh what is due   *)
(* and publish, unless its drain of the channel does not end.              *)
Tick == /\ stall < MaxStall
        /\ snapshot_due => stall > 0
        /\ since' = [p \in Pids |-> Older(since[p])]
        /\ entries' = [p \in Pids |-> IF here(p) THEN [entries[p] EXCEPT !.age = Older(@)]
                                                 ELSE None]
        /\ snapshot_due' = TRUE
        /\ stall' = stall + 1
        /\ UNCHANGED <<os, born, running, missed, published, reported>>

Next == \/ \E p \in Pids : Starts(p) \/ Exits(p) \/ Record(p)
        \/ Refresh \/ Snapshot \/ FiveSeconds \/ Tick

Spec == Init /\ [][Next]_vars

-----------------------------------------------------------------------------
(* Every variable has the values the code can give it.                     *)
Ids == 1..MaxBorn
Counts == 0..MaxBytes
Entry == [total : Counts, delta : Counts, age : 0..MaxAge,
          last : Ids \cup {Nobody}, here : BOOLEAN]
TypeOK == /\ os \in [Pids -> Ids \cup {Nobody}] /\ born \in 0..MaxBorn
          /\ since \in [Pids -> 0..MaxAge]
          /\ running \in SUBSET Pids /\ missed \in SUBSET Pids /\ snapshot_due \in BOOLEAN
          /\ entries \in [Pids -> Entry]
          /\ published \in [Pids -> [total : Counts, delta : Counts,
                                     status : {"none", "active", "inactive"}]]
          /\ reported \in [Pids -> Counts]
          /\ stall \in 0..MaxStall

(* The speeds add up: what was reported second by second since an entry    *)
(* was made, and what waits for the next report, is its total.             *)
SpeedsAddUp == \A p \in Pids : entries[p].total = reported[p] + entries[p].delta

(* No byte is forgotten unreported: an entry is given up only after its    *)
(* last bytes were in a snapshot, unless there has been none for longer    *)
(* than the retention.                                                     *)
ReportedBeforeForgotten ==
  [][\A p \in Pids : here(p) /\ ~here(p)' => entries[p].delta = 0 \/ stall > Exited]_cache

(* "keeps_alive_process_even_if_inactive_within_absolute_retention": while *)
(* the process that had the traffic runs, its entry stays until Absolute,  *)
(* unless the snapshot that says who is alive failed or was cut short      *)
(* before it.                                                              *)
AliveKept ==
  [][\A p \in Pids : here(p) /\ ~here(p)' /\ entries[p].age <= Absolute
                       => entries[p].last # os[p] \/ os[p] = Nobody \/ p \in missed']_cache

(* A number given again resurrects the counters of its last owner only     *)
(* within the absolute retention: after it they start from nothing.        *)
NoOldTotals ==
  [][\A p \in Pids : here(p) /\ entries'[p].total > entries[p].total
                       => entries[p].age <= Absolute + stall]_cache
=============================================================================
