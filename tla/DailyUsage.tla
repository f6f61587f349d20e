----------------------------- MODULE DailyUsage -----------------------------
(***************************************************************************)
(* DailyUsageStore (rust_core/src/stats/daily_usage.rs) as the main loop   *)
(* of the core drives it (rust_core/src/main.rs): bytes per day, the row   *)
(* of the current day, the JSON file they are flushed to, and the copy the *)
(* named pipe serves (latest_history).                                     *)
(*                                                                         *)
(* Days are numbers; upload and download, which every operation treats     *)
(* alike, are one amount.  The process may die in any state (the launcher  *)
(* kills it: core/launcher.go), so Kill is enabled between any two steps   *)
(* of a flush.  The store belongs to the main thread alone: between Kills  *)
(* its steps run in program order.                                         *)
(***************************************************************************)
EXTENDS Naturals, FiniteSets

CONSTANTS
  MaxDay,         \* the last day the clock reaches (a bound)
  MaxDays,        \* MAX_DAYS: rows kept
  MaxBytes,       \* the most a day's row grows to (a bound)
  ClockMayGoBack, \* the local date may jump to an earlier day
  DiskMayFail,    \* a step of a flush may return an error
  OpenMayFail,    \* the file may exist and yet not open (load_from_disk)
  FileMayRot      \* the file may be damaged while no core runs

ASSUME BoundsAssumption ==
  /\ MaxDay \in Nat \ {0}
  /\ MaxDays \in Nat \ {0}
  /\ MaxBytes \in Nat
ASSUME SwitchAssumption ==
  {ClockMayGoBack, DiskMayFail, OpenMayFail, FileMayRot} \subseteq BOOLEAN

Days == 1..MaxDay

VARIABLES
  today,       \* today_local()
  pc,          \* where the main thread is
  after,       \* where flush_now returns to
  current_day, \* DailyUsageStore.current_day
  current,     \* current_upload + current_download
  history,     \* DailyUsageStore.history
  dirty,       \* DailyUsageStore.dirty
  due,         \* last_flush.elapsed() >= FLUSH_INTERVAL_SECS
  file,        \* daily_totals.json
  tmp,         \* daily_totals.json.tmp
  published    \* latest_history, what get_history answers with

mem == <<current_day, current, history>>
disk == <<file, tmp>>
vars == <<today, pc, after, mem, dirty, due, disk, published>>

(***************************************************************************)
(* Rows and files.                                                         *)
(***************************************************************************)
NoRows == [d \in {} |-> 0]

Row(h, d) == IF d \in DOMAIN h THEN h[d] ELSE 0

Newer(h, d) == {e \in DOMAIN h : e > d}

upsert_history(h, d, n) == [e \in DOMAIN h \cup {d} |-> IF e = d THEN n ELSE h[e]]

(* Sorted newest first and truncated: the rows with fewer than MaxDays     *)
(* newer ones.                                                             *)
trim_history(h) ==
  [d \in {e \in DOMAIN h : Cardinality(Newer(h, e)) < MaxDays} |-> h[d]]

sync_current_day_into_history(h, d, n) == trim_history(upsert_history(h, d, n))

Image(kind, d, n, h) == [kind |-> kind, day |-> d, bytes |-> n, rows |-> h]
Absent == Image("absent", 1, 0, NoRows)
Torn   == Image("torn", 1, 0, NoRows)   \* no JSON the loader can read

IsTable(h) == /\ DOMAIN h \subseteq Days
              /\ h \in [DOMAIN h -> Nat]
IsImage(f) == /\ f = Image(f.kind, f.day, f.bytes, f.rows)
              /\ f.kind \in {"absent", "torn", "whole"}
              /\ f.day \in Days /\ f.bytes \in Nat
              /\ IsTable(f.rows)

up == pc # "down"

Init == /\ today = 1
        /\ pc = "down" /\ after = "loop"
        /\ current_day = 1 /\ current = 0 /\ history = NoRows
        /\ dirty = FALSE /\ due = FALSE
        /\ file = Absent /\ tmp = Absent
        /\ published = NoRows

LoadedWith_NotDirty(d, n, h) ==
  LET h1 == sync_current_day_into_history(h, d, n) IN
  /\ current_day' = today
  /\ current' = 0
  /\ history' = sync_current_day_into_history(h1, today, current')
  /\ dirty' = FALSE
  /\ pc' = "boot"

(***************************************************************************)
(* load: the file's state, then the day adjusted to today (a later file    *)
(* day is reset, an earlier one is closed), then one sync; a flush only    *)
(* if the day had to be adjusted.                                          *)
(***************************************************************************)
LoadedWith(d, n, h) ==
  LET h1 == sync_current_day_into_history(h, d, n) IN
  /\ current_day' = today
  /\ current' = IF d = today THEN n ELSE 0
  /\ history' = sync_current_day_into_history(h1, today, current')
  /\ dirty' = (d # today)
  /\ pc' = IF d # today THEN "begin" ELSE "boot"

(* load_from_disk kept nothing: the store starts empty, and clean.         *)
LoadedNothing ==
  /\ current_day' = today
  /\ current' = 0
  /\ history' = sync_current_day_into_history(NoRows, today, 0)
  /\ dirty' = FALSE
  /\ pc' = "boot"

LoadWhole == /\ file.kind = "whole"
             /\ LoadedWith(file.day, file.bytes, trim_history(file.rows))
             /\ UNCHANGED file

LoadAbsent == file.kind = "absent" /\ LoadedNothing /\ UNCHANGED file

LoadUnopened == /\ OpenMayFail
                /\ file.kind # "absent"
                /\ LoadedNothing
                /\ UNCHANGED file

(* backup_corrupted_file renames the file away, or fails to.               *)
LoadTorn == /\ file.kind = "torn"
            /\ LoadedNothing
            /\ file' \in {Absent, Torn}

Load == /\ pc = "down"
        /\ LoadWhole \/ LoadAbsent \/ LoadUnopened \/ LoadTorn
        /\ after' = "boot"
        /\ due' = FALSE
        /\ UNCHANGED <<today, tmp, published>>

Boot_NoPublish == /\ pc = "boot"
                  /\ pc' = "loop"
                  /\ UNCHANGED <<today, after, mem, dirty, due, disk, published>>

(* main publishes the loaded history before its first iteration.           *)
Boot == /\ pc = "boot"
        /\ published' = history
        /\ pc' = "loop"
        /\ UNCHANGED <<today, after, mem, dirty, due, disk>>

(***************************************************************************)
(* The loop: packets are recorded; once a second the day may roll over,    *)
(* the history is published and a dirty store is flushed when due.         *)
(***************************************************************************)
(* record, called by process_packet; a packet of no bytes changes nothing. *)
Record == /\ pc = "loop"
          /\ \E n \in 1..MaxBytes :
               /\ current + n <= MaxBytes
               /\ current' = current + n
               /\ history' = sync_current_day_into_history(history, current_day, current + n)
          /\ dirty' = TRUE
          /\ UNCHANGED <<today, pc, after, current_day, due, disk, published>>

Rollover_KeepBytes ==
  /\ pc = "loop"
  /\ today > current_day
  /\ current_day' = today
  /\ history' = sync_current_day_into_history(history, today, current)
  /\ dirty' = TRUE
  /\ pc' = "begin" /\ after' = "publish"
  /\ UNCHANGED <<today, current, due, disk, published>>

Rollover_ResetFirst ==
  /\ pc = "loop"
  /\ today > current_day
  /\ current_day' = today
  /\ current' = 0
  /\ history' = sync_current_day_into_history(upsert_history(history, current_day, 0), today, 0)
  /\ dirty' = TRUE
  /\ pc' = "begin" /\ after' = "publish"
  /\ UNCHANGED <<today, due, disk, published>>

(* maybe_rollover on a new day: the counters restart and the store is      *)
(* flushed at once.                                                        *)
Rollover == /\ pc = "loop"
            /\ today > current_day
            /\ current_day' = today
            /\ current' = 0
            /\ history' = sync_current_day_into_history(history, today, 0)
            /\ dirty' = TRUE
            /\ pc' = "begin" /\ after' = "publish"
            /\ UNCHANGED <<today, due, disk, published>>

(* maybe_rollover returned false.                                          *)
SameDay == /\ pc = "loop"
           /\ today <= current_day
           /\ pc' = "publish"
           /\ UNCHANGED <<today, after, mem, dirty, due, disk, published>>

Publish == /\ pc = "publish"
           /\ published' = history
           /\ pc' = "maybe_flush"
           /\ UNCHANGED <<today, after, mem, dirty, due, disk>>

MaybeFlush_Never == /\ pc = "maybe_flush"
                    /\ pc' = "loop"
                    /\ after' = "loop"
                    /\ UNCHANGED <<today, mem, dirty, due, disk, published>>

MaybeFlush == /\ pc = "maybe_flush"
              /\ pc' = IF dirty /\ due THEN "begin" ELSE "loop"
              /\ after' = "loop"
              /\ UNCHANGED <<today, mem, dirty, due, disk, published>>

(* running was cleared, or the capture channel disconnected: the loop ends *)
(* in flush_now, whatever dirty says.                                      *)
Shutdown == /\ pc = "loop"
            /\ pc' = "begin" /\ after' = "final"
            /\ UNCHANGED <<today, mem, dirty, due, disk, published>>

(* The last publication; main then waits for its threads and the pipe      *)
(* still answers from it.                                                  *)
Final == /\ pc = "final"
         /\ published' = history
         /\ pc' = "joining"
         /\ UNCHANGED <<today, after, mem, dirty, due, disk>>

(***************************************************************************)
(* flush_now: sync, write the temporary file, replace the file.  An error  *)
(* returns early and leaves dirty and last_flush alone.                    *)
(***************************************************************************)
FlushFails == /\ DiskMayFail
              /\ pc' = after
              /\ UNCHANGED <<dirty, due>>

FlushBegin == /\ pc = "begin"
              /\ history' = sync_current_day_into_history(history, current_day, current)
              /\ \/ /\ tmp' = Torn
                    /\ pc' = "write"
                    /\ UNCHANGED <<dirty, due>>
                 \/ FlushFails /\ UNCHANGED tmp
              /\ UNCHANGED <<today, after, current_day, current, file, published>>

FlushWrite_InPlace ==
  /\ pc = "write"
  /\ file' = Torn
  /\ tmp' = Image("whole", current_day, current, history)
  /\ pc' = "replace"
  /\ UNCHANGED <<today, after, mem, dirty, due, published>>

(* Serialised, flushed and sync_all: only then is tmp a whole file.        *)
FlushWrite == /\ pc = "write"
              /\ \/ /\ tmp' = Image("whole", current_day, current, history)
                    /\ pc' = "replace"
                    /\ UNCHANGED <<dirty, due>>
                 \/ FlushFails /\ UNCHANGED tmp
              /\ UNCHANGED <<today, after, mem, file, published>>

FlushReplace_CleanOnError ==
  /\ pc = "replace"
  /\ \/ file' = tmp /\ tmp' = Absent
     \/ DiskMayFail /\ UNCHANGED disk
  /\ pc' = after
  /\ dirty' = FALSE
  /\ due' = FALSE
  /\ UNCHANGED <<today, after, mem, published>>

(* atomic_replace, and only after it the store counts as clean.            *)
FlushReplace == /\ pc = "replace"
                /\ \/ /\ file' = tmp
                      /\ tmp' = Absent
                      /\ dirty' = FALSE
                      /\ due' = FALSE
                      /\ pc' = after
                   \/ FlushFails /\ UNCHANGED disk
                /\ UNCHANGED <<today, after, mem, published>>

(***************************************************************************)
(* The world: time, the end of the process, the disk.                      *)
(***************************************************************************)
NextDay == /\ today < MaxDay
           /\ today' = today + 1
           /\ UNCHANGED <<pc, after, mem, dirty, due, disk, published>>

ClockBack == /\ ClockMayGoBack
             /\ \E d \in Days : d < today /\ today' = d
             /\ UNCHANGED <<pc, after, mem, dirty, due, disk, published>>

MinutePasses == /\ up /\ ~due
                /\ due' = TRUE
                /\ UNCHANGED <<today, pc, after, mem, dirty, disk, published>>

(* The process ends, by itself after joining or killed at any other point. *)
Kill == /\ up
        /\ pc' = "down"
        /\ after' = "loop"
        /\ current_day' = 1 /\ current' = 0 /\ history' = NoRows
        /\ dirty' = FALSE /\ due' = FALSE
        /\ published' = NoRows
        /\ UNCHANGED <<today, disk>>

Rot == /\ FileMayRot
       /\ pc = "down" /\ file.kind = "whole"
       /\ file' = Torn
       /\ UNCHANGED <<today, pc, after, mem, dirty, due, tmp, published>>

Loop == Boot \/ Rollover \/ SameDay \/ Publish \/ MaybeFlush \/ Final
Flush == FlushBegin \/ FlushWrite \/ FlushReplace
Main == Load \/ Loop \/ Flush \/ Record \/ Shutdown
World == NextDay \/ ClockBack \/ MinutePasses \/ Kill \/ Rot

Next == Main \/ World

Spec == Init /\ [][Next]_vars

(* The main thread keeps running (recv_timeout bounds its wait) and its    *)
(* clock advances; nothing obliges a packet, a stop or a kill to come.     *)
FairSpec == /\ Spec
            /\ WF_vars(Loop)
            /\ WF_vars(Flush)
            /\ WF_vars(MinutePasses)

-----------------------------------------------------------------------------
(* Every variable has the values the code can give it.                     *)
TypeOK == /\ today \in Days /\ current_day \in Days
          /\ pc \in {"down", "boot", "loop", "publish", "maybe_flush", "begin",
                     "write", "replace", "final", "joining"}
          /\ after \in {"boot", "publish", "loop", "final"}
          /\ current \in Nat
          /\ IsTable(history) /\ IsTable(published)
          /\ dirty \in BOOLEAN /\ due \in BOOLEAN
          /\ IsImage(file) /\ IsImage(tmp)

(* A store that calls itself clean has on disk every byte it has in        *)
(* memory: no early return of flush_now, no failed step and no load may    *)
(* leave dirty false while the file lacks a row (maybe_flush and load skip *)
(* the flush on that word).                                                *)
CleanMeansPersisted ==
  up /\ ~dirty => \A d \in Days : Row(history, d) = Row(file.rows, d)

(* Whatever the point at which the process dies, daily_totals.json is      *)
(* absent or whole: writes go to the temporary file and the replace is one *)
(* step.  (A file that rots on the disk is not the store's doing.)         *)
FileNeverTorn == ~FileMayRot => file.kind # "torn"

(* A running core never rewrites the row of a day it leaves or has left,   *)
(* and forgets one only when MaxDays newer rows exist.                     *)
PastDaySealed(d) ==
  IF d \in DOMAIN history' THEN history'[d] = history[d]
                           ELSE Cardinality(Newer(history', d)) >= MaxDays
PastDaysSealed ==
  [][up /\ up' => \A d \in DOMAIN history : d < current_day' => PastDaySealed(d)]_vars

(* h has at least n bytes for day d, or has pushed the day out.            *)
Covers(h, d, n) == Row(h, d) >= n \/ Cardinality(Newer(h, d)) >= MaxDays

(* The file never holds fewer bytes for a day than it held before, except  *)
(* when MaxDays newer rows push the day out: a flush must not undo an      *)
(* earlier one, however many restarts lie between the two.                 *)
PersistedBytesSurvive ==
  [][\A d \in DOMAIN file.rows : Covers(file'.rows, d, file.rows[d])]_file

(* "pollHistory fetches persisted daily usage history": what the pipe      *)
(* serves once the loop runs has every row of the file.                    *)
ServedIncludesPersisted ==
  pc = "loop" => \A d \in DOMAIN file.rows : Covers(published, d, file.rows[d])

(* A step of a flush that returned an error: the store stays dirty.        *)
FlushFailed == /\ pc \in {"begin", "write", "replace"}
               /\ pc' = after
               /\ dirty'

(* Once flushes succeed, recorded bytes reach the disk, or the process     *)
(* dies or ends first: a flush that failed is tried again, except the last *)
(* one, which has nothing after it.                                        *)
EventuallyFlushed ==
  <>[][~FlushFailed]_vars => (dirty ~> (~dirty \/ pc = "joining"))

-----------------------------------------------------------------------------
(* The inductive strengthening of the invariants above, for a clock that   *)
(* moves forward: in memory and in the file alike, no more than MaxDays    *)
(* rows, the newest of them the current day's and equal to its counter.    *)
Trimmed(h) == \A e \in DOMAIN h : Cardinality(Newer(h, e)) < MaxDays

Newest(h, d, n) == /\ d \in DOMAIN h
                   /\ h[d] = n
                   /\ \A e \in DOMAIN h : e <= d

MemoryInStep == up => /\ Trimmed(history)
                      /\ Newest(history, current_day, current)
                      /\ current_day <= today

FileInStep == IF file.kind = "whole"
              THEN /\ Trimmed(file.rows)
                   /\ Newest(file.rows, file.day, file.bytes)
                   /\ file.day <= today
              ELSE file.rows = NoRows

TmpInStep == pc = "replace" => tmp = Image("whole", current_day, current, history)

(* daily_usage.rs keeps current_* and its row of history in step at every  *)
(* step, and a file is an image of such a state: a row that lagged its     *)
(* counter would be flushed and served short.                              *)
StoreInStep == MemoryInStep /\ FileInStep /\ TmpInStep

-----------------------------------------------------------------------------
(* The ledger a reader may imagine: the table in memory while the core     *)
(* runs, the table of the file while it does not.                          *)
Ledger == INSTANCE UsageLedger WITH
  rows <- IF up THEN history ELSE file.rows,
  saved <- file.rows

(* With a clock that moves forward and a file that opens and does not rot, *)
(* the store implements the ledger: bytes go to the newest day only, days  *)
(* open later than all others, a death costs what was not saved, no more.  *)
LedgerSpec == Ledger!Spec
=============================================================================
