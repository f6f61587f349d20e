----------------------------- MODULE UsageLedger -----------------------------
(***************************************************************************)
(* What the daily usage store promises, with none of its mechanism: a      *)
(* table of bytes per day, of which only the newest day still grows, and   *)
(* a saved copy the table falls back to when the core process dies.        *)
(* Days are numbered, a later day is a larger number.                      *)
(***************************************************************************)
EXTENDS Naturals, FiniteSets

CONSTANTS MaxDay,   \* the last day the clock reaches
          MaxDays,  \* rows kept: MAX_DAYS in daily_usage.rs
          MaxBytes  \* the most a day's row grows to (a bound)

Days == 1..MaxDay

(* Tables: a partial function from days to bytes.                          *)
NoRows == [d \in {} |-> 0]

Row(h, d) == IF d \in DOMAIN h THEN h[d] ELSE 0

Newer(h, d) == {e \in DOMAIN h : e > d}

Put(h, d, n) == [e \in DOMAIN h \cup {d} |-> IF e = d THEN n ELSE h[e]]

KeepNewest(h) ==
  [d \in {e \in DOMAIN h : Cardinality(Newer(h, e)) < MaxDays} |-> h[d]]

VARIABLES rows, saved

vars == <<rows, saved>>

Init == /\ rows = NoRows
        /\ saved = NoRows

(* Bytes are only ever added to the newest day.                            *)
Add == \E d \in DOMAIN rows :
         /\ Newer(rows, d) = {}
         /\ \E n \in 0..MaxBytes : n > rows[d] /\ rows' = Put(rows, d, n)
         /\ UNCHANGED saved

(* A day starts empty, later than every day of the table; the oldest rows  *)
(* beyond MaxDays are given up.                                            *)
Open == /\ \E d \in Days : /\ Newer(rows, d) = {}
                           /\ d \notin DOMAIN rows
                           /\ rows' = KeepNewest(Put(rows, d, 0))
        /\ UNCHANGED saved

Save == /\ saved' = rows
        /\ UNCHANGED rows

Crash == /\ rows' = saved
         /\ UNCHANGED saved

Next == Add \/ Open \/ Save \/ Crash

Spec == Init /\ [][Next]_vars
=============================================================================
