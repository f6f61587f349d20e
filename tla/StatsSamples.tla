---------------------------- MODULE StatsSamples ----------------------------
(***************************************************************************)
(* The samples of service/stats.go: what poll keeps of the answers it got, *)
(* the chart and the averages that are made of them.                       *)
(*                                                                         *)
(* time.Now() carries two readings.  Add, Before and After use the         *)
(* monotonic one, Truncate and Equal the wall clock, which may be set.     *)
(* Upload and download, always treated alike, are one amount.              *)
(***************************************************************************)
EXTENDS Integers, FiniteSets, SequencesExt

CONSTANTS
  Retention,  \* throughputRetention
  Window,     \* throughputChartWindow, which is webTreeAverageWindow
  MaxPoints,  \* throughputChartMaxPoint
  Flows,      \* what an answer may say of a process: its number, speed and total
  Histories   \* polls over which the algorithms are compared (a bound)

ASSUME SamplesAssumption ==
  /\ Retention \in Nat /\ Window \in Nat \ {0} /\ MaxPoints \in Nat \ {0}
  /\ \A flow \in Flows : flow.speed \in Int

(* A poll that succeeded: when, by both clocks, and what it brought.  The  *)
(* monotonic clock is never set, and polls come one after the other.       *)
Polls == [mono : Int, wall : Int, answer : Seq(Flows)]

ASSUME HistoriesAssumption ==
  \A polls \in Histories :
    /\ polls \in Seq(Polls) /\ polls # <<>>
    /\ \A i, j \in 1..Len(polls) : i < j => polls[i].mono < polls[j].mono

(* From the first element of seq to the last.  It is a recursive function  *)
(* and not FoldLeft, which chooses the order in which it walks.            *)
Folded(step(_, _), base, seq) ==
  LET upTo[i \in 0..Len(seq)] == IF i = 0 THEN base ELSE step(upTo[i - 1], seq[i])
  IN  upTo[Len(seq)]

Total(numbers) == Folded(LAMBDA sum, n : sum + n, 0, numbers)

(* An answer lists each of its processes once, with speed and total.       *)
NoFlows == <<>>
sumThroughput(answer) == Total([i \in DOMAIN answer |-> answer[i].speed])

-----------------------------------------------------------------------------
(* recordThroughputSampleLocked and recordFlowSnapshotLocked do the same   *)
(* to two slices: append, then cut what lies before the retention, up to   *)
(* the first sample that does not.                                         *)
NotBefore_Wall(sample, now) == sample.wall >= now.wall - Retention
NotBefore(sample, now) == sample.mono >= now.mono - Retention

Recorded(samples, sample) ==
  LET all == Append(samples, sample)
  IN  SubSeq(all, SelectInSeq(all, LAMBDA s : NotBefore(s, sample)), Len(all))

throughputSample(now, answer) ==
  [mono |-> now.mono, wall |-> now.wall, speed |-> sumThroughput(answer)]

recordThroughputSample(samples, now, answer) ==
  Recorded(samples, throughputSample(now, answer))

recordFlowSnapshot(samples, now, answer) ==
  Recorded(samples, [mono |-> now.mono, wall |-> now.wall, answer |-> answer])

-----------------------------------------------------------------------------
Truncate(sample) == sample.wall - (sample.wall % Window)

(* A sample joins the last bucket or opens one: only neighbours meet.      *)
Bucketed(buckets, sample) ==
  IF buckets # <<>> /\ Last(buckets).start = Truncate(sample)
  THEN [buckets EXCEPT ![Len(buckets)] = [start |-> @.start, sum |-> @.sum + sample.speed,
                                          count |-> @.count + 1]]
  ELSE Append(buckets, [start |-> Truncate(sample), sum |-> sample.speed, count |-> 1])

(* A point shows sum / count, and count.                                   *)
aggregateThroughputSamples(samples) ==
  LET buckets == Folded(Bucketed, <<>>, samples)
      surplus == Len(buckets) - MaxPoints
  IN  IF surplus > 0 THEN SubSeq(buckets, surplus + 1, Len(buckets)) ELSE buckets

newestWindow(samples) ==
  {i \in DOMAIN samples : Truncate(samples[i]) = Truncate(Last(samples))}

(* A flow is added to the item of its process, or opens one: the items are *)
(* in the order in which the processes come up.  The total is that of the  *)
(* latest sample with the process: the code's comparison of totals comes   *)
(* after the flow has been replaced.                                       *)
Merged(items, flow) ==
  LET at == SelectInSeq(items, LAMBDA item : item.pid = flow.pid)
      before == IF at = 0 THEN 0 ELSE items[at].sum
      item == [pid |-> flow.pid, sum |-> before + flow.speed, total |-> flow.total]
  IN  IF at = 0 THEN Append(items, item) ELSE [items EXCEPT ![at] = item]

itemsOf(samples) ==
  Folded(LAMBDA items, s : IF Truncate(s) = Truncate(Last(samples))
                           THEN Folded(Merged, items, s.answer) ELSE items,
         <<>>, samples)

Averaged(item, divisor) ==
  [pid |-> item.pid, sum |-> item.sum, over |-> divisor, total |-> item.total]

aggregateFlowSnapshots_OwnDivisor(samples) ==
  LET with(pid) == {i \in newestWindow(samples) : \E j \in DOMAIN samples[i].answer :
                      samples[i].answer[j].pid = pid}
      items == itemsOf(samples)
  IN  [k \in DOMAIN items |-> Averaged(items[k], Cardinality(with(items[k].pid)))]

(* A process shows sum / over: over all samples of the window, also those  *)
(* that do not list it.                                                    *)
aggregateFlowSnapshots(samples) ==
  LET items == itemsOf(samples)
  IN  [k \in DOMAIN items |-> Averaged(items[k], Cardinality(newestWindow(samples)))]

(* Without averages the latest answer is shown as it is.                   *)
SnapshotAveragedFlows(samples, latest) ==
  LET averaged == IF samples = <<>> THEN NoFlows ELSE aggregateFlowSnapshots(samples)
  IN  IF averaged # NoFlows THEN averaged ELSE latest

-----------------------------------------------------------------------------
(* What the two caches are after the polls of a history.                   *)
throughputAfter(polls) ==
  Folded(LAMBDA c, p : recordThroughputSample(c, p, p.answer), <<>>, polls)
flowCacheAfter(polls) ==
  Folded(LAMBDA c, p : recordFlowSnapshot(c, p, p.answer), <<>>, polls)

(* Two caches of the same polls.                                           *)
InStep(samples, snapshots) ==
  samples = [k \in DOMAIN snapshots |-> throughputSample(snapshots[k], snapshots[k].answer)]

(* The caches are the answers of the last Retention and no other, in       *)
(* their order, however the wall clock was set and however many polls      *)
(* failed in between.                                                      *)
KeepsRetention(polls) ==
  /\ \E first \in DOMAIN polls :
       /\ \A i \in DOMAIN polls : i >= first <=> polls[i].mono >= Last(polls).mono - Retention
       /\ flowCacheAfter(polls) = SubSeq(polls, first, Len(polls))
  /\ InStep(throughputAfter(polls), flowCacheAfter(polls))

WallNeverSetBack(samples) ==
  \A i, j \in DOMAIN samples : i < j => samples[i].wall <= samples[j].wall

(* The two views are of the same samples.  Each process has one average;   *)
(* each window has one point, the newest MaxPoints of them are shown, and  *)
(* the newest point is what the averages of the processes add up to.  A    *)
(* clock set back breaks the last: then the chart has a window twice, the  *)
(* averages once.                                                          *)
OfSameSamples(samples, snapshots) ==
  LET points == aggregateThroughputSamples(samples)
      flows == aggregateFlowSnapshots(snapshots)
      starts == {Truncate(samples[i]) : i \in DOMAIN samples}
      of(start) == {i \in DOMAIN samples : Truncate(samples[i]) = start}
      speeds(start) == [i \in DOMAIN samples |-> IF i \in of(start) THEN samples[i].speed ELSE 0]
  IN  /\ Len(points) <= MaxPoints
      /\ \A j, k \in DOMAIN flows : flows[j].pid = flows[k].pid => j = k
      /\ WallNeverSetBack(samples) =>
           /\ {points[i].start : i \in DOMAIN points} =
                {t \in starts : Cardinality({u \in starts : u > t}) < MaxPoints}
           /\ \A i \in DOMAIN points :
                /\ \A j \in 1..(i - 1) : points[j].start < points[i].start
                /\ points[i].count = Cardinality(of(points[i].start))
                /\ points[i].sum = Total(speeds(points[i].start))
           /\ \A k \in DOMAIN flows : flows[k].over = Last(points).count
           /\ Last(points).sum = Total([k \in DOMAIN flows |-> flows[k].sum])

Misremembered == {polls \in Histories : ~KeepsRetention(polls)}
Disagreed == {polls \in Histories : ~OfSameSamples(throughputAfter(polls), flowCacheAfter(polls))}
=============================================================================
