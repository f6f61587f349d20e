--------------------------- MODULE WebSessionProofs ---------------------------
(***************************************************************************)
(* Proofs about StatsSamples, for every sequence of polls and samples, and *)
(* about the caches of WebSession.                                         *)
(*                                                                         *)
(* The algorithms walk over sequences: what they return is proved by       *)
(* induction over the elements walked, a lemma about sets of naturals.     *)
(***************************************************************************)
EXTENDS WebSession, FiniteSetTheorems, SequenceTheorems, WellFoundedInduction, TLAPS

-----------------------------------------------------------------------------
(* Induction.                                                              *)

(* A nonempty set of naturals has a least element.                         *)
LEMMA LeastNatural ==
  ASSUME NEW S, S \subseteq Nat, S # {}
  PROVE  \E m \in S : \A n \in S : m <= n
<1>1. PICK m \in S : \A n \in S : <<n, m>> \notin OpToRel(<, Nat)
  BY NatLessThanWellFounded, WFMin, Zenon
<1>2. \A n \in S : ~(n < m)
  <2> SUFFICES ASSUME NEW n \in S, n < m PROVE <<n, m>> \in OpToRel(<, Nat)
    BY <1>1, Zenon
  <2>1. <<n, m>> \in Nat \X Nat /\ <<n, m>>[1] = n /\ <<n, m>>[2] = m
    OBVIOUS
  <2> QED BY <2>1, Zenon DEF OpToRel
<1> QED BY <1>2

(* A set with 0 and the successor of each of its naturals has them all.    *)
LEMMA Induction ==
  ASSUME NEW S, 0 \in S, \A n \in Nat : n \in S => n + 1 \in S
  PROVE  Nat \subseteq S
<1> SUFFICES ASSUME Nat \ S # {} PROVE FALSE
  OBVIOUS
<1>1. PICK m \in Nat \ S : \A n \in Nat \ S : m <= n
  BY LeastNatural
<1>2. m # 0 /\ m - 1 \in Nat
  BY <1>1
<1>3. m - 1 \in S
  BY <1>1, <1>2
<1> QED BY <1>1, <1>2, <1>3

(* The same up to a bound.                                                 *)
LEMMA InductionTo ==
  ASSUME NEW N \in Nat, NEW S, 0 \in S,
         \A n \in 0..(N - 1) : n \in S => n + 1 \in S
  PROVE  0..N \subseteq S
<1> DEFINE T == {n \in Nat : n <= N => n \in S}
<1>1. 0 \in T
  OBVIOUS
<1>2. \A n \in Nat : n \in T => n + 1 \in T
  OBVIOUS
<1> HIDE DEF T
<1>3. Nat \subseteq T
  BY <1>1, <1>2, Induction
<1> QED BY <1>3 DEF T

(* g holds the values of a computation in n steps from e: F[i] is the i-th *)
(* step.                                                                   *)
Computes(g, V, e, n, F) == /\ g \in [0..n -> V]
                           /\ g[0] = e
                           /\ \A i \in 1..n : g[i] = F[i][g[i - 1]]
Computable(V, e, n, F) == \E g : Computes(g, V, e, n, F)

(* A recursion of N steps over a set of values has a result.               *)
LEMMA Recursion ==
  ASSUME NEW V, NEW e \in V, NEW N \in Nat, NEW F \in [1..N -> [V -> V]]
  PROVE  Computable(V, e, N, F)
<1> DEFINE Runs(g, n) == /\ g \in [0..n -> V]
                         /\ g[0] = e
                         /\ \A i \in 1..n : g[i] = F[i][g[i - 1]]
           Good == {n \in 0..N : \E g : Runs(g, n)}
<1>1. 0 \in Good
  <2> DEFINE g == [i \in 0..0 |-> e]
  <2>1. g \in [0..0 -> V] /\ g[0] = e
    OBVIOUS
  <2> HIDE DEF g
  <2>2. Runs(g, 0)
    BY <2>1
  <2> QED BY <2>2
<1>2. ASSUME NEW n \in 0..(N - 1), n \in Good PROVE n + 1 \in Good
  <2>1. PICK g : Runs(g, n)
    BY <1>2
  <2> DEFINE h == [i \in 0..(n + 1) |-> IF i = n + 1 THEN F[n + 1][g[n]] ELSE g[i]]
  <2>2. F[n + 1] \in [V -> V] /\ g[n] \in V
    BY <2>1
  <2>3. h \in [0..(n + 1) -> V]
    BY <2>1, <2>2
  <2>4. \A i \in 0..n : h[i] = g[i]
    OBVIOUS
  <2>5. h[n + 1] = F[n + 1][g[n]]
    OBVIOUS
  <2> HIDE DEF h
  <2>6. Runs(h, n + 1)
    <3>1. h[0] = e
      BY <2>1, <2>4
    <3>2. ASSUME NEW i \in 1..(n + 1) PROVE h[i] = F[i][h[i - 1]]
      <4>1. h[i - 1] = g[i - 1]
        BY <2>4
      <4>2. CASE i = n + 1
        BY <2>5, <4>1, <4>2
      <4>3. CASE i # n + 1
        BY <2>1, <2>4, <4>1, <4>3
      <4> QED BY <4>2, <4>3
    <3> QED BY <2>3, <3>1, <3>2
  <2> QED BY <2>6
<1> HIDE DEF Good
<1>3. 0..N \subseteq Good
  BY <1>1, <1>2, InductionTo
<1>4. N \in Good
  BY <1>3
<1> QED BY <1>4 DEF Good, Computable, Computes

(* What holds of a value at the start, and after each step that began with *)
(* it, holds all along.                                                    *)
LEMMA Typed ==
  ASSUME NEW V, NEW N \in Nat, NEW k, k[0] \in V,
         \A i \in 1..N : k[i - 1] \in V => k[i] \in V
  PROVE  \A i \in 0..N : k[i] \in V
<1> DEFINE Good == {i \in 0..N : k[i] \in V}
<1>1. 0 \in Good
  OBVIOUS
<1>2. ASSUME NEW n \in 0..(N - 1), n \in Good PROVE n + 1 \in Good
  <2>1. n + 1 \in 1..N /\ n + 1 \in 0..N /\ (n + 1) - 1 = n
    OBVIOUS
  <2> QED BY <1>2, <2>1
<1> HIDE DEF Good
<1>3. 0..N \subseteq Good
  BY <1>1, <1>2, InductionTo
<1> QED BY <1>3 DEF Good

-----------------------------------------------------------------------------
(* Sums.                                                                   *)

(* The partial sums of s.                                                  *)
Sums(g, s) == /\ g \in [0..Len(s) -> Int] /\ g[0] = 0
              /\ \A i \in 1..Len(s) : g[i] = g[i - 1] + s[i]
              /\ Total(s) = g[Len(s)]

(* Total adds up number by number.                                         *)
LEMMA TotalUnfolds ==
  ASSUME NEW s \in Seq(Int)
  PROVE  \E g : Sums(g, s)
<1>1. PICK N : N \in Nat /\ N = Len(s) /\ \A i \in 1..N : s[i] \in Int
  OBVIOUS
<1> DEFINE V == Int
           Step(i, v) == v + s[i]
           Def(k) == k = [i \in 0..N |-> IF i = 0 THEN 0 ELSE Step(i, k[i - 1])]
           F == [i \in 1..N |-> [v \in V |-> Step(i, v)]]
           g == CHOOSE k : Def(k)
<1>2. 0 \in V
  OBVIOUS
<1>3. Total(s) = g[N]
  BY <1>1 DEF Total, Folded
<1>4. \A i \in 1..N : \A v \in V : Step(i, v) \in V
  BY <1>1
<1> HIDE DEF Step, V
<1>5. \E k : Def(k)
  <2>1. F \in [1..N -> [V -> V]]
    BY <1>4
  <2> HIDE DEF F
  <2>2. Computable(V, 0, N, F)
    BY <1>1, <1>2, <2>1, Recursion, Zenon
  <2>3. PICK k : /\ k \in [0..N -> V]
                 /\ k[0] = 0
                 /\ \A i \in 1..N : k[i] = F[i][k[i - 1]]
    BY <2>2, Zenon DEF Computable, Computes
  <2>4. ASSUME NEW i \in 1..N PROVE k[i] = Step(i, k[i - 1])
    <3>1. i - 1 \in 0..N
      BY <1>1
    <3>2. k[i - 1] \in V
      BY <2>3, <3>1, Zenon
    <3>3. F[i] = [v \in V |-> Step(i, v)]
      BY DEF F
    <3> QED BY <2>3, <3>2, <3>3, Zenon
  <2>5. \A i \in 0..N : k[i] = IF i = 0 THEN 0 ELSE Step(i, k[i - 1])
    BY <1>1, <2>3, <2>4
  <2>6. k = [i \in 0..N |-> k[i]]
    BY <2>3
  <2>7. Def(k)
    BY <2>5, <2>6
  <2> HIDE DEF Def
  <2> QED BY <2>7
<1>6. Def(g)
  <2> HIDE DEF Def
  <2> QED BY <1>5
<1> HIDE DEF g
<1>7. g[0] = 0 /\ \A i \in 1..N : g[i] = Step(i, g[i - 1])
  <2>1. \A i \in 0..N : g[i] = IF i = 0 THEN 0 ELSE Step(i, g[i - 1])
    BY <1>6, Zenon
  <2>2. 0 \in 0..N /\ \A i \in 1..N : i \in 0..N /\ i # 0
    BY <1>1
  <2> QED BY <2>1, <2>2, Zenon
<1>8. \A i \in 0..N : g[i] \in V
  <2>1. \A i \in 1..N : g[i - 1] \in V => g[i] \in V
    BY <1>4, <1>7
  <2>2. g[0] \in V
    BY <1>2, <1>7
  <2> QED BY <1>1, <2>1, <2>2, Typed
<1>9. g \in [0..N -> V]
  BY <1>6, <1>8
<1> QED BY <1>1, <1>3, <1>7, <1>9 DEF Step, V, Sums

(* The sum of nothing.                                                     *)
LEMMA TotalOfNone == Total(<<>>) = 0
<1>1. <<>> \in Seq(Int) /\ Len(<<>>) = 0
  OBVIOUS
<1> QED BY <1>1, TotalUnfolds DEF Sums

(* One number more.                                                        *)
LEMMA TotalAppend ==
  ASSUME NEW s \in Seq(Int), NEW x \in Int
  PROVE  Total(s) \in Int /\ Total(Append(s, x)) = Total(s) + x
<1> DEFINE t == Append(s, x)
<1>1. PICK N : N \in Nat /\ N = Len(s)
  OBVIOUS
<1>2. /\ t \in Seq(Int) /\ Len(t) = N + 1 /\ t[N + 1] = x
      /\ \A i \in 1..N : t[i] = s[i]
  BY <1>1
<1> HIDE DEF t
<1>3. PICK g : Sums(g, s)
  BY TotalUnfolds
<1>4. PICK h : Sums(h, t)
  BY <1>2, TotalUnfolds
<1> DEFINE Same == {i \in 0..N : h[i] = g[i]}
<1>5. 0 \in Same
  BY <1>1, <1>3, <1>4 DEF Sums
<1>6. ASSUME NEW i \in 0..(N - 1), i \in Same PROVE i + 1 \in Same
  <2>1. i + 1 \in 1..N /\ i + 1 \in 1..(N + 1) /\ i + 1 \in 0..N /\ (i + 1) - 1 = i
    BY <1>1
  <2>2. h[i + 1] = h[i] + t[i + 1] /\ g[i + 1] = g[i] + s[i + 1]
    BY <1>1, <1>2, <1>3, <1>4, <2>1 DEF Sums
  <2> QED BY <1>2, <1>6, <2>1, <2>2
<1> HIDE DEF Same
<1>7. 0..N \subseteq Same
  BY <1>1, <1>5, <1>6, InductionTo
<1>8. h[N] = g[N]
  BY <1>1, <1>7 DEF Same
<1>9. h[N + 1] = h[N] + x
  <2>1. N + 1 \in 1..Len(t) /\ (N + 1) - 1 = N
    BY <1>1, <1>2
  <2>2. h[N + 1] = h[(N + 1) - 1] + t[N + 1]
    BY <1>4, <2>1 DEF Sums
  <2> QED BY <1>2, <2>1, <2>2
<1> QED BY <1>1, <1>2, <1>3, <1>4, <1>8, <1>9 DEF Sums, t

(* One number changed.                                                     *)
LEMMA TotalChanged ==
  ASSUME NEW s \in Seq(Int), NEW x \in Int, NEW j \in 1..Len(s)
  PROVE  Total([s EXCEPT ![j] = x]) = Total(s) + (x - s[j])
<1> DEFINE t == [s EXCEPT ![j] = x]
           d == x - s[j]
<1>1. PICK N : N \in Nat /\ N = Len(s) /\ \A i \in 1..N : s[i] \in Int
  OBVIOUS
<1>2. /\ t \in Seq(Int) /\ Len(t) = N
      /\ \A i \in 1..N : t[i] = IF i = j THEN s[i] + d ELSE s[i]
  BY <1>1
<1>3. d \in Int /\ j \in 1..N
  BY <1>1
<1> HIDE DEF t, d
<1>4. PICK g : Sums(g, s)
  BY TotalUnfolds
<1>5. PICK h : Sums(h, t)
  BY <1>2, TotalUnfolds
<1> DEFINE Off == {i \in 0..N : h[i] = IF i >= j THEN g[i] + d ELSE g[i]}
<1>6. 0 \in Off
  BY <1>1, <1>3, <1>4, <1>5 DEF Sums
<1>7. ASSUME NEW i \in 0..(N - 1), i \in Off PROVE i + 1 \in Off
  <2>1. i + 1 \in 1..N /\ i + 1 \in 0..N /\ i \in 0..N /\ (i + 1) - 1 = i
    BY <1>1
  <2>2. h[i + 1] = h[i] + t[i + 1] /\ g[i + 1] = g[i] + s[i + 1] /\ g[i] \in Int
    BY <1>1, <1>2, <1>4, <1>5, <2>1 DEF Sums
  <2>3. s[i + 1] \in Int /\ t[i + 1] = IF i + 1 = j THEN s[i + 1] + d ELSE s[i + 1]
    BY <1>1, <1>2, <2>1
  <2>4. h[i] = IF i >= j THEN g[i] + d ELSE g[i]
    BY <1>7
  <2>5. h[i + 1] = IF i + 1 >= j THEN g[i + 1] + d ELSE g[i + 1]
    BY <1>3, <2>2, <2>3, <2>4
  <2> QED BY <2>1, <2>5
<1> HIDE DEF Off
<1>8. 0..N \subseteq Off
  BY <1>1, <1>6, <1>7, InductionTo
<1>9. h[N] = g[N] + d
  BY <1>1, <1>3, <1>8 DEF Off
<1> QED BY <1>1, <1>2, <1>4, <1>5, <1>9 DEF Sums, t, d

-----------------------------------------------------------------------------
(* What the caches keep.                                                   *)

Samples == [mono : Int, wall : Int, speed : Int]

(* The sum of an answer is a number.                                       *)
LEMMA SpeedType ==
  ASSUME NEW answer \in Seq(Flows)
  PROVE  sumThroughput(answer) \in Int
<1> DEFINE s == [i \in DOMAIN answer |-> answer[i].speed]
<1>1. s \in Seq(Int)
  BY SamplesAssumption
<1> HIDE DEF s
<1>2. PICK g : Sums(g, s)
  BY <1>1, TotalUnfolds
<1>3. Total(s) \in Int
  BY <1>1, <1>2 DEF Sums
<1> QED BY <1>3 DEF sumThroughput, s

(* Where a cache is cut: before the first sample young enough, and the new *)
(* one always is.                                                          *)
CutAt(all, at, cutoff) ==
  /\ at \in 1..Len(all)
  /\ \A i \in 1..(at - 1) : all[i].mono < cutoff
  /\ all[at].mono >= cutoff

(* Recorded appends and cuts, whatever the samples hold.                   *)
LEMMA RecordedCuts ==
  ASSUME NEW T, \A s \in T : s.mono \in Int, NEW c \in Seq(T), NEW x \in T
  PROVE  \E at : /\ CutAt(Append(c, x), at, x.mono - Retention)
                 /\ Recorded(c, x) = SubSeq(Append(c, x), at, Len(c) + 1)
<1> DEFINE all == Append(c, x)
           cutoff == x.mono - Retention
           I == {i \in 1..Len(all) : all[i].mono >= cutoff}
           at == Min(I)
<1>1. /\ Len(c) \in Nat /\ all \in Seq(T) /\ Len(all) = Len(c) + 1 /\ all[Len(all)] = x
      /\ \A i \in 1..Len(all) : all[i] \in T
  OBVIOUS
<1> HIDE DEF all
<1>2. x.mono \in Int /\ cutoff \in Int /\ x.mono >= cutoff
  BY SamplesAssumption
<1>3. I \subseteq Nat /\ I # {}
  BY <1>1, <1>2
<1>4. at \in I /\ \A i \in I : at <= i
  <2> HIDE DEF I
  <2>1. \E m \in I : \A n \in I : m <= n
    BY <1>3, LeastNatural
  <2> QED BY <2>1 DEF Min
<1>5. SelectInSeq(all, LAMBDA s : NotBefore(s, x)) = at
  BY <1>3 DEF SelectInSeq, NotBefore
<1>6. Recorded(c, x) = SubSeq(all, at, Len(all))
  BY <1>5 DEF Recorded, all
<1>7. CutAt(all, at, cutoff)
  <2>1. at \in 1..Len(all) /\ all[at].mono >= cutoff
    BY <1>4
  <2>2. ASSUME NEW i \in 1..(at - 1) PROVE all[i].mono < cutoff
    <3>1. i \in 1..Len(all) /\ i < at /\ i \in Int /\ at \in Int
      BY <1>1, <2>1
    <3>2. i \notin I
      BY <1>4, <3>1
    <3>3. all[i].mono \in Int
      BY <1>1, <3>1
    <3> QED BY <1>2, <3>1, <3>2, <3>3
  <2> HIDE DEF at, cutoff, I
  <2> QED BY <2>1, <2>2 DEF CutAt
<1> QED BY <1>1, <1>6, <1>7 DEF all

(* Both caches are cut at the same place, so they stay of the same polls.  *)
LEMMA RecordedInStep ==
  ASSUME NEW samples, NEW flows \in Seq(Polls), InStep(samples, flows),
         NEW t, t.mono \in Int, t.wall \in Int, NEW answer \in Seq(Flows)
  PROVE  /\ recordFlowSnapshot(flows, t, answer) \in Seq(Polls) \ {<<>>}
         /\ InStep(recordThroughputSample(samples, t, answer),
                   recordFlowSnapshot(flows, t, answer))
<1> DEFINE p == [mono |-> t.mono, wall |-> t.wall, answer |-> answer]
           x == throughputSample(t, answer)
           n == Len(flows)
           allF == Append(flows, p)
           allS == Append(samples, x)
           cutoff == t.mono - Retention
           Of(f) == throughputSample(f, f.answer)
<1>1. p \in Polls /\ p.mono = t.mono /\ p.wall = t.wall /\ p.answer = answer
  BY DEF Polls
<1>2. x \in Samples /\ x.mono = t.mono /\ x = Of(p)
  BY <1>1, SpeedType DEF Samples, throughputSample
<1>3. n \in Nat /\ \A i \in 1..n : flows[i] \in Polls
  OBVIOUS
<1>4. \A f \in Polls : Of(f) \in Samples /\ Of(f).mono = f.mono
  BY SpeedType DEF Samples, Polls, throughputSample
<1> HIDE DEF x, p, Of
<1>5. samples \in Seq(Samples) /\ Len(samples) = n /\ \A i \in 1..n : samples[i] = Of(flows[i])
  <2>1. samples = [i \in 1..n |-> Of(flows[i])]
    BY DEF InStep, Of
  <2> QED BY <1>3, <1>4, <2>1
<1>6. /\ allF \in Seq(Polls) /\ allS \in Seq(Samples) /\ Len(allF) = n + 1 /\ Len(allS) = n + 1
      /\ \A i \in 1..(n + 1) : allF[i] \in Polls /\ allS[i] = Of(allF[i])
  <2>1. /\ allF \in Seq(Polls) /\ Len(allF) = n + 1 /\ allF[n + 1] = p
        /\ \A i \in 1..n : allF[i] = flows[i]
    BY <1>1, <1>3
  <2>2. /\ allS \in Seq(Samples) /\ Len(allS) = n + 1 /\ allS[n + 1] = x
        /\ \A i \in 1..n : allS[i] = samples[i]
    BY <1>2, <1>3, <1>5
  <2>3. \A i \in 1..(n + 1) : i \in 1..n \/ i = n + 1
    BY <1>3
  <2> HIDE DEF allF, allS
  <2> QED BY <1>1, <1>2, <1>3, <1>5, <2>1, <2>2, <2>3
<1>7. PICK a : CutAt(allF, a, cutoff) /\ recordFlowSnapshot(flows, t, answer)
                                           = SubSeq(allF, a, n + 1)
  <2>1. \A f \in Polls : f.mono \in Int
    BY DEF Polls
  <2>2. recordFlowSnapshot(flows, t, answer) = Recorded(flows, p)
    BY DEF recordFlowSnapshot, p
  <2> QED BY <1>1, <2>1, <2>2, RecordedCuts
<1>8. PICK b : CutAt(allS, b, cutoff) /\ recordThroughputSample(samples, t, answer)
                                           = SubSeq(allS, b, n + 1)
  <2>1. \A s \in Samples : s.mono \in Int
    BY DEF Samples
  <2>2. recordThroughputSample(samples, t, answer) = Recorded(samples, x)
    BY DEF recordThroughputSample, x
  <2> QED BY <1>2, <1>5, <2>1, <2>2, RecordedCuts
<1> HIDE DEF allF, allS
<1>9. a = b /\ a \in 1..(n + 1)
  <2>1. a \in 1..(n + 1) /\ b \in 1..(n + 1)
    BY <1>6, <1>7, <1>8 DEF CutAt
  <2>2. \A i \in 1..(n + 1) : allS[i].mono = allF[i].mono /\ allF[i].mono \in Int
    BY <1>4, <1>6 DEF Polls
  <2>3. cutoff \in Int
    BY SamplesAssumption
  <2>4. ~(a < b)
    <3> SUFFICES ASSUME a < b PROVE FALSE
      OBVIOUS
    <3>1. a \in 1..(b - 1)
      BY <2>1
    <3>2. allS[a].mono < cutoff /\ allF[a].mono >= cutoff
      BY <1>7, <1>8, <3>1 DEF CutAt
    <3> QED BY <2>1, <2>2, <2>3, <3>2
  <2>5. ~(b < a)
    <3> SUFFICES ASSUME b < a PROVE FALSE
      OBVIOUS
    <3>1. b \in 1..(a - 1)
      BY <2>1
    <3>2. allF[b].mono < cutoff /\ allS[b].mono >= cutoff
      BY <1>7, <1>8, <3>1 DEF CutAt
    <3> QED BY <2>1, <2>2, <2>3, <3>2
  <2> QED BY <2>1, <2>4, <2>5
<1> DEFINE r == SubSeq(allF, a, n + 1)
           q == SubSeq(allS, a, n + 1)
           m == (n + 1) - a + 1
<1>10. /\ r \in Seq(Polls) /\ Len(r) = m /\ m \in Nat /\ m > 0
       /\ \A i \in 1..m : r[i] = allF[a + i - 1]
  BY <1>3, <1>6, <1>9
<1>11. q = [i \in 1..m |-> allS[a + i - 1]]
  BY <1>3, <1>6, <1>9
<1>12. \A i \in 1..m : a + i - 1 \in 1..(n + 1)
  BY <1>3, <1>9
<1>13. q = [i \in DOMAIN r |-> Of(r[i])]
  <2>1. DOMAIN r = 1..m
    BY <1>10
  <2>2. \A i \in 1..m : allS[a + i - 1] = Of(r[i])
    BY <1>6, <1>10, <1>12
  <2> HIDE DEF r, q, m
  <2> QED BY <1>11, <2>1, <2>2
<1>14. r # <<>>
  <2>1. Len(<<>>) = 0
    OBVIOUS
  <2> HIDE DEF r, m
  <2> QED BY <1>10, <2>1
<1> QED BY <1>7, <1>8, <1>9, <1>10, <1>13, <1>14 DEF InStep, Of

(* The cache of flows after each poll.                                     *)
CacheByPoll(g, polls) ==
  /\ g \in [0..Len(polls) -> Seq(Polls)] /\ g[0] = <<>>
  /\ \A i \in 1..Len(polls) : g[i] = recordFlowSnapshot(g[i - 1], polls[i], polls[i].answer)
  /\ flowCacheAfter(polls) = g[Len(polls)]

(* flowCacheAfter records poll by poll.                                    *)
LEMMA FlowCacheUnfolds ==
  ASSUME NEW polls \in Seq(Polls)
  PROVE  \E g : CacheByPoll(g, polls)
<1>1. PICK N : /\ N \in Nat /\ N = Len(polls)
               /\ \A i \in 1..N : polls[i] \in Polls
  OBVIOUS
<1> DEFINE V == Seq(Polls)
           Step(i, v) == recordFlowSnapshot(v, polls[i], polls[i].answer)
           Def(k) == k = [i \in 0..N |-> IF i = 0 THEN <<>> ELSE Step(i, k[i - 1])]
           F == [i \in 1..N |-> [v \in V |-> Step(i, v)]]
           g == CHOOSE k : Def(k)
<1>2. <<>> \in V
  OBVIOUS
<1>3. flowCacheAfter(polls) = g[N]
  BY <1>1 DEF flowCacheAfter, Folded
<1>4. \A i \in 1..N : \A v \in V : Step(i, v) \in V
  <2> SUFFICES ASSUME NEW i \in 1..N, NEW v \in Seq(Polls)
               PROVE  recordFlowSnapshot(v, polls[i], polls[i].answer) \in Seq(Polls)
    OBVIOUS
  <2>1. /\ polls[i].mono \in Int /\ polls[i].wall \in Int /\ polls[i].answer \in Seq(Flows)
    BY <1>1 DEF Polls
  <2>2. InStep([k \in DOMAIN v |-> throughputSample(v[k], v[k].answer)], v)
    BY DEF InStep
  <2> QED BY <2>1, <2>2, RecordedInStep
<1> HIDE DEF Step, V
<1>5. \E k : Def(k)
  <2>1. F \in [1..N -> [V -> V]]
    BY <1>4
  <2> HIDE DEF F
  <2>2. Computable(V, <<>>, N, F)
    BY <1>1, <1>2, <2>1, Recursion, Zenon
  <2>3. PICK k : /\ k \in [0..N -> V]
                 /\ k[0] = <<>>
                 /\ \A i \in 1..N : k[i] = F[i][k[i - 1]]
    BY <2>2, Zenon DEF Computable, Computes
  <2>4. ASSUME NEW i \in 1..N PROVE k[i] = Step(i, k[i - 1])
    <3>1. i - 1 \in 0..N
      BY <1>1
    <3>2. k[i - 1] \in V
      BY <2>3, <3>1, Zenon
    <3>3. F[i] = [v \in V |-> Step(i, v)]
      BY DEF F
    <3> QED BY <2>3, <3>2, <3>3, Zenon
  <2>5. \A i \in 0..N : k[i] = IF i = 0 THEN <<>> ELSE Step(i, k[i - 1])
    BY <1>1, <2>3, <2>4
  <2>6. k = [i \in 0..N |-> k[i]]
    BY <2>3
  <2>7. Def(k)
    BY <2>5, <2>6
  <2> HIDE DEF Def
  <2> QED BY <2>7
<1>6. Def(g)
  <2> HIDE DEF Def
  <2> QED BY <1>5
<1> HIDE DEF g
<1>7. g[0] = <<>> /\ \A i \in 1..N : g[i] = Step(i, g[i - 1])
  <2>1. \A i \in 0..N : g[i] = IF i = 0 THEN <<>> ELSE Step(i, g[i - 1])
    BY <1>6, Zenon
  <2>2. 0 \in 0..N /\ \A i \in 1..N : i \in 0..N /\ i # 0
    BY <1>1
  <2> QED BY <2>1, <2>2, Zenon
<1>8. \A i \in 0..N : g[i] \in V
  <2>1. \A i \in 1..N : g[i - 1] \in V => g[i] \in V
    BY <1>4, <1>7
  <2>2. g[0] \in V
    BY <1>2, <1>7
  <2> QED BY <1>1, <2>1, <2>2, Typed
<1>9. g \in [0..N -> V]
  BY <1>6, <1>8
<1> QED BY <1>1, <1>3, <1>7, <1>9 DEF Step, V, CacheByPoll

(* The cache of samples after each poll, beside that of flows.             *)
SamplesByPoll(h, g, polls) ==
  /\ \A i \in 0..Len(polls) : InStep(h[i], g[i])
  /\ throughputAfter(polls) = h[Len(polls)]

(* throughputAfter records poll by poll, and stays in step with the flows. *)
LEMMA ThroughputUnfolds ==
  ASSUME NEW polls \in Seq(Polls), NEW c, CacheByPoll(c, polls)
  PROVE  \E h : SamplesByPoll(h, c, polls)
<1>1. PICK N : /\ N \in Nat /\ N = Len(polls)
               /\ \A i \in 1..N : polls[i] \in Polls
  OBVIOUS
<1> DEFINE V == Seq(Samples)
           Step(i, v) == recordThroughputSample(v, polls[i], polls[i].answer)
           Def(k) == k = [i \in 0..N |-> IF i = 0 THEN <<>> ELSE Step(i, k[i - 1])]
           F == [i \in 1..N |-> [v \in V |-> Step(i, v)]]
           g == CHOOSE k : Def(k)
<1>2. <<>> \in V
  OBVIOUS
<1>3. throughputAfter(polls) = g[N]
  BY <1>1 DEF throughputAfter, Folded
<1>4. \A i \in 1..N : \A v \in V : Step(i, v) \in V
  <2> SUFFICES ASSUME NEW i \in 1..N, NEW v \in Seq(Samples)
               PROVE  recordThroughputSample(v, polls[i], polls[i].answer) \in Seq(Samples)
    OBVIOUS
  <2> DEFINE x == throughputSample(polls[i], polls[i].answer)
  <2>1. x \in Samples
    BY <1>1, SpeedType DEF Polls, Samples, throughputSample
  <2> HIDE DEF x
  <2>2. PICK at : /\ CutAt(Append(v, x), at, x.mono - Retention)
                  /\ Recorded(v, x) = SubSeq(Append(v, x), at, Len(v) + 1)
    <3>1. \A s \in Samples : s.mono \in Int
      BY DEF Samples
    <3> QED BY <2>1, <3>1, RecordedCuts
  <2>3. at \in 1..(Len(v) + 1) /\ Append(v, x) \in Seq(Samples) /\ Len(Append(v, x)) = Len(v) + 1
    BY <2>1, <2>2 DEF CutAt
  <2>4. SubSeq(Append(v, x), at, Len(v) + 1) \in Seq(Samples)
    BY <2>3
  <2> QED BY <2>2, <2>4 DEF recordThroughputSample, x
<1> HIDE DEF Step, V
<1>5. \E k : Def(k)
  <2>1. F \in [1..N -> [V -> V]]
    BY <1>4
  <2> HIDE DEF F
  <2>2. Computable(V, <<>>, N, F)
    BY <1>1, <1>2, <2>1, Recursion, Zenon
  <2>3. PICK k : /\ k \in [0..N -> V]
                 /\ k[0] = <<>>
                 /\ \A i \in 1..N : k[i] = F[i][k[i - 1]]
    BY <2>2, Zenon DEF Computable, Computes
  <2>4. ASSUME NEW i \in 1..N PROVE k[i] = Step(i, k[i - 1])
    <3>1. i - 1 \in 0..N
      BY <1>1
    <3>2. k[i - 1] \in V
      BY <2>3, <3>1, Zenon
    <3>3. F[i] = [v \in V |-> Step(i, v)]
      BY DEF F
    <3> QED BY <2>3, <3>2, <3>3, Zenon
  <2>5. \A i \in 0..N : k[i] = IF i = 0 THEN <<>> ELSE Step(i, k[i - 1])
    BY <1>1, <2>3, <2>4
  <2>6. k = [i \in 0..N |-> k[i]]
    BY <2>3
  <2>7. Def(k)
    BY <2>5, <2>6
  <2> HIDE DEF Def
  <2> QED BY <2>7
<1>6. Def(g)
  <2> HIDE DEF Def
  <2> QED BY <1>5
<1> HIDE DEF g
<1>7. g[0] = <<>> /\ \A i \in 1..N : g[i] = Step(i, g[i - 1])
  <2>1. \A i \in 0..N : g[i] = IF i = 0 THEN <<>> ELSE Step(i, g[i - 1])
    BY <1>6, Zenon
  <2>2. 0 \in 0..N /\ \A i \in 1..N : i \in 0..N /\ i # 0
    BY <1>1
  <2> QED BY <2>1, <2>2, Zenon
<1>8. \A i \in 0..N : g[i] \in V
  <2>1. \A i \in 1..N : g[i - 1] \in V => g[i] \in V
    BY <1>4, <1>7
  <2>2. g[0] \in V
    BY <1>2, <1>7
  <2> QED BY <1>1, <2>1, <2>2, Typed
<1>9. g \in [0..N -> V]
  BY <1>6, <1>8
<1> DEFINE Good == {i \in 0..N : InStep(g[i], c[i])}
<1>10. 0 \in Good
  <2>1. DOMAIN <<>> = {} /\ <<>> = [i \in {} |-> throughputSample(c[0][i], c[0][i].answer)]
    OBVIOUS
  <2>2. c[0] = <<>> /\ g[0] = <<>>
    BY <1>1, <1>7 DEF CacheByPoll
  <2> QED BY <1>1, <2>1, <2>2 DEF InStep
<1>11. ASSUME NEW i \in 0..(N - 1), i \in Good PROVE i + 1 \in Good
  <2>1. i + 1 \in 1..N /\ i + 1 \in 0..N /\ i \in 0..N /\ (i + 1) - 1 = i
    BY <1>1
  <2> DEFINE p == polls[i + 1]
  <2>2. /\ p.mono \in Int /\ p.wall \in Int /\ p.answer \in Seq(Flows)
    BY <1>1, <2>1 DEF Polls
  <2>3. c[i] \in Seq(Polls) /\ c[i + 1] = recordFlowSnapshot(c[i], p, p.answer)
    BY <1>1, <2>1 DEF CacheByPoll
  <2>4. g[i + 1] = recordThroughputSample(g[i], p, p.answer)
    BY <1>7, <2>1 DEF Step
  <2>5. InStep(g[i], c[i])
    BY <1>11
  <2> HIDE DEF p
  <2>6. InStep(g[i + 1], c[i + 1])
    BY <2>2, <2>3, <2>4, <2>5, RecordedInStep
  <2> QED BY <2>1, <2>6
<1> HIDE DEF Good
<1>12. 0..N \subseteq Good
  BY <1>1, <1>10, <1>11, InductionTo
<1>13. \A i \in 0..N : InStep(g[i], c[i])
  BY <1>12 DEF Good
<1> QED BY <1>1, <1>3, <1>13 DEF SamplesByPoll

(* The cache is polls from first to i, those within the retention of i.    *)
Kept(cache, polls, i) ==
  \E first \in 1..i :
    /\ \A j \in 1..i : j >= first <=> polls[j].mono >= polls[i].mono - Retention
    /\ cache = SubSeq(polls, first, i)

(* Time goes forward from poll to poll.                                    *)
Forward(polls) == \A i, j \in 1..Len(polls) : i < j => polls[i].mono < polls[j].mono

(* One poll more: what was cut before stays cut.                           *)
LEMMA StaysRecent ==
  ASSUME NEW polls \in Seq(Polls), Forward(polls), NEW i \in 0..(Len(polls) - 1),
         NEW cache, i = 0 => cache = <<>>, i > 0 => Kept(cache, polls, i)
  PROVE  Kept(recordFlowSnapshot(cache, polls[i + 1], polls[i + 1].answer), polls, i + 1)
<1> DEFINE p == polls[i + 1]
           n == i + 1
           all == Append(cache, p)
<1>1. PICK N : N \in Nat /\ N = Len(polls) /\ \A j \in 1..N : polls[j] \in Polls
  OBVIOUS
<1>2. i \in Nat /\ n \in 1..N /\ p \in Polls /\ n = i + 1
  BY <1>1
<1>3. \A j \in 1..N : polls[j].mono \in Int
  BY <1>1 DEF Polls
<1>4. PICK from \in 1..n : /\ cache = SubSeq(polls, from, i)
                           /\ \A j \in 1..(from - 1) : polls[j].mono < p.mono - Retention
  <2>1. CASE i = 0
    <3>1. SubSeq(polls, 1, 0) = <<>>
      BY <1>1
    <3>2. 1 \in 1..n /\ \A j \in 1..(1 - 1) : FALSE
      BY <1>2
    <3> QED BY <2>1, <3>1, <3>2
  <2>2. CASE i > 0
    <3>1. PICK first \in 1..i :
            /\ \A j \in 1..i : j >= first <=> polls[j].mono >= polls[i].mono - Retention
            /\ cache = SubSeq(polls, first, i)
      BY <2>2 DEF Kept
    <3>2. i \in 1..N /\ polls[i].mono < p.mono
      BY <1>1, <1>2, <2>2 DEF Forward
    <3>3. ASSUME NEW j \in 1..(first - 1) PROVE polls[j].mono < p.mono - Retention
      <4>1. j \in 1..i /\ j \in 1..N /\ ~(j >= first)
        BY <1>1, <3>1
      <4>2. ~(polls[j].mono >= polls[i].mono - Retention)
        BY <3>1, <4>1
      <4> HIDE DEF p
      <4>3. p.mono \in Int
        BY <1>2 DEF Polls
      <4> QED BY <1>3, <3>2, <4>1, <4>2, <4>3, SamplesAssumption
    <3>4. first \in 1..n
      BY <1>2, <3>1
    <3> HIDE DEF p, n
    <3> QED BY <3>1, <3>3, <3>4
  <2>3. i = 0 \/ i > 0
    BY <1>2
  <2> HIDE DEF p, n
  <2> QED BY <2>1, <2>2, <2>3
<1> DEFINE m == n - from + 1
<1>5. cache \in Seq(Polls) /\ Len(cache) = m - 1 /\ m \in Nat /\ m > 0
  BY <1>1, <1>2, <1>4
<1>6. /\ all \in Seq(Polls) /\ Len(all) = m
      /\ \A k \in 1..m : from + k - 1 \in 1..n /\ all[k] = polls[from + k - 1]
  <2>1. \A k \in 1..(m - 1) : from + k - 1 \in 1..n /\ cache[k] = polls[from + k - 1]
    BY <1>1, <1>2, <1>4
  <2>2. from + m - 1 = n
    BY <1>2, <1>4
  <2>3. /\ all \in Seq(Polls) /\ Len(all) = m /\ all[m] = p
        /\ \A k \in 1..(m - 1) : all[k] = cache[k]
    BY <1>2, <1>5
  <2>4. \A k \in 1..m : k \in 1..(m - 1) \/ k = m
    BY <1>5
  <2> HIDE DEF all, m
  <2> QED BY <1>2, <2>1, <2>2, <2>3, <2>4
<1>7. PICK at : /\ CutAt(all, at, p.mono - Retention)
                /\ recordFlowSnapshot(cache, p, p.answer) = SubSeq(all, at, m)
  <2> DEFINE q == [mono |-> p.mono, wall |-> p.wall, answer |-> p.answer]
  <2>1. q = p
    BY <1>2 DEF Polls
  <2>2. recordFlowSnapshot(cache, p, p.answer) = Recorded(cache, q)
    BY DEF recordFlowSnapshot
  <2>3. \A f \in Polls : f.mono \in Int
    BY DEF Polls
  <2> HIDE DEF q, p
  <2>4. PICK at : /\ CutAt(Append(cache, p), at, p.mono - Retention)
                  /\ Recorded(cache, p) = SubSeq(Append(cache, p), at, Len(cache) + 1)
    BY <1>2, <1>5, <2>3, RecordedCuts
  <2>5. Len(cache) + 1 = m
    BY <1>5
  <2> QED BY <2>1, <2>2, <2>4, <2>5
<1> DEFINE first == from + at - 1
<1>8. at \in 1..m /\ first \in 1..n
  <2>1. at \in 1..m
    BY <1>6, <1>7 DEF CutAt
  <2> QED BY <1>2, <1>4, <2>1
<1>9. SubSeq(all, at, m) = SubSeq(polls, first, n)
  <2>1. SubSeq(all, at, m) = [k \in 1..(m - at + 1) |-> all[at + k - 1]]
    BY <1>5, <1>6, <1>8
  <2>2. SubSeq(polls, first, n) = [k \in 1..(n - first + 1) |-> polls[first + k - 1]]
    BY <1>1, <1>2, <1>8
  <2>3. m - at + 1 = n - first + 1
    BY <1>2, <1>4, <1>8
  <2>4. ASSUME NEW k \in 1..(m - at + 1) PROVE all[at + k - 1] = polls[first + k - 1]
    <3>1. at + k - 1 \in 1..m /\ from + (at + k - 1) - 1 = first + k - 1
      BY <1>2, <1>4, <1>5, <1>8
    <3> HIDE DEF all, m, first
    <3> QED BY <1>6, <3>1
  <2> HIDE DEF all, m, first, n
  <2> QED BY <2>1, <2>2, <2>3, <2>4
<1>10. ASSUME NEW j \in 1..n
       PROVE  j >= first <=> polls[j].mono >= polls[n].mono - Retention
  <2>1. j \in 1..N /\ polls[j].mono \in Int /\ polls[n].mono \in Int /\ p = polls[n] /\ n \in 1..N
    BY <1>1, <1>2, <1>3
  <2>2. CASE j < from
    <3>1. j \in 1..(from - 1)
      BY <1>4, <2>2
    <3>2. ~(j >= first)
      BY <1>4, <1>8, <2>2
    <3> HIDE DEF p, n, first
    <3> QED BY <1>4, <2>1, <3>1, <3>2, SamplesAssumption
  <2>3. CASE j >= from
    <3> DEFINE k == j - from + 1
    <3>1. k \in 1..m /\ from + k - 1 = j /\ (j >= first <=> k >= at)
      BY <1>2, <1>4, <1>8, <2>3
    <3>2. all[k] = polls[j]
      BY <1>6, <3>1
    <3>3. CASE k < at
      <4>1. k \in 1..(at - 1)
        BY <1>8, <3>1, <3>3
      <4>2. all[k].mono < p.mono - Retention
        BY <1>7, <4>1 DEF CutAt
      <4> HIDE DEF p, n, first, k, all
      <4> QED BY <1>8, <2>1, <3>1, <3>2, <3>3, <4>2, SamplesAssumption
    <3>4. CASE k >= at
      <4>1. first \in 1..N
        BY <1>1, <1>2, <1>8
      <4>2. all[at] = polls[first]
        BY <1>6, <1>8
      <4>3. all[at].mono >= p.mono - Retention
        BY <1>7 DEF CutAt
      <4>4. first <= j
        BY <3>1, <3>4
      <4>5. polls[first].mono <= polls[j].mono
        BY <1>1, <1>3, <2>1, <4>1, <4>4 DEF Forward
      <4> HIDE DEF p, n, first, k, all
      <4> QED BY <1>3, <2>1, <3>1, <3>4, <4>1, <4>2, <4>3, <4>5, SamplesAssumption
    <3> QED BY <1>8, <3>1, <3>3, <3>4
  <2> QED BY <1>4, <2>2, <2>3
<1> HIDE DEF all, m, first
<1> QED BY <1>2, <1>7, <1>8, <1>9, <1>10 DEF Kept

(* What the code remembers of any polls is what it promises to.            *)
LEMMA KeepsWhatIsRecent ==
  ASSUME NEW polls \in Seq(Polls), polls # <<>>, Forward(polls)
  PROVE  KeepsRetention(polls)
<1>1. PICK N : N \in Nat /\ N = Len(polls) /\ N > 0 /\ DOMAIN polls = 1..N
  BY EmptySeq
<1>2. PICK c : CacheByPoll(c, polls)
  BY FlowCacheUnfolds
<1>3. PICK h : SamplesByPoll(h, c, polls)
  BY <1>2, ThroughputUnfolds
<1> DEFINE Good == {i \in 0..N : i = 0 \/ Kept(c[i], polls, i)}
<1>4. 0 \in Good
  BY <1>1
<1>5. ASSUME NEW i \in 0..(N - 1), i \in Good PROVE i + 1 \in Good
  <2>1. i + 1 \in 0..N /\ i + 1 \in 1..N /\ (i + 1) - 1 = i
    BY <1>1
  <2>2. c[i + 1] = recordFlowSnapshot(c[i], polls[i + 1], polls[i + 1].answer)
    BY <1>1, <1>2, <2>1 DEF CacheByPoll
  <2>3. i = 0 => c[i] = <<>>
    BY <1>2 DEF CacheByPoll
  <2>4. i > 0 => Kept(c[i], polls, i)
    BY <1>5
  <2>5. Kept(recordFlowSnapshot(c[i], polls[i + 1], polls[i + 1].answer), polls, i + 1)
    BY <1>1, <2>3, <2>4, StaysRecent
  <2> QED BY <2>1, <2>2, <2>5
<1> HIDE DEF Good
<1>6. 0..N \subseteq Good
  BY <1>1, <1>4, <1>5, InductionTo
<1>7. Kept(c[N], polls, N)
  BY <1>1, <1>6 DEF Good
<1>8. flowCacheAfter(polls) = c[N] /\ throughputAfter(polls) = h[N] /\ InStep(h[N], c[N])
  BY <1>1, <1>2, <1>3 DEF CacheByPoll, SamplesByPoll
<1> QED BY <1>1, <1>7, <1>8 DEF KeepsRetention, Kept, Last

-----------------------------------------------------------------------------
(* The chart.                                                              *)

(* The samples up to n in the window that starts at t, and their speeds.   *)
Of(samples, n, t) == {j \in 1..n : Truncate(samples[j]) = t}
Speeds(samples, n, t) ==
  [j \in 1..n |-> IF Truncate(samples[j]) = t THEN samples[j].speed ELSE 0]

(* A window starts at a number, and later samples are in no earlier one.   *)
LEMMA TruncateFacts ==
  ASSUME NEW s, s.wall \in Int
  PROVE  /\ Truncate(s) \in Int
         /\ \A r : r.wall \in Int /\ s.wall <= r.wall => Truncate(s) <= Truncate(r)
<1>1. Truncate(s) \in Int
  BY SamplesAssumption DEF Truncate
<1>2. ASSUME NEW r, r.wall \in Int, s.wall <= r.wall PROVE Truncate(s) <= Truncate(r)
  <2> DEFINE a == s.wall
             b == r.wall
  <2>1. a \in Int /\ b \in Int /\ a <= b
    BY <1>2
  <2> HIDE DEF a, b
  <2>2. a - (a % Window) <= b - (b % Window)
    BY <2>1, SamplesAssumption
  <2> QED BY <2>2 DEF Truncate, a, b
<1> QED BY <1>1, <1>2

(* A sum of zeros.                                                         *)
LEMMA TotalOfZeros ==
  ASSUME NEW s \in Seq(Int), \A i \in 1..Len(s) : s[i] = 0
  PROVE  Total(s) = 0
<1>1. PICK g : Sums(g, s)
  BY TotalUnfolds
<1>2. PICK N : N \in Nat /\ N = Len(s)
  OBVIOUS
<1>3. g[0] \in {0}
  BY <1>1 DEF Sums
<1>4. \A i \in 1..N : g[i - 1] \in {0} => g[i] \in {0}
  BY <1>1, <1>2 DEF Sums
<1>5. \A i \in 0..N : g[i] \in {0}
  <2> DEFINE V == {0}
  <2>1. g[0] \in V /\ \A i \in 1..N : g[i - 1] \in V => g[i] \in V
    BY <1>3, <1>4
  <2> HIDE DEF V
  <2>2. \A i \in 0..N : g[i] \in V
    BY <1>2, <2>1, Typed
  <2> QED BY <2>2 DEF V
<1> QED BY <1>1, <1>2, <1>5 DEF Sums

(* One sample more: it counts in its own window only.                      *)
LEMMA OneMore ==
  ASSUME NEW samples \in Seq(Samples), NEW n \in 0..(Len(samples) - 1), NEW t
  PROVE  /\ Speeds(samples, n, t) \in Seq(Int)
         /\ Cardinality(Of(samples, n, t)) \in Nat
         /\ Truncate(samples[n + 1]) = t =>
              /\ Cardinality(Of(samples, n + 1, t)) = Cardinality(Of(samples, n, t)) + 1
              /\ Total(Speeds(samples, n + 1, t))
                   = Total(Speeds(samples, n, t)) + samples[n + 1].speed
         /\ Truncate(samples[n + 1]) # t =>
              /\ Of(samples, n + 1, t) = Of(samples, n, t)
              /\ Total(Speeds(samples, n + 1, t)) = Total(Speeds(samples, n, t))
<1>1. PICK N : N \in Nat /\ N = Len(samples) /\ \A i \in 1..N : samples[i] \in Samples
  OBVIOUS
<1>2. n \in Nat /\ n + 1 \in 1..N /\ \A j \in 1..(n + 1) : j \in 1..N /\ (j \in 1..n \/ j = n + 1)
  BY <1>1
<1> DEFINE v == Speeds(samples, n, t)
           x == IF Truncate(samples[n + 1]) = t THEN samples[n + 1].speed ELSE 0
<1>3. \A i \in 1..N : samples[i].speed \in Int
  BY <1>1 DEF Samples
<1>4. v \in Seq(Int) /\ x \in Int /\ Len(v) = n
  BY <1>1, <1>2, <1>3 DEF Speeds
<1>5. Speeds(samples, n + 1, t) = Append(v, x)
  <2> DEFINE w == Speeds(samples, n + 1, t)
  <2>1. w = [j \in 1..(n + 1) |-> IF j = n + 1 THEN x ELSE v[j]]
    BY <1>2 DEF Speeds
  <2>2. w \in Seq(Int) /\ Len(w) = n + 1 /\ w[n + 1] = x /\ \A j \in 1..n : w[j] = v[j]
    <3> HIDE DEF w, v, x
    <3>1. \A j \in 1..(n + 1) : (IF j = n + 1 THEN x ELSE v[j]) \in Int
      BY <1>2, <1>4
    <3> QED BY <1>2, <1>4, <2>1, <3>1
  <2> HIDE DEF w, v, x
  <2>3. w = Append(v, x)
    <3>1. /\ Append(v, x) \in Seq(Int) /\ Len(Append(v, x)) = n + 1 /\ Append(v, x)[n + 1] = x
          /\ \A j \in 1..n : Append(v, x)[j] = v[j]
      BY <1>2, <1>4
    <3>2. \A j \in 1..(n + 1) : w[j] = Append(v, x)[j]
      BY <1>2, <2>2, <3>1
    <3> QED BY <1>2, <2>2, <3>1, <3>2, SeqEqual
  <2> QED BY <2>3 DEF w
<1>6. Total(v) \in Int /\ Total(Speeds(samples, n + 1, t)) = Total(v) + x
  <2> HIDE DEF v, x
  <2> QED BY <1>4, <1>5, TotalAppend
<1>7. IsFiniteSet(Of(samples, n, t)) /\ Cardinality(Of(samples, n, t)) \in Nat
  <2>1. Of(samples, n, t) \subseteq 1..n /\ IsFiniteSet(1..n)
    BY <1>2, FS_Interval DEF Of
  <2> QED BY <2>1, FS_Subset, FS_CardinalityType
<1>8. n + 1 \notin Of(samples, n, t)
  BY <1>2 DEF Of
<1>9. Truncate(samples[n + 1]) = t => Of(samples, n + 1, t) = Of(samples, n, t) \cup {n + 1}
  BY <1>2 DEF Of
<1>10. Truncate(samples[n + 1]) # t => Of(samples, n + 1, t) = Of(samples, n, t)
  BY <1>2 DEF Of
<1>11. Cardinality(Of(samples, n, t) \cup {n + 1}) = Cardinality(Of(samples, n, t)) + 1
  BY <1>7, <1>8, FS_AddElement
<1>12. Truncate(samples[n + 1]) = t => x = samples[n + 1].speed
  OBVIOUS
<1>13. Truncate(samples[n + 1]) # t => x = 0
  OBVIOUS
<1>14. v = Speeds(samples, n, t)
  OBVIOUS
<1> HIDE DEF v, x
<1>15. Total(Speeds(samples, n + 1, t)) = Total(Speeds(samples, n, t)) + x
  BY <1>6, <1>14
<1>16. Total(Speeds(samples, n, t)) + 0 = Total(Speeds(samples, n, t))
  BY <1>6, <1>14
<1>17. Cardinality(Of(samples, n + 1, t)) = Cardinality(Of(samples, n, t)) + 1
       \/ Truncate(samples[n + 1]) # t
  BY <1>9, <1>11, Zenon
<1> QED BY <1>4, <1>7, <1>10, <1>12, <1>13, <1>14, <1>15, <1>16, <1>17, Zenon

Buckets == [start : Int, sum : Int, count : Nat]

(* A sample joins the last bucket or opens one.                            *)
LEMMA BucketedFacts ==
  ASSUME NEW b \in Seq(Buckets), NEW s \in Samples
  PROVE  /\ Bucketed(b, s) \in Seq(Buckets) /\ Len(Bucketed(b, s)) > 0
         /\ b # <<>> /\ b[Len(b)].start = Truncate(s) =>
              /\ Len(Bucketed(b, s)) = Len(b)
              /\ \A k \in 1..(Len(b) - 1) : Bucketed(b, s)[k] = b[k]
              /\ Bucketed(b, s)[Len(b)] = [start |-> Truncate(s), sum |-> b[Len(b)].sum + s.speed,
                                           count |-> b[Len(b)].count + 1]
         /\ ~(b # <<>> /\ b[Len(b)].start = Truncate(s)) =>
              /\ Len(Bucketed(b, s)) = Len(b) + 1
              /\ \A k \in 1..Len(b) : Bucketed(b, s)[k] = b[k]
              /\ Bucketed(b, s)[Len(b) + 1]
                   = [start |-> Truncate(s), sum |-> s.speed, count |-> 1]
<1> DEFINE L == Len(b)
           new == [start |-> Truncate(s), sum |-> s.speed, count |-> 1]
<1>1. s.wall \in Int /\ s.speed \in Int
  BY DEF Samples
<1>2. Truncate(s) \in Int
  BY <1>1, TruncateFacts
<1>3. new \in Buckets
  BY <1>1, <1>2 DEF Buckets
<1>4. L \in Nat /\ (b # <<>> <=> L > 0) /\ \A k \in 1..L : b[k] \in Buckets
  OBVIOUS
<1>5. CASE b # <<>> /\ b[L].start = Truncate(s)
  <2> DEFINE more == [start |-> b[L].start, sum |-> b[L].sum + s.speed, count |-> b[L].count + 1]
  <2>1. L \in 1..L /\ b[L] \in Buckets
    BY <1>4, <1>5
  <2>2. more \in Buckets
    BY <1>1, <2>1 DEF Buckets
  <2>3. Bucketed(b, s) = [b EXCEPT ![L] = more]
    BY <1>5 DEF Bucketed, Last
  <2>4. more = [start |-> Truncate(s), sum |-> b[L].sum + s.speed, count |-> b[L].count + 1]
    BY <1>5
  <2> HIDE DEF more
  <2>5. /\ [b EXCEPT ![L] = more] \in Seq(Buckets) /\ Len([b EXCEPT ![L] = more]) = L
        /\ [b EXCEPT ![L] = more][L] = more
        /\ \A k \in 1..(L - 1) : [b EXCEPT ![L] = more][k] = b[k]
    BY <1>4, <2>1, <2>2
  <2> QED BY <1>4, <1>5, <2>3, <2>4, <2>5
<1>6. CASE ~(b # <<>> /\ b[L].start = Truncate(s))
  <2>1. Bucketed(b, s) = Append(b, new)
    BY <1>6 DEF Bucketed, Last
  <2> HIDE DEF new
  <2>2. /\ Append(b, new) \in Seq(Buckets) /\ Len(Append(b, new)) = L + 1
        /\ Append(b, new)[L + 1] = new
        /\ \A k \in 1..L : Append(b, new)[k] = b[k]
    BY <1>3, <1>4
  <2> QED BY <1>4, <1>6, <2>1, <2>2 DEF new
<1> QED BY <1>5, <1>6

(* The buckets after each sample.                                          *)
BucketsBySample(b, samples) ==
  /\ b \in [0..Len(samples) -> Seq(Buckets)] /\ b[0] = <<>>
  /\ \A i \in 1..Len(samples) : b[i] = Bucketed(b[i - 1], samples[i])
  /\ Folded(Bucketed, <<>>, samples) = b[Len(samples)]

(* aggregateThroughputSamples puts sample by sample into buckets.          *)
LEMMA BucketsUnfold ==
  ASSUME NEW samples \in Seq(Samples)
  PROVE  \E b : BucketsBySample(b, samples)
<1>1. PICK N : /\ N \in Nat /\ N = Len(samples)
               /\ \A i \in 1..N : samples[i] \in Samples
  OBVIOUS
<1> DEFINE V == Seq(Buckets)
           Step(i, v) == Bucketed(v, samples[i])
           Def(k) == k = [i \in 0..N |-> IF i = 0 THEN <<>> ELSE Step(i, k[i - 1])]
           F == [i \in 1..N |-> [v \in V |-> Step(i, v)]]
           g == CHOOSE k : Def(k)
<1>2. <<>> \in V
  OBVIOUS
<1>3. Folded(Bucketed, <<>>, samples) = g[N]
  BY <1>1 DEF Folded
<1>4. \A i \in 1..N : \A v \in V : Step(i, v) \in V
  BY <1>1, BucketedFacts
<1> HIDE DEF Step, V
<1>5. \E k : Def(k)
  <2>1. F \in [1..N -> [V -> V]]
    BY <1>4
  <2> HIDE DEF F
  <2>2. Computable(V, <<>>, N, F)
    BY <1>1, <1>2, <2>1, Recursion, Zenon
  <2>3. PICK k : /\ k \in [0..N -> V]
                 /\ k[0] = <<>>
                 /\ \A i \in 1..N : k[i] = F[i][k[i - 1]]
    BY <2>2, Zenon DEF Computable, Computes
  <2>4. ASSUME NEW i \in 1..N PROVE k[i] = Step(i, k[i - 1])
    <3>1. i - 1 \in 0..N
      BY <1>1
    <3>2. k[i - 1] \in V
      BY <2>3, <3>1, Zenon
    <3>3. F[i] = [v \in V |-> Step(i, v)]
      BY DEF F
    <3> QED BY <2>3, <3>2, <3>3, Zenon
  <2>5. \A i \in 0..N : k[i] = IF i = 0 THEN <<>> ELSE Step(i, k[i - 1])
    BY <1>1, <2>3, <2>4
  <2>6. k = [i \in 0..N |-> k[i]]
    BY <2>3
  <2>7. Def(k)
    BY <2>5, <2>6
  <2> HIDE DEF Def
  <2> QED BY <2>7
<1>6. Def(g)
  <2> HIDE DEF Def
  <2> QED BY <1>5
<1> HIDE DEF g
<1>7. g[0] = <<>> /\ \A i \in 1..N : g[i] = Step(i, g[i - 1])
  <2>1. \A i \in 0..N : g[i] = IF i = 0 THEN <<>> ELSE Step(i, g[i - 1])
    BY <1>6, Zenon
  <2>2. 0 \in 0..N /\ \A i \in 1..N : i \in 0..N /\ i # 0
    BY <1>1
  <2> QED BY <2>1, <2>2, Zenon
<1>8. \A i \in 0..N : g[i] \in V
  <2>1. \A i \in 1..N : g[i - 1] \in V => g[i] \in V
    BY <1>4, <1>7
  <2>2. g[0] \in V
    BY <1>2, <1>7
  <2> QED BY <1>1, <2>1, <2>2, Typed
<1>9. g \in [0..N -> V]
  BY <1>6, <1>8
<1> QED BY <1>1, <1>3, <1>7, <1>9 DEF Step, V, BucketsBySample

(* The buckets of the first n samples: one for each window, in its order,  *)
(* with all its samples.                                                   *)
ChartOf(b, samples, n) ==
  /\ b \in Seq(Buckets)
  /\ IF n = 0 THEN b = <<>> ELSE Len(b) > 0 /\ b[Len(b)].start = Truncate(samples[n])
  /\ {b[k].start : k \in 1..Len(b)} = {Truncate(samples[j]) : j \in 1..n}
  /\ \A j, k \in 1..Len(b) : j < k => b[j].start < b[k].start
  /\ \A k \in 1..Len(b) : /\ b[k].count = Cardinality(Of(samples, n, b[k].start))
                          /\ b[k].sum = Total(Speeds(samples, n, b[k].start))

(* One sample more, unless the clock is set back.                          *)
LEMMA ChartGrows ==
  ASSUME NEW samples \in Seq(Samples), WallNeverSetBack(samples),
         NEW n \in 0..(Len(samples) - 1), NEW b, ChartOf(b, samples, n)
  PROVE  ChartOf(Bucketed(b, samples[n + 1]), samples, n + 1)
<1> DEFINE s == samples[n + 1]
           t == Truncate(s)
           c == Bucketed(b, s)
           L == Len(b)
<1>1. PICK N : /\ N \in Nat /\ N = Len(samples) /\ DOMAIN samples = 1..N
               /\ \A i \in 1..N : samples[i] \in Samples
  OBVIOUS
<1>2. n \in Nat /\ n + 1 \in 1..N /\ n + 1 # 0 /\ s \in Samples
  BY <1>1
<1>3. b \in Seq(Buckets) /\ L \in Nat /\ (b # <<>> <=> L > 0) /\ (L > 0 <=> n > 0)
  BY <1>2 DEF ChartOf
<1>4. /\ t \in Int
      /\ \A j \in 1..n : Truncate(samples[j]) \in Int /\ Truncate(samples[j]) <= t
  <2>1. \A j \in 1..N : samples[j].wall \in Int
    BY <1>1 DEF Samples
  <2>2. \A j \in 1..n : j \in 1..N /\ samples[j].wall <= s.wall
    BY <1>1, <1>2 DEF WallNeverSetBack
  <2> HIDE DEF s
  <2>3. s.wall \in Int
    BY <1>2 DEF Samples
  <2> QED BY <2>1, <2>2, <2>3, TruncateFacts
<1>5. \A k \in 1..L : b[k].start \in Int /\ b[k].start <= t
  <2> SUFFICES ASSUME NEW k \in 1..L PROVE b[k].start \in Int /\ b[k].start <= t
    OBVIOUS
  <2>1. b[k].start \in {Truncate(samples[j]) : j \in 1..n}
    BY DEF ChartOf
  <2> HIDE DEF t
  <2> QED BY <1>4, <2>1
<1>6. \A k \in 1..(n + 1) : k \in 1..n \/ k = n + 1
  BY <1>2
<1>7. \A u \in Int : u # t => /\ Of(samples, n + 1, u) = Of(samples, n, u)
                              /\ Total(Speeds(samples, n + 1, u)) = Total(Speeds(samples, n, u))
  BY <1>1, OneMore
<1>8. /\ Cardinality(Of(samples, n + 1, t)) = Cardinality(Of(samples, n, t)) + 1
      /\ Total(Speeds(samples, n + 1, t)) = Total(Speeds(samples, n, t)) + s.speed
  BY <1>1, OneMore
<1>9. {Truncate(samples[j]) : j \in 1..(n + 1)} = {Truncate(samples[j]) : j \in 1..n} \cup {t}
  BY <1>2, <1>6
<1>10. /\ c \in Seq(Buckets) /\ Len(c) > 0
       /\ b # <<>> /\ b[L].start = t =>
            /\ Len(c) = L
            /\ \A k \in 1..(L - 1) : c[k] = b[k]
            /\ c[L] = [start |-> t, sum |-> b[L].sum + s.speed, count |-> b[L].count + 1]
       /\ ~(b # <<>> /\ b[L].start = t) =>
            /\ Len(c) = L + 1
            /\ \A k \in 1..L : c[k] = b[k]
            /\ c[L + 1] = [start |-> t, sum |-> s.speed, count |-> 1]
  BY <1>2, <1>3, BucketedFacts
<1>11. s = samples[n + 1] /\ t = Truncate(samples[n + 1]) /\ c = Bucketed(b, samples[n + 1])
  OBVIOUS
<1>12. CASE b # <<>> /\ b[L].start = t
  <2> HIDE DEF s, t, c
  <2>1. /\ Len(c) = L /\ \A k \in 1..(L - 1) : c[k] = b[k]
        /\ c[L].start = t /\ c[L].sum = b[L].sum + s.speed /\ c[L].count = b[L].count + 1
    BY <1>10, <1>12
  <2>2. L > 0 /\ \A k \in 1..L : k \in 1..(L - 1) \/ k = L
    BY <1>3, <1>12
  <2>3. \A k \in 1..L : c[k].start = b[k].start
    BY <1>12, <2>1, <2>2
  <2>4. {c[k].start : k \in 1..Len(c)} = {Truncate(samples[j]) : j \in 1..(n + 1)}
    <3>1. {c[k].start : k \in 1..L} = {b[k].start : k \in 1..L}
      BY <2>3
    <3>2. L \in 1..L
      BY <2>2
    <3>3. t \in {b[k].start : k \in 1..L}
      BY <1>12, <3>2
    <3>4. {b[k].start : k \in 1..L} = {Truncate(samples[j]) : j \in 1..n}
      BY DEF ChartOf
    <3> QED BY <1>9, <2>1, <3>1, <3>3, <3>4
  <2>5. \A j, k \in 1..Len(c) : j < k => c[j].start < c[k].start
    BY <2>1, <2>3 DEF ChartOf
  <2>6. ASSUME NEW k \in 1..L
        PROVE  /\ c[k].count = Cardinality(Of(samples, n + 1, c[k].start))
               /\ c[k].sum = Total(Speeds(samples, n + 1, c[k].start))
    <3>1. /\ b[k].count = Cardinality(Of(samples, n, b[k].start))
          /\ b[k].sum = Total(Speeds(samples, n, b[k].start))
      BY DEF ChartOf
    <3>2. CASE k = L
      BY <1>8, <1>12, <2>1, <3>1, <3>2
    <3>3. CASE k # L
      <4>1. k \in 1..(L - 1) /\ k < L /\ L \in 1..L
        BY <2>2, <3>3
      <4>2. b[k].start < b[L].start
        BY <4>1 DEF ChartOf
      <4>3. b[k].start # t /\ b[k].start \in Int
        BY <1>4, <1>5, <1>12, <4>2
      <4> QED BY <1>7, <2>1, <3>1, <4>1, <4>3
    <3> QED BY <3>2, <3>3
  <2>7. ChartOf(c, samples, n + 1)
    BY <1>2, <1>10, <1>11, <2>1, <2>2, <2>4, <2>5, <2>6 DEF ChartOf
  <2> QED BY <1>11, <2>7
<1>13. CASE ~(b # <<>> /\ b[L].start = t)
  <2> HIDE DEF s, t, c
  <2>1. /\ Len(c) = L + 1 /\ \A k \in 1..L : c[k] = b[k]
        /\ c[L + 1].start = t /\ c[L + 1].sum = s.speed /\ c[L + 1].count = 1
    BY <1>10, <1>13
  <2>2. \A k \in 1..(L + 1) : k \in 1..L \/ k = L + 1
    BY <1>3
  <2>3. \A k \in 1..L : b[k].start < t
    <3> SUFFICES ASSUME NEW k \in 1..L PROVE b[k].start < t
      OBVIOUS
    <3>1. L \in 1..L /\ L > 0 /\ b[L].start # t /\ b[L].start < t
      BY <1>3, <1>4, <1>5, <1>13
    <3>2. k = L \/ b[k].start < b[L].start
      BY <1>3, <3>1 DEF ChartOf
    <3> QED BY <1>4, <1>5, <3>1, <3>2
  <2>4. {c[k].start : k \in 1..Len(c)} = {Truncate(samples[j]) : j \in 1..(n + 1)}
    <3>1. {c[k].start : k \in 1..(L + 1)} = {b[k].start : k \in 1..L} \cup {t}
      <4>1. \A k \in 1..L : k \in 1..(L + 1) /\ c[k].start = b[k].start
        BY <1>3, <2>1
      <4>2. L + 1 \in 1..(L + 1)
        BY <1>3
      <4> QED BY <2>1, <2>2, <4>1, <4>2
    <3>2. {b[k].start : k \in 1..L} = {Truncate(samples[j]) : j \in 1..n}
      BY DEF ChartOf
    <3> QED BY <1>9, <2>1, <3>1, <3>2
  <2>5. ASSUME NEW j \in 1..(L + 1), NEW k \in 1..(L + 1), j < k
        PROVE  c[j].start < c[k].start
    <3>1. j \in 1..L
      BY <1>3, <2>5
    <3>2. CASE k \in 1..L
      BY <2>1, <2>5, <3>1, <3>2 DEF ChartOf
    <3>3. CASE k = L + 1
      BY <2>1, <2>3, <3>1, <3>3
    <3> QED BY <2>2, <3>2, <3>3
  <2>6. Cardinality(Of(samples, n + 1, t)) = 1 /\ Total(Speeds(samples, n + 1, t)) = s.speed
    <3>1. t \notin {Truncate(samples[j]) : j \in 1..n}
      <4>1. t \notin {b[k].start : k \in 1..L}
        BY <1>4, <1>5, <2>3
      <4> QED BY <4>1 DEF ChartOf
    <3>2. Of(samples, n, t) = {}
      BY <3>1 DEF Of
    <3>3. Speeds(samples, n, t) = [j \in 1..n |-> 0]
      BY <3>1 DEF Speeds
    <3>4. Total(Speeds(samples, n, t)) = 0
      <4>1. [j \in 1..n |-> 0] \in Seq(Int) /\ Len([j \in 1..n |-> 0]) = n
        BY <1>2
      <4>2. \A i \in 1..n : [j \in 1..n |-> 0][i] = 0
        OBVIOUS
      <4> QED BY <3>3, <4>1, <4>2, TotalOfZeros
    <3>5. s.speed \in Int
      BY <1>2 DEF Samples
    <3> QED BY <1>8, <3>2, <3>4, <3>5, FS_EmptySet
  <2>7. ASSUME NEW k \in 1..(L + 1)
        PROVE  /\ c[k].count = Cardinality(Of(samples, n + 1, c[k].start))
               /\ c[k].sum = Total(Speeds(samples, n + 1, c[k].start))
    <3>1. CASE k = L + 1
      BY <2>1, <2>6, <3>1
    <3>2. CASE k \in 1..L
      <4>1. /\ b[k].count = Cardinality(Of(samples, n, b[k].start))
            /\ b[k].sum = Total(Speeds(samples, n, b[k].start))
        BY <3>2 DEF ChartOf
      <4>2. b[k].start # t /\ b[k].start \in Int
        BY <1>4, <1>5, <2>3, <3>2
      <4> QED BY <1>7, <2>1, <3>2, <4>1, <4>2
    <3> QED BY <2>2, <3>1, <3>2
  <2>8. ChartOf(c, samples, n + 1)
    BY <1>2, <1>3, <1>10, <1>11, <2>1, <2>4, <2>5, <2>7 DEF ChartOf
  <2> QED BY <1>11, <2>8
<1> QED BY <1>12, <1>13

(* All samples: the chart before it is cut to MaxPoints.                   *)
LEMMA ChartOfAll ==
  ASSUME NEW samples \in Seq(Samples), WallNeverSetBack(samples),
         NEW b, BucketsBySample(b, samples)
  PROVE  ChartOf(b[Len(samples)], samples, Len(samples))
<1>1. PICK N : N \in Nat /\ N = Len(samples)
  OBVIOUS
<1> DEFINE S == {n \in 0..N : ChartOf(b[n], samples, n)}
<1>2. 0 \in S
  <2>1. <<>> \in Seq(Buckets) /\ Len(<<>>) = 0 /\ 1..0 = {}
    OBVIOUS
  <2>2. ChartOf(<<>>, samples, 0)
    BY <2>1 DEF ChartOf
  <2>3. b[0] = <<>>
    BY DEF BucketsBySample
  <2> QED BY <1>1, <2>2, <2>3
<1>3. ASSUME NEW n \in 0..(N - 1), n \in S PROVE n + 1 \in S
  <2>1. ChartOf(b[n], samples, n)
    BY <1>3
  <2>2. n \in 0..(Len(samples) - 1) /\ n + 1 \in 0..N /\ n + 1 \in 1..N /\ (n + 1) - 1 = n
    BY <1>1
  <2>3. b[n + 1] = Bucketed(b[n], samples[n + 1])
    BY <1>1, <2>2 DEF BucketsBySample
  <2>4. ChartOf(Bucketed(b[n], samples[n + 1]), samples, n + 1)
    BY <2>1, <2>2, ChartGrows, Zenon
  <2> QED BY <2>2, <2>3, <2>4
<1> HIDE DEF S
<1>4. 0..N \subseteq S
  BY <1>1, <1>2, <1>3, InductionTo
<1>5. N \in S
  BY <1>1, <1>4
<1> QED BY <1>1, <1>5 DEF S

(* Of L increasing numbers, L - k are greater than the k-th.               *)
LEMMA GreaterOnes ==
  ASSUME NEW L \in Nat, NEW f, NEW k \in 1..L, \A j \in 1..L : f[j] \in Int,
         \A i, j \in 1..L : i < j => f[i] < f[j]
  PROVE  Cardinality({u \in {f[j] : j \in 1..L} : u > f[k]}) = L - k
<1> DEFINE S == 1..(L - k)
           T == {u \in {f[j] : j \in 1..L} : u > f[k]}
           h == [j \in S |-> f[k + j]]
<1>1. \A j \in S : k + j \in 1..L /\ k < k + j
  OBVIOUS
<1>2. h \in [S -> T]
  <2>1. \A j \in S : f[k + j] \in T
    BY <1>1
  <2> QED BY <2>1
<1>3. \A i, j \in S : h[i] = h[j] => i = j
  <2> SUFFICES ASSUME NEW i \in S, NEW j \in S, h[i] = h[j], i # j PROVE FALSE
    OBVIOUS
  <2>1. f[k + i] = f[k + j]
    OBVIOUS
  <2>2. k + i < k + j \/ k + j < k + i
    OBVIOUS
  <2>3. f[k + i] < f[k + j] \/ f[k + j] < f[k + i]
    BY <1>1, <2>2
  <2>4. f[k + i] \in Int /\ f[k + j] \in Int
    BY <1>1
  <2> QED BY <2>1, <2>3, <2>4
<1>4. \A u \in T : \E j \in S : h[j] = u
  <2> SUFFICES ASSUME NEW u \in T PROVE \E j \in S : h[j] = u
    OBVIOUS
  <2>1. PICK i \in 1..L : u = f[i] /\ f[i] > f[k]
    OBVIOUS
  <2>2. k < i
    <3>1. f[i] \in Int /\ f[k] \in Int
      OBVIOUS
    <3>2. ~(i < k) /\ i # k
      BY <2>1, <3>1
    <3> QED BY <3>2
  <2>3. i - k \in S /\ k + (i - k) = i
    BY <2>2
  <2> QED BY <2>1, <2>3
<1> HIDE DEF h, T, S
<1>5. h \in Bijection(S, T)
  BY <1>2, <1>3, <1>4 DEF Bijection, Injection, Surjection, IsInjective
<1>6. IsFiniteSet(S) /\ Cardinality(S) = L - k
  BY FS_Interval DEF S
<1> QED BY <1>5, <1>6, FS_Bijection DEF ExistsBijection, T

(* The chart is the newest MaxPoints buckets, each at its place.           *)
ShownOf(points, B, d) ==
  /\ B \in Seq(Buckets)
  /\ d \in 0..Len(B) /\ d = IF Len(B) > MaxPoints THEN Len(B) - MaxPoints ELSE 0
  /\ Len(points) = Len(B) - d /\ DOMAIN points = 1..(Len(B) - d)
  /\ \A i \in 1..(Len(B) - d) : points[i] = B[i + d]

(* aggregateThroughputSamples cuts in front.                               *)
LEMMA PointsAreBuckets ==
  ASSUME NEW samples \in Seq(Samples)
  PROVE  \E b, d : /\ BucketsBySample(b, samples)
                   /\ ShownOf(aggregateThroughputSamples(samples), b[Len(samples)], d)
<1>1. PICK b : BucketsBySample(b, samples)
  BY BucketsUnfold
<1>2. PICK N : N \in Nat /\ N = Len(samples)
  OBVIOUS
<1> DEFINE B == b[N]
           L == Len(B)
           d == IF L > MaxPoints THEN L - MaxPoints ELSE 0
<1>3. B \in Seq(Buckets) /\ Folded(Bucketed, <<>>, samples) = B
  <2>1. N \in 0..N
    BY <1>2
  <2> QED BY <1>1, <1>2, <2>1 DEF BucketsBySample
<1>4. MaxPoints \in Nat
  BY SamplesAssumption
<1>5. aggregateThroughputSamples(samples)
        = IF L - MaxPoints > 0 THEN SubSeq(B, (L - MaxPoints) + 1, L) ELSE B
  BY <1>3 DEF aggregateThroughputSamples
<1> HIDE DEF B
<1>6. L \in Nat /\ d \in Nat /\ d <= L
  BY <1>3, <1>4
<1>7. /\ Len(aggregateThroughputSamples(samples)) = L - d
      /\ DOMAIN aggregateThroughputSamples(samples) = 1..(L - d)
      /\ \A i \in 1..(L - d) : aggregateThroughputSamples(samples)[i] = B[i + d]
  <2>1. CASE L > MaxPoints
    <3>1. aggregateThroughputSamples(samples) = SubSeq(B, d + 1, L)
      BY <1>4, <1>5, <1>6, <2>1
    <3> HIDE DEF d
    <3>2. /\ Len(SubSeq(B, d + 1, L)) = L - d
          /\ DOMAIN SubSeq(B, d + 1, L) = 1..(L - d)
          /\ \A i \in 1..(L - d) : SubSeq(B, d + 1, L)[i] = B[i + d]
      BY <1>3, <1>6
    <3> QED BY <3>1, <3>2
  <2>2. CASE ~(L > MaxPoints)
    <3>1. aggregateThroughputSamples(samples) = B /\ d = 0
      BY <1>4, <1>5, <1>6, <2>2
    <3> QED BY <1>3, <1>6, <3>1
  <2> QED BY <2>1, <2>2
<1>8. d \in 0..L
  BY <1>6
<1>9. ShownOf(aggregateThroughputSamples(samples), B, d)
  <2>1. d = IF L > MaxPoints THEN L - MaxPoints ELSE 0
    OBVIOUS
  <2> HIDE DEF d
  <2> QED BY <1>3, <1>7, <1>8, <2>1 DEF ShownOf
<1> HIDE DEF d
<1> QED BY <1>1, <1>2, <1>9 DEF B

(* One point for each of the newest MaxPoints windows, in their order,     *)
(* with all its samples.                                                   *)
ChartRight(points, samples) ==
  LET N == Len(samples)
      starts == {Truncate(samples[i]) : i \in 1..N}
  IN  /\ {points[i].start : i \in DOMAIN points} =
           {t \in starts : Cardinality({u \in starts : u > t}) < MaxPoints}
      /\ \A i \in DOMAIN points :
           /\ \A j \in 1..(i - 1) : points[j].start < points[i].start
           /\ points[i].count = Cardinality(Of(samples, N, points[i].start))
           /\ points[i].sum = Total(Speeds(samples, N, points[i].start))

(* The chart of samples that are in the order of the clock; its last point *)
(* is of the newest sample.                                                *)
LEMMA ChartIsRight ==
  ASSUME NEW samples \in Seq(Samples), samples # <<>>
  PROVE  /\ Len(aggregateThroughputSamples(samples)) <= MaxPoints
         /\ WallNeverSetBack(samples) =>
              LET points == aggregateThroughputSamples(samples)
                  N == Len(samples)
              IN  /\ ChartRight(points, samples)
                  /\ Last(points).count = Cardinality(Of(samples, N, Truncate(samples[N])))
                  /\ Last(points).sum = Total(Speeds(samples, N, Truncate(samples[N])))
<1> DEFINE points == aggregateThroughputSamples(samples)
           N == Len(samples)
           starts == {Truncate(samples[i]) : i \in 1..N}
<1>0. PICK b, d : BucketsBySample(b, samples) /\ ShownOf(points, b[N], d)
  BY PointsAreBuckets
<1> DEFINE B == b[N]
           L == Len(B)
<1>1. /\ L \in Nat /\ d \in Nat /\ d <= L
      /\ B \in Seq(Buckets)
      /\ d = IF L > MaxPoints THEN L - MaxPoints ELSE 0
      /\ Len(points) = L - d
      /\ DOMAIN points = 1..(L - d)
      /\ \A i \in 1..(L - d) : points[i] = B[i + d]
  <2>1. ShownOf(points, B, d)
    BY <1>0
  <2> HIDE DEF points, B
  <2>2. L \in Nat
    BY <2>1 DEF ShownOf
  <2>3. d \in Nat /\ d <= L
    BY <2>1, <2>2 DEF ShownOf
  <2> QED BY <2>1, <2>2, <2>3 DEF ShownOf
<1>2. MaxPoints \in Nat \ {0} /\ N \in Nat \ {0}
  BY SamplesAssumption
<1> HIDE DEF points, L
<1>3. Len(points) <= MaxPoints
  BY <1>1, <1>2
<1>4. ASSUME WallNeverSetBack(samples)
      PROVE  /\ ChartRight(points, samples)
             /\ Last(points).count = Cardinality(Of(samples, N, Truncate(samples[N])))
             /\ Last(points).sum = Total(Speeds(samples, N, Truncate(samples[N])))
  <2>1. ChartOf(B, samples, N)
    BY <1>0, <1>4, ChartOfAll
  <2>2. L > 0 /\ B[L].start = Truncate(samples[N])
    BY <1>1, <1>2, <2>1 DEF ChartOf, L
  <2>3. \A i \in 1..(L - d) : i + d \in 1..L /\ points[i] = B[i + d]
    BY <1>1
  <2>4. /\ {B[k].start : k \in 1..L} = starts
        /\ \A j, k \in 1..L : j < k => B[j].start < B[k].start
        /\ \A k \in 1..L : /\ B[k].count = Cardinality(Of(samples, N, B[k].start))
                           /\ B[k].sum = Total(Speeds(samples, N, B[k].start))
    BY <1>1, <2>1 DEF ChartOf, L
  <2>5. \A k \in 1..L : B[k].start \in Int
    <3>1. \A k \in 1..L : B[k] \in Buckets
      BY <1>1 DEF L
    <3> QED BY <3>1 DEF Buckets
  <2> HIDE DEF B, N, starts
  <2>6. \A k \in 1..L : Cardinality({u \in starts : u > B[k].start}) = L - k
    <3> SUFFICES ASSUME NEW k \in 1..L
                 PROVE  Cardinality({u \in starts : u > B[k].start}) = L - k
      OBVIOUS
    <3> DEFINE f == [j \in 1..L |-> B[j].start]
    <3>1. \A j \in 1..L : f[j] = B[j].start
      OBVIOUS
    <3> HIDE DEF f
    <3>4. \A j \in 1..L : f[j] \in Int
      BY <2>5, <3>1
    <3>5. \A i, j \in 1..L : i < j => f[i] < f[j]
      BY <2>4, <3>1
    <3>2. Cardinality({u \in {f[j] : j \in 1..L} : u > f[k]}) = L - k
      BY <1>1, <3>4, <3>5, GreaterOnes
    <3>3. {f[j] : j \in 1..L} = starts
      BY <2>4, <3>1
    <3> QED BY <3>1, <3>2, <3>3
  <2>7. {points[i].start : i \in DOMAIN points} =
           {t \in starts : Cardinality({u \in starts : u > t}) < MaxPoints}
    <3>1. ASSUME NEW i \in 1..(L - d)
          PROVE  /\ points[i].start \in starts
                 /\ Cardinality({u \in starts : u > points[i].start}) < MaxPoints
      <4>1. points[i].start = B[i + d].start /\ i + d \in 1..L
        BY <2>3
      <4>2. Cardinality({u \in starts : u > B[i + d].start}) = L - (i + d)
        BY <2>6, <4>1
      <4>3. L - (i + d) < MaxPoints
        <5>1. i \in Int /\ i > 0 /\ L \in Int /\ d \in Int /\ d >= L - MaxPoints /\ MaxPoints \in Int
          BY <1>1, <1>2
        <5> QED BY <5>1
      <4>4. B[i + d].start \in starts
        BY <2>4, <4>1
      <4> QED BY <4>1, <4>2, <4>3, <4>4
    <3>2. ASSUME NEW t \in starts, Cardinality({u \in starts : u > t}) < MaxPoints
          PROVE  \E i \in 1..(L - d) : points[i].start = t
      <4>1. PICK k \in 1..L : t = B[k].start
        BY <2>4
      <4>2. L - k < MaxPoints
        BY <2>6, <3>2, <4>1
      <4>3. k - d \in 1..(L - d) /\ (k - d) + d = k
        BY <1>1, <1>2, <4>2
      <4> QED BY <2>3, <4>1, <4>3
    <3> DEFINE newest == {t \in starts : Cardinality({u \in starts : u > t}) < MaxPoints}
    <3>3. \A t : t \in newest <=> t \in starts /\ Cardinality({u \in starts : u > t}) < MaxPoints
      OBVIOUS
    <3> HIDE DEF newest
    <3>4. \A i \in 1..(L - d) : points[i].start \in newest
      BY <3>1, <3>3
    <3>5. \A t \in newest : \E i \in 1..(L - d) : points[i].start = t
      BY <3>2, <3>3
    <3>6. {points[i].start : i \in 1..(L - d)} = newest
      BY <3>4, <3>5
    <3> QED BY <1>1, <3>6 DEF newest
  <2>8. ASSUME NEW i \in 1..(L - d)
        PROVE  /\ \A j \in 1..(i - 1) : points[j].start < points[i].start
               /\ points[i].count = Cardinality(Of(samples, N, points[i].start))
               /\ points[i].sum = Total(Speeds(samples, N, points[i].start))
    <3>1. \A j \in 1..(i - 1) : j \in 1..(L - d) /\ j + d < i + d
      BY <1>1
    <3>2. \A j \in 1..(i - 1) : points[j].start < points[i].start
      BY <2>3, <2>4, <3>1
    <3> QED BY <2>3, <2>4, <3>2
  <2>9. Last(points) = B[L]
    <3>1. L - d \in 1..(L - d) /\ (L - d) + d = L
      BY <1>1, <1>2, <2>2
    <3>2. Last(points) = points[L - d]
      BY <1>1 DEF Last
    <3> QED BY <2>3, <3>1, <3>2
  <2>10. L \in 1..L
    BY <1>1, <2>2
  <2>11. ChartRight(points, samples)
    BY <1>1, <2>7, <2>8 DEF ChartRight, N, starts
  <2> QED BY <2>2, <2>4, <2>9, <2>10, <2>11
<1> QED BY <1>3, <1>4 DEF points

-----------------------------------------------------------------------------
(* The averages.                                                           *)

Items == [pid : {f.pid : f \in Flows}, sum : Int, total : {f.total : f \in Flows}]

(* One item for each process.                                              *)
ItemLists == {items \in Seq(Items) :
                \A j, k \in 1..Len(items) : items[j].pid = items[k].pid => j = k}

SumOf(items) == Total([k \in DOMAIN items |-> items[k].sum])

(* A flow adds its speed to the sums and opens at most the item missing.   *)
LEMMA MergedFacts ==
  ASSUME NEW items \in ItemLists, NEW flow \in Flows
  PROVE  /\ Merged(items, flow) \in ItemLists
         /\ SumOf(items) \in Int
         /\ SumOf(Merged(items, flow)) = SumOf(items) + flow.speed
<1> DEFINE L == Len(items)
           I == {i \in 1..L : items[i].pid = flow.pid}
           at == IF I # {} THEN Min(I) ELSE 0
           before == IF at = 0 THEN 0 ELSE items[at].sum
           item == [pid |-> flow.pid, sum |-> before + flow.speed, total |-> flow.total]
           s == [k \in DOMAIN items |-> items[k].sum]
<1>1. /\ items \in Seq(Items) /\ L \in Nat /\ DOMAIN items = 1..L
      /\ \A k \in 1..L : items[k] \in Items
      /\ \A j, k \in 1..L : items[j].pid = items[k].pid => j = k
  BY DEF ItemLists
<1>2. Merged(items, flow) = IF at = 0 THEN Append(items, item) ELSE [items EXCEPT ![at] = item]
  BY DEF Merged, SelectInSeq
<1>3. flow.speed \in Int
  BY SamplesAssumption
<1>4. \/ at = 0 /\ \A k \in 1..L : items[k].pid # flow.pid
      \/ at \in 1..L /\ items[at].pid = flow.pid
  <2>1. CASE I = {}
    BY <2>1
  <2>2. CASE I # {}
    <3>1. I \subseteq Nat /\ \A i \in I : i \in 1..L /\ items[i].pid = flow.pid
      BY <1>1
    <3>2. at = Min(I)
      BY <2>2
    <3> HIDE DEF I, at
    <3>3. \E m \in I : \A n \in I : m <= n
      BY <2>2, <3>1, LeastNatural
    <3>4. at \in I
      BY <3>2, <3>3 DEF Min
    <3> QED BY <3>1, <3>4
  <2> QED BY <2>1, <2>2
<1> HIDE DEF at
<1>5. s \in Seq(Int) /\ Len(s) = L /\ \A k \in 1..L : s[k] = items[k].sum
  <2>1. \A k \in 1..L : items[k].sum \in Int
    BY <1>1 DEF Items
  <2> QED BY <1>1, <2>1
<1>6. before \in Int /\ item \in Items /\ item.pid = flow.pid /\ item.sum = before + flow.speed
  <2>1. before \in Int
    BY <1>1, <1>4 DEF Items
  <2> HIDE DEF before
  <2> QED BY <1>3, <2>1 DEF Items
<1>7. s = [k \in DOMAIN items |-> items[k].sum]
  OBVIOUS
<1>8. at = 0 => before = 0
  OBVIOUS
<1>9. at # 0 => before = items[at].sum
  OBVIOUS
<1> HIDE DEF item, before, s
<1>10. Total(s) \in Int
  BY <1>5, TotalAppend
<1>11. CASE at = 0
  <2> DEFINE all == Append(items, item)
  <2>1. /\ all \in Seq(Items) /\ Len(all) = L + 1 /\ DOMAIN all = 1..(L + 1)
        /\ all[L + 1] = item /\ \A k \in 1..L : all[k] = items[k]
    BY <1>1, <1>6
  <2>2. all = Merged(items, flow)
    BY <1>2, <1>11
  <2> HIDE DEF all
  <2>3. \A k \in 1..(L + 1) : k \in 1..L \/ k = L + 1
    BY <1>1
  <2>4. all \in ItemLists
    <3>1. \A j, k \in 1..(L + 1) : all[j].pid = all[k].pid => j = k
      BY <1>1, <1>4, <1>6, <1>11, <2>1, <2>3
    <3> QED BY <2>1, <3>1 DEF ItemLists
  <2>5. [k \in DOMAIN all |-> all[k].sum] = Append(s, flow.speed)
    <3> DEFINE w == [k \in DOMAIN all |-> all[k].sum]
    <3>1. item.sum = flow.speed
      BY <1>3, <1>6, <1>8, <1>11
    <3>2. \A k \in 1..(L + 1) : all[k].sum \in Int
      BY <1>3, <1>5, <2>1, <2>3, <3>1
    <3>3. w \in Seq(Int) /\ Len(w) = L + 1
      BY <1>1, <2>1, <3>2
    <3>4. /\ Append(s, flow.speed) \in Seq(Int) /\ Len(Append(s, flow.speed)) = L + 1
          /\ Append(s, flow.speed)[L + 1] = flow.speed
          /\ \A k \in 1..L : Append(s, flow.speed)[k] = s[k]
      BY <1>1, <1>3, <1>5
    <3>5. \A k \in 1..(L + 1) : w[k] = all[k].sum
      BY <2>1
    <3> HIDE DEF w
    <3>6. \A k \in 1..(L + 1) : w[k] = Append(s, flow.speed)[k]
      BY <1>5, <2>1, <2>3, <3>1, <3>4, <3>5
    <3>7. w = Append(s, flow.speed)
      BY <3>3, <3>4, <3>6, SeqEqual
    <3> QED BY <3>7 DEF w
  <2>6. Total(Append(s, flow.speed)) = Total(s) + flow.speed
    BY <1>3, <1>5, TotalAppend
  <2> QED BY <1>7, <1>10, <2>2, <2>4, <2>5, <2>6 DEF SumOf
<1>12. CASE at \in 1..L /\ items[at].pid = flow.pid
  <2> DEFINE all == [items EXCEPT ![at] = item]
  <2>1. /\ all \in Seq(Items) /\ Len(all) = L /\ DOMAIN all = 1..L
        /\ all[at] = item /\ \A k \in 1..L : k # at => all[k] = items[k]
    BY <1>1, <1>6, <1>12
  <2>2. all = Merged(items, flow) /\ at # 0
    BY <1>2, <1>12
  <2> HIDE DEF all
  <2>3. all \in ItemLists
    <3>1. \A k \in 1..L : all[k].pid = items[k].pid
      BY <1>6, <1>12, <2>1
    <3>2. \A j, k \in 1..L : all[j].pid = all[k].pid => j = k
      BY <1>1, <3>1
    <3> QED BY <2>1, <3>2 DEF ItemLists
  <2>4. [k \in DOMAIN all |-> all[k].sum] = [s EXCEPT ![at] = s[at] + flow.speed]
    <3> DEFINE w == [k \in DOMAIN all |-> all[k].sum]
               v == [s EXCEPT ![at] = s[at] + flow.speed]
    <3>1. item.sum = s[at] + flow.speed
      BY <1>5, <1>6, <1>9, <1>12, <2>2
    <3>2. \A k \in 1..L : all[k].sum = IF k = at THEN s[at] + flow.speed ELSE s[k]
      BY <1>5, <2>1, <3>1
    <3>3. DOMAIN s = 1..L
      BY <1>1, <1>5
    <3>4. v = [k \in 1..L |-> IF k = at THEN s[at] + flow.speed ELSE s[k]]
      BY <3>3
    <3>5. w = [k \in 1..L |-> IF k = at THEN s[at] + flow.speed ELSE s[k]]
      BY <2>1, <3>2
    <3> QED BY <3>4, <3>5
  <2>5. Total([s EXCEPT ![at] = s[at] + flow.speed]) = Total(s) + flow.speed
    <3>1. s[at] \in Int /\ s[at] + flow.speed \in Int
      BY <1>3, <1>5, <1>12
    <3> DEFINE y == s[at] + flow.speed
    <3>2. y \in Int /\ y - s[at] = flow.speed
      BY <1>3, <3>1
    <3> HIDE DEF y
    <3>3. Total([s EXCEPT ![at] = y]) = Total(s) + (y - s[at])
      BY <1>5, <1>12, <3>2, TotalChanged
    <3> QED BY <3>2, <3>3 DEF y
  <2> QED BY <1>7, <1>10, <2>2, <2>3, <2>4, <2>5 DEF SumOf
<1> QED BY <1>4, <1>11, <1>12

(* The items after each flow of an answer.                                 *)
ItemsByFlow(g, items, answer) ==
  /\ g \in [0..Len(answer) -> ItemLists] /\ g[0] = items
  /\ \A i \in 1..Len(answer) : g[i] = Merged(g[i - 1], answer[i])
  /\ Folded(Merged, items, answer) = g[Len(answer)]

(* An answer is merged flow by flow.                                       *)
LEMMA AnswerUnfolds ==
  ASSUME NEW items \in ItemLists, NEW answer \in Seq(Flows)
  PROVE  \E g : ItemsByFlow(g, items, answer)
<1>1. PICK N : /\ N \in Nat /\ N = Len(answer)
               /\ \A i \in 1..N : answer[i] \in Flows
  OBVIOUS
<1> DEFINE V == ItemLists
           Step(i, v) == Merged(v, answer[i])
           Def(k) == k = [i \in 0..N |-> IF i = 0 THEN items ELSE Step(i, k[i - 1])]
           F == [i \in 1..N |-> [v \in V |-> Step(i, v)]]
           g == CHOOSE k : Def(k)
<1>2. items \in V
  OBVIOUS
<1>3. Folded(Merged, items, answer) = g[N]
  BY <1>1 DEF Folded
<1>4. \A i \in 1..N : \A v \in V : Step(i, v) \in V
  BY <1>1, MergedFacts
<1> HIDE DEF Step, V
<1>5. \E k : Def(k)
  <2>1. F \in [1..N -> [V -> V]]
    BY <1>4
  <2> HIDE DEF F
  <2>2. Computable(V, items, N, F)
    BY <1>1, <1>2, <2>1, Recursion, Zenon
  <2>3. PICK k : /\ k \in [0..N -> V]
                 /\ k[0] = items
                 /\ \A i \in 1..N : k[i] = F[i][k[i - 1]]
    BY <2>2, Zenon DEF Computable, Computes
  <2>4. ASSUME NEW i \in 1..N PROVE k[i] = Step(i, k[i - 1])
    <3>1. i - 1 \in 0..N
      BY <1>1
    <3>2. k[i - 1] \in V
      BY <2>3, <3>1, Zenon
    <3>3. F[i] = [v \in V |-> Step(i, v)]
      BY DEF F
    <3> QED BY <2>3, <3>2, <3>3, Zenon
  <2>5. \A i \in 0..N : k[i] = IF i = 0 THEN items ELSE Step(i, k[i - 1])
    BY <1>1, <2>3, <2>4
  <2>6. k = [i \in 0..N |-> k[i]]
    BY <2>3
  <2>7. Def(k)
    BY <2>5, <2>6
  <2> HIDE DEF Def
  <2> QED BY <2>7
<1>6. Def(g)
  <2> HIDE DEF Def
  <2> QED BY <1>5
<1> HIDE DEF g
<1>7. g[0] = items /\ \A i \in 1..N : g[i] = Step(i, g[i - 1])
  <2>1. \A i \in 0..N : g[i] = IF i = 0 THEN items ELSE Step(i, g[i - 1])
    BY <1>6, Zenon
  <2>2. 0 \in 0..N /\ \A i \in 1..N : i \in 0..N /\ i # 0
    BY <1>1
  <2> QED BY <2>1, <2>2, Zenon
<1>8. \A i \in 0..N : g[i] \in V
  <2>1. \A i \in 1..N : g[i - 1] \in V => g[i] \in V
    BY <1>4, <1>7
  <2>2. g[0] \in V
    BY <1>2, <1>7
  <2> QED BY <1>1, <2>1, <2>2, Typed
<1>9. g \in [0..N -> V]
  BY <1>6, <1>8
<1> QED BY <1>1, <1>3, <1>7, <1>9 DEF Step, V, ItemsByFlow

(* An answer adds to the sums what its flows add up to.                    *)
LEMMA AnswerMerged ==
  ASSUME NEW items \in ItemLists, NEW answer \in Seq(Flows)
  PROVE  /\ Folded(Merged, items, answer) \in ItemLists
         /\ SumOf(items) \in Int
         /\ SumOf(Folded(Merged, items, answer)) = SumOf(items) + sumThroughput(answer)
<1>1. PICK N : /\ N \in Nat /\ N = Len(answer)
               /\ \A i \in 1..N : answer[i] \in Flows
  OBVIOUS
<1>2. PICK g : ItemsByFlow(g, items, answer)
  BY AnswerUnfolds
<1> DEFINE s == [i \in DOMAIN answer |-> answer[i].speed]
<1>3. s \in Seq(Int) /\ Len(s) = N /\ \A i \in 1..N : s[i] = answer[i].speed
  BY <1>1, SamplesAssumption
<1>4. sumThroughput(answer) = Total(s)
  BY DEF sumThroughput
<1> HIDE DEF s
<1>5. PICK h : Sums(h, s)
  BY <1>3, TotalUnfolds
<1>6. /\ g[0] = items /\ \A i \in 0..N : g[i] \in ItemLists
      /\ \A i \in 1..N : g[i] = Merged(g[i - 1], answer[i])
      /\ Folded(Merged, items, answer) = g[N]
  BY <1>1, <1>2 DEF ItemsByFlow
<1>7. /\ h[0] = 0 /\ \A i \in 0..N : h[i] \in Int
      /\ \A i \in 1..N : h[i] = h[i - 1] + s[i]
      /\ Total(s) = h[N]
  BY <1>3, <1>5 DEF Sums
<1>8. SumOf(items) \in Int
  <2>1. items \in Seq(Items)
    BY DEF ItemLists
  <2>4. \A k \in DOMAIN items : items[k] \in Items
    BY <2>1
  <2>2. \A k \in DOMAIN items : items[k].sum \in Int
    BY <2>4 DEF Items
  <2>3. [k \in DOMAIN items |-> items[k].sum] \in Seq(Int)
    BY <2>1, <2>2
  <2> QED BY <2>3, TotalAppend DEF SumOf
<1> DEFINE Good == {i \in 0..N : SumOf(g[i]) = SumOf(items) + h[i]}
<1>9. 0 \in Good
  BY <1>1, <1>6, <1>7, <1>8
<1>10. ASSUME NEW i \in 0..(N - 1), i \in Good PROVE i + 1 \in Good
  <2>1. i + 1 \in 1..N /\ i + 1 \in 0..N /\ i \in 0..N /\ (i + 1) - 1 = i
    BY <1>1
  <2>2. SumOf(Merged(g[i], answer[i + 1])) = SumOf(g[i]) + answer[i + 1].speed
    BY <1>1, <1>6, <2>1, MergedFacts
  <2>3. g[i + 1] = Merged(g[i], answer[i + 1]) /\ h[i + 1] = h[i] + s[i + 1]
    BY <1>6, <1>7, <2>1
  <2>4. s[i + 1] = answer[i + 1].speed /\ s[i + 1] \in Int /\ h[i] \in Int
    BY <1>1, <1>3, <1>7, <2>1
  <2>5. SumOf(g[i]) = SumOf(items) + h[i]
    BY <1>10
  <2>6. SumOf(g[i + 1]) = SumOf(items) + h[i + 1]
    BY <1>8, <2>2, <2>3, <2>4, <2>5
  <2> QED BY <2>1, <2>6
<1> HIDE DEF Good
<1>11. 0..N \subseteq Good
  BY <1>1, <1>9, <1>10, InductionTo
<1>12. N \in 0..N /\ N \in Good
  BY <1>1, <1>11
<1> QED BY <1>4, <1>6, <1>7, <1>8, <1>12 DEF Good

(* The items after each sample: only those of the newest window count.     *)
ItemsBySample(a, samples) ==
  /\ a \in [0..Len(samples) -> ItemLists] /\ a[0] = <<>>
  /\ \A i \in 1..Len(samples) :
       a[i] = IF Truncate(samples[i]) = Truncate(Last(samples))
              THEN Folded(Merged, a[i - 1], samples[i].answer) ELSE a[i - 1]
  /\ itemsOf(samples) = a[Len(samples)]

(* aggregateFlowSnapshots merges sample by sample.                         *)
LEMMA ItemsUnfold ==
  ASSUME NEW samples \in Seq(Polls)
  PROVE  \E a : ItemsBySample(a, samples)
<1>1. PICK N : /\ N \in Nat /\ N = Len(samples)
               /\ \A i \in 1..N : samples[i].answer \in Seq(Flows)
  <2>1. Len(samples) \in Nat /\ \A i \in 1..Len(samples) : samples[i] \in Polls
    BY ElementOfSeq
  <2>2. \A p \in Polls : p.answer \in Seq(Flows)
    BY DEF Polls
  <2>3. \A i \in 1..Len(samples) : samples[i].answer \in Seq(Flows)
    BY <2>1, <2>2
  <2> QED BY <2>1, <2>3
<1> DEFINE V == ItemLists
           Step(i, v) == IF Truncate(samples[i]) = Truncate(Last(samples))
                         THEN Folded(Merged, v, samples[i].answer) ELSE v
           Def(k) == k = [i \in 0..N |-> IF i = 0 THEN <<>> ELSE Step(i, k[i - 1])]
           F == [i \in 1..N |-> [v \in V |-> Step(i, v)]]
           g == CHOOSE k : Def(k)
<1>2. <<>> \in V
  <2>1. <<>> \in Seq(Items) /\ 1..Len(<<>>) = {}
    OBVIOUS
  <2> QED BY <2>1 DEF ItemLists
<1>3. itemsOf(samples) = g[N]
  BY <1>1 DEF itemsOf, Folded
<1>4. \A i \in 1..N : \A v \in V : Step(i, v) \in V
  BY <1>1, AnswerMerged
<1> HIDE DEF Step, V
<1>5. \E k : Def(k)
  <2>1. F \in [1..N -> [V -> V]]
    BY <1>4
  <2> HIDE DEF F
  <2>2. Computable(V, <<>>, N, F)
    BY <1>1, <1>2, <2>1, Recursion, Zenon
  <2>3. PICK k : /\ k \in [0..N -> V]
                 /\ k[0] = <<>>
                 /\ \A i \in 1..N : k[i] = F[i][k[i - 1]]
    BY <2>2, Zenon DEF Computable, Computes
  <2>4. ASSUME NEW i \in 1..N PROVE k[i] = Step(i, k[i - 1])
    <3>1. i - 1 \in 0..N
      BY <1>1
    <3>2. k[i - 1] \in V
      BY <2>3, <3>1, Zenon
    <3>3. F[i] = [v \in V |-> Step(i, v)]
      BY DEF F
    <3> QED BY <2>3, <3>2, <3>3, Zenon
  <2>5. \A i \in 0..N : k[i] = IF i = 0 THEN <<>> ELSE Step(i, k[i - 1])
    BY <1>1, <2>3, <2>4
  <2>6. k = [i \in 0..N |-> k[i]]
    BY <2>3
  <2>7. Def(k)
    BY <2>5, <2>6
  <2> HIDE DEF Def
  <2> QED BY <2>7
<1>6. Def(g)
  <2> HIDE DEF Def
  <2> QED BY <1>5
<1> HIDE DEF g
<1>7. g[0] = <<>> /\ \A i \in 1..N : g[i] = Step(i, g[i - 1])
  <2>1. \A i \in 0..N : g[i] = IF i = 0 THEN <<>> ELSE Step(i, g[i - 1])
    BY <1>6, Zenon
  <2>2. 0 \in 0..N /\ \A i \in 1..N : i \in 0..N /\ i # 0
    BY <1>1
  <2> QED BY <2>1, <2>2, Zenon
<1>8. \A i \in 0..N : g[i] \in V
  <2>1. \A i \in 1..N : g[i - 1] \in V => g[i] \in V
    BY <1>4, <1>7
  <2>2. g[0] \in V
    BY <1>2, <1>7
  <2> QED BY <1>1, <2>1, <2>2, Typed
<1>9. g \in [0..N -> V]
  BY <1>6, <1>8
<1> QED BY <1>1, <1>3, <1>7, <1>9 DEF Step, V, ItemsBySample

(* Snapshots and samples of the same polls: the averages divide by the     *)
(* samples of the newest window, and their sums make up its sum.           *)
LEMMA AveragesAddUp ==
  ASSUME NEW flows \in Seq(Polls), flows # <<>>, NEW samples, InStep(samples, flows)
  PROVE  LET N == Len(flows)
             t == Truncate(samples[N])
         IN  /\ samples \in Seq(Samples) /\ Len(samples) = N /\ DOMAIN samples = 1..N
             /\ itemsOf(flows) \in ItemLists
             /\ SumOf(itemsOf(flows)) = Total(Speeds(samples, N, t))
             /\ newestWindow(flows) = Of(samples, N, t)
<1> DEFINE N == Len(flows)
           t == Truncate(samples[N])
<1>1. /\ N \in Nat /\ N > 0 /\ N \in 1..N /\ DOMAIN flows = 1..N
      /\ \A k \in 1..N : flows[k] \in Polls
  OBVIOUS
<1>2. samples = [k \in 1..N |-> throughputSample(flows[k], flows[k].answer)]
  BY <1>1 DEF InStep
<1>3. \A f \in Polls : throughputSample(f, f.answer) \in Samples
  BY SpeedType DEF Polls, Samples, throughputSample
<1>4. samples \in Seq(Samples) /\ Len(samples) = N /\ DOMAIN samples = 1..N
  <2> DEFINE Of1(k) == throughputSample(flows[k], flows[k].answer)
  <2>1. \A k \in 1..N : Of1(k) \in Samples
    BY <1>1, <1>3
  <2> HIDE DEF Of1
  <2>2. [k \in 1..N |-> Of1(k)] \in Seq(Samples) /\ Len([k \in 1..N |-> Of1(k)]) = N
    BY <1>1, <2>1
  <2>3. samples = [k \in 1..N |-> Of1(k)]
    BY <1>2 DEF Of1
  <2> QED BY <1>1, <2>2, <2>3
<1>5. \A k \in 1..N : /\ samples[k].wall = flows[k].wall
                      /\ samples[k].speed = sumThroughput(flows[k].answer)
  BY <1>2 DEF throughputSample
<1>6. /\ \A k \in 1..N : Truncate(samples[k]) = Truncate(flows[k])
      /\ Truncate(Last(flows)) = t
  BY <1>1, <1>5 DEF Truncate, Last
<1>7. \A k \in 1..N : flows[k].answer \in Seq(Flows)
  BY <1>1 DEF Polls
<1> HIDE DEF N, t
<1>8. newestWindow(flows) = Of(samples, N, t)
  BY <1>1, <1>6 DEF newestWindow, Of
<1>9. PICK a : ItemsBySample(a, flows)
  BY ItemsUnfold
<1>10. /\ a[0] = <<>> /\ \A n \in 0..N : a[n] \in ItemLists
       /\ \A n \in 1..N : a[n] = IF Truncate(flows[n]) = t
                                 THEN Folded(Merged, a[n - 1], flows[n].answer) ELSE a[n - 1]
       /\ itemsOf(flows) = a[N]
  BY <1>6, <1>9 DEF ItemsBySample, N
<1> DEFINE Good == {n \in 0..N : SumOf(a[n]) = Total(Speeds(samples, n, t))}
<1>11. 0 \in Good
  <2>1. SumOf(<<>>) = 0
    <3>1. [k \in DOMAIN <<>> |-> <<>>[k].sum] = <<>>
      OBVIOUS
    <3> QED BY <3>1, TotalOfNone DEF SumOf
  <2>2. Speeds(samples, 0, t) = <<>>
    <3>1. 1..0 = {}
      OBVIOUS
    <3> QED BY <3>1 DEF Speeds
  <2> QED BY <1>1, <1>10, <2>1, <2>2, TotalOfNone
<1>12. ASSUME NEW n \in 0..(N - 1), n \in Good PROVE n + 1 \in Good
  <2>1. n + 1 \in 1..N /\ n + 1 \in 0..N /\ n \in 0..N /\ (n + 1) - 1 = n
    BY <1>1
  <2>2. SumOf(a[n]) = Total(Speeds(samples, n, t))
    BY <1>12
  <2>3. CASE Truncate(flows[n + 1]) = t
    <3>1. a[n + 1] = Folded(Merged, a[n], flows[n + 1].answer)
      BY <1>10, <2>1, <2>3
    <3>2. SumOf(a[n + 1]) = SumOf(a[n]) + sumThroughput(flows[n + 1].answer)
      <4>1. a[n] \in ItemLists /\ flows[n + 1].answer \in Seq(Flows)
        BY <1>7, <1>10, <2>1
      <4> QED BY <3>1, <4>1, AnswerMerged
    <3>3. Truncate(samples[n + 1]) = t
      BY <1>6, <2>1, <2>3
    <3>4. Total(Speeds(samples, n + 1, t)) = Total(Speeds(samples, n, t)) + samples[n + 1].speed
      BY <1>4, <3>3, OneMore
    <3>5. samples[n + 1].speed = sumThroughput(flows[n + 1].answer)
      BY <1>5, <2>1
    <3>6. SumOf(a[n + 1]) = Total(Speeds(samples, n + 1, t))
      BY <2>2, <3>2, <3>4, <3>5
    <3> QED BY <2>1, <3>6
  <2>4. CASE Truncate(flows[n + 1]) # t
    <3>1. a[n + 1] = a[n]
      BY <1>10, <2>1, <2>4
    <3>2. Truncate(samples[n + 1]) # t
      BY <1>6, <2>1, <2>4
    <3>3. Total(Speeds(samples, n + 1, t)) = Total(Speeds(samples, n, t))
      BY <1>4, <3>2, OneMore
    <3> QED BY <2>1, <2>2, <3>1, <3>3
  <2> QED BY <2>3, <2>4
<1> HIDE DEF Good
<1>13. 0..N \subseteq Good
  BY <1>1, <1>11, <1>12, InductionTo
<1>14. N \in 0..N /\ N \in Good
  BY <1>1, <1>13
<1>15. SumOf(itemsOf(flows)) = Total(Speeds(samples, N, t)) /\ itemsOf(flows) \in ItemLists
  BY <1>10, <1>14 DEF Good
<1> QED BY <1>4, <1>8, <1>15 DEF N, t

(* The chart and the averages of the same polls.                           *)
LEMMA ViewsOfPolls ==
  ASSUME NEW flows \in Seq(Polls), flows # <<>>, NEW samples, InStep(samples, flows)
  PROVE  OfSameSamples(samples, flows)
<1> DEFINE points == aggregateThroughputSamples(samples)
           averages == aggregateFlowSnapshots(flows)
           items == itemsOf(flows)
           N == Len(flows)
           t == Truncate(samples[N])
           starts == {Truncate(samples[i]) : i \in DOMAIN samples}
           of(start) == {i \in DOMAIN samples : Truncate(samples[i]) = start}
           speeds(start) == [i \in DOMAIN samples |-> IF i \in of(start) THEN samples[i].speed ELSE 0]
<1>1. /\ samples \in Seq(Samples) /\ Len(samples) = N /\ DOMAIN samples = 1..N
      /\ items \in ItemLists
      /\ SumOf(items) = Total(Speeds(samples, N, t))
      /\ newestWindow(flows) = Of(samples, N, t)
  BY AveragesAddUp
<1>2. samples # <<>>
  BY <1>1
<1>3. \A u : of(u) = Of(samples, N, u)
  BY <1>1 DEF Of
<1>4. \A u : speeds(u) = Speeds(samples, N, u)
  BY <1>1 DEF Speeds
<1>5. Len(points) <= MaxPoints
  BY <1>1, <1>2, ChartIsRight
<1>6. /\ DOMAIN averages = DOMAIN items
      /\ \A k \in DOMAIN items : /\ averages[k].pid = items[k].pid
                                 /\ averages[k].sum = items[k].sum
                                 /\ averages[k].over = Cardinality(Of(samples, N, t))
  BY <1>1 DEF aggregateFlowSnapshots, Averaged
<1>7. DOMAIN items = 1..Len(items)
  BY <1>1 DEF ItemLists
<1>8. \A j, k \in DOMAIN averages : averages[j].pid = averages[k].pid => j = k
  BY <1>1, <1>6, <1>7 DEF ItemLists
<1>9. [k \in DOMAIN averages |-> averages[k].sum] = [k \in DOMAIN items |-> items[k].sum]
  BY <1>6
<1>10. ASSUME WallNeverSetBack(samples)
       PROVE  /\ {points[i].start : i \in DOMAIN points} =
                   {u \in starts : Cardinality({v \in starts : v > u}) < MaxPoints}
              /\ \A i \in DOMAIN points :
                   /\ \A j \in 1..(i - 1) : points[j].start < points[i].start
                   /\ points[i].count = Cardinality(of(points[i].start))
                   /\ points[i].sum = Total(speeds(points[i].start))
              /\ \A k \in DOMAIN averages : averages[k].over = Last(points).count
              /\ Last(points).sum = Total([k \in DOMAIN averages |-> averages[k].sum])
  <2>1. /\ ChartRight(points, samples)
        /\ Last(points).count = Cardinality(Of(samples, N, t))
        /\ Last(points).sum = Total(Speeds(samples, N, t))
    BY <1>1, <1>2, <1>10, ChartIsRight
  <2>2. starts = {Truncate(samples[i]) : i \in 1..Len(samples)}
    BY <1>1
  <2> HIDE DEF points, averages, items, t
  <2>3. {points[i].start : i \in DOMAIN points} =
          {u \in starts : Cardinality({v \in starts : v > u}) < MaxPoints}
    BY <2>1, <2>2 DEF ChartRight
  <2>4. \A i \in DOMAIN points :
          /\ \A j \in 1..(i - 1) : points[j].start < points[i].start
          /\ points[i].count = Cardinality(Of(samples, N, points[i].start))
          /\ points[i].sum = Total(Speeds(samples, N, points[i].start))
    BY <1>1, <2>1 DEF ChartRight
  <2> HIDE DEF of, speeds, starts
  <2>5. \A i \in DOMAIN points : /\ points[i].count = Cardinality(of(points[i].start))
                                 /\ points[i].sum = Total(speeds(points[i].start))
    BY <1>3, <1>4, <2>4
  <2>6. \A k \in DOMAIN averages : averages[k].over = Last(points).count
    BY <1>6, <2>1
  <2>7. Last(points).sum = Total([k \in DOMAIN averages |-> averages[k].sum])
    BY <1>1, <1>9, <2>1 DEF SumOf
  <2> QED BY <2>3, <2>4, <2>5, <2>6, <2>7
<1> HIDE DEF points, averages
<1> QED BY <1>5, <1>8, <1>10 DEF OfSameSamples, points, averages

-----------------------------------------------------------------------------
(* The caches of the session.                                              *)

(* A session starts with one poll in its caches, or with none.             *)
LEMMA CachesInitially == Init => CachesInv
<1> SUFFICES ASSUME Init PROVE CachesInv
  OBVIOUS
<1>1. <<>> \in Seq(Polls) /\ DOMAIN <<>> = {}
  OBVIOUS
<1>2. InStep(<<>>, <<>>)
  <2>1. <<>> = [k \in {} |-> throughputSample(<<>>[k], <<>>[k].answer)]
    OBVIOUS
  <2> QED BY <1>1, <2>1 DEF InStep
<1>3. CASE version = 0 /\ throughput = <<>> /\ flowCache = <<>>
  BY <1>1, <1>2, <1>3 DEF CachesInv
<1>4. ASSUME NEW answer \in Answers, version = 1,
             throughput = recordThroughputSample(<<>>, [mono |-> 1, wall |-> 1], answer),
             flowCache = recordFlowSnapshot(<<>>, [mono |-> 1, wall |-> 1], answer)
      PROVE  CachesInv
  <2> DEFINE t == [mono |-> 1, wall |-> 1]
  <2>1. t.mono \in Int /\ t.wall \in Int
    OBVIOUS
  <2>2. answer \in Seq(Flows)
    BY WebAssumption
  <2> HIDE DEF t
  <2>3. /\ recordFlowSnapshot(<<>>, t, answer) \in Seq(Polls) \ {<<>>}
        /\ InStep(recordThroughputSample(<<>>, t, answer), recordFlowSnapshot(<<>>, t, answer))
    BY <1>1, <1>2, <2>1, <2>2, RecordedInStep
  <2> QED BY <1>4, <2>3 DEF CachesInv, t
<1> QED BY <1>3, <1>4 DEF Init

(* A poll that succeeds records its answer in both; nothing else does.     *)
LEMMA CachesInductive == CachesInv /\ [Next]_vars => CachesInv'
<1> SUFFICES ASSUME CachesInv, [Next]_vars PROVE CachesInv'
  OBVIOUS
<1>1. CASE PollSucceeds
  <2>1. PICK answer \in Answers :
          /\ throughput' = recordThroughputSample(throughput, now, answer)
          /\ flowCache' = recordFlowSnapshot(flowCache, now, answer)
    BY <1>1 DEF PollSucceeds
  <2>2. now.mono \in Int /\ now.wall \in Int
    BY DEF now, CachesInv
  <2>3. answer \in Seq(Flows)
    BY WebAssumption
  <2>4. /\ recordFlowSnapshot(flowCache, now, answer) \in Seq(Polls) \ {<<>>}
        /\ InStep(recordThroughputSample(throughput, now, answer),
                  recordFlowSnapshot(flowCache, now, answer))
    BY <2>2, <2>3, RecordedInStep DEF CachesInv
  <2>5. version' \in Nat
    BY <1>1 DEF PollSucceeds, CachesInv
  <2> QED BY <2>1, <2>4, <2>5 DEF CachesInv
<1>2. CASE UNCHANGED <<version, throughput, flowCache>>
  BY <1>2 DEF CachesInv
<1>3. PollSucceeds \/ UNCHANGED <<version, throughput, flowCache>>
  <2>1. CASE PollFails \/ PollsHistory
    BY <2>1 DEF PollFails, PollsHistory
  <2>2. CASE Pushes \/ Drops \/ UiEnds \/ PageSteps
    BY <2>2 DEF Pushes, Accepts, TakesFlows, Sends, Drops, UiEnds, PageSteps, Opens, Receives,
                Closes, TimerFires, service
  <2>3. ASSUME NEW i \in Fetches, Fetching(i) PROVE UNCHANGED <<version, throughput, flowCache>>
    BY <2>3 DEF Fetching, FetchTakesFlows, FetchAnswers, FetchLost, FetchArrives, service
  <2>4. CASE UNCHANGED vars
    BY <2>4 DEF vars, service
  <2> QED BY <2>1, <2>2, <2>3, <2>4 DEF Next, Polling
<1> QED BY <1>1, <1>2, <1>3

(* Both caches are of the same polls, in every reachable state.            *)
THEOREM CachesInvCorrect == Spec => []CachesInv
<1>1. Init => CachesInv
  BY CachesInitially
<1>2. CachesInv /\ [Next]_vars => CachesInv'
  BY CachesInductive
<1> QED BY <1>1, <1>2, PTL DEF Spec

(* However many polls there were, how far apart, how many failed between   *)
(* them and however the wall clock was set: recordThroughputSampleLocked   *)
(* and recordFlowSnapshotLocked keep the answers of the retention, both    *)
(* the same and no other.                                                  *)
THEOREM CachesAreExact == Spec => []RetentionExact
<1>1. Misremembered = {}
  <2> SUFFICES ASSUME NEW polls \in Histories PROVE KeepsRetention(polls)
    BY DEF Misremembered
  <2>1. polls \in Seq(Polls) /\ polls # <<>> /\ Forward(polls)
    BY HistoriesAssumption DEF Forward
  <2> QED BY <2>1, KeepsWhatIsRecent
<1>2. CachesInv => RetentionExact
  BY <1>1 DEF CachesInv, RetentionExact
<1> QED BY <1>2, CachesInvCorrect, PTL

(* aggregateThroughputSamples and aggregateFlowSnapshots, computed apart,  *)
(* speak of the same samples: of a session's and of any history's, for     *)
(* every retention, window and number of points.                           *)
THEOREM ViewsAlwaysAgree == Spec => []ViewsAgree
<1>1. Disagreed = {}
  <2> SUFFICES ASSUME NEW polls \in Histories
               PROVE  OfSameSamples(throughputAfter(polls), flowCacheAfter(polls))
    BY DEF Disagreed
  <2>1. polls \in Seq(Polls) /\ polls # <<>> /\ Forward(polls)
    BY HistoriesAssumption DEF Forward
  <2>2. KeepsRetention(polls)
    BY <2>1, KeepsWhatIsRecent
  <2>3. PICK first \in DOMAIN polls : flowCacheAfter(polls) = SubSeq(polls, first, Len(polls))
    BY <2>2 DEF KeepsRetention
  <2>4. SubSeq(polls, first, Len(polls)) \in Seq(Polls) \ {<<>>}
    <3> DEFINE kept == SubSeq(polls, first, Len(polls))
    <3>1. Len(polls) \in Nat /\ first \in 1..Len(polls)
      BY <2>1
    <3>2. kept \in Seq(Polls) /\ Len(kept) = Len(polls) - first + 1
      BY <2>1, <3>1
    <3> HIDE DEF kept
    <3>3. Len(kept) # 0
      BY <3>1, <3>2
    <3>4. kept # <<>>
      BY <3>3
    <3> QED BY <3>2, <3>4 DEF kept
  <2>5. InStep(throughputAfter(polls), flowCacheAfter(polls))
    BY <2>2 DEF KeepsRetention
  <2> QED BY <2>3, <2>4, <2>5, ViewsOfPolls
<1>2. CachesInv => ViewsAgree
  BY <1>1, ViewsOfPolls DEF CachesInv, ViewsAgree
<1> QED BY <1>2, CachesInvCorrect, PTL

-----------------------------------------------------------------------------
(* The socket and the page.                                                *)

(* What a bootstrap request holds.                                         *)
LEMMA RequestFacts ==
  /\ {Idle, Asked, Failed} \subseteq Requests
  /\ \A v \in Nat : Took(v) \in Requests /\ Took(v).at = "took" /\ Took(v).flows = v
  /\ \A p \in Figures : Done(p) \in Requests /\ Done(p).at = "done" /\ Done(p).payload = p
  /\ \A r \in {Idle, Asked, Failed} : r.at # "took" /\ r.at # "done"
  /\ \A r \in Requests : /\ r.at = "took" => r.flows \in Nat
                         /\ r.at = "done" => r.payload \in Figures
<1>1. {Idle, Asked, Failed} \subseteq Requests
  BY DEF Requests
<1>2. \A v \in Nat : Took(v) \in Requests
  BY DEF Requests
<1>3. \A p \in Figures : Done(p) \in Requests
  BY DEF Requests
<1>4. \A v : Took(v).at = "took" /\ Took(v).flows = v
  BY DEF Took
<1>5. \A p : Done(p).at = "done" /\ Done(p).payload = p
  BY DEF Done
<1>6. Idle.at = "idle" /\ Asked.at = "asked" /\ Failed.at = "failed"
  BY DEF Idle, Asked, Failed
<1>7. \A r \in {Idle, Asked, Failed} : r.at # "took" /\ r.at # "done"
  BY <1>6
<1>8. ASSUME NEW r \in Requests
      PROVE  (r.at = "took" => r.flows \in Nat) /\ (r.at = "done" => r.payload \in Figures)
  <2>1. CASE r \in {Idle, Asked, Failed}
    BY <1>7, <2>1
  <2>2. CASE \E v \in Nat : r = Took(v)
    BY <1>4, <2>2
  <2>3. CASE \E p \in Figures : r = Done(p)
    BY <1>5, <2>3
  <2> QED BY <2>1, <2>2, <2>3 DEF Requests
<1> QED BY <1>1, <1>2, <1>3, <1>4, <1>5, <1>7, <1>8

(* Nothing has been sent, and nothing is older than what will be.          *)
LEMMA WebInitially == Init => WebInv
<1> SUFFICES ASSUME Init PROVE WebInv
  OBVIOUS
<1>1. CachesInv
  BY CachesInitially
<1>2. stats \in Seq(Flows)
  <2>1. NoFlows \in Seq(Flows)
    BY DEF NoFlows
  <2> QED BY <2>1, WebAssumption DEF Init
<1>3. version \in Nat /\ <<>> \in Seq(Figures) /\ 1..Len(<<>>) = {}
  BY DEF Init
<1>4. shown \in Figures /\ Dated(shown)
  BY <1>3 DEF Init, Figures, Dated
<1>5. fetch \in [Fetches -> {Idle, Asked}]
  BY DEF Init
<1>6. fetch \in [Fetches -> Requests]
  BY <1>5, RequestFacts
<1>7. TypeOK
  BY <1>2, <1>3, <1>4, <1>6 DEF Init, TypeOK
<1>8. Linked
  BY DEF Init, Linked
<1>9. FetchedDated
  BY <1>5, RequestFacts DEF FetchedDated
<1>10. SentInOrder
  BY <1>3 DEF Init, SentInOrder, NoVersion
<1> QED BY <1>1, <1>4, <1>7, <1>8, <1>9, <1>10 DEF WebInv, PushesInOrder

(* Each step keeps types, links and order.                                 *)
LEMMA WebInductive == WebInv /\ [Next]_vars => WebInv'
<1> SUFFICES ASSUME WebInv, [Next]_vars PROVE WebInv'
  OBVIOUS
<1>1. CachesInv /\ CachesInv' /\ version \in Nat
  BY CachesInductive DEF WebInv, CachesInv
<1>2. TypeOK /\ Linked /\ Dated(shown) /\ FetchedDated /\ SentInOrder
  BY DEF WebInv, PushesInOrder
<1>3. fetch \in [Fetches -> Requests] /\ sent \in Seq(Figures) /\ shown \in Figures
      /\ taken \in Nat \cup {NoVersion}
  BY <1>2 DEF TypeOK
<1>4. version' = version /\ UNCHANGED shown => Dated(shown)'
  BY <1>2 DEF Dated
<1>5. version' = version /\ UNCHANGED fetch => FetchedDated'
  BY <1>2 DEF FetchedDated, Dated
<1>6. version' = version /\ UNCHANGED <<taken, sent>> => SentInOrder'
  BY <1>2 DEF SentInOrder, Dated
<1>7. version' = version /\ sent' = <<>> /\ taken' = NoVersion => SentInOrder'
  <2>1. 1..Len(<<>>) = {} /\ NoVersion <= version
    BY <1>1 DEF NoVersion
  <2> QED BY <2>1 DEF SentInOrder
<1>8. ASSUME NEW i \in Fetches, NEW r \in Requests, fetch' = [fetch EXCEPT ![i] = r],
             version' = version,
             r.at = "took" => r.flows <= version, r.at = "done" => Dated(r.payload)
      PROVE  fetch' \in [Fetches -> Requests] /\ FetchedDated'
  <2>1. fetch' \in [Fetches -> Requests] /\ \A k \in Fetches : fetch'[k] = IF k = i THEN r ELSE fetch[k]
    BY <1>3, <1>8
  <2>2. ASSUME NEW k \in Fetches
        PROVE  /\ fetch'[k].at = "took" => fetch'[k].flows <= version
               /\ fetch'[k].at = "done" => Dated(fetch'[k].payload)
    <3>1. CASE k = i
      BY <1>8, <2>1, <3>1
    <3>2. CASE k # i
      <4>1. fetch'[k] = fetch[k]
        BY <2>1, <3>2
      <4> QED BY <1>2, <4>1, Zenon DEF FetchedDated
    <3> QED BY <3>1, <3>2
  <2> QED BY <1>8, <2>1, <2>2 DEF FetchedDated, Dated
<1>9. CASE PollSucceeds
  <2>1. TypeOK' /\ Linked'
    <3>1. stats' \in Seq(Flows)
      BY <1>9, WebAssumption DEF PollSucceeds
    <3>2. TypeOK'
      BY <1>2, <1>9, <3>1 DEF PollSucceeds, TypeOK, service, socket, page
    <3>3. Linked'
      BY <1>2, <1>9 DEF PollSucceeds, Linked, service, socket, page
    <3> QED BY <3>2, <3>3
  <2>2. version' = version + 1 /\ UNCHANGED <<socket, fetch, page>>
    BY <1>9 DEF PollSucceeds
  <2>3. \A p \in Figures : p.chart <= version => p.chart <= version'
    BY <1>1, <2>2 DEF Figures
  <2>4. Dated(shown)'
    BY <1>2, <1>3, <2>2, <2>3 DEF Dated, page
  <2>5. FetchedDated'
    <3>1. ASSUME NEW i \in Fetches, fetch[i].at = "took" PROVE fetch[i].flows <= version'
      <4>1. fetch[i].flows \in Nat /\ fetch[i].flows <= version
        <5>1. fetch[i] \in Requests
          BY <1>3
        <5>2. fetch[i].flows \in Nat
          BY <3>1, <5>1, RequestFacts, Zenon
        <5>3. fetch[i].flows <= version
          BY <1>2, <3>1, Zenon DEF FetchedDated
        <5> QED BY <5>2, <5>3
      <4> QED BY <1>1, <2>2, <4>1
    <3>2. ASSUME NEW i \in Fetches, fetch[i].at = "done"
          PROVE  fetch[i].payload.flows <= fetch[i].payload.chart /\ fetch[i].payload.chart <= version'
      <4>1. fetch[i].payload \in Figures /\ Dated(fetch[i].payload)
        BY <1>2, <1>3, <3>2, RequestFacts DEF FetchedDated
      <4> QED BY <2>3, <4>1 DEF Dated
    <3> QED BY <2>2, <3>1, <3>2 DEF FetchedDated, Dated
  <2>6. SentInOrder'
    <3>1. taken <= version'
      BY <1>1, <1>2, <1>3, <2>2 DEF SentInOrder, NoVersion
    <3>2. ASSUME NEW i \in 1..Len(sent) PROVE sent[i].flows <= sent[i].chart /\ sent[i].chart <= version'
      <4>1. sent[i] \in Figures /\ Dated(sent[i])
        BY <1>2, <1>3 DEF SentInOrder
      <4> QED BY <2>3, <4>1 DEF Dated
    <3> QED BY <1>2, <2>2, <3>1, <3>2 DEF SentInOrder, Dated, socket
  <2> QED BY <1>1, <2>1, <2>4, <2>5, <2>6 DEF WebInv, PushesInOrder
<1>10. CASE PollFails
  <2>1. TypeOK'
    BY <1>2, <1>10 DEF PollFails, TypeOK, service, socket, page
  <2>2. Linked'
    BY <1>2, <1>10 DEF PollFails, TypeOK, Linked, service, socket, page
  <2>3. Dated(shown)' /\ FetchedDated' /\ SentInOrder'
    BY <1>4, <1>5, <1>6, <1>7, <1>10 DEF PollFails, service, socket, page
  <2> QED BY <1>1, <2>1, <2>2, <2>3 DEF WebInv, PushesInOrder
<1>11. CASE PollsHistory
  <2>1. TypeOK'
    BY <1>2, <1>11 DEF PollsHistory, TypeOK, service, socket, page
  <2>2. Linked'
    BY <1>2, <1>11 DEF PollsHistory, TypeOK, Linked, service, socket, page
  <2>3. Dated(shown)' /\ FetchedDated' /\ SentInOrder'
    BY <1>4, <1>5, <1>6, <1>7, <1>11 DEF PollsHistory, service, socket, page
  <2> QED BY <1>1, <2>1, <2>2, <2>3 DEF WebInv, PushesInOrder
<1>12. CASE Accepts
  <2>1. TypeOK'
    BY <1>2, <1>12 DEF Accepts, TypeOK, service, socket, page
  <2>2. Linked'
    BY <1>2, <1>12 DEF Accepts, TypeOK, Linked, service, socket, page
  <2>3. Dated(shown)' /\ FetchedDated' /\ SentInOrder'
    BY <1>4, <1>5, <1>6, <1>7, <1>12 DEF Accepts, service, socket, page
  <2> QED BY <1>1, <2>1, <2>2, <2>3 DEF WebInv, PushesInOrder
<1>13. CASE TakesFlows
  <2>1. TypeOK' /\ Linked'
    BY <1>1, <1>2, <1>13 DEF TakesFlows, TypeOK, Linked, service, socket, page
  <2>2. Dated(shown)' /\ FetchedDated'
    BY <1>4, <1>5, <1>13 DEF TakesFlows, service, socket, page
  <2>3. SentInOrder'
    <3>1. version' = version /\ sent' = sent /\ (taken' = version \/ taken' = taken)
      BY <1>13 DEF TakesFlows, service, socket, page
    <3>2. \A i \in 1..Len(sent) : sent[i].chart <= version
      BY <1>2 DEF SentInOrder, Dated
    <3>3. CASE taken' = version
      BY <1>1, <1>2, <3>1, <3>2, <3>3 DEF SentInOrder, Dated
    <3>4. CASE taken' = taken
      BY <1>6, <3>1, <3>4
    <3> QED BY <3>1, <3>3, <3>4
  <2> QED BY <1>1, <2>1, <2>2, <2>3 DEF WebInv, PushesInOrder
<1>14. CASE Sends
  <2> DEFINE push == [flows |-> taken, chart |-> version]
  <2>1. /\ taken \in Nat /\ taken # NoVersion /\ taken <= version /\ conn = "open"
        /\ sent' = Append(sent, push) /\ taken' = NoVersion /\ version' = version
    BY <1>2, <1>3, <1>14 DEF Sends, SentInOrder, service
  <2>2. push \in Figures /\ push.flows = taken /\ push.chart = version
    BY <1>1, <2>1 DEF Figures
  <2> HIDE DEF push
  <2>3. PICK n \in Nat : n = Len(sent)
    BY <1>3
  <2>4. /\ sent' \in Seq(Figures) /\ Len(sent') = n + 1 /\ sent'[n + 1] = push
        /\ \A i \in 1..n : sent'[i] = sent[i]
    BY <1>3, <2>1, <2>2, <2>3
  <2>5. TypeOK'
    BY <1>2, <1>14, <2>1, <2>4 DEF Sends, TypeOK, service, socket, page
  <2>6. Linked'
    BY <1>2, <1>14, <2>1 DEF Sends, Linked, service, socket, page
  <2>7. Dated(shown)' /\ FetchedDated'
    BY <1>4, <1>5, <1>14 DEF Sends, service, socket, page
  <2>8. SentInOrder'
    <3>1. NoVersion <= version
      BY <1>1 DEF NoVersion
    <3>2. ASSUME NEW i \in 1..n
          PROVE  /\ Dated(sent'[i])
                 /\ \A j \in 1..(i - 1) : sent'[j].chart <= sent'[i].flows
      <4>1. \A j \in 1..(i - 1) : j \in 1..n
        BY <2>3
      <4> QED BY <1>2, <2>3, <2>4, <4>1 DEF SentInOrder
    <3>3. Dated(sent'[n + 1]) /\ \A j \in 1..n : sent'[j].chart <= sent'[n + 1].flows
      <4>1. Dated(push)
        BY <1>1, <2>1, <2>2 DEF Dated
      <4>2. \A j \in 1..n : sent[j].chart <= taken
        BY <1>2, <2>1, <2>3 DEF SentInOrder
      <4> QED BY <2>2, <2>4, <4>1, <4>2
    <3>4. ASSUME NEW i \in 1..Len(sent')
          PROVE  /\ Dated(sent'[i])
                 /\ \A j \in 1..(i - 1) : sent'[j].chart <= sent'[i].flows
      <4>1. i \in 1..n \/ i = n + 1
        BY <2>3, <2>4
      <4>2. (n + 1) - 1 = n
        BY <2>3
      <4> QED BY <3>2, <3>3, <4>1, <4>2
    <3> QED BY <2>1, <3>1, <3>4 DEF SentInOrder, Dated
  <2> QED BY <1>1, <2>5, <2>6, <2>7, <2>8 DEF WebInv, PushesInOrder
<1>15. CASE Drops
  <2>1. TypeOK'
    BY <1>2, <1>15 DEF Drops, TypeOK, service, socket, page
  <2>2. Linked'
    BY <1>2, <1>15 DEF Drops, TypeOK, Linked, service, socket, page
  <2>3. Dated(shown)' /\ FetchedDated'
    BY <1>4, <1>5, <1>15 DEF Drops, service, socket, page
  <2>4. SentInOrder'
    BY <1>7, <1>15 DEF Drops, service, socket, page
  <2> QED BY <1>1, <2>1, <2>2, <2>3, <2>4 DEF WebInv, PushesInOrder
<1>16. CASE UiEnds
  <2>1. TypeOK' /\ Linked'
    BY <1>2, <1>16 DEF UiEnds, TypeOK, Linked, service, socket, page
  <2>2. Dated(shown)' /\ FetchedDated'
    BY <1>4, <1>5, <1>16 DEF UiEnds, service, socket, page
  <2>3. version' = version /\ sent' = sent /\ taken' = NoVersion
    BY <1>16 DEF UiEnds, service, socket, page
  <2>4. SentInOrder'
    <3>1. NoVersion <= version
      BY <1>1 DEF NoVersion
    <3> QED BY <1>2, <2>3, <3>1 DEF SentInOrder, Dated
  <2> QED BY <1>1, <2>1, <2>2, <2>4 DEF WebInv, PushesInOrder
<1>17. CASE Opens
  <2>1. version' = version /\ UNCHANGED <<taken, sent, shown>>
    BY <1>17 DEF Opens, service, socket, page
  <2>2. PICK i \in Fetches : fetch' = [fetch EXCEPT ![i] = Asked]
    BY <1>17 DEF Opens
  <2>3. fetch' \in [Fetches -> Requests] /\ FetchedDated'
    <3>1. Asked \in Requests /\ Asked.at # "took" /\ Asked.at # "done"
      BY RequestFacts
    <3> QED BY <1>8, <2>1, <2>2, <3>1
  <2>4. TypeOK'
    BY <1>2, <1>17, <2>3 DEF Opens, TypeOK, service, socket, page
  <2>5. Linked'
    BY <1>2, <1>17 DEF Opens, Linked, service, socket, page
  <2> QED BY <1>1, <1>4, <1>6, <2>1, <2>3, <2>4, <2>5 DEF WebInv, PushesInOrder
<1>18. CASE Receives
  <2>1. PICK n \in Nat \ {0} : n = Len(sent)
    BY <1>3, <1>18 DEF Receives
  <2>2. /\ version' = version /\ taken' = taken /\ UNCHANGED <<fetch, conn, ws, timer>>
        /\ shown' = Head(sent) /\ sent' = Tail(sent)
    BY <1>18 DEF Receives, service
  <2>3. /\ shown' = sent[1] /\ shown' \in Figures
        /\ sent' \in Seq(Figures) /\ Len(sent') = n - 1
        /\ \A i \in 1..(n - 1) : sent'[i] = sent[i + 1]
    BY <1>3, <2>1, <2>2
  <2>4. TypeOK'
    BY <1>2, <1>18, <2>3 DEF Receives, TypeOK, service
  <2>5. Linked'
    BY <1>2, <1>18, <2>2 DEF Receives, Linked
  <2>6. Dated(shown)'
    <3>1. 1 \in 1..n
      BY <2>1
    <3>2. Dated(sent[1])
      BY <1>2, <2>1, <3>1 DEF SentInOrder
    <3> QED BY <2>2, <2>3, <3>2 DEF Dated
  <2>7. SentInOrder'
    <3>1. ASSUME NEW i \in 1..(n - 1)
          PROVE  /\ Dated(sent'[i])
                 /\ taken # NoVersion => sent'[i].chart <= taken
                 /\ \A j \in 1..(i - 1) : sent'[j].chart <= sent'[i].flows
      <4>1. i + 1 \in 1..n /\ \A j \in 1..(i - 1) : j + 1 \in 1..((i + 1) - 1) /\ j \in 1..(n - 1)
        BY <2>1
      <4> QED BY <1>2, <2>1, <2>3, <4>1 DEF SentInOrder
    <3> QED BY <1>2, <2>2, <2>3, <3>1 DEF SentInOrder, Dated
  <2> QED BY <1>1, <1>5, <2>2, <2>4, <2>5, <2>6, <2>7 DEF WebInv, PushesInOrder
<1>19. CASE Closes
  <2>1. TypeOK'
    BY <1>2, <1>19 DEF Closes, TypeOK, service, socket, page
  <2>2. Linked'
    BY <1>2, <1>19 DEF Closes, TypeOK, Linked, service, socket, page
  <2>3. Dated(shown)' /\ FetchedDated'
    BY <1>4, <1>5, <1>19 DEF Closes, service, socket, page
  <2>4. SentInOrder'
    BY <1>7, <1>19 DEF Closes, service, socket, page
  <2> QED BY <1>1, <2>1, <2>2, <2>3, <2>4 DEF WebInv, PushesInOrder
<1>20. CASE TimerFires
  <2>1. TypeOK'
    BY <1>2, <1>20 DEF TimerFires, TypeOK, service, socket, page
  <2>2. Linked'
    BY <1>2, <1>20 DEF TimerFires, TypeOK, Linked, service, socket, page
  <2>3. Dated(shown)' /\ FetchedDated' /\ SentInOrder'
    BY <1>4, <1>5, <1>6, <1>7, <1>20 DEF TimerFires, service, socket, page
  <2> QED BY <1>1, <2>1, <2>2, <2>3 DEF WebInv, PushesInOrder
<1>21. ASSUME NEW i \in Fetches, FetchTakesFlows(i) PROVE WebInv'
  <2>1. version' = version /\ UNCHANGED <<taken, sent, shown>>
    BY <1>21 DEF FetchTakesFlows, service, socket, page
  <2>2. fetch' = [fetch EXCEPT ![i] = IF Serves THEN Took(version) ELSE Failed]
    BY <1>21 DEF FetchTakesFlows
  <2>3. fetch' \in [Fetches -> Requests] /\ FetchedDated'
    <3> DEFINE r == IF Serves THEN Took(version) ELSE Failed
    <3>1. r \in Requests /\ (r.at = "took" => r.flows <= version) /\ r.at # "done"
      BY <1>1, RequestFacts
    <3> HIDE DEF r
    <3>2. fetch' = [fetch EXCEPT ![i] = r]
      BY <2>2 DEF r
    <3> QED BY <1>8, <2>1, <3>1, <3>2
  <2>4. TypeOK'
    BY <1>2, <1>21, <2>3 DEF FetchTakesFlows, TypeOK, service, socket, page
  <2>5. Linked'
    BY <1>2, <1>21 DEF FetchTakesFlows, Linked, service, socket, page
  <2> QED BY <1>1, <1>4, <1>6, <2>1, <2>3, <2>4, <2>5 DEF WebInv, PushesInOrder
<1>22. ASSUME NEW i \in Fetches, FetchAnswers(i) PROVE WebInv'
  <2>1. version' = version /\ UNCHANGED <<taken, sent, shown>>
    BY <1>22 DEF FetchAnswers, service, socket, page
  <2>2. /\ fetch[i].at = "took"
        /\ fetch' = [fetch EXCEPT ![i] =
             IF historyErr THEN Failed ELSE Done([flows |-> fetch[i].flows, chart |-> version])]
    BY <1>22 DEF FetchAnswers
  <2>3. fetch' \in [Fetches -> Requests] /\ FetchedDated'
    <3> DEFINE p == [flows |-> fetch[i].flows, chart |-> version]
               r == IF historyErr THEN Failed ELSE Done(p)
    <3>1. fetch[i].flows \in Nat /\ fetch[i].flows <= version
      <4>1. fetch[i] \in Requests
        BY <1>3
      <4>2. fetch[i].flows \in Nat
        BY <2>2, <4>1, RequestFacts, Zenon
      <4>3. fetch[i].flows <= version
        BY <1>2, <2>2, Zenon DEF FetchedDated
      <4> QED BY <4>2, <4>3
    <3>2. p \in Figures /\ Dated(p)
      BY <1>1, <3>1 DEF Figures, Dated
    <3> HIDE DEF p
    <3>3. r \in Requests /\ r.at # "took" /\ (r.at = "done" => Dated(r.payload))
      <4>1. CASE historyErr
        BY <4>1, RequestFacts
      <4>2. CASE ~historyErr
        BY <3>2, <4>2, RequestFacts
      <4> QED BY <4>1, <4>2
    <3>4. fetch' = [fetch EXCEPT ![i] = r]
      BY <2>2 DEF p
    <3> HIDE DEF r
    <3> QED BY <1>8, <2>1, <3>3, <3>4
  <2>4. TypeOK'
    BY <1>2, <1>22, <2>3 DEF FetchAnswers, TypeOK, service, socket, page
  <2>5. Linked'
    BY <1>2, <1>22 DEF FetchAnswers, Linked, service, socket, page
  <2> QED BY <1>1, <1>4, <1>6, <2>1, <2>3, <2>4, <2>5 DEF WebInv, PushesInOrder
<1>23. ASSUME NEW i \in Fetches, FetchLost(i) PROVE WebInv'
  <2>1. version' = version /\ UNCHANGED <<taken, sent, shown>>
    BY <1>23 DEF FetchLost, service, socket, page
  <2>2. fetch' = [fetch EXCEPT ![i] = Failed]
    BY <1>23 DEF FetchLost
  <2>3. fetch' \in [Fetches -> Requests] /\ FetchedDated'
    <3>1. Failed \in Requests /\ Failed.at # "took" /\ Failed.at # "done"
      BY RequestFacts
    <3> QED BY <1>8, <2>1, <2>2, <3>1
  <2>4. TypeOK'
    BY <1>2, <1>23, <2>3 DEF FetchLost, TypeOK, service, socket, page
  <2>5. Linked'
    BY <1>2, <1>23 DEF FetchLost, Linked, service, socket, page
  <2> QED BY <1>1, <1>4, <1>6, <2>1, <2>3, <2>4, <2>5 DEF WebInv, PushesInOrder
<1>24. ASSUME NEW i \in Fetches, FetchArrives(i) PROVE WebInv'
  <2>1. version' = version /\ UNCHANGED <<taken, sent>> /\ fetch' = [fetch EXCEPT ![i] = Idle]
    BY <1>24 DEF FetchArrives, service, socket
  <2>2. fetch' \in [Fetches -> Requests] /\ FetchedDated'
    <3>1. Idle \in Requests /\ Idle.at # "took" /\ Idle.at # "done"
      BY RequestFacts
    <3> QED BY <1>8, <2>1, <3>1
  <2>3. shown' \in Figures /\ Dated(shown)'
    <3>1. CASE fetch[i].at = "done"
      <4>1. shown' = fetch[i].payload
        BY <1>24, <3>1 DEF FetchArrives
      <4>2. fetch[i].payload \in Figures /\ Dated(fetch[i].payload)
        BY <1>2, <1>3, <3>1, RequestFacts DEF FetchedDated
      <4> QED BY <2>1, <4>1, <4>2 DEF Dated
    <3>2. CASE fetch[i].at # "done"
      BY <1>3, <1>4, <1>24, <2>1, <3>2 DEF FetchArrives
    <3> QED BY <3>1, <3>2
  <2>4. TypeOK'
    BY <1>2, <1>24, <2>2, <2>3 DEF FetchArrives, TypeOK, service, socket, page
  <2>5. Linked'
    BY <1>2, <1>24 DEF FetchArrives, Linked, service, socket, page
  <2> QED BY <1>1, <1>6, <2>1, <2>2, <2>3, <2>4, <2>5 DEF WebInv, PushesInOrder
<1>25. CASE UNCHANGED vars
  <2>1. TypeOK' /\ Linked'
    BY <1>2, <1>25 DEF TypeOK, Linked, vars, service, socket, page
  <2>2. Dated(shown)' /\ FetchedDated' /\ SentInOrder'
    BY <1>4, <1>5, <1>6, <1>25 DEF vars, service, socket, page
  <2> QED BY <1>1, <2>1, <2>2 DEF WebInv, PushesInOrder
<1> QED BY <1>9, <1>10, <1>11, <1>12, <1>13, <1>14, <1>15, <1>16,
             <1>17, <1>18, <1>19, <1>20, <1>21, <1>22, <1>23, <1>24,
             <1>25, Zenon
     DEF Next, Polling, Pushes, PageSteps, Fetching

(* The inductive invariant of the session of a page.                       *)
THEOREM WebInvCorrect == Spec => []WebInv
  BY WebInitially, WebInductive, PTL DEF Spec

(* However often connections break, requests fail and polls come between   *)
(* the two locks of an answer: the page never shows flows newer than its   *)
(* chart, and handleWebSocket sends nothing older than it sent before.     *)
THEOREM PushesComeInOrder == Spec => []PushesInOrder
<1>1. WebInv => PushesInOrder
  BY DEF WebInv
<1> QED BY <1>1, WebInvCorrect, PTL
=============================================================================
