--------------------------- MODULE TuiModelProofs ---------------------------
(***************************************************************************)
(* Proofs about TuiModel, for every number of processes, every tree of     *)
(* them, every order and every window size.                                *)
(*                                                                         *)
(* Most of it is about the walk over the tree.  It is recursive, so it is  *)
(* proved by induction, which here is a lemma about sets of naturals.      *)
(***************************************************************************)
EXTENDS TuiModel, FiniteSetTheorems, SequenceTheorems, WellFoundedInduction, TLAPS

-----------------------------------------------------------------------------
(* Induction.                                                              *)

(* A nonempty set of naturals has a least element.                         *)
LEMMA LeastNatural ==
  ASSUME NEW S, S \subseteq Nat, S # {}
  PROVE  \E m \in S : \A n \in S : m <= n
<1>1. PICK m \in S : \A n \in S : <<n, m>> \notin OpToRel(<, Nat)
  BY NatLessThanWellFounded, WFMin, Zenon
<1>2. \A n \in S : ~(n < m)
  <2> SUFFICES ASSUME NEW n \in S, n < m PROVE <<n, m>> \in OpToRel(<, Nat)
    BY <1>1, Zenon
  <2>1. <<n, m>> \in Nat \X Nat /\ <<n, m>>[1] = n /\ <<n, m>>[2] = m
    OBVIOUS
  <2> QED BY <2>1, Zenon DEF OpToRel
<1> QED BY <1>2

(* A set with 0 and the successor of each of its naturals has them all.    *)
LEMMA Induction ==
  ASSUME NEW S, 0 \in S, \A n \in Nat : n \in S => n + 1 \in S
  PROVE  Nat \subseteq S
<1> SUFFICES ASSUME Nat \ S # {} PROVE FALSE
  OBVIOUS
<1>1. PICK m \in Nat \ S : \A n \in Nat \ S : m <= n
  BY LeastNatural
<1>2. m # 0 /\ m - 1 \in Nat
  BY <1>1
<1>3. m - 1 \in S
  BY <1>1, <1>2
<1> QED BY <1>1, <1>2, <1>3

(* The same up to a bound.                                                 *)
LEMMA InductionTo ==
  ASSUME NEW N \in Nat, NEW S, 0 \in S,
         \A n \in 0..(N - 1) : n \in S => n + 1 \in S
  PROVE  0..N \subseteq S
<1> DEFINE T == {n \in Nat : n <= N => n \in S}
<1>1. 0 \in T
  OBVIOUS
<1>2. \A n \in Nat : n \in T => n + 1 \in T
  OBVIOUS
<1> HIDE DEF T
<1>3. Nat \subseteq T
  BY <1>1, <1>2, Induction
<1> QED BY <1>3 DEF T

(* g holds the values of a computation in n steps from e: F[i] is the i-th *)
(* step.                                                                   *)
Computes(g, V, e, n, F) == /\ g \in [0..n -> V]
                           /\ g[0] = e
                           /\ \A i \in 1..n : g[i] = F[i][g[i - 1]]
Computable(V, e, n, F) == \E g : Computes(g, V, e, n, F)

(* A recursion of N steps over a set of values has a result.               *)
LEMMA Recursion ==
  ASSUME NEW V, NEW e \in V, NEW N \in Nat, NEW F \in [1..N -> [V -> V]]
  PROVE  Computable(V, e, N, F)
<1> DEFINE Runs(g, n) == /\ g \in [0..n -> V]
                         /\ g[0] = e
                         /\ \A i \in 1..n : g[i] = F[i][g[i - 1]]
           Good == {n \in 0..N : \E g : Runs(g, n)}
<1>1. 0 \in Good
  <2> DEFINE g == [i \in 0..0 |-> e]
  <2>1. g \in [0..0 -> V] /\ g[0] = e
    OBVIOUS
  <2> HIDE DEF g
  <2>2. Runs(g, 0)
    BY <2>1
  <2> QED BY <2>2
<1>2. ASSUME NEW n \in 0..(N - 1), n \in Good PROVE n + 1 \in Good
  <2>1. PICK g : Runs(g, n)
    BY <1>2
  <2> DEFINE h == [i \in 0..(n + 1) |-> IF i = n + 1 THEN F[n + 1][g[n]] ELSE g[i]]
  <2>2. F[n + 1] \in [V -> V] /\ g[n] \in V
    BY <2>1
  <2>3. h \in [0..(n + 1) -> V]
    BY <2>1, <2>2
  <2>4. \A i \in 0..n : h[i] = g[i]
    OBVIOUS
  <2>5. h[n + 1] = F[n + 1][g[n]]
    OBVIOUS
  <2> HIDE DEF h
  <2>6. Runs(h, n + 1)
    <3>1. h[0] = e
      BY <2>1, <2>4
    <3>2. ASSUME NEW i \in 1..(n + 1) PROVE h[i] = F[i][h[i - 1]]
      <4>1. h[i - 1] = g[i - 1]
        BY <2>4
      <4>2. CASE i = n + 1
        BY <2>5, <4>1, <4>2
      <4>3. CASE i # n + 1
        BY <2>1, <2>4, <4>1, <4>3
      <4> QED BY <4>2, <4>3
    <3> QED BY <2>3, <3>1, <3>2
  <2> QED BY <2>6
<1> HIDE DEF Good
<1>3. 0..N \subseteq Good
  BY <1>1, <1>2, InductionTo
<1>4. N \in Good
  BY <1>3
<1> QED BY <1>4 DEF Good, Computable, Computes

-----------------------------------------------------------------------------
(* Sequences built element by element.                                     *)

(* No element stands at two places.                                        *)
NoTwice(s) == \A i, j \in 1..Len(s) : s[i] = s[j] => i = j

(* What Among does, position by position.                                  *)
LEMMA AmongUnfolds ==
  ASSUME NEW T, NEW seq \in Seq(T), NEW S
  PROVE  \E kept :
           /\ \A i \in 0..Len(seq) : kept[i] \in Seq(T)
           /\ kept[0] = <<>>
           /\ \A i \in 1..Len(seq) :
                kept[i] = IF seq[i] \in S THEN Append(kept[i - 1], seq[i]) ELSE kept[i - 1]
           /\ Among(seq, S) = kept[Len(seq)]
<1>1. PICK N : N \in Nat /\ N = Len(seq) /\ \A i \in 1..N : seq[i] \in T
  OBVIOUS
<1>2. <<>> \in Seq(T)
  OBVIOUS
<1> DEFINE Step(i, s) == IF seq[i] \in S THEN Append(s, seq[i]) ELSE s
           Def(k) == k = [i \in 0..N |-> IF i = 0 THEN <<>> ELSE Step(i, k[i - 1])]
           F == [i \in 1..N |-> [s \in Seq(T) |-> Step(i, s)]]
           kept == CHOOSE k : Def(k)
<1>3. Among(seq, S) = kept[N]
  BY <1>1 DEF Among
<1>4. \A i \in 1..N : \A s \in Seq(T) : Step(i, s) \in Seq(T)
  BY <1>1
<1> HIDE DEF Step
<1>5. \E k : Def(k)
  <2>1. F \in [1..N -> [Seq(T) -> Seq(T)]]
    BY <1>4
  <2> HIDE DEF F
  <2>2. Computable(Seq(T), <<>>, N, F)
    BY <1>1, <1>2, <2>1, Recursion, Zenon
  <2>3. PICK g : /\ g \in [0..N -> Seq(T)]
                 /\ g[0] = <<>>
                 /\ \A i \in 1..N : g[i] = F[i][g[i - 1]]
    BY <2>2, Zenon DEF Computable, Computes
  <2>4. ASSUME NEW i \in 1..N PROVE g[i] = Step(i, g[i - 1])
    <3>1. i - 1 \in 0..N
      BY <1>1
    <3>2. g[i - 1] \in Seq(T)
      BY <2>3, <3>1, Zenon
    <3>3. F[i] = [s \in Seq(T) |-> Step(i, s)]
      BY DEF F
    <3> QED BY <2>3, <3>2, <3>3, Zenon
  <2>5. \A i \in 0..N : g[i] = IF i = 0 THEN <<>> ELSE Step(i, g[i - 1])
    BY <1>1, <2>3, <2>4
  <2>6. g = [i \in 0..N |-> g[i]]
    BY <2>3
  <2>7. Def(g)
    BY <2>5, <2>6
  <2> HIDE DEF Def
  <2> QED BY <2>7
<1>6. Def(kept)
  <2> HIDE DEF Def
  <2> QED BY <1>5
<1> HIDE DEF kept
<1>7. /\ kept[0] = <<>>
      /\ \A i \in 1..N : kept[i] = Step(i, kept[i - 1])
  BY <1>1, <1>6
<1>8. \A i \in 0..N : kept[i] \in Seq(T)
  <2> DEFINE Typed == {i \in 0..N : kept[i] \in Seq(T)}
  <2>1. 0 \in Typed
    <3>1. 0 \in 0..N
      BY <1>1
    <3> QED BY <1>2, <1>7, <3>1, Zenon
  <2>2. ASSUME NEW n \in 0..(N - 1), n \in Typed PROVE n + 1 \in Typed
    <3>1. n + 1 \in 1..N /\ n + 1 \in 0..N /\ n + 1 - 1 = n
      BY <1>1
    <3>2. kept[n + 1] = Step(n + 1, kept[n])
      BY <1>7, <3>1
    <3>3. kept[n] \in Seq(T)
      BY <2>2
    <3> QED BY <1>4, <3>1, <3>2, <3>3
  <2> HIDE DEF Typed
  <2>3. 0..N \subseteq Typed
    BY <1>1, <2>1, <2>2, InductionTo
  <2> QED BY <2>3 DEF Typed
<1> QED BY <1>1, <1>3, <1>7, <1>8 DEF Step

(* What one more sequence, or one more element, does to the elements of a  *)
(* sequence.                                                               *)
LEMMA ConcatFacts ==
  ASSUME NEW T, NEW s \in Seq(T), NEW t \in Seq(T)
  PROVE  /\ ToSet(s \o t) = ToSet(s) \cup ToSet(t)
         /\ NoTwice(s) /\ NoTwice(t) /\ ToSet(s) \cap ToSet(t) = {} => NoTwice(s \o t)
<1> DEFINE a == s \o t
           m == Len(s)
           n == Len(t)
<1>1. /\ m \in Nat /\ DOMAIN s = 1..m /\ n \in Nat /\ DOMAIN t = 1..n
      /\ a \in Seq(T) /\ Len(a) = m + n
      /\ \A i \in 1..(m + n) : a[i] = IF i <= m THEN s[i] ELSE t[i - m]
  BY ConcatProperties, LenProperties
<1>2. DOMAIN a = 1..(m + n)
  BY <1>1, LenProperties
<1>3. \A i \in 1..m : i \in 1..(m + n) /\ a[i] = s[i]
  BY <1>1
<1>4. \A i \in 1..n : m + i \in 1..(m + n) /\ a[m + i] = t[i]
  BY <1>1
<1>5. \A i \in 1..(m + n) : \/ i \in 1..m /\ a[i] = s[i]
                            \/ i - m \in 1..n /\ i = m + (i - m) /\ a[i] = t[i - m]
  BY <1>1
<1> HIDE DEF a, m, n
<1>6. ToSet(a) = ToSet(s) \cup ToSet(t)
  <2>1. ToSet(a) \subseteq ToSet(s) \cup ToSet(t)
    BY <1>1, <1>2, <1>5 DEF ToSet
  <2>2. ToSet(s) \subseteq ToSet(a)
    BY <1>1, <1>2, <1>3 DEF ToSet
  <2>3. ToSet(t) \subseteq ToSet(a)
    <3> SUFFICES ASSUME NEW i \in 1..n PROVE t[i] \in ToSet(a)
      BY <1>1 DEF ToSet
    <3>1. m + i \in DOMAIN a /\ a[m + i] = t[i]
      BY <1>2, <1>4
    <3> QED BY <3>1, Zenon DEF ToSet
  <2> QED BY <2>1, <2>2, <2>3
<1>7. ASSUME NoTwice(s), NoTwice(t), ToSet(s) \cap ToSet(t) = {} PROVE NoTwice(a)
  <2> SUFFICES ASSUME NEW i \in 1..(m + n), NEW j \in 1..(m + n), a[i] = a[j], i < j
               PROVE  FALSE
    BY <1>1 DEF NoTwice
  <2>1. CASE i \in 1..m /\ j \in 1..m
    BY <1>3, <1>7, <2>1 DEF NoTwice, m
  <2>2. CASE i \in 1..m /\ j \notin 1..m
    <3>1. a[i] \in ToSet(s)
      BY <1>1, <1>3, <2>2 DEF ToSet
    <3>2. a[j] \in ToSet(t)
      BY <1>1, <1>5, <2>2 DEF ToSet
    <3> QED BY <1>7, <3>1, <3>2
  <2>3. CASE i \notin 1..m
    <3>1. i - m \in 1..n /\ j - m \in 1..n /\ t[i - m] = t[j - m]
      BY <1>1, <1>5, <2>3
    <3>2. i - m = j - m
      BY <1>7, <3>1 DEF NoTwice, n
    <3> QED BY <1>1, <3>2
  <2> QED BY <2>1, <2>2, <2>3
<1> QED BY <1>6, <1>7 DEF a

(* What Append returns, element by element.                                *)
LEMMA AppendFacts ==
  ASSUME NEW T, NEW s \in Seq(T), NEW e \in T
  PROVE  /\ ToSet(Append(s, e)) = ToSet(s) \cup {e}
         /\ NoTwice(s) /\ e \notin ToSet(s) => NoTwice(Append(s, e))
<1>1. Append(s, e) = s \o <<e>>
  BY AppendIsConcat
<1>2. <<e>> \in Seq(T)
  OBVIOUS
<1>3. ToSet(<<e>>) = {e}
  BY DEF ToSet
<1>4. NoTwice(<<e>>)
  BY DEF NoTwice
<1>5. /\ ToSet(s \o <<e>>) = ToSet(s) \cup ToSet(<<e>>)
      /\ NoTwice(s) /\ NoTwice(<<e>>) /\ ToSet(s) \cap ToSet(<<e>>) = {} => NoTwice(s \o <<e>>)
  BY <1>2, ConcatFacts, Zenon
<1>6. e \notin ToSet(s) => ToSet(s) \cap {e} = {}
  OBVIOUS
<1> QED BY <1>1, <1>3, <1>4, <1>5, <1>6, Zenon

(* Among keeps exactly the elements in S, each as often as it was there.   *)
LEMMA AmongFacts ==
  ASSUME NEW T, NEW seq \in Seq(T), NEW S
  PROVE  /\ Among(seq, S) \in Seq(T)
         /\ ToSet(Among(seq, S)) = ToSet(seq) \cap S
         /\ NoTwice(seq) => NoTwice(Among(seq, S))
<1>1. PICK N : N \in Nat /\ N = Len(seq) /\ DOMAIN seq = 1..N /\ \A i \in 1..N : seq[i] \in T
  OBVIOUS
<1>2. PICK kept :
        /\ \A i \in 0..N : kept[i] \in Seq(T)
        /\ kept[0] = <<>>
        /\ \A i \in 1..N :
             kept[i] = IF seq[i] \in S THEN Append(kept[i - 1], seq[i]) ELSE kept[i - 1]
        /\ Among(seq, S) = kept[N]
  BY <1>1, AmongUnfolds
<1> DEFINE Upto(i) == {seq[j] : j \in 1..i}
           Good == {i \in 0..N : /\ ToSet(kept[i]) = Upto(i) \cap S
                                 /\ NoTwice(seq) => NoTwice(kept[i])}
<1>3. 0 \in Good
  <2>1. ToSet(<<>>) = {} /\ NoTwice(<<>>)
    BY DEF ToSet, NoTwice
  <2>2. Upto(0) = {}
    OBVIOUS
  <2> QED BY <1>1, <1>2, <2>1, <2>2
<1>4. ASSUME NEW i \in 0..(N - 1), i \in Good PROVE i + 1 \in Good
  <2>1. i + 1 \in 1..N /\ i + 1 \in 0..N /\ i + 1 - 1 = i /\ i \in 0..N
    BY <1>1
  <2>2. Upto(i + 1) = Upto(i) \cup {seq[i + 1]}
    BY <1>1
  <2>3. kept[i + 1] = IF seq[i + 1] \in S THEN Append(kept[i], seq[i + 1]) ELSE kept[i]
    BY <1>2, <2>1
  <2>4. kept[i] \in Seq(T) /\ seq[i + 1] \in T
    BY <1>1, <1>2, <2>1
  <2>5. NoTwice(seq) => seq[i + 1] \notin Upto(i)
    BY <1>1, <2>1 DEF NoTwice
  <2> HIDE DEF Upto
  <2>6. CASE seq[i + 1] \in S
    <3>1. /\ ToSet(kept[i + 1]) = ToSet(kept[i]) \cup {seq[i + 1]}
          /\ NoTwice(kept[i]) /\ seq[i + 1] \notin ToSet(kept[i]) => NoTwice(kept[i + 1])
      BY <2>3, <2>4, <2>6, AppendFacts
    <3> QED BY <1>4, <2>1, <2>2, <2>5, <2>6, <3>1
  <2>7. CASE seq[i + 1] \notin S
    BY <1>4, <2>1, <2>2, <2>3, <2>7
  <2> QED BY <2>6, <2>7
<1>5. N \in Good
  <2> HIDE DEF Good
  <2>1. 0..N \subseteq Good
    BY <1>1, <1>3, <1>4, InductionTo
  <2> QED BY <1>1, <2>1
<1>6. Upto(N) = ToSet(seq)
  BY <1>1 DEF ToSet
<1>7. kept[N] \in Seq(T)
  BY <1>1, <1>2
<1> QED BY <1>2, <1>5, <1>6, <1>7

(* What InTurn does, position by position.                                 *)
InTurnByPosition(pids, rowsOf, T) ==
  \E rows : /\ \A i \in 0..Len(pids) : rows[i] \in Seq(T)
            /\ rows[0] = <<>>
            /\ \A i \in 1..Len(pids) : rows[i] = rows[i - 1] \o rowsOf[pids[i]]
            /\ InTurn(pids, rowsOf) = rows[Len(pids)]

(* InTurn by one step: the rows of the last of the list come last.         *)
LEMMA InTurnUnfolds ==
  ASSUME NEW T, NEW P, NEW pids \in Seq(P), NEW rowsOf \in [P -> Seq(T)]
  PROVE  InTurnByPosition(pids, rowsOf, T)
<1>1. PICK N : N \in Nat /\ N = Len(pids) /\ \A i \in 1..N : pids[i] \in P
  OBVIOUS
<1>2. <<>> \in Seq(T)
  OBVIOUS
<1> DEFINE Step(i, s) == s \o rowsOf[pids[i]]
           Def(k) == k = [i \in 0..N |-> IF i = 0 THEN <<>> ELSE Step(i, k[i - 1])]
           F == [i \in 1..N |-> [s \in Seq(T) |-> Step(i, s)]]
           rows == CHOOSE k : Def(k)
<1>3. InTurn(pids, rowsOf) = rows[N]
  BY <1>1 DEF InTurn
<1>4. \A i \in 1..N : \A s \in Seq(T) : Step(i, s) \in Seq(T)
  BY <1>1
<1> HIDE DEF Step
<1>5. \E k : Def(k)
  <2>1. F \in [1..N -> [Seq(T) -> Seq(T)]]
    BY <1>4
  <2> HIDE DEF F
  <2>2. Computable(Seq(T), <<>>, N, F)
    BY <1>1, <1>2, <2>1, Recursion, Zenon
  <2>3. PICK g : /\ g \in [0..N -> Seq(T)]
                 /\ g[0] = <<>>
                 /\ \A i \in 1..N : g[i] = F[i][g[i - 1]]
    BY <2>2, Zenon DEF Computable, Computes
  <2>4. ASSUME NEW i \in 1..N PROVE g[i] = Step(i, g[i - 1])
    <3>1. i - 1 \in 0..N
      BY <1>1
    <3>2. g[i - 1] \in Seq(T)
      BY <2>3, <3>1, Zenon
    <3>3. F[i] = [s \in Seq(T) |-> Step(i, s)]
      BY DEF F
    <3> QED BY <2>3, <3>2, <3>3, Zenon
  <2>5. \A i \in 0..N : g[i] = IF i = 0 THEN <<>> ELSE Step(i, g[i - 1])
    BY <1>1, <2>3, <2>4
  <2>6. g = [i \in 0..N |-> g[i]]
    BY <2>3
  <2>7. Def(g)
    BY <2>5, <2>6
  <2> HIDE DEF Def
  <2> QED BY <2>7
<1>6. Def(rows)
  <2> HIDE DEF Def
  <2> QED BY <1>5
<1> HIDE DEF rows
<1>7. /\ rows[0] = <<>>
      /\ \A i \in 1..N : rows[i] = Step(i, rows[i - 1])
  <2>1. \A i \in 0..N : rows[i] = IF i = 0 THEN <<>> ELSE Step(i, rows[i - 1])
    BY <1>6, Zenon
  <2>2. 0 \in 0..N /\ \A i \in 1..N : i \in 0..N /\ i # 0
    BY <1>1
  <2> QED BY <2>1, <2>2, Zenon
<1>8. \A i \in 0..N : rows[i] \in Seq(T)
  <2> DEFINE Typed == {i \in 0..N : rows[i] \in Seq(T)}
  <2>1. 0 \in Typed
    <3>1. 0 \in 0..N
      BY <1>1
    <3> QED BY <1>2, <1>7, <3>1, Zenon
  <2>2. ASSUME NEW n \in 0..(N - 1), n \in Typed PROVE n + 1 \in Typed
    <3>1. n + 1 \in 1..N /\ n + 1 \in 0..N /\ n + 1 - 1 = n
      BY <1>1
    <3>2. rows[n + 1] = Step(n + 1, rows[n])
      BY <1>7, <3>1
    <3>3. rows[n] \in Seq(T)
      BY <2>2
    <3> QED BY <1>4, <3>1, <3>2, <3>3
  <2> HIDE DEF Typed
  <2>3. 0..N \subseteq Typed
    BY <1>1, <2>1, <2>2, InductionTo
  <2> QED BY <2>3 DEF Typed
<1> QED BY <1>1, <1>3, <1>7, <1>8 DEF Step, InTurnByPosition

(* InTurn has the elements of all its parts, and none twice if no part has *)
(* and no two of them share one.                                           *)
LEMMA InTurnFacts ==
  ASSUME NEW T, NEW P, NEW pids \in Seq(P), NEW rowsOf \in [P -> Seq(T)]
  PROVE  /\ InTurn(pids, rowsOf) \in Seq(T)
         /\ \A q : q \in ToSet(InTurn(pids, rowsOf))
                     <=> \E p \in ToSet(pids) : q \in ToSet(rowsOf[p])
         /\ /\ NoTwice(pids)
            /\ \A p \in ToSet(pids) : NoTwice(rowsOf[p])
            /\ \A p1, p2 \in ToSet(pids) : \A q :
                 q \in ToSet(rowsOf[p1]) /\ q \in ToSet(rowsOf[p2]) => p1 = p2
            => NoTwice(InTurn(pids, rowsOf))
<1> DEFINE N == Len(pids)
<1>1. N \in Nat /\ DOMAIN pids = 1..N /\ \A i \in 1..N : pids[i] \in P
  OBVIOUS
<1>2. PICK rows :
        /\ \A i \in 0..N : rows[i] \in Seq(T)
        /\ rows[0] = <<>>
        /\ \A i \in 1..N : rows[i] = rows[i - 1] \o rowsOf[pids[i]]
        /\ InTurn(pids, rowsOf) = rows[N]
  <2>1. InTurnByPosition(pids, rowsOf, T)
    BY InTurnUnfolds
  <2> QED BY <2>1 DEF InTurnByPosition
<1> HIDE DEF N
<1> DEFINE Apart == /\ NoTwice(pids)
                    /\ \A p \in ToSet(pids) : NoTwice(rowsOf[p])
                    /\ \A p1, p2 \in ToSet(pids) : \A q :
                         q \in ToSet(rowsOf[p1]) /\ q \in ToSet(rowsOf[p2]) => p1 = p2
           Of(i, q) == \E j \in 1..i : q \in ToSet(rowsOf[pids[j]])
           Good == {i \in 0..N : /\ \A q : q \in ToSet(rows[i]) <=> Of(i, q)
                                 /\ Apart => NoTwice(rows[i])}
<1>3. 0 \in Good
  <2>1. ToSet(<<>>) = {} /\ NoTwice(<<>>)
    BY DEF ToSet, NoTwice
  <2>2. \A q : ~ Of(0, q)
    OBVIOUS
  <2> HIDE DEF Of, Apart
  <2> QED BY <1>1, <1>2, <2>1, <2>2
<1>4. ASSUME NEW i \in 0..(N - 1), i \in Good PROVE i + 1 \in Good
  <2>1. i + 1 \in 1..N /\ i + 1 \in 0..N /\ i + 1 - 1 = i /\ i \in 0..N
    BY <1>1
  <2> DEFINE part == rowsOf[pids[i + 1]]
  <2>2. rows[i + 1] = rows[i] \o part
    <3> DEFINE k == i + 1
    <3>1. k \in 1..N /\ k - 1 = i
      BY <2>1
    <3> HIDE DEF k
    <3>2. rows[k] = rows[k - 1] \o rowsOf[pids[k]]
      BY <1>2, <3>1, Zenon
    <3>3. rows[k] = rows[i] \o rowsOf[pids[k]]
      BY <3>1, <3>2, Zenon
    <3> QED BY <3>3, Zenon DEF k
  <2>3. rows[i] \in Seq(T) /\ part \in Seq(T)
    BY <1>1, <1>2, <2>1
  <2>4. \A q : Of(i + 1, q) <=> Of(i, q) \/ q \in ToSet(part)
    <3>1. 1..(i + 1) = (1..i) \cup {i + 1}
      BY <2>1
    <3> QED BY <3>1
  <2>5. Apart => NoTwice(part)
    <3>1. pids[i + 1] \in ToSet(pids)
      BY <1>1, <2>1 DEF ToSet
    <3> QED BY <3>1
  <2>6. Apart => \A q : ~(Of(i, q) /\ q \in ToSet(part))
    <3> SUFFICES ASSUME Apart, NEW j \in 1..i, NEW q,
                        q \in ToSet(rowsOf[pids[j]]), q \in ToSet(part)
                 PROVE  FALSE
      OBVIOUS
    <3>1. j \in 1..N /\ j # i + 1
      BY <1>1, <2>1
    <3>2. pids[j] \in ToSet(pids) /\ pids[i + 1] \in ToSet(pids)
      BY <1>1, <2>1, <3>1 DEF ToSet
    <3>3. pids[j] = pids[i + 1]
      BY <3>2
    <3> QED BY <1>1, <2>1, <3>1, <3>3 DEF NoTwice, N
  <2>7. /\ ToSet(rows[i] \o part) = ToSet(rows[i]) \cup ToSet(part)
        /\ NoTwice(rows[i]) /\ NoTwice(part) /\ ToSet(rows[i]) \cap ToSet(part) = {}
           => NoTwice(rows[i] \o part)
    BY <2>3, ConcatFacts
  <2> HIDE DEF Of, Apart, part
  <2>8. \A q : q \in ToSet(rows[i + 1]) <=> Of(i + 1, q)
    BY <1>4, <2>2, <2>4, <2>7
  <2>9. Apart => NoTwice(rows[i + 1])
    BY <1>4, <2>2, <2>5, <2>6, <2>7
  <2> QED BY <2>1, <2>8, <2>9
<1>5. N \in Good
  <2> HIDE DEF Good
  <2>1. 0..N \subseteq Good
    BY <1>1, <1>3, <1>4, InductionTo
  <2> QED BY <1>1, <2>1
<1>6. \A q : Of(N, q) <=> \E p \in ToSet(pids) : q \in ToSet(rowsOf[p])
  BY <1>1 DEF ToSet
<1>7. rows[N] \in Seq(T)
  BY <1>1, <1>2
<1> HIDE DEF Of
<1> QED BY <1>2, <1>5, <1>6, <1>7

-----------------------------------------------------------------------------
(* The tree.                                                               *)

(* An order has every process once.                                        *)
LEMMA OrderFacts ==
  ASSUME NEW o \in Orders
  PROVE  o \in Seq(Pids) /\ ToSet(o) = Pids /\ NoTwice(o)
<1>1. o \in Seq(Pids) /\ ToSet(o) = Pids /\ Len(o) = Cardinality(Pids)
  BY ListAssumption
<1>2. IsFiniteSet(1..Len(o)) /\ Cardinality(1..Len(o)) = Len(o) /\ Len(o) \in Nat
  BY <1>1, FS_Interval
<1>3. o \in Surjection(1..Len(o), Pids)
  BY <1>1 DEF ToSet, Surjection, Range
<1>4. o \in Injection(1..Len(o), Pids)
  BY <1>1, <1>2, <1>3, FS_SurjSameCardinalityImpliesInj
<1>5. NoTwice(o)
  BY <1>4 DEF NoTwice, Injection, IsInjective
<1> QED BY <1>1, <1>5

(* The tree hangs together: what is shown are processes, and what has a    *)
(* parent has it among them.                                               *)
LEMMA ShownFacts ==
  ASSUME flows \in Snapshots
  PROVE  /\ shown \subseteq Pids /\ IsFiniteSet(shown)
         /\ \A p \in shown : HasParent(p) <=> flows.parent[p] \in shown \ {p}
         /\ \A p : ChildrenOf(p) \subseteq shown
         /\ parents \subseteq shown
<1>1. DOMAIN flows.parent \subseteq Pids
  BY SnapshotAssumption
<1>2. shown \subseteq Pids
  BY <1>1 DEF shown
<1>3. IsFiniteSet(shown)
  BY <1>2, PidAssumption, FS_Subset
<1> QED BY <1>2, <1>3 DEF HasParent, ChildrenOf, parents

(* Roots and children are lists of shown processes, each once.             *)
LEMMA RootsAndChildren ==
  ASSUME flows \in Snapshots, order \in Orders
  PROVE  /\ roots \in Seq(Pids) /\ NoTwice(roots)
         /\ ToSet(roots) = {p \in shown : ~HasParent(p)}
         /\ \A p : /\ children(p) \in Seq(Pids) /\ NoTwice(children(p))
                   /\ ToSet(children(p)) = ChildrenOf(p)
<1>1. order \in Seq(Pids) /\ ToSet(order) = Pids /\ NoTwice(order)
  BY OrderFacts
<1>2. shown \subseteq Pids /\ \A p : ChildrenOf(p) \subseteq shown
  BY ShownFacts
<1>3. /\ roots \in Seq(Pids) /\ NoTwice(roots)
      /\ ToSet(roots) = {p \in shown : ~HasParent(p)}
  <2> DEFINE R == {p \in shown : ~HasParent(p)}
  <2>1. R \subseteq Pids
    BY <1>2
  <2> HIDE DEF R
  <2>2. /\ Among(order, R) \in Seq(Pids) /\ NoTwice(Among(order, R))
        /\ ToSet(Among(order, R)) = Pids \cap R
    BY <1>1, AmongFacts
  <2>3. roots = Among(order, R)
    BY DEF roots, R
  <2>4. Pids \cap R = R
    BY <2>1
  <2> QED BY <2>2, <2>3, <2>4 DEF R
<1>4. ASSUME NEW p
      PROVE  /\ children(p) \in Seq(Pids) /\ NoTwice(children(p))
             /\ ToSet(children(p)) = ChildrenOf(p)
  <2>1. /\ Among(order, ChildrenOf(p)) \in Seq(Pids)
        /\ NoTwice(Among(order, ChildrenOf(p)))
        /\ ToSet(Among(order, ChildrenOf(p))) = Pids \cap ChildrenOf(p)
    BY <1>1, AmongFacts
  <2>2. Pids \cap ChildrenOf(p) = ChildrenOf(p)
    BY <1>2
  <2> QED BY <2>1, <2>2 DEF children
<1> QED BY <1>3, <1>4

(* What RowsOpen does, level by level.                                     *)
Depth == Cardinality(Pids)

RowsByDepth(rows, open) ==
  /\ \A n \in 0..Depth : rows[n] \in [Pids -> Seq(Pids)]
  /\ \A p \in Pids : rows[0][p] = <<p>>
  /\ \A n \in 1..Depth : \A p \in Pids :
       rows[n][p] = IF p \in open THEN <<p>> \o InTurn(children(p), rows[n - 1]) ELSE <<p>>
  /\ RowsOpen(open) = InTurn(roots, rows[Depth])

(* The depth of the recursion is a natural number.                         *)
LEMMA DepthType == Depth \in Nat
  BY PidAssumption, FS_CardinalityType DEF Depth

(* RowsOpen by depth: an open row brings the rows of its children.         *)
LEMMA RowsUnfold ==
  ASSUME flows \in Snapshots, order \in Orders, NEW open
  PROVE  \E rows : RowsByDepth(rows, open)
<1> DEFINE V == [Pids -> Seq(Pids)]
           e == [p \in Pids |-> <<p>>]
           Step(n, r) == [p \in Pids |-> IF n > 0 /\ p \in open
                                         THEN <<p>> \o InTurn(children(p), r)
                                         ELSE <<p>>]
           Def(k) == k = [n \in 0..Depth |-> Step(n, k[n - 1])]
           F == [n \in 1..Depth |-> [r \in V |-> Step(n, r)]]
           rows == CHOOSE k : Def(k)
<1>1. Depth \in Nat
  BY DepthType
<1>2. RowsOpen(open) = InTurn(roots, rows[Depth])
  BY DEF RowsOpen, Depth
<1>3. e \in V
  OBVIOUS
<1>4. ASSUME NEW n, NEW r \in V PROVE Step(n, r) \in V
  <2> SUFFICES ASSUME NEW p \in Pids
               PROVE  (IF n > 0 /\ p \in open
                       THEN <<p>> \o InTurn(children(p), r) ELSE <<p>>) \in Seq(Pids)
    OBVIOUS
  <2>1. <<p>> \in Seq(Pids)
    OBVIOUS
  <2>2. children(p) \in Seq(Pids)
    BY RootsAndChildren
  <2>3. InTurn(children(p), r) \in Seq(Pids)
    BY <2>2, InTurnFacts
  <2>4. <<p>> \o InTurn(children(p), r) \in Seq(Pids)
    BY <2>1, <2>3, ConcatProperties
  <2> QED BY <2>1, <2>4, Zenon
<1>5. \A r : Step(0, r) = e
  OBVIOUS
<1>6. ASSUME NEW n \in 1..Depth, NEW r, NEW p \in Pids
      PROVE  Step(n, r)[p] = IF p \in open THEN <<p>> \o InTurn(children(p), r) ELSE <<p>>
  BY <1>1
<1>7. \A p \in Pids : e[p] = <<p>>
  OBVIOUS
<1> HIDE DEF Step, V, e
<1>8. \E k : Def(k)
  <2>1. F \in [1..Depth -> [V -> V]]
    BY <1>4
  <2> HIDE DEF F
  <2>2. Computable(V, e, Depth, F)
    BY <1>1, <1>3, <2>1, Recursion, Zenon
  <2>3. PICK g : /\ g \in [0..Depth -> V]
                 /\ g[0] = e
                 /\ \A i \in 1..Depth : g[i] = F[i][g[i - 1]]
    BY <2>2, Zenon DEF Computable, Computes
  <2>4. ASSUME NEW i \in 1..Depth PROVE g[i] = Step(i, g[i - 1])
    <3>1. i - 1 \in 0..Depth
      BY <1>1
    <3>2. g[i - 1] \in V
      BY <2>3, <3>1, Zenon
    <3>3. F[i] = [r \in V |-> Step(i, r)]
      BY DEF F
    <3> QED BY <2>3, <3>2, <3>3, Zenon
  <2>5. g[0] = Step(0, g[0 - 1])
    BY <1>5, <2>3
  <2>6. \A i \in 0..Depth : i = 0 \/ i \in 1..Depth
    BY <1>1
  <2>7. \A i \in 0..Depth : g[i] = Step(i, g[i - 1])
    BY <2>4, <2>5, <2>6, Zenon
  <2>8. g = [i \in 0..Depth |-> g[i]]
    BY <2>3
  <2>9. Def(g)
    BY <2>7, <2>8
  <2> HIDE DEF Def
  <2> QED BY <2>9
<1>9. Def(rows)
  <2> HIDE DEF Def
  <2> QED BY <1>8
<1> HIDE DEF rows
<1>10. \A n \in 0..Depth : rows[n] = Step(n, rows[n - 1])
  BY <1>9, Zenon
<1>11. rows[0] = e
  <2>1. 0 \in 0..Depth
    BY <1>1
  <2> QED BY <1>5, <1>10, <2>1, Zenon
<1>12. \A n \in 0..Depth : rows[n] \in V
  <2> DEFINE Typed == {n \in 0..Depth : rows[n] \in V}
  <2>1. 0 \in Typed
    BY <1>1, <1>3, <1>11
  <2>2. ASSUME NEW n \in 0..(Depth - 1), n \in Typed PROVE n + 1 \in Typed
    <3>1. n + 1 \in 0..Depth /\ n + 1 - 1 = n
      BY <1>1
    <3>2. rows[n + 1] = Step(n + 1, rows[n])
      BY <1>10, <3>1
    <3> QED BY <1>4, <2>2, <3>1, <3>2
  <2> HIDE DEF Typed
  <2>3. 0..Depth \subseteq Typed
    BY <1>1, <2>1, <2>2, InductionTo
  <2> QED BY <2>3 DEF Typed
<1>13. ASSUME NEW n \in 1..Depth, NEW p \in Pids
       PROVE  rows[n][p] = IF p \in open THEN <<p>> \o InTurn(children(p), rows[n - 1])
                                         ELSE <<p>>
  <2>1. n \in 0..Depth
    BY <1>1
  <2>2. rows[n] = Step(n, rows[n - 1])
    BY <1>10, <2>1, Zenon
  <2> DEFINE r == rows[n - 1]
  <2>3. Step(n, r)[p] = IF p \in open THEN <<p>> \o InTurn(children(p), r) ELSE <<p>>
    BY <1>6
  <2>4. rows[n][p] = Step(n, r)[p]
    BY <2>2
  <2> QED BY <2>3, <2>4
<1>14. RowsByDepth(rows, open)
  BY <1>2, <1>7, <1>11, <1>12, <1>13, Zenon DEF RowsByDepth, V
<1> QED BY <1>14

-----------------------------------------------------------------------------
(* Every process once.                                                     *)

(* The levels of the tree: the roots, their children, and so on.           *)
Levels(level) ==
  /\ level \in [0..Depth -> SUBSET Pids]
  /\ level[0] = {p \in shown : ~HasParent(p)}
  /\ \A n \in 1..Depth :
       level[n] = {c \in shown : HasParent(c) /\ flows.parent[c] \in level[n - 1]}

(* The shown processes by level: the roots, their children, and theirs.    *)
LEMMA LevelsExist ==
  ASSUME flows \in Snapshots
  PROVE  \E level : Levels(level)
<1> DEFINE V == SUBSET Pids
           e == {p \in shown : ~HasParent(p)}
           Below(S) == {c \in shown : HasParent(c) /\ flows.parent[c] \in S}
           F == [n \in 1..Depth |-> [S \in V |-> Below(S)]]
<1>1. Depth \in Nat
  BY DepthType
<1>2. e \in V /\ \A S : Below(S) \in V
  BY ShownFacts
<1> HIDE DEF e, Below
<1>3. F \in [1..Depth -> [V -> V]]
  BY <1>2
<1> HIDE DEF F, V
<1>4. Computable(V, e, Depth, F)
  BY <1>1, <1>2, <1>3, Recursion, Zenon
<1>5. PICK g : /\ g \in [0..Depth -> V]
               /\ g[0] = e
               /\ \A i \in 1..Depth : g[i] = F[i][g[i - 1]]
  BY <1>4, Zenon DEF Computable, Computes
<1>6. ASSUME NEW i \in 1..Depth PROVE g[i] = Below(g[i - 1])
  <2>1. i - 1 \in 0..Depth
    BY <1>1
  <2>2. g[i - 1] \in V
    BY <1>5, <2>1, Zenon
  <2>3. F[i] = [S \in V |-> Below(S)]
    BY DEF F
  <2> QED BY <1>5, <2>2, <2>3, Zenon
<1>7. Levels(g)
  BY <1>5, <1>6, Zenon DEF Levels, V, e, Below
<1> QED BY <1>7

(* No process is on two levels: its parent would be.                       *)
LEMMA LevelsAreApart ==
  ASSUME flows \in Snapshots, NEW level, Levels(level),
         NEW m \in 0..Depth, NEW n \in 0..Depth, NEW q, q \in level[m], q \in level[n]
  PROVE  m = n
<1> DEFINE Good == {k \in 0..Depth : \A l \in 0..Depth : \A p \in level[k] :
                                       p \in level[l] => k = l}
<1>1. Depth \in Nat
  BY DepthType
<1>2. \A l \in 0..Depth : l = 0 \/ (l \in 1..Depth /\ l - 1 \in 0..Depth)
  BY <1>1
<1>3. \A l \in 1..Depth : \A p \in level[l] : HasParent(p) /\ flows.parent[p] \in level[l - 1]
  BY DEF Levels
<1>4. \A p \in level[0] : ~HasParent(p)
  BY DEF Levels
<1>5. 0 \in Good
  BY <1>1, <1>2, <1>3, <1>4
<1>6. ASSUME NEW k \in 0..(Depth - 1), k \in Good PROVE k + 1 \in Good
  <2>1. k + 1 \in 1..Depth /\ k + 1 \in 0..Depth /\ k + 1 - 1 = k
    BY <1>1
  <2> SUFFICES ASSUME NEW l \in 0..Depth, NEW p \in level[k + 1], p \in level[l]
               PROVE  k + 1 = l
    BY <2>1
  <2>2. HasParent(p) /\ flows.parent[p] \in level[k]
    BY <1>3, <2>1
  <2>3. l \in 1..Depth /\ l - 1 \in 0..Depth
    BY <1>2, <1>4, <2>2
  <2>4. flows.parent[p] \in level[l - 1]
    BY <1>3, <2>3
  <2>5. k = l - 1
    BY <1>6, <2>2, <2>3, <2>4
  <2> QED BY <2>3, <2>5
<1> HIDE DEF Good
<1>7. 0..Depth \subseteq Good
  BY <1>1, <1>5, <1>6, InductionTo
<1> QED BY <1>7 DEF Good

(* There are not as many levels as processes and one: the last is empty.   *)
LEMMA LastLevelEmpty ==
  ASSUME flows \in Snapshots, NEW level, Levels(level)
  PROVE  level[Depth] = {}
<1> SUFFICES ASSUME level[Depth] # {} PROVE FALSE
  OBVIOUS
<1>1. Depth \in Nat
  BY DepthType
<1> DEFINE Good == {k \in 0..Depth : level[Depth - k] # {}}
<1>2. 0 \in Good
  BY <1>1
<1>3. ASSUME NEW k \in 0..(Depth - 1), k \in Good PROVE k + 1 \in Good
  <2> DEFINE n == Depth - k
  <2>1. n \in 1..Depth /\ n - 1 = Depth - (k + 1) /\ k + 1 \in 0..Depth
    BY <1>1
  <2>2. level[n] # {}
    BY <1>3
  <2> HIDE DEF n
  <2>3. level[n] = {c \in shown : HasParent(c) /\ flows.parent[c] \in level[n - 1]}
    BY <2>1 DEF Levels
  <2>4. level[n - 1] # {}
    BY <2>2, <2>3
  <2> QED BY <2>1, <2>4
<1>4. 0..Depth \subseteq Good
  <2> HIDE DEF Good
  <2> QED BY <1>1, <1>2, <1>3, InductionTo
<1>5. \A n \in 0..Depth : level[n] # {}
  <2> SUFFICES ASSUME NEW n \in 0..Depth PROVE level[n] # {}
    OBVIOUS
  <2>1. Depth - n \in 0..Depth /\ Depth - (Depth - n) = n
    BY <1>1
  <2>2. Depth - n \in Good
    BY <1>4, <2>1
  <2> QED BY <2>1, <2>2
<1> DEFINE one == [n \in 0..Depth |-> CHOOSE q \in level[n] : TRUE]
<1>6. \A n \in 0..Depth : one[n] \in level[n] /\ level[n] \subseteq Pids
  <2> SUFFICES ASSUME NEW n \in 0..Depth PROVE one[n] \in level[n] /\ level[n] \subseteq Pids
    OBVIOUS
  <2>1. one[n] = CHOOSE q \in level[n] : TRUE
    OBVIOUS
  <2>2. \E q : q \in level[n]
    BY <1>5
  <2>3. one[n] \in level[n]
    BY <2>1, <2>2, Zenon
  <2> QED BY <2>3 DEF Levels
<1>7. one \in [0..Depth -> Pids]
  BY <1>6
<1>8. \A m, n \in 0..Depth : one[m] = one[n] => m = n
  <2> SUFFICES ASSUME NEW m \in 0..Depth, NEW n \in 0..Depth, one[m] = one[n] PROVE m = n
    OBVIOUS
  <2>1. one[m] \in level[m] /\ one[m] \in level[n]
    BY <1>6
  <2> QED BY <2>1, LevelsAreApart
<1> HIDE DEF one
<1>9. one \in Injection(0..Depth, Pids)
  BY <1>7, <1>8 DEF Injection, IsInjective
<1>10. IsFiniteSet(Pids)
  BY PidAssumption
<1>11. Cardinality(0..Depth) = Depth + 1
  <2>1. 0 \in Int /\ Depth \in Int
    BY <1>1
  <2>2. Cardinality(0..Depth) = IF 0 > Depth THEN 0 ELSE Depth - 0 + 1
    BY <2>1, FS_Interval
  <2> QED BY <1>1, <2>2
<1>12. Cardinality(0..Depth) <= Cardinality(Pids)
  BY <1>9, <1>10, FS_Injection
<1>13. Cardinality(Pids) = Depth
  BY DEF Depth
<1> QED BY <1>1, <1>11, <1>12, <1>13

(* What is on no level is on a circle, or below one, and nothing else is.  *)
LEMMA CirclesAreOffLevels ==
  ASSUME flows \in Snapshots, NEW level, Levels(level), NEW p \in shown
  PROVE  OnCircle(p) <=> \A n \in 0..Depth : p \notin level[n]
<1>1. Depth \in Nat
  BY DepthType
<1>2. level[Depth] = {}
  BY LastLevelEmpty
<1>3. ASSUME \A n \in 0..Depth : p \notin level[n] PROVE OnCircle(p)
  <2> DEFINE S == {q \in shown : \A n \in 0..Depth : q \notin level[n]}
  <2>1. ASSUME NEW q \in S PROVE flows.parent[q] \in S \ {q}
    <3>1. HasParent(q)
      <4>1. 0 \in 0..Depth
        BY <1>1
      <4> QED BY <4>1 DEF Levels
    <3>2. flows.parent[q] # q /\ flows.parent[q] \in shown
      BY <3>1 DEF HasParent
    <3>3. ASSUME NEW n \in 0..Depth, flows.parent[q] \in level[n] PROVE FALSE
      <4>1. n + 1 \in 1..Depth /\ n + 1 \in 0..Depth /\ n + 1 - 1 = n
        BY <1>1, <1>2, <3>3
      <4>2. level[n + 1] = {c \in shown : HasParent(c) /\ flows.parent[c] \in level[n]}
        BY <4>1 DEF Levels
      <4>3. q \in level[n + 1]
        BY <3>1, <3>3, <4>2
      <4> QED BY <4>1, <4>3
    <3> QED BY <3>2, <3>3
  <2>2. S \in SUBSET shown /\ p \in S
    BY <1>3
  <2> HIDE DEF S
  <2> QED BY <2>1, <2>2 DEF OnCircle
<1>4. ASSUME OnCircle(p) PROVE \A n \in 0..Depth : p \notin level[n]
  <2>1. PICK S \in SUBSET shown : p \in S /\ \A q \in S : flows.parent[q] \in S \ {q}
    BY <1>4 DEF OnCircle
  <2> DEFINE Good == {n \in 0..Depth : level[n] \cap S = {}}
  <2>2. \A q \in S : HasParent(q)
    BY <2>1 DEF HasParent
  <2>3. 0 \in Good
    BY <1>1, <2>2 DEF Levels
  <2>4. ASSUME NEW n \in 0..(Depth - 1), n \in Good PROVE n + 1 \in Good
    <3>1. n + 1 \in 1..Depth /\ n + 1 \in 0..Depth /\ n + 1 - 1 = n
      BY <1>1
    <3>2. level[n + 1] = {c \in shown : HasParent(c) /\ flows.parent[c] \in level[n]}
      BY <3>1 DEF Levels
    <3> QED BY <2>1, <2>4, <3>1, <3>2
  <2> HIDE DEF Good
  <2>5. 0..Depth \subseteq Good
    BY <1>1, <2>3, <2>4, InductionTo
  <2> QED BY <2>1, <2>5 DEF Good
<1> QED BY <1>3, <1>4

(* The rows of an open process: itself and those of its children.          *)
RowsOfFamily(p, rowsOfP, sub) ==
  /\ \A q : q \in ToSet(rowsOfP)
              <=> q = p \/ \E c \in ChildrenOf(p) : q \in ToSet(sub[c])
  /\ /\ \A c \in ChildrenOf(p) : NoTwice(sub[c]) /\ p \notin ToSet(sub[c])
     /\ \A c1, c2 \in ChildrenOf(p) : \A q :
          q \in ToSet(sub[c1]) /\ q \in ToSet(sub[c2]) => c1 = c2
     => NoTwice(rowsOfP)

(* What an open process brings: itself and what its children bring.        *)
LEMMA RowsOfOne ==
  ASSUME flows \in Snapshots, order \in Orders, NEW open, NEW rows, RowsByDepth(rows, open),
         NEW n \in 1..Depth, NEW p \in Pids, p \in open
  PROVE  RowsOfFamily(p, rows[n][p], rows[n - 1])
<1> DEFINE sub == rows[n - 1]
           below == InTurn(children(p), sub)
           one == <<p>>
<1>1. n \in 0..Depth /\ n - 1 \in 0..Depth
  BY DepthType
<1>2. sub \in [Pids -> Seq(Pids)] /\ rows[n] \in [Pids -> Seq(Pids)]
  BY <1>1 DEF RowsByDepth
<1>3. rows[n][p] = one \o below
  BY DEF RowsByDepth
<1>4. one \in Seq(Pids) /\ ToSet(one) = {p} /\ NoTwice(one)
  BY DEF ToSet, NoTwice
<1>5. /\ children(p) \in Seq(Pids) /\ NoTwice(children(p))
      /\ ToSet(children(p)) = ChildrenOf(p)
  BY RootsAndChildren
<1> HIDE DEF sub, one
<1>6. /\ below \in Seq(Pids)
      /\ \A q : q \in ToSet(below) <=> \E c \in ChildrenOf(p) : q \in ToSet(sub[c])
      /\ /\ \A c \in ChildrenOf(p) : NoTwice(sub[c])
         /\ \A c1, c2 \in ChildrenOf(p) : \A q :
              q \in ToSet(sub[c1]) /\ q \in ToSet(sub[c2]) => c1 = c2
         => NoTwice(below)
  <2> DEFINE kids == children(p)
  <2> HIDE DEF kids
  <2>1. kids \in Seq(Pids) /\ NoTwice(kids) /\ ToSet(kids) = ChildrenOf(p)
    BY <1>5 DEF kids
  <2>2. /\ InTurn(kids, sub) \in Seq(Pids)
        /\ \A q : q \in ToSet(InTurn(kids, sub)) <=> \E c \in ToSet(kids) : q \in ToSet(sub[c])
        /\ /\ NoTwice(kids)
           /\ \A c \in ToSet(kids) : NoTwice(sub[c])
           /\ \A c1, c2 \in ToSet(kids) : \A q :
                q \in ToSet(sub[c1]) /\ q \in ToSet(sub[c2]) => c1 = c2
           => NoTwice(InTurn(kids, sub))
    BY <1>2, <2>1, InTurnFacts
  <2> QED BY <2>1, <2>2 DEF kids
<1> HIDE DEF below
<1>7. /\ ToSet(one \o below) = ToSet(one) \cup ToSet(below)
      /\ NoTwice(one) /\ NoTwice(below) /\ ToSet(one) \cap ToSet(below) = {}
         => NoTwice(one \o below)
  BY <1>4, <1>6, ConcatFacts
<1>8. \A q : q \in ToSet(rows[n][p]) <=> q = p \/ \E c \in ChildrenOf(p) : q \in ToSet(sub[c])
  BY <1>3, <1>4, <1>6, <1>7
<1>9. ASSUME \A c \in ChildrenOf(p) : NoTwice(sub[c]) /\ p \notin ToSet(sub[c]),
             \A c1, c2 \in ChildrenOf(p) : \A q :
               q \in ToSet(sub[c1]) /\ q \in ToSet(sub[c2]) => c1 = c2
      PROVE  NoTwice(rows[n][p])
  <2>1. NoTwice(below)
    BY <1>6, <1>9
  <2>2. p \notin ToSet(below)
    BY <1>6, <1>9
  <2> QED BY <1>3, <1>4, <1>7, <2>1, <2>2
<1> QED BY <1>8, <1>9 DEF sub, RowsOfFamily

(* With all of them open, what stands under the processes of a level.      *)
RowsOf(rows, level, n) ==
  \A d \in 0..Depth :
    /\ \A p \in level[d] :
         /\ p \in ToSet(rows[n][p]) /\ NoTwice(rows[n][p])
         /\ \A q \in ToSet(rows[n][p]) :
              \E e \in d..Depth : q \in level[e] /\ (e = d => q = p)
    /\ \A p1, p2 \in level[d] : \A q :
         q \in ToSet(rows[n][p1]) /\ q \in ToSet(rows[n][p2]) => p1 = p2
    /\ \A e \in d..Depth : e <= d + n =>
         \A q \in level[e] : \E p \in level[d] : q \in ToSet(rows[n][p])

(* Induction over the depth, first step: a row at the bottom.              *)
LEMMA RowsOfNone ==
  ASSUME flows \in Snapshots, order \in Orders, NEW rows, RowsByDepth(rows, shown),
         NEW level, Levels(level)
  PROVE  RowsOf(rows, level, 0)
<1> SUFFICES ASSUME NEW d \in 0..Depth
    PROVE  /\ \A p \in level[d] :
                /\ p \in ToSet(rows[0][p]) /\ NoTwice(rows[0][p])
                /\ \A q \in ToSet(rows[0][p]) :
                     \E e \in d..Depth : q \in level[e] /\ (e = d => q = p)
           /\ \A p1, p2 \in level[d] : \A q :
                q \in ToSet(rows[0][p1]) /\ q \in ToSet(rows[0][p2]) => p1 = p2
           /\ \A e \in d..Depth : e <= d + 0 =>
                \A q \in level[e] : \E p \in level[d] : q \in ToSet(rows[0][p])
  BY DEF RowsOf
<1>1. Depth \in Nat
  BY DepthType
<1>2. ASSUME NEW p \in level[d] PROVE ToSet(rows[0][p]) = {p} /\ NoTwice(rows[0][p])
  <2>1. p \in Pids
    BY DEF Levels
  <2>2. rows[0][p] = <<p>>
    BY <2>1 DEF RowsByDepth
  <2> QED BY <2>2 DEF ToSet, NoTwice
<1>3. d \in d..Depth /\ \A e \in d..Depth : e <= d + 0 => e = d
  BY <1>1
<1> QED BY <1>2, <1>3

(* Induction over the depth, next step.                                    *)
LEMMA RowsOfMore ==
  ASSUME flows \in Snapshots, order \in Orders, NEW rows, RowsByDepth(rows, shown),
         NEW level, Levels(level), NEW n \in 0..(Depth - 1), RowsOf(rows, level, n)
  PROVE  RowsOf(rows, level, n + 1)
<1> DEFINE m == n + 1
           Has(k, p, q) == q \in ToSet(rows[k][p])
<1>1. Depth \in Nat /\ n \in 0..Depth /\ m \in 1..Depth /\ m - 1 = n
  BY DepthType
<1> HIDE DEF m
<1>2. \A d \in 0..Depth : level[d] \subseteq shown /\ level[d] \subseteq Pids
  <2>1. \A d \in 0..Depth : d = 0 \/ d \in 1..Depth
    BY <1>1
  <2> QED BY <2>1, ShownFacts DEF Levels
<1>3. level[Depth] = {}
  BY LastLevelEmpty
(* The children of a process are on the next level, and below them is what *)
(* is below it.                                                            *)
<1>4. ASSUME NEW d \in 0..Depth, NEW p \in level[d]
      PROVE  /\ d + 1 \in 0..Depth
             /\ ChildrenOf(p) \subseteq level[d + 1]
             /\ \A c \in level[d + 1] : flows.parent[c] = p => c \in ChildrenOf(p)
             /\ \A c \in ChildrenOf(p) : flows.parent[c] = p
  <2>1. d + 1 \in 1..Depth /\ d + 1 \in 0..Depth /\ d + 1 - 1 = d
    BY <1>1, <1>3
  <2>2. level[d + 1] = {c \in shown : HasParent(c) /\ flows.parent[c] \in level[d]}
    BY <2>1 DEF Levels
  <2> QED BY <2>1, <2>2 DEF ChildrenOf
<1>5. ASSUME NEW d \in 0..Depth, NEW p \in level[d]
      PROVE  /\ \A q : Has(m, p, q) <=> q = p \/ \E c \in ChildrenOf(p) : Has(n, c, q)
             /\ /\ \A c \in ChildrenOf(p) : NoTwice(rows[n][c]) /\ ~Has(n, c, p)
                /\ \A c1, c2 \in ChildrenOf(p) : \A q : Has(n, c1, q) /\ Has(n, c2, q) => c1 = c2
                => NoTwice(rows[m][p])
  <2>1. p \in Pids /\ p \in shown
    BY <1>2
  <2>2. RowsOfFamily(p, rows[m][p], rows[m - 1])
    BY <1>1, <2>1, RowsOfOne
  <2> QED BY <1>1, <2>2, Zenon DEF RowsOfFamily
<1>6. \A d \in 0..Depth : \A p \in level[d] :
        /\ Has(n, p, p) /\ NoTwice(rows[n][p])
        /\ \A q : Has(n, p, q) => \E e \in d..Depth : q \in level[e] /\ (e = d => q = p)
  BY DEF RowsOf
<1>7. \A d \in 0..Depth : \A p1, p2 \in level[d] : \A q :
        Has(n, p1, q) /\ Has(n, p2, q) => p1 = p2
  BY DEF RowsOf
<1>8. \A d \in 0..Depth : \A e \in d..Depth : e <= d + n =>
        \A q \in level[e] : \E p \in level[d] : Has(n, p, q)
  BY DEF RowsOf
<1> HIDE DEF Has
(* Below a process are later levels only.                                  *)
<1>9. ASSUME NEW d \in 0..Depth, NEW p \in level[d], NEW c \in ChildrenOf(p), NEW q, Has(n, c, q)
      PROVE  \E e \in (d + 1)..Depth : q \in level[e]
  BY <1>4, <1>6, <1>9
<1>10. ASSUME NEW d \in 0..Depth, NEW p \in level[d], NEW p2 \in level[d], NEW c \in ChildrenOf(p)
       PROVE  ~Has(n, c, p2)
  <2> SUFFICES ASSUME Has(n, c, p2) PROVE FALSE
    OBVIOUS
  <2>1. PICK e \in (d + 1)..Depth : p2 \in level[e]
    BY <1>9
  <2>2. e \in 0..Depth /\ e # d
    BY <1>1, <2>1
  <2> QED BY <2>1, <2>2, LevelsAreApart
<1>11. ASSUME NEW d \in 0..Depth, NEW p \in level[d]
       PROVE  /\ Has(m, p, p) /\ NoTwice(rows[m][p])
              /\ \A q : Has(m, p, q) => \E e \in d..Depth : q \in level[e] /\ (e = d => q = p)
  <2>1. NoTwice(rows[m][p])
    <3>1. \A c \in ChildrenOf(p) : NoTwice(rows[n][c]) /\ ~Has(n, c, p)
      BY <1>4, <1>6, <1>10
    <3>2. \A c1, c2 \in ChildrenOf(p) : \A q : Has(n, c1, q) /\ Has(n, c2, q) => c1 = c2
      BY <1>4, <1>7
    <3> QED BY <1>5, <3>1, <3>2
  <2>2. ASSUME NEW q, Has(m, p, q)
        PROVE  \E e \in d..Depth : q \in level[e] /\ (e = d => q = p)
    <3>1. CASE q = p
      <4>1. d \in d..Depth
        BY <1>1
      <4> QED BY <3>1, <4>1
    <3>2. CASE q # p
      <4>1. PICK c \in ChildrenOf(p) : Has(n, c, q)
        BY <1>5, <2>2, <3>2
      <4>2. PICK e \in (d + 1)..Depth : q \in level[e]
        BY <1>9, <4>1
      <4>3. e \in d..Depth /\ e # d
        BY <1>1, <4>2
      <4> QED BY <4>2, <4>3
    <3> QED BY <3>1, <3>2
  <2> QED BY <1>5, <2>1, <2>2
<1>12. ASSUME NEW d \in 0..Depth, NEW p1 \in level[d], NEW p2 \in level[d], NEW q,
              Has(m, p1, q), Has(m, p2, q)
       PROVE  p1 = p2
  <2>1. CASE q = p1
    BY <1>5, <1>10, <1>12, <2>1
  <2>2. CASE q = p2
    BY <1>5, <1>10, <1>12, <2>2
  <2>3. CASE q # p1 /\ q # p2
    <3>1. PICK c1 \in ChildrenOf(p1) : Has(n, c1, q)
      BY <1>5, <1>12, <2>3
    <3>2. PICK c2 \in ChildrenOf(p2) : Has(n, c2, q)
      BY <1>5, <1>12, <2>3
    <3>3. c1 = c2
      BY <1>4, <1>7, <3>1, <3>2
    <3> QED BY <1>4, <3>3
  <2> QED BY <2>1, <2>2, <2>3
<1>13. ASSUME NEW d \in 0..Depth, NEW e \in d..Depth, e <= d + m, NEW q \in level[e]
       PROVE  \E p \in level[d] : Has(m, p, q)
  <2>1. CASE e = d
    BY <1>11, <2>1
  <2>2. CASE e # d
    <3>1. d + 1 \in 0..Depth /\ d + 1 \in 1..Depth /\ d + 1 - 1 = d
          /\ e \in (d + 1)..Depth /\ e <= (d + 1) + n
      BY <1>1, <1>13, <2>2
    <3>2. PICK c \in level[d + 1] : Has(n, c, q)
      BY <1>8, <3>1
    <3>3. flows.parent[c] \in level[d]
      BY <3>1 DEF Levels
    <3>4. c \in ChildrenOf(flows.parent[c])
      BY <1>4, <3>3
    <3> QED BY <1>5, <3>2, <3>3, <3>4
  <2> QED BY <2>1, <2>2
<1>14. RowsOf(rows, level, m)
  BY <1>11, <1>12, <1>13 DEF RowsOf, Has
<1> QED BY <1>14 DEF m

(* A sequence without repetition is as long as it has elements.            *)
LEMMA NoTwiceCounts ==
  ASSUME NEW T, NEW s \in Seq(T), NoTwice(s)
  PROVE  Len(s) = Cardinality(ToSet(s))
<1>1. IsFiniteSet(1..Len(s)) /\ Cardinality(1..Len(s)) = Len(s)
  <2>1. Len(s) \in Nat
    OBVIOUS
  <2> QED BY <2>1, FS_Interval
<1>2. s \in [1..Len(s) -> ToSet(s)] /\ DOMAIN s = 1..Len(s)
  BY DEF ToSet
<1>3. s \in Surjection(1..Len(s), ToSet(s))
  BY <1>2 DEF ToSet, Surjection, Range
<1>4. s \in Injection(1..Len(s), ToSet(s))
  BY <1>2 DEF NoTwice, Injection, IsInjective
<1> QED BY <1>1, <1>3, <1>4, FS_Surjection

(* Every process is listed once, for any forest, any circles beside it and *)
(* any order: the rows are the levels, each subtree has its own, and what  *)
(* is on no level is on a circle or below one.                             *)
LEMMA ListedOnce ==
  flows \in Snapshots /\ order \in Orders => EveryProcessOnce
<1> SUFFICES ASSUME flows \in Snapshots, order \in Orders PROVE EveryProcessOnce
  OBVIOUS
<1>1. Depth \in Nat
  BY DepthType
<1>2. PICK rows : RowsByDepth(rows, shown)
  BY RowsUnfold
<1>3. PICK level : Levels(level)
  BY LevelsExist
<1>4. RowsOf(rows, level, Depth)
  <2> DEFINE Good == {n \in 0..Depth : RowsOf(rows, level, n)}
  <2>1. 0 \in Good
    BY <1>1, <1>2, <1>3, RowsOfNone
  <2>2. ASSUME NEW n \in 0..(Depth - 1), n \in Good PROVE n + 1 \in Good
    <3>1. n + 1 \in 0..Depth
      BY <1>1
    <3> QED BY <1>2, <1>3, <2>2, <3>1, RowsOfMore
  <2> HIDE DEF Good
  <2>3. 0..Depth \subseteq Good
    BY <1>1, <2>1, <2>2, InductionTo
  <2> QED BY <1>1, <2>3 DEF Good
<1> DEFINE all == RowsOpen(shown)
           sub == rows[Depth]
<1>5. 0 \in 0..Depth /\ Depth \in 0..Depth
  BY <1>1
<1>6. all = InTurn(roots, sub) /\ sub \in [Pids -> Seq(Pids)]
  BY <1>2, <1>5 DEF RowsByDepth
<1>7. roots \in Seq(Pids) /\ NoTwice(roots) /\ ToSet(roots) = level[0]
  BY <1>3, RootsAndChildren DEF Levels
<1>8. /\ \A p \in level[0] : NoTwice(sub[p])
      /\ \A p \in level[0] : \A q \in ToSet(sub[p]) : \E e \in 0..Depth : q \in level[e]
      /\ \A p1, p2 \in level[0] : \A q : q \in ToSet(sub[p1]) /\ q \in ToSet(sub[p2]) => p1 = p2
      /\ \A e \in 0..Depth : e <= 0 + Depth =>
           \A q \in level[e] : \E p \in level[0] : q \in ToSet(sub[p])
  <2>1. PICK d \in 0..Depth : d = 0
    BY <1>5
  <2>2. /\ \A p \in level[d] :
             /\ p \in ToSet(sub[p]) /\ NoTwice(sub[p])
             /\ \A q \in ToSet(sub[p]) :
                  \E e \in d..Depth : q \in level[e] /\ (e = d => q = p)
        /\ \A p1, p2 \in level[d] : \A q :
             q \in ToSet(sub[p1]) /\ q \in ToSet(sub[p2]) => p1 = p2
        /\ \A e \in d..Depth : e <= d + Depth =>
             \A q \in level[e] : \E p \in level[d] : q \in ToSet(sub[p])
    BY <1>4 DEF RowsOf
  <2> HIDE DEF sub
  <2> QED BY <2>1, <2>2
<1> HIDE DEF all, sub
<1>9. /\ all \in Seq(Pids) /\ NoTwice(all)
      /\ \A q : q \in ToSet(all) <=> \E p \in level[0] : q \in ToSet(sub[p])
  <2> DEFINE kids == roots
  <2> HIDE DEF kids
  <2>1. kids \in Seq(Pids) /\ NoTwice(kids) /\ ToSet(kids) = level[0]
    BY <1>7 DEF kids
  <2>2. /\ InTurn(kids, sub) \in Seq(Pids)
        /\ \A q : q \in ToSet(InTurn(kids, sub)) <=> \E c \in ToSet(kids) : q \in ToSet(sub[c])
        /\ /\ NoTwice(kids)
           /\ \A c \in ToSet(kids) : NoTwice(sub[c])
           /\ \A c1, c2 \in ToSet(kids) : \A q :
                q \in ToSet(sub[c1]) /\ q \in ToSet(sub[c2]) => c1 = c2
           => NoTwice(InTurn(kids, sub))
    BY <1>6, <2>1, InTurnFacts
  <2>3. all = InTurn(kids, sub)
    BY <1>6 DEF kids
  <2> QED BY <1>8, <2>1, <2>2, <2>3
<1>10. \A q : q \in ToSet(all) <=> \E e \in 0..Depth : q \in level[e]
  <2>1. \A e \in 0..Depth : e <= 0 + Depth
    BY <1>1
  <2> QED BY <1>8, <1>9, <2>1
<1>11. \A e \in 0..Depth : level[e] \subseteq shown
  <2>1. \A e \in 0..Depth : e = 0 \/ e \in 1..Depth
    BY <1>1
  <2> QED BY <1>3, <2>1 DEF Levels
<1>12. ToSet(all) = {p \in shown : ~OnCircle(p)}
  <2>1. \A p \in shown : OnCircle(p) <=> \A e \in 0..Depth : p \notin level[e]
    BY <1>3, CirclesAreOffLevels
  <2> QED BY <1>10, <1>11, <2>1
<1>13. Len(all) = Cardinality(ToSet(all))
  BY <1>9, NoTwiceCounts
<1> QED BY <1>12, <1>13 DEF EveryProcessOnce, all

(* The rows of the screen are processes, whatever is open.                 *)
LEMMA RowsType ==
  flows \in Snapshots /\ order \in Orders => realtimeRows \in Seq(Pids)
<1> SUFFICES ASSUME flows \in Snapshots, order \in Orders PROVE realtimeRows \in Seq(Pids)
  OBVIOUS
<1>1. PICK rows : RowsByDepth(rows, expanded)
  BY RowsUnfold, Zenon
<1>2. Depth \in 0..Depth
  BY DepthType
<1> DEFINE kids == roots
           sub == rows[Depth]
<1>3. realtimeRows = InTurn(kids, sub) /\ sub \in [Pids -> Seq(Pids)]
  BY <1>1, <1>2, Zenon DEF realtimeRows, RowsByDepth
<1>4. kids \in Seq(Pids)
  BY RootsAndChildren
<1> HIDE DEF kids, sub
<1> QED BY <1>3, <1>4, InTurnFacts

-----------------------------------------------------------------------------
(* Pages and menus.                                                        *)

(* A page holds at least one row, however low the window.                  *)
LEMMA PageSizes ==
  \A h \in Heights : /\ realtimePageSizes[h] \in Nat \ {0}
                     /\ historyPageSizes[h] \in Nat \ {0}
<1> SUFFICES ASSUME NEW h \in Heights
             PROVE  /\ realtimePageSizes[h] \in Nat \ {0}
                    /\ historyPageSizes[h] \in Nat \ {0}
  OBVIOUS
<1>1. h \in Nat
  BY ListAssumption
<1>2. Greater(6, h - 13) \div 2 \in Int
  BY <1>1 DEF Greater
<1> HIDE DEF Greater
<1>3. realtimePageSizes[h] \in Nat \ {0}
  BY <1>1, <1>2 DEF realtimePageSizes, Greater
<1>4. historyPageSizes[h] \in Nat \ {0}
  BY <1>1 DEF historyPageSizes, Greater
<1> QED BY <1>3, <1>4

(* A clamped page exists, and one that exists is not clamped.              *)
LEMMA Clamped ==
  ASSUME NEW items \in Nat, NEW size \in Nat \ {0}, NEW page \in Int
  PROVE  /\ totalPages(items, size) \in Nat \ {0}
         /\ clampPageIndex(page, items, size) \in 0..(totalPages(items, size) - 1)
         /\ page \in 0..(totalPages(items, size) - 1)
            => clampPageIndex(page, items, size) = page
<1>1. (items + size - 1) \div size \in Int
  OBVIOUS
<1>2. totalPages(items, size) \in Nat \ {0}
  BY <1>1 DEF totalPages, Greater
<1> QED BY <1>2 DEF clampPageIndex

(* The parents on a page are processes.                                    *)
LEMMA SelectableType ==
  ASSUME NEW rows \in Seq(Pids), NEW page \in Int, NEW size \in Nat \ {0}, NEW pids
  PROVE  selectableOn(rows, page, size, pids) \in Seq(Pids)
<1> DEFINE start == clampPageIndex(page, Len(rows), size) * size
           last == Smaller(start + size, Len(rows))
           onPage == SubSeq(rows, start + 1, last)
<1>1. Len(rows) \in Nat
  OBVIOUS
<1>2. clampPageIndex(page, Len(rows), size) \in Nat
  <2>1. /\ totalPages(Len(rows), size) \in Nat \ {0}
        /\ clampPageIndex(page, Len(rows), size) \in 0..(totalPages(Len(rows), size) - 1)
    BY <1>1, Clamped, Zenon
  <2> QED BY <2>1
<1>3. start \in Nat
  BY <1>2
<1>4. last \in Int /\ last <= Len(rows)
  BY <1>1, <1>3 DEF Smaller
<1> HIDE DEF start, last
<1>5. \A i \in (start + 1)..last : rows[i] \in Pids
  <2> SUFFICES ASSUME NEW i \in (start + 1)..last PROVE rows[i] \in Pids
    OBVIOUS
  <2>1. i \in 1..Len(rows)
    BY <1>1, <1>3, <1>4
  <2> QED BY <2>1
<1>6. onPage \in Seq(Pids)
  BY <1>3, <1>4, <1>5, SubSeqProperties
<1> HIDE DEF onPage
<1>7. Among(onPage, pids) \in Seq(Pids)
  BY <1>6, AmongFacts
<1> QED BY <1>7 DEF selectableOn, onPage, start, last

(* FirstOr stays where it is if it can.                                    *)
LEMMA FirstOrFacts ==
  ASSUME NEW pids \in Seq(Pids), NEW sel
  PROVE  /\ FirstOr(sel, pids) \in IF ToSet(pids) = {} THEN {None} ELSE ToSet(pids)
         /\ FirstOr(sel, pids) \in Pids \cup {None}
         /\ sel \in ToSet(pids) => FirstOr(sel, pids) = sel
<1>1. Len(pids) \in Nat /\ DOMAIN pids = 1..Len(pids)
  OBVIOUS
<1>2. pids = <<>> => ToSet(pids) = {}
  BY DEF ToSet
<1>3. pids # <<>> => pids[1] \in ToSet(pids)
  BY <1>1 DEF ToSet
<1>4. Contains(pids, sel) <=> sel \in ToSet(pids)
  BY <1>1 DEF Contains, ToSet
<1>5. ToSet(pids) \subseteq Pids
  BY <1>1 DEF ToSet
<1> HIDE DEF ToSet
<1> QED BY <1>2, <1>3, <1>4, <1>5 DEF FirstOr

(* PlaceIn finds a place if there is one.                                  *)
LEMMA FoundAt ==
  ASSUME NEW T, NEW seq \in Seq(T), NEW x
  PROVE  /\ PlaceIn(seq, x) \in 0..Len(seq)
         /\ x \in ToSet(seq) => PlaceIn(seq, x) \in 1..Len(seq)
<1> DEFINE I == {i \in 1..Len(seq) : seq[i] = x}
<1>1. Len(seq) \in Nat /\ DOMAIN seq = 1..Len(seq)
  OBVIOUS
<1>2. I # {} => Min(I) \in I
  <2> SUFFICES ASSUME I # {} PROVE Min(I) \in I
    OBVIOUS
  <2>1. \E m \in I : \A n \in I : m <= n
    <3>1. I \subseteq Nat
      BY <1>1
    <3> HIDE DEF I
    <3> QED BY <3>1, LeastNatural
  <2> HIDE DEF I
  <2> QED BY <2>1 DEF Min
<1>3. PlaceIn(seq, x) = IF I # {} THEN Min(I) ELSE 0
  BY DEF PlaceIn, SelectInSeq
<1>4. x \in ToSet(seq) => I # {}
  BY <1>1 DEF ToSet
<1> QED BY <1>1, <1>2, <1>3, <1>4

(* Rows do not change when nothing they are made of does.                  *)
LEMMA SameRows ==
  /\ flows \in Snapshots /\ order \in Orders
  /\ UNCHANGED <<flows, order, filterCategory, expanded>>
  => realtimeRows' = realtimeRows
<1>1. (flows \in Snapshots /\ order \in Orders => \E rows : RowsByDepth(rows, expanded))
  BY RowsUnfold, Zenon
<1>2. (flows \in Snapshots /\ order \in Orders => \E rows : RowsByDepth(rows, expanded))'
  BY <1>1, PTL
<1> SUFFICES ASSUME flows \in Snapshots, order \in Orders,
                    UNCHANGED <<flows, order, filterCategory, expanded>>
             PROVE  realtimeRows' = realtimeRows
  OBVIOUS
<1>3. PICK rows : RowsByDepth(rows, expanded)
  BY <1>1
<1>4. PICK after : RowsByDepth(after, expanded)'
  BY <1>2
<1>5. /\ shown' = shown
      /\ \A p : HasParent(p)' <=> HasParent(p)
  BY DEF shown, HasParent
<1>6. roots' = roots
  BY <1>5 DEF roots
<1>7. \A p : children(p)' = children(p)
  BY <1>5 DEF children, ChildrenOf
<1>8. Depth \in Nat /\ Depth' = Depth
  BY DepthType DEF Depth
<1>9. /\ \A n \in 0..Depth : rows[n] \in [Pids -> Seq(Pids)]
      /\ \A p \in Pids : rows[0][p] = <<p>>
      /\ \A n \in 1..Depth : \A p \in Pids :
           rows[n][p] = IF p \in expanded THEN <<p>> \o InTurn(children(p), rows[n - 1])
                                          ELSE <<p>>
      /\ realtimeRows = InTurn(roots, rows[Depth])
  BY <1>3, Zenon DEF RowsByDepth, realtimeRows
<1>10. /\ \A n \in 0..Depth : after[n] \in [Pids -> Seq(Pids)]
       /\ \A p \in Pids : after[0][p] = <<p>>
       /\ \A n \in 1..Depth : \A p \in Pids :
            after[n][p] = IF p \in expanded THEN <<p>> \o InTurn(children(p), after[n - 1])
                                            ELSE <<p>>
       /\ realtimeRows' = InTurn(roots, after[Depth])
  BY <1>4, <1>6, <1>7, <1>8, Zenon DEF RowsByDepth, realtimeRows
<1> DEFINE Same == {n \in 0..Depth : after[n] = rows[n]}
<1>11. 0 \in Same
  <2>1. 0 \in 0..Depth
    BY <1>8
  <2>2. \A p \in Pids : after[0][p] = rows[0][p]
    BY <1>9, <1>10, Zenon
  <2> QED BY <1>9, <1>10, <2>1, <2>2
<1>12. ASSUME NEW n \in 0..(Depth - 1), n \in Same PROVE n + 1 \in Same
  <2> DEFINE m == n + 1
  <2>1. m \in 1..Depth /\ m \in 0..Depth /\ m - 1 = n
    BY <1>8
  <2>2. after[n] = rows[n]
    BY <1>12
  <2> HIDE DEF m
  <2>3. \A p \in Pids : after[m][p] = rows[m][p]
    BY <1>9, <1>10, <2>1, <2>2, Zenon
  <2>4. after[m] \in [Pids -> Seq(Pids)] /\ rows[m] \in [Pids -> Seq(Pids)]
    BY <1>9, <1>10, <2>1
  <2> QED BY <2>1, <2>3, <2>4 DEF m
<1> HIDE DEF Same
<1>13. 0..Depth \subseteq Same
  BY <1>8, <1>11, <1>12, InductionTo
<1>14. after[Depth] = rows[Depth]
  BY <1>8, <1>13 DEF Same
<1> QED BY <1>9, <1>10, <1>14

-----------------------------------------------------------------------------
(* The keys, the window and the ticks.                                     *)

(* Normalizing leaves a page that exists and a selection that is on it,    *)
(* and moves the selection only if it has to.                              *)
Normalized(sel) ==
  /\ pageIndex' \in Nat
  /\ SelectionShown'
  /\ mode' = "history" => selected' = sel
  /\ mode' # "history" => selected' \in Pids \cup {None}
  /\ mode' # "history" /\ sel \in ToSet(visibleSelectableParentPIDs') => selected' = sel

(* normalizeViewState: the page exists and the selection is on it.         *)
LEMMA Normalizes ==
  ASSUME (flows \in Snapshots /\ order \in Orders)', history' \in Nat, height' \in Heights,
         NEW page \in Int, NEW sel, normalizeViewState(page, sel)
  PROVE  Normalized(sel)
<1>1. (flows \in Snapshots /\ order \in Orders => realtimeRows \in Seq(Pids))'
  BY RowsType, PTL
<1>2. realtimeRows' \in Seq(Pids)
  BY <1>1
<1>3. realtimePageSize' \in Nat \ {0} /\ historyPageSize' \in Nat \ {0}
  BY PageSizes DEF realtimePageSize, historyPageSize
<1>4. CASE mode' = "history"
  <2>1. pageIndex' = clampPageIndex(page, history', historyPageSize') /\ selected' = sel
    BY <1>4 DEF normalizeViewState
  <2>2. /\ totalPages(history', historyPageSize') \in Nat \ {0}
        /\ clampPageIndex(page, history', historyPageSize')
             \in 0..(totalPages(history', historyPageSize') - 1)
    BY <1>3, Clamped
  <2>3. pageIndex' \in 0..(totalPages(history', historyPageSize') - 1)
    BY <2>1, <2>2
  <2>4. pageIndex' \in Nat
    BY <2>2, <2>3
  <2>5. SelectionShown'
    BY <1>4, <2>3 DEF SelectionShown
  <2> QED BY <1>4, <2>1, <2>4, <2>5 DEF Normalized
<1>5. CASE mode' # "history"
  <2> DEFINE rows == realtimeRows'
             size == realtimePageSize'
             onPage == visibleSelectableParentPIDs'
  <2>1. pageIndex' = clampPageIndex(page, Len(rows), size)
    BY <1>5 DEF normalizeViewState
  <2>2. selected' = FirstOr(sel, onPage)
    BY <1>5 DEF normalizeViewState, visibleSelectableParentPIDs
  <2> HIDE DEF rows, size, onPage
  <2>3. Len(rows) \in Nat
    BY <1>2 DEF rows
  <2>4. size \in Nat \ {0}
    BY <1>3 DEF size
  <2>5. /\ totalPages(Len(rows), size) \in Nat \ {0}
        /\ clampPageIndex(page, Len(rows), size) \in 0..(totalPages(Len(rows), size) - 1)
    BY <2>3, <2>4, Clamped, Zenon
  <2>6. pageIndex' \in 0..(totalPages(Len(rows), size) - 1)
    BY <2>1, <2>5
  <2>7. pageIndex' \in Nat
    BY <2>5, <2>6
  <2>8. onPage \in Seq(Pids)
    <3>1. pageIndex' \in Int
      BY <2>7
    <3>2. rows \in Seq(Pids)
      BY <1>2 DEF rows
    <3>3. selectableOn(rows, pageIndex', size, parents') \in Seq(Pids)
      BY <2>4, <3>1, <3>2, SelectableType
    <3> QED BY <3>3 DEF onPage, visibleSelectableParentPIDs, rows, size
  <2>9. /\ FirstOr(sel, onPage) \in IF ToSet(onPage) = {} THEN {None} ELSE ToSet(onPage)
        /\ FirstOr(sel, onPage) \in Pids \cup {None}
        /\ sel \in ToSet(onPage) => FirstOr(sel, onPage) = sel
    BY <2>8, FirstOrFacts
  <2>10. SelectionShown'
    BY <1>5, <2>2, <2>6, <2>9 DEF SelectionShown, rows, size, onPage
  <2> QED BY <1>5, <2>2, <2>7, <2>9, <2>10 DEF Normalized, onPage
<1> QED BY <1>4, <1>5

(* What the menus offer.                                                   *)
Offered == ToSet(SortKeys) \cup {"order", "all", "user", "system", "service"}

(* The items of the sort and the filter menu.                              *)
LEMMA MenuFacts ==
  /\ sortMenuItems \in Seq(Offered) /\ Len(sortMenuItems) \in Nat /\ Len(sortMenuItems) >= 2
  /\ \A i \in 1..Len(sortMenuItems) : sortMenuItems[i] \in ToSet(SortKeys) \cup {"order"}
  /\ ToSet(SortKeys) \subseteq ToSet(sortMenuItems)
  /\ filterMenuItems \in Seq(Offered) /\ Len(filterMenuItems) = 4
  /\ "all" \in ToSet(filterMenuItems)
  /\ \A i \in 1..4 : filterMenuItems[i] \in ToSet(filterMenuItems)
<1>1. SortKeys \in Seq(STRING) /\ "download" \in ToSet(SortKeys)
  BY ListAssumption
<1>2. Len(SortKeys) \in Nat /\ DOMAIN SortKeys = 1..Len(SortKeys)
  BY <1>1
<1>3. Len(SortKeys) >= 1
  <2>1. \E i \in 1..Len(SortKeys) : SortKeys[i] = "download"
    BY <1>1, <1>2 DEF ToSet
  <2> QED BY <1>2, <2>1
<1> DEFINE last == <<"order">>
<1>4. last \in Seq(Offered) /\ Len(last) = 1 /\ ToSet(last) = {"order"}
  <2>1. "order" \in Offered
    BY DEF Offered
  <2>2. last \in Seq(Offered)
    BY <2>1
  <2>3. Len(last) = 1
    OBVIOUS
  <2>4. ToSet(last) = {"order"}
    BY DEF ToSet
  <2> QED BY <2>2, <2>3, <2>4
<1> HIDE DEF last
<1>5. SortKeys \in Seq(Offered)
  <2>1. \A i \in 1..Len(SortKeys) : SortKeys[i] \in Offered
    BY <1>2 DEF ToSet, Offered
  <2>2. SortKeys = [i \in 1..Len(SortKeys) |-> SortKeys[i]]
    BY <1>1
  <2>3. SortKeys \in [1..Len(SortKeys) -> Offered]
    BY <2>1, <2>2
  <2> QED BY <1>2, <2>3, SeqDef
<1>6. /\ SortKeys \o last \in Seq(Offered)
      /\ Len(SortKeys \o last) = Len(SortKeys) + Len(last)
      /\ ToSet(SortKeys \o last) = ToSet(SortKeys) \cup ToSet(last)
  BY <1>4, <1>5, ConcatProperties, ConcatFacts
<1>7. sortMenuItems = SortKeys \o last
  BY DEF sortMenuItems, last
<1>8. \A i \in 1..Len(sortMenuItems) : sortMenuItems[i] \in ToSet(sortMenuItems)
  <2>1. DOMAIN sortMenuItems = 1..Len(sortMenuItems)
    BY <1>6, <1>7
  <2> QED BY <2>1 DEF ToSet
<1>9. /\ filterMenuItems \in Seq(Offered) /\ Len(filterMenuItems) = 4
      /\ DOMAIN filterMenuItems = 1..4 /\ filterMenuItems[1] = "all"
  <2>1. {"all", "user", "system", "service"} \subseteq Offered
    BY DEF Offered
  <2>2. filterMenuItems \in Seq(Offered)
    BY <2>1 DEF filterMenuItems
  <2>3. Len(filterMenuItems) = 4
    BY DEF filterMenuItems
  <2>4. filterMenuItems[1] = "all"
    BY DEF filterMenuItems
  <2> QED BY <2>2, <2>3, <2>4
<1>10. \A i \in 1..4 : filterMenuItems[i] \in ToSet(filterMenuItems)
  BY <1>9 DEF ToSet
<1> QED BY <1>2, <1>3, <1>4, <1>6, <1>7, <1>8, <1>9, <1>10

(* The type of all but the page and the selection.                         *)
RestOK ==
  /\ flows \in Snapshots /\ history \in Histories
  /\ historyErr \in HistoryErrors /\ err \in LiveErrors \cup HistoryErrors
  /\ mode \in {"realtime", "history"} /\ height \in Heights
  /\ order \in Orders /\ sortBy \in ToSet(SortKeys)
  /\ filterCategory \in ToSet(filterMenuItems)
  /\ activeMenu \in {"none", "sort", "filter", "exit"} /\ menuIndex \in Nat
  /\ menuReturn \in {"none", "sort", "filter"} /\ expanded \subseteq Pids
  /\ quitting \in BOOLEAN /\ restart \in BOOLEAN

MenusOK == ReturnsFromExit /\ MenuInRange

(* The length of a menu by its name.                                       *)
LEMMA MenuLengths ==
  /\ activeMenu = "sort" => currentMenuLength = Len(sortMenuItems)
  /\ activeMenu = "filter" => currentMenuLength = 4
  /\ activeMenu = "exit" => currentMenuLength = 2
  BY MenuFacts DEF currentMenuLength

(* The menus that open, open on one of their items.                        *)
LEMMA OpensInRange ==
  ASSUME RestOK, openSortMenu \/ openFilterMenu \/ openExitMenu
  PROVE  /\ activeMenu' \in {"sort", "filter", "exit"} /\ menuIndex' \in Nat
         /\ activeMenu' = "sort" => menuIndex' < Len(sortMenuItems)
         /\ activeMenu' = "filter" => menuIndex' < 4
         /\ activeMenu' = "exit" => menuIndex' < 2
<1>1. CASE openSortMenu
  <2> DEFINE at == PlaceIn(sortMenuItems, sortBy)
  <2>1. at \in 1..Len(sortMenuItems)
    BY MenuFacts, FoundAt DEF RestOK
  <2>2. activeMenu' = "sort" /\ menuIndex' = at - 1
    BY <1>1 DEF openSortMenu
  <2> HIDE DEF at
  <2> QED BY <2>1, <2>2, MenuFacts
<1>2. CASE openFilterMenu
  <2> DEFINE at == PlaceIn(filterMenuItems, filterCategory)
  <2>1. at \in 1..4
    BY MenuFacts, FoundAt DEF RestOK
  <2>2. activeMenu' = "filter" /\ menuIndex' = at - 1
    BY <1>2 DEF openFilterMenu
  <2> HIDE DEF at
  <2> QED BY <2>1, <2>2
<1>3. CASE openExitMenu
  BY <1>3 DEF openExitMenu
<1> QED BY <1>1, <1>2, <1>3

(* Only processes can be selected.                                         *)
LEMMA SelectableNow ==
  TypeOK => ToSet(visibleSelectableParentPIDs) \subseteq Pids
<1> SUFFICES ASSUME TypeOK PROVE ToSet(visibleSelectableParentPIDs) \subseteq Pids
  OBVIOUS
<1>1. realtimePageSize \in Nat \ {0}
  BY PageSizes DEF TypeOK, realtimePageSize
<1>2. realtimeRows \in Seq(Pids) /\ pageIndex \in Int
  BY RowsType DEF TypeOK
<1>3. visibleSelectableParentPIDs \in Seq(Pids)
  BY <1>1, <1>2, SelectableType DEF visibleSelectableParentPIDs
<1> HIDE DEF visibleSelectableParentPIDs
<1> QED BY <1>3 DEF ToSet

(* Every step keeps the types, and the open menu its index.                *)
LEMMA StepKeepsMenus ==
  ASSUME TypeOK, MenusOK, Next
  PROVE  RestOK' /\ MenusOK'
<1>0. RestOK
  BY DEF TypeOK, RestOK
<1>a. (/\ activeMenu = "sort" => currentMenuLength = Len(sortMenuItems)
       /\ activeMenu = "filter" => currentMenuLength = 4
       /\ activeMenu = "exit" => currentMenuLength = 2)'
  BY MenuLengths, PTL
<1>1. CASE WindowSize
  BY <1>0, <1>1 DEF WindowSize, RestOK, MenusOK, ReturnsFromExit, MenuInRange, currentMenuLength,
              data, errors, rowsBy, menus, ending
<1>2. CASE Tick
  BY <1>0, <1>2 DEF Tick, RestOK, MenusOK, ReturnsFromExit, MenuInRange, currentMenuLength,
              rowsBy, menus, ending
<1>3. CASE CtrlC
  BY <1>0, <1>3 DEF CtrlC, RestOK, MenusOK, ReturnsFromExit, MenuInRange, currentMenuLength,
              data, errors, rowsBy, menus
<1>4. CASE Terminating
  BY <1>0, <1>4 DEF Terminating, RestOK, MenusOK, ReturnsFromExit, MenuInRange, currentMenuLength,
              vars, data, errors, rowsBy, menus, ending
<1>5. CASE OpensMenu
  <2>1. RestOK'
    BY <1>0, <1>5, OpensInRange DEF OpensMenu, Key, RestOK, openExitMenu, openSortMenu, openFilterMenu,
              data, errors, rowsBy, ending
  <2>2. MenusOK'
    BY <1>0, <1>a, <1>5, MenuFacts, OpensInRange
       DEF OpensMenu, Key, RestOK, MenusOK, ReturnsFromExit, MenuInRange, openExitMenu,
           openSortMenu, openFilterMenu
  <2> QED BY <2>1, <2>2
<1>6. CASE TabToHistory
  BY <1>0, <1>6 DEF TabToHistory, Key, RestOK, MenusOK, ReturnsFromExit, MenuInRange,
              data, rowsBy, menus, ending
<1>7. CASE TabToRealtime
  BY <1>0, <1>7 DEF TabToRealtime, Key, RestOK, MenusOK, ReturnsFromExit, MenuInRange, menus, ending
<1>8. CASE SortsHistory
  BY <1>0, <1>8 DEF SortsHistory, Key, RestOK, MenusOK, ReturnsFromExit, MenuInRange,
              data, errors, rowsBy, menus, ending
<1>9. CASE MovesPage
  BY <1>0, <1>9 DEF MovesPage, Key, RestOK, MenusOK, ReturnsFromExit, MenuInRange,
              data, errors, rowsBy, menus, ending
<1>10. CASE MovesSelection
  BY <1>0, <1>10 DEF MovesSelection, Key, RestOK, MenusOK, ReturnsFromExit, MenuInRange,
               data, errors, rowsBy, menus, ending
<1>11. CASE Toggles
  <2>1. selected \in Pids
    BY <1>11, SelectableNow DEF Toggles
  <2> QED BY <1>0, <1>11, <2>1
          DEF Toggles, Key, RestOK, MenusOK, ReturnsFromExit, MenuInRange,
              data, errors, rowsBy, menus, ending
<1>12. CASE Esc
  <2>1. RestOK'
    BY <1>0, <1>12 DEF Esc, MenuKey, RestOK, data, errors, rowsBy, ending
  <2>2. MenusOK'
    BY <1>0, <1>12, <1>a, MenuFacts, MenuLengths
       DEF Esc, MenuKey, RestOK, MenusOK, ReturnsFromExit, MenuInRange
  <2> QED BY <2>1, <2>2
<1>13. CASE MenuTab
  BY <1>0, <1>13 DEF MenuTab, MenuKey, RestOK, MenusOK, ReturnsFromExit, MenuInRange,
               data, rowsBy, ending
<1>14. CASE MenuUpDown
  BY <1>0, <1>14 DEF MenuUpDown, MenuKey, RestOK, MenusOK, ReturnsFromExit, MenuInRange,
               currentMenuLength, data, errors, rowsBy, ending
<1>15. CASE MenuSwitches
  <2>1. CASE openSortMenu \/ openFilterMenu \/ openExitMenu
    <3>1. RestOK'
      BY <1>0, <1>15, <2>1, OpensInRange
         DEF MenuSwitches, MenuKey, RestOK, openExitMenu, openSortMenu, openFilterMenu,
             data, errors, rowsBy, ending
    <3>2. MenusOK'
      BY <1>0, <1>a, <1>15, <2>1, MenuFacts, OpensInRange
         DEF MenuSwitches, MenuKey, RestOK, MenusOK, ReturnsFromExit, MenuInRange, openExitMenu,
             openSortMenu, openFilterMenu
    <3> QED BY <3>1, <3>2
  <2>2. CASE activeMenu' = "none" /\ UNCHANGED <<menuIndex, menuReturn>>
    BY <1>0, <1>15, <2>2
       DEF MenuSwitches, MenuKey, RestOK, MenusOK, ReturnsFromExit, MenuInRange,
           data, errors, rowsBy, ending
  <2> QED BY <1>15, <2>1, <2>2 DEF MenuSwitches
<1>16. CASE AppliesSort
  <2>1. menuIndex + 1 \in 1..Len(sortMenuItems)
    BY <1>0, <1>16, MenuFacts, MenuLengths DEF AppliesSort, RestOK, MenusOK, MenuInRange
  <2>2. sortBy' \in ToSet(SortKeys)
    BY <1>0, <1>16, <2>1, MenuFacts DEF AppliesSort, RestOK
  <2> QED BY <1>0, <1>16, <2>2
          DEF AppliesSort, MenuKey, RestOK, MenusOK, ReturnsFromExit, MenuInRange,
              data, errors, ending
<1>17. CASE AppliesFilter
  <2>1. menuIndex + 1 \in 1..4
    BY <1>0, <1>17, MenuLengths DEF AppliesFilter, RestOK, MenusOK, MenuInRange
  <2>2. filterCategory' \in ToSet(filterMenuItems)
    BY <1>17, <2>1, MenuFacts DEF AppliesFilter
  <2> QED BY <1>0, <1>17, <2>2
          DEF AppliesFilter, MenuKey, RestOK, MenusOK, ReturnsFromExit, MenuInRange,
              data, errors, ending
<1>18. CASE AppliesExit
  BY <1>0, <1>18 DEF AppliesExit, MenuKey, RestOK, MenusOK, ReturnsFromExit, MenuInRange,
               currentMenuLength, data, errors, rowsBy, menus
<1> QED
  BY <1>1, <1>2, <1>3, <1>4, <1>5, <1>6, <1>7, <1>8, <1>9, <1>10, <1>11, <1>12, <1>13,
     <1>14, <1>15, <1>16, <1>17, <1>18 DEF Next

(* What any step does to the page and the selection: it normalizes them,   *)
(* or leaves them and all that is under them alone.                        *)
LEMMA StepNormalizes ==
  ASSUME TypeOK, Next, (flows \in Snapshots /\ order \in Orders)', history' \in Nat,
         height' \in Heights
  PROVE  \/ Normalized(selected)
         \/ MovesSelection /\ \E sel : Normalized(sel)
         \/ UNCHANGED <<data, errors, mode, height, pageIndex, rowsBy, selected, expanded>>
<1>1. pageIndex \in Int /\ 0 \in Int
  BY DEF TypeOK
<1>2. ASSUME NEW page \in Int, normalizeViewState(page, selected) PROVE Normalized(selected)
  BY <1>2, Normalizes
<1>3. CASE CtrlC \/ AppliesExit \/ Terminating
  BY <1>3 DEF CtrlC, AppliesExit, Terminating, vars, data, errors, rowsBy, menus, ending
<1>4. CASE WindowSize \/ Tick \/ OpensMenu \/ Toggles \/ Esc \/ MenuUpDown \/ MenuSwitches
  <2>1. normalizeViewState(pageIndex, selected)
    BY <1>4, Zenon DEF WindowSize, Tick, OpensMenu, Toggles, Esc, MenuUpDown, MenuSwitches, Normal
  <2> QED BY <1>1, <1>2, <2>1
<1>5. CASE TabToHistory \/ TabToRealtime \/ SortsHistory \/ AppliesSort \/ AppliesFilter
  <2>1. normalizeViewState(0, selected)
    BY <1>5, Zenon DEF TabToHistory, TabToRealtime, SortsHistory, AppliesSort, AppliesFilter
  <2> QED BY <1>1, <1>2, <2>1
<1>6. CASE MenuTab
  <2> DEFINE page == IF mode = "realtime" THEN 0 ELSE pageIndex
  <2>1. normalizeViewState(page, selected)
    BY <1>6, Zenon DEF MenuTab
  <2>2. page \in Int
    BY <1>1
  <2> HIDE DEF page
  <2> QED BY <1>2, <2>1, <2>2
<1>7. CASE MovesPage
  <2>1. PICK delta \in {-1, 1} : normalizeViewState(movePage(delta), selected)
    BY <1>7, Zenon DEF MovesPage
  <2>2. movePage(delta) \in Int
    <3>1. pageIndex + delta \in Int
      BY <1>1
    <3>2. history \in Nat /\ historyPageSize \in Nat \ {0} /\ realtimePageSize \in Nat \ {0}
      BY PageSizes, ListAssumption DEF TypeOK, historyPageSize, realtimePageSize
    <3>3. Len(realtimeRows) \in Nat
      <4>1. realtimeRows \in Seq(Pids)
        BY RowsType DEF TypeOK
      <4> HIDE DEF realtimeRows
      <4> QED BY <4>1
    <3>4. ASSUME NEW items \in Nat, NEW size \in Nat \ {0}
          PROVE  clampPageIndex(pageIndex + delta, items, size) \in Int
      <4>1. /\ totalPages(items, size) \in Nat \ {0}
            /\ clampPageIndex(pageIndex + delta, items, size) \in 0..(totalPages(items, size) - 1)
        BY <3>1, Clamped
      <4> QED BY <4>1
    <3> QED BY <3>2, <3>3, <3>4 DEF movePage
  <2> QED BY <1>2, <2>1, <2>2
<1>8. CASE MovesSelection
  <2>1. PICK delta \in {-1, 1} : normalizeViewState(pageIndex, moveParentSelection(delta))
    BY <1>8, Zenon DEF MovesSelection
  <2>2. Normalized(moveParentSelection(delta))
    BY <1>1, <2>1, Normalizes
  <2> QED BY <1>8, <2>2
<1> QED BY <1>3, <1>4, <1>5, <1>6, <1>7, <1>8 DEF Next

(* One step of the UI keeps the invariant.                                 *)
LEMMA TuiInvInductive ==
  TuiInv /\ [Next]_vars => TuiInv'
<1> SUFFICES ASSUME TuiInv, [Next]_vars PROVE TuiInv'
  OBVIOUS
<1>0. TypeOK /\ RestOK /\ MenusOK /\ SelectionShown
  BY DEF TuiInv, TypeOK, RestOK, MenusOK
<1>1. RestOK' /\ MenusOK'
  <2>1. CASE Next
    BY <1>0, <2>1, StepKeepsMenus
  <2>2. CASE UNCHANGED vars
    BY <1>0, <2>2 DEF RestOK, MenusOK, ReturnsFromExit, MenuInRange, currentMenuLength,
       vars, data, errors, rowsBy, menus, ending
  <2> QED BY <2>1, <2>2
<1>2. ASSUME NEW sel, Normalized(sel), mode' = "history" => sel = selected
      PROVE  pageIndex' \in Nat /\ selected' \in Pids \cup {None} /\ SelectionShown'
  BY <1>0, <1>2 DEF Normalized, TypeOK
<1>3. ASSUME UNCHANGED <<data, errors, mode, height, pageIndex, rowsBy, selected, expanded>>
      PROVE  pageIndex' \in Nat /\ selected' \in Pids \cup {None} /\ SelectionShown'
  <2>1. realtimeRows' = realtimeRows
    BY <1>0, <1>3, SameRows DEF TypeOK, data, rowsBy
  <2>2. parents' = parents
    BY <1>3 DEF parents, HasParent, shown, data, rowsBy
  <2>3. realtimePageSize' = realtimePageSize /\ historyPageSize' = historyPageSize
    BY <1>3 DEF realtimePageSize, historyPageSize
  <2>4. visibleSelectableParentPIDs' = visibleSelectableParentPIDs
    BY <1>3, <2>1, <2>2, <2>3 DEF visibleSelectableParentPIDs
  <2> HIDE DEF realtimeRows, visibleSelectableParentPIDs
  <2> QED BY <1>0, <1>3, <2>1, <2>3, <2>4 DEF SelectionShown, TypeOK, data
<1>4. (flows \in Snapshots /\ order \in Orders)' /\ history' \in Nat /\ height' \in Heights
  BY <1>1, ListAssumption DEF RestOK
<1>5. pageIndex' \in Nat /\ selected' \in Pids \cup {None} /\ SelectionShown'
  <2>1. CASE Next
    <3>1. MovesSelection => mode' # "history"
      BY DEF MovesSelection
    <3> QED BY <1>0, <1>2, <1>3, <1>4, <2>1, <3>1, StepNormalizes
  <2>2. CASE UNCHANGED vars
    BY <1>3, <2>2 DEF vars
  <2> QED BY <2>1, <2>2
<1> QED BY <1>1, <1>5 DEF TuiInv, TypeOK, RestOK, MenusOK

(* The UI starts in the invariant.                                         *)
LEMMA TuiInvInitially == Init => TuiInv
<1> SUFFICES ASSUME Init PROVE TuiInv
  OBVIOUS
<1>1. RestOK
  BY MenuFacts, ListAssumption DEF Init, RestOK
<1>2. MenusOK
  BY DEF Init, MenusOK, ReturnsFromExit, MenuInRange
<1>3. realtimeRows \in Seq(Pids) /\ pageIndex = 0 /\ mode = "realtime"
  BY RowsType DEF Init
<1>4. realtimePageSize \in Nat \ {0}
  BY <1>1, PageSizes DEF RestOK, realtimePageSize
<1>5. visibleSelectableParentPIDs \in Seq(Pids)
  BY <1>3, <1>4, SelectableType DEF visibleSelectableParentPIDs
<1>6. selected = FirstOr(None, visibleSelectableParentPIDs)
  BY DEF Init
<1> DEFINE onPage == visibleSelectableParentPIDs
<1> HIDE DEF onPage
<1>7. /\ selected \in IF ToSet(onPage) = {} THEN {None} ELSE ToSet(onPage)
      /\ selected \in Pids \cup {None}
  BY <1>5, <1>6, FirstOrFacts DEF onPage
<1>8. totalPages(Len(realtimeRows), realtimePageSize) \in Nat \ {0}
  <2> DEFINE items == Len(realtimeRows)
             size == realtimePageSize
  <2>1. items \in Nat /\ size \in Nat \ {0}
    BY <1>3, <1>4
  <2> HIDE DEF items, size
  <2>2. totalPages(items, size) \in Nat \ {0}
    <3>1. 0 \in Int
      OBVIOUS
    <3> QED BY <2>1, <3>1, Clamped
  <2> QED BY <2>2 DEF items, size
<1>9. SelectionShown
  BY <1>3, <1>7, <1>8 DEF SelectionShown, onPage
<1> QED BY <1>1, <1>2, <1>3, <1>7, <1>9 DEF TuiInv, TypeOK, RestOK, MenusOK

-----------------------------------------------------------------------------
(* The inductive invariant: the types, the menu that is open and the one   *)
(* it returns to, and the page and selection of the present rows.          *)
THEOREM TuiInvCorrect == Spec => []TuiInv
  BY TuiInvInitially, TuiInvInductive, PTL DEF Spec

(* Whatever menus are opened over each other and left by whatever key,     *)
(* enter finds an item under the index.                                    *)
THEOREM EnterFindsItsItem == Spec => []MenuInRange
<1>1. TuiInv => MenuInRange
  BY DEF TuiInv
<1> QED BY <1>1, TuiInvCorrect, PTL

(* For any processes, however they come and go, any order and any window:  *)
(* the page exists and the selected parent is on it.                       *)
THEOREM SelectionIsShown == Spec => []SelectionShown
<1>1. TuiInv => SelectionShown
  BY DEF TuiInv
<1> QED BY <1>1, TuiInvCorrect, PTL

(* For any parent numbers, the expanded tree lists each shown process once *)
(* except those on or below a circle.                                      *)
THEOREM EveryProcessListedOnce == Spec => []EveryProcessOnce
<1>1. TuiInv => EveryProcessOnce
  BY ListedOnce DEF TuiInv, TypeOK
<1> QED BY <1>1, TuiInvCorrect, PTL

(* Only up and down move the selection off a parent that is on the page.   *)
THEOREM SelectionOnlyMovedByKeys == Spec => SelectionStays
<1> DEFINE Seen == <<data, errors, mode, height, pageIndex, rowsBy, menus, expanded>>
           Stays == /\ selected' # selected
                    /\ mode' = "realtime"
                    /\ Seen' # Seen
                    => selected \notin ToSet(visibleSelectableParentPIDs')
<1>1. TuiInv /\ TuiInv' /\ [Next]_vars => [Stays]_vars
  <2> SUFFICES ASSUME TuiInv, TuiInv', Next, selected' # selected, mode' = "realtime",
                      Seen' # Seen, selected \in ToSet(visibleSelectableParentPIDs')
               PROVE  FALSE
    OBVIOUS
  <2>1. TypeOK /\ TypeOK' /\ SelectionShown
    BY DEF TuiInv
  <2>2. (flows \in Snapshots /\ order \in Orders)' /\ history' \in Nat /\ height' \in Heights
    BY <2>1, ListAssumption DEF TypeOK
  <2>3. ~Normalized(selected)
    BY DEF Normalized
  <2>4. MovesSelection
    BY <2>1, <2>2, <2>3, StepNormalizes
  <2>5. UNCHANGED <<data, errors, mode, height, rowsBy, menus, expanded>>
    BY <2>4 DEF MovesSelection
  <2>6. pageIndex' = pageIndex
    <3>1. pageIndex' = clampPageIndex(pageIndex, Len(realtimeRows'), realtimePageSize')
      BY <2>4 DEF MovesSelection, normalizeViewState
    <3>2. realtimeRows' = realtimeRows
      BY <2>1, <2>5, SameRows DEF TypeOK, data, rowsBy
    <3>3. realtimePageSize' = realtimePageSize
      BY <2>5 DEF realtimePageSize
    <3> DEFINE items == Len(realtimeRows)
               size == realtimePageSize
    <3>4. items \in Nat
      <4>1. realtimeRows \in Seq(Pids)
        BY <2>1, RowsType DEF TypeOK
      <4> HIDE DEF realtimeRows
      <4> QED BY <4>1
    <3>5. size \in Nat \ {0} /\ pageIndex \in Int
      BY <2>1, PageSizes DEF TypeOK, realtimePageSize
    <3>6. pageIndex \in 0..(totalPages(items, size) - 1)
      BY <2>1, <2>4 DEF SelectionShown, MovesSelection
    <3>7. pageIndex' = clampPageIndex(pageIndex, items, size)
      BY <3>1, <3>2, <3>3
    <3> HIDE DEF items, size
    <3> QED BY <3>4, <3>5, <3>6, <3>7, Clamped
  <2> QED BY <2>5, <2>6 DEF data, errors, rowsBy, menus
<1> QED BY <1>1, TuiInvCorrect, PTL DEF Spec, SelectionStays
=============================================================================
