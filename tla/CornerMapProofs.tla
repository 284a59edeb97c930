--------------------------- MODULE CornerMapProofs ---------------------------
(***************************************************************************)
(* Proofs about CornerMap, for any laps, spans and landmarks, any number   *)
(* of workers, imports, rebuilds and faults.                               *)
(*                                                                         *)
(* The first part is about the pure operators: a median lies between two   *)
(* of its values, a span is matched to a corner that was seen, a cluster   *)
(* holds some of the numbers it was given.  The second is about the steps: *)
(* Grows is what no step undoes, Works what a worker relies on at each of  *)
(* its steps, and Alone what it may conclude when nobody overtook it.      *)
(***************************************************************************)
EXTENDS CornerMap, FiniteSetTheorems, SequenceTheorems, WellFoundedInduction, TLAPS

-----------------------------------------------------------------------------
(* Order statistics.                                                       *)

\* The least-number principle, for sets of natural numbers.
LEMMA LeastNumber ==
  ASSUME NEW S \in SUBSET Nat, S # {}
  PROVE  \E m \in S : \A k \in S : m <= k
<1> DEFINE T == {1..n : n \in S}
<1>1. T \subseteq FiniteSubsetsOf(Nat) /\ T # {}
  <2>1. \A n \in S : 1..n \in SUBSET Nat /\ IsFiniteSet(1..n)
    BY FS_Interval
  <2>2. QED
    BY <2>1 DEF FiniteSubsetsOf
<1>2. PICK x \in T : \A y \in T : ~(<<y, x>> \in StrictSubsetOrdering(Nat))
  <2> HIDE DEF T
  <2>1. QED
    BY <1>1, FS_StrictSubsetOrderingWellFounded, WFMin
<1>3. PICK m \in S : x = 1..m
  OBVIOUS
<1>4. ASSUME NEW k \in S, k < m PROVE FALSE
  <2>1. 1..k \subseteq 1..m /\ m \in 1..m /\ m \notin 1..k
    BY <1>4
  <2>2. <<1..k, x>> \in StrictSubsetOrdering(Nat)
    BY <2>1, <1>3 DEF StrictSubsetOrdering
  <2>3. QED
    BY <1>2, <2>2
<1>5. QED
  BY <1>4

LEMMA LeastIs ==
  ASSUME NEW S \in SUBSET Nat, S # {}
  PROVE  Least(S) \in S /\ \A k \in S : Least(S) <= k
BY LeastNumber DEF Least

LEMMA FirstNumbers ==
  ASSUME NEW n \in Nat
  PROVE  IsFiniteSet(1..n) /\ Cardinality(1..n) = n
<1>1. IsFiniteSet(1..n) /\ Cardinality(1..n) = IF 1 > n THEN 0 ELSE n - 1 + 1
  BY FS_Interval
<1>2. QED
  BY <1>1

\* Values of a finite family have a bound.
LEMMA Bounded ==
  ASSUME NEW s, IsFiniteSet(DOMAIN s), \A i \in DOMAIN s : s[i] \in Nat
  PROVE  \E b \in Nat : \A i \in DOMAIN s : s[i] <= b
<1> DEFINE n == Cardinality(DOMAIN s)
<1>1. n \in Nat /\ ExistsBijection(1..n, DOMAIN s)
  BY FS_CardinalityType
<1>2. PICK f \in [1..n -> DOMAIN s] : \A i \in DOMAIN s : \E m \in 1..n : f[m] = i
  BY <1>1 DEF ExistsBijection, Bijection, Surjection
<1> DEFINE Low(m) == \E b \in Nat : \A i \in 1..m : s[f[i]] <= b
<1> HIDE DEF n
<1>3. Low(n)
  <2> DEFINE B == {m \in 0..n : ~Low(m)}
  <2>1. SUFFICES ASSUME ~Low(n) PROVE FALSE
    OBVIOUS
  <2>2. n \in B
    BY <1>1, <2>1
  <2>3. B \in SUBSET Nat
    OBVIOUS
  <2>4. PICK m \in B : \A k \in B : m <= k
    <3> HIDE DEF B
    <3>1. QED
      BY <2>2, <2>3, LeastNumber
  <2>5. m # 0
    <3>1. 0 \in Nat /\ \A i \in 1..0 : s[f[i]] <= 0
      OBVIOUS
    <3>2. QED
      BY <3>1
  <2>6. m \in 1..n /\ m - 1 \in 0..n /\ ~(m <= m - 1)
    BY <2>5, <1>1
  <2>7. Low(m - 1)
    BY <2>4, <2>6
  <2>8. PICK b \in Nat : \A i \in 1 .. m - 1 : s[f[i]] <= b
    BY <2>7
  <2>9. s[f[m]] \in Nat
    BY <2>6, <1>2
  <2>10. PICK c \in Nat : b <= c /\ s[f[m]] <= c
    <3>1. \A x, y \in Nat : \E z \in Nat : x <= z /\ y <= z
      <4>1. TAKE x, y \in Nat
      <4>2. x + y \in Nat /\ x <= x + y /\ y <= x + y
        OBVIOUS
      <4>3. QED
        BY <4>2
    <3>2. QED
      BY <2>9, <3>1
  <2>11. \A i \in 1..m : s[f[i]] <= c
    <3>1. TAKE i \in 1..m
    <3>2. CASE i = m
      BY <3>2, <2>10, Zenon
    <3>3. CASE i # m
      <4>1. i \in 1 .. m - 1 /\ i \in 1..n
        BY <3>3, <2>6, <1>1
      <4>2. s[f[i]] <= b /\ s[f[i]] \in Nat
        BY <4>1, <2>8, <1>2
      <4>3. \A x \in Nat : x <= b => x <= c
        BY <2>10
      <4>4. QED
        BY <4>2, <4>3, Zenon
    <3>4. QED
      BY <3>2, <3>3
  <2>12. QED
    BY <2>4, <2>11
<1>4. QED
  BY <1>2, <1>3

\* Kth returns one of the values.
LEMMA KthIsOne ==
  ASSUME NEW s, IsFiniteSet(DOMAIN s), \A i \in DOMAIN s : s[i] \in Nat,
         NEW k \in 1 .. Cardinality(DOMAIN s)
  PROVE  \E i \in DOMAIN s : Kth(s, k) = s[i]
<1> DEFINE UpTo(v) == {i \in DOMAIN s : s[i] <= v}
           Below(v) == {i \in DOMAIN s : s[i] < v}
           V == {v \in Nat : k <= Cardinality(UpTo(v))}
<1>1. k \in Nat /\ k >= 1 /\ Cardinality(DOMAIN s) \in Nat
      /\ k <= Cardinality(DOMAIN s)
  BY FS_CardinalityType
<1>2. \A v \in Nat : /\ IsFiniteSet(UpTo(v)) /\ Cardinality(UpTo(v)) \in Nat
                     /\ IsFiniteSet(Below(v)) /\ Cardinality(Below(v)) \in Nat
  BY FS_Subset, FS_CardinalityType
<1>3. V # {}
  <2>1. PICK b \in Nat : \A i \in DOMAIN s : s[i] <= b
    BY Bounded
  <2>2. UpTo(b) = DOMAIN s
    BY <2>1
  <2>3. b \in V
    BY <1>1, <2>2
  <2>4. QED
    BY <2>3
<1>4. PICK v \in V : \A u \in V : v <= u
  <2>1. V \in SUBSET Nat
    OBVIOUS
  <2> HIDE DEF V
  <2>2. QED
    BY <2>1, <1>3, LeastNumber
<1>5. Cardinality(Below(v)) < k
  <2>1. CASE v = 0
    <3>1. Below(v) = {}
      BY <2>1
    <3>2. QED
      BY <3>1, <1>1, FS_EmptySet
  <2>2. CASE v # 0
    <3>1. v - 1 \in Nat /\ ~(v <= v - 1)
      BY <2>2
    <3>2. ~(k <= Cardinality(UpTo(v - 1)))
      BY <3>1, <1>4
    <3>3. Cardinality(UpTo(v - 1)) < k
      <4>1. Cardinality(UpTo(v - 1)) \in Nat
        BY <3>1, <1>2
      <4>2. QED
        BY <4>1, <3>2, <1>1
    <3>4. UpTo(v - 1) = Below(v)
      BY <3>1
    <3>5. QED
      BY <3>3, <3>4
  <2>3. QED
    BY <2>1, <2>2
<1>6. PICK j \in DOMAIN s : s[j] = v
  <2>1. SUFFICES ASSUME \A j \in DOMAIN s : s[j] # v PROVE FALSE
    OBVIOUS
  <2>2. UpTo(v) = Below(v)
    BY <2>1
  <2>3. QED
    <3>1. k <= Cardinality(UpTo(v)) /\ Cardinality(UpTo(v)) < k
      BY <2>2, <1>4, <1>5
    <3>2. Cardinality(UpTo(v)) \in Nat
      BY <1>2
    <3> HIDE DEF UpTo
    <3>3. QED
      BY <3>1, <3>2, <1>1
<1>7. \E w \in {s[i] : i \in DOMAIN s} :
        /\ Cardinality({i \in DOMAIN s : s[i] < w}) < k
        /\ k <= Cardinality({i \in DOMAIN s : s[i] <= w})
  BY <1>4, <1>5, <1>6
<1>8. Kth(s, k) \in {s[i] : i \in DOMAIN s}
  BY <1>7 DEF Kth
<1>9. QED
  BY <1>8

\* A value between two values of a family.
Between(v, s) == \E i, j \in DOMAIN s : s[i] <= v /\ v <= s[j]

\* np.median of values that are not none at all lies between two of them.
LEMMA MedianBetween ==
  ASSUME NEW s, IsFiniteSet(DOMAIN s), DOMAIN s # {},
         \A i \in DOMAIN s : s[i] \in Nat
  PROVE  Median(s) \in Nat /\ Between(Median(s), s)
<1> DEFINE n == Cardinality(DOMAIN s)
           low == (n + 1) \div 2
           high == n \div 2 + 1
<1>1. n \in Nat /\ n # 0
  BY FS_CardinalityType, FS_EmptySet
<1>2. low \in 1..n /\ high \in 1..n
  <2> HIDE DEF n
  <2>1. QED
    BY <1>1
<1>3. Median(s) = (Kth(s, low) + Kth(s, high)) \div 2
  BY DEF Median
<1>4. PICK i \in DOMAIN s : Kth(s, low) = s[i]
  <2> HIDE DEF low
  <2>1. QED
    BY <1>2, KthIsOne
<1>5. PICK j \in DOMAIN s : Kth(s, high) = s[j]
  <2> HIDE DEF high
  <2>1. QED
    BY <1>2, KthIsOne
<1>6. Median(s) = (s[i] + s[j]) \div 2 /\ s[i] \in Nat /\ s[j] \in Nat
  BY <1>3, <1>4, <1>5
<1>7. CASE s[i] <= s[j]
  <2>1. s[i] <= Median(s) /\ Median(s) <= s[j] /\ Median(s) \in Nat
    BY <1>6, <1>7
  <2>2. QED
    BY <2>1 DEF Between
<1>8. CASE s[j] <= s[i]
  <2>1. s[j] <= Median(s) /\ Median(s) <= s[i] /\ Median(s) \in Nat
    BY <1>6, <1>8
  <2>2. QED
    BY <2>1 DEF Between
<1>9. QED
  BY <1>6, <1>7, <1>8

-----------------------------------------------------------------------------
(* Matching.                                                               *)

LEMMA NearestSeen ==
  ASSUME NEW seen \in Seq(Nat), NEW s \in Spans
  PROVE  Nearest(seen, s) \in 0 .. Len(seen)
<1>1. CASE Near(seen, s) = {}
  BY <1>1 DEF Nearest
<1>2. CASE Near(seen, s) # {}
  <2> DEFINE D == {n[2] : n \in Near(seen, s)}
             C == {n[1] : n \in {m \in Near(seen, s) : m[2] = Score(seen, s)}}
  <2>1. \A n \in Near(seen, s) : n[1] \in 1 .. Len(seen) /\ n[2] \in Nat
    <3>1. TAKE n \in Near(seen, s)
    <3>2. PICK c \in DOMAIN seen, a \in s.apexes : n = <<c, Distance(a, seen[c])>>
      BY DEF Near
    <3>3. a \in Nat /\ seen[c] \in Nat /\ c \in 1 .. Len(seen)
      BY <3>2 DEF Spans
    <3>4. Distance(a, seen[c]) \in Nat
      BY <3>3 DEF Distance
    <3>5. QED
      BY <3>2, <3>3, <3>4
  <2>2. D \in SUBSET Nat /\ D # {}
    BY <2>1, <1>2
  <2>3. Score(seen, s) \in D
    <3>1. Score(seen, s) = Least(D)
      BY DEF Score
    <3> HIDE DEF D
    <3>2. QED
      BY <2>2, <3>1, LeastIs
  <2>4. C \in SUBSET (1 .. Len(seen)) /\ C # {}
    BY <2>1, <2>3
  <2>5. Nearest(seen, s) \in C
    <3>1. Nearest(seen, s) = Least(C)
      BY <1>2 DEF Nearest
    <3>2. C \in SUBSET Nat
      BY <2>4
    <3> HIDE DEF C
    <3>3. QED
      BY <2>4, <3>1, <3>2, LeastIs
  <2>6. \A c \in C : c \in 0 .. Len(seen)
    BY <2>4
  <2>7. QED
    BY <2>5, <2>6
<1>3. QED
  BY <1>1, <1>2

LEMMA MatchSeen ==
  ASSUME NEW seen \in Seq(Nat), NEW spans \in Seq(Spans), NEW k \in DOMAIN spans
  PROVE  Match(seen, spans)[k] \in 0 .. Len(seen)
<1>1. Nearest(seen, spans[k]) \in 0 .. Len(seen)
  BY NearestSeen
<1>2. Match(seen, spans)[k] \in {0, Nearest(seen, spans[k])}
  BY DEF Match
<1>3. QED
  BY <1>1, <1>2

-----------------------------------------------------------------------------
(* Clusters.                                                               *)

\* Sequences of sets of numbers of D up to k, none of them empty.
Clustered(cls, D, k) ==
  /\ cls \in Seq(SUBSET D)
  /\ \A i \in DOMAIN cls : cls[i] # {} /\ \A o \in cls[i] : o \in 1..k

LEMMA Joined ==
  ASSUME NEW at, NEW k \in Nat \ {0}, k \in DOMAIN at, NEW moves,
         NEW cls, Clustered(cls, DOMAIN at, k - 1)
  PROVE  Clustered(Join(cls, k, at, moves), DOMAIN at, k)
<1> DEFINE d(i) == Distance(Centre(cls[i], at, moves), at[k])
           near == {i \in DOMAIN cls : d(i) <= Radius}
           best == CHOOSE i \in near : \A j \in near :
                     d(i) < d(j) \/ (d(i) = d(j) /\ i <= j)
           founded == Append(cls, {k})
           joined == [cls EXCEPT ![best] = @ \cup {k}]
<1>1. Join(cls, k, at, moves) = IF near = {} THEN founded ELSE joined
  BY DEF Join
<1> HIDE DEF best, near
<1>2. \A i \in DOMAIN cls : cls[i] # {} /\ cls[i] \subseteq DOMAIN at
                            /\ \A o \in cls[i] : o \in 1..k
  <2>1. \A o \in 1 .. k - 1 : o \in 1..k
    OBVIOUS
  <2>2. QED
    BY <2>1 DEF Clustered
<1>3. cls \in Seq(SUBSET DOMAIN at) /\ k \in 1..k
  BY DEF Clustered
<1>4. Clustered(founded, DOMAIN at, k)
  <2>1. {k} \in SUBSET DOMAIN at
    OBVIOUS
  <2>2. founded \in Seq(SUBSET DOMAIN at) /\ Len(founded) = Len(cls) + 1
        /\ \A i \in 1 .. Len(founded) :
             founded[i] = IF i <= Len(cls) THEN cls[i] ELSE {k}
    BY <1>3, <2>1, AppendProperties
  <2>3. \A i \in DOMAIN founded : founded[i] = {k} \/
          (i \in DOMAIN cls /\ founded[i] = cls[i])
    BY <1>3, <2>2
  <2> HIDE DEF founded
  <2>4. QED
    BY <1>2, <1>3, <2>2, <2>3, Zenon DEF Clustered
<1>5. Clustered(joined, DOMAIN at, k)
  <2>1. \A i \in DOMAIN cls : joined[i] = cls[i] \/ joined[i] = cls[i] \cup {k}
    OBVIOUS
  <2>2. DOMAIN cls = 1 .. Len(cls) /\ Len(cls) \in Nat
    BY <1>3
  <2>3. DOMAIN joined = DOMAIN cls /\ joined = [i \in DOMAIN cls |-> joined[i]]
    OBVIOUS
  <2>4. \A i \in DOMAIN cls : joined[i] \in SUBSET DOMAIN at
    BY <1>2, <1>3, <2>1
  <2> HIDE DEF joined
  <2>5. joined \in Seq(SUBSET DOMAIN at)
    <3>1. joined \in [1 .. Len(cls) -> SUBSET DOMAIN at]
      BY <2>2, <2>3, <2>4
    <3>2. QED
      BY <2>2, <3>1, SeqDef
  <2>6. \A i \in DOMAIN joined : joined[i] # {} /\ \A o \in joined[i] : o \in 1..k
    <3>1. TAKE i \in DOMAIN joined
    <3>2. i \in DOMAIN cls
      BY <2>3
    <3>3. CASE joined[i] = cls[i]
      BY <1>2, <3>2, <3>3, Zenon
    <3>4. CASE joined[i] = cls[i] \cup {k}
      <4>1. \A o \in joined[i] : o \in 1..k
        BY <1>2, <1>3, <3>2, <3>4
      <4>2. k \in joined[i]
        BY <3>4
      <4>3. QED
        BY <4>1, <4>2
    <3>5. QED
      BY <2>1, <3>2, <3>3, <3>4
  <2>7. QED
    BY <2>5, <2>6 DEF Clustered
<1>6. QED
  BY <1>1, <1>4, <1>5

\* The recursive function of Clusters, up to n.
IsClustering(g, at, n, moves) ==
  g = [k \in 0 .. n |->
         IF k = 0 THEN << >>
         ELSE IF k \in DOMAIN at THEN Join(g[k - 1], k, at, moves)
         ELSE g[k - 1]]

LEMMA ClusteringExists ==
  ASSUME NEW at, NEW n \in Nat, NEW moves
  PROVE  \E g : IsClustering(g, at, n, moves)
<1> DEFINE Bad == {k \in Nat : ~\E g : IsClustering(g, at, k, moves)}
<1>1. SUFFICES ASSUME Bad # {} PROVE FALSE
  OBVIOUS
<1>2. Bad \in SUBSET Nat
  OBVIOUS
<1>3. PICK m \in Bad : \A k \in Bad : m <= k
  <2> HIDE DEF Bad
  <2>1. QED
    BY <1>1, <1>2, LeastNumber
<1>4. m \in Nat /\ ~\E g : IsClustering(g, at, m, moves)
  OBVIOUS
<1>5. CASE m = 0
  <2> DEFINE g == [k \in 0 .. 0 |-> << >>]
  <2>1. IsClustering(g, at, 0, moves)
    BY DEF IsClustering
  <2>2. QED
    BY <1>4, <1>5, <2>1
<1>6. CASE m # 0
  <2>1. m - 1 \in Nat /\ m - 1 \notin Bad
    BY <1>3, <1>4, <1>6
  <2>2. PICK h : IsClustering(h, at, m - 1, moves)
    BY <2>1
  <2> DEFINE next == IF m \in DOMAIN at THEN Join(h[m - 1], m, at, moves)
                     ELSE h[m - 1]
             g == [k \in 0 .. m |-> IF k = m THEN next ELSE h[k]]
  <2>3. \A k \in 0 .. m :
          g[k] = IF k = 0 THEN << >>
                 ELSE IF k \in DOMAIN at THEN Join(g[k - 1], k, at, moves)
                 ELSE g[k - 1]
    <3>1. TAKE k \in 0 .. m
    <3>2. CASE k = m
      <4>1. m - 1 \in 0 .. m /\ m - 1 # m
        BY <1>4, <1>6
      <4>2. g[k - 1] = h[m - 1] /\ g[k] = next
        BY <3>2, <4>1
      <4> HIDE DEF g
      <4>3. QED
        BY <1>6, <3>2, <4>2
    <3>3. CASE k # m
      <4>1. k \in 0 .. (m - 1) /\ (k # 0 => k - 1 \in 0 .. m /\ k - 1 # m)
        BY <1>4, <3>3
      <4>2. h[k] = IF k = 0 THEN << >>
                   ELSE IF k \in DOMAIN at THEN Join(h[k - 1], k, at, moves)
                   ELSE h[k - 1]
        BY <2>2, <4>1 DEF IsClustering
      <4>3. g[k] = h[k] /\ (k # 0 => g[k - 1] = h[k - 1])
        BY <3>3, <4>1
      <4> HIDE DEF g
      <4>4. QED
        BY <4>2, <4>3
    <3>4. QED
      BY <3>2, <3>3
  <2>4. g = [k \in 0 .. m |-> g[k]]
    OBVIOUS
  <2>5. IsClustering(g, at, m, moves)
    <3> HIDE DEF g
    <3>1. QED
      BY <2>3, <2>4 DEF IsClustering
  <2>6. QED
    BY <1>4, <2>5
<1>7. QED
  BY <1>5, <1>6

\* Greedy clustering makes nonempty clusters of the numbers it is given.
LEMMA ClustersOf ==
  ASSUME NEW at, NEW n \in Nat, NEW moves
  PROVE  Clustered(Clusters(at, n, moves), DOMAIN at, n)
<1> DEFINE g == CHOOSE g : g = [k \in 0 .. n |->
                  IF k = 0 THEN << >>
                  ELSE IF k \in DOMAIN at THEN Join(g[k - 1], k, at, moves)
                  ELSE g[k - 1]]
<1>1. Clusters(at, n, moves) = g[n]
  BY DEF Clusters
<1>2. IsClustering(g, at, n, moves)
  <2>1. \E f : f = [k \in 0 .. n |->
                  IF k = 0 THEN << >>
                  ELSE IF k \in DOMAIN at THEN Join(f[k - 1], k, at, moves)
                  ELSE f[k - 1]]
    <3>1. PICK f : IsClustering(f, at, n, moves)
      BY ClusteringExists
    <3>2. QED
      BY <3>1, Zenon DEF IsClustering
  <2>2. g = [k \in 0 .. n |->
                  IF k = 0 THEN << >>
                  ELSE IF k \in DOMAIN at THEN Join(g[k - 1], k, at, moves)
                  ELSE g[k - 1]]
    BY <2>1
  <2>3. QED
    BY <2>2 DEF IsClustering
<1> HIDE DEF g
<1> DEFINE Bad == {k \in 0 .. n : ~Clustered(g[k], DOMAIN at, k)}
<1>3. Bad = {}
  <2>1. SUFFICES ASSUME Bad # {} PROVE FALSE
    OBVIOUS
  <2>2. Bad \in SUBSET Nat
    OBVIOUS
  <2>3. PICK k \in Bad : \A j \in Bad : k <= j
    <3> HIDE DEF Bad
    <3>1. QED
      BY <2>1, <2>2, LeastNumber
  <2>4. k \in 0 .. n /\ ~Clustered(g[k], DOMAIN at, k)
    OBVIOUS
  <2>5. CASE k = 0
    <3>1. g[k] = << >>
      BY <1>2, <2>4, <2>5 DEF IsClustering
    <3>2. Clustered(<< >>, DOMAIN at, k)
      BY EmptySeq DEF Clustered
    <3>3. QED
      BY <2>4, <3>1, <3>2
  <2>6. CASE k # 0
    <3>1. k - 1 \in 0 .. n /\ k - 1 \notin Bad /\ k \in Nat \ {0}
      BY <2>3, <2>4, <2>6
    <3>2. Clustered(g[k - 1], DOMAIN at, k - 1)
      BY <3>1
    <3>3. g[k] = IF k \in DOMAIN at THEN Join(g[k - 1], k, at, moves)
                 ELSE g[k - 1]
      BY <1>2, <2>4, <2>6 DEF IsClustering
    <3>4. CASE k \in DOMAIN at
      BY <2>4, <3>1, <3>2, <3>3, <3>4, Joined
    <3>5. CASE k \notin DOMAIN at
      <4>1. \A o \in 1 .. k - 1 : o \in 1..k
        BY <3>1
      <4>2. Clustered(g[k - 1], DOMAIN at, k)
        BY <3>2, <4>1, Zenon DEF Clustered
      <4>3. QED
        BY <2>4, <3>3, <3>5, <4>2
    <3>6. QED
      BY <3>4, <3>5
  <2>7. QED
    BY <2>5, <2>6
<1>4. n \in 0 .. n
  OBVIOUS
<1>5. QED
  BY <1>1, <1>3, <1>4

\* A set of families of spans: the sequence of a lap, the own spans of a corner.
Family(spans) ==
  /\ IsFiniteSet(DOMAIN spans) /\ DOMAIN spans # {}
  /\ \A i \in DOMAIN spans : spans[i] \in Spans

LEMMA ApexMedianBetween ==
  ASSUME NEW spans, Family(spans)
  PROVE  /\ ApexMedian(spans) \in Nat
         /\ \E i, j \in DOMAIN spans :
              spans[i].apex <= ApexMedian(spans) /\ ApexMedian(spans) <= spans[j].apex
<1> DEFINE a == [i \in DOMAIN spans |-> spans[i].apex]
<1>1. \A i \in DOMAIN a : a[i] = spans[i].apex /\ a[i] \in Nat
  BY DEF Family, Spans
<1>2. DOMAIN a = DOMAIN spans /\ IsFiniteSet(DOMAIN a) /\ DOMAIN a # {}
  BY DEF Family
<1>3. ApexMedian(spans) = Median(a)
  BY DEF ApexMedian
<1> HIDE DEF a
<1>4. Median(a) \in Nat /\ Between(Median(a), a)
  BY <1>1, <1>2, MedianBetween
<1>5. PICK i, j \in DOMAIN a : a[i] <= Median(a) /\ Median(a) <= a[j]
  BY <1>4 DEF Between
<1>6. QED
  BY <1>1, <1>2, <1>3, <1>4, <1>5

LEMMA SpeedMedian ==
  ASSUME NEW spans, Family(spans)
  PROVE  Median([i \in DOMAIN spans |-> spans[i].speed]) \in Nat
<1> DEFINE a == [i \in DOMAIN spans |-> spans[i].speed]
<1>1. \A i \in DOMAIN a : a[i] \in Nat
  BY DEF Family, Spans
<1>2. IsFiniteSet(DOMAIN a) /\ DOMAIN a # {}
  BY DEF Family
<1> HIDE DEF a
<1>3. Median(a) \in Nat
  BY <1>1, <1>2, MedianBetween
<1>4. QED
  BY <1>3 DEF a

\* The corners a lap's spans are clustered into have no windows yet, and are
\* where its apexes are.
LEMMA BuiltTyped ==
  ASSUME NEW spans \in Seq(Spans)
  PROVE  /\ Built(spans) \in Seq(Corners)
         /\ \A c \in DOMAIN Built(spans) :
              /\ Built(spans)[c].class = None /\ Built(spans)[c].windows = None
              /\ \E i, j \in DOMAIN spans : spans[i].apex <= Built(spans)[c].at
                                            /\ Built(spans)[c].at <= spans[j].apex
<1> DEFINE apexes == [i \in DOMAIN spans |-> spans[i].apex]
           cls == Clusters(apexes, Len(spans), TRUE)
           centres == [c \in DOMAIN cls |-> Centre(cls[c], apexes, TRUE)]
<1>1. /\ DOMAIN apexes = DOMAIN spans /\ IsFiniteSet(DOMAIN apexes)
      /\ \A i \in DOMAIN apexes : apexes[i] = spans[i].apex /\ apexes[i] \in Nat
  <2>1. DOMAIN spans = 1 .. Len(spans) /\ Len(spans) \in Nat
    BY LenProperties
  <2>2. IsFiniteSet(1 .. Len(spans))
    BY <2>1, FirstNumbers
  <2>3. \A i \in DOMAIN spans : spans[i].apex \in Nat
    <3>1. \A i \in DOMAIN spans : spans[i] \in Spans
      BY <2>1
    <3>2. QED
      BY <3>1 DEF Spans
  <2>4. QED
    BY <2>1, <2>2, <2>3
<1>2. Clustered(cls, DOMAIN apexes, Len(spans))
  <2>1. Len(spans) \in Nat
    OBVIOUS
  <2> HIDE DEF apexes
  <2>2. QED
    BY <2>1, ClustersOf
<1>3. Built(spans) = [c \in DOMAIN cls |->
                        [at |-> Kth(centres, c), class |-> None, windows |-> None]]
  BY DEF Built
<1> HIDE DEF apexes, cls
<1>4. /\ cls \in Seq(SUBSET DOMAIN apexes) /\ Len(cls) \in Nat
      /\ DOMAIN cls = 1 .. Len(cls)
      /\ \A c \in DOMAIN cls : cls[c] # {} /\ cls[c] \subseteq DOMAIN apexes
  BY <1>2 DEF Clustered
<1>5. ASSUME NEW c \in DOMAIN cls
      PROVE  /\ centres[c] \in Nat
             /\ \E i, j \in DOMAIN spans :
                  spans[i].apex <= centres[c] /\ centres[c] <= spans[j].apex
  <2> DEFINE s == [i \in cls[c] |-> apexes[i]]
  <2>1. centres[c] = Median(s)
    BY DEF Centre
  <2>2. DOMAIN s = cls[c] /\ \A i \in DOMAIN s : s[i] = apexes[i]
    OBVIOUS
  <2>3. IsFiniteSet(cls[c]) /\ cls[c] # {}
    BY <1>1, <1>4, FS_Subset
  <2>4. \A i \in DOMAIN s : i \in DOMAIN apexes /\ s[i] \in Nat
    BY <1>1, <1>4, <2>2
  <2> HIDE DEF s, centres
  <2>5. Median(s) \in Nat /\ Between(Median(s), s)
    BY <2>2, <2>3, <2>4, MedianBetween
  <2>6. PICK i, j \in DOMAIN s : s[i] <= Median(s) /\ Median(s) <= s[j]
    BY <2>5 DEF Between
  <2>7. i \in DOMAIN spans /\ j \in DOMAIN spans
        /\ s[i] = spans[i].apex /\ s[j] = spans[j].apex
    BY <1>1, <2>2, <2>4
  <2>8. QED
    BY <2>1, <2>5, <2>6, <2>7
<1>6. DOMAIN centres = DOMAIN cls /\ IsFiniteSet(DOMAIN centres)
      /\ Cardinality(DOMAIN centres) = Len(cls)
  <2>1. DOMAIN centres = 1 .. Len(cls)
    BY <1>4
  <2>2. IsFiniteSet(1 .. Len(cls)) /\ Cardinality(1 .. Len(cls)) = Len(cls)
    BY <1>4, FirstNumbers
  <2>3. QED
    BY <1>4, <2>1, <2>2
<1> HIDE DEF centres
<1>7. ASSUME NEW c \in DOMAIN cls
      PROVE  /\ Kth(centres, c) \in Nat
             /\ \E i, j \in DOMAIN spans : spans[i].apex <= Kth(centres, c)
                                           /\ Kth(centres, c) <= spans[j].apex
  <2>1. c \in 1 .. Cardinality(DOMAIN centres)
    BY <1>4, <1>6
  <2>2. PICK i \in DOMAIN centres : Kth(centres, c) = centres[i]
    BY <1>5, <1>6, <2>1, KthIsOne
  <2>3. QED
    BY <1>5, <1>6, <2>2
<1>8. \A c \in DOMAIN cls :
        [at |-> Kth(centres, c), class |-> None, windows |-> None] \in Corners
  BY <1>7 DEF Corners
<1>9. Built(spans) \in Seq(Corners)
  <2>1. Built(spans) \in [1 .. Len(cls) -> Corners]
    BY <1>3, <1>4, <1>8
  <2>2. QED
    BY <1>4, <2>1, SeqDef
<1>10. DOMAIN Built(spans) = DOMAIN cls
  BY <1>3
<1>11. \A c \in DOMAIN cls : /\ Built(spans)[c].at = Kth(centres, c)
                           /\ Built(spans)[c].class = None
                           /\ Built(spans)[c].windows = None
  BY <1>3
<1>12. QED
  BY <1>7, <1>9, <1>10, <1>11

-----------------------------------------------------------------------------
(* Windows, phase times and classes.                                       *)

LEMMA MedianOrNoneIs ==
  ASSUME NEW s, IsFiniteSet(DOMAIN s), \A i \in DOMAIN s : s[i] \in Nat \cup {None}
  PROVE  \/ MedianOrNone(s) = None /\ \A i \in DOMAIN s : s[i] = None
         \/ /\ MedianOrNone(s) \in Nat
            /\ \E i, j \in DOMAIN s : /\ s[i] \in Nat /\ s[j] \in Nat
                                      /\ s[i] <= MedianOrNone(s)
                                      /\ MedianOrNone(s) <= s[j]
<1> DEFINE present == {i \in DOMAIN s : s[i] # None}
           r == [i \in present |-> s[i]]
<1>1. CASE present = {}
  BY <1>1 DEF MedianOrNone
<1>2. CASE present # {}
  <2>1. MedianOrNone(s) = Median(r)
    BY <1>2 DEF MedianOrNone
  <2>2. IsFiniteSet(present)
    BY FS_Subset
  <2>3. DOMAIN r = present /\ \A i \in present : r[i] = s[i] /\ r[i] \in Nat
                                                /\ i \in DOMAIN s
    OBVIOUS
  <2> HIDE DEF r, present
  <2>4. Median(r) \in Nat /\ Between(Median(r), r)
    BY <1>2, <2>2, <2>3, MedianBetween
  <2>5. PICK i, j \in DOMAIN r : r[i] <= Median(r) /\ Median(r) <= r[j]
    BY <2>4 DEF Between
  <2>6. i \in DOMAIN s /\ j \in DOMAIN s /\ s[i] = r[i] /\ s[j] = r[j]
    BY <2>3
  <2>7. QED
    BY <2>1, <2>3, <2>4, <2>5, <2>6
<1>3. QED
  BY <1>1, <1>2

\* Where the driver left a corner: the exits and points of full throttle.
Ends(spans) == {spans[i].exit : i \in DOMAIN spans}
                 \cup ({spans[i].full : i \in DOMAIN spans} \ {None})

LEMMA DerivedTyped ==
  ASSUME NEW spans, Family(spans)
  PROVE  /\ Derived(spans) \in Windows
         /\ \E p, q \in Ends(spans) :
              p <= Derived(spans).end /\ Derived(spans).end <= q
<1> DEFINE brake == MedianOrNone([i \in DOMAIN spans |-> spans[i]["brake"]])
           turn == MedianOrNone([i \in DOMAIN spans |-> spans[i]["turn"]])
           apex == MedianOrNone([i \in DOMAIN spans |-> spans[i]["apex"]])
           full == MedianOrNone([i \in DOMAIN spans |-> spans[i]["full"]])
           exit == MedianOrNone([i \in DOMAIN spans |-> spans[i]["exit"]])
           end == IF full # None /\ Forward(apex, full) <= Forward(apex, exit)
                  THEN full ELSE exit
<1>1. Derived(spans) = [brake |-> brake, turn |-> turn, apex |-> apex, end |-> end]
  BY Zenon DEF Derived, Family
<1>2. IsFiniteSet(DOMAIN spans) /\ DOMAIN spans # {}
      /\ \A i \in DOMAIN spans : /\ spans[i].brake \in Nat \cup {None}
                                 /\ spans[i].turn \in Nat \cup {None}
                                 /\ spans[i].apex \in Nat
                                 /\ spans[i].full \in Nat \cup {None}
                                 /\ spans[i].exit \in Nat
  BY DEF Family, Spans
<1>3. brake \in Nat \cup {None}
  <2> DEFINE s == [i \in DOMAIN spans |-> spans[i].brake]
  <2>1. DOMAIN s = DOMAIN spans /\ \A i \in DOMAIN s : s[i] \in Nat \cup {None}
    BY <1>2
  <2>2. brake = MedianOrNone(s)
    OBVIOUS
  <2> HIDE DEF s, brake
  <2>3. QED
    BY <1>2, <2>1, <2>2, MedianOrNoneIs
<1>4. turn \in Nat \cup {None}
  <2> DEFINE s == [i \in DOMAIN spans |-> spans[i].turn]
  <2>1. DOMAIN s = DOMAIN spans /\ \A i \in DOMAIN s : s[i] \in Nat \cup {None}
    BY <1>2
  <2>2. turn = MedianOrNone(s)
    OBVIOUS
  <2> HIDE DEF s, turn
  <2>3. QED
    BY <1>2, <2>1, <2>2, MedianOrNoneIs
<1>5. apex \in Nat
  <2> DEFINE s == [i \in DOMAIN spans |-> spans[i].apex]
  <2>1. DOMAIN s = DOMAIN spans /\ \A i \in DOMAIN s : s[i] \in Nat
    BY <1>2
  <2>2. apex = MedianOrNone(s)
    OBVIOUS
  <2> HIDE DEF s, apex
  <2>3. ~\A i \in DOMAIN s : s[i] = None
    BY <1>2, <2>1, CornerMapAssumption
  <2>4. QED
    BY <1>2, <2>1, <2>2, <2>3, MedianOrNoneIs
<1>6. /\ exit \in Nat
      /\ \E i, j \in DOMAIN spans : spans[i].exit <= exit /\ exit <= spans[j].exit
  <2> DEFINE s == [i \in DOMAIN spans |-> spans[i].exit]
  <2>1. DOMAIN s = DOMAIN spans
        /\ \A i \in DOMAIN s : s[i] \in Nat /\ s[i] = spans[i].exit
    BY <1>2
  <2>2. exit = MedianOrNone(s)
    OBVIOUS
  <2> HIDE DEF s, exit
  <2>3. ~\A i \in DOMAIN s : s[i] = None
    BY <1>2, <2>1, CornerMapAssumption
  <2>4. /\ exit \in Nat
        /\ \E i, j \in DOMAIN s : s[i] <= exit /\ exit <= s[j]
    BY <1>2, <2>1, <2>2, <2>3, MedianOrNoneIs
  <2>5. QED
    BY <2>1, <2>4
<1>7. \/ full = None
      \/ /\ full \in Nat
         /\ \E i, j \in DOMAIN spans :
              /\ spans[i].full \in Nat /\ spans[j].full \in Nat
              /\ spans[i].full <= full /\ full <= spans[j].full
  <2> DEFINE s == [i \in DOMAIN spans |-> spans[i].full]
  <2>1. DOMAIN s = DOMAIN spans
        /\ \A i \in DOMAIN s : s[i] \in Nat \cup {None} /\ s[i] = spans[i].full
    BY <1>2
  <2>2. full = MedianOrNone(s)
    OBVIOUS
  <2> HIDE DEF s, full
  <2>3. \/ full = None
        \/ /\ full \in Nat
           /\ \E i, j \in DOMAIN s : /\ s[i] \in Nat /\ s[j] \in Nat
                                     /\ s[i] <= full /\ full <= s[j]
    BY <1>2, <2>1, <2>2, MedianOrNoneIs
  <2>4. QED
    BY <2>1, <2>3
<1> HIDE DEF brake, turn, apex, full, exit
<1>8. end \in Nat /\ (end = exit \/ (full \in Nat /\ end = full))
  BY <1>6, <1>7
<1>9. \E p, q \in Ends(spans) : p <= end /\ end <= q
  <2> HIDE DEF end
  <2>1. CASE end = exit
    <3>1. PICK i, j \in DOMAIN spans : spans[i].exit <= exit /\ exit <= spans[j].exit
      BY <1>6
    <3>2. spans[i].exit \in Ends(spans) /\ spans[j].exit \in Ends(spans)
      BY DEF Ends
    <3>3. QED
      BY <2>1, <3>1, <3>2
  <2>2. CASE full \in Nat /\ end = full
    <3>1. full # None
      BY <2>2, CornerMapAssumption
    <3>2. PICK i, j \in DOMAIN spans :
              /\ spans[i].full \in Nat /\ spans[j].full \in Nat
              /\ spans[i].full <= full /\ full <= spans[j].full
      BY <1>7, <3>1
    <3>3. spans[i].full # None /\ spans[j].full # None
      BY <3>2, CornerMapAssumption
    <3>4. spans[i].full \in Ends(spans) /\ spans[j].full \in Ends(spans)
      BY <3>3 DEF Ends
    <3>5. QED
      BY <2>2, <3>2, <3>4
  <2>3. QED
    BY <1>8, <2>1, <2>2
<1> HIDE DEF end
<1>10. Derived(spans).end = end
  BY <1>1
<1>11. Derived(spans) \in Windows
  BY <1>1, <1>3, <1>4, <1>5, <1>8 DEF Windows
<1>12. QED
  BY <1>9, <1>10, <1>11

\* What a phase time may say it was measured across.
Times == {None} \cup (Nat \X Nat)

LEMMA WindowTyped ==
  ASSUME NEW win \in Windows, NEW p \in Phases
  PROVE  Window(win, p) \in Times
<1>1. /\ win.brake \in Nat \cup {None} /\ win.turn \in Nat \cup {None}
      /\ win.apex \in Nat \cup {None} /\ win.end \in Nat \cup {None}
  BY DEF Windows
<1> DEFINE w == CASE p = "entry" -> <<win.brake, win.turn>>
                  [] p = "mid" -> <<win.turn, win.apex>>
                  [] p = "exit" -> <<win.apex, win.end>>
<1>2. w \in (Nat \cup {None}) \X (Nat \cup {None})
  <2>1. CASE p = "entry"
    BY <1>1, <2>1
  <2>2. CASE p = "mid"
    BY <1>1, <2>2
  <2>3. CASE p = "exit"
    BY <1>1, <2>3
  <2>4. QED
    BY <2>1, <2>2, <2>3 DEF Phases
<1>3. Window(win, p) = IF None \in {w[1], w[2]} THEN None
                       ELSE IF Forward(w[1], w[2]) \in 1 .. Round \div 2 THEN w ELSE None
  BY DEF Window
<1> HIDE DEF w
<1>4. QED
  BY <1>2, <1>3 DEF Times

LEMMA MeasuredIs ==
  ASSUME NEW times \in [Phases -> Times], NEW lap, NEW win \in Windows
  PROVE  /\ Measured(times, lap, win) \in [Phases -> Times]
         /\ \A p \in Phases : Timed(lap, win, p) =>
                                Measured(times, lap, win)[p] = Window(win, p)
<1>1. Measured(times, lap, win) =
        [p \in Phases |-> IF Timed(lap, win, p) THEN Window(win, p) ELSE times[p]]
  BY DEF Measured
<1>2. \A p \in Phases : Window(win, p) \in Times /\ times[p] \in Times
  BY WindowTyped
<1>3. QED
  BY <1>1, <1>2

LEMMA UnmeasuredTyped == /\ Unmeasured \in [Phases -> Times]
                         /\ \A p \in Phases : Unmeasured[p] = None
BY DEF Unmeasured, Times

\* A class is always one that the speed allows.
LEMMA ClassifiedIs ==
  ASSUME NEW v \in Nat, NEW class
  PROVE  /\ WithinMargin(v, Classified(v, class))
         /\ class \in {None, "slow", "medium", "fast"} =>
              Classified(v, class) \in {None, "slow", "medium", "fast"}
<1>1. SlowMax \in Nat /\ FastMin \in Nat /\ Margin \in Nat
  BY CornerMapAssumption
<1>2. WithinMargin(v, Band(v)) /\ Band(v) \in {"slow", "medium", "fast"}
  BY <1>1 DEF Band, WithinMargin
<1>3. CASE class # None /\ WithinMargin(v, class)
  <2>1. Classified(v, class) = class
    BY <1>3 DEF Classified
  <2>2. QED
    BY <1>3, <2>1, Zenon
<1>4. CASE ~(class # None /\ WithinMargin(v, class))
  <2>1. Classified(v, class) = Band(v)
    BY <1>4 DEF Classified
  <2>2. QED
    BY <1>2, <2>1
<1>5. QED
  BY <1>3, <1>4

-----------------------------------------------------------------------------
(* What an admission makes of its candidates.                              *)

LEMMA NewCornersOf ==
  ASSUME NEW rows, Len(obs) \in Nat
  PROVE  /\ NewCorners(rows) \in Seq(SUBSET rows)
         /\ \A i \in DOMAIN NewCorners(rows) : Own(NewCorners(rows)[i]) # {}
<1> DEFINE at == [o \in rows |-> ApexOf(o)]
           cls == Clusters(at, Len(obs), FALSE)
           kept == {i \in DOMAIN cls : Admissible(cls[i])}
           id == [i \in kept |-> i]
           new == [j \in 1 .. Cardinality(kept) |-> cls[Kth(id, j)]]
<1>1. NewCorners(rows) = new
  BY DEF NewCorners
<1>2. DOMAIN at = rows
  OBVIOUS
<1>3. Clustered(cls, rows, Len(obs))
  <2> HIDE DEF at
  <2>1. QED
    BY <1>2, ClustersOf
<1> HIDE DEF at, cls
<1>4. /\ cls \in Seq(SUBSET rows) /\ Len(cls) \in Nat /\ DOMAIN cls = 1 .. Len(cls)
      /\ \A i \in DOMAIN cls : cls[i] \in SUBSET rows
  BY <1>3 DEF Clustered
<1>5. kept \subseteq 1 .. Len(cls) /\ IsFiniteSet(kept) /\ Cardinality(kept) \in Nat
  <2>1. kept \subseteq 1 .. Len(cls) /\ IsFiniteSet(1 .. Len(cls))
    BY <1>4, FirstNumbers
  <2> HIDE DEF kept
  <2>2. QED
    BY <2>1, FS_Subset, FS_CardinalityType
<1>6. \A i \in kept : i \in DOMAIN cls /\ Admissible(cls[i])
  OBVIOUS
<1>7. DOMAIN id = kept /\ \A i \in kept : id[i] = i /\ i \in Nat
  <2>1. \A i \in kept : i \in Nat
    BY <1>5
  <2> HIDE DEF kept
  <2>2. QED
    BY <2>1
<1> HIDE DEF kept, id
<1>8. ASSUME NEW j \in 1 .. Cardinality(kept)
      PROVE  Kth(id, j) \in kept
  <2>1. PICK i \in DOMAIN id : Kth(id, j) = id[i]
    BY <1>5, <1>7, KthIsOne
  <2>2. QED
    BY <1>7, <2>1
<1>9. ASSUME NEW S, Admissible(S) PROVE Own(S) # {}
  <2>1. SUFFICES ASSUME Own(S) = {} PROVE FALSE
    OBVIOUS
  <2>2. {obs[o].lap : o \in Own(S)} = {}
    BY <2>1
  <2>3. Cardinality({obs[o].lap : o \in Own(S)}) = 0
    BY <2>2, FS_EmptySet
  <2>4. QED
    BY <1>9, <2>3, CornerMapAssumption DEF Admissible
<1>10. \A j \in 1 .. Cardinality(kept) :
         new[j] \in SUBSET rows /\ Own(new[j]) # {}
  BY <1>4, <1>6, <1>8, <1>9
<1>11. new \in Seq(SUBSET rows) /\ DOMAIN new = 1 .. Cardinality(kept)
  <2>1. new \in [1 .. Cardinality(kept) -> SUBSET rows]
    BY <1>10
  <2> HIDE DEF new
  <2>2. QED
    BY <1>5, <2>1, SeqDef
<1> HIDE DEF new
<1>12. QED
  BY <1>1, <1>10, <1>11

-----------------------------------------------------------------------------
(* The store, and what a worker relies on.                                 *)

Observations == [lap : Nat, span : Nat, corner : Nat, times : [Phases -> Times]]

Pcs == {"idle", "load", "build", "freeze", "windows", "observe", "measure",
        "candidates", "admit", "admitted", "listed", "times", "classify",
        "centroid", "refreeze"}
Jobs == [op : {"none", "import", "rebuild"}, pc : Pcs, solo : BOOLEAN,
         lap : Nat, seen : Seq(Nat), wins : Seq(Windows \cup {None}), k : Nat,
         todo : Seq(Nat \ {0}), list : SUBSET Nat]

Size == IF map = None THEN 0 ELSE Len(map)

\* An observation is of a span of a stored lap and of no corner that is not in
\* the map; what has no corner was not measured.
Observed ==
  \A o \in DOMAIN obs :
    /\ obs[o].lap \in DOMAIN laps
    /\ obs[o].span \in DOMAIN laps[obs[o].lap].spans
    /\ obs[o].corner <= Size
    /\ obs[o].corner = 0 => obs[o].times = Unmeasured

Typed ==
  /\ laps \in Seq(Laps)
  /\ raw \subseteq DOMAIN laps /\ evicted \subseteq DOMAIN laps
  /\ raw \cap evicted = {}
  /\ map # None => map \in Seq(Corners)
  /\ obs \in Seq(Observations)
  /\ job \in [Workers -> Jobs]

\* The corner whose observations are listed and measured.
Current(j) == IF j.todo = << >> THEN j.k ELSE j.todo[1]

\* What a worker relies on although others work beside it.
Relies(j) ==
  /\ j.pc \in {"load", "build", "freeze", "windows", "observe", "measure"} =>
       j.op = "import" /\ j.lap \in DOMAIN laps
  /\ j.pc \in {"load", "build"} /\ map = None => laps[j.lap].role = "self"
  /\ j.pc = "freeze" => laps[j.lap].role = "self"
  /\ j.pc \notin {"idle", "load", "build"} => map # None
  /\ j.pc \in {"freeze", "observe", "centroid", "refreeze", "classify"} => j.k # 0
  /\ j.pc \in {"centroid", "refreeze"} => j.todo = << >>
  /\ j.pc \in {"listed", "times"} =>
       Len(j.wins) = 1 /\ j.wins[1] \in Windows /\ Current(j) # 0
  /\ Len(j.seen) <= Size
  /\ j.list \subseteq DOMAIN obs
  /\ j.pc = "measure" => j.list # {}
  /\ j.pc = "times" => \A o \in j.list : obs[o].corner = Current(j)
  /\ j.pc = "admit" /\ Len(j.seen) = Size => \A o \in j.list : obs[o].corner = 0

Works(w) == Relies(job[w])

\* What no step undoes: laps and observations stay, so do the corners of the
\* map and of the observations, and an observation gets one only from a map
\* that grows.
Grows ==
  /\ \A l \in DOMAIN laps : l \in DOMAIN laps' /\ laps'[l] = laps[l]
  /\ map # None => map' # None
  /\ Size <= Size'
  /\ \A o \in DOMAIN obs :
       /\ o \in DOMAIN obs'
       /\ obs'[o].lap = obs[o].lap /\ obs'[o].span = obs[o].span
       /\ obs'[o].corner # obs[o].corner => obs[o].corner = 0 /\ Size < Size'

-----------------------------------------------------------------------------
(* What a worker may conclude that nobody has overtaken.                   *)

\* The phase times of o are of its corner's windows, or deleted.
Repaired(o) ==
  \A p \in Phases :
    LET win == map[obs[o].corner].windows IN
    Timed(laps[obs[o].lap], win, p) =>
      \/ obs[o].times[p] = Window(win, p)
      \/ obs[o].times[p] = None /\ obs[o].lap \notin raw

\* Corner c has an observation of the driver's own.
Owned(c) == DOMAIN OwnSpans(c) # {}

ClassFits(c) ==
  WithinMargin(Median([i \in DOMAIN OwnSpans(c) |-> OwnSpans(c)[i].speed]),
               map[c].class)

\* The corners a rebuild has yet to measure: in its loop those from k on, in
\* its admission those of todo.
Pending(j) ==
  IF j.pc \in {"centroid", "refreeze", "listed", "times"} /\ j.todo = << >>
  THEN {c \in Nat : c >= j.k}
  ELSE IF j.pc \in {"admitted", "listed", "times"}
  THEN {j.todo[i] : i \in DOMAIN j.todo}
  ELSE {}

\* Observations that must be measured across their corner's windows by now.
Due(j, o) ==
  \/ obs[o].corner \notin Pending(j)
  \/ j.pc = "times" /\ obs[o].corner = Current(j) /\ o \notin j.list

Ascending(s) == \A a, b \in DOMAIN s : a < b => s[a] < s[b]
Among(s, c) == \E i \in DOMAIN s : c = s[i]

\* A rebuild walks every corner there is, with the windows it has set, and then
\* the admitted ones in order.
Ready(j) ==
  /\ j.pc \in {"centroid", "refreeze", "listed", "times"} /\ j.todo = << >> =>
       Len(j.seen) = Size
  /\ j.pc \in {"listed", "times"} /\ Current(j) <= Size =>
       map[Current(j)].windows = j.wins[1]
  /\ Ascending(j.todo)

Mended(j) ==
  \A o \in DOMAIN obs :
    obs[o].corner # 0 /\ Owned(obs[o].corner) /\ Due(j, o) => Repaired(o)

\* What was admitted and not measured yet has no phase times.
Blank(j) ==
  j.pc \in {"admitted", "listed", "times"} =>
    \A o \in DOMAIN obs :
      Among(j.todo, obs[o].corner) /\ ~Due(j, o) => obs[o].times = Unmeasured

Tidy(j) == Ready(j) /\ Mended(j) /\ Blank(j)

\* The corners below k have a class that fits.
Fits(j) ==
  j.pc = "classify" =>
    /\ Len(j.seen) = Size
    /\ \A c \in DOMAIN map : c < j.k /\ Owned(c) => ClassFits(c)

Alone(w) ==
  LET j == job[w] IN
  j.solo /\ j.pc # "idle" =>
    /\ \A v \in Workers \ {w} : job[v].pc = "idle"
    /\ Fits(j)
    /\ j.op = "rebuild" => Tidy(j)

IInv ==
  /\ Typed /\ Observed /\ SelfDecides
  /\ \A w \in Workers : Works(w) /\ Alone(w)

-----------------------------------------------------------------------------
(* Every step keeps what the workers rely on.                              *)

\* What a step of worker w does that leaves the others as they are.
Kept(w) ==
  /\ Typed' /\ Observed' /\ Grows /\ Works(w)'
  /\ \A v \in Workers \ {w} : job'[v] = job[v]

LEMMA Became ==
  ASSUME Typed, NEW w \in Workers, NEW j \in Jobs, Become(w, j)
  PROVE  /\ job' \in [Workers -> Jobs] /\ job'[w] = j
         /\ \A v \in Workers \ {w} : job'[v] = job[v]
BY DEF Typed, Become

LEMMA JobFields ==
  ASSUME Typed, NEW w \in Workers
  PROVE  /\ job[w] \in Jobs /\ job[w].op \in {"none", "import", "rebuild"}
         /\ job[w].pc \in Pcs /\ job[w].solo \in BOOLEAN /\ job[w].lap \in Nat
         /\ job[w].seen \in Seq(Nat) /\ job[w].wins \in Seq(Windows \cup {None})
         /\ job[w].k \in Nat /\ job[w].todo \in Seq(Nat \ {0})
         /\ job[w].list \in SUBSET Nat
<1>1. job[w] \in Jobs
  BY DEF Typed
<1>2. QED
  BY <1>1 DEF Jobs

LEMMA IdleRelies == Idle \in Jobs /\ (Typed => Relies(Idle))
<1>1. Idle \in Jobs
  BY EmptySeq DEF Idle, Jobs, Pcs
<1>2. ASSUME Typed PROVE Relies(Idle)
  <2>1. Size \in Nat
    BY <1>2, LenProperties DEF Typed, Size
  <2>2. Len(<< >>) = 0
    OBVIOUS
  <2>3. QED
    BY <2>1, <2>2 DEF Idle, Relies
<1>3. QED
  BY <1>1, <1>2

LEMMA SizeNat == Typed => Size \in Nat /\ (map # None => Size = Len(map)
                                             /\ DOMAIN map = 1 .. Size)
BY LenProperties DEF Typed, Size

\* A step that leaves the store as it is.
LEMMA Turned ==
  ASSUME Typed, Observed, NEW w \in Workers, NEW j \in Jobs, Become(w, j), Relies(j),
         UNCHANGED <<laps, raw, evicted, map, obs>>
  PROVE  Kept(w)
<1>1. /\ job' \in [Workers -> Jobs] /\ job'[w] = j
      /\ \A v \in Workers \ {w} : job'[v] = job[v]
  BY Became
<1>2. Typed'
  BY <1>1 DEF Typed
<1>3. Size' = Size /\ Size \in Nat
  BY SizeNat DEF Size
<1>4. Observed'
  BY <1>3 DEF Observed
<1>5. Grows
  BY <1>3 DEF Grows
<1>6. Works(w)'
  BY <1>1, <1>3 DEF Works, Relies, Current
<1>7. QED
  BY <1>1, <1>2, <1>4, <1>5, <1>6 DEF Kept

LEMMA CentresOf ==
  ASSUME NEW corners \in Seq(Corners)
  PROVE  Centres(corners) \in Seq(Nat) /\ Len(Centres(corners)) = Len(corners)
<1>1. DOMAIN corners = 1 .. Len(corners) /\ Len(corners) \in Nat
  BY LenProperties
<1>2. \A c \in 1 .. Len(corners) : corners[c].at \in Nat
  <2>1. \A c \in 1 .. Len(corners) : corners[c] \in Corners
    BY <1>1
  <2>2. QED
    BY <2>1 DEF Corners
<1>3. Centres(corners) \in [1 .. Len(corners) -> Nat]
  BY <1>1, <1>2 DEF Centres
<1>4. QED
  BY <1>1, <1>3, SeqDef, LenProperties

LEMMA CentresTyped ==
  ASSUME Typed, map # None
  PROVE  Centres(map) \in Seq(Nat) /\ Len(Centres(map)) = Len(map)
BY CentresOf DEF Typed

LEMMA LoadMapKeeps ==
  ASSUME Typed, Observed, NEW w \in Workers, Works(w), LoadMap(w)
  PROVE  Kept(w)
<1>1. job[w].pc = "load" /\ UNCHANGED <<laps, raw, evicted, map, obs>>
  BY DEF LoadMap, At, store
<1>2. CASE map = None
  <2> DEFINE j == [job[w] EXCEPT !.pc = "build"]
  <2>1. j \in Jobs /\ Become(w, j)
    BY <1>2, JobFields DEF LoadMap, Goto, Jobs, Pcs
  <2>2. Relies(j)
    BY <1>1, <1>2, JobFields DEF Works, Relies, Current, Jobs
  <2> HIDE DEF j
  <2>3. QED
    BY <1>1, <2>1, <2>2, Turned
<1>3. CASE map # None
  <2> DEFINE j == [job[w] EXCEPT !.pc = "windows", !.seen = Centres(map)]
  <2>1. Centres(map) \in Seq(Nat) /\ Len(Centres(map)) = Len(map)
    BY <1>3, CentresTyped
  <2>2. j \in Jobs /\ Become(w, j)
    BY <1>3, <2>1, JobFields DEF LoadMap, Jobs, Pcs
  <2>3. Relies(j)
    BY <1>1, <1>3, <2>1, JobFields, SizeNat DEF Works, Relies, Current, Jobs
  <2> HIDE DEF j
  <2>4. QED
    BY <1>1, <2>2, <2>3, Turned
<1>4. QED
  BY <1>2, <1>3

LEMMA LoadWindowsKeeps ==
  ASSUME Typed, Observed, NEW w \in Workers, Works(w), LoadWindows(w)
  PROVE  Kept(w)
<1> DEFINE wins == [c \in DOMAIN map |-> map[c].windows]
           j == [job[w] EXCEPT !.pc = "observe", !.k = 1, !.wins = wins]
<1>1. job[w].pc = "windows" /\ UNCHANGED <<laps, raw, evicted, map, obs>>
      /\ Become(w, j)
  BY DEF LoadWindows, At, store
<1>2. map # None
  BY <1>1 DEF Works, Relies
<1>3. wins \in Seq(Windows \cup {None})
  <2>1. map \in Seq(Corners) /\ DOMAIN map = 1 .. Len(map) /\ Len(map) \in Nat
    BY <1>2, LenProperties DEF Typed
  <2>2. \A c \in 1 .. Len(map) : map[c] \in Corners
    BY <2>1
  <2>3. \A c \in 1 .. Len(map) : map[c].windows \in Windows \cup {None}
    BY <2>2 DEF Corners
  <2>4. wins \in [1 .. Len(map) -> Windows \cup {None}]
    BY <2>1, <2>3
  <2> HIDE DEF wins
  <2>5. QED
    BY <2>1, <2>4, SeqDef
<1> HIDE DEF wins
<1>4. j \in Jobs
  BY <1>3, JobFields DEF Jobs, Pcs
<1>5. Relies(j)
  BY <1>1, <1>2, JobFields DEF Works, Relies, Current, Jobs
<1> HIDE DEF j
<1>6. QED
  BY <1>1, <1>4, <1>5, Turned

LEMMA ReadCandidatesKeeps ==
  ASSUME Typed, Observed, NEW w \in Workers, Works(w), ReadCandidates(w)
  PROVE  Kept(w)
<1> DEFINE j == [job[w] EXCEPT !.pc = "admit", !.seen = Centres(map),
                  !.wins = << >>, !.k = 0, !.list = Candidates]
<1>1. job[w].pc = "candidates" /\ UNCHANGED <<laps, raw, evicted, map, obs>>
      /\ Become(w, j)
  BY DEF ReadCandidates, At, store
<1>2. map # None
  BY <1>1 DEF Works, Relies
<1>3. Centres(map) \in Seq(Nat) /\ Len(Centres(map)) = Size /\ Size \in Nat
  BY <1>2, CentresTyped, SizeNat
<1>4. /\ Candidates \in SUBSET Nat /\ Candidates \subseteq DOMAIN obs
      /\ \A o \in Candidates : obs[o].corner = 0
  <2>1. DOMAIN obs = 1 .. Len(obs) /\ Len(obs) \in Nat
    BY LenProperties DEF Typed
  <2>2. QED
    BY <2>1 DEF Candidates, ObservationsOf
<1>5. j \in Jobs
  BY <1>3, <1>4, JobFields, EmptySeq DEF Jobs, Pcs
<1>6. Relies(j)
  BY <1>1, <1>2, <1>3, <1>4, JobFields DEF Works, Relies, Current, Jobs
<1> HIDE DEF j
<1>7. QED
  BY <1>1, <1>5, <1>6, Turned

LEMMA ListObservationsKeeps ==
  ASSUME Typed, Observed, NEW w \in Workers, Works(w), ListObservations(w)
  PROVE  Kept(w)
<1> DEFINE rows == ObservationsOf(Current(job[w]))
           j == [job[w] EXCEPT !.pc = "times", !.list = rows]
<1>1. job[w].pc = "listed" /\ UNCHANGED <<laps, raw, evicted, map, obs>>
  BY DEF ListObservations, At, store
<1>2. Become(w, j)
  <2>1. CASE job[w].todo = << >>
    BY <2>1 DEF ListObservations, Current
  <2>2. CASE job[w].todo # << >>
    BY <2>2, JobFields, HeadTailProperties DEF ListObservations, Current
  <2>3. QED
    BY <2>1, <2>2
<1>3. /\ rows \in SUBSET Nat /\ rows \subseteq DOMAIN obs
      /\ \A o \in rows : obs[o].corner = Current(job[w])
  <2>1. DOMAIN obs = 1 .. Len(obs) /\ Len(obs) \in Nat
    BY LenProperties DEF Typed
  <2>2. QED
    BY <2>1 DEF ObservationsOf
<1> HIDE DEF rows
<1>4. j \in Jobs
  BY <1>3, JobFields DEF Jobs, Pcs
<1>5. Current(j) = Current(job[w])
  BY JobFields DEF Current, Jobs
<1>6. Relies(j)
  BY <1>1, <1>3, <1>5, JobFields DEF Works, Relies, Jobs
<1> HIDE DEF j
<1>7. QED
  BY <1>1, <1>2, <1>4, <1>6, Turned

LEMMA TailOf ==
  ASSUME NEW S, NEW s \in Seq(S), s # << >>
  PROVE  /\ Tail(s) \in Seq(S) /\ s[1] \in S /\ Head(s) = s[1] /\ Len(s) \in Nat
         /\ Len(s) # 0 /\ Len(Tail(s)) = Len(s) - 1
         /\ \A i \in 1 .. Len(s) - 1 : Tail(s)[i] = s[i + 1]
BY HeadTailProperties, EmptySeq

LEMMA NextCornerKeeps ==
  ASSUME Typed, Observed, NEW w \in Workers, Works(w), NextCorner(w)
  PROVE  Kept(w)
<1>1. job[w].pc = "times" /\ UNCHANGED <<laps, raw, evicted, map, obs>>
      /\ job[w].list = {}
  BY DEF NextCorner, At, store
<1>2. CASE job[w].todo = << >>
  <2> DEFINE j == [job[w] EXCEPT !.pc = "centroid", !.k = @ + 1]
  <2>1. Become(w, j)
    BY <1>2 DEF NextCorner
  <2>2. j \in Jobs
    <3>1. job[w].k + 1 \in Nat
      BY JobFields
    <3>2. QED
      BY <3>1, JobFields DEF Jobs, Pcs
  <2>3. Relies(j)
    BY <1>1, <1>2, JobFields DEF Works, Relies, Current, Jobs
  <2> HIDE DEF j
  <2>4. QED
    BY <1>1, <2>1, <2>3, <2>2, Turned
<1>3. CASE job[w].todo # << >>
  <2> DEFINE j == [job[w] EXCEPT !.pc = "admitted", !.todo = Tail(@)]
  <2>1. Become(w, j)
    BY <1>3 DEF NextCorner
  <2>2. j \in Jobs
    <3>1. Tail(job[w].todo) \in Seq(Nat \ {0})
      BY <1>3, JobFields, TailOf
    <3>2. QED
      BY <3>1, JobFields DEF Jobs, Pcs
  <2>3. Relies(j)
    BY <1>1, <1>3, JobFields DEF Works, Relies, Current, Jobs
  <2> HIDE DEF j
  <2>4. QED
    BY <1>1, <2>1, <2>2, <2>3, Turned
<1>4. QED
  BY <1>2, <1>3

LEMMA EndsKeeps ==
  ASSUME Typed, Observed, NEW w \in Workers, Finish(w) \/ Fail(w)
  PROVE  Kept(w)
<1>1. Become(w, Idle) /\ UNCHANGED <<laps, raw, evicted, map, obs>>
  BY DEF Finish, Fail, store
<1>2. PICK j : j = Idle
  OBVIOUS
<1>3. QED
  BY <1>1, <1>2, IdleRelies, Turned

\* A step that changes corners of the map and leaves their number.
LEMMA Redrawn ==
  ASSUME Typed, Observed, NEW w \in Workers, NEW j \in Jobs, Become(w, j), Relies(j),
         map # None, map' \in Seq(Corners), Len(map') = Len(map),
         UNCHANGED <<laps, raw, evicted, obs>>
  PROVE  Kept(w)
<1>1. /\ job' \in [Workers -> Jobs] /\ job'[w] = j
      /\ \A v \in Workers \ {w} : job'[v] = job[v]
  BY Became
<1>2. Typed'
  BY <1>1 DEF Typed
<1>3. map' # None /\ Size' = Size /\ Size \in Nat
  BY CornerMapAssumption, SizeNat DEF Size
<1>4. Observed'
  BY <1>3 DEF Observed
<1>5. Grows
  BY <1>3 DEF Grows
<1>6. Works(w)'
  BY <1>1, <1>3 DEF Works, Relies, Current
<1>7. QED
  BY <1>1, <1>2, <1>4, <1>5, <1>6 DEF Kept

LEMMA ChangedAt ==
  ASSUME NEW S, NEW s \in Seq(S), NEW c, NEW x, c \in DOMAIN s => x \in S
  PROVE  [s EXCEPT ![c] = x] \in Seq(S) /\ Len([s EXCEPT ![c] = x]) = Len(s)
<1> DEFINE t == [s EXCEPT ![c] = x]
<1>1. DOMAIN s = 1 .. Len(s) /\ Len(s) \in Nat /\ \A i \in DOMAIN s : s[i] \in S
  BY LenProperties
<1>2. DOMAIN t = DOMAIN s /\ \A i \in DOMAIN s : t[i] = IF i = c THEN x ELSE s[i]
  OBVIOUS
<1>3. t = [i \in DOMAIN s |-> t[i]]
  OBVIOUS
<1> HIDE DEF t
<1>4. \A i \in DOMAIN s : t[i] \in S
  BY <1>1, <1>2
<1>5. t \in [1 .. Len(s) -> S]
  BY <1>1, <1>3, <1>4
<1>6. t \in Seq(S) /\ Len(t) = Len(s)
  BY <1>1, <1>5, SeqDef, LenProperties
<1>7. QED
  BY <1>6 DEF t

LEMMA WindowsSet ==
  ASSUME Typed, map # None, NEW c, NEW win \in Windows
  PROVE  /\ [map EXCEPT ![c].windows = win] \in Seq(Corners)
         /\ Len([map EXCEPT ![c].windows = win]) = Len(map)
<1> DEFINE x == [map[c] EXCEPT !.windows = win]
<1>1. map \in Seq(Corners)
  BY DEF Typed
<1>2. ASSUME c \in DOMAIN map PROVE x \in Corners
  <2>1. map[c] \in Corners
    BY <1>1, <1>2
  <2>2. QED
    BY <2>1 DEF Corners
<1> HIDE DEF x
<1>3. [map EXCEPT ![c] = x] \in Seq(Corners) /\ Len([map EXCEPT ![c] = x]) = Len(map)
  BY <1>1, <1>2, ChangedAt
<1>4. QED
  BY <1>3 DEF x

LEMMA CentreSet ==
  ASSUME Typed, map # None, NEW c, NEW at \in Nat
  PROVE  /\ [map EXCEPT ![c].at = at] \in Seq(Corners)
         /\ Len([map EXCEPT ![c].at = at]) = Len(map)
<1> DEFINE x == [map[c] EXCEPT !.at = at]
<1>1. map \in Seq(Corners)
  BY DEF Typed
<1>2. ASSUME c \in DOMAIN map PROVE x \in Corners
  <2>1. map[c] \in Corners
    BY <1>1, <1>2
  <2>2. QED
    BY <2>1 DEF Corners
<1> HIDE DEF x
<1>3. [map EXCEPT ![c] = x] \in Seq(Corners) /\ Len([map EXCEPT ![c] = x]) = Len(map)
  BY <1>1, <1>2, ChangedAt
<1>4. QED
  BY <1>3 DEF x

LEMMA ClassSet ==
  ASSUME Typed, map # None, NEW c, NEW v \in Nat
  PROVE  LET new == [map EXCEPT ![c].class = Classified(v, @)]
         IN new \in Seq(Corners) /\ Len(new) = Len(map)
<1> DEFINE x == [map[c] EXCEPT !.class = Classified(v, @)]
<1>1. map \in Seq(Corners)
  BY DEF Typed
<1>2. ASSUME c \in DOMAIN map PROVE x \in Corners
  <2>1. map[c] \in Corners
    BY <1>1, <1>2
  <2>2. Classified(v, map[c].class) \in {None, "slow", "medium", "fast"}
    BY <2>1, ClassifiedIs DEF Corners
  <2>3. QED
    BY <2>1, <2>2 DEF Corners
<1>3. [map EXCEPT ![c].class = Classified(v, @)] = [map EXCEPT ![c] = x]
  OBVIOUS
<1> HIDE DEF x
<1>4. [map EXCEPT ![c] = x] \in Seq(Corners) /\ Len([map EXCEPT ![c] = x]) = Len(map)
  BY <1>1, <1>2, ChangedAt
<1>5. QED
  BY <1>3, <1>4

LEMMA LapSpans ==
  ASSUME Typed, NEW l \in DOMAIN laps
  PROVE  laps[l].role \in {"self", "reference"} /\ laps[l].spans \in Seq(Spans)
<1>1. laps[l] \in Laps
  BY DEF Typed
<1>2. QED
  BY <1>1, CornerMapAssumption

\* What the driver's own observations of a corner are.
LEMMA OwnSpansAre ==
  ASSUME Typed, Observed, NEW c
  PROVE  /\ DOMAIN OwnSpans(c) \subseteq DOMAIN obs
         /\ \A o \in DOMAIN OwnSpans(c) :
              /\ obs[o].corner = c
              /\ obs[o].lap \in DOMAIN laps /\ laps[obs[o].lap].role = "self"
              /\ obs[o].span \in DOMAIN laps[obs[o].lap].spans
              /\ OwnSpans(c)[o] = laps[obs[o].lap].spans[obs[o].span]
         /\ DOMAIN OwnSpans(c) # {} => Family(OwnSpans(c))
         /\ DOMAIN OwnSpans(c) = {} => Derived(OwnSpans(c)) = None
<1>1. DOMAIN OwnSpans(c) = {p \in DOMAIN obs : obs[p].corner = c
                                               /\ laps[obs[p].lap].role = "self"}
  BY DEF OwnSpans, ObservationsOf, Role
<1>2. \A o \in DOMAIN OwnSpans(c) :
        OwnSpans(c)[o] = laps[obs[o].lap].spans[obs[o].span]
  BY DEF OwnSpans, SpanOf
<1>3. \A o \in DOMAIN OwnSpans(c) : OwnSpans(c)[o] \in Spans
  <2>1. TAKE o \in DOMAIN OwnSpans(c)
  <2>2. obs[o].lap \in DOMAIN laps /\ obs[o].span \in DOMAIN laps[obs[o].lap].spans
    BY <1>1 DEF Observed
  <2>3. laps[obs[o].lap].spans \in Seq(Spans)
    BY <2>2, LapSpans
  <2>4. QED
    BY <1>2, <2>2, <2>3
<1>4. IsFiniteSet(DOMAIN OwnSpans(c))
  <2>1. DOMAIN obs = 1 .. Len(obs) /\ Len(obs) \in Nat
    BY LenProperties DEF Typed
  <2>2. QED
    BY <1>1, <2>1, FirstNumbers, FS_Subset
<1>5. DOMAIN OwnSpans(c) # {} => Family(OwnSpans(c))
  BY <1>3, <1>4 DEF Family
<1>6. DOMAIN OwnSpans(c) = {} => Derived(OwnSpans(c)) = None
  BY DEF Derived
<1>7. QED
  BY <1>1, <1>2, <1>5, <1>6 DEF Observed

LEMMA OneSpan ==
  ASSUME NEW s \in Spans
  PROVE  Family(<<s>>)
<1>1. DOMAIN <<s>> = 1..1 /\ \A i \in 1..1 : <<s>>[i] = s
  OBVIOUS
<1>2. IsFiniteSet(1..1) /\ 1 \in 1..1
  <2>1. PICK n \in Nat : n = 1
    OBVIOUS
  <2>2. IsFiniteSet(1..n)
    BY FirstNumbers
  <2>3. QED
    BY <2>1, <2>2
<1>3. QED
  BY <1>1, <1>2 DEF Family

LEMMA FreezeWindowsKeeps ==
  ASSUME Typed, Observed, NEW w \in Workers, Works(w), FreezeWindows(w)
  PROVE  Kept(w)
<1> DEFINE spans == laps[job[w].lap].spans
           k == job[w].k
<1>1. job[w].pc = "freeze" /\ UNCHANGED <<laps, raw, evicted, obs>>
  BY DEF FreezeWindows, At
<1>2. job[w].lap \in DOMAIN laps /\ map # None /\ k \in Nat /\ k # 0
  BY <1>1, JobFields DEF Works, Relies
<1>3. spans \in Seq(Spans) /\ DOMAIN spans = 1 .. Len(spans) /\ Len(spans) \in Nat
  BY <1>2, LapSpans, LenProperties
<1>4. CASE k > Len(spans)
  <2> DEFINE j == [job[w] EXCEPT !.pc = "windows"]
  <2>1. Become(w, j) /\ UNCHANGED map
    BY <1>4 DEF FreezeWindows, Goto
  <2>2. j \in Jobs
    BY JobFields DEF Jobs, Pcs
  <2>3. Relies(j)
    BY <1>1, <1>2, JobFields DEF Works, Relies, Current, Jobs
  <2> HIDE DEF j
  <2>4. QED
    BY <1>1, <2>1, <2>2, <2>3, Turned
<1>5. CASE ~(k > Len(spans))
  <2> DEFINE j == [job[w] EXCEPT !.pc = "freeze", !.k = k + 1]
             win == Derived(<<spans[k]>>)
             c == Match(job[w].seen, spans)[k]
  <2>1. job' = [job EXCEPT ![w] = [job[w] EXCEPT !.k = k + 1]]
        /\ map' = IF c = 0 THEN map ELSE [map EXCEPT ![c].windows = win]
    BY <1>5 DEF FreezeWindows, Become
  <2>2. j = [job[w] EXCEPT !.k = k + 1]
    BY <1>1, JobFields DEF Jobs
  <2>3. Become(w, j)
    BY <2>1, <2>2 DEF Become
  <2>4. j \in Jobs
    <3>1. k + 1 \in Nat
      BY <1>2
    <3>2. QED
      BY <3>1, JobFields DEF Jobs, Pcs
  <2>5. Relies(j)
    <3>1. k + 1 # 0
      BY <1>2
    <3> HIDE DEF k
    <3>2. QED
      BY <1>1, <1>2, <3>1, JobFields DEF Works, Relies, Current, Jobs
  <2>6. win \in Windows
    <3>1. spans[k] \in Spans
      BY <1>2, <1>3, <1>5
    <3>2. QED
      BY <3>1, OneSpan, DerivedTyped
  <2> HIDE DEF j, win, c
  <2>7. map' \in Seq(Corners) /\ Len(map') = Len(map)
    BY <1>2, <2>1, <2>6, WindowsSet DEF Typed
  <2>8. QED
    BY <1>1, <1>2, <2>3, <2>4, <2>5, <2>7, Redrawn
<1>6. QED
  BY <1>4, <1>5

LEMMA FreezeAdmittedKeeps ==
  ASSUME Typed, Observed, NEW w \in Workers, Works(w), FreezeAdmitted(w)
  PROVE  Kept(w)
<1>1. job[w].pc = "admitted" /\ UNCHANGED <<laps, raw, evicted, obs>>
  BY DEF FreezeAdmitted, At
<1>2. map # None
  BY <1>1 DEF Works, Relies
<1>3. CASE job[w].todo = << >>
  <2> DEFINE j == [job[w] EXCEPT !.pc = "classify", !.k = 1,
                                 !.seen = Centres(map), !.wins = << >>]
  <2>1. Become(w, j) /\ UNCHANGED map
    BY <1>3 DEF FreezeAdmitted
  <2>2. Centres(map) \in Seq(Nat) /\ Len(Centres(map)) = Size /\ Size \in Nat
    BY <1>2, CentresTyped, SizeNat
  <2>3. j \in Jobs
    BY <2>2, JobFields, EmptySeq DEF Jobs, Pcs
  <2>4. Relies(j)
    BY <1>1, <1>2, <2>2, JobFields DEF Works, Relies, Current, Jobs
  <2> HIDE DEF j
  <2>5. QED
    BY <1>1, <2>1, <2>3, <2>4, Turned
<1>4. CASE job[w].todo # << >>
  <2> DEFINE c == Head(job[w].todo)
             win == Derived(OwnSpans(c))
  <2>1. Tail(job[w].todo) \in Seq(Nat \ {0}) /\ job[w].todo[1] = c /\ c \in Nat \ {0}
    BY <1>4, JobFields, TailOf
  <2>2. CASE win = None
    <3> DEFINE j == [job[w] EXCEPT !.todo = Tail(@)]
    <3>1. Become(w, j) /\ UNCHANGED map
      BY <1>4, <2>2 DEF FreezeAdmitted
    <3>2. j \in Jobs
      BY <2>1, JobFields DEF Jobs
    <3>3. Relies(j)
      BY <1>1, <1>2, JobFields DEF Works, Relies, Current, Jobs
    <3> HIDE DEF j
    <3>4. QED
      BY <1>1, <3>1, <3>2, <3>3, Turned
  <2>3. CASE win # None
    <3> DEFINE j == [job[w] EXCEPT !.pc = "listed", !.wins = <<win>>]
    <3>1. Become(w, j) /\ map' = [map EXCEPT ![c].windows = win]
      BY <1>4, <2>3 DEF FreezeAdmitted
    <3>2. win \in Windows
      BY <2>3, OwnSpansAre, DerivedTyped
    <3> HIDE DEF win, c
    <3>3. <<win>> \in Seq(Windows \cup {None}) /\ Len(<<win>>) = 1 /\ <<win>>[1] = win
      BY <3>2
    <3>4. j \in Jobs
      BY <3>3, JobFields DEF Jobs, Pcs
    <3>5. Relies(j)
      BY <1>1, <1>2, <1>4, <2>1, <3>2, <3>3, JobFields DEF Works, Relies, Current, Jobs
    <3> HIDE DEF j
    <3>6. map' \in Seq(Corners) /\ Len(map') = Len(map)
      BY <1>2, <3>1, <3>2, WindowsSet
    <3>7. QED
      BY <1>1, <1>2, <3>1, <3>4, <3>5, <3>6, Redrawn
  <2>4. QED
    BY <2>2, <2>3
<1>5. QED
  BY <1>3, <1>4

LEMMA RecentreKeeps ==
  ASSUME Typed, Observed, NEW w \in Workers, Works(w), Recentre(w)
  PROVE  Kept(w)
<1> DEFINE k == job[w].k
<1>1. job[w].pc = "centroid" /\ UNCHANGED <<laps, raw, evicted, obs>>
  BY DEF Recentre, At
<1>2. map # None
  BY <1>1 DEF Works, Relies
<1>3. CASE k > Len(job[w].seen)
  <2> DEFINE j == [job[w] EXCEPT !.pc = "candidates"]
  <2>1. Become(w, j) /\ UNCHANGED map
    BY <1>3 DEF Recentre, Goto
  <2>2. j \in Jobs
    BY JobFields DEF Jobs, Pcs
  <2>3. Relies(j)
    BY <1>1, <1>2, JobFields DEF Works, Relies, Current, Jobs
  <2> HIDE DEF j
  <2>4. QED
    BY <1>1, <2>1, <2>2, <2>3, Turned
<1>4. CASE ~(k > Len(job[w].seen))
  <2> DEFINE j == [job[w] EXCEPT !.pc = "refreeze"]
  <2>1. Become(w, j) /\ map' = IF DOMAIN OwnSpans(k) = {} THEN map
                               ELSE [map EXCEPT ![k].at = ApexMedian(OwnSpans(k))]
    BY <1>4 DEF Recentre, Goto
  <2>2. j \in Jobs
    BY JobFields DEF Jobs, Pcs
  <2>3. Relies(j)
    BY <1>1, <1>2, JobFields DEF Works, Relies, Current, Jobs
  <2> HIDE DEF j
  <2>4. map' \in Seq(Corners) /\ Len(map') = Len(map)
    <3>1. CASE DOMAIN OwnSpans(k) = {}
      BY <1>2, <2>1, <3>1 DEF Typed
    <3>2. CASE DOMAIN OwnSpans(k) # {}
      <4>1. ApexMedian(OwnSpans(k)) \in Nat
        BY <3>2, OwnSpansAre, ApexMedianBetween
      <4>2. QED
        BY <1>2, <2>1, <3>2, <4>1, CentreSet
    <3>3. QED
      BY <3>1, <3>2
  <2>5. QED
    BY <1>1, <1>2, <2>1, <2>2, <2>3, <2>4, Redrawn
<1>5. QED
  BY <1>3, <1>4

LEMMA RefreezeKeeps ==
  ASSUME Typed, Observed, NEW w \in Workers, Works(w), Refreeze(w)
  PROVE  Kept(w)
<1> DEFINE k == job[w].k
           win == Derived(OwnSpans(k))
<1>1. job[w].pc = "refreeze" /\ UNCHANGED <<laps, raw, evicted, obs>>
  BY DEF Refreeze, At
<1>2. map # None /\ k \in Nat /\ k # 0 /\ job[w].todo = << >>
  BY <1>1, JobFields DEF Works, Relies
<1>3. CASE win = None
  <2> DEFINE j == [job[w] EXCEPT !.pc = "centroid", !.k = k + 1]
  <2>1. Become(w, j) /\ UNCHANGED map
    BY <1>3 DEF Refreeze
  <2>2. k + 1 \in Nat /\ k + 1 # 0
    BY <1>2
  <2>3. j \in Jobs
    BY <2>2, JobFields DEF Jobs, Pcs
  <2> HIDE DEF k
  <2>4. Relies(j)
    BY <1>1, <1>2, <2>2, JobFields DEF Works, Relies, Current, Jobs
  <2> HIDE DEF j
  <2>5. QED
    BY <1>1, <2>1, <2>3, <2>4, Turned
<1>4. CASE win # None
  <2> DEFINE j == [job[w] EXCEPT !.pc = "listed", !.wins = <<win>>]
  <2>1. Become(w, j) /\ map' = [map EXCEPT ![k].windows = win]
    BY <1>4 DEF Refreeze
  <2>2. win \in Windows
    BY <1>4, OwnSpansAre, DerivedTyped
  <2> HIDE DEF win
  <2>3. <<win>> \in Seq(Windows \cup {None}) /\ Len(<<win>>) = 1 /\ <<win>>[1] = win
    BY <2>2
  <2>4. j \in Jobs
    BY <2>3, JobFields DEF Jobs, Pcs
  <2>5. Relies(j)
    BY <1>1, <1>2, <2>2, <2>3, JobFields DEF Works, Relies, Current, Jobs
  <2> HIDE DEF j, k
  <2>6. map' \in Seq(Corners) /\ Len(map') = Len(map)
    BY <1>2, <2>1, <2>2, WindowsSet
  <2>7. QED
    BY <1>1, <1>2, <2>1, <2>4, <2>5, <2>6, Redrawn
<1>5. QED
  BY <1>3, <1>4

LEMMA ReclassifyKeeps ==
  ASSUME Typed, Observed, NEW w \in Workers, Works(w), Reclassify(w)
  PROVE  Kept(w)
<1> DEFINE k == job[w].k
           spans == OwnSpans(k)
           v == Median([i \in DOMAIN spans |-> spans[i].speed])
           j == [job[w] EXCEPT !.k = k + 1]
<1>1. job[w].pc = "classify" /\ UNCHANGED <<laps, raw, evicted, obs>> /\ Become(w, j)
  BY DEF Reclassify, At
<1>2. map # None /\ k + 1 \in Nat /\ k + 1 # 0
  BY <1>1, JobFields DEF Works, Relies
<1>3. map' \in Seq(Corners) /\ Len(map') = Len(map)
  <2>1. CASE DOMAIN spans = {}
    <3>1. map' = map
      BY <2>1 DEF Reclassify
    <3>2. QED
      BY <1>2, <3>1 DEF Typed
  <2>2. CASE DOMAIN spans # {}
    <3>1. map' = [map EXCEPT ![k].class = Classified(v, @)]
      BY <2>2 DEF Reclassify
    <3>2. v \in Nat
      BY <2>2, OwnSpansAre, SpeedMedian
    <3> HIDE DEF v, k
    <3>3. QED
      BY <1>2, <3>1, <3>2, ClassSet
  <2>3. QED
    BY <2>1, <2>2
<1>4. j \in Jobs
  BY <1>2, JobFields DEF Jobs
<1> HIDE DEF k
<1>5. Relies(j)
  BY <1>1, <1>2, JobFields DEF Works, Relies, Current, Jobs
<1> HIDE DEF j
<1>6. QED
  BY <1>1, <1>2, <1>3, <1>4, <1>5, Redrawn

\* A step that changes the phase times of one observation.
LEMMA Noted ==
  ASSUME Typed, Observed, NEW w \in Workers, NEW j \in Jobs, Become(w, j), Relies(j),
         NEW o \in DOMAIN obs, NEW t \in [Phases -> Times],
         obs[o].corner = 0 => t = Unmeasured,
         obs' = [obs EXCEPT ![o].times = t], UNCHANGED <<laps, raw, evicted, map>>
  PROVE  Kept(w)
<1>1. /\ job' \in [Workers -> Jobs] /\ job'[w] = j
      /\ \A v \in Workers \ {w} : job'[v] = job[v]
  BY Became
<1> DEFINE x == [obs[o] EXCEPT !.times = t]
<1>2. obs \in Seq(Observations) /\ obs[o] \in Observations
  BY DEF Typed
<1>3. x \in Observations /\ x.lap = obs[o].lap /\ x.span = obs[o].span
      /\ x.corner = obs[o].corner /\ x.times = t
  BY <1>2 DEF Observations
<1>4. obs' = [obs EXCEPT ![o] = x]
  OBVIOUS
<1> HIDE DEF x
<1>5. obs' \in Seq(Observations) /\ DOMAIN obs' = DOMAIN obs
      /\ \A p \in DOMAIN obs : obs'[p] = IF p = o THEN x ELSE obs[p]
  BY <1>2, <1>3, <1>4, ChangedAt
<1>6. \A p \in DOMAIN obs : obs'[p].lap = obs[p].lap /\ obs'[p].span = obs[p].span
                            /\ obs'[p].corner = obs[p].corner
                            /\ (p # o => obs'[p].times = obs[p].times)
  BY <1>3, <1>5
<1>7. Typed'
  BY <1>1, <1>5 DEF Typed
<1>8. Size' = Size /\ Size \in Nat
  BY SizeNat DEF Size
<1>9. Observed'
  <2>1. ASSUME NEW p \in DOMAIN obs', obs'[p].corner = 0
        PROVE  obs'[p].times = Unmeasured
    <3>1. CASE p = o
      BY <2>1, <3>1, <1>3, <1>5
    <3>2. CASE p # o
      BY <2>1, <3>2, <1>5, <1>6 DEF Observed
    <3>3. QED
      BY <3>1, <3>2
  <2>2. Unmeasured' = Unmeasured
    BY DEF Unmeasured
  <2>3. QED
    BY <1>5, <1>6, <1>8, <2>1, <2>2 DEF Observed
<1>10. Grows
  BY <1>5, <1>6, <1>8 DEF Grows
<1>11. Works(w)'
  <2>1. \A p \in j.list : obs'[p].corner = obs[p].corner
    BY <1>6 DEF Relies
  <2>2. QED
    BY <1>1, <1>5, <1>8, <2>1 DEF Works, Relies, Current
<1>12. QED
  BY <1>1, <1>7, <1>9, <1>10, <1>11 DEF Kept

LEMMA ObservationFields ==
  ASSUME Typed, NEW o \in DOMAIN obs
  PROVE  /\ obs[o].lap \in Nat /\ obs[o].span \in Nat /\ obs[o].corner \in Nat
         /\ obs[o].times \in [Phases -> Times]
<1>1. obs[o] \in Observations
  BY DEF Typed
<1>2. QED
  BY <1>1 DEF Observations

LEMMA LeastListed ==
  ASSUME Typed, NEW w \in Workers, Works(w), job[w].list # {}
  PROVE  Least(job[w].list) \in job[w].list /\ Least(job[w].list) \in DOMAIN obs
<1>1. Least(job[w].list) \in job[w].list
  BY JobFields, LeastIs
<1>2. QED
  BY <1>1 DEF Works, Relies

LEMMA MeasureKeeps ==
  ASSUME Typed, Observed, NEW w \in Workers, Works(w), Measure(w)
  PROVE  Kept(w)
<1> DEFINE o == Least(job[w].list)
           c == obs[o].corner
           win == IF c = 0 \/ c > Len(job[w].wins) THEN None ELSE job[w].wins[c]
           j == [job[w] EXCEPT !.pc = "observe", !.k = @ + 1, !.list = {}]
<1>1. job[w].pc = "measure" /\ UNCHANGED <<laps, raw, evicted, map>> /\ Become(w, j)
      /\ obs' = IF win = None THEN obs
                ELSE [obs EXCEPT ![o].times = Measured(@, laps[job[w].lap], win)]
  BY DEF Measure, At
<1>2. job[w].list # {} /\ map # None /\ job[w].op = "import"
      /\ job[w].lap \in DOMAIN laps
  BY <1>1 DEF Works, Relies
<1>3. o \in DOMAIN obs
  BY <1>2, LeastListed
<1>4. job[w].k + 1 \in Nat /\ job[w].k + 1 # 0
  BY JobFields
<1>5. j \in Jobs
  BY <1>4, JobFields DEF Jobs, Pcs
<1>6. Relies(j)
  BY <1>1, <1>2, <1>4, JobFields DEF Works, Relies, Current, Jobs
<1> HIDE DEF j, o
<1>7. CASE win = None
  BY <1>1, <1>5, <1>6, <1>7, Turned
<1>8. CASE win # None
  <2>1. c \in Nat /\ c # 0 /\ obs[o].times \in [Phases -> Times]
    BY <1>3, <1>8, ObservationFields
  <2>2. win \in Windows
    <3>1. c \in 1 .. Len(job[w].wins) /\ win = job[w].wins[c]
      BY <1>8, <2>1, JobFields, LenProperties
    <3>2. job[w].wins[c] \in Windows \cup {None}
      BY <3>1, JobFields
    <3>3. QED
      BY <1>8, <3>1, <3>2
  <2> HIDE DEF win
  <2> DEFINE t == Measured(obs[o].times, laps[job[w].lap], win)
  <2>3. obs' = [obs EXCEPT ![o].times = t]
    BY <1>1, <1>8
  <2>4. t \in [Phases -> Times]
    BY <2>1, <2>2, MeasuredIs
  <2> HIDE DEF t
  <2>5. QED
    BY <1>1, <1>3, <1>5, <1>6, <2>1, <2>3, <2>4, Noted
<1>9. QED
  BY <1>7, <1>8

\* What Remeasure does to the observation it takes.
Remeasured(j, o) ==
  IF obs[o].lap \in raw THEN Measured(obs[o].times, laps[obs[o].lap], j.wins[1])
  ELSE IF j.todo = << >> THEN Unmeasured ELSE obs[o].times

LEMMA RemeasureIs ==
  ASSUME Typed, Observed, NEW w \in Workers, Works(w), Remeasure(w)
  PROVE  LET o == Least(job[w].list)
             j == [job[w] EXCEPT !.list = @ \ {o}]
             t == Remeasured(job[w], o)
         IN /\ job[w].pc = "times" /\ UNCHANGED <<laps, raw, evicted, map>>
            /\ Become(w, j) /\ j \in Jobs /\ Relies(j)
            /\ o \in job[w].list /\ o \in DOMAIN obs
            /\ obs[o].corner = Current(job[w]) /\ obs[o].corner # 0
            /\ job[w].wins[1] \in Windows
            /\ t \in [Phases -> Times] /\ obs' = [obs EXCEPT ![o].times = t]
<1> DEFINE o == Least(job[w].list)
           j == [job[w] EXCEPT !.list = @ \ {o}]
           t == Remeasured(job[w], o)
<1>1. job[w].pc = "times" /\ UNCHANGED <<laps, raw, evicted, map>> /\ Become(w, j)
      /\ job[w].list # {}
  BY DEF Remeasure, At
<1>2. o \in DOMAIN obs /\ o \in job[w].list
  BY <1>1, LeastListed
<1>3. obs[o].corner = Current(job[w]) /\ obs[o].corner # 0
      /\ Len(job[w].wins) = 1 /\ job[w].wins[1] \in Windows
  BY <1>1, <1>2 DEF Works, Relies
<1>4. j \in Jobs
  BY JobFields DEF Jobs
<1>5. Relies(j)
  BY <1>1, JobFields DEF Works, Relies, Current, Jobs
<1>6. Head(job[w].wins) = job[w].wins[1]
  BY <1>3, JobFields, HeadTailProperties, EmptySeq
<1>7. obs[o].times \in [Phases -> Times]
  BY <1>2, ObservationFields
<1>8. t \in [Phases -> Times]
  BY <1>3, <1>7, MeasuredIs, UnmeasuredTyped DEF Remeasured
<1>9. obs' = [obs EXCEPT ![o].times = t]
  <2>1. obs[o] \in Observations /\ obs \in Seq(Observations)
    BY <1>2 DEF Typed
  <2>2. obs = [obs EXCEPT ![o].times = obs[o].times]
    <3>1. [obs[o] EXCEPT !.times = obs[o].times] = obs[o]
      BY <2>1 DEF Observations
    <3>2. [obs EXCEPT ![o] = obs[o]] = obs
      BY <2>1
    <3> HIDE DEF o
    <3>3. QED
      BY <3>1, <3>2
  <2>3. obs' = IF obs[o].lap \in raw
               THEN [obs EXCEPT ![o].times =
                       Measured(@, laps[obs[o].lap], job[w].wins[1])]
               ELSE IF job[w].todo = << >>
               THEN [obs EXCEPT ![o].times = Unmeasured]
               ELSE obs
    BY <1>6 DEF Remeasure
  <2> HIDE DEF o
  <2>4. QED
    BY <2>2, <2>3 DEF Remeasured
<1> HIDE DEF o, j, t
<1>10. QED
  BY <1>1, <1>2, <1>3, <1>4, <1>5, <1>8, <1>9 DEF o, j, t

LEMMA RemeasureKeeps ==
  ASSUME Typed, Observed, NEW w \in Workers, Works(w), Remeasure(w)
  PROVE  Kept(w)
<1> DEFINE o == Least(job[w].list)
           j == [job[w] EXCEPT !.list = @ \ {o}]
           t == Remeasured(job[w], o)
<1>1. /\ UNCHANGED <<laps, raw, evicted, map>>
      /\ Become(w, j) /\ j \in Jobs /\ Relies(j)
      /\ o \in DOMAIN obs /\ obs[o].corner # 0
      /\ t \in [Phases -> Times] /\ obs' = [obs EXCEPT ![o].times = t]
  BY RemeasureIs
<1> HIDE DEF o, j, t
<1>2. QED
  BY <1>1, Noted

LEMMA ObserveKeeps ==
  ASSUME Typed, Observed, NEW w \in Workers, Works(w), Observe(w)
  PROVE  Kept(w)
<1> DEFINE spans == laps[job[w].lap].spans
           k == job[w].k
           n == Len(obs)
<1>1. job[w].pc = "observe" /\ UNCHANGED <<laps, raw, evicted, map>>
  BY DEF Observe, At
<1>2. /\ job[w].lap \in DOMAIN laps /\ map # None /\ k \in Nat /\ k # 0
      /\ job[w].op = "import" /\ Len(job[w].seen) <= Size /\ job[w].lap \in Nat
  BY <1>1, JobFields DEF Works, Relies
<1>3. spans \in Seq(Spans) /\ DOMAIN spans = 1 .. Len(spans) /\ Len(spans) \in Nat
  BY <1>2, LapSpans, LenProperties
<1>4. CASE k > Len(spans)
  <2> DEFINE j == [job[w] EXCEPT !.pc = "candidates"]
  <2>1. Become(w, j) /\ UNCHANGED obs
    BY <1>4 DEF Observe, Goto
  <2>2. j \in Jobs
    BY JobFields DEF Jobs, Pcs
  <2>3. Relies(j)
    BY <1>1, <1>2, JobFields DEF Works, Relies, Current, Jobs
  <2> HIDE DEF j
  <2>4. QED
    BY <1>1, <2>1, <2>2, <2>3, Turned
<1>5. CASE ~(k > Len(spans))
  <2> DEFINE j == [job[w] EXCEPT !.pc = "measure", !.list = {n + 1}]
             c == Match(job[w].seen, spans)[k]
             x == [lap |-> job[w].lap, span |-> k, times |-> Unmeasured, corner |-> c]
  <2>1. Become(w, j) /\ obs' = Append(obs, x)
    BY <1>5 DEF Observe
  <2>2. k \in DOMAIN spans
    BY <1>2, <1>3, <1>5
  <2>3. c \in 0 .. Len(job[w].seen) /\ Len(job[w].seen) \in Nat
    BY <1>3, <2>2, JobFields, MatchSeen
  <2>4. Size \in Nat /\ c \in Nat /\ c <= Size
    <3> HIDE DEF c
    <3>1. QED
      BY <1>2, <2>3, SizeNat
  <2>5. /\ x \in Observations /\ x.lap = job[w].lap /\ x.span = k /\ x.corner = c
        /\ x.times = Unmeasured
    BY <1>2, <2>4, UnmeasuredTyped DEF Observations
  <2>6. n \in Nat /\ n + 1 \in Nat /\ DOMAIN obs = 1 .. n /\ obs \in Seq(Observations)
    BY LenProperties DEF Typed
  <2> HIDE DEF x, c
  <2>7. /\ obs' \in Seq(Observations) /\ DOMAIN obs' = 1 .. n + 1
        /\ obs'[n + 1] = x /\ \A o \in 1 .. n : obs'[o] = obs[o]
    BY <2>1, <2>5, <2>6, AppendProperties
  <2>8. j \in Jobs
    BY <2>6, JobFields DEF Jobs, Pcs
  <2>9. /\ job' \in [Workers -> Jobs] /\ job'[w] = j
        /\ \A v \in Workers \ {w} : job'[v] = job[v]
    BY <2>1, <2>8, Became
  <2>10. Typed'
    BY <1>1, <2>7, <2>9 DEF Typed
  <2>11. Size' = Size
    BY <1>1 DEF Size
  <2>12. Observed'
    <3>1. ASSUME NEW o \in DOMAIN obs'
          PROVE  /\ obs'[o].lap \in DOMAIN laps'
                 /\ obs'[o].span \in DOMAIN laps'[obs'[o].lap].spans
                 /\ obs'[o].corner <= Size'
                 /\ obs'[o].corner = 0 => obs'[o].times = Unmeasured'
      <4>1. Unmeasured' = Unmeasured
        BY DEF Unmeasured
      <4>2. CASE o = n + 1
        BY <1>1, <1>2, <2>2, <2>4, <2>5, <2>7, <2>11, <4>1, <4>2
      <4>3. CASE o # n + 1
        <5>1. o \in DOMAIN obs /\ obs'[o] = obs[o]
          BY <2>6, <2>7, <4>3
        <5>2. QED
          BY <1>1, <2>11, <4>1, <5>1 DEF Observed
      <4>4. QED
        BY <4>2, <4>3
    <3>2. QED
      BY <3>1 DEF Observed
  <2>13. Grows
    <3>1. \A o \in DOMAIN obs : o \in DOMAIN obs' /\ obs'[o] = obs[o]
      BY <2>6, <2>7
    <3>2. QED
      BY <1>1, <2>4, <2>11, <3>1 DEF Grows
  <2>14. Works(w)'
    <3>1. /\ j.pc = "measure" /\ j.op = "import" /\ j.lap = job[w].lap
          /\ j.seen = job[w].seen /\ j.list = {n + 1}
      BY <1>2, JobFields DEF Jobs
    <3>2. n + 1 \in DOMAIN obs'
      BY <2>6, <2>7
    <3> HIDE DEF j, n, k, spans
    <3>3. QED
      BY <1>1, <1>2, <2>9, <2>11, <3>1, <3>2 DEF Works, Relies
  <2>15. QED
    BY <2>9, <2>10, <2>12, <2>13, <2>14 DEF Kept
<1>6. QED
  BY <1>4, <1>5

LEMMA BuildMapKeeps ==
  ASSUME Typed, Observed, NEW w \in Workers, Works(w), BuildMap(w)
  PROVE  Kept(w)
<1> DEFINE spans == laps[job[w].lap].spans
<1>1. job[w].pc = "build" /\ UNCHANGED <<laps, raw, evicted, obs>>
  BY DEF BuildMap, At
<1>2. /\ job[w].lap \in DOMAIN laps /\ job[w].op = "import"
      /\ map = None => laps[job[w].lap].role = "self"
      /\ job[w].list \subseteq DOMAIN obs
  BY <1>1 DEF Works, Relies
<1>3. spans \in Seq(Spans)
  BY <1>2, LapSpans
<1>4. CASE map # None
  <2>1. Become(w, Idle) /\ UNCHANGED map
    BY <1>4 DEF BuildMap
  <2>2. PICK j : j = Idle
    OBVIOUS
  <2>3. QED
    BY <1>1, <2>1, <2>2, IdleRelies, Turned
<1>5. CASE map = None
  <2> DEFINE new == Built(spans)
             j == [job[w] EXCEPT !.pc = "freeze", !.k = 1, !.seen = Centres(new)]
  <2>1. map' = new /\ Become(w, j)
    BY <1>5 DEF BuildMap
  <2>2. new \in Seq(Corners) /\ Len(new) \in Nat /\ new # None
    <3>1. new \in Seq(Corners)
      BY <1>3, BuiltTyped
    <3> HIDE DEF new
    <3>2. QED
      BY <3>1, LenProperties, CornerMapAssumption
  <2> HIDE DEF new
  <2>3. Centres(new) \in Seq(Nat) /\ Len(Centres(new)) = Len(new)
    BY <2>2, CentresOf
  <2>4. j \in Jobs
    BY <2>3, JobFields DEF Jobs, Pcs
  <2>5. /\ job' \in [Workers -> Jobs] /\ job'[w] = j
        /\ \A v \in Workers \ {w} : job'[v] = job[v]
    BY <2>1, <2>4, Became
  <2>6. Typed'
    BY <1>1, <2>1, <2>2, <2>5 DEF Typed
  <2>7. Size = 0 /\ Size' = Len(new)
    BY <1>5, <2>1, <2>2 DEF Size
  <2>8. \A o \in DOMAIN obs : obs[o].corner = 0
    <3>1. TAKE o \in DOMAIN obs
    <3>2. obs[o].corner \in Nat /\ obs[o].corner <= Size
      BY ObservationFields DEF Observed
    <3>3. QED
      BY <2>7, <3>2
  <2>9. Observed'
    <3>1. Unmeasured' = Unmeasured
      BY DEF Unmeasured
    <3>2. QED
      BY <1>1, <2>2, <2>7, <2>8, <3>1 DEF Observed
  <2>10. Grows
    BY <1>1, <1>5, <2>2, <2>7 DEF Grows
  <2>11. Works(w)'
    <3>1. /\ j.pc = "freeze" /\ j.op = "import" /\ j.lap = job[w].lap /\ j.k = 1
          /\ j.seen = Centres(new) /\ j.list = job[w].list
      BY <1>2, JobFields DEF Jobs
    <3> HIDE DEF j, spans
    <3>2. QED
      BY <1>1, <1>2, <1>5, <2>1, <2>2, <2>3, <2>5, <2>7, <3>1 DEF Works, Relies
  <2>12. QED
    BY <2>5, <2>6, <2>9, <2>10, <2>11 DEF Kept
<1>6. QED
  BY <1>4, <1>5

\* Where the driver's own laps have a cluster is where a corner is founded.
LEMMA NewCornerTyped ==
  ASSUME Typed, Observed, NEW rows, rows \subseteq DOMAIN obs, Own(rows) # {}
  PROVE  /\ NewCorner(rows) \in Corners /\ NewCorner(rows).windows = None
         /\ NewCorner(rows).class = None
         /\ \E o, p \in Own(rows) :
              ApexOf(o) <= NewCorner(rows).at /\ NewCorner(rows).at <= ApexOf(p)
<1> DEFINE s == [o \in Own(rows) |-> ApexOf(o)]
<1>1. Own(rows) \subseteq DOMAIN obs /\ IsFiniteSet(Own(rows))
  <2>1. DOMAIN obs = 1 .. Len(obs) /\ Len(obs) \in Nat
    BY LenProperties DEF Typed
  <2>2. Own(rows) \subseteq DOMAIN obs
    BY DEF Own
  <2>3. QED
    BY <2>1, <2>2, FirstNumbers, FS_Subset
<1>2. \A o \in Own(rows) : ApexOf(o) \in Nat
  <2>1. TAKE o \in Own(rows)
  <2>2. obs[o].lap \in DOMAIN laps /\ obs[o].span \in DOMAIN laps[obs[o].lap].spans
    BY <1>1 DEF Observed
  <2>3. laps[obs[o].lap].spans \in Seq(Spans)
    BY <2>2, LapSpans
  <2>4. SpanOf(o) \in Spans
    BY <2>2, <2>3 DEF SpanOf
  <2>5. QED
    BY <2>4 DEF ApexOf, Spans
<1>3. DOMAIN s = Own(rows) /\ \A o \in DOMAIN s : s[o] = ApexOf(o) /\ s[o] \in Nat
  BY <1>2
<1>4. NewCorner(rows) = [at |-> Median(s), class |-> None, windows |-> None]
  BY DEF NewCorner
<1> HIDE DEF s
<1>5. Median(s) \in Nat /\ Between(Median(s), s)
  BY <1>1, <1>3, MedianBetween
<1>6. NewCorner(rows) \in Corners /\ NewCorner(rows).at = Median(s)
      /\ NewCorner(rows).windows = None /\ NewCorner(rows).class = None
  BY <1>4, <1>5 DEF Corners
<1>7. PICK o, p \in DOMAIN s : s[o] <= Median(s) /\ Median(s) <= s[p]
  BY <1>5 DEF Between
<1>8. QED
  BY <1>3, <1>6, <1>7

\* What an admission that succeeds does: m corners are added behind those there
\* are, and observations without a corner are linked to them.
Admits(w, m, t) ==
  /\ job[w].pc = "admit" /\ UNCHANGED <<laps, raw, evicted>> /\ map # None
  /\ m # 0 => Len(job[w].seen) = Size
  /\ t \in Seq(Nat \ {0}) /\ Len(t) = m
  /\ \A i \in 1 .. m : t[i] = Len(job[w].seen) + i
  /\ Become(w, [job[w] EXCEPT !.pc = "admitted", !.list = {}, !.todo = t])
  /\ map' \in Seq(Corners) /\ Len(map') = Size + m
  /\ \A c \in 1 .. Size : map'[c] = map[c]
  /\ \A c \in 1 .. Len(map') : c > Size =>
       /\ map'[c].windows = None
       /\ \E o, p \in DOMAIN obs : /\ Role(o) = "self" /\ Role(p) = "self"
                                   /\ ApexOf(o) <= map'[c].at
                                   /\ map'[c].at <= ApexOf(p)
  /\ obs' \in Seq(Observations) /\ DOMAIN obs' = DOMAIN obs
  /\ \A o \in DOMAIN obs :
       /\ obs'[o].lap = obs[o].lap /\ obs'[o].span = obs[o].span
       /\ obs'[o].times = obs[o].times
       /\ obs'[o].corner # obs[o].corner =>
            /\ obs[o].corner = 0 /\ m # 0
            /\ obs'[o].corner > Size /\ obs'[o].corner <= Size + m

LEMMA AdmitIs ==
  ASSUME Typed, Observed, NEW w \in Workers, Works(w), Admit(w)
  PROVE  \/ Become(w, Idle) /\ UNCHANGED <<laps, raw, evicted, map, obs>>
         \/ \E m \in Nat, t \in Seq(Nat \ {0}) : Admits(w, m, t)
<1> DEFINE new == NewCorners(job[w].list)
           n == Len(job[w].seen)
           linked(o) == {i \in DOMAIN new : o \in new[i]}
<1>1. /\ job[w].pc = "admit" /\ map # None /\ job[w].list \subseteq DOMAIN obs
      /\ UNCHANGED <<laps, raw, evicted>>
      /\ Len(job[w].seen) = Size => \A o \in job[w].list : obs[o].corner = 0
  BY DEF Admit, At, Works, Relies
<1>2. CASE new # << >> /\ n # Len(map)
  BY <1>1, <1>2 DEF Admit
<1>3. CASE ~(new # << >> /\ n # Len(map))
  <2> DEFINE m == Len(new)
             t == [i \in DOMAIN new |-> n + i]
             added == [i \in DOMAIN new |-> NewCorner(new[i])]
  <2>1. /\ map' = map \o added
        /\ obs' = [o \in DOMAIN obs |-> IF linked(o) = {} THEN obs[o]
                     ELSE [obs[o] EXCEPT !.corner = n + Least(linked(o))]]
        /\ Become(w, [job[w] EXCEPT !.pc = "admitted", !.list = {}, !.todo = t])
    <3>1. Become(w, [job[w] EXCEPT !.pc = "admitted", !.list = {},
                       !.todo = [i \in DOMAIN new |-> n + i]])
      BY <1>3 DEF Admit
    <3>2. QED
      BY <1>3, <3>1 DEF Admit
  <2>2. obs \in Seq(Observations) /\ Len(obs) \in Nat /\ DOMAIN obs = 1 .. Len(obs)
    BY LenProperties DEF Typed
  <2>3. /\ new \in Seq(SUBSET job[w].list)
        /\ \A i \in DOMAIN new : Own(new[i]) # {}
    BY <2>2, NewCornersOf
  <2> HIDE DEF new
  <2>4. m \in Nat /\ DOMAIN new = 1 .. m /\ n \in Nat
        /\ (m = 0 => new = << >>) /\ (m # 0 => new # << >>)
    BY <2>3, JobFields, LenProperties, EmptySeq
  <2>5. /\ map \in Seq(Corners) /\ Size = Len(map) /\ Size \in Nat
        /\ DOMAIN map = 1 .. Size
    BY <1>1, SizeNat DEF Typed
  <2>6. m # 0 => n = Size
    BY <1>3, <2>4, <2>5
  <2>7. \A i \in 1 .. m : new[i] \subseteq job[w].list /\ new[i] \subseteq DOMAIN obs
    BY <1>1, <2>3, <2>4
  <2>8. t \in Seq(Nat \ {0}) /\ Len(t) = m /\ \A i \in 1 .. m : t[i] = n + i
    <3>1. \A i \in 1 .. m : n + i \in Nat \ {0}
      BY <2>4
    <3>2. t \in [1 .. m -> Nat \ {0}]
      BY <2>4, <3>1
    <3>3. \A i \in 1 .. m : t[i] = n + i
      BY <2>4
    <3> HIDE DEF t, m
    <3>4. QED
      BY <2>4, <3>2, <3>3, SeqDef, LenProperties
  <2>9. ASSUME NEW i \in 1 .. m
        PROVE  /\ NewCorner(new[i]) \in Corners /\ NewCorner(new[i]).windows = None
               /\ \E o, p \in DOMAIN obs : /\ Role(o) = "self" /\ Role(p) = "self"
                                           /\ ApexOf(o) <= NewCorner(new[i]).at
                                           /\ NewCorner(new[i]).at <= ApexOf(p)
    <3>1. PICK rows : rows = new[i]
      OBVIOUS
    <3>2. rows \subseteq DOMAIN obs /\ Own(rows) # {}
      BY <2>3, <2>4, <2>7, <3>1
    <3>3. \A o \in Own(rows) : o \in DOMAIN obs /\ Role(o) = "self"
      BY <3>2 DEF Own
    <3>4. QED
      BY <3>1, <3>2, <3>3, NewCornerTyped
  <2>10. added \in Seq(Corners) /\ Len(added) = m
         /\ \A i \in 1 .. m : added[i] = NewCorner(new[i])
    <3>1. added \in [1 .. m -> Corners]
      BY <2>4, <2>9
    <3>2. \A i \in 1 .. m : added[i] = NewCorner(new[i])
      BY <2>4
    <3> HIDE DEF added, m
    <3>3. QED
      BY <2>4, <3>1, <3>2, SeqDef, LenProperties
  <2> HIDE DEF added, t, m
  <2>11. /\ map' \in Seq(Corners) /\ Len(map') = Size + m
         /\ \A c \in 1 .. Size : map'[c] = map[c]
         /\ \A c \in 1 .. Size + m : c > Size => map'[c] = added[c - Size]
    <3>1. /\ map \o added \in Seq(Corners) /\ Len(map \o added) = Len(map) + Len(added)
          /\ \A c \in 1 .. Len(map) + Len(added) :
               (map \o added)[c] = IF c <= Len(map) THEN map[c]
                                   ELSE added[c - Len(map)]
      BY <2>5, <2>10, ConcatProperties
    <3>2. map' = map \o added /\ Len(map) = Size /\ Len(added) = m
      BY <2>1, <2>5, <2>10
    <3> HIDE DEF added
    <3>3. /\ map' \in Seq(Corners) /\ Len(map') = Size + m
          /\ \A c \in 1 .. Size + m :
               map'[c] = IF c <= Size THEN map[c] ELSE added[c - Size]
      BY <3>1, <3>2, Zenon
    <3>4. \A c \in 1 .. Size : c \in 1 .. Size + m /\ c <= Size
      BY <2>4, <2>5
    <3>5. \A c \in 1 .. Size + m : c > Size => ~(c <= Size)
      BY <2>4, <2>5
    <3>6. QED
      BY <3>3, <3>4, <3>5, Zenon
  <2>12. ASSUME NEW c \in 1 .. Len(map'), c > Size
         PROVE  /\ map'[c].windows = None
                /\ \E o, p \in DOMAIN obs : /\ Role(o) = "self" /\ Role(p) = "self"
                                            /\ ApexOf(o) <= map'[c].at
                                            /\ map'[c].at <= ApexOf(p)
    <3>1. PICK i \in 1 .. m : i = c - Size
      <4>1. Len(map') = Size + m
        BY <2>11
      <4>2. \A x, y \in Nat : \A z \in 1 .. x + y : z > x => z - x \in 1 .. y
        OBVIOUS
      <4>3. c - Size \in 1 .. m
        BY <2>4, <2>5, <2>12, <4>1, <4>2
      <4>4. QED
        BY <4>3
    <3>2. map'[c] = NewCorner(new[i])
      BY <2>10, <2>11, <2>12, <3>1
    <3>3. QED
      BY <2>9, <3>2
  <2>13. DOMAIN obs' = DOMAIN obs
    BY <2>1
  <2>14. ASSUME NEW o \in DOMAIN obs
         PROVE  /\ obs'[o] \in Observations
                /\ obs'[o].lap = obs[o].lap /\ obs'[o].span = obs[o].span
                /\ obs'[o].times = obs[o].times
                /\ obs'[o].corner # obs[o].corner =>
                     /\ obs[o].corner = 0 /\ m # 0
                     /\ obs'[o].corner > Size /\ obs'[o].corner <= Size + m
    <3>1. obs[o] \in Observations
      BY <2>2
    <3>2. CASE linked(o) = {}
      <4>1. obs'[o] = obs[o]
        BY <2>1, <3>2
      <4>2. QED
        BY <3>1, <4>1
    <3>3. CASE linked(o) # {}
      <4> DEFINE l == Least(linked(o))
      <4>1. obs'[o] = [obs[o] EXCEPT !.corner = n + l]
        BY <2>1, <3>3
      <4>2. linked(o) \in SUBSET Nat /\ linked(o) \subseteq 1 .. m
        BY <2>4
      <4>3. l \in linked(o)
        <5> HIDE DEF linked
        <5>1. QED
          BY <3>3, <4>2, LeastIs
      <4>4. l \in 1 .. m /\ o \in new[l]
        BY <2>4, <4>3
      <4> HIDE DEF l, linked
      <4>5. m # 0 /\ n = Size /\ o \in job[w].list
        BY <2>4, <2>6, <2>7, <4>4
      <4>6. obs[o].corner = 0
        BY <1>1, <4>5
      <4>7. n + l \in Nat /\ n + l > Size /\ n + l <= Size + m
        BY <2>4, <2>5, <4>4, <4>5
      <4>8. QED
        BY <3>1, <4>1, <4>5, <4>6, <4>7 DEF Observations
    <3>4. QED
      BY <3>2, <3>3
  <2>15. obs' \in Seq(Observations)
    <3>1. DOMAIN obs' = 1 .. Len(obs)
      BY <2>2, <2>13
    <3>2. obs' = [o \in DOMAIN obs' |-> obs'[o]]
      BY <2>1
    <3>3. \A o \in 1 .. Len(obs) : obs'[o] \in Observations
      BY <2>2, <2>14
    <3>4. obs' \in [1 .. Len(obs) -> Observations]
      BY <3>1, <3>2, <3>3
    <3>5. QED
      BY <2>2, <3>4, SeqDef
  <2>16. Admits(w, m, t)
    BY <1>1, <2>1, <2>6, <2>8, <2>11, <2>12, <2>13, <2>14, <2>15 DEF Admits
  <2>17. QED
    BY <2>4, <2>8, <2>16
<1>4. QED
  BY <1>2, <1>3

LEMMA AdmitKeeps ==
  ASSUME Typed, Observed, NEW w \in Workers, Works(w), Admit(w)
  PROVE  Kept(w)
<1>1. CASE Become(w, Idle) /\ UNCHANGED <<laps, raw, evicted, map, obs>>
  <2>1. PICK j : j = Idle
    OBVIOUS
  <2>2. QED
    BY <1>1, <2>1, IdleRelies, Turned
<1>2. CASE \E m \in Nat, t \in Seq(Nat \ {0}) : Admits(w, m, t)
  <2>1. PICK m \in Nat, t \in Seq(Nat \ {0}) : Admits(w, m, t)
    BY <1>2
  <2> DEFINE j == [job[w] EXCEPT !.pc = "admitted", !.list = {}, !.todo = t]
  <2>2. j \in Jobs /\ Become(w, j)
    BY <2>1, JobFields DEF Jobs, Pcs, Admits
  <2>3. /\ job' \in [Workers -> Jobs] /\ job'[w] = j
        /\ \A v \in Workers \ {w} : job'[v] = job[v]
    BY <2>2, Became
  <2>4. map # None /\ map' \in Seq(Corners) /\ map' # None
    BY <2>1, CornerMapAssumption DEF Admits
  <2>5. Size \in Nat /\ Size' = Size + m
    BY <2>1, <2>4, SizeNat DEF Size, Admits
  <2>6. Typed'
    BY <2>1, <2>3 DEF Typed, Admits
  <2>7. Observed'
    <3>1. Unmeasured' = Unmeasured
      BY DEF Unmeasured
    <3>2. ASSUME NEW o \in DOMAIN obs'
          PROVE  /\ obs'[o].lap \in DOMAIN laps'
                 /\ obs'[o].span \in DOMAIN laps'[obs'[o].lap].spans
                 /\ obs'[o].corner <= Size'
                 /\ obs'[o].corner = 0 => obs'[o].times = Unmeasured'
      <4>1. o \in DOMAIN obs
        BY <2>1 DEF Admits
      <4>2. obs[o].corner \in Nat /\ obs[o].corner <= Size
        BY <4>1, ObservationFields DEF Observed
      <4>3. obs'[o].corner <= Size'
        BY <2>1, <2>5, <4>1, <4>2 DEF Admits
      <4>4. obs'[o].corner = 0 => obs[o].corner = 0
        BY <2>1, <2>5, <4>1 DEF Admits
      <4>5. QED
        BY <2>1, <3>1, <4>1, <4>3, <4>4 DEF Observed, Admits
    <3>3. QED
      BY <3>2 DEF Observed
  <2>8. Grows
    <3>1. Size <= Size' /\ (m # 0 => Size < Size')
      BY <2>5
    <3>2. QED
      BY <2>1, <2>4, <3>1 DEF Grows, Admits
  <2>9. Works(w)'
    <3>1. j.pc = "admitted" /\ j.list = {} /\ j.seen = job[w].seen
      BY JobFields DEF Jobs
    <3>2. Len(job[w].seen) \in Nat /\ Len(job[w].seen) <= Size'
      BY <2>5, JobFields DEF Works, Relies
    <3> HIDE DEF j
    <3>3. QED
      BY <2>3, <2>4, <3>1, <3>2 DEF Works, Relies
  <2>10. QED
    BY <2>3, <2>6, <2>7, <2>8, <2>9 DEF Kept
<1>3. QED
  BY <1>1, <1>2, AdmitIs

\* What any step does: w is the worker that takes it, or any where none does.
Moved(w) ==
  /\ Typed' /\ Observed' /\ Grows /\ Works(w)'
  /\ \A v \in Workers \ {w} :
       job'[v] = job[v] \/ job'[v] = [job[v] EXCEPT !.solo = FALSE]

LEMMA Begun ==
  ASSUME Typed, NEW w \in Workers, NEW j \in Jobs, Begin(w, j)
  PROVE  LET alone == \A v \in Workers : job[v].pc = "idle"
         IN /\ job[w].pc = "idle"
            /\ job' \in [Workers -> Jobs] /\ job'[w] = [j EXCEPT !.solo = alone]
            /\ \A v \in Workers \ {w} : job'[v] = [job[v] EXCEPT !.solo = FALSE]
<1> DEFINE alone == \A v \in Workers : job[v].pc = "idle"
<1>1. alone \in BOOLEAN
  OBVIOUS
<1>2. job[w].pc = "idle"
      /\ job' = [v \in Workers |-> IF v = w THEN [j EXCEPT !.solo = alone]
                                   ELSE [job[v] EXCEPT !.solo = FALSE]]
  BY DEF Begin, At
<1> HIDE DEF alone
<1>3. \A v \in Workers : [job[v] EXCEPT !.solo = FALSE] \in Jobs
  <2>1. \A v \in Workers : job[v] \in Jobs
    BY DEF Typed
  <2>2. QED
    BY <2>1 DEF Jobs
<1>4. [j EXCEPT !.solo = alone] \in Jobs
  BY <1>1 DEF Jobs
<1>5. QED
  BY <1>2, <1>3, <1>4 DEF alone

LEMMA ImportLapKeeps ==
  ASSUME Typed, Observed, NEW w \in Workers, NEW l \in Laps, ImportLap(w, l)
  PROVE  Moved(w)
<1> DEFINE n == Len(laps)
           j == [Idle EXCEPT !.op = "import", !.pc = "load", !.lap = n + 1]
           alone == \A v \in Workers : job[v].pc = "idle"
<1>1. /\ laps' = Append(laps, l) /\ raw' = raw \cup {n + 1}
      /\ UNCHANGED <<evicted, map, obs>> /\ Begin(w, j)
      /\ l.role = "reference" => map # None
  BY DEF ImportLap
<1>2. laps \in Seq(Laps) /\ n \in Nat /\ DOMAIN laps = 1 .. n
  BY LenProperties DEF Typed
<1>3. /\ laps' \in Seq(Laps) /\ DOMAIN laps' = 1 .. n + 1
      /\ laps'[n + 1] = l /\ \A i \in 1 .. n : laps'[i] = laps[i]
  BY <1>1, <1>2, AppendProperties
<1>4. \A i \in DOMAIN laps : i \in DOMAIN laps' /\ laps'[i] = laps[i]
  BY <1>2, <1>3
<1>5. n + 1 \in DOMAIN laps' /\ n + 1 \notin DOMAIN laps /\ n + 1 \in Nat
  BY <1>2, <1>3
<1>6. j \in Jobs
  BY <1>5, IdleRelies DEF Jobs, Pcs
<1> HIDE DEF n
<1>7. /\ job' \in [Workers -> Jobs] /\ job'[w] = [j EXCEPT !.solo = alone]
      /\ \A v \in Workers \ {w} : job'[v] = [job[v] EXCEPT !.solo = FALSE]
  <2> HIDE DEF j
  <2>1. QED
    BY <1>1, <1>6, Begun
<1>8. Typed'
  BY <1>1, <1>3, <1>4, <1>5, <1>7 DEF Typed
<1>9. Size' = Size /\ Size \in Nat
  BY <1>1, SizeNat DEF Size
<1>10. Observed'
  <2>1. Unmeasured' = Unmeasured
    BY DEF Unmeasured
  <2>2. QED
    BY <1>1, <1>4, <1>9, <2>1 DEF Observed
<1>11. Grows
  BY <1>1, <1>4, <1>9 DEF Grows
<1>12. Works(w)'
  <2>1. /\ job'[w].pc = "load" /\ job'[w].op = "import" /\ job'[w].lap = n + 1
        /\ job'[w].seen = << >> /\ job'[w].list = {}
    BY <1>7 DEF Idle
  <2>2. map' = None => laps'[n + 1].role = "self"
    BY <1>1, <1>3, CornerMapAssumption
  <2>3. Len(<< >>) <= Size'
    BY <1>9
  <2>4. QED
    BY <1>5, <2>1, <2>2, <2>3 DEF Works, Relies
<1>13. QED
  BY <1>7, <1>8, <1>10, <1>11, <1>12 DEF Moved

LEMMA RebuildKeeps ==
  ASSUME Typed, Observed, NEW w \in Workers, NEW allow, Rebuild(w, allow)
  PROVE  Moved(w)
<1> DEFINE j == [Idle EXCEPT !.op = "rebuild", !.pc = "centroid", !.k = 1,
                             !.seen = Centres(map)]
           alone == \A v \in Workers : job[v].pc = "idle"
<1>1. UNCHANGED <<laps, raw, evicted, map, obs>> /\ Begin(w, j) /\ map # None
  BY DEF Rebuild, store
<1>2. Centres(map) \in Seq(Nat) /\ Len(Centres(map)) = Size /\ Size \in Nat
  BY <1>1, CentresTyped, SizeNat
<1>3. j \in Jobs
  BY <1>2, IdleRelies DEF Jobs, Pcs
<1>4. /\ job' \in [Workers -> Jobs] /\ job'[w] = [j EXCEPT !.solo = alone]
      /\ \A v \in Workers \ {w} : job'[v] = [job[v] EXCEPT !.solo = FALSE]
  <2> HIDE DEF j
  <2>1. QED
    BY <1>1, <1>3, Begun
<1>5. Typed'
  BY <1>1, <1>4 DEF Typed
<1>6. Size' = Size
  BY <1>1 DEF Size
<1>7. Observed'
  <2>1. Unmeasured' = Unmeasured
    BY DEF Unmeasured
  <2>2. QED
    BY <1>1, <1>6, <2>1 DEF Observed
<1>8. Grows
  BY <1>1, <1>2, <1>6 DEF Grows
<1>9. Works(w)'
  <2>1. /\ job'[w].pc = "centroid" /\ job'[w].k = 1 /\ job'[w].todo = << >>
        /\ job'[w].seen = Centres(map) /\ job'[w].list = {}
    BY <1>4 DEF Idle
  <2>2. Len(job'[w].seen) <= Size'
    BY <1>2, <1>6, <2>1
  <2>3. QED
    BY <1>1, <2>1, <2>2 DEF Works, Relies
<1>10. QED
  BY <1>4, <1>5, <1>7, <1>8, <1>9 DEF Moved

\* A trace goes; no worker is disturbed.
LEMMA TraceGoes ==
  ASSUME Typed, Observed, NEW l \in raw, Evict(l) \/ Lose(l)
  PROVE  /\ Typed' /\ Observed' /\ Grows /\ raw' \subseteq raw
         /\ UNCHANGED <<laps, map, obs, job>>
<1>1. /\ UNCHANGED <<laps, map, obs, job>> /\ raw' = raw \ {l}
      /\ evicted' = evicted \/ evicted' = evicted \cup {l}
  BY DEF Evict, Lose
<1>2. Typed'
  BY <1>1 DEF Typed
<1>3. Size' = Size /\ Size \in Nat
  BY <1>1, SizeNat DEF Size
<1>4. Observed'
  <2>1. Unmeasured' = Unmeasured
    BY DEF Unmeasured
  <2>2. QED
    BY <1>1, <1>3, <2>1 DEF Observed
<1>5. Grows
  BY <1>1, <1>3 DEF Grows
<1>6. QED
  BY <1>1, <1>2, <1>4, <1>5

\* What a worker relies on, no step of another takes away.
LEMMA OthersKeep ==
  ASSUME Typed, Typed', Grows, NEW v \in Workers, Works(v),
         job'[v] = job[v] \/ job'[v] = [job[v] EXCEPT !.solo = FALSE]
  PROVE  Works(v)'
<1> DEFINE j == job[v]
           i == job'[v]
<1>1. /\ i.op = j.op /\ i.pc = j.pc /\ i.lap = j.lap /\ i.seen = j.seen
      /\ i.wins = j.wins /\ i.k = j.k /\ i.todo = j.todo /\ i.list = j.list
      /\ Current(i) = Current(j)
  <2>1. j \in Jobs
    BY JobFields
  <2>2. QED
    BY <2>1 DEF Jobs, Current
<1>2. Relies(j) /\ Len(j.seen) \in Nat
  BY JobFields DEF Works
<1>3. Size \in Nat /\ Size' \in Nat
  <2>1. Size \in Nat
    BY SizeNat
  <2>2. Size' \in Nat
    BY LenProperties DEF Typed, Size
  <2>3. QED
    BY <2>1, <2>2
<1> HIDE DEF i, j
<1>4. map' = None => map = None
  BY DEF Grows
<1>5. ASSUME j.pc = "times", NEW o \in j.list
      PROVE  obs'[o].corner = Current(j)
  <2>1. o \in DOMAIN obs /\ obs[o].corner = Current(j) /\ obs[o].corner # 0
    BY <1>2, <1>5 DEF Relies
  <2>2. QED
    BY <2>1 DEF Grows
<1>6. ASSUME j.pc = "admit", Len(j.seen) = Size', NEW o \in j.list
      PROVE  obs'[o].corner = 0
  <2>1. Size' = Size /\ ~(Size < Size')
    BY <1>2, <1>3, <1>6 DEF Relies, Grows
  <2>2. o \in DOMAIN obs /\ obs[o].corner = 0
    BY <1>2, <1>6, <2>1 DEF Relies
  <2>3. QED
    BY <2>1, <2>2 DEF Grows
<1>7. Len(j.seen) <= Size'
  BY <1>2, <1>3 DEF Relies, Grows
<1>8. j.list \subseteq DOMAIN obs'
  BY <1>2 DEF Relies, Grows
<1>9. j.pc \in {"load", "build", "freeze", "windows", "observe", "measure"} =>
        j.lap \in DOMAIN laps' /\ laps'[j.lap] = laps[j.lap]
  BY <1>2 DEF Relies, Grows
<1>10. PICK r : r = i
  OBVIOUS
<1>11. Relies(r)'
  BY <1>1, <1>2, <1>4, <1>5, <1>6, <1>7, <1>8, <1>9, <1>10 DEF Relies, Current
<1>12. QED
  BY <1>10, <1>11 DEF Works, i

\* Every step moves one worker and lets the others be, or takes a trace.
LEMMA NextMoves ==
  ASSUME Typed, Observed, \A w \in Workers : Works(w), Next
  PROVE  \/ \E w \in Workers : Moved(w)
         \/ Typed' /\ Observed' /\ Grows /\ UNCHANGED job
<1>1. ASSUME NEW w \in Workers, NEW l \in Laps, ImportLap(w, l) PROVE Moved(w)
  BY <1>1, ImportLapKeeps
<1>2. ASSUME NEW w \in Workers, NEW allow \in BOOLEAN, Rebuild(w, allow) PROVE Moved(w)
  BY <1>2, RebuildKeeps
<1>3. ASSUME NEW w \in Workers, Step(w) \/ Fail(w) PROVE Moved(w)
  <2>1. Works(w)
    OBVIOUS
  <2>2. Kept(w)
    BY <1>3, <2>1, LoadMapKeeps, BuildMapKeeps, FreezeWindowsKeeps, LoadWindowsKeeps,
       ObserveKeeps, MeasureKeeps, ReadCandidatesKeeps, AdmitKeeps, FreezeAdmittedKeeps,
       ListObservationsKeeps, RemeasureKeeps, NextCornerKeeps, RecentreKeeps,
       RefreezeKeeps, ReclassifyKeeps, EndsKeeps DEF Step
  <2>3. QED
    BY <2>2 DEF Kept, Moved
<1>4. ASSUME NEW l \in raw, Evict(l) \/ Lose(l)
      PROVE  Typed' /\ Observed' /\ Grows /\ UNCHANGED job
  BY <1>4, TraceGoes
<1>5. QED
  BY <1>1, <1>2, <1>3, <1>4 DEF Next

LEMMA NextKeeps ==
  ASSUME Typed, Observed, \A w \in Workers : Works(w), [Next]_vars
  PROVE  Typed' /\ Observed' /\ (\A w \in Workers : Works(w)')
         /\ (Grows \/ UNCHANGED vars)
<1>1. CASE Next
  <2>1. CASE \E w \in Workers : Moved(w)
    <3>1. PICK w \in Workers : Moved(w)
      BY <2>1
    <3>2. Typed' /\ Observed' /\ Grows
      BY <3>1 DEF Moved
    <3>3. ASSUME NEW v \in Workers PROVE Works(v)'
      <4>1. CASE v = w
        BY <3>1, <4>1 DEF Moved
      <4>2. CASE v # w
        <5>1. job'[v] = job[v] \/ job'[v] = [job[v] EXCEPT !.solo = FALSE]
          BY <3>1, <4>2 DEF Moved
        <5>2. QED
          BY <3>2, <5>1, OthersKeep
      <4>3. QED
        BY <4>1, <4>2
    <3>4. QED
      BY <3>2, <3>3
  <2>2. CASE Typed' /\ Observed' /\ Grows /\ UNCHANGED job
    <3>1. ASSUME NEW v \in Workers PROVE Works(v)'
      <4>1. job'[v] = job[v]
        BY <2>2
      <4>2. QED
        BY <2>2, <4>1, OthersKeep
    <3>2. QED
      BY <2>2, <3>1
  <2>3. QED
    BY <1>1, <2>1, <2>2, NextMoves
<1>2. CASE UNCHANGED vars
  <2>1. Typed' /\ Observed'
    BY <1>2 DEF Typed, Observed, Size, Unmeasured, vars, store
  <2>2. ASSUME NEW w \in Workers PROVE Works(w)'
    BY <1>2 DEF Works, Relies, Current, Size, vars, store
  <2>3. QED
    BY <1>2, <2>1, <2>2
<1>3. QED
  BY <1>1, <1>2

-----------------------------------------------------------------------------
(* The initial states.                                                     *)

LEMMA GreatestIs ==
  ASSUME NEW n \in Nat, NEW S \in SUBSET (1 .. n), S # {}
  PROVE  Greatest(S) \in S
<1> DEFINE T == {n - k : k \in S}
<1>1. \A k \in S : k \in Nat /\ n - k \in Nat
  <2>1. \A k \in 1 .. n : k \in Nat /\ n - k \in Nat
    OBVIOUS
  <2>2. QED
    BY <2>1, Zenon
<1>2. T \in SUBSET Nat /\ T # {}
  BY <1>1, Zenon
<1>3. PICK m \in T : \A x \in T : m <= x
  <2> HIDE DEF T
  <2>1. QED
    BY <1>2, LeastNumber
<1>4. PICK k \in S : m = n - k
  BY <1>3
<1>5. \A u \in S : u <= k
  <2>1. TAKE u \in S
  <2>2. n - k <= n - u
    BY <1>3, <1>4
  <2>3. u \in Nat /\ k \in Nat
    BY <1>1
  <2>4. QED
    BY <2>2, <2>3
<1>6. QED
  BY <1>5 DEF Greatest

\* The driver's own spans of the laps that are stored.
Driven == UNION {{laps[l].spans[i] : i \in DOMAIN laps[l].spans} :
                 l \in {k \in DOMAIN laps : laps[k].role = "self"}}

\* A place, and where windows end, is within what they have driven.
Placed(at) == \E p, q \in Driven : p.apex <= at /\ at <= q.apex
Ended(win) ==
  win # None =>
    \E p, q \in ({s.exit : s \in Driven} \cup {s.full : s \in Driven}) \ {None} :
      p <= win.end /\ win.end <= q

LEMMA SelfDecidesIs ==
  SelfDecides <=>
    (map # None => \A c \in DOMAIN map : Placed(map[c].at) /\ Ended(map[c].windows))
<1>1. SelfDecides <=>
        (map # None => \A c \in DOMAIN map :
          /\ \E p, q \in {s.apex : s \in Driven} : p <= map[c].at /\ map[c].at <= q
          /\ map[c].windows # None =>
               \E p, q \in ({s.exit : s \in Driven} \cup {s.full : s \in Driven}) \ {None} :
                 p <= map[c].windows.end /\ map[c].windows.end <= q)
  BY DEF SelfDecides, Driven
<1>2. \A v : (\E p, q \in {s.apex : s \in Driven} : p <= v /\ v <= q)
             <=> (\E p, q \in Driven : p.apex <= v /\ v <= q.apex)
  BY Zenon
<1>3. QED
  BY <1>1, <1>2, Zenon DEF Placed, Ended

\* The windows of spans that were all driven are within what was driven.
LEMMA EndsDriven ==
  ASSUME NEW spans, Family(spans), \A i \in DOMAIN spans : spans[i] \in Driven
  PROVE  Ended(Derived(spans))
<1>1. PICK p, q \in Ends(spans) : p <= Derived(spans).end /\ Derived(spans).end <= q
  BY DerivedTyped
<1>2. ASSUME NEW e \in Ends(spans)
      PROVE  e \in ({s.exit : s \in Driven} \cup {s.full : s \in Driven}) \ {None}
  <2>1. CASE e \in {spans[i].exit : i \in DOMAIN spans}
    <3>1. PICK i \in DOMAIN spans : e = spans[i].exit
      BY <2>1
    <3>2. e \in Nat
      BY <3>1 DEF Family, Spans
    <3>3. e # None
      BY <3>2, CornerMapAssumption
    <3>4. QED
      BY <3>1, <3>3
  <2>2. CASE e \in {spans[i].full : i \in DOMAIN spans} \ {None}
    BY <2>2
  <2>3. QED
    BY <2>1, <2>2 DEF Ends
<1>3. QED
  BY <1>1, <1>2 DEF Ended

LEMMA DrivenSpans ==
  ASSUME Typed, NEW l \in DOMAIN laps, laps[l].role = "self", NEW i \in DOMAIN laps[l].spans
  PROVE  laps[l].spans[i] \in Driven
BY DEF Driven

LEMMA FoundedInit ==
  ASSUME NEW l \in Past, Founded(l), job = [w \in Workers |-> Idle]
  PROVE  Typed /\ Observed /\ SelfDecides
<1> DEFINE spans == l.spans
           built == Built(spans)
           here == Match(Centres(built), spans)
           of(c) == {k \in DOMAIN here : here[k] = c}
           class(c) == Band(Median([k \in of(c) |-> spans[k].speed]))
           last(c) == spans[Greatest(of(c))]
<1>1. l \in Laps /\ l.role = "self" /\ spans \in Seq(Spans)
  BY CornerMapAssumption
<1>2. /\ laps = <<l>> /\ raw = {1} /\ evicted = {}
      /\ map = [c \in DOMAIN built |->
           IF of(c) = {} THEN built[c]
           ELSE [built[c] EXCEPT !.windows = Derived(<<last(c)>>), !.class = class(c)]]
      /\ obs = [k \in DOMAIN spans |->
          [lap |-> 1, span |-> k, corner |-> here[k],
           times |-> IF here[k] = 0 THEN Unmeasured
                     ELSE Measured(Unmeasured, l, map[here[k]].windows)]]
  BY DEF Founded
<1>3. /\ built \in Seq(Corners)
      /\ \A c \in DOMAIN built :
           /\ built[c].windows = None
           /\ \E i, j \in DOMAIN spans : spans[i].apex <= built[c].at
                                         /\ built[c].at <= spans[j].apex
  BY <1>1, BuiltTyped
<1>4. DOMAIN spans = 1 .. Len(spans) /\ Len(spans) \in Nat
      /\ \A k \in DOMAIN spans : spans[k] \in Spans
  BY <1>1, LenProperties
<1>5. DOMAIN here = DOMAIN spans
  BY DEF Match
<1> HIDE DEF built
<1>6. Centres(built) \in Seq(Nat) /\ Len(Centres(built)) = Len(built)
      /\ DOMAIN built = 1 .. Len(built) /\ Len(built) \in Nat
      /\ \A c \in DOMAIN built : built[c] \in Corners
  BY <1>3, CentresOf, LenProperties
<1>7. \A k \in DOMAIN spans : here[k] \in 0 .. Len(built)
  BY <1>1, <1>6, MatchSeen
<1> HIDE DEF here
<1>8. ASSUME NEW c, of(c) # {}
      PROVE  /\ last(c) \in Spans /\ \E k \in DOMAIN spans : last(c) = spans[k]
             /\ Derived(<<last(c)>>) \in Windows
  <2>1. of(c) \in SUBSET (1 .. Len(spans))
    BY <1>4, <1>5
  <2> HIDE DEF of
  <2>2. Greatest(of(c)) \in of(c)
    BY <1>4, <1>8, <2>1, GreatestIs
  <2>3. Greatest(of(c)) \in DOMAIN spans
    BY <1>4, <2>1, <2>2
  <2>4. last(c) \in Spans
    BY <1>4, <2>3
  <2>5. QED
    BY <2>3, <2>4, OneSpan, DerivedTyped
<1>9. \A c : class(c) \in {None, "slow", "medium", "fast"}
  BY DEF Band
<1> HIDE DEF class, last
<1>10. \A c \in DOMAIN built : map[c] \in Corners /\ map[c].at = built[c].at
        /\ (of(c) = {} => map[c].windows = None)
        /\ (of(c) # {} => map[c].windows = Derived(<<last(c)>>))
  <2>1. TAKE c \in DOMAIN built
  <2>2. CASE of(c) = {}
    BY <1>2, <1>3, <1>6, <2>2
  <2>3. CASE of(c) # {}
    <3>1. map[c] = [built[c] EXCEPT !.windows = Derived(<<last(c)>>), !.class = class(c)]
      BY <1>2, <2>3
    <3>2. built[c] \in Corners /\ Derived(<<last(c)>>) \in Windows
      BY <1>6, <1>8, <2>3
    <3> HIDE DEF of
    <3>3. QED
      BY <1>9, <2>3, <3>1, <3>2 DEF Corners
  <2>4. QED
    BY <2>2, <2>3
<1>11. DOMAIN map = 1 .. Len(built) /\ DOMAIN map = DOMAIN built
  BY <1>2, <1>6
<1>12. map \in Seq(Corners) /\ Len(map) = Len(built) /\ map # None /\ Size = Len(built)
  <2>1. map \in [1 .. Len(built) -> Corners]
    <3>1. map = [c \in DOMAIN map |-> map[c]]
      BY <1>2
    <3>2. \A c \in 1 .. Len(built) : map[c] \in Corners
      BY <1>10, <1>11
    <3>3. QED
      BY <1>11, <3>1, <3>2
  <2>2. map \in Seq(Corners) /\ Len(map) = Len(built)
    BY <1>6, <2>1, SeqDef, LenProperties
  <2>3. map # None
    BY <2>2, CornerMapAssumption
  <2>4. QED
    BY <2>2, <2>3 DEF Size
<1>13. laps \in Seq(Laps) /\ DOMAIN laps = {1} /\ laps[1] = l
  <2>1. laps = <<l>> /\ l \in Laps
    BY <1>1, <1>2
  <2>2. DOMAIN laps = 1 .. 1 /\ laps[1] = l
    BY <2>1
  <2>3. QED
    BY <2>1, <2>2
<1>14. DOMAIN obs = DOMAIN spans
  BY <1>2
<1>15. ASSUME NEW k \in DOMAIN obs
       PROVE  /\ obs[k] \in Observations /\ obs[k].lap = 1 /\ obs[k].span = k
              /\ obs[k].corner <= Len(built)
              /\ obs[k].corner = 0 => obs[k].times = Unmeasured
  <2> DEFINE t == IF here[k] = 0 THEN Unmeasured
                  ELSE Measured(Unmeasured, l, map[here[k]].windows)
  <2>1. obs[k] = [lap |-> 1, span |-> k, corner |-> here[k], times |-> t]
    BY <1>2, <1>14
  <2>2. here[k] \in 0 .. Len(built) /\ k \in Nat
    BY <1>4, <1>7, <1>14
  <2>3. t \in [Phases -> Times]
    <3>1. CASE here[k] = 0
      BY <3>1, UnmeasuredTyped
    <3>2. CASE here[k] # 0
      <4>1. here[k] \in DOMAIN built /\ k \in of(here[k])
        BY <1>5, <1>6, <1>14, <2>2, <3>2
      <4>2. map[here[k]].windows \in Windows
        <5>1. PICK c : c = here[k]
          OBVIOUS
        <5>2. of(c) # {}
          BY <4>1, <5>1
        <5> HIDE DEF of
        <5>3. QED
          BY <1>8, <1>10, <4>1, <5>1, <5>2
      <4>3. QED
        BY <3>2, <4>2, MeasuredIs, UnmeasuredTyped
    <3>3. QED
      BY <3>1, <3>2
  <2>4. here[k] = 0 => t = Unmeasured
    OBVIOUS
  <2> HIDE DEF t
  <2>5. here[k] \in Nat /\ here[k] <= Len(built)
    BY <1>6, <2>2
  <2>6. QED
    BY <2>1, <2>2, <2>3, <2>4, <2>5 DEF Observations
<1>16. obs \in Seq(Observations)
  <2>1. obs = [k \in DOMAIN obs |-> obs[k]] /\ DOMAIN obs = 1 .. Len(spans)
    BY <1>2, <1>4, <1>14
  <2>2. obs \in [1 .. Len(spans) -> Observations]
    BY <1>15, <2>1
  <2>3. QED
    BY <1>4, <2>2, SeqDef
<1>17. job \in [Workers -> Jobs]
  BY IdleRelies
<1>18. Typed
  BY <1>2, <1>12, <1>13, <1>16, <1>17 DEF Typed
<1>19. Observed
  BY <1>12, <1>13, <1>14, <1>15 DEF Observed
<1>20. \A k \in DOMAIN spans : spans[k] \in Driven
  BY <1>1, <1>13, <1>18, DrivenSpans
<1>21. ASSUME NEW c \in DOMAIN map PROVE Placed(map[c].at) /\ Ended(map[c].windows)
  <2>1. Placed(map[c].at)
    <3>1. map[c].at = built[c].at /\ c \in DOMAIN built
      BY <1>10, <1>11
    <3>2. PICK i, k \in DOMAIN spans : spans[i].apex <= built[c].at
                                       /\ built[c].at <= spans[k].apex
      BY <1>3, <3>1
    <3>3. spans[i] \in Driven /\ spans[k] \in Driven
      BY <1>20
    <3> HIDE DEF spans
    <3>4. QED
      BY <3>1, <3>2, <3>3 DEF Placed
  <2>2. CASE of(c) = {}
    BY <1>10, <1>11, <2>1, <2>2 DEF Ended
  <2>3. CASE of(c) # {}
    <3>1. map[c].windows = Derived(<<last(c)>>)
      BY <1>10, <1>11, <2>3
    <3>2. last(c) \in Spans /\ last(c) \in Driven
      BY <1>8, <1>20, <2>3
    <3>3. \A i \in DOMAIN <<last(c)>> : <<last(c)>>[i] \in Driven
      BY <3>2
    <3>4. Family(<<last(c)>>)
      BY <3>2, OneSpan
    <3>5. QED
      BY <2>1, <3>1, <3>3, <3>4, EndsDriven
  <2>4. QED
    BY <2>2, <2>3
<1>22. QED
  BY <1>18, <1>19, <1>21, SelfDecidesIs

LEMMA InitHolds ==
  ASSUME Init
  PROVE  Typed /\ Observed /\ SelfDecides /\ \A w \in Workers : Works(w) /\ ~job[w].solo
<1>1. job = [w \in Workers |-> Idle]
  BY DEF Init
<1>2. Typed /\ Observed /\ SelfDecides
  <2>1. CASE /\ laps = << >> /\ raw = {} /\ evicted = {} /\ map = None /\ obs = << >>
    <3>1. job \in [Workers -> Jobs]
      BY <1>1, IdleRelies
    <3>2. Typed
      BY <2>1, <3>1, EmptySeq DEF Typed
    <3>3. DOMAIN obs = {}
      BY <2>1
    <3>4. QED
      BY <2>1, <3>2, <3>3 DEF Observed, SelfDecides
  <2>2. CASE \E l \in Past : Founded(l)
    BY <1>1, <2>2, FoundedInit
  <2>3. QED
    BY <2>1, <2>2 DEF Init
<1>3. ASSUME NEW w \in Workers PROVE Works(w) /\ ~job[w].solo
  <2>1. job[w] = Idle
    BY <1>1
  <2>2. QED
    BY <1>2, <2>1, IdleRelies DEF Works, Idle
<1>4. QED
  BY <1>2, <1>3

-----------------------------------------------------------------------------
(* The driver's own laps decide.                                           *)

LEMMA DrivenGrows ==
  ASSUME Typed, Grows
  PROVE  \A s \in Driven : s \in Driven'
<1>1. TAKE s \in Driven
<1>2. PICK l \in DOMAIN laps : laps[l].role = "self"
                               /\ s \in {laps[l].spans[i] : i \in DOMAIN laps[l].spans}
  BY DEF Driven
<1>3. l \in DOMAIN laps' /\ laps'[l] = laps[l]
  BY DEF Grows
<1>4. s \in {laps'[l].spans[i] : i \in DOMAIN laps'[l].spans} /\ laps'[l].role = "self"
  BY <1>2, <1>3
<1>5. QED
  BY <1>3, <1>4 DEF Driven

LEMMA DecidedStays ==
  ASSUME Typed, Grows, map' # None,
         \A c \in DOMAIN map' : Placed(map'[c].at) /\ Ended(map'[c].windows)
  PROVE  SelfDecides'
<1>1. \A s \in Driven : s \in Driven'
  BY DrivenGrows
<1>2. ASSUME NEW at, Placed(at) PROVE Placed(at)'
  BY <1>1, <1>2 DEF Placed
<1>3. ASSUME NEW win, Ended(win) PROVE Ended(win)'
  <2>1. CASE win = None
    BY <2>1 DEF Ended
  <2>2. CASE win # None
    <3>1. PICK p, q \in ({s.exit : s \in Driven} \cup {s.full : s \in Driven}) \ {None} :
            p <= win.end /\ win.end <= q
      BY <1>3, <2>2 DEF Ended
    <3>2. p \in ({s.exit : s \in Driven'} \cup {s.full : s \in Driven'}) \ {None}
      BY <1>1, <3>1
    <3>3. q \in ({s.exit : s \in Driven'} \cup {s.full : s \in Driven'}) \ {None}
      BY <1>1, <3>1
    <3>4. QED
      BY <3>1, <3>2, <3>3 DEF Ended
  <2>3. QED
    BY <2>1, <2>2
<1>4. ASSUME NEW c \in DOMAIN map'
      PROVE  Placed(map[c].at)' /\ Ended(map[c].windows)'
  <2>1. PICK at, win : at = map'[c].at /\ win = map'[c].windows
    OBVIOUS
  <2>2. Placed(at)' /\ Ended(win)'
    BY <1>2, <1>3, <2>1
  <2>3. QED
    BY <2>1, <2>2
<1>5. (SelfDecides <=>
        (map # None => \A c \in DOMAIN map :
           Placed(map[c].at) /\ Ended(map[c].windows)))'
  BY SelfDecidesIs, PTL
<1>6. QED
  BY <1>4, <1>5

LEMMA MapStays ==
  ASSUME Typed, Grows, SelfDecides, map' = map
  PROVE  SelfDecides'
<1>1. CASE map = None
  BY <1>1 DEF SelfDecides
<1>2. CASE map # None
  <2>1. \A c \in DOMAIN map' : Placed(map'[c].at) /\ Ended(map'[c].windows)
    BY <1>2, SelfDecidesIs
  <2>2. QED
    BY <1>2, <2>1, DecidedStays
<1>3. QED
  BY <1>1, <1>2

LEMMA WindowsDecided ==
  ASSUME Typed, Grows, SelfDecides, map # None, NEW k,
         NEW spans, Family(spans), \A i \in DOMAIN spans : spans[i] \in Driven,
         map' = [map EXCEPT ![k].windows = Derived(spans)]
  PROVE  SelfDecides'
<1>1. Ended(Derived(spans))
  BY EndsDriven
<1> DEFINE win == Derived(spans)
<1> HIDE DEF win
<1>2. \A c \in DOMAIN map : Placed(map[c].at) /\ Ended(map[c].windows)
  BY SelfDecidesIs
<1>3. ASSUME NEW c \in DOMAIN map' PROVE Placed(map'[c].at) /\ Ended(map'[c].windows)
  <2>1. c \in DOMAIN map /\ map[c] \in Corners
    BY DEF Typed
  <2>2. map'[c].at = map[c].at
        /\ (map'[c].windows = map[c].windows \/ map'[c].windows = win)
    BY <2>1 DEF Corners, win
  <2>3. QED
    BY <1>1, <1>2, <2>1, <2>2 DEF win
<1>4. map' # None
  BY DEF Grows
<1>5. QED
  BY <1>3, <1>4, DecidedStays

LEMMA OwnDriven ==
  ASSUME Typed, Observed, NEW c
  PROVE  \A o \in DOMAIN OwnSpans(c) : OwnSpans(c)[o] \in Driven
<1>1. TAKE o \in DOMAIN OwnSpans(c)
<1>2. /\ obs[o].lap \in DOMAIN laps /\ laps[obs[o].lap].role = "self"
      /\ obs[o].span \in DOMAIN laps[obs[o].lap].spans
      /\ OwnSpans(c)[o] = laps[obs[o].lap].spans[obs[o].span]
  BY OwnSpansAre
<1>3. QED
  BY <1>2, DrivenSpans

LEMMA CentreDecided ==
  ASSUME Typed, Observed, Grows, SelfDecides, map # None, NEW k, DOMAIN OwnSpans(k) # {},
         map' = [map EXCEPT ![k].at = ApexMedian(OwnSpans(k))]
  PROVE  SelfDecides'
<1> DEFINE spans == OwnSpans(k)
           at == ApexMedian(spans)
<1>1. Placed(at)
  <2>1. Family(spans)
    BY OwnSpansAre
  <2>2. PICK i, j \in DOMAIN spans : spans[i].apex <= at /\ at <= spans[j].apex
    <3> HIDE DEF spans
    <3>1. QED
      BY <2>1, ApexMedianBetween
  <2>3. spans[i] \in Driven /\ spans[j] \in Driven
    BY OwnDriven
  <2> HIDE DEF at, spans
  <2>4. QED
    BY <2>2, <2>3 DEF Placed
<1> HIDE DEF at
<1>2. \A c \in DOMAIN map : Placed(map[c].at) /\ Ended(map[c].windows)
  BY SelfDecidesIs
<1>3. ASSUME NEW c \in DOMAIN map' PROVE Placed(map'[c].at) /\ Ended(map'[c].windows)
  <2>1. c \in DOMAIN map /\ map[c] \in Corners
    BY DEF Typed
  <2>2. map'[c].windows = map[c].windows
        /\ (map'[c].at = map[c].at \/ map'[c].at = at)
    BY <2>1 DEF Corners, at
  <2>3. QED
    BY <1>1, <1>2, <2>1, <2>2
<1>4. map' # None
  BY DEF Grows
<1>5. QED
  BY <1>3, <1>4, DecidedStays

LEMMA BuiltDecided ==
  ASSUME Typed, Observed, Grows, NEW w \in Workers, Works(w), BuildMap(w), SelfDecides
  PROVE  SelfDecides'
<1> DEFINE l == job[w].lap
           spans == laps[l].spans
<1>1. job[w].pc = "build"
  BY DEF BuildMap, At
<1>2. l \in DOMAIN laps /\ (map = None => laps[l].role = "self")
  BY <1>1 DEF Works, Relies
<1>3. CASE map # None
  BY <1>3, MapStays DEF BuildMap
<1>4. CASE map = None
  <2>1. map' = Built(spans)
    BY <1>4 DEF BuildMap
  <2>2. spans \in Seq(Spans)
    BY <1>2, LapSpans
  <2>3. \A i \in DOMAIN spans : spans[i] \in Driven
    BY <1>2, <1>4, DrivenSpans
  <2> HIDE DEF spans
  <2>4. /\ Built(spans) \in Seq(Corners)
        /\ \A c \in DOMAIN Built(spans) :
             /\ Built(spans)[c].windows = None
             /\ \E i, j \in DOMAIN spans : spans[i].apex <= Built(spans)[c].at
                                           /\ Built(spans)[c].at <= spans[j].apex
    BY <2>2, BuiltTyped
  <2>5. \A c \in DOMAIN map' : Placed(map'[c].at) /\ Ended(map'[c].windows)
    BY <2>1, <2>3, <2>4 DEF Placed, Ended
  <2>6. map' # None
    BY <2>1, <2>4, CornerMapAssumption
  <2>7. QED
    BY <2>5, <2>6, DecidedStays
<1>5. QED
  BY <1>3, <1>4

LEMMA AdmittedDecided ==
  ASSUME Typed, Observed, Grows, NEW w \in Workers, Works(w), Admit(w), SelfDecides
  PROVE  SelfDecides'
<1>1. CASE Become(w, Idle) /\ UNCHANGED <<laps, raw, evicted, map, obs>>
  BY <1>1, MapStays
<1>2. CASE \E m \in Nat, t \in Seq(Nat \ {0}) : Admits(w, m, t)
  <2>1. PICK m \in Nat, t \in Seq(Nat \ {0}) : Admits(w, m, t)
    BY <1>2
  <2>2. map # None /\ map' # None /\ map' \in Seq(Corners)
        /\ DOMAIN map' = 1 .. Len(map') /\ DOMAIN map = 1 .. Size /\ Size \in Nat
    BY <2>1, SizeNat, LenProperties DEF Admits, Grows
  <2>3. ASSUME NEW o \in DOMAIN obs, Role(o) = "self"
        PROVE  SpanOf(o) \in Driven
    <3>1. obs[o].lap \in DOMAIN laps /\ obs[o].span \in DOMAIN laps[obs[o].lap].spans
          /\ laps[obs[o].lap].role = "self"
      BY <2>3 DEF Observed, Role
    <3>2. QED
      BY <3>1, DrivenSpans DEF SpanOf
  <2>4. ASSUME NEW c \in DOMAIN map' PROVE Placed(map'[c].at) /\ Ended(map'[c].windows)
    <3>1. CASE c \in DOMAIN map
      <4>1. map'[c] = map[c]
        BY <2>1, <2>2, <3>1 DEF Admits
      <4>2. QED
        BY <2>2, <3>1, <4>1, SelfDecidesIs
    <3>2. CASE c \notin DOMAIN map
      <4>1. c \in 1 .. Len(map') /\ c > Size
        BY <2>2, <3>2
      <4>2. map'[c].windows = None
        BY <2>1, <4>1 DEF Admits
      <4>3. PICK o, p \in DOMAIN obs : /\ Role(o) = "self" /\ Role(p) = "self"
                                       /\ ApexOf(o) <= map'[c].at
                                       /\ map'[c].at <= ApexOf(p)
        BY <2>1, <4>1 DEF Admits
      <4>4. SpanOf(o) \in Driven /\ SpanOf(p) \in Driven
        BY <2>3, <4>3
      <4>5. QED
        BY <4>2, <4>3, <4>4 DEF Placed, Ended, ApexOf
    <3>3. QED
      BY <3>1, <3>2
  <2>5. QED
    BY <2>2, <2>4, DecidedStays
<1>3. QED
  BY <1>1, <1>2, AdmitIs

LEMMA SelfDecidesKept ==
  ASSUME Typed, Observed, \A w \in Workers : Works(w), SelfDecides, Grows, Next
  PROVE  SelfDecides'
<1>1. ASSUME NEW w \in Workers, FreezeWindows(w) PROVE SelfDecides'
  <2> DEFINE l == job[w].lap
             spans == laps[l].spans
             k == job[w].k
             c == Match(job[w].seen, spans)[k]
  <2>1. job[w].pc = "freeze"
    BY <1>1 DEF FreezeWindows, At
  <2>2. l \in DOMAIN laps /\ laps[l].role = "self" /\ map # None /\ k \in Nat /\ k # 0
    BY <2>1, JobFields DEF Works, Relies
  <2>3. CASE map' = map
    BY <2>3, MapStays
  <2>4. CASE map' # map
    <3>1. map' = [map EXCEPT ![c].windows = Derived(<<spans[k]>>)] /\ ~(k > Len(spans))
      BY <1>1, <2>4 DEF FreezeWindows
    <3>2. spans \in Seq(Spans) /\ DOMAIN spans = 1 .. Len(spans) /\ Len(spans) \in Nat
      BY <2>2, LapSpans, LenProperties
    <3>3. k \in DOMAIN spans
      <4> HIDE DEF spans, k
      <4>1. QED
        BY <2>2, <3>1, <3>2
    <3>4. spans[k] \in Spans /\ spans[k] \in Driven
      BY <2>2, <3>2, <3>3, DrivenSpans
    <3>5. Family(<<spans[k]>>) /\ \A i \in DOMAIN <<spans[k]>> : <<spans[k]>>[i] \in Driven
      BY <3>4, OneSpan
    <3> DEFINE one == <<spans[k]>>
    <3> HIDE DEF one, c
    <3>6. Family(one) /\ (\A i \in DOMAIN one : one[i] \in Driven)
          /\ map' = [map EXCEPT ![c].windows = Derived(one)]
      BY <3>1, <3>5 DEF one
    <3>7. QED
      BY <2>2, <3>6, WindowsDecided
  <2>5. QED
    BY <2>3, <2>4
<1>2. ASSUME NEW w \in Workers, FreezeAdmitted(w) \/ Refreeze(w) PROVE SelfDecides'
  <2>1. CASE map' = map
    BY <2>1, MapStays
  <2>2. CASE map' # map
    <3>1. PICK c : map' = [map EXCEPT ![c].windows = Derived(OwnSpans(c))]
                   /\ Derived(OwnSpans(c)) # None
      BY <1>2, <2>2 DEF FreezeAdmitted, Refreeze
    <3>2. map # None
      BY <1>2 DEF FreezeAdmitted, Refreeze, At, Works, Relies
    <3> DEFINE spans == OwnSpans(c)
    <3>3. Family(spans) /\ \A i \in DOMAIN spans : spans[i] \in Driven
      BY <3>1, OwnSpansAre, OwnDriven
    <3>4. map' = [map EXCEPT ![c].windows = Derived(spans)]
      BY <3>1
    <3> HIDE DEF spans
    <3>5. QED
      BY <3>2, <3>3, <3>4, WindowsDecided
  <2>3. QED
    BY <2>1, <2>2
<1>3. ASSUME NEW w \in Workers, Recentre(w) PROVE SelfDecides'
  <2>1. map # None
    BY <1>3 DEF Recentre, At, Works, Relies
  <2>2. QED
    BY <1>3, <2>1, MapStays, CentreDecided DEF Recentre
<1>4. ASSUME NEW w \in Workers, Reclassify(w) PROVE SelfDecides'
  <2> DEFINE k == job[w].k
             v == Median([i \in DOMAIN OwnSpans(k) |-> OwnSpans(k)[i].speed])
  <2>1. map # None
    BY <1>4 DEF Reclassify, At, Works, Relies
  <2>2. map' = map \/ map' = [map EXCEPT ![k].class = Classified(v, @)]
    BY <1>4 DEF Reclassify
  <2> HIDE DEF v, k
  <2>3. CASE map' = map
    BY <2>3, MapStays
  <2>4. CASE map' = [map EXCEPT ![k].class = Classified(v, @)]
    <3>1. ASSUME NEW c \in DOMAIN map'
          PROVE  c \in DOMAIN map /\ map'[c].at = map[c].at
                 /\ map'[c].windows = map[c].windows
      <4>1. c \in DOMAIN map /\ map[c] \in Corners
        BY <2>1, <2>4 DEF Typed
      <4>2. QED
        BY <2>4, <4>1 DEF Corners
    <3>2. \A c \in DOMAIN map' : Placed(map'[c].at) /\ Ended(map'[c].windows)
      BY <2>1, <3>1, SelfDecidesIs
    <3>3. QED
      BY <2>1, <3>2, DecidedStays DEF Grows
  <2>5. QED
    BY <2>2, <2>3, <2>4
<1>5. ASSUME NEW w \in Workers, BuildMap(w) \/ Admit(w) PROVE SelfDecides'
  BY <1>5, BuiltDecided, AdmittedDecided
<1>6. ASSUME NEW w \in Workers,
             \/ \E l \in Laps : ImportLap(w, l)
             \/ \E allow \in BOOLEAN : Rebuild(w, allow)
             \/ LoadMap(w) \/ LoadWindows(w) \/ Observe(w) \/ Measure(w)
             \/ ReadCandidates(w) \/ ListObservations(w) \/ Remeasure(w)
             \/ NextCorner(w) \/ Finish(w) \/ Fail(w)
      PROVE  SelfDecides'
  <2>1. map' = map
    BY <1>6 DEF ImportLap, Rebuild, LoadMap, LoadWindows, Observe, Measure, ReadCandidates,
       ListObservations, Remeasure, NextCorner, Finish, Fail, store
  <2>2. QED
    BY <2>1, MapStays
<1>7. ASSUME NEW l \in raw, Evict(l) \/ Lose(l) PROVE SelfDecides'
  BY <1>7, MapStays DEF Evict, Lose
<1>8. QED
  BY <1>1, <1>2, <1>3, <1>4, <1>5, <1>6, <1>7 DEF Next, Step

-----------------------------------------------------------------------------
(* What a worker may conclude that nobody has overtaken.                   *)

LEMMA OwnStays ==
  ASSUME laps' = laps, DOMAIN obs' = DOMAIN obs,
         \A o \in DOMAIN obs : /\ obs'[o].lap = obs[o].lap /\ obs'[o].span = obs[o].span
                               /\ obs'[o].corner = obs[o].corner,
         NEW c
  PROVE  OwnSpans(c)' = OwnSpans(c) /\ Owned(c)' = Owned(c)
<1> DEFINE D == {p \in DOMAIN obs : obs[p].corner = c /\ laps[obs[p].lap].role = "self"}
<1>1. OwnSpans(c) = [o \in D |-> laps[obs[o].lap].spans[obs[o].span]]
  BY DEF OwnSpans, ObservationsOf, Role, SpanOf
<1>2. D' = D
  OBVIOUS
<1>3. OwnSpans(c)' = [o \in D' |-> laps'[obs'[o].lap].spans[obs'[o].span]]
  BY DEF OwnSpans, ObservationsOf, Role, SpanOf
<1>4. \A o \in D : laps'[obs'[o].lap].spans[obs'[o].span]
                     = laps[obs[o].lap].spans[obs[o].span]
  OBVIOUS
<1> HIDE DEF D
<1>5. OwnSpans(c)' = OwnSpans(c)
  BY <1>1, <1>2, <1>3, <1>4
<1>6. QED
  BY <1>5 DEF Owned

LEMMA OwnedIs ==
  ASSUME NEW c
  PROVE  Owned(c) <=> \E o \in DOMAIN obs : obs[o].corner = c
                                            /\ laps[obs[o].lap].role = "self"
<1>1. DOMAIN OwnSpans(c) = {p \in DOMAIN obs : obs[p].corner = c
                                               /\ laps[obs[p].lap].role = "self"}
  BY DEF OwnSpans, ObservationsOf, Role
<1>2. QED
  BY <1>1 DEF Owned

LEMMA MendedStays ==
  ASSUME NEW r, NEW j, Mended(j), UNCHANGED <<laps, obs>>, raw' \subseteq raw,
         \A o \in DOMAIN obs :
           obs[o].corner # 0 /\ Owned(obs[o].corner) /\ Due(r, o) =>
             Due(j, o) /\ map'[obs[o].corner].windows = map[obs[o].corner].windows
  PROVE  Mended(r)'
<1>1. ASSUME NEW o \in DOMAIN obs', obs'[o].corner # 0, Owned(obs[o].corner)', Due(r, o)'
      PROVE  Repaired(o)'
  <2>1. PICK c : c = obs[o].corner
    OBVIOUS
  <2>2. Owned(c)' = Owned(c)
    BY OwnStays
  <2>3. Due(r, o)
    BY <1>1 DEF Due
  <2>4. Due(j, o) /\ map'[c].windows = map[c].windows /\ Owned(c)
    BY <1>1, <2>1, <2>2, <2>3
  <2>5. Repaired(o)
    BY <1>1, <2>1, <2>4 DEF Mended
  <2>6. QED
    BY <2>1, <2>4, <2>5 DEF Repaired
<1>2. QED
  BY <1>1 DEF Mended

LEMMA BlankStays ==
  ASSUME NEW r, NEW j, Blank(j), UNCHANGED obs,
         r.pc \in {"admitted", "listed", "times"} =>
           /\ j.pc \in {"admitted", "listed", "times"}
           /\ \A o \in DOMAIN obs :
                Among(r.todo, obs[o].corner) /\ ~Due(r, o) =>
                  Among(j.todo, obs[o].corner) /\ ~Due(j, o)
  PROVE  Blank(r)'
<1>1. \A o : Due(r, o)' <=> Due(r, o)
  BY DEF Due
<1>2. Unmeasured' = Unmeasured
  BY DEF Unmeasured
<1>3. QED
  BY <1>1, <1>2 DEF Blank

LEMMA CurrentNat ==
  ASSUME Typed, NEW w \in Workers
  PROVE  /\ Current(job[w]) \in Nat
         /\ job[w].todo = << >> => Current(job[w]) = job[w].k
         /\ job[w].todo # << >> => /\ Current(job[w]) = job[w].todo[1]
                                   /\ 1 \in DOMAIN job[w].todo
<1>1. CASE job[w].todo = << >>
  BY <1>1, JobFields DEF Current
<1>2. CASE job[w].todo # << >>
  <2>1. job[w].todo \in Seq(Nat \ {0})
    BY JobFields
  <2>2. job[w].todo[1] \in Nat \ {0} /\ Len(job[w].todo) \in Nat /\ Len(job[w].todo) # 0
    BY <1>2, <2>1, TailOf
  <2>3. 1 \in DOMAIN job[w].todo
    BY <2>1, <2>2, LenProperties
  <2>4. QED
    BY <1>2, <2>2, <2>3 DEF Current
<1>3. QED
  BY <1>1, <1>2

\* The rest of an admission: what it has not measured yet but the corner in hand.
LEMMA RestOf ==
  ASSUME NEW t \in Seq(Nat \ {0}), t # << >>, Ascending(t)
  PROVE  /\ Ascending(Tail(t))
         /\ \A c : Among(Tail(t), c) <=> c # t[1] /\ Among(t, c)
<1> DEFINE s == Tail(t)
           n == Len(t)
<1>1. /\ s \in Seq(Nat \ {0}) /\ n \in Nat /\ n # 0 /\ Len(s) = n - 1
      /\ \A i \in 1 .. n - 1 : s[i] = t[i + 1]
  BY TailOf
<1>2. DOMAIN t = 1 .. n /\ DOMAIN s = 1 .. n - 1 /\ \A i \in 1 .. n : t[i] \in Nat
  <2> HIDE DEF s
  <2>1. QED
    BY <1>1, LenProperties
<1> HIDE DEF s, n
<1>3. \A i \in 1 .. n - 1 : i + 1 \in 1 .. n /\ 1 < i + 1
  BY <1>1
<1>4. \A i \in 1 .. n : i # 1 => i - 1 \in 1 .. n - 1 /\ i = (i - 1) + 1
  BY <1>1
<1>5. 1 \in 1 .. n
  BY <1>1
<1>6. ASSUME NEW a \in DOMAIN s, NEW b \in DOMAIN s, a < b PROVE s[a] < s[b]
  <2>1. a + 1 \in 1 .. n /\ b + 1 \in 1 .. n /\ a + 1 < b + 1
    BY <1>2, <1>3, <1>6
  <2>2. QED
    BY <1>1, <1>2, <2>1 DEF Ascending
<1>7. ASSUME NEW i \in DOMAIN s PROVE s[i] # t[1] /\ \E k \in DOMAIN t : s[i] = t[k]
  <2>1. PICK k \in 1 .. n : k = i + 1 /\ 1 < k
    BY <1>2, <1>3
  <2>2. s[i] = t[k] /\ t[1] < t[k] /\ t[1] \in Nat /\ t[k] \in Nat
    BY <1>1, <1>2, <1>5, <2>1 DEF Ascending
  <2>3. s[i] # t[1]
    BY <2>2
  <2>4. QED
    BY <1>2, <2>2, <2>3
<1>8. ASSUME NEW k \in DOMAIN t, t[k] # t[1] PROVE \E i \in DOMAIN s : t[k] = s[i]
  <2>1. k # 1
    BY <1>8
  <2>2. PICK i \in 1 .. n - 1 : k = i + 1
    BY <1>2, <1>4, <2>1
  <2>3. QED
    BY <1>1, <1>2, <2>2
<1>9. QED
  BY <1>6, <1>7, <1>8 DEF s, Ascending, Among

LEMMA RecentreTidy ==
  ASSUME Typed, Observed, NEW w \in Workers, Works(w), Tidy(job[w]), Recentre(w)
  PROVE  Tidy(job[w])'
<1> DEFINE j == job[w]
           k == job[w].k
<1>1. j.pc = "centroid" /\ UNCHANGED <<laps, raw, evicted, obs>>
  BY DEF Recentre, At
<1>2. map # None /\ j.todo = << >> /\ Len(j.seen) = Size /\ k \in Nat /\ j \in Jobs
      /\ Size \in Nat /\ Size = Len(map)
  BY <1>1, JobFields, SizeNat DEF Works, Relies, Tidy, Ready
<1>3. CASE k > Len(j.seen)
  <2>1. UNCHANGED map /\ Become(w, [j EXCEPT !.pc = "candidates"])
    BY <1>3 DEF Recentre, Goto
  <2>2. PICK r : r = job'[w]
    OBVIOUS
  <2>3. r.pc = "candidates" /\ r.todo = << >>
    BY <1>2, <2>1, <2>2 DEF Become, Typed, Jobs
  <2>4. Ready(r)'
    BY <2>3 DEF Ready, Ascending
  <2>5. ASSUME NEW o \in DOMAIN obs PROVE Due(j, o)
    <3>1. obs[o].corner \in Nat /\ obs[o].corner <= Size
      BY ObservationFields DEF Observed
    <3>2. Pending(j) = {c \in Nat : c >= k}
      BY <1>1, <1>2 DEF Pending
    <3>3. QED
      BY <1>2, <1>3, <3>1, <3>2 DEF Due
  <2>6. Mended(r)'
    BY <1>1, <2>1, <2>5, MendedStays DEF Tidy
  <2>7. Blank(r)'
    BY <2>3 DEF Blank
  <2>8. QED
    BY <2>2, <2>4, <2>6, <2>7 DEF Tidy
<1>4. CASE ~(k > Len(j.seen))
  <2>1. Become(w, [j EXCEPT !.pc = "refreeze"])
        /\ (map' = map \/ map' = [map EXCEPT ![k].at = ApexMedian(OwnSpans(k))])
    BY <1>4 DEF Recentre, Goto
  <2>2. PICK r : r = job'[w]
    OBVIOUS
  <2>3. r.pc = "refreeze" /\ r.todo = << >> /\ r.seen = j.seen /\ r.k = k
    BY <1>2, <2>1, <2>2 DEF Become, Typed, Jobs
  <2>4. Size' = Size
    <3>1. Kept(w)
      BY RecentreKeeps
    <3>2. map' # None /\ Len(map') = Len(map)
      <4>1. CASE map' = map
        BY <1>2, <4>1
      <4>2. CASE map' # map
        <5>1. map' = [map EXCEPT ![k].at = ApexMedian(OwnSpans(k))]
              /\ DOMAIN OwnSpans(k) # {}
          BY <1>4, <4>2 DEF Recentre
        <5>2. ApexMedian(OwnSpans(k)) \in Nat
          BY <5>1, OwnSpansAre, ApexMedianBetween
        <5>3. QED
          BY <1>2, <3>1, <5>1, <5>2, CentreSet DEF Kept, Grows
      <4>3. QED
        BY <4>1, <4>2
    <3>3. QED
      BY <1>2, <3>2 DEF Size
  <2>5. Ready(r)'
    BY <1>2, <2>3, <2>4 DEF Ready, Ascending
  <2>6. \A o : Due(r, o) <=> Due(j, o)
    BY <1>1, <1>2, <2>3 DEF Due, Pending
  <2>7. ASSUME NEW o \in DOMAIN obs, obs[o].corner # 0
        PROVE  map'[obs[o].corner].windows = map[obs[o].corner].windows
    <3>1. obs[o].corner \in Nat /\ obs[o].corner <= Size
      BY ObservationFields DEF Observed
    <3>2. obs[o].corner \in DOMAIN map
      BY <1>2, <2>7, <3>1, SizeNat
    <3>3. map[obs[o].corner] \in Corners
      BY <1>2, <3>2 DEF Typed
    <3>4. QED
      BY <2>1, <3>2, <3>3 DEF Corners
  <2>8. Mended(r)'
    BY <1>1, <2>6, <2>7, MendedStays DEF Tidy
  <2>9. Blank(r)'
    BY <2>3 DEF Blank
  <2>10. QED
    BY <2>2, <2>5, <2>8, <2>9 DEF Tidy
<1>5. QED
  BY <1>3, <1>4

LEMMA WindowsAt ==
  ASSUME Typed, map # None, NEW c, NEW win \in Windows,
         map' = [map EXCEPT ![c].windows = win]
  PROVE  /\ Size' = Size
         /\ c \in DOMAIN map => map'[c].windows = win
         /\ \A d \in DOMAIN map \ {c} : map'[d] = map[d]
<1>1. map' \in Seq(Corners) /\ Len(map') = Len(map)
  BY WindowsSet
<1>2. map' # None
  BY <1>1, CornerMapAssumption
<1>3. ASSUME c \in DOMAIN map PROVE map'[c].windows = win
  <2>1. map[c] \in Corners
    BY <1>3 DEF Typed
  <2>2. QED
    BY <1>3, <2>1 DEF Corners
<1>4. QED
  BY <1>1, <1>2, <1>3 DEF Size

\* What is not owned has no windows to derive, and what is has.
LEMMA DerivedIfOwned ==
  ASSUME Typed, Observed, NEW c
  PROVE  /\ Derived(OwnSpans(c)) = None <=> ~Owned(c)
         /\ Owned(c) => Derived(OwnSpans(c)) \in Windows
<1>1. CASE Owned(c)
  <2>1. Derived(OwnSpans(c)) \in Windows
    BY <1>1, OwnSpansAre, DerivedTyped DEF Owned
  <2>2. QED
    BY <1>1, <2>1, CornerMapAssumption
<1>2. CASE ~Owned(c)
  BY <1>2, OwnSpansAre DEF Owned
<1>3. QED
  BY <1>1, <1>2

LEMMA RefreezeTidy ==
  ASSUME Typed, Observed, NEW w \in Workers, Works(w), Tidy(job[w]), Refreeze(w)
  PROVE  Tidy(job[w])'
<1> DEFINE j == job[w]
           k == job[w].k
           win == Derived(OwnSpans(k))
<1>1. j.pc = "refreeze" /\ UNCHANGED <<laps, raw, evicted, obs>>
  BY DEF Refreeze, At
<1>2. map # None /\ j.todo = << >> /\ Len(j.seen) = Size /\ k \in Nat /\ j \in Jobs
      /\ Size \in Nat /\ DOMAIN map = 1 .. Size
  BY <1>1, JobFields, SizeNat DEF Works, Relies, Tidy, Ready
<1>3. Pending(j) = {c \in Nat : c >= k}
  BY <1>1, <1>2 DEF Pending
<1>4. PICK r : r = job'[w]
  OBVIOUS
<1>5. CASE win = None
  <2>1. UNCHANGED map /\ Become(w, [j EXCEPT !.pc = "centroid", !.k = k + 1])
    BY <1>5 DEF Refreeze
  <2>2. r.pc = "centroid" /\ r.todo = << >> /\ r.seen = j.seen /\ r.k = k + 1
    BY <1>2, <1>4, <2>1 DEF Become, Typed, Jobs
  <2>3. Size' = Size
    BY <2>1 DEF Size
  <2>4. Ready(r)'
    BY <1>2, <2>2, <2>3 DEF Ready, Ascending
  <2>5. ~Owned(k)
    BY <1>5, DerivedIfOwned
  <2>6. Pending(r) = {c \in Nat : c >= k + 1}
    BY <2>2 DEF Pending
  <2>7. ASSUME NEW o \in DOMAIN obs, Owned(obs[o].corner), Due(r, o)
        PROVE  Due(j, o)
    <3>1. obs[o].corner \in Nat /\ obs[o].corner # k
      BY <2>5, <2>7, ObservationFields
    <3>2. ~(obs[o].corner >= k + 1)
      BY <2>2, <2>6, <2>7, <3>1 DEF Due
    <3>3. ~(obs[o].corner >= k)
      BY <1>2, <3>1, <3>2
    <3>4. QED
      BY <1>3, <3>3 DEF Due
  <2>8. Mended(r)'
    BY <1>1, <2>1, <2>7, MendedStays DEF Tidy
  <2>9. Blank(r)'
    BY <2>2 DEF Blank
  <2>10. QED
    BY <1>4, <2>4, <2>8, <2>9 DEF Tidy
<1>6. CASE win # None
  <2>1. /\ Become(w, [j EXCEPT !.pc = "listed", !.wins = <<win>>])
        /\ map' = [map EXCEPT ![k].windows = win]
    BY <1>6 DEF Refreeze
  <2>2. win \in Windows
    BY <1>6, DerivedIfOwned
  <2> HIDE DEF win
  <2>3. r.pc = "listed" /\ r.todo = << >> /\ r.seen = j.seen /\ r.k = k
        /\ r.wins = <<win>> /\ r.wins[1] = win
    BY <1>2, <1>4, <2>1 DEF Become, Typed, Jobs
  <2>4. /\ Size' = Size /\ (k \in DOMAIN map => map'[k].windows = win)
        /\ \A d \in DOMAIN map \ {k} : map'[d] = map[d]
    <3> HIDE DEF k
    <3>1. QED
      BY <1>2, <2>1, <2>2, WindowsAt
  <2>5. k # 0
    BY <1>1 DEF Works, Relies
  <2>6. Ready(r)'
    <3>1. Current(r) = k /\ (k <= Size => k \in DOMAIN map)
      BY <1>2, <2>3, <2>5 DEF Current
    <3>2. Current(r)' = k
      BY <2>3 DEF Current
    <3>3. QED
      BY <1>2, <2>3, <2>4, <3>1, <3>2 DEF Ready, Ascending
  <2>7. Pending(r) = Pending(j)
    BY <1>3, <2>3 DEF Pending
  <2>8. ASSUME NEW o \in DOMAIN obs, obs[o].corner # 0, Due(r, o)
        PROVE  Due(j, o) /\ map'[obs[o].corner].windows = map[obs[o].corner].windows
    <3>1. obs[o].corner \in Nat /\ obs[o].corner <= Size
      BY ObservationFields DEF Observed
    <3>2. obs[o].corner \notin Pending(j)
      BY <2>3, <2>7, <2>8 DEF Due
    <3>3. obs[o].corner # k /\ obs[o].corner \in DOMAIN map
      BY <1>2, <1>3, <2>8, <3>1, <3>2
    <3>4. QED
      BY <2>4, <3>2, <3>3 DEF Due
  <2>9. Mended(r)'
    BY <1>1, <2>8, MendedStays DEF Tidy
  <2>10. Blank(r)'
    BY <2>3 DEF Blank, Among
  <2>11. QED
    BY <1>4, <2>6, <2>9, <2>10 DEF Tidy
<1>7. QED
  BY <1>5, <1>6

LEMMA ReadingTidy ==
  ASSUME Typed, Observed, NEW w \in Workers, Works(w), Tidy(job[w]), ReadCandidates(w)
  PROVE  Tidy(job[w])'
<1> DEFINE j == job[w]
<1>1. /\ j.pc = "candidates" /\ UNCHANGED <<laps, raw, evicted, map, obs>> /\ j \in Jobs
      /\ Become(w, [j EXCEPT !.pc = "admit", !.seen = Centres(map),
                             !.wins = << >>, !.k = 0, !.list = Candidates])
  BY JobFields DEF ReadCandidates, At, store
<1>2. PICK r : r = job'[w]
  OBVIOUS
<1>3. r.pc = "admit" /\ r.todo = j.todo
  BY <1>1, <1>2 DEF Become, Typed, Jobs
<1>4. Ready(r)'
  BY <1>3 DEF Ready, Tidy
<1>5. \A o : Due(j, o)
  BY <1>1 DEF Due, Pending
<1>6. Mended(r)'
  BY <1>1, <1>5, MendedStays DEF Tidy
<1>7. Blank(r)'
  BY <1>3 DEF Blank
<1>8. QED
  BY <1>2, <1>4, <1>6, <1>7 DEF Tidy

LEMMA ListingTidy ==
  ASSUME Typed, Observed, NEW w \in Workers, Works(w), Tidy(job[w]), ListObservations(w)
  PROVE  Tidy(job[w])'
<1> DEFINE j == job[w]
           rows == ObservationsOf(Current(j))
<1>1. j.pc = "listed" /\ UNCHANGED <<laps, raw, evicted, map, obs>> /\ j \in Jobs
  BY JobFields DEF ListObservations, At, store
<1>2. Become(w, [j EXCEPT !.pc = "times", !.list = rows])
  <2>1. CASE j.todo = << >>
    BY <2>1 DEF ListObservations, Current
  <2>2. CASE j.todo # << >>
    BY <2>2, JobFields, TailOf DEF ListObservations, Current
  <2>3. QED
    BY <2>1, <2>2
<1>3. PICK r : r = job'[w]
  OBVIOUS
<1>4. r.pc = "times" /\ r.todo = j.todo /\ r.k = j.k /\ r.seen = j.seen
      /\ r.wins = j.wins /\ r.list = rows
  BY <1>1, <1>2, <1>3 DEF Become, Typed, Jobs
<1>5. Size' = Size /\ Current(r) = Current(j) /\ Pending(r) = Pending(j)
  BY <1>1, <1>4 DEF Size, Current, Pending
<1>6. Ready(r)'
  <2>1. Current(r)' = Current(r)
    BY DEF Current
  <2>2. QED
    BY <1>1, <1>4, <1>5, <2>1 DEF Ready, Tidy
<1>7. \A o \in DOMAIN obs : Due(r, o) <=> Due(j, o)
  BY <1>1, <1>4, <1>5 DEF Due, ObservationsOf
<1>8. Mended(r)'
  BY <1>1, <1>7, MendedStays DEF Tidy
<1>9. Blank(r)'
  BY <1>1, <1>4, <1>7, BlankStays DEF Tidy
<1>10. QED
  BY <1>3, <1>6, <1>8, <1>9 DEF Tidy

LEMMA RemeasureTidy ==
  ASSUME Typed, Observed, NEW w \in Workers, Works(w), Tidy(job[w]), Remeasure(w)
  PROVE  Tidy(job[w])'
<1> DEFINE j == job[w]
           x == Least(j.list)
           t == Remeasured(j, x)
<1>1. /\ j.pc = "times" /\ UNCHANGED <<laps, raw, evicted, map>> /\ j \in Jobs
      /\ Become(w, [j EXCEPT !.list = @ \ {x}])
      /\ x \in j.list /\ x \in DOMAIN obs
      /\ obs[x].corner = Current(j) /\ obs[x].corner # 0
      /\ j.wins[1] \in Windows
      /\ t \in [Phases -> Times] /\ obs' = [obs EXCEPT ![x].times = t]
  BY JobFields, RemeasureIs
<1>2. PICK r : r = job'[w]
  OBVIOUS
<1>3. PICK o : o = x
  OBVIOUS
<1>4. PICK new : new = t
  OBVIOUS
<1> HIDE DEF x, t
<1>5. r.pc = "times" /\ r.todo = j.todo /\ r.k = j.k /\ r.seen = j.seen
      /\ r.wins = j.wins /\ r.list = j.list \ {o}
  BY <1>1, <1>2, <1>3 DEF Become, Typed, Jobs
<1>6. Size' = Size /\ Current(r) = Current(j) /\ Pending(r) = Pending(j)
  BY <1>1, <1>5 DEF Size, Current, Pending
<1>7. /\ DOMAIN obs' = DOMAIN obs /\ obs'[o].times = new /\ obs'[o].lap = obs[o].lap
      /\ \A p \in DOMAIN obs : p # o => obs'[p] = obs[p]
      /\ \A p \in DOMAIN obs : obs'[p].corner = obs[p].corner
                               /\ obs'[p].lap = obs[p].lap /\ obs'[p].span = obs[p].span
  <2>1. obs[o] \in Observations /\ o \in DOMAIN obs
    BY <1>1, <1>3 DEF Typed
  <2>2. obs'[o] = [obs[o] EXCEPT !.times = new]
    BY <1>1, <1>3, <1>4
  <2>3. obs'[o].times = new /\ obs'[o].lap = obs[o].lap
        /\ obs'[o].corner = obs[o].corner /\ obs'[o].span = obs[o].span
    BY <2>1, <2>2 DEF Observations
  <2>4. DOMAIN obs' = DOMAIN obs /\ \A p \in DOMAIN obs : p # o => obs'[p] = obs[p]
    BY <1>1, <1>3
  <2>5. QED
    BY <2>3, <2>4
<1>8. Ready(r)'
  <2>1. Current(r)' = Current(r)
    BY DEF Current
  <2>2. QED
    BY <1>1, <1>5, <1>6, <2>1 DEF Ready, Tidy
<1>9. ASSUME NEW p \in DOMAIN obs, p # o PROVE Due(r, p)' <=> Due(j, p)
  <2>1. Pending(r)' = Pending(r) /\ Current(r)' = Current(r)
    BY DEF Pending, Current
  <2>2. QED
    BY <1>1, <1>5, <1>6, <1>7, <1>9, <2>1 DEF Due
<1>10. Due(r, o)'
  <2>1. Current(r)' = Current(r)
    BY DEF Current
  <2>2. QED
    BY <1>1, <1>3, <1>5, <1>6, <1>7, <2>1 DEF Due
<1>11. Repaired(o)'
  <2>1. obs[o].corner \in DOMAIN map /\ map' = map
    <3>1. obs[o].corner \in Nat /\ obs[o].corner <= Size /\ obs[o].corner # 0
      BY <1>1, <1>3, ObservationFields DEF Observed
    <3>2. map # None
      BY <1>1 DEF Works, Relies
    <3>3. QED
      BY <1>1, <3>1, <3>2, SizeNat
  <2>2. map[obs[o].corner].windows = j.wins[1]
    <3>1. obs[o].corner = Current(j) /\ Current(j) <= Size
      BY <1>1, <1>3 DEF Observed
    <3>2. QED
      BY <1>1, <3>1 DEF Tidy, Ready
  <2>3. obs[o].times \in [Phases -> Times] /\ o \in DOMAIN obs
    BY <1>1, <1>3, ObservationFields
  <2>4. CASE obs[o].lap \in raw
    <3>1. new = Measured(obs[o].times, laps[obs[o].lap], j.wins[1])
      BY <1>3, <1>4, <2>4 DEF Remeasured, t
    <3>2. \A p \in Phases : Timed(laps[obs[o].lap], j.wins[1], p) =>
                              new[p] = Window(j.wins[1], p)
      BY <1>1, <2>3, <3>1, MeasuredIs
    <3>3. laps' = laps
      BY <1>1
    <3>4. QED
      BY <1>7, <2>1, <2>2, <2>3, <3>2, <3>3 DEF Repaired
  <2>5. CASE obs[o].lap \notin raw
    <3>1. new = Unmeasured
      <4>1. CASE j.todo = << >>
        BY <1>3, <1>4, <2>5, <4>1 DEF Remeasured, t
      <4>2. CASE j.todo # << >>
        <5>1. new = obs[o].times
          BY <1>3, <1>4, <2>5, <4>2 DEF Remeasured, t
        <5>2. Among(j.todo, obs[o].corner)
          BY <1>1, <1>3, <4>2, CurrentNat DEF Among
        <5>3. Pending(j) = {j.todo[i] : i \in DOMAIN j.todo}
          BY <1>1, <4>2 DEF Pending
        <5>4. ~Due(j, o)
          BY <1>1, <1>3, <5>2, <5>3 DEF Due, Among
        <5>5. QED
          BY <1>1, <2>3, <5>1, <5>2, <5>4 DEF Tidy, Blank
      <4>3. QED
        BY <4>1, <4>2
    <3>2. \A p \in Phases : new[p] = None
      BY <3>1, UnmeasuredTyped
    <3>3. QED
      BY <1>1, <1>7, <2>5, <3>2 DEF Repaired
  <2>6. QED
    BY <2>4, <2>5
<1>12. Mended(r)'
  <2>1. ASSUME NEW p \in DOMAIN obs', obs'[p].corner # 0, Owned(obs[p].corner)', Due(r, p)'
        PROVE  Repaired(p)'
    <3>1. CASE p = o
      BY <1>11, <3>1
    <3>2. CASE p # o
      <4>1. p \in DOMAIN obs /\ Due(j, p) /\ obs'[p] = obs[p]
        BY <1>7, <1>9, <2>1, <3>2
      <4>2. PICK c : c = obs[p].corner
        OBVIOUS
      <4>3. Owned(c)' = Owned(c)
        BY <1>1, <1>7, OwnStays
      <4>4. Repaired(p)
        BY <2>1, <4>1, <4>2, <4>3 DEF Tidy, Mended
      <4>5. map' = map /\ raw' = raw /\ laps' = laps /\ obs'[p].corner = c
            /\ obs'[p].times = obs[p].times /\ obs'[p].lap = obs[p].lap
        BY <1>1, <4>1, <4>2
      <4>6. QED
        BY <4>2, <4>4, <4>5 DEF Repaired
    <3>3. QED
      BY <3>1, <3>2
  <2>2. QED
    BY <2>1 DEF Mended
<1>13. Blank(r)'
  <2>1. Unmeasured' = Unmeasured
    BY DEF Unmeasured
  <2>2. ASSUME NEW p \in DOMAIN obs', Among(r.todo, obs'[p].corner),
               ~Due(r, p)'
        PROVE  obs'[p].times = Unmeasured
    <3>1. p \in DOMAIN obs /\ p # o
      BY <1>7, <1>10, <2>2
    <3>2. obs'[p] = obs[p] /\ ~Due(j, p)
      BY <1>7, <1>9, <2>2, <3>1
    <3>3. QED
      BY <1>1, <1>5, <2>2, <3>1, <3>2 DEF Tidy, Blank
  <2>3. QED
    BY <2>1, <2>2 DEF Blank
<1>14. QED
  BY <1>2, <1>8, <1>12, <1>13 DEF Tidy

LEMMA NextCornerTidy ==
  ASSUME Typed, Observed, NEW w \in Workers, Works(w), Tidy(job[w]), NextCorner(w)
  PROVE  Tidy(job[w])'
<1> DEFINE j == job[w]
           k == job[w].k
<1>1. j.pc = "times" /\ UNCHANGED <<laps, raw, evicted, map, obs>> /\ j.list = {}
      /\ j \in Jobs /\ k \in Nat
  BY JobFields DEF NextCorner, At, store
<1>2. PICK r : r = job'[w]
  OBVIOUS
<1>3. CASE j.todo = << >>
  <2>1. Become(w, [j EXCEPT !.pc = "centroid", !.k = @ + 1])
    BY <1>3 DEF NextCorner
  <2>2. r.pc = "centroid" /\ r.todo = << >> /\ r.seen = j.seen /\ r.k = k + 1
    BY <1>1, <1>2, <1>3, <2>1 DEF Become, Typed, Jobs
  <2>3. Size' = Size /\ Len(j.seen) = Size
    BY <1>1, <1>3 DEF Size, Tidy, Ready
  <2>4. Ready(r)'
    BY <2>2, <2>3 DEF Ready, Ascending
  <2>5. Pending(j) = {c \in Nat : c >= k} /\ Pending(r) = {c \in Nat : c >= k + 1}
        /\ Current(j) = k
    BY <1>1, <1>3, <2>2 DEF Pending, Current
  <2>6. ASSUME NEW o \in DOMAIN obs, Due(r, o) PROVE Due(j, o)
    <3>1. obs[o].corner \in Nat
      BY ObservationFields
    <3>2. CASE obs[o].corner = k
      BY <1>1, <2>5, <3>2 DEF Due
    <3>3. CASE obs[o].corner # k
      <4>1. ~(obs[o].corner >= k + 1)
        BY <2>2, <2>5, <2>6, <3>1 DEF Due
      <4>2. ~(obs[o].corner >= k)
        BY <1>1, <3>1, <3>3, <4>1
      <4>3. QED
        BY <2>5, <4>2 DEF Due
    <3>4. QED
      BY <3>2, <3>3
  <2>7. Mended(r)'
    BY <1>1, <2>6, MendedStays DEF Tidy
  <2>8. Blank(r)'
    BY <2>2 DEF Blank
  <2>9. QED
    BY <1>2, <2>4, <2>7, <2>8 DEF Tidy
<1>4. CASE j.todo # << >>
  <2>1. Become(w, [j EXCEPT !.pc = "admitted", !.todo = Tail(@)])
    BY <1>4 DEF NextCorner
  <2>2. r.pc = "admitted" /\ r.todo = Tail(j.todo)
    BY <1>1, <1>2, <2>1 DEF Become, Typed, Jobs
  <2>3. /\ Ascending(r.todo)
        /\ \A c : Among(r.todo, c) <=> c # j.todo[1] /\ Among(j.todo, c)
    <3>1. j.todo \in Seq(Nat \ {0}) /\ Ascending(j.todo)
      BY JobFields DEF Tidy, Ready
    <3>2. QED
      BY <1>4, <2>2, <3>1, RestOf
  <2>4. /\ \A c : c \in Pending(j) <=> Among(j.todo, c)
        /\ \A c : c \in Pending(r) <=> Among(r.todo, c)
        /\ Current(j) = j.todo[1]
    BY <1>1, <1>4, <2>2 DEF Pending, Current, Among
  <2>5. Ready(r)'
    BY <2>2, <2>3 DEF Ready
  <2>6. ASSUME NEW o \in DOMAIN obs, Due(r, o) PROVE Due(j, o)
    <3>1. CASE obs[o].corner = j.todo[1]
      BY <1>1, <2>4, <3>1 DEF Due
    <3>2. CASE obs[o].corner # j.todo[1]
      BY <2>2, <2>3, <2>4, <2>6, <3>2 DEF Due
    <3>3. QED
      BY <3>1, <3>2
  <2>7. Mended(r)'
    BY <1>1, <2>6, MendedStays DEF Tidy
  <2>8. ASSUME NEW o \in DOMAIN obs, Among(r.todo, obs[o].corner)
        PROVE  Among(j.todo, obs[o].corner) /\ ~Due(j, o)
    BY <2>3, <2>4, <2>8 DEF Due
  <2>9. Blank(r)'
    BY <1>1, <2>8, BlankStays DEF Tidy
  <2>10. QED
    BY <1>2, <2>5, <2>7, <2>9 DEF Tidy
<1>5. QED
  BY <1>3, <1>4

LEMMA AdmitTidy ==
  ASSUME Typed, Observed, NEW w \in Workers, Works(w), Tidy(job[w]), Admit(w),
         job'[w].pc # "idle"
  PROVE  Tidy(job[w])'
<1> DEFINE j == job[w]
           n == Len(job[w].seen)
<1>1. PICK m \in Nat, t \in Seq(Nat \ {0}) : Admits(w, m, t)
  <2>1. ~Become(w, Idle)
    BY DEF Become, Typed, Idle
  <2>2. QED
    BY <2>1, AdmitIs
<1>2. /\ j.pc = "admit" /\ UNCHANGED <<laps, raw, evicted>> /\ j \in Jobs /\ n \in Nat
      /\ Become(w, [j EXCEPT !.pc = "admitted", !.list = {}, !.todo = t])
      /\ map # None /\ (m # 0 => n = Size) /\ Size \in Nat /\ DOMAIN map = 1 .. Size
      /\ Len(t) = m /\ DOMAIN t = 1 .. m /\ \A i \in 1 .. m : t[i] = n + i
      /\ DOMAIN obs' = DOMAIN obs
  BY <1>1, JobFields, SizeNat, LenProperties DEF Admits
<1>3. PICK r : r = job'[w]
  OBVIOUS
<1>4. r.pc = "admitted" /\ r.todo = t
  BY <1>2, <1>3 DEF Become, Typed, Jobs
<1>5. Ascending(t)
  <2>1. ASSUME NEW a \in 1 .. m, NEW b \in 1 .. m, a < b PROVE t[a] < t[b]
    <3>1. t[a] = n + a /\ t[b] = n + b
      BY <1>2
    <3>2. n + a < n + b
      BY <1>2, <2>1
    <3>3. QED
      BY <3>1, <3>2
  <2>2. QED
    BY <1>2, <2>1 DEF Ascending
<1>6. Ready(r)'
  BY <1>4, <1>5 DEF Ready
<1>7. ASSUME NEW o \in DOMAIN obs
      PROVE  /\ obs[o].corner \in Nat /\ obs[o].corner <= Size
             /\ obs'[o].lap = obs[o].lap /\ obs'[o].span = obs[o].span
             /\ obs'[o].times = obs[o].times
             /\ \/ obs'[o].corner = obs[o].corner
                \/ /\ obs[o].corner = 0 /\ obs'[o].corner > Size
                   /\ Among(t, obs'[o].corner)
  <2>1. obs[o].corner \in Nat /\ obs[o].corner <= Size
    BY ObservationFields DEF Observed
  <2>2. /\ obs'[o].lap = obs[o].lap /\ obs'[o].span = obs[o].span
        /\ obs'[o].times = obs[o].times
        /\ obs'[o].corner # obs[o].corner =>
             /\ obs[o].corner = 0 /\ m # 0
             /\ obs'[o].corner > Size /\ obs'[o].corner <= Size + m
    BY <1>1 DEF Admits
  <2>3. obs'[o].corner \in Nat
    <3>1. obs' \in Seq(Observations) /\ o \in DOMAIN obs'
      BY <1>1, <1>2 DEF Admits
    <3>2. obs'[o] \in Observations
      BY <3>1
    <3>3. QED
      BY <3>2 DEF Observations
  <2>4. ASSUME obs'[o].corner # obs[o].corner PROVE Among(t, obs'[o].corner)
    <3>1. PICK i \in 1 .. m : i = obs'[o].corner - Size
      BY <1>2, <2>2, <2>3, <2>4
    <3>2. obs'[o].corner = n + i
      BY <1>2, <2>2, <2>3, <2>4, <3>1
    <3>3. QED
      BY <1>2, <3>2 DEF Among
  <2>5. QED
    BY <2>1, <2>2, <2>4
<1>8. \A c : c \in Pending(r)' <=> Among(t, c)
  BY <1>4 DEF Pending, Among
<1>9. Mended(r)'
  <2>1. ASSUME NEW o \in DOMAIN obs', obs'[o].corner # 0, Owned(obs[o].corner)', Due(r, o)'
        PROVE  Repaired(o)'
    <3>1. o \in DOMAIN obs /\ ~Among(t, obs'[o].corner)
      BY <1>2, <1>4, <1>8, <2>1 DEF Due
    <3>2. PICK c : c = obs[o].corner
      OBVIOUS
    <3>3. obs'[o].corner = c /\ c \in Nat /\ c # 0 /\ c <= Size
      BY <1>7, <2>1, <3>1, <3>2
    <3>4. map'[c] = map[c]
      BY <1>1, <3>3 DEF Admits
    <3>5. Owned(c)
      <4>1. Owned(c)'
        BY <2>1, <3>3
      <4>2. PICK p \in DOMAIN obs' : obs'[p].corner = c /\ laps'[obs'[p].lap].role = "self"
        <5>1. (DOMAIN OwnSpans(c))' = {p \in DOMAIN obs' : obs'[p].corner = c
                                        /\ laps'[obs'[p].lap].role = "self"}
          BY DEF OwnSpans, ObservationsOf, Role
        <5>2. QED
          BY <4>1, <5>1 DEF Owned
      <4>3. p \in DOMAIN obs /\ obs[p].corner = c /\ laps[obs[p].lap].role = "self"
        BY <1>2, <1>7, <3>3, <4>2
      <4>4. QED
        BY <4>3, OwnedIs
    <3>6. Due(j, o)
      BY <1>2 DEF Due, Pending
    <3>7. Repaired(o)
      BY <3>1, <3>2, <3>3, <3>5, <3>6 DEF Tidy, Mended
    <3>8. obs'[o].times = obs[o].times /\ obs'[o].lap = obs[o].lap
          /\ raw' = raw /\ laps' = laps
      BY <1>2, <1>7, <3>1
    <3>9. QED
      BY <3>2, <3>3, <3>4, <3>7, <3>8 DEF Repaired
  <2>2. QED
    BY <2>1 DEF Mended
<1>10. Blank(r)'
  <2>1. Unmeasured' = Unmeasured
    BY DEF Unmeasured
  <2>2. ASSUME NEW o \in DOMAIN obs', Among(t, obs'[o].corner)
        PROVE  obs'[o].times = Unmeasured
    <3>1. PICK i \in 1 .. m : obs'[o].corner = n + i
      BY <1>2, <2>2 DEF Among
    <3>2. m # 0 /\ n = Size /\ obs'[o].corner > Size
      BY <1>2, <3>1
    <3>3. o \in DOMAIN obs /\ obs[o].corner = 0
      BY <1>2, <1>7, <3>2
    <3>4. QED
      BY <1>7, <3>3 DEF Observed
  <2>3. QED
    BY <1>4, <2>1, <2>2 DEF Blank
<1>11. QED
  BY <1>3, <1>6, <1>9, <1>10 DEF Tidy

LEMMA FreezeAdmittedTidy ==
  ASSUME Typed, Observed, NEW w \in Workers, Works(w), Tidy(job[w]), FreezeAdmitted(w)
  PROVE  Tidy(job[w])'
<1> DEFINE j == job[w]
           c == Head(job[w].todo)
           win == Derived(OwnSpans(c))
<1>1. j.pc = "admitted" /\ UNCHANGED <<laps, raw, evicted, obs>> /\ j \in Jobs
  BY JobFields DEF FreezeAdmitted, At
<1>2. map # None /\ Size \in Nat /\ DOMAIN map = 1 .. Size
  BY <1>1, SizeNat DEF Works, Relies
<1>3. PICK r : r = job'[w]
  OBVIOUS
<1>4. \A d : d \in Pending(j) <=> Among(j.todo, d)
  BY <1>1 DEF Pending, Among
<1>5. CASE j.todo = << >>
  <2>1. UNCHANGED map /\ Become(w, [j EXCEPT !.pc = "classify", !.k = 1,
                                      !.seen = Centres(map), !.wins = << >>])
    BY <1>5 DEF FreezeAdmitted
  <2>2. r.pc = "classify" /\ r.todo = << >>
    BY <1>1, <1>3, <1>5, <2>1 DEF Become, Typed, Jobs
  <2>3. Ready(r)'
    BY <2>2 DEF Ready, Ascending
  <2>4. \A o \in DOMAIN obs : Due(j, o)
    BY <1>4, <1>5 DEF Due, Among
  <2>5. Mended(r)'
    BY <1>1, <2>1, <2>4, MendedStays DEF Tidy
  <2>6. Blank(r)'
    BY <2>2 DEF Blank
  <2>7. QED
    BY <1>3, <2>3, <2>5, <2>6 DEF Tidy
<1>6. CASE j.todo # << >> /\ win = None
  <2>1. Become(w, [j EXCEPT !.todo = Tail(@)]) /\ UNCHANGED map
    BY <1>6 DEF FreezeAdmitted
  <2>2. r.pc = "admitted" /\ r.todo = Tail(j.todo)
    BY <1>1, <1>3, <2>1 DEF Become, Typed, Jobs
  <2>3. /\ Ascending(r.todo) /\ c = j.todo[1]
        /\ \A d : Among(r.todo, d) <=> d # c /\ Among(j.todo, d)
    <3>1. j.todo \in Seq(Nat \ {0}) /\ Ascending(j.todo)
      BY JobFields DEF Tidy, Ready
    <3>2. c = j.todo[1]
      BY <1>6, <3>1, TailOf
    <3>3. QED
      BY <1>6, <2>2, <3>1, <3>2, RestOf
  <2>4. \A d : d \in Pending(r) <=> Among(r.todo, d)
    BY <2>2 DEF Pending, Among
  <2>5. ~Owned(c)
    BY <1>6, DerivedIfOwned
  <2>6. Ready(r)'
    BY <2>2, <2>3 DEF Ready
  <2>7. ASSUME NEW o \in DOMAIN obs, Owned(obs[o].corner), Due(r, o) PROVE Due(j, o)
    BY <1>4, <2>2, <2>3, <2>4, <2>5, <2>7 DEF Due
  <2>8. Mended(r)'
    BY <1>1, <2>1, <2>7, MendedStays DEF Tidy
  <2>9. ASSUME NEW o \in DOMAIN obs, Among(r.todo, obs[o].corner)
        PROVE  Among(j.todo, obs[o].corner) /\ ~Due(j, o)
    BY <1>1, <1>4, <2>3, <2>9 DEF Due
  <2>10. Blank(r)'
    BY <1>1, <2>9, BlankStays DEF Tidy
  <2>11. QED
    BY <1>3, <2>6, <2>8, <2>10 DEF Tidy
<1>7. CASE j.todo # << >> /\ win # None
  <2>1. /\ Become(w, [j EXCEPT !.pc = "listed", !.wins = <<win>>])
        /\ map' = [map EXCEPT ![c].windows = win]
    BY <1>7 DEF FreezeAdmitted
  <2>2. win \in Windows
    BY <1>7, DerivedIfOwned
  <2> HIDE DEF win
  <2>3. r.pc = "listed" /\ r.todo = j.todo /\ r.wins = <<win>> /\ r.wins[1] = win
    BY <1>1, <1>3, <2>1 DEF Become, Typed, Jobs
  <2>4. c = j.todo[1] /\ c \in Nat \ {0} /\ Among(j.todo, c)
    <3>1. j.todo \in Seq(Nat \ {0})
      BY JobFields
    <3>2. c = j.todo[1] /\ c \in Nat \ {0}
      BY <1>7, <3>1, TailOf
    <3>3. QED
      BY <1>7, <3>2, CurrentNat DEF Among
  <2> HIDE DEF c
  <2>5. /\ Size' = Size /\ (c \in DOMAIN map => map'[c].windows = win)
        /\ \A d \in DOMAIN map \ {c} : map'[d] = map[d]
    BY <1>2, <2>1, <2>2, WindowsAt
  <2>6. Ready(r)'
    <3>1. Current(r) = c /\ (c <= Size => c \in DOMAIN map)
      BY <1>2, <1>7, <2>3, <2>4 DEF Current
    <3>2. Current(r)' = Current(r)
      BY DEF Current
    <3>3. Ascending(r.todo) /\ r.todo # << >>
      BY <1>7, <2>3 DEF Tidy, Ready
    <3>4. QED
      BY <2>3, <2>5, <3>1, <3>2, <3>3 DEF Ready
  <2>7. Pending(r) = Pending(j)
    BY <1>1, <1>7, <2>3 DEF Pending
  <2>8. ASSUME NEW o \in DOMAIN obs, obs[o].corner # 0, Due(r, o)
        PROVE  Due(j, o) /\ map'[obs[o].corner].windows = map[obs[o].corner].windows
    <3>1. obs[o].corner \in Nat /\ obs[o].corner <= Size
      BY ObservationFields DEF Observed
    <3>2. obs[o].corner \notin Pending(j)
      BY <2>3, <2>7, <2>8 DEF Due
    <3>3. obs[o].corner # c /\ obs[o].corner \in DOMAIN map
      BY <1>2, <1>4, <2>4, <2>8, <3>1, <3>2
    <3>4. QED
      BY <2>5, <3>2, <3>3 DEF Due
  <2>9. Mended(r)'
    BY <1>1, <2>8, MendedStays DEF Tidy
  <2>10. \A o \in DOMAIN obs : Due(j, o) => Due(r, o)
    BY <1>1, <2>7 DEF Due
  <2>11. Blank(r)'
    BY <1>1, <2>3, <2>10, BlankStays DEF Tidy
  <2>12. QED
    BY <1>3, <2>6, <2>9, <2>11 DEF Tidy
<1>8. QED
  BY <1>5, <1>6, <1>7

\* What a class is given does not touch the windows.
LEMMA ClassAt ==
  ASSUME Typed, map # None, NEW k, NEW v \in Nat,
         map' = [map EXCEPT ![k].class = Classified(v, @)]
  PROVE  /\ Size' = Size /\ DOMAIN map' = DOMAIN map
         /\ \A c \in DOMAIN map : map'[c].windows = map[c].windows
         /\ \A c \in DOMAIN map \ {k} : map'[c] = map[c]
         /\ k \in DOMAIN map => WithinMargin(v, map'[k].class)
<1>1. map' \in Seq(Corners) /\ Len(map') = Len(map)
  BY ClassSet
<1>2. map' # None
  BY <1>1, CornerMapAssumption
<1>3. ASSUME NEW c \in DOMAIN map
      PROVE  /\ map'[c].windows = map[c].windows
             /\ c = k => map'[c].class = Classified(v, map[c].class)
  <2>1. map[c] \in Corners
    BY DEF Typed
  <2>2. QED
    BY <2>1 DEF Corners
<1>4. WithinMargin(v, Classified(v, map[k].class))
  BY ClassifiedIs
<1>5. QED
  BY <1>1, <1>2, <1>3, <1>4 DEF Size

LEMMA ReclassifyTidy ==
  ASSUME Typed, Observed, NEW w \in Workers, Works(w), Reclassify(w)
  PROVE  /\ Tidy(job[w]) => Tidy(job[w])'
         /\ Fits(job[w]) => Fits(job[w])'
<1> DEFINE j == job[w]
           k == job[w].k
           v == Median([i \in DOMAIN OwnSpans(k) |-> OwnSpans(k)[i].speed])
<1>1. j.pc = "classify" /\ UNCHANGED <<laps, raw, evicted, obs>> /\ j \in Jobs
      /\ Become(w, [j EXCEPT !.k = k + 1]) /\ k \in Nat
  BY JobFields DEF Reclassify, At
<1>2. map # None /\ Size \in Nat /\ DOMAIN map = 1 .. Size
  BY <1>1, SizeNat DEF Works, Relies
<1>3. map' = IF Owned(k) THEN [map EXCEPT ![k].class = Classified(v, @)] ELSE map
  BY DEF Reclassify, Owned
<1>4. Owned(k) => v \in Nat
  BY OwnSpansAre, SpeedMedian DEF Owned
<1> HIDE DEF v
<1>5. /\ Size' = Size /\ DOMAIN map' = DOMAIN map
      /\ \A c \in DOMAIN map : map'[c].windows = map[c].windows
      /\ \A c \in DOMAIN map \ {k} : map'[c] = map[c]
      /\ Owned(k) /\ k \in DOMAIN map => WithinMargin(v, map'[k].class)
  <2>1. CASE Owned(k)
    <3> HIDE DEF k
    <3>1. QED
      BY <1>2, <1>3, <1>4, <2>1, ClassAt
  <2>2. CASE ~Owned(k)
    BY <1>3, <2>2 DEF Size
  <2>3. QED
    BY <2>1, <2>2
<1>6. PICK r : r = job'[w]
  OBVIOUS
<1>7. r.pc = "classify" /\ r.todo = j.todo /\ r.seen = j.seen /\ r.k = k + 1
  BY <1>1, <1>6 DEF Become, Typed, Jobs
<1>8. ASSUME Tidy(j) PROVE Tidy(r)'
  <2>1. Ready(r)'
    BY <1>7, <1>8 DEF Tidy, Ready
  <2>2. \A o : Due(j, o)
    BY <1>1 DEF Due, Pending
  <2>3. ASSUME NEW o \in DOMAIN obs, obs[o].corner # 0
        PROVE  map'[obs[o].corner].windows = map[obs[o].corner].windows
    <3>1. obs[o].corner \in Nat /\ obs[o].corner <= Size
      BY ObservationFields DEF Observed
    <3>2. obs[o].corner \in DOMAIN map
      BY <1>2, <2>3, <3>1
    <3>3. QED
      BY <1>5, <3>2
  <2>4. Mended(r)'
    BY <1>1, <1>8, <2>2, <2>3, MendedStays DEF Tidy
  <2>5. Blank(r)'
    BY <1>7 DEF Blank
  <2>6. QED
    BY <2>1, <2>4, <2>5 DEF Tidy
<1>9. ASSUME Fits(j) PROVE Fits(r)'
  <2>1. Len(r.seen) = Size'
    BY <1>1, <1>5, <1>7, <1>9 DEF Fits
  <2>2. ASSUME NEW c \in DOMAIN map', c < k + 1, Owned(c)' PROVE ClassFits(c)'
    <3>1. OwnSpans(c)' = OwnSpans(c) /\ Owned(c)
      BY <1>1, <2>2, OwnStays
    <3>2. c \in DOMAIN map /\ c \in Nat
      BY <1>2, <1>5
    <3>3. CASE c = k
      <4>1. v = Median([i \in DOMAIN OwnSpans(c) |-> OwnSpans(c)[i].speed])
        BY <3>3 DEF v
      <4>2. WithinMargin(v, map'[c].class)
        BY <1>5, <3>1, <3>2, <3>3
      <4>3. WithinMargin(Median([i \in DOMAIN OwnSpans(c) |-> OwnSpans(c)[i].speed]),
                         map'[c].class)
        BY <4>1, <4>2
      <4>4. QED
        BY <3>1, <4>3 DEF ClassFits
    <3>4. CASE c # k
      <4>1. c < k /\ map'[c] = map[c]
        BY <1>1, <1>5, <2>2, <3>2, <3>4
      <4>2. ClassFits(c)
        BY <1>1, <1>9, <3>1, <3>2, <4>1 DEF Fits
      <4>3. QED
        BY <3>1, <4>1, <4>2 DEF ClassFits
    <3>5. QED
      BY <3>3, <3>4
  <2>3. QED
    BY <1>7, <2>1, <2>2 DEF Fits
<1>10. QED
  BY <1>6, <1>8, <1>9

LEMMA SoloStays ==
  ASSUME Typed, NEW w \in Workers, Step(w) \/ Fail(w), job'[w].pc # "idle"
  PROVE  /\ job[w].pc # "idle" /\ job'[w].solo = job[w].solo /\ job'[w].op = job[w].op
         /\ job'[w].pc = "classify" => FreezeAdmitted(w) \/ Reclassify(w)
<1> DEFINE j == job[w]
<1>1. j \in Jobs /\ \A j2 : Become(w, j2) => job'[w] = j2
  BY DEF Typed, Become
<1>2. ~Become(w, Idle)
  BY <1>1 DEF Idle
<1>3. CASE LoadMap(w)
  BY <1>1, <1>3 DEF LoadMap, At, Goto, Jobs
<1>4. CASE BuildMap(w)
  <2>1. PICK s : s = Centres(Built(laps[j.lap].spans))
    OBVIOUS
  <2>2. job'[w] = [j EXCEPT !.pc = "freeze", !.k = 1, !.seen = s] /\ j.pc = "build"
    BY <1>1, <1>2, <1>4, <2>1 DEF BuildMap, At
  <2>3. QED
    BY <1>1, <2>2 DEF Jobs
<1>5. CASE FreezeWindows(w)
  <2>1. /\ j.pc = "freeze"
        /\ \/ job'[w] = [j EXCEPT !.pc = "windows"]
           \/ \E k : job'[w] = [j EXCEPT !.k = k]
    BY <1>1, <1>5 DEF FreezeWindows, At, Goto
  <2>2. QED
    BY <1>1, <2>1 DEF Jobs
<1>6. CASE LoadWindows(w)
  BY <1>1, <1>6 DEF LoadWindows, At, Jobs
<1>7. CASE Observe(w)
  <2>1. /\ j.pc = "observe"
        /\ \/ job'[w] = [j EXCEPT !.pc = "candidates"]
           \/ \E rows : job'[w] = [j EXCEPT !.pc = "measure", !.list = rows]
    BY <1>1, <1>7 DEF Observe, At, Goto
  <2>2. QED
    BY <1>1, <2>1 DEF Jobs
<1>8. CASE Measure(w)
  <2>1. j.pc = "measure"
        /\ job'[w] = [j EXCEPT !.pc = "observe", !.k = @ + 1, !.list = {}]
    BY <1>1, <1>8 DEF Measure, At
  <2>2. QED
    BY <1>1, <2>1 DEF Jobs
<1>9. CASE ReadCandidates(w)
  BY <1>1, <1>9 DEF ReadCandidates, At, Jobs
<1>10. CASE Admit(w)
  <2>1. PICK t : t = [i \in DOMAIN NewCorners(j.list) |-> Len(j.seen) + i]
    OBVIOUS
  <2>2. j.pc = "admit"
        /\ job'[w] = [j EXCEPT !.pc = "admitted", !.list = {}, !.todo = t]
    BY <1>1, <1>2, <1>10, <2>1 DEF Admit, At
  <2>3. QED
    BY <1>1, <2>2 DEF Jobs
<1>11. CASE FreezeAdmitted(w)
  <2>1. j.pc = "admitted"
        /\ \/ job'[w] = [j EXCEPT !.pc = "classify", !.k = 1,
                                  !.seen = Centres(map), !.wins = << >>]
           \/ job'[w] = [j EXCEPT !.todo = Tail(@)]
           \/ \E win : job'[w] = [j EXCEPT !.pc = "listed", !.wins = <<win>>]
    BY <1>1, <1>11 DEF FreezeAdmitted, At
  <2>2. QED
    BY <1>1, <1>11, <2>1 DEF Jobs
<1>12. CASE ListObservations(w)
  <2>1. j.pc = "listed" /\ \E rows : job'[w] = [j EXCEPT !.pc = "times", !.list = rows]
    BY <1>1, <1>12 DEF ListObservations, At
  <2>2. QED
    BY <1>1, <2>1 DEF Jobs
<1>13. CASE Remeasure(w)
  <2>1. j.pc = "times" /\ \E o : job'[w] = [j EXCEPT !.list = @ \ {o}]
    BY <1>1, <1>13 DEF Remeasure, At
  <2>2. QED
    BY <1>1, <2>1 DEF Jobs
<1>14. CASE NextCorner(w)
  <2>1. /\ j.pc = "times"
        /\ \/ job'[w] = [j EXCEPT !.pc = "centroid", !.k = @ + 1]
           \/ job'[w] = [j EXCEPT !.pc = "admitted", !.todo = Tail(@)]
    BY <1>1, <1>14 DEF NextCorner, At
  <2>2. QED
    BY <1>1, <2>1 DEF Jobs
<1>15. CASE Recentre(w)
  <2>1. /\ j.pc = "centroid"
        /\ \/ job'[w] = [j EXCEPT !.pc = "candidates"]
           \/ job'[w] = [j EXCEPT !.pc = "refreeze"]
    BY <1>1, <1>15 DEF Recentre, At, Goto
  <2>2. QED
    BY <1>1, <2>1 DEF Jobs
<1>16. CASE Refreeze(w)
  <2>1. j.pc = "refreeze"
        /\ \/ \E k : job'[w] = [j EXCEPT !.pc = "centroid", !.k = k]
           \/ \E win : job'[w] = [j EXCEPT !.pc = "listed", !.wins = <<win>>]
    BY <1>1, <1>16 DEF Refreeze, At
  <2>2. QED
    BY <1>1, <2>1 DEF Jobs
<1>17. CASE Reclassify(w)
  <2>1. j.pc = "classify" /\ \E k : job'[w] = [j EXCEPT !.k = k]
    BY <1>1, <1>17 DEF Reclassify, At
  <2>2. QED
    BY <1>1, <1>17, <2>1 DEF Jobs
<1>18. CASE Finish(w) \/ Fail(w)
  BY <1>2, <1>18 DEF Finish, Fail
<1>19. QED
  BY <1>3, <1>4, <1>5, <1>6, <1>7, <1>8, <1>9, <1>10, <1>11, <1>12, <1>13, <1>14, <1>15,
     <1>16, <1>17, <1>18 DEF Step

LEMMA StepTidy ==
  ASSUME Typed, Observed, NEW w \in Workers, Works(w), Step(w) \/ Fail(w),
         job'[w].pc # "idle", job[w].op = "rebuild", Tidy(job[w])
  PROVE  Tidy(job[w])'
<1>1. ~(job[w].pc \in {"load", "build", "freeze", "windows", "observe", "measure"})
  BY DEF Works, Relies
<1>2. ~(LoadMap(w) \/ BuildMap(w) \/ FreezeWindows(w) \/ LoadWindows(w)
        \/ Observe(w) \/ Measure(w))
  BY <1>1 DEF LoadMap, BuildMap, FreezeWindows, LoadWindows, Observe, Measure, At
<1>3. ~(Finish(w) \/ Fail(w))
  BY DEF Finish, Fail, Become, Typed, Idle
<1>4. QED
  BY <1>2, <1>3, ReadingTidy, AdmitTidy, FreezeAdmittedTidy, ListingTidy, RemeasureTidy,
     NextCornerTidy, RecentreTidy, RefreezeTidy, ReclassifyTidy DEF Step

LEMMA StepFits ==
  ASSUME Typed, Observed, NEW w \in Workers, Works(w), Step(w) \/ Fail(w),
         job'[w].pc # "idle", Fits(job[w])
  PROVE  Fits(job[w])'
<1>1. CASE job'[w].pc # "classify"
  BY <1>1 DEF Fits
<1>2. CASE FreezeAdmitted(w) /\ job'[w].pc = "classify"
  <2>1. job[w].pc = "admitted" /\ job[w] \in Jobs
    BY <1>2, JobFields DEF FreezeAdmitted, At
  <2>2. map # None /\ Size \in Nat /\ DOMAIN map = 1 .. Size
    BY <2>1, SizeNat DEF Works, Relies
  <2>3. /\ map' = map
        /\ job'[w] = [job[w] EXCEPT !.pc = "classify", !.k = 1,
                                    !.seen = Centres(map), !.wins = << >>]
    <3>1. \A j : Become(w, j) => job'[w] = j
      BY DEF Become, Typed
    <3>2. ~\E win : Become(w, [job[w] EXCEPT !.pc = "listed", !.wins = <<win>>])
      BY <1>2, <2>1, <3>1 DEF Jobs
    <3>3. ~Become(w, [job[w] EXCEPT !.todo = Tail(@)])
      BY <1>2, <2>1, <3>1 DEF Jobs
    <3>4. QED
      BY <1>2, <3>1, <3>2, <3>3 DEF FreezeAdmitted
  <2>4. job'[w].k = 1 /\ job'[w].seen = Centres(map)
    BY <2>1, <2>3 DEF Jobs
  <2>5. Len(job'[w].seen) = Size'
    BY <2>2, <2>3, <2>4, CentresTyped, SizeNat DEF Size
  <2>6. \A c \in DOMAIN map' : ~(c < job'[w].k)
    BY <2>2, <2>3, <2>4
  <2>7. QED
    BY <2>5, <2>6 DEF Fits
<1>3. CASE Reclassify(w)
  BY <1>3, ReclassifyTidy
<1>4. QED
  BY <1>1, <1>2, <1>3, SoloStays

LEMMA BegunAlone ==
  ASSUME Typed, Observed, NEW w \in Workers, Moved(w),
         \/ \E l \in Laps : ImportLap(w, l)
         \/ \E allow \in BOOLEAN : Rebuild(w, allow),
         NEW v \in Workers
  PROVE  Alone(v)'
<1>1. CASE \E l \in Laps : ImportLap(w, l)
  <2> DEFINE j == [Idle EXCEPT !.op = "import", !.pc = "load", !.lap = Len(laps) + 1]
             alone == \A u \in Workers : job[u].pc = "idle"
  <2>1. Begin(w, j) /\ j \in Jobs
    <3>1. Len(laps) + 1 \in Nat
      BY LenProperties DEF Typed
    <3>2. j \in Jobs
      BY <3>1, IdleRelies DEF Jobs, Pcs
    <3>3. QED
      BY <1>1, <3>2 DEF ImportLap
  <2> HIDE DEF j
  <2>2. /\ job'[w] = [j EXCEPT !.solo = alone]
        /\ \A u \in Workers \ {w} : job'[u] = [job[u] EXCEPT !.solo = FALSE]
    BY <2>1, Begun
  <2>3. job'[w].pc = "load" /\ job'[w].op = "import" /\ job'[w].solo = alone
    BY <2>2 DEF j, Idle
  <2>4. \A u \in Workers \ {w} : job'[u].solo = FALSE /\ job'[u].pc = job[u].pc
    <3>1. TAKE u \in Workers \ {w}
    <3>2. job[u] \in Jobs /\ job'[u] = [job[u] EXCEPT !.solo = FALSE]
      BY <2>2 DEF Typed
    <3>3. QED
      BY <3>2 DEF Jobs
  <2>5. QED
    BY <2>3, <2>4 DEF Alone, Fits
<1>2. CASE \E allow \in BOOLEAN : Rebuild(w, allow)
  <2> DEFINE j == [Idle EXCEPT !.op = "rebuild", !.pc = "centroid", !.k = 1,
                               !.seen = Centres(map)]
             alone == \A u \in Workers : job[u].pc = "idle"
  <2>1. UNCHANGED <<laps, raw, evicted, map, obs>> /\ Begin(w, j) /\ map # None
    BY <1>2 DEF Rebuild, store
  <2>2. Centres(map) \in Seq(Nat) /\ Len(Centres(map)) = Size /\ Size \in Nat
    BY <2>1, CentresTyped, SizeNat
  <2>3. j \in Jobs
    BY <2>2, IdleRelies DEF Jobs, Pcs
  <2> HIDE DEF j
  <2>4. /\ job'[w] = [j EXCEPT !.solo = alone]
        /\ \A u \in Workers \ {w} : job'[u] = [job[u] EXCEPT !.solo = FALSE]
    BY <2>1, <2>3, Begun
  <2>5. PICK r : r = job'[w]
    OBVIOUS
  <2>6. r.pc = "centroid" /\ r.solo = alone /\ r.k = 1 /\ r.todo = << >>
        /\ r.seen = Centres(map)
    BY <2>4, <2>5 DEF j, Idle
  <2>7. \A u \in Workers \ {w} : job'[u].solo = FALSE /\ job'[u].pc = job[u].pc
    <3>1. TAKE u \in Workers \ {w}
    <3>2. job[u] \in Jobs /\ job'[u] = [job[u] EXCEPT !.solo = FALSE]
      BY <2>4 DEF Typed
    <3>3. QED
      BY <3>2 DEF Jobs
  <2>8. Size' = Size
    BY <2>1 DEF Size
  <2>9. Ready(r)'
    BY <2>2, <2>6, <2>8 DEF Ready, Ascending
  <2>10. ASSUME NEW o \in DOMAIN obs', obs'[o].corner # 0 PROVE ~Due(r, o)'
    <3>1. o \in DOMAIN obs /\ obs'[o].corner = obs[o].corner /\ obs[o].corner \in Nat
      BY <2>1, <2>10, ObservationFields
    <3>2. obs'[o].corner \in {c \in Nat : c >= r.k}
      BY <2>6, <2>10, <3>1
    <3>3. QED
      BY <2>6, <3>2 DEF Due, Pending
  <2>11. Mended(r)' /\ Blank(r)'
    BY <2>6, <2>10 DEF Mended, Blank
  <2>12. Tidy(job[w])'
    BY <2>5, <2>9, <2>11 DEF Tidy
  <2>13. QED
    BY <2>5, <2>6, <2>7, <2>12 DEF Alone, Fits
<1>3. QED
  BY <1>1, <1>2

LEMMA AloneStays ==
  ASSUME Typed, Observed, raw' \subseteq raw, UNCHANGED <<laps, map, obs, job>>,
         NEW v \in Workers, Alone(v)
  PROVE  Alone(v)'
<1>1. Size' = Size
  BY DEF Size
<1>2. PICK j : j = job[v]
  OBVIOUS
<1>3. ASSUME Tidy(j) PROVE Tidy(j)'
  <2>1. Ready(j)'
    BY <1>1, <1>3 DEF Tidy, Ready, Current
  <2>2. Mended(j)'
    BY <1>1, <1>3, MendedStays DEF Tidy
  <2>3. Blank(j)'
    BY <1>1, <1>3, BlankStays DEF Tidy
  <2>4. QED
    BY <2>1, <2>2, <2>3 DEF Tidy
<1>4. ASSUME Fits(j) PROVE Fits(j)'
  <2>1. ASSUME NEW c PROVE OwnSpans(c)' = OwnSpans(c) /\ Owned(c)' = Owned(c)
    BY <1>1, OwnStays
  <2>2. ASSUME NEW c, ClassFits(c) PROVE ClassFits(c)'
    BY <1>1, <2>1, <2>2 DEF ClassFits
  <2>3. QED
    BY <1>1, <1>4, <2>1, <2>2 DEF Fits
<1>5. job' = job
  BY <1>1
<1>6. QED
  BY <1>2, <1>3, <1>4, <1>5 DEF Alone

LEMMA AloneKept ==
  ASSUME Typed, Observed, \A w \in Workers : Works(w) /\ Alone(w), Next,
         NEW v \in Workers
  PROVE  Alone(v)'
<1>1. ASSUME NEW w \in Workers,
             \/ \E l \in Laps : ImportLap(w, l)
             \/ \E allow \in BOOLEAN : Rebuild(w, allow)
      PROVE  Alone(v)'
  <2>1. Moved(w)
    BY <1>1, ImportLapKeeps, RebuildKeeps
  <2>2. QED
    BY <1>1, <2>1, BegunAlone
<1>2. ASSUME NEW w \in Workers, Step(w) \/ Fail(w) PROVE Alone(v)'
  <2>1. Kept(w)
    BY <1>2, LoadMapKeeps, BuildMapKeeps, FreezeWindowsKeeps, LoadWindowsKeeps,
       ObserveKeeps, MeasureKeeps, ReadCandidatesKeeps, AdmitKeeps, FreezeAdmittedKeeps,
       ListObservationsKeeps, RemeasureKeeps, NextCornerKeeps, RecentreKeeps,
       RefreezeKeeps, ReclassifyKeeps, EndsKeeps DEF Step
  <2>2. \A u \in Workers \ {w} : job'[u] = job[u]
    BY <2>1 DEF Kept
  <2>3. CASE v = w
    <3>1. SUFFICES ASSUME job'[w].solo, job'[w].pc # "idle" PROVE Alone(w)'
      BY <2>3 DEF Alone
    <3>2. job[w].pc # "idle" /\ job[w].solo /\ job'[w].op = job[w].op
      BY <1>2, <3>1, SoloStays
    <3>3. /\ \A u \in Workers \ {w} : job[u].pc = "idle"
          /\ Fits(job[w]) /\ (job[w].op = "rebuild" => Tidy(job[w]))
      BY <3>2 DEF Alone
    <3>4. Fits(job[w])'
      BY <1>2, <3>1, <3>3, StepFits
    <3>5. job[w].op = "rebuild" => Tidy(job[w])'
      BY <1>2, <3>1, <3>3, StepTidy
    <3>6. QED
      BY <2>2, <3>2, <3>3, <3>4, <3>5 DEF Alone
  <2>4. CASE v # w
    <3>1. job'[v] = job[v]
      BY <2>2, <2>4
    <3>2. job[w].pc # "idle"
      BY <1>2 DEF Step, Fail, At, LoadMap, BuildMap, FreezeWindows, LoadWindows, Observe,
         Measure, ReadCandidates, Admit, FreezeAdmitted, ListObservations, Remeasure,
         NextCorner, Recentre, Refreeze, Reclassify, Finish
    <3>3. ~(job[v].solo /\ job[v].pc # "idle")
      BY <2>4, <3>2 DEF Alone
    <3>4. QED
      BY <3>1, <3>3 DEF Alone
  <2>5. QED
    BY <2>3, <2>4
<1>3. ASSUME NEW l \in raw, Evict(l) \/ Lose(l) PROVE Alone(v)'
  BY <1>3, TraceGoes, AloneStays
<1>4. QED
  BY <1>1, <1>2, <1>3 DEF Next

-----------------------------------------------------------------------------
(* What always holds.                                                      *)

LEMMA InvariantHolds ==
  /\ Init => IInv
  /\ IInv /\ [Next]_vars => IInv' /\ (Grows \/ UNCHANGED vars)
<1>1. ASSUME Init PROVE IInv
  BY <1>1, InitHolds DEF IInv, Alone
<1>2. ASSUME IInv, [Next]_vars PROVE IInv' /\ (Grows \/ UNCHANGED vars)
  <2>1. /\ Typed /\ Observed /\ SelfDecides
        /\ \A w \in Workers : Works(w) /\ Alone(w)
    BY <1>2 DEF IInv
  <2>2. /\ Typed' /\ Observed' /\ \A w \in Workers : Works(w)'
        /\ Grows \/ UNCHANGED vars
    BY <1>2, <2>1, NextKeeps
  <2>3. CASE Next /\ Grows
    <3>1. SelfDecides'
      BY <2>1, <2>3, SelfDecidesKept
    <3>2. \A w \in Workers : Alone(w)'
      BY <2>1, <2>3, AloneKept
    <3>3. QED
      BY <2>2, <3>1, <3>2 DEF IInv
  <2>4. CASE UNCHANGED vars
    <3>1. UNCHANGED <<laps, raw, evicted, map, obs, job>>
      BY <2>4 DEF vars, store
    <3>2. Grows
      BY <2>1, <3>1, SizeNat DEF Grows, Size
    <3>3. SelfDecides'
      BY <2>1, <3>1, <3>2, MapStays
    <3>4. ASSUME NEW w \in Workers PROVE Alone(w)'
      <4>1. raw' \subseteq raw /\ Alone(w)
        BY <2>1, <3>1
      <4>2. QED
        BY <2>1, <3>1, <4>1, AloneStays
    <3>5. QED
      BY <2>2, <3>3, <3>4 DEF IInv
  <2>5. QED
    BY <1>2, <2>2, <2>3, <2>4
<1>3. QED
  BY <1>1, <1>2

LEMMA InvariantEver == Spec => []IInv
BY InvariantHolds, PTL DEF Spec

\* The store is well formed whatever overtakes, dies or fails: an observation
\* is of a span that was driven and of a corner that exists, and no trace is
\* both here and evicted.
THEOREM TypeCorrect == Spec => []TypeOK
<1>1. IInv => TypeOK
  <2>1. SUFFICES ASSUME IInv PROVE TypeOK
    OBVIOUS
  <2>2. Typed /\ Observed
    BY <2>1 DEF IInv
  <2>3. ASSUME NEW o \in DOMAIN obs
        PROVE  obs[o].corner \in 0 .. (IF map = None THEN 0 ELSE Len(map))
    <3>1. obs[o].corner \in Nat /\ obs[o].corner <= Size /\ Size \in Nat
      BY <2>2, ObservationFields, SizeNat DEF Observed
    <3>2. QED
      BY <3>1 DEF Size
  <2>4. \A w \in Workers : job[w].op \in {"none", "import", "rebuild"}
    BY <2>2, JobFields
  <2>5. QED
    BY <2>2, <2>3, <2>4 DEF TypeOK, Typed, Observed
<1>2. QED
  BY <1>1, InvariantEver, PTL

\* A34: no lap of another driver moves a corner or its windows, for any laps
\* and any number of workers, whichever operations die and whichever overtake
\* each other (db.py:1344-1348, 1781-1784).
THEOREM SelfDecidesEver == Spec => []SelfDecides
<1>1. IInv => SelfDecides
  BY DEF IInv
<1>2. QED
  BY <1>1, InvariantEver, PTL

\* No step takes an observation's corner away or gives it another
\* (pipeline.py:358-363), although two admissions may hold the same candidates:
\* of two that do, the corner numbers tell the second.
THEOREM ObservationKeepsCornerEver == Spec => ObservationKeepsCorner
<1>1. IInv /\ [Next]_vars =>
        [\A o \in DOMAIN obs :
           obs[o].corner # 0 => obs'[o].corner = obs[o].corner]_vars
  <2>1. SUFFICES ASSUME IInv, [Next]_vars
                 PROVE  [\A o \in DOMAIN obs :
                           obs[o].corner # 0 => obs'[o].corner = obs[o].corner]_vars
    OBVIOUS
  <2>2. Grows \/ UNCHANGED vars
    BY <2>1, InvariantHolds
  <2>3. QED
    BY <2>2 DEF Grows
<1>2. QED
  BY <1>1, InvariantEver, PTL DEF Spec, ObservationKeepsCorner

LEMMA FinishedAlone ==
  ASSUME IInv, NEW w \in Workers, Finish(w), job[w].solo
  PROVE  /\ job[w].op = "rebuild" =>
              \A o \in DOMAIN obs :
                obs[o].corner # 0 /\ Owned(obs[o].corner) => Repaired(o)
         /\ \A c \in DOMAIN map : Owned(c) => ClassFits(c)
<1> DEFINE j == job[w]
<1>1. j.pc = "classify" /\ j.k > Len(j.seen)
  BY DEF Finish, At
<1>2. Fits(j) /\ (j.op = "rebuild" => Tidy(j)) /\ Typed /\ Works(w)
  BY <1>1 DEF IInv, Alone
<1>3. map # None /\ Size \in Nat /\ DOMAIN map = 1 .. Size /\ j.k \in Nat
  BY <1>1, <1>2, JobFields, SizeNat DEF Works, Relies
<1>4. \A o : Due(j, o)
  BY <1>1 DEF Due, Pending
<1>5. \A c \in DOMAIN map : c < j.k
  BY <1>1, <1>2, <1>3 DEF Fits
<1>6. QED
  BY <1>1, <1>2, <1>4, <1>5 DEF Tidy, Mended, Fits

\* A rebuild that ran alone leaves every phase time measured across its
\* corner's windows, or deleted with the trace gone, for any store it may find:
\* any number of operations may have died or overtaken each other before it.
THEOREM RebuildRepairsEver == Spec => RebuildRepairs
<1>1. IInv =>
        [\A w \in Workers :
           Finish(w) /\ job[w].op = "rebuild" /\ job[w].solo =>
             \A o \in DOMAIN obs, p \in Phases :
               LET c == obs[o].corner IN
               c # 0 /\ DOMAIN OwnSpans(c) # {}
                 /\ Timed(laps[obs[o].lap], map[c].windows, p) =>
                 \/ obs[o].times[p] = Window(map[c].windows, p)
                 \/ obs[o].times[p] = None /\ obs[o].lap \notin raw]_vars
  <2>1. SUFFICES ASSUME IInv, NEW w \in Workers,
                        Finish(w), job[w].op = "rebuild", job[w].solo,
                        NEW o \in DOMAIN obs, NEW p \in Phases,
                        obs[o].corner # 0, DOMAIN OwnSpans(obs[o].corner) # {},
                        Timed(laps[obs[o].lap], map[obs[o].corner].windows, p)
                 PROVE  \/ obs[o].times[p] = Window(map[obs[o].corner].windows, p)
                        \/ obs[o].times[p] = None /\ obs[o].lap \notin raw
    BY Zenon
  <2>2. Repaired(o)
    BY <2>1, FinishedAlone DEF Owned
  <2>3. QED
    BY <2>1, <2>2 DEF Repaired
<1>2. QED
  BY <1>1, InvariantEver, PTL DEF RebuildRepairs

\* An operation that ran alone leaves every corner in a class that its median
\* speed allows, whatever was left of the classes before it.
THEOREM ClassFollowsSpeedEver == Spec => ClassFollowsSpeed
<1>1. IInv =>
        [\A w \in Workers :
           Finish(w) /\ job[w].solo =>
             \A c \in DOMAIN map :
               DOMAIN OwnSpans(c) # {} =>
                 WithinMargin(Median([i \in DOMAIN OwnSpans(c) |->
                                        OwnSpans(c)[i].speed]), map[c].class)]_vars
  <2>1. SUFFICES ASSUME IInv, NEW w \in Workers, Finish(w), job[w].solo,
                        NEW c \in DOMAIN map, DOMAIN OwnSpans(c) # {}
                 PROVE  WithinMargin(Median([i \in DOMAIN OwnSpans(c) |->
                                        OwnSpans(c)[i].speed]), map[c].class)
    BY Zenon
  <2>2. ClassFits(c)
    BY <2>1, FinishedAlone DEF Owned
  <2>3. QED
    BY <2>2 DEF ClassFits
<1>2. QED
  BY <1>1, InvariantEver, PTL DEF ClassFollowsSpeed

=============================================================================
