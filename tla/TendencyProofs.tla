---------------------------- MODULE TendencyProofs ----------------------------
(***************************************************************************)
(* Proofs about Tendency, for any facts an era may show, any thresholds    *)
(* and any number of eras.                                                 *)
(*                                                                         *)
(* The first part is about the partition alone: what fault_tendency_state  *)
(* and strength_tendency_state return for any sequence of eras, and what   *)
(* one more era does to it.  The second is about the projection: Views     *)
(* says what a refresh knows of the eras and of the rows at each of its    *)
(* steps, Told what it leaves.                                             *)
(***************************************************************************)
EXTENDS Tendency, FiniteSetTheorems, SequenceTheorems, WellFoundedInduction, TLAPS

\* Records of eras, whatever their facts.
EraData == [fired : BOOLEAN, rank : Int \cup {Quiet}, strength : BOOLEAN,
            evaluated : BOOLEAN]

Fired(es) == {i \in DOMAIN es : es[i].fired}
Clearing(es) == {i \in DOMAIN es : IsClearing(es[i])}
Shown(es) == {i \in DOMAIN es : es[i].strength}
Hits(side, es) == IF side = "fault" THEN Fired(es) ELSE Shown(es)
FaultStreak(es) == RunUpTo(LatestFault(es), Clearing(es))

-----------------------------------------------------------------------------
(* The first and the last element of a set of eras.                        *)

\* The least-number principle, for sets of natural numbers.
LEMMA LeastNumber ==
  ASSUME NEW S \in SUBSET Nat, S # {}
  PROVE  \E m \in S : \A k \in S : m <= k
<1> DEFINE T == {1..n : n \in S}
<1>1. T \subseteq FiniteSubsetsOf(Nat) /\ T # {}
  <2>1. \A n \in S : 1..n \in SUBSET Nat /\ IsFiniteSet(1..n)
    BY FS_Interval
  <2>2. QED
    BY <2>1 DEF FiniteSubsetsOf
<1>2. PICK x \in T : \A y \in T : ~(<<y, x>> \in StrictSubsetOrdering(Nat))
  <2> HIDE DEF T
  <2>1. QED
    BY <1>1, FS_StrictSubsetOrderingWellFounded, WFMin
<1>3. PICK m \in S : x = 1..m
  OBVIOUS
<1>4. ASSUME NEW k \in S, k < m PROVE FALSE
  <2>1. 1..k \subseteq 1..m /\ m \in 1..m /\ m \notin 1..k
    BY <1>4
  <2>2. <<1..k, x>> \in StrictSubsetOrdering(Nat)
    BY <2>1, <1>3 DEF StrictSubsetOrdering
  <2>3. QED
    BY <1>2, <2>2
<1>5. QED
  BY <1>4

LEMMA GreatestNumber ==
  ASSUME NEW S \in SUBSET Nat, S # {}, NEW n \in Nat, \A k \in S : k <= n
  PROVE  \E m \in S : \A k \in S : k <= m
<1> DEFINE T == {d \in 0..n : n - d \in S}
<1>1. T \in SUBSET Nat
  OBVIOUS
<1>2. \A k \in S : n - k \in T
  OBVIOUS
<1>3. T # {}
  BY <1>2
<1>4. PICK d \in T : \A e \in T : d <= e
  <2> HIDE DEF T
  <2>1. QED
    BY <1>1, <1>3, LeastNumber
<1>5. \A k \in S : k <= n - d
  <2>1. SUFFICES ASSUME NEW k \in S PROVE k <= n - d
    OBVIOUS
  <2>2. d <= n - k
    BY <1>2, <1>4
  <2>3. QED
    BY <2>2
<1>6. QED
  BY <1>5

LEMMA LastOf ==
  ASSUME NEW n \in Nat, NEW S \in SUBSET (1..n)
  PROVE  /\ Last0(S) \in 0..n
         /\ S = {} => Last0(S) = 0
         /\ S # {} => Last0(S) \in S /\ \A j \in S : j <= Last0(S)
<1>1. CASE S = {}
  BY <1>1 DEF Last0
<1>2. CASE S # {}
  <2>1. S \in SUBSET Nat /\ \A k \in S : k <= n
    OBVIOUS
  <2>2. \E m \in S : \A k \in S : k <= m
    BY <1>2, <2>1, GreatestNumber
  <2>3. Last0(S) \in S /\ \A j \in S : j <= Last0(S)
    BY <1>2, <2>2 DEF Last0
  <2>4. \A k \in S : k \in 0..n
    OBVIOUS
  <2>5. Last0(S) \in 0..n
    BY <2>3, <2>4
  <2>6. QED
    BY <1>2, <2>3, <2>5, Zenon
<1>3. QED
  BY <1>1, <1>2

LEMMA FirstOf ==
  ASSUME NEW n \in Nat, NEW S \in SUBSET (1..n)
  PROVE  /\ First0(S) \in 0..n
         /\ S = {} => First0(S) = 0
         /\ S # {} => First0(S) \in S /\ \A j \in S : First0(S) <= j
<1>1. CASE S = {}
  BY <1>1 DEF First0
<1>2. CASE S # {}
  <2>1. S \in SUBSET Nat
    OBVIOUS
  <2>2. \E m \in S : \A k \in S : m <= k
    BY <1>2, <2>1, LeastNumber
  <2>3. First0(S) \in S /\ \A j \in S : First0(S) <= j
    BY <1>2, <2>2 DEF First0
  <2>4. \A k \in S : k \in 0..n
    OBVIOUS
  <2>5. First0(S) \in 0..n
    BY <2>3, <2>4
  <2>6. QED
    BY <1>2, <2>3, <2>5, Zenon
<1>3. QED
  BY <1>1, <1>2

LEMMA LastIs ==
  ASSUME NEW n \in Nat, NEW S \in SUBSET (1..n), NEW m \in S, \A j \in S : j <= m
  PROVE  Last0(S) = m
<1>1. Last0(S) \in S /\ \A j \in S : j <= Last0(S)
  BY LastOf
<1>2. \A k \in S : k \in Nat
  OBVIOUS
<1>3. m <= Last0(S) /\ Last0(S) <= m /\ m \in Nat /\ Last0(S) \in Nat
  BY <1>1, <1>2
<1>4. QED
  BY <1>3

\* The length of a run is at most where it ends, and zero outside of it.
LEMMA RunOf ==
  ASSUME NEW n \in Nat, NEW C
  PROVE  /\ RunUpTo(n, C) \in 0..n
         /\ n \notin C => RunUpTo(n, C) = 0
         /\ n # 0 /\ n \in C => RunUpTo(n, C) > 0
         /\ n + 1 \in C => RunUpTo(n + 1, C) = RunUpTo(n, C) + 1
<1> DEFINE S == 1..n \ C
           T == 1..(n + 1) \ C
<1>1. S \in SUBSET (1..n) /\ T \in SUBSET (1..(n + 1)) /\ n + 1 \in Nat
  OBVIOUS
<1>2. RunUpTo(n, C) = n - Last0(S) /\ RunUpTo(n + 1, C) = (n + 1) - Last0(T)
  <2>1. RunUpTo(n, C) = n - Last0(S)
    BY DEF RunUpTo
  <2>2. RunUpTo(n + 1, C) = (n + 1) - Last0(T)
    BY DEF RunUpTo
  <2>3. QED
    BY <2>1, <2>2
<1>3. /\ Last0(S) \in 0..n
      /\ S = {} => Last0(S) = 0
      /\ S # {} => Last0(S) \in S /\ \A j \in S : j <= Last0(S)
  BY <1>1, LastOf
<1>4. RunUpTo(n, C) \in 0..n
  BY <1>2, <1>3
<1>5. ASSUME n \notin C PROVE RunUpTo(n, C) = 0
  <2>1. CASE n = 0
    BY <1>2, <1>3, <2>1
  <2>2. CASE n # 0
    <3>1. n \in S
      BY <1>5, <2>2
    <3>2. Last0(S) = n
      BY <1>3, <3>1
    <3>3. QED
      BY <1>2, <3>2
  <2>3. QED
    BY <2>1, <2>2
<1>6. ASSUME n # 0, n \in C PROVE RunUpTo(n, C) > 0
  <2>1. Last0(S) # n
    BY <1>3, <1>6
  <2>2. QED
    BY <1>2, <1>3, <2>1
<1>7. ASSUME n + 1 \in C PROVE RunUpTo(n + 1, C) = RunUpTo(n, C) + 1
  <2>1. T = S
    BY <1>7
  <2>2. QED
    BY <1>2, <1>3, <2>1
<1>8. QED
  BY <1>4, <1>5, <1>6, <1>7

-----------------------------------------------------------------------------
(* The partition.                                                          *)

LEMMA ErasTyped ==
  ASSUME NEW es \in Seq(EraData)
  PROVE  /\ Len(es) \in Nat /\ DOMAIN es = 1..Len(es)
         /\ \A i \in 1..Len(es) : es[i] \in EraData
         /\ Fired(es) \in SUBSET (1..Len(es)) /\ Shown(es) \in SUBSET (1..Len(es))
         /\ Clearing(es) \in SUBSET (1..Len(es))
         /\ LatestFault(es) \in 0..Len(es) /\ LatestStrength(es) \in 0..Len(es)
<1>1. /\ Len(es) \in Nat /\ DOMAIN es = 1..Len(es)
      /\ \A i \in 1..Len(es) : es[i] \in EraData
  BY LenProperties, ElementOfSeq
<1>2. /\ Fired(es) \in SUBSET (1..Len(es)) /\ Shown(es) \in SUBSET (1..Len(es))
      /\ Clearing(es) \in SUBSET (1..Len(es))
      /\ {i \in DOMAIN es : es[i].fired \/ IsClearing(es[i])} \in SUBSET (1..Len(es))
      /\ {i \in DOMAIN es : es[i].strength \/ es[i].evaluated} \in SUBSET (1..Len(es))
  BY <1>1 DEF Fired, Shown, Clearing
<1>3. LatestFault(es) \in 0..Len(es) /\ LatestStrength(es) \in 0..Len(es)
  BY <1>1, <1>2, LastOf DEF LatestFault, LatestStrength
<1>4. QED
  BY <1>1, <1>2, <1>3

\* What a row says of the eras besides the verdict.
LEMMA OutcomeOf ==
  ASSUME NEW es \in Seq(EraData), NEW s \in Sides
  PROVE  /\ StateOf(s, es).firstSeen = First0(Hits(s, es))
         /\ StateOf(s, es).lastSeen = Last0(Hits(s, es))
         /\ StateOf(s, es).erasTotal = Len(es)
         /\ StateOf(s, es).state = "none" <=> Hits(s, es) = {}
         /\ Hits(s, es) # {} => StateOf(s, es) \in Outcomes
<1> DEFINE H == Hits(s, es)
           out == StateOf(s, es)
<1>1. /\ Len(es) \in Nat /\ H \in SUBSET (1..Len(es))
      /\ LatestFault(es) \in Nat /\ LatestStrength(es) \in Nat
  BY ErasTyped DEF Hits
<1>2. First0(H) \in Nat /\ Last0(H) \in Nat
  BY <1>1, FirstOf, LastOf
<1>3. Cardinality(H) \in Nat
  <2>1. IsFiniteSet(1..Len(es))
    BY <1>1, FS_Interval
  <2>2. QED
    BY <1>1, <2>1, FS_Subset, FS_CardinalityType
<1>4. \A n \in Nat : \A C : RunUpTo(n, C) \in Nat
  BY RunOf
<1>5. \A h, n, t : ShareState(h, n, t) \in {"new", "persistent", "recurring"}
  BY DEF ShareState
<1>6. CASE s = "fault"
  <2>1. /\ out.firstSeen = First0(H) /\ out.lastSeen = Last0(H)
        /\ out.erasTotal = Len(es) /\ out.erasFired = Cardinality(H)
        /\ out.streak = IF H = {} THEN 0 ELSE FaultStreak(es)
        /\ H = {} => out.state = "none"
        /\ H # {} => out.state \in {"resolved", "dormant", "improving", "regression",
                                    "new", "persistent", "recurring"}
        /\ out = [state |-> out.state, erasFired |-> out.erasFired,
                  erasTotal |-> out.erasTotal, firstSeen |-> out.firstSeen,
                  lastSeen |-> out.lastSeen, streak |-> out.streak]
    <3> HIDE DEF H
    <3>1. H = Fired(es)
      BY <1>6 DEF H, Hits
    <3>2. QED
      BY <1>5, <1>6, <3>1 DEF StateOf, FaultState, Outcome, Fired, Clearing, FaultStreak
  <2>2. FaultStreak(es) \in Nat
    BY <1>1, <1>4 DEF FaultStreak
  <2> HIDE DEF out, H
  <2>3. QED
    BY <1>1, <1>2, <1>3, <2>1, <2>2 DEF out, H, Outcomes, States
<1>7. CASE s = "strength"
  <2> DEFINE k == RunUpTo(LatestStrength(es), DOMAIN es \ H)
  <2>1. /\ out.firstSeen = First0(H) /\ out.lastSeen = Last0(H)
        /\ out.erasTotal = Len(es) /\ out.erasFired = Cardinality(H)
        /\ out.streak = IF H = {} THEN 0 ELSE k
        /\ H = {} => out.state = "none"
        /\ H # {} => out.state \in {"lapsed", "new", "persistent", "recurring"}
        /\ out = [state |-> out.state, erasFired |-> out.erasFired,
                  erasTotal |-> out.erasTotal, firstSeen |-> out.firstSeen,
                  lastSeen |-> out.lastSeen, streak |-> out.streak]
    <3> HIDE DEF H
    <3>1. H = Shown(es)
      BY <1>7 DEF H, Hits
    <3>2. QED
      BY <1>5, <1>7, <3>1 DEF StateOf, StrengthState, Outcome, Shown
  <2>2. k \in Nat
    BY <1>1, <1>4
  <2> HIDE DEF out, H, k
  <2>3. QED
    BY <1>1, <1>2, <1>3, <2>1, <2>2 DEF out, H, Outcomes, States
<1>8. QED
  BY <1>6, <1>7 DEF Sides

-----------------------------------------------------------------------------
(* One more era.                                                           *)

Signal(es) == {i \in DOMAIN es : es[i].fired \/ IsClearing(es[i])}

LEMMA OneMore ==
  ASSUME NEW es \in Seq(EraData), NEW e \in EraData
  PROVE  LET n == Len(es)
             f == Append(es, e)
         IN
         /\ f \in Seq(EraData) /\ Len(f) = n + 1 /\ DOMAIN f = 1..(n + 1)
         /\ f[n + 1] = e /\ \A i \in 1..n : f[i] = es[i]
         /\ Fired(f) = IF e.fired THEN Fired(es) \cup {n + 1} ELSE Fired(es)
         /\ Clearing(f) = IF IsClearing(e) THEN Clearing(es) \cup {n + 1} ELSE Clearing(es)
         /\ LatestFault(f) = IF e.fired \/ IsClearing(e) THEN n + 1 ELSE LatestFault(es)
<1> DEFINE n == Len(es)
           f == Append(es, e)
<1>1. /\ n \in Nat /\ DOMAIN es = 1..n
      /\ f \in Seq(EraData) /\ Len(f) = n + 1 /\ DOMAIN f = 1..(n + 1)
      /\ f[n + 1] = e /\ \A i \in 1..n : f[i] = es[i]
  BY AppendProperties, LenProperties
<1> HIDE DEF n, f
<1>2. 1..(n + 1) = 1..n \cup {n + 1}
  BY <1>1
<1>3. Fired(f) = IF e.fired THEN Fired(es) \cup {n + 1} ELSE Fired(es)
  BY <1>1, <1>2 DEF Fired
<1>4. Clearing(f) = IF IsClearing(e) THEN Clearing(es) \cup {n + 1} ELSE Clearing(es)
  BY <1>1, <1>2 DEF Clearing
<1>5. Signal(f) = IF e.fired \/ IsClearing(e) THEN Signal(es) \cup {n + 1} ELSE Signal(es)
  BY <1>1, <1>2 DEF Signal
<1>6. LatestFault(f) = Last0(Signal(f)) /\ LatestFault(es) = Last0(Signal(es))
  BY DEF LatestFault, Signal
<1>7. CASE e.fired \/ IsClearing(e)
  <2>1. Signal(f) \in SUBSET (1..(n + 1)) /\ n + 1 \in Nat
    BY <1>1 DEF Signal
  <2>2. n + 1 \in Signal(f) /\ \A j \in Signal(f) : j <= n + 1
    BY <1>1, <1>5, <1>7, <2>1
  <2>3. Last0(Signal(f)) = n + 1
    BY <2>1, <2>2, LastIs
  <2>4. QED
    BY <1>1, <1>3, <1>4, <1>6, <1>7, <2>3 DEF n, f
<1>8. CASE ~(e.fired \/ IsClearing(e))
  BY <1>1, <1>3, <1>4, <1>5, <1>6, <1>8 DEF n, f
<1>9. QED
  BY <1>7, <1>8

Trend(es, m) == Fell(es, m) \/ Rose(es, m)

LEMMA VerdictOf ==
  ASSUME NEW es
  PROVE  LET m == LatestFault(es)
             out == FaultState(es).state
         IN /\ Fired(es) = {} => out = "none"
            /\ Fired(es) # {} /\ FaultStreak(es) >= ResolvedMinEras => out = "resolved"
            /\ Fired(es) # {} /\ ~(FaultStreak(es) >= ResolvedMinEras) /\ FaultStreak(es) > 0
                 => out = "dormant"
            /\ Fired(es) # {} /\ ~(FaultStreak(es) >= ResolvedMinEras) /\ ~(FaultStreak(es) > 0)
                 => /\ Fell(es, m) => out = "improving"
                    /\ ~Fell(es, m) /\ Rose(es, m) => out = "regression"
                    /\ ~Trend(es, m) => out = ShareState(Fired(es), m, Len(es))
BY DEF FaultState, Outcome, Fired, Clearing, FaultStreak, Trend

LEMMA Verdicts ==
  ASSUME NEW hits, NEW m, NEW total
  PROVE  /\ ShareState(hits, m, total) \in {"new", "persistent", "recurring"}
         /\ ShareState(hits, m, total) = "new" <=> hits = {m}
BY DEF ShareState

LEMMA NoneOf ==
  ASSUME NEW es
  PROVE  FaultState(es).state = "none" <=> Fired(es) = {}
BY VerdictOf, Verdicts DEF Trend

\* A trend needs the last three eras to have fired.
LEMMA TrendFires ==
  ASSUME NEW es \in Seq(EraData), NEW m \in 0..Len(es), Trend(es, m)
  PROVE  m >= 3 /\ m \in Fired(es) /\ m - 1 \in Fired(es) /\ m - 2 \in Fired(es)
<1>1. Len(es) \in Nat /\ DOMAIN es = 1..Len(es)
  BY ErasTyped
<1>2. m >= 3 /\ \A i \in (m - 2)..m : es[i].fired
  BY DEF Trend, Fell, Rose
<1>3. /\ m \in 1..Len(es) /\ m - 1 \in 1..Len(es) /\ m - 2 \in 1..Len(es)
      /\ m \in (m - 2)..m /\ m - 1 \in (m - 2)..m /\ m - 2 \in (m - 2)..m
  BY <1>1, <1>2
<1>4. QED
  BY <1>1, <1>2, <1>3 DEF Fired

\* An era that carries no signal only dilutes the share.
LEMMA ThinStep ==
  ASSUME NEW es \in Seq(EraData), NEW e \in EraData, ~e.fired, ~IsClearing(e)
  PROVE  LET before == FaultState(es).state
             after == FaultState(Append(es, e)).state
         IN after = before \/ (before = "persistent" /\ after = "recurring")
<1> DEFINE n == Len(es)
           m == LatestFault(es)
           before == FaultState(es).state
<1> DEFINE f == Append(es, e)
           after == FaultState(f).state
<1>1. /\ n \in Nat /\ m \in 0..n
      /\ Len(f) = n + 1 /\ \A i \in 1..n : f[i] = es[i]
      /\ Fired(f) = Fired(es) /\ Clearing(f) = Clearing(es) /\ LatestFault(f) = m
  <2>1. n \in Nat /\ m \in 0..n
    BY ErasTyped
  <2>2. /\ Len(f) = n + 1 /\ \A i \in 1..n : f[i] = es[i]
        /\ Fired(f) = Fired(es) /\ Clearing(f) = Clearing(es) /\ LatestFault(f) = m
    BY OneMore
  <2>3. QED
    BY <2>1, <2>2
<1> HIDE DEF f
<1>2. FaultStreak(f) = FaultStreak(es)
  BY <1>1 DEF FaultStreak
<1>3. Fell(f, m) <=> Fell(es, m)
  BY <1>1, SMTT(30) DEF Fell
<1>4. Rose(f, m) <=> Rose(es, m)
  BY <1>1, SMTT(30) DEF Rose
<1>5. CASE /\ Fired(es) # {} /\ ~(FaultStreak(es) >= ResolvedMinEras)
           /\ ~(FaultStreak(es) > 0) /\ ~Trend(es, m)
  <2> DEFINE H == Fired(es)
  <2>1. before = ShareState(H, m, n)
    BY <1>5, VerdictOf
  <2>2. after = ShareState(H, m, n + 1)
    <3>1. ~Trend(f, m)
      BY <1>3, <1>4, <1>5 DEF Trend
    <3>2. QED
      BY <1>1, <1>2, <1>5, <3>1, VerdictOf
  <2>3. ASSUME Cardinality(H) * ShareDen >= ShareNum * (n + 1)
        PROVE  Cardinality(H) * ShareDen >= ShareNum * n
    <3> DEFINE c == Cardinality(H)
    <3>1. ShareNum \in Nat /\ ShareDen \in Nat /\ n \in Nat
      BY <1>1, TendencyAssumption
    <3>2. c \in Nat
      <4>1. H \in SUBSET (1..n) /\ IsFiniteSet(1..n)
        BY <1>1, ErasTyped, FS_Interval
      <4> HIDE DEF H, n
      <4>2. QED
        BY <4>1, FS_Subset, FS_CardinalityType
    <3>3. c * ShareDen >= ShareNum * (n + 1)
      BY <2>3
    <3> HIDE DEF c, n
    <3>4. ShareNum * (n + 1) = ShareNum * n + ShareNum
      BY <3>1
    <3>5. c * ShareDen \in Nat /\ ShareNum * n \in Nat
      BY <3>1, <3>2
    <3>6. c * ShareDen >= ShareNum * n
      BY <3>1, <3>3, <3>4, <3>5
    <3>7. QED
      BY <3>6 DEF c, n
  <2> HIDE DEF H, m, n, before, after
  <2>4. QED
    BY <2>1, <2>2, <2>3 DEF ShareState, before, after, f
<1>6. CASE ~(/\ Fired(es) # {} /\ ~(FaultStreak(es) >= ResolvedMinEras)
             /\ ~(FaultStreak(es) > 0) /\ ~Trend(es, m))
  <2>1. after = before
    BY <1>1, <1>2, <1>3, <1>4, <1>6, VerdictOf DEF Trend
  <2>2. QED
    BY <2>1 DEF f
<1>7. QED
  BY <1>5, <1>6

\* A clearing era makes a pattern dormant or resolved, and leaves it resolved.
LEMMA ClearingStep ==
  ASSUME NEW es \in Seq(EraData), NEW e \in EraData, IsClearing(e)
  PROVE  LET before == FaultState(es).state
             after == FaultState(Append(es, e)).state
         IN /\ IF before = "none" THEN after = "none" ELSE after \in {"dormant", "resolved"}
            /\ before = "resolved" /\ LatestFault(es) = Len(es) => after = "resolved"
<1> DEFINE n == Len(es)
           before == FaultState(es).state
<1> DEFINE f == Append(es, e)
           after == FaultState(f).state
           C == Clearing(f)
<1>1. ~e.fired
  BY DEF IsClearing, EraData
<1>2. /\ n \in Nat /\ Len(f) = n + 1 /\ Fired(f) = Fired(es)
      /\ C = Clearing(es) \cup {n + 1} /\ LatestFault(f) = n + 1
      /\ n + 1 \in Nat /\ n + 1 \in C /\ n + 1 # 0
      /\ FaultStreak(es) \in Nat
  <2>1. LatestFault(es) \in Nat
    BY ErasTyped
  <2>2. FaultStreak(es) \in Nat
    BY <2>1, RunOf DEF FaultStreak
  <2>3. /\ Len(f) = n + 1 /\ Fired(f) = Fired(es) /\ C = Clearing(es) \cup {n + 1}
        /\ LatestFault(f) = n + 1
    BY <1>1, OneMore
  <2>4. n \in Nat
    BY ErasTyped
  <2> HIDE DEF C, n
  <2>5. QED
    BY <2>2, <2>3, <2>4
<1> HIDE DEF f
<1>3. FaultStreak(f) = RunUpTo(n + 1, C)
  BY <1>2 DEF FaultStreak
<1>4. RunUpTo(n + 1, C) > 0 /\ RunUpTo(n + 1, C) = RunUpTo(n, C) + 1
  <2> HIDE DEF C, n
  <2>1. QED
    BY <1>2, RunOf
<1>5. before = "none" <=> Fired(es) = {}
  BY NoneOf
<1>6. CASE Fired(es) = {}
  BY <1>2, <1>5, <1>6, VerdictOf DEF f
<1>7. CASE Fired(es) # {}
  <2>1. after = IF FaultStreak(f) >= ResolvedMinEras THEN "resolved" ELSE "dormant"
    BY <1>2, <1>3, <1>4, <1>7, VerdictOf
  <2>2. ASSUME before = "resolved", LatestFault(es) = n PROVE after = "resolved"
    <3>1. FaultStreak(es) >= ResolvedMinEras
      BY <1>7, <2>2, VerdictOf, Verdicts DEF Trend
    <3>2. RunUpTo(n, C) = RunUpTo(n, Clearing(es))
      <4>1. 1..n \ C = 1..n \ Clearing(es)
        <5> HIDE DEF C, n
        <5>1. QED
          BY <1>2
      <4>2. QED
        BY <4>1 DEF RunUpTo
    <3>3. FaultStreak(f) = FaultStreak(es) + 1
      BY <1>3, <1>4, <2>2, <3>2 DEF FaultStreak
    <3>4. ResolvedMinEras \in Nat
      BY TendencyAssumption
    <3>5. FaultStreak(f) >= ResolvedMinEras
      BY <1>2, <3>1, <3>3, <3>4
    <3>6. QED
      BY <2>1, <3>5
  <2>3. QED
    BY <1>5, <1>7, <2>1, <2>2 DEF f
<1>8. QED
  BY <1>6, <1>7

\* A fired era ends every rest, is new only once, and trends only without a gap.
LEMMA FiredStep ==
  ASSUME NEW es \in Seq(EraData), NEW e \in EraData, e.fired
  PROVE  LET before == FaultState(es).state
             after == FaultState(Append(es, e)).state
         IN /\ after \notin {"none", "dormant", "resolved"}
            /\ after = "new" <=> before = "none"
            /\ after \in {"improving", "regression"} =>
                 /\ LatestFault(es) = Len(es)
                 /\ before \notin {"none", "new", "dormant", "resolved"}
<1> DEFINE n == Len(es)
           before == FaultState(es).state
<1> DEFINE f == Append(es, e)
           after == FaultState(f).state
<1>1. ~IsClearing(e)
  BY DEF IsClearing
<1>2. /\ n \in Nat /\ n + 1 \in Nat /\ f \in Seq(EraData) /\ Len(f) = n + 1
      /\ Fired(f) = Fired(es) \cup {n + 1} /\ Clearing(f) = Clearing(es)
      /\ LatestFault(f) = n + 1
      /\ Fired(es) \in SUBSET (1..n) /\ Clearing(es) \in SUBSET (1..n)
  <2>1. /\ f \in Seq(EraData) /\ Len(f) = n + 1
        /\ Fired(f) = Fired(es) \cup {n + 1} /\ Clearing(f) = Clearing(es)
        /\ LatestFault(f) = n + 1
    BY <1>1, OneMore
  <2>2. n \in Nat /\ Fired(es) \in SUBSET (1..n) /\ Clearing(es) \in SUBSET (1..n)
    BY ErasTyped
  <2> HIDE DEF n
  <2>3. QED
    BY <2>1, <2>2
<1> HIDE DEF f
<1>3. n + 1 \notin Clearing(f)
  <2> HIDE DEF n
  <2>1. QED
    BY <1>2
<1>4. FaultStreak(f) = 0
  BY <1>2, <1>3, RunOf DEF FaultStreak
<1>5. ResolvedMinEras \in Nat /\ ResolvedMinEras # 0
  BY TendencyAssumption
<1>6. /\ Fell(f, n + 1) => after = "improving"
      /\ ~Fell(f, n + 1) /\ Rose(f, n + 1) => after = "regression"
      /\ ~Trend(f, n + 1) => after = ShareState(Fired(f), n + 1, n + 1)
  <2>1. Fired(f) # {}
    BY <1>2
  <2>2. ~(FaultStreak(f) >= ResolvedMinEras) /\ ~(FaultStreak(f) > 0)
    BY <1>4, <1>5
  <2> HIDE DEF n
  <2>3. QED
    BY <1>2, <2>1, <2>2, VerdictOf
<1>7. after \in {"improving", "regression", "new", "persistent", "recurring"}
  BY <1>6, Verdicts DEF Trend
<1>8. before = "none" <=> Fired(es) = {}
  BY NoneOf
<1>9. Trend(f, n + 1) => n \in Fired(es) /\ n - 1 \in Fired(es) /\ n # n - 1
  <2> SUFFICES ASSUME Trend(f, n + 1)
               PROVE  n \in Fired(es) /\ n - 1 \in Fired(es) /\ n # n - 1
    OBVIOUS
  <2>1. n + 1 \in 0..Len(f)
    BY <1>2
  <2>2. (n + 1) - 1 \in Fired(f) /\ (n + 1) - 2 \in Fired(f)
    BY <1>2, <2>1, TrendFires
  <2> HIDE DEF n
  <2>3. (n + 1) - 1 = n /\ (n + 1) - 2 = n - 1 /\ n # n + 1 /\ n - 1 # n + 1 /\ n # n - 1
    BY <1>2
  <2>4. QED
    BY <1>2, <2>2, <2>3
<1>10. after = "new" <=> before = "none"
  <2>1. ASSUME after = "new" PROVE Fired(es) = {}
    <3>1. ~Trend(f, n + 1)
      BY <1>6, <2>1 DEF Trend
    <3>2. Fired(f) = {n + 1}
      BY <1>6, <2>1, <3>1, Verdicts
    <3> HIDE DEF n
    <3>3. \A i \in Fired(es) : i = n + 1 /\ i \in 1..n
      BY <1>2, <3>2
    <3>4. QED
      BY <1>2, <3>3
  <2>2. ASSUME Fired(es) = {} PROVE after = "new"
    <3>1. ~Trend(f, n + 1) /\ Fired(f) = {n + 1}
      BY <1>2, <1>9, <2>2
    <3>2. QED
      BY <1>6, <3>1, Verdicts
  <2>3. QED
    BY <1>8, <2>1, <2>2
<1>11. ASSUME after \in {"improving", "regression"}
       PROVE  LatestFault(es) = n /\ before \notin {"none", "new", "dormant", "resolved"}
  <2>1. Trend(f, n + 1)
    BY <1>6, <1>11, Verdicts
  <2>2. n \in Fired(es) /\ n - 1 \in Fired(es) /\ n # n - 1
    BY <1>9, <2>1
  <2>3. DOMAIN es = 1..n /\ es[n].fired /\ n \in 1..n /\ n \notin Clearing(es)
    <3>1. DOMAIN es = 1..n
      BY ErasTyped
    <3>2. QED
      BY <2>2, <3>1 DEF Fired, Clearing, IsClearing
  <2>4. LatestFault(es) = n
    <3>1. Signal(es) \in SUBSET (1..n) /\ n \in Signal(es) /\ \A j \in Signal(es) : j <= n
      BY <1>2, <2>3 DEF Signal
    <3> HIDE DEF n
    <3>2. QED
      BY <1>2, <3>1, LastIs DEF LatestFault, Signal
  <2>5. FaultStreak(es) = 0
    BY <1>2, <2>3, <2>4, RunOf DEF FaultStreak
  <2>6. /\ Fired(es) # {}
        /\ before \in {"improving", "regression"} \/ before = ShareState(Fired(es), n, n)
    BY <1>5, <2>2, <2>4, <2>5, VerdictOf DEF Trend
  <2>7. Fired(es) # {n}
    BY <2>2
  <2>8. before \in {"improving", "regression", "persistent", "recurring"}
    BY <2>6, <2>7, Verdicts
  <2>9. QED
    BY <2>4, <2>8
<1>12. QED
  BY <1>7, <1>10, <1>11 DEF f

-----------------------------------------------------------------------------
(* The forward pass: the recursive function of Scan exists, and one more   *)
(* era is one more step of it.                                             *)

IsPass(g, es, n) ==
  g = [k \in 0..n |-> IF k = 0 THEN NothingYet ELSE Remember(g[k - 1], es[k])]

LEMMA PassExists ==
  ASSUME NEW es, NEW n \in Nat
  PROVE  \E g : IsPass(g, es, n)
<1> DEFINE Bad == {k \in Nat : ~\E g : IsPass(g, es, k)}
<1>1. SUFFICES ASSUME Bad # {} PROVE FALSE
  OBVIOUS
<1>2. Bad \in SUBSET Nat
  OBVIOUS
<1>3. PICK m \in Bad : \A k \in Bad : m <= k
  <2> HIDE DEF Bad
  <2>1. QED
    BY <1>1, <1>2, LeastNumber
<1>4. m \in Nat /\ ~\E g : IsPass(g, es, m)
  OBVIOUS
<1>5. CASE m = 0
  <2> DEFINE g == [k \in 0..0 |-> NothingYet]
  <2>1. IsPass(g, es, 0)
    BY DEF IsPass
  <2>2. QED
    BY <1>4, <1>5, <2>1
<1>6. CASE m # 0
  <2>1. m - 1 \in Nat /\ m - 1 \notin Bad
    BY <1>3, <1>4, <1>6
  <2>2. PICK h : IsPass(h, es, m - 1)
    BY <2>1
  <2> DEFINE g == [k \in 0..m |-> IF k = m THEN Remember(h[m - 1], es[m]) ELSE h[k]]
  <2>3. \A k \in 0..m : g[k] = IF k = 0 THEN NothingYet ELSE Remember(g[k - 1], es[k])
    <3>1. SUFFICES ASSUME NEW k \in 0..m
                   PROVE  g[k] = IF k = 0 THEN NothingYet ELSE Remember(g[k - 1], es[k])
      OBVIOUS
    <3>2. CASE k = m
      <4>1. m - 1 \in 0..m /\ m - 1 # m
        BY <1>4, <1>6
      <4>2. QED
        BY <1>6, <3>2, <4>1
    <3>3. CASE k # m
      <4>1. k \in 0..(m - 1) /\ (k # 0 => k - 1 \in 0..m /\ k - 1 # m)
        BY <1>4, <3>3
      <4>2. h[k] = IF k = 0 THEN NothingYet ELSE Remember(h[k - 1], es[k])
        BY <2>2, <4>1 DEF IsPass
      <4>3. QED
        BY <3>3, <4>1, <4>2
    <3>4. QED
      BY <3>2, <3>3
  <2>4. IsPass(g, es, m)
    <3>1. g = [k \in 0..m |-> g[k]]
      OBVIOUS
    <3> HIDE DEF g
    <3>2. QED
      BY <2>3, <3>1 DEF IsPass
  <2>5. QED
    BY <1>4, <2>4
<1>7. QED
  BY <1>5, <1>6

\* Two passes agree as far as their eras do.
LEMMA PassUnique ==
  ASSUME NEW es, NEW fs, NEW n \in Nat, NEW m \in Nat, n <= m,
         NEW g, IsPass(g, es, n), NEW h, IsPass(h, fs, m),
         \A k \in 1..n : es[k] = fs[k]
  PROVE  \A k \in 0..n : g[k] = h[k]
<1> DEFINE Bad == {k \in 0..n : g[k] # h[k]}
<1>1. SUFFICES ASSUME Bad # {} PROVE FALSE
  OBVIOUS
<1>2. Bad \in SUBSET Nat
  OBVIOUS
<1>3. PICK k \in Bad : \A j \in Bad : k <= j
  <2> HIDE DEF Bad
  <2>1. QED
    BY <1>1, <1>2, LeastNumber
<1>4. k \in 0..n /\ k \in 0..m /\ g[k] # h[k]
  OBVIOUS
<1>5. g[k] = IF k = 0 THEN NothingYet ELSE Remember(g[k - 1], es[k])
  BY <1>4 DEF IsPass
<1>6. h[k] = IF k = 0 THEN NothingYet ELSE Remember(h[k - 1], fs[k])
  BY <1>4 DEF IsPass
<1>7. k # 0
  BY <1>4, <1>5, <1>6
<1>8. k - 1 \in 0..n /\ k - 1 \notin Bad /\ k \in 1..n
  BY <1>3, <1>4, <1>7
<1>9. g[k - 1] = h[k - 1] /\ es[k] = fs[k]
  BY <1>8
<1>10. QED
  BY <1>4, <1>5, <1>6, <1>7, <1>9

LEMMA ScanIsPass ==
  ASSUME NEW es, Len(es) \in Nat
  PROVE  \E g : IsPass(g, es, Len(es)) /\ Scan(es) = g[Len(es)]
<1> DEFINE scan == CHOOSE g : g = [k \in 0..Len(es) |->
                     IF k = 0 THEN NothingYet ELSE Remember(g[k - 1], es[k])]
<1>1. Scan(es) = scan[Len(es)]
  BY DEF Scan
<1>2. IsPass(scan, es, Len(es))
  <2>1. \E g : g = [k \in 0..Len(es) |->
                     IF k = 0 THEN NothingYet ELSE Remember(g[k - 1], es[k])]
    BY PassExists DEF IsPass
  <2>2. scan = [k \in 0..Len(es) |->
                     IF k = 0 THEN NothingYet ELSE Remember(scan[k - 1], es[k])]
    BY <2>1
  <2>3. QED
    BY <2>2 DEF IsPass
<1>3. QED
  BY <1>1, <1>2

\* What a fold does: nothing for no era, one step for one more.
LEMMA ScanEmpty == Scan(<< >>) = NothingYet
<1>1. Len(<< >>) = 0
  OBVIOUS
<1>2. PICK g : IsPass(g, << >>, 0) /\ Scan(<< >>) = g[0]
  BY <1>1, ScanIsPass
<1>3. QED
  BY <1>2 DEF IsPass

LEMMA ScanAppend ==
  ASSUME NEW es \in Seq(EraData), NEW e \in EraData
  PROVE  Scan(Append(es, e)) = Remember(Scan(es), e)
<1> DEFINE n == Len(es)
           f == Append(es, e)
<1>1. n \in Nat /\ Len(f) = n + 1 /\ f[n + 1] = e /\ \A i \in 1..n : es[i] = f[i]
  BY AppendProperties, LenProperties
<1>2. PICK g : IsPass(g, es, n) /\ Scan(es) = g[n]
  BY <1>1, ScanIsPass
<1> HIDE DEF f
<1>3. PICK h : IsPass(h, f, n + 1) /\ Scan(f) = h[n + 1]
  BY <1>1, ScanIsPass
<1> HIDE DEF n
<1>4. n \in 0..n /\ n + 1 \in 0..(n + 1) /\ n + 1 \in Nat /\ n <= n + 1
      /\ (n + 1) - 1 = n /\ n + 1 # 0
  BY <1>1
<1>5. g[n] = h[n]
  BY <1>1, <1>2, <1>3, <1>4, PassUnique
<1>6. h[n + 1] = Remember(h[n], f[n + 1])
  <2>1. h[n + 1] = Remember(h[(n + 1) - 1], f[n + 1])
    BY <1>3, <1>4 DEF IsPass
  <2>2. QED
    BY <1>4, <2>1
<1>7. QED
  BY <1>1, <1>2, <1>3, <1>5, <1>6 DEF n, f

\* A fired era has a band.
Ranked(es) == \A i \in DOMAIN es : es[i].fired => es[i].rank \in Int

\* The run of fired eras that ends where the trailing thin eras begin.
FiredRun(es) == RunUpTo(LatestFault(es), Fired(es))

\* What the reader remembers after es.
Agrees(a, es) ==
  /\ a.total = Len(es) /\ a.hits = Cardinality(Fired(es))
  /\ a.gap \in BOOLEAN /\ (a.gap <=> LatestFault(es) # Len(es))
  /\ a.clears = FaultStreak(es)
  /\ a.bands \in Seq(Int) /\ Len(a.bands) = FiredRun(es)
  /\ \A i \in 1..FiredRun(es) :
       a.bands[i] = es[(LatestFault(es) - FiredRun(es)) + i].rank

LEMMA LatestOf ==
  ASSUME NEW es \in Seq(EraData)
  PROVE  /\ LatestFault(es) # Len(es) => Len(es) \notin Fired(es) \cup Clearing(es)
         /\ LatestFault(es) \in Fired(es) \cup Clearing(es) \/ LatestFault(es) = 0
         /\ Fired(es) # {} => LatestFault(es) # 0
         /\ Fired(es) \cap Clearing(es) = {}
<1> DEFINE n == Len(es)
<1>1. n \in Nat /\ Signal(es) \in SUBSET (1..n) /\ Signal(es) = Fired(es) \cup Clearing(es)
  BY ErasTyped DEF Signal, Fired, Clearing
<1>2. LatestFault(es) = Last0(Signal(es))
  BY DEF LatestFault, Signal
<1> HIDE DEF n
<1>3. /\ Last0(Signal(es)) \in 0..n
      /\ Signal(es) = {} => Last0(Signal(es)) = 0
      /\ Signal(es) # {} => /\ Last0(Signal(es)) \in Signal(es)
                            /\ \A j \in Signal(es) : j <= Last0(Signal(es))
  BY <1>1, LastOf
<1>4. n \in Signal(es) => Last0(Signal(es)) = n
  <2>1. SUFFICES ASSUME n \in Signal(es) PROVE Last0(Signal(es)) = n
    OBVIOUS
  <2>2. n <= Last0(Signal(es)) /\ Last0(Signal(es)) \in 0..n
    BY <1>3, <2>1
  <2>3. QED
    BY <1>1, <2>2
<1>5. \A j \in Signal(es) : j # 0
  BY <1>1
<1>6. Fired(es) \cap Clearing(es) = {}
  BY DEF Fired, Clearing, IsClearing
<1>7. QED
  BY <1>1, <1>2, <1>3, <1>4, <1>5, <1>6 DEF n

LEMMA AgreesEmpty == Agrees(NothingYet, << >>)
<1>1. PICK es : es = << >>
  OBVIOUS
<1>2. Len(es) = 0 /\ es \in Seq(EraData) /\ es \in Seq(Int)
  BY <1>1
<1>3. DOMAIN es = {} /\ LatestFault(es) = 0
  <2>1. DOMAIN es = 1..Len(es) /\ LatestFault(es) \in 0..Len(es)
    BY <1>2, ErasTyped
  <2>2. QED
    BY <1>2, <2>1
<1>4. Fired(es) = {} /\ Clearing(es) = {}
  BY <1>3 DEF Fired, Clearing
<1>5. FaultStreak(es) = 0 /\ FiredRun(es) = 0
  BY <1>3, <1>4, RunOf DEF FaultStreak, FiredRun
<1>6. Cardinality({}) = 0
  BY FS_EmptySet
<1>7. /\ NothingYet.total = Len(es) /\ NothingYet.hits = Cardinality(Fired(es))
      /\ NothingYet.gap = FALSE /\ NothingYet.clears = FaultStreak(es)
      /\ NothingYet.bands = es /\ Len(es) = FiredRun(es)
  BY <1>1, <1>2, <1>4, <1>5, <1>6 DEF NothingYet
<1>8. \A i \in 1..FiredRun(es) : FALSE
  BY <1>5
<1>9. Agrees(NothingYet, es)
  BY <1>2, <1>3, <1>7, <1>8 DEF Agrees
<1>10. QED
  BY <1>1, <1>9

LEMMA AgreesAppend ==
  ASSUME NEW es \in Seq(EraData), NEW e \in EraData, e.fired => e.rank \in Int,
         NEW a, Agrees(a, es)
  PROVE  Agrees(Remember(a, e), Append(es, e))
<1> DEFINE n == Len(es)
           m == LatestFault(es)
           b == FiredRun(es)
           f == Append(es, e)
           z == Remember(a, e)
<1>1. /\ n \in Nat /\ m \in 0..n /\ m \in Nat
      /\ Fired(es) \in SUBSET (1..n) /\ Clearing(es) \in SUBSET (1..n)
      /\ (m # n => n \notin Fired(es) /\ n \notin Clearing(es))
      /\ b \in 0..m
  <2>1. /\ n \in Nat /\ m \in 0..n
        /\ Fired(es) \in SUBSET (1..n) /\ Clearing(es) \in SUBSET (1..n)
    BY ErasTyped
  <2>2. m # n => n \notin Fired(es) /\ n \notin Clearing(es)
    BY LatestOf
  <2> HIDE DEF n, m
  <2>3. m \in Nat
    BY <2>1
  <2>4. b \in 0..m
    BY <2>3, RunOf DEF FiredRun, m
  <2> HIDE DEF b
  <2>5. QED
    BY <2>1, <2>2, <2>3, <2>4
<1>2. /\ f \in Seq(EraData) /\ Len(f) = n + 1 /\ f[n + 1] = e
      /\ \A i \in 1..n : f[i] = es[i]
      /\ Fired(f) = IF e.fired THEN Fired(es) \cup {n + 1} ELSE Fired(es)
      /\ Clearing(f) = IF IsClearing(e) THEN Clearing(es) \cup {n + 1} ELSE Clearing(es)
      /\ LatestFault(f) = IF e.fired \/ IsClearing(e) THEN n + 1 ELSE m
  BY OneMore
<1>3. e.fired => ~IsClearing(e)
  BY DEF IsClearing
<1>4. /\ a.total = n /\ a.hits = Cardinality(Fired(es))
      /\ a.gap \in BOOLEAN /\ (a.gap <=> m # n)
      /\ a.clears = FaultStreak(es)
      /\ a.bands \in Seq(Int) /\ Len(a.bands) = b
      /\ \A i \in 1..b : a.bands[i] = es[(m - b) + i].rank
  BY DEF Agrees
<1>5. /\ z.total = a.total + 1
      /\ z.hits = IF e.fired THEN a.hits + 1 ELSE a.hits
      /\ z.bands = IF e.fired THEN IF a.gap THEN <<e.rank>> ELSE Append(a.bands, e.rank)
                   ELSE IF IsClearing(e) THEN << >> ELSE a.bands
      /\ z.clears = IF e.fired THEN 0
                    ELSE IF ~IsClearing(e) THEN a.clears
                    ELSE IF a.gap THEN 1 ELSE a.clears + 1
      /\ z.gap = (~e.fired /\ ~IsClearing(e))
  BY DEF Remember
<1> SUFFICES Agrees(z, f)
  OBVIOUS
<1> HIDE DEF f, z, n, m, b
<1>6. z.total = Len(f) /\ z.gap \in BOOLEAN /\ (z.gap <=> LatestFault(f) # Len(f))
  <2>1. z.total = Len(f) /\ z.gap \in BOOLEAN
    BY <1>2, <1>4, <1>5
  <2>2. m # n + 1
    BY <1>1
  <2>3. QED
    BY <1>2, <1>5, <2>1, <2>2
<1>7. z.hits = Cardinality(Fired(f))
  <2>1. IsFiniteSet(Fired(es)) /\ n + 1 \notin Fired(es)
    BY <1>1, FS_Interval, FS_Subset
  <2>2. Cardinality(Fired(es) \cup {n + 1}) = Cardinality(Fired(es)) + 1
    BY <2>1, FS_AddElement
  <2>3. QED
    BY <1>2, <1>4, <1>5, <2>2
<1>8. CASE e.fired
  <2>1. /\ LatestFault(f) = n + 1 /\ n + 1 \in Nat /\ n + 1 \in Fired(f)
        /\ n + 1 \notin Clearing(f) /\ Clearing(f) = Clearing(es)
        /\ Fired(f) = Fired(es) \cup {n + 1}
    BY <1>1, <1>2, <1>3, <1>8
  <2>2. z.clears = FaultStreak(f)
    BY <1>5, <1>8, <2>1, RunOf DEF FaultStreak
  <2>3. FiredRun(f) = RunUpTo(n, Fired(f)) + 1
    BY <1>1, <2>1, RunOf DEF FiredRun
  <2>4. RunUpTo(n, Fired(f)) = RunUpTo(n, Fired(es))
    <3>1. 1..n \ Fired(f) = 1..n \ Fired(es)
      BY <1>1, <2>1
    <3>2. QED
      BY <3>1 DEF RunUpTo
  <2>5. CASE a.gap
    <3>1. RunUpTo(n, Fired(es)) = 0
      BY <1>1, <1>4, <2>5, RunOf
    <3>2. z.bands = <<e.rank>> /\ FiredRun(f) = 1
      BY <1>5, <1>8, <2>3, <2>4, <2>5, <3>1
    <3>3. z.bands \in Seq(Int) /\ Len(z.bands) = 1 /\ z.bands[1] = e.rank
      BY <1>8, <3>2
    <3>4. \A i \in 1..1 : z.bands[i] = f[((n + 1) - 1) + i].rank
      <4>1. \A i \in 1..1 : i = 1 /\ ((n + 1) - 1) + i = n + 1
        BY <1>1
      <4>2. QED
        BY <1>2, <3>3, <4>1
    <3>5. QED
      BY <1>6, <1>7, <2>1, <2>2, <3>2, <3>3, <3>4 DEF Agrees
  <2>6. CASE ~a.gap
    <3>1. m = n /\ RunUpTo(n, Fired(es)) = b
      BY <1>4, <2>6 DEF FiredRun, m, b
    <3>2. z.bands = Append(a.bands, e.rank) /\ FiredRun(f) = b + 1
      BY <1>5, <1>8, <2>3, <2>4, <2>6, <3>1
    <3>3. /\ z.bands \in Seq(Int) /\ Len(z.bands) = b + 1 /\ z.bands[b + 1] = e.rank
          /\ \A i \in 1..b : z.bands[i] = a.bands[i]
      BY <1>4, <1>8, <3>2, AppendProperties
    <3>4. \A i \in 1..(b + 1) : z.bands[i] = f[((n + 1) - (b + 1)) + i].rank
      <4>1. SUFFICES ASSUME NEW i \in 1..(b + 1)
                     PROVE  z.bands[i] = f[((n + 1) - (b + 1)) + i].rank
        OBVIOUS
      <4>2. ((n + 1) - (b + 1)) + i = (n - b) + i
        BY <1>1
      <4>3. CASE i = b + 1
        <5>1. (n - b) + i = n + 1
          BY <1>1, <4>3
        <5>2. QED
          BY <1>2, <3>3, <4>2, <4>3, <5>1
      <4>4. CASE i # b + 1
        <5>1. i \in 1..b /\ (n - b) + i \in 1..n
          BY <1>1, <3>1, <4>4
        <5>2. z.bands[i] = es[(n - b) + i].rank
          BY <1>4, <3>1, <3>3, <5>1
        <5>3. QED
          BY <1>2, <4>2, <5>1, <5>2
      <4>5. QED
        BY <4>3, <4>4
    <3>5. QED
      BY <1>6, <1>7, <2>1, <2>2, <3>2, <3>3, <3>4 DEF Agrees
  <2>7. QED
    BY <1>4, <2>5, <2>6
<1>9. CASE IsClearing(e)
  <2>1. /\ ~e.fired /\ LatestFault(f) = n + 1 /\ n + 1 \in Nat /\ n + 1 \notin Fired(f)
        /\ n + 1 \in Clearing(f) /\ Clearing(f) = Clearing(es) \cup {n + 1}
        /\ Fired(f) = Fired(es)
    BY <1>1, <1>2, <1>3, <1>9
  <2>2. FiredRun(f) = 0
    BY <2>1, RunOf DEF FiredRun
  <2>3. z.bands = << >> /\ z.bands \in Seq(Int) /\ Len(z.bands) = 0
    BY <1>5, <1>9, <2>1
  <2>4. FaultStreak(f) = RunUpTo(n, Clearing(f)) + 1
    BY <1>1, <2>1, RunOf DEF FaultStreak
  <2>5. RunUpTo(n, Clearing(f)) = RunUpTo(n, Clearing(es))
    <3>1. 1..n \ Clearing(f) = 1..n \ Clearing(es)
      BY <1>1, <2>1
    <3>2. QED
      BY <3>1 DEF RunUpTo
  <2>6. CASE a.gap
    <3>1. RunUpTo(n, Clearing(es)) = 0
      BY <1>1, <1>4, <2>6, RunOf
    <3>2. z.clears = FaultStreak(f)
      BY <1>5, <1>9, <2>1, <2>4, <2>5, <2>6, <3>1
    <3>3. QED
      BY <1>6, <1>7, <2>2, <2>3, <3>2 DEF Agrees
  <2>7. CASE ~a.gap
    <3>1. RunUpTo(n, Clearing(es)) = FaultStreak(es)
      BY <1>4, <2>7 DEF FaultStreak, m
    <3>2. z.clears = FaultStreak(f)
      BY <1>4, <1>5, <1>9, <2>1, <2>4, <2>5, <2>7, <3>1
    <3>3. QED
      BY <1>6, <1>7, <2>2, <2>3, <3>2 DEF Agrees
  <2>8. QED
    BY <1>4, <2>6, <2>7
<1>10. CASE ~e.fired /\ ~IsClearing(e)
  <2>1. LatestFault(f) = m /\ Fired(f) = Fired(es) /\ Clearing(f) = Clearing(es)
    BY <1>2, <1>10
  <2>2. FiredRun(f) = b /\ FaultStreak(f) = FaultStreak(es)
    BY <2>1 DEF FiredRun, FaultStreak, m, b
  <2>3. z.bands = a.bands /\ z.clears = a.clears
    BY <1>5, <1>10
  <2>4. \A i \in 1..b : (m - b) + i \in 1..n
    BY <1>1
  <2>5. \A i \in 1..b : z.bands[i] = f[(m - b) + i].rank
    BY <1>2, <1>4, <2>3, <2>4
  <2>6. QED
    BY <1>4, <1>6, <1>7, <2>1, <2>2, <2>3, <2>5 DEF Agrees
<1>11. QED
  BY <1>8, <1>9, <1>10

\* The pass over any eras remembers what Agrees says: by the first prefix for
\* which it would not.
LEMMA ScanAgrees ==
  ASSUME NEW es \in Seq(EraData), Ranked(es)
  PROVE  Agrees(Scan(es), es)
<1> DEFINE n == Len(es)
           Prefix(k) == SubSeq(es, 1, k)
           Bad == {k \in 0..n : ~Agrees(Scan(Prefix(k)), Prefix(k))}
<1>1. n \in Nat /\ \A i \in 1..n : es[i] \in EraData /\ (es[i].fired => es[i].rank \in Int)
  BY ErasTyped DEF Ranked
<1>2. SUFFICES ASSUME Bad # {} PROVE FALSE
  <2>1. n \in 0..n /\ Prefix(n) = es
    BY <1>1, SubSeqFull
  <2>2. QED
    BY <2>1
<1>3. Bad \in SUBSET Nat
  OBVIOUS
<1>4. PICK k \in Bad : \A j \in Bad : k <= j
  <2> HIDE DEF Bad
  <2>1. QED
    BY <1>2, <1>3, LeastNumber
<1>5. k \in 0..n /\ ~Agrees(Scan(Prefix(k)), Prefix(k))
  OBVIOUS
<1>6. k # 0
  <2>1. Prefix(0) = << >>
    BY SubSeqEmpty
  <2>2. QED
    BY <1>5, <2>1, ScanEmpty, AgreesEmpty
<1>7. k \in 1..n /\ k - 1 \in 0..n /\ k - 1 \notin Bad
  BY <1>1, <1>4, <1>5, <1>6
<1>8. PICK p : p = Prefix(k - 1)
  OBVIOUS
<1>9. p \in Seq(EraData) /\ Agrees(Scan(p), p)
  <2>1. \A i \in 1..(k - 1) : i \in 1..n
    BY <1>1, <1>7
  <2>2. SubSeq(es, 1, k - 1) \in Seq(EraData)
    BY <1>1, <1>7, <2>1, SubSeqProperties
  <2>3. QED
    BY <1>7, <1>8, <2>2
<1>10. Prefix(k) = Append(p, es[k])
  <2>1. SubSeq(es, 1, k) = SubSeq(es, 1, k - 1) \o <<es[k]>>
    BY <1>1, <1>7, SubSeqRecursiveSecond
  <2>2. p \o <<es[k]>> = Append(p, es[k])
    BY <1>1, <1>7, <1>9, AppendIsConcat
  <2>3. QED
    BY <1>8, <2>1, <2>2
<1>11. Agrees(Remember(Scan(p), es[k]), Append(p, es[k]))
  BY <1>1, <1>7, <1>9, AgreesAppend
<1>12. Scan(Append(p, es[k])) = Remember(Scan(p), es[k])
  BY <1>1, <1>7, <1>9, ScanAppend
<1>13. QED
  BY <1>5, <1>10, <1>11, <1>12

\* A run is three eras long when the three latest eras are in it.
LEMMA ThreeInARun ==
  ASSUME NEW m \in Nat, NEW C
  PROVE  RunUpTo(m, C) >= 3 <=> m >= 3 /\ \A i \in (m - 2)..m : i \in C
<1> DEFINE S == 1..m \ C
           L == Last0(S)
<1>1. /\ L \in 0..m /\ (S = {} => L = 0)
      /\ (S # {} => L \in S /\ \A j \in S : j <= L)
  <2>1. S \in SUBSET (1..m)
    OBVIOUS
  <2> HIDE DEF S
  <2>2. QED
    BY <2>1, LastOf
<1>2. RunUpTo(m, C) = m - L
  BY DEF RunUpTo
<1>3. ASSUME m - L >= 3 PROVE m >= 3 /\ \A i \in (m - 2)..m : i \in C
  <2>1. m >= 3
    BY <1>1, <1>3
  <2>2. \A i \in (m - 2)..m : i \in 1..m /\ ~(i <= L)
    BY <1>1, <1>3
  <2>3. QED
    BY <1>1, <2>1, <2>2
<1>4. ASSUME m >= 3, \A i \in (m - 2)..m : i \in C PROVE m - L >= 3
  <2>1. \A i \in (m - 2)..m : i # L
    <3>1. \A i \in (m - 2)..m : i \notin S /\ i # 0
      BY <1>4
    <3>2. QED
      BY <1>1, <3>1
  <2>2. QED
    BY <1>1, <1>4, <2>1
<1>5. QED
  BY <1>2, <1>3, <1>4

\* What the reader remembers is enough for the verdict.
LEMMA VerdictFromMemory ==
  ASSUME NEW es \in Seq(EraData), Ranked(es), NEW a, Agrees(a, es)
  PROVE  FaultState(es).state = ScanState(a)
<1> DEFINE m == LatestFault(es)
           b == FiredRun(es)
           H == Fired(es)
           k == FaultStreak(es)
           v == a.bands
           fell == b >= 3 /\ \A i \in (b - 1)..b : v[i] < v[b - 2]
           rose == b >= 3 /\ \A i \in (b - 1)..b : v[i] > v[b - 2]
<1>1. /\ Len(es) \in Nat /\ m \in 0..Len(es) /\ m \in Nat
      /\ H \in SUBSET (1..Len(es)) /\ IsFiniteSet(H) /\ Cardinality(H) \in Nat
      /\ k \in Nat /\ b \in 0..m
      /\ \A i \in H : es[i].rank \in Int
  <2>1. Len(es) \in Nat /\ m \in 0..Len(es) /\ H \in SUBSET (1..Len(es))
    BY ErasTyped
  <2>2. m \in Nat
    BY <2>1
  <2>3. IsFiniteSet(H) /\ Cardinality(H) \in Nat
    <3>1. IsFiniteSet(1..Len(es))
      BY <2>1, FS_Interval
    <3> HIDE DEF H
    <3>2. QED
      BY <2>1, <3>1, FS_Subset, FS_CardinalityType
  <2>4. k \in Nat /\ b \in 0..m
    BY <2>2, RunOf DEF FaultStreak, FiredRun
  <2>5. \A i \in H : es[i].rank \in Int
    BY DEF Ranked, Fired
  <2> HIDE DEF m, H, k, b
  <2>6. QED
    BY <2>1, <2>2, <2>3, <2>4, <2>5
<1>2. /\ a.total = Len(es) /\ a.hits = Cardinality(H) /\ a.clears = k
      /\ Len(v) = b /\ \A i \in 1..b : v[i] = es[(m - b) + i].rank
  BY DEF Agrees
<1>3. ScanState(a) =
        IF Cardinality(H) = 0 THEN "none"
        ELSE IF k >= ResolvedMinEras THEN "resolved"
        ELSE IF k > 0 THEN "dormant"
        ELSE IF fell THEN "improving"
        ELSE IF rose THEN "regression"
        ELSE IF Cardinality(H) = 1 THEN "new"
        ELSE IF Cardinality(H) * ShareDen >= ShareNum * Len(es) THEN "persistent"
        ELSE "recurring"
  BY <1>2 DEF ScanState
<1>4. Cardinality(H) = 0 <=> H = {}
  BY <1>1, FS_EmptySet
<1>5. b >= 3 <=> m >= 3 /\ \A i \in (m - 2)..m : i \in H
  BY <1>1, ThreeInARun DEF FiredRun
<1>6. \A i \in (m - 2)..m : m >= 3 => (i \in H <=> es[i].fired)
  <2>1. DOMAIN es = 1..Len(es) /\ \A i \in (m - 2)..m : m >= 3 => i \in 1..Len(es)
    BY <1>1, ErasTyped
  <2>2. QED
    BY <2>1 DEF Fired
<1>7. ASSUME b >= 3
      PROVE  /\ v[b - 2] = es[m - 2].rank /\ v[b - 1] = es[m - 1].rank /\ v[b] = es[m].rank
             /\ es[m - 2].rank \in Int /\ es[m - 1].rank \in Int /\ es[m].rank \in Int
  <2> HIDE DEF m, b, H, v, k, fell, rose
  <2>1. /\ (m - b) + (b - 2) = m - 2 /\ (m - b) + (b - 1) = m - 1 /\ (m - b) + b = m
        /\ b - 2 \in 1..b /\ b - 1 \in 1..b /\ b \in 1..b
        /\ m - 2 \in (m - 2)..m /\ m - 1 \in (m - 2)..m /\ m \in (m - 2)..m
    <3>1. m \in Nat /\ b \in Nat
      BY <1>1
    <3>2. QED
      BY <1>7, <3>1
  <2>2. m - 2 \in H /\ m - 1 \in H /\ m \in H
    BY <1>5, <1>7, <2>1
  <2>3. v[b - 2] = es[m - 2].rank /\ v[b - 1] = es[m - 1].rank /\ v[b] = es[m].rank
    BY <1>2, <2>1
  <2>4. QED
    BY <1>1, <2>2, <2>3
<1> HIDE DEF m, H, k, b, v
<1>8. /\ \A i \in (b - 1)..b : i = b - 1 \/ i = b
      /\ \A i \in (m - 1)..m : i = m - 1 \/ i = m
      /\ b - 1 \in (b - 1)..b /\ b \in (b - 1)..b
      /\ m - 1 \in (m - 1)..m /\ m \in (m - 1)..m
  BY <1>1
<1>9. Fell(es, m) <=> fell
  <2>1. CASE b >= 3
    <3>1. /\ fell <=> v[b - 1] < v[b - 2] /\ v[b] < v[b - 2]
          /\ Fell(es, m) <=> /\ es[m - 1].rank <= es[m - 2].rank - 1
                             /\ es[m].rank <= es[m - 2].rank - 1
      BY <1>5, <1>6, <1>8, <2>1 DEF Fell
    <3>2. QED
      BY <1>7, <2>1, <3>1
  <2>2. CASE ~(b >= 3)
    BY <1>5, <1>6, <2>2 DEF Fell
  <2>3. QED
    BY <2>1, <2>2
<1>10. Rose(es, m) <=> rose
  <2>1. CASE b >= 3
    <3>1. /\ rose <=> v[b - 1] > v[b - 2] /\ v[b] > v[b - 2]
          /\ Rose(es, m) <=> /\ es[m - 1].rank >= es[m - 2].rank + 1
                             /\ es[m].rank >= es[m - 2].rank + 1
      BY <1>5, <1>6, <1>8, <2>1 DEF Rose
    <3>2. QED
      BY <1>7, <2>1, <3>1
  <2>2. CASE ~(b >= 3)
    BY <1>5, <1>6, <2>2 DEF Rose
  <2>3. QED
    BY <2>1, <2>2
<1>11. ASSUME H # {}, ~(k > 0) PROVE H = {m} <=> Cardinality(H) = 1
  <2>1. m \in H
    <3>1. m \in H \cup Clearing(es) /\ m # 0
      BY <1>11, LatestOf DEF m, H
    <3>2. m \notin Clearing(es)
      BY <1>1, <1>11, <3>1, RunOf DEF FaultStreak, k, m
    <3>3. QED
      BY <3>1, <3>2
  <2>2. Cardinality({m}) = 1
    BY FS_Singleton
  <2>3. ASSUME Cardinality(H) = 1 PROVE H = {m}
    BY <1>1, <2>1, <2>3, FS_Singleton
  <2>4. QED
    BY <2>2, <2>3
<1>12. FaultState(es).state =
         IF H = {} THEN "none"
         ELSE IF k >= ResolvedMinEras THEN "resolved"
         ELSE IF k > 0 THEN "dormant"
         ELSE IF Fell(es, m) THEN "improving"
         ELSE IF Rose(es, m) THEN "regression"
         ELSE ShareState(H, m, Len(es))
  BY VerdictOf DEF m, H, k, Trend
<1> HIDE DEF fell, rose
<1>13. CASE H # {} /\ ~(k > 0)
  BY <1>3, <1>4, <1>9, <1>10, <1>11, <1>12, <1>13 DEF ShareState
<1>14. CASE ~(H # {} /\ ~(k > 0))
  BY <1>3, <1>4, <1>12, <1>14
<1>15. QED
  BY <1>13, <1>14

\* For any eras, the partition decided by stripping, counting back and
\* precedence (fault_tendency_state) is what a reader who goes over the eras
\* once, in order, would say.
THEOREM PartitionIsOnePass ==
  ASSUME NEW es \in Seq(EraData), Ranked(es)
  PROVE  FaultState(es).state = ScanState(Scan(es))
BY ScanAgrees, VerdictFromMemory

-----------------------------------------------------------------------------
(* Type correctness.                                                       *)

LEMMA RecordTyped ==
  ASSUME NEW f \in Facts
  PROVE  EraRecord(f) \in EraData /\ EraRecord(f) \in EraRecords
<1>1. f \in Fact
  BY TendencyAssumption
<1>2. f.band \in Int \cup {Quiet} /\ f.strength \in BOOLEAN /\ f.evaluated \in BOOLEAN
  BY <1>1 DEF Fact
<1>3. EraRecord(f) \in EraData
  BY <1>2 DEF EraRecord, EraData
<1>4. QED
  BY <1>3 DEF EraRecords

LEMMA RecordsOf ==
  ASSUME NEW c \in Seq(Facts)
  PROVE  LET q == [i \in DOMAIN c |-> EraRecord(c[i])]
         IN /\ q \in Seq(EraRecords) /\ q \in Seq(EraData) /\ Len(q) = Len(c)
            /\ \A i \in 1..Len(c) : q[i] = EraRecord(c[i])
<1> DEFINE q == [i \in DOMAIN c |-> EraRecord(c[i])]
<1>1. /\ Len(c) \in Nat /\ DOMAIN c = 1..Len(c)
      /\ \A i \in 1..Len(c) : c[i] \in Facts
  BY LenProperties, ElementOfSeq
<1>2. q \in [1..Len(c) -> EraRecords] /\ q \in [1..Len(c) -> EraData]
  BY <1>1, RecordTyped
<1>3. q \in Seq(EraRecords) /\ q \in Seq(EraData) /\ DOMAIN q = 1..Len(c)
  BY <1>1, <1>2, SeqDef
<1>4. \A i \in 1..Len(c) : q[i] = EraRecord(c[i])
  BY <1>1
<1> HIDE DEF q
<1>5. Len(q) = Len(c)
  BY <1>1, <1>3, LenProperties
<1>6. QED
  BY <1>3, <1>4, <1>5 DEF q

LEMMA ClosedTyped ==
  ASSUME closed \in Seq(Facts)
  PROVE  /\ ClosedRecords \in Seq(EraRecords) /\ ClosedRecords \in Seq(EraData)
         /\ Len(ClosedRecords) = Len(closed) /\ Len(closed) \in Nat
         /\ \A i \in 1..Len(closed) : ClosedRecords[i] = EraRecord(closed[i])
BY RecordsOf, LenProperties DEF ClosedRecords

LEMMA SeenTyped ==
  ASSUME TypeOK, NEW r \in Refreshers
  PROVE  seen[r] \in Seq(EraRecords) /\ seen[r] \in Seq(EraData)
<1>1. seen[r] \in Seq(EraRecords) /\ Len(seen[r]) \in Nat
      /\ seen[r] \in [1..Len(seen[r]) -> EraRecords]
  BY LenProperties DEF TypeOK
<1>2. EraRecords \subseteq EraData
  BY RecordTyped DEF EraRecords
<1>3. seen[r] \in [1..Len(seen[r]) -> EraData]
  <2>1. \A i \in 1..Len(seen[r]) : seen[r][i] \in EraRecords
    BY <1>1
  <2>2. QED
    BY <1>1, <1>2, <2>1
<1>4. QED
  BY <1>1, <1>3, SeqDef

\* The era a refresh listed as open is open until another refresh closes it.
Listing ==
  \A r \in Refreshers : pc[r] = "listed" =>
    /\ Len(seen[r]) <= Len(closed)
    /\ live[r] /\ Len(seen[r]) = Len(closed) => open # NoEra

Typed == TypeOK /\ Listing

LEMMA TypedInit == Init => Typed
<1>1. << >> \in Seq(Facts) /\ << >> \in Seq(EraRecords)
  BY EmptySeq
<1>2. QED
  BY <1>1 DEF Init, Typed, Listing, TypeOK, Unread

LEMMA ListingNext ==
  ASSUME Typed, [Next]_vars
  PROVE  Listing'
<1> SUFFICES ASSUME NEW q \in Refreshers, pc'[q] = "listed"
             PROVE  /\ Len(seen'[q]) <= Len(closed')
                    /\ live'[q] /\ Len(seen'[q]) = Len(closed') => open' # NoEra
  BY DEF Listing
<1>1. Len(closed) \in Nat /\ Len(seen[q]) \in Nat
  BY SeenTyped, LenProperties DEF Typed, TypeOK
<1>2. pc[q] = "listed" => /\ Len(seen[q]) <= Len(closed)
                          /\ live[q] /\ Len(seen[q]) = Len(closed) => open # NoEra
  BY DEF Typed, Listing
<1>3. ASSUME NEW f \in Facts, OpenEraChanges(f)
      PROVE  /\ Len(seen'[q]) <= Len(closed')
             /\ live'[q] /\ Len(seen'[q]) = Len(closed') => open' # NoEra
  BY <1>2, <1>3, TendencyAssumption DEF OpenEraChanges
<1>4. ASSUME NEW r \in Refreshers, EraCloses(r)
      PROVE  /\ Len(seen'[q]) <= Len(closed')
             /\ live'[q] /\ Len(seen'[q]) = Len(closed') => open' # NoEra
  <2>1. open \in Facts
    BY <1>4 DEF EraCloses, Typed, TypeOK
  <2>2. Len(closed') = Len(closed) + 1 /\ seen' = seen /\ pc' = pc
    BY <1>4, <2>1, AppendProperties DEF EraCloses, Typed, TypeOK
  <2>3. QED
    BY <1>1, <1>2, <2>2
<1>5. ASSUME NEW r \in Refreshers, ListEras(r)
      PROVE  /\ Len(seen'[q]) <= Len(closed')
             /\ live'[q] /\ Len(seen'[q]) = Len(closed') => open' # NoEra
  <2>1. Len(ClosedRecords) = Len(closed)
    BY ClosedTyped DEF Typed, TypeOK
  <2>2. CASE q = r
    <3>1. seen'[r] = ClosedRecords /\ UNCHANGED <<closed, open>>
      BY <1>5 DEF ListEras, Typed, TypeOK
    <3>2. live'[r] = (open # NoEra)
      BY <1>5, Zenon DEF ListEras, Typed, TypeOK
    <3>3. live'[q] => open' # NoEra
      BY <2>2, <3>1, <3>2
    <3>4. Len(seen'[q]) <= Len(closed')
      BY <1>1, <2>1, <2>2, <3>1
    <3>5. QED
      BY <3>3, <3>4
  <2>3. CASE q # r
    BY <1>2, <1>5, <2>3 DEF ListEras, Typed, TypeOK
  <2>4. QED
    BY <2>2, <2>3
<1>6. ASSUME NEW r \in Refreshers, ComputeOpen(r) \/ ReadStored(r) \/ Upsert(r) \/ Fail(r)
      PROVE  /\ Len(seen'[q]) <= Len(closed')
             /\ live'[q] /\ Len(seen'[q]) = Len(closed') => open' # NoEra
  <2>1. q # r /\ pc'[q] = pc[q] /\ seen'[q] = seen[q] /\ live'[q] = live[q]
        /\ UNCHANGED <<closed, open>>
    BY <1>6 DEF ComputeOpen, ReadStored, Upsert, Fail, Typed, TypeOK
  <2>2. QED
    BY <1>2, <2>1
<1>7. CASE UNCHANGED vars
  BY <1>2, <1>7 DEF vars
<1>8. QED
  BY <1>3, <1>4, <1>5, <1>6, <1>7 DEF Next

LEMMA TypedNext == Typed /\ [Next]_vars => Typed'
<1> SUFFICES ASSUME Typed, [Next]_vars PROVE TypeOK'
  BY ListingNext DEF Typed
<1> USE DEF Typed
<1>1. ASSUME NEW f \in Facts, OpenEraChanges(f) PROVE TypeOK'
  BY <1>1 DEF OpenEraChanges, TypeOK, history
<1>2. ASSUME NEW r \in Refreshers, EraCloses(r) PROVE TypeOK'
  <2>1. open \in Facts
    BY <1>2 DEF EraCloses, TypeOK
  <2>2. closed' \in Seq(Facts)
    BY <1>2, <2>1, AppendProperties DEF EraCloses, TypeOK
  <2>3. QED
    BY <1>2, <2>2 DEF EraCloses, TypeOK, history
<1>3. ASSUME NEW r \in Refreshers, ListEras(r) PROVE TypeOK'
  <2>1. ClosedRecords \in Seq(EraRecords)
    BY ClosedTyped DEF TypeOK
  <2>2. QED
    BY <1>3, <2>1 DEF ListEras, TypeOK, history
<1>4. ASSUME NEW r \in Refreshers, ComputeOpen(r) PROVE TypeOK'
  <2>1. PICK f \in IF Len(seen[r]) = Len(closed) THEN {open} ELSE Facts :
          seen' = [seen EXCEPT ![r] = IF live[r] THEN Append(@, EraRecord(f)) ELSE @]
    BY <1>4 DEF ComputeOpen
  <2>2. CASE ~live[r]
    BY <1>4, <2>1, <2>2 DEF ComputeOpen, TypeOK, history
  <2>3. CASE live[r] /\ f \in Facts
    <3>1. EraRecord(f) \in EraRecords
      BY <2>3, RecordTyped
    <3>2. Append(seen[r], EraRecord(f)) \in Seq(EraRecords)
      BY <3>1, SeenTyped, AppendProperties
    <3>3. QED
      BY <1>4, <2>1, <2>3, <3>2 DEF ComputeOpen, TypeOK, history
  <2>4. live[r] => f \in Facts
    BY <1>4, <2>1 DEF ComputeOpen, TypeOK, Listing
  <2>5. QED
    BY <2>2, <2>3, <2>4 DEF TypeOK
<1>5. ASSUME NEW r \in Refreshers, ReadStored(r) PROVE TypeOK'
  BY <1>5 DEF ReadStored, TypeOK, history
<1>6. ASSUME NEW r \in Refreshers, Upsert(r) PROVE TypeOK'
  <2>1. ASSUME NEW s \in Sides PROVE rows'[s] \in Outcomes \cup {NoRow}
    <3> DEFINE new == StateOf(s, seen[r])
    <3>1. rows'[s] = IF new.state = "none" THEN rows[s] ELSE RowOf(new, stored[r][s])
      BY <1>6 DEF Upsert
    <3>2. CASE new.state = "none"
      BY <3>1, <3>2 DEF TypeOK
    <3>3. CASE new.state # "none"
      <4>1. new \in Outcomes
        BY <3>3, SeenTyped, OutcomeOf
      <4>2. stored[r][s] \in Outcomes \cup {NoRow}
        BY DEF TypeOK
      <4> HIDE DEF new
      <4>3. RowOf(new, stored[r][s]) \in Outcomes
        BY <4>1, <4>2 DEF RowOf, Outcomes
      <4>4. QED
        BY <3>1, <3>3, <4>3
    <3>4. QED
      BY <3>2, <3>3
  <2>2. rows' \in [Sides -> Outcomes \cup {NoRow}]
    BY <1>6, <2>1 DEF Upsert
  <2>3. Unread \in [Sides -> Outcomes \cup {NoRow}]
    BY DEF Unread
  <2>4. QED
    BY <1>6, <2>2, <2>3 DEF Upsert, TypeOK
<1>7. ASSUME NEW r \in Refreshers, Fail(r) PROVE TypeOK'
  <2>1. << >> \in Seq(EraRecords) /\ Unread \in [Sides -> Outcomes \cup {NoRow}]
    BY EmptySeq DEF Unread
  <2>2. QED
    BY <1>7, <2>1 DEF Fail, TypeOK
<1>8. CASE UNCHANGED vars
  BY <1>8 DEF vars, TypeOK
<1>9. QED
  BY <1>1, <1>2, <1>3, <1>4, <1>5, <1>6, <1>7, <1>8 DEF Next

\* The projection is typed.
THEOREM TypeCorrect == Spec => []TypeOK
<1>1. Typed => TypeOK
  BY DEF Typed
<1>2. QED
  BY <1>1, TypedInit, TypedNext, PTL DEF Spec

\* docs/SPEC.md A59, one closed era at a time: what an era without signal, a
\* clearing era and a fired era may make of the verdict on a fault.
THEOREM VerdictStepsEver == Spec => VerdictSteps
<1> DEFINE Step ==
       LET e == EraRecord(open)
           before == FaultState(ClosedRecords).state
           after == FaultState(Append(ClosedRecords, e)).state
           gap == LatestFault(ClosedRecords) # Len(closed)
       IN /\ ~e.fired /\ ~IsClearing(e) =>
               after = before \/ (before = "persistent" /\ after = "recurring")
          /\ IsClearing(e) => IF before = "none" THEN after = "none"
                              ELSE after \in {"dormant", "resolved"}
          /\ IsClearing(e) /\ before = "resolved" /\ ~gap => after = "resolved"
          /\ e.fired => /\ after \notin {"none", "dormant", "resolved"}
                        /\ after = "new" <=> before = "none"
                        /\ after \in {"improving", "regression"} =>
                             /\ ~gap
                             /\ before \notin {"none", "new", "dormant", "resolved"}
<1>1. ASSUME Typed, [Next]_vars, closed' # closed PROVE Step
  <2>1. open \in Facts
    BY <1>1 DEF Next, OpenEraChanges, EraCloses, ListEras, ComputeOpen, ReadStored, Upsert,
                Fail, vars, Typed, TypeOK
  <2>2. EraRecord(open) \in EraData
    BY <2>1, RecordTyped
  <2>3. ClosedRecords \in Seq(EraData) /\ Len(ClosedRecords) = Len(closed)
    BY <1>1, ClosedTyped DEF Typed, TypeOK
  <2>4. PICK e : e = EraRecord(open)
    OBVIOUS
  <2>5. PICK es : es = ClosedRecords
    OBVIOUS
  <2>6. e \in EraData /\ es \in Seq(EraData) /\ Len(es) = Len(closed)
    BY <2>2, <2>3, <2>4, <2>5
  <2> DEFINE before == FaultState(es).state
             after == FaultState(Append(es, e)).state
  <2>7. ~e.fired /\ ~IsClearing(e) =>
          after = before \/ (before = "persistent" /\ after = "recurring")
    BY <2>6, ThinStep
  <2>8. IsClearing(e) => /\ IF before = "none" THEN after = "none"
                            ELSE after \in {"dormant", "resolved"}
                         /\ before = "resolved" /\ LatestFault(es) = Len(es) =>
                              after = "resolved"
    BY <2>6, ClearingStep
  <2>9. e.fired => /\ after \notin {"none", "dormant", "resolved"}
                   /\ after = "new" <=> before = "none"
                   /\ after \in {"improving", "regression"} =>
                        /\ LatestFault(es) = Len(es)
                        /\ before \notin {"none", "new", "dormant", "resolved"}
    BY <2>6, FiredStep
  <2> HIDE DEF before, after
  <2>10. QED
    BY <2>4, <2>5, <2>6, <2>7, <2>8, <2>9 DEF before, after
<1>2. ASSUME Typed, [Next]_vars PROVE [closed' # closed => Step]_vars
  BY <1>1, <1>2
<1>3. QED
  BY <1>2, TypedInit, TypedNext, PTL DEF Spec, VerdictSteps

-----------------------------------------------------------------------------
(* The projection, whichever refreshes overlap.                            *)

\* No era that is closed and older than n shows the pattern.
NoneBefore(s, n) ==
  /\ n \in 1..(Len(closed) + 1)
  /\ \A i \in 1..(n - 1) : ~Showed(s, closed[i])

\* What a refresh knows of the eras: those that were closed when it listed them
\* and, once computed, one more.
Views ==
  \A r \in Refreshers : pc[r] # "idle" =>
    /\ Len(seen[r]) <= Len(closed) + 1
    /\ \A i \in 1..(Len(seen[r]) - 1) : seen[r][i] = EraRecord(closed[i])
    /\ pc[r] = "listed" =>
         /\ Len(seen[r]) <= Len(closed)
         /\ \A i \in 1..Len(seen[r]) : seen[r][i] = EraRecord(closed[i])

\* Rows look back from an era that is closed or open, and so do those that
\* were read and may be written back.
LooksBack ==
  /\ \A s \in Sides : rows[s] # NoRow => NoneBefore(s, rows[s].firstSeen)
  /\ \A r \in Refreshers, s \in Sides :
       stored[r][s] # NoRow => NoneBefore(s, stored[r][s].firstSeen)

\* Who has not been overtaken has the rows as they are.
Fresh == \A r \in Refreshers : pc[r] = "stored" /\ r \notin overtaken => stored[r] = rows

\* What the refresh that upserted last left.
Told ==
  \A r \in latest, s \in Sides :
    LET new == StateOf(s, seen[r])
    IN pc[r] = "idle" /\ seen[r] # << >> /\ new.state # "none" =>
         rows[s] # NoRow /\ rows[s] = [new EXCEPT !.firstSeen = rows[s].firstSeen]

LEMMA ProjectionInit == Init => Views /\ LooksBack /\ Fresh /\ Told
BY DEF Init, Views, LooksBack, Fresh, Told, Unread

\* Closing an era changes none that was closed.
LEMMA Closes ==
  ASSUME Typed, NEW r \in Refreshers, EraCloses(r)
  PROVE  /\ Len(closed) \in Nat /\ Len(closed') = Len(closed) + 1
         /\ \A i \in 1..Len(closed) : closed'[i] = closed[i]
         /\ UNCHANGED <<rows, pc, seen, stored, overtaken, latest>>
<1>1. open \in Facts
  BY DEF EraCloses, Typed, TypeOK
<1>2. QED
  BY <1>1, AppendProperties, LenProperties DEF EraCloses, Typed, TypeOK, history

LEMMA ViewsNext ==
  ASSUME Typed, Views, [Next]_vars
  PROVE  Views'
<1> SUFFICES ASSUME NEW q \in Refreshers, pc'[q] # "idle"
             PROVE  /\ Len(seen'[q]) <= Len(closed') + 1
                    /\ \A i \in 1..(Len(seen'[q]) - 1) : seen'[q][i] = EraRecord(closed'[i])
                    /\ pc'[q] = "listed" =>
                         /\ Len(seen'[q]) <= Len(closed')
                         /\ \A i \in 1..Len(seen'[q]) : seen'[q][i] = EraRecord(closed'[i])
  BY DEF Views
<1>1. Len(closed) \in Nat /\ seen[q] \in Seq(EraRecords) /\ Len(seen[q]) \in Nat
  BY SeenTyped, LenProperties DEF Typed, TypeOK
<1>2. pc[q] # "idle" =>
        /\ Len(seen[q]) <= Len(closed) + 1
        /\ \A i \in 1..(Len(seen[q]) - 1) : seen[q][i] = EraRecord(closed[i])
        /\ pc[q] = "listed" =>
             /\ Len(seen[q]) <= Len(closed)
             /\ \A i \in 1..Len(seen[q]) : seen[q][i] = EraRecord(closed[i])
  BY DEF Views
<1>3. CASE pc'[q] = pc[q] /\ UNCHANGED <<closed, seen>>
  BY <1>2, <1>3
<1>4. CASE \E r \in Refreshers : EraCloses(r)
  <2>1. /\ Len(closed') = Len(closed) + 1
        /\ \A i \in 1..Len(closed) : closed'[i] = closed[i]
        /\ UNCHANGED <<pc, seen>>
    BY <1>4, Closes
  <2>2. \A i \in 1..(Len(seen[q]) - 1) : i \in 1..Len(closed)
    BY <1>1, <1>2, <2>1
  <2>3. pc[q] = "listed" => \A i \in 1..Len(seen[q]) : i \in 1..Len(closed)
    BY <1>1, <1>2, <2>1
  <2>4. QED
    BY <1>1, <1>2, <2>1, <2>2, <2>3
<1>5. CASE ListEras(q)
  <2>1. seen'[q] = ClosedRecords /\ closed' = closed /\ pc'[q] = "listed"
    BY <1>5 DEF ListEras, Typed, TypeOK
  <2>2. Len(ClosedRecords) = Len(closed)
        /\ \A i \in 1..Len(closed) : ClosedRecords[i] = EraRecord(closed[i])
    BY ClosedTyped DEF Typed, TypeOK
  <2>3. QED
    BY <1>1, <2>1, <2>2
<1>6. CASE ComputeOpen(q)
  <2>1. pc[q] = "listed" /\ pc'[q] = "computed" /\ closed' = closed /\ pc[q] # "idle"
    BY <1>6 DEF ComputeOpen, Typed, TypeOK
  <2>2. PICK f \in IF Len(seen[q]) = Len(closed) THEN {open} ELSE Facts :
          seen' = [seen EXCEPT ![q] = IF live[q] THEN Append(@, EraRecord(f)) ELSE @]
    BY <1>6 DEF ComputeOpen
  <2>3. CASE ~live[q]
    <3>1. seen'[q] = seen[q]
      BY <2>2, <2>3 DEF Typed, TypeOK
    <3>2. QED
      BY <1>1, <1>2, <2>1, <3>1
  <2>4. CASE live[q]
    <3>1. f \in Facts
      BY <2>1, <2>2, <2>4 DEF Typed, TypeOK, Listing
    <3>2. EraRecord(f) \in EraRecords
      BY <3>1, RecordTyped
    <3>3. seen'[q] = Append(seen[q], EraRecord(f))
      BY <2>2, <2>4 DEF Typed, TypeOK
    <3>4. /\ Len(seen'[q]) = Len(seen[q]) + 1
          /\ \A i \in 1..Len(seen[q]) : seen'[q][i] = seen[q][i]
      BY <1>1, <3>2, <3>3, AppendProperties
    <3>5. QED
      BY <1>1, <1>2, <2>1, <3>4
  <2>5. QED
    BY <2>3, <2>4
<1>7. CASE ReadStored(q)
  BY <1>2, <1>7 DEF ReadStored, Typed, TypeOK
<1>8. CASE Upsert(q) \/ Fail(q)
  <2>1. pc'[q] = "idle"
    BY <1>8 DEF Upsert, Fail, Typed, TypeOK
  <2>2. QED
    BY <2>1
<1>9. ASSUME NEW r \in Refreshers, r # q,
             ListEras(r) \/ ComputeOpen(r) \/ ReadStored(r) \/ Upsert(r) \/ Fail(r)
      PROVE  pc'[q] = pc[q] /\ seen'[q] = seen[q] /\ closed' = closed
  BY <1>9 DEF ListEras, ComputeOpen, ReadStored, Upsert, Fail, Typed, TypeOK
<1>10. QED
  BY <1>2, <1>3, <1>4, <1>5, <1>6, <1>7, <1>8, <1>9
     DEF Next, vars, OpenEraChanges

\* The row a refresh writes, whatever it has read.
LEMMA Upserts ==
  ASSUME Typed, NEW r \in Refreshers, Upsert(r), NEW s \in Sides
  PROVE  LET new == StateOf(s, seen[r])
             old == stored[r][s]
         IN /\ new.state = "none" => rows'[s] = rows[s]
            /\ new.state # "none" =>
                 /\ new \in Outcomes /\ rows'[s] \in Outcomes /\ rows'[s] # NoRow
                 /\ rows'[s] = [new EXCEPT !.firstSeen = rows'[s].firstSeen]
                 /\ rows'[s].firstSeen = IF old = NoRow THEN new.firstSeen
                                         ELSE old.firstSeen
<1> DEFINE new == StateOf(s, seen[r])
           old == stored[r][s]
<1>1. rows'[s] = IF new.state = "none" THEN rows[s] ELSE RowOf(new, old)
  BY DEF Upsert
<1>2. new.state # "none" => new \in Outcomes
  BY SeenTyped, OutcomeOf DEF Typed
<1>3. old \in Outcomes \cup {NoRow}
  BY DEF Typed, TypeOK
<1> HIDE DEF new, old
<1>4. ASSUME new.state # "none"
      PROVE  /\ rows'[s] \in Outcomes
             /\ rows'[s] = [new EXCEPT !.firstSeen = rows'[s].firstSeen]
             /\ rows'[s].firstSeen = IF old = NoRow THEN new.firstSeen ELSE old.firstSeen
  BY <1>1, <1>2, <1>3, <1>4 DEF RowOf, Outcomes
<1>5. QED
  BY <1>1, <1>2, <1>4, TendencyAssumption DEF new, old

LEMMA FreshNext ==
  ASSUME Typed, Fresh, [Next]_vars
  PROVE  Fresh'
<1> SUFFICES ASSUME NEW q \in Refreshers, pc'[q] = "stored", q \notin overtaken'
             PROVE  stored'[q] = rows'
  BY DEF Fresh
<1>1. ASSUME pc[q] = "stored", q \notin overtaken, UNCHANGED rows, stored'[q] = stored[q]
      PROVE  stored'[q] = rows'
  BY <1>1 DEF Fresh
<1>2. CASE ReadStored(q)
  BY <1>2 DEF ReadStored, Typed, TypeOK
<1>3. ASSUME ListEras(q) \/ ComputeOpen(q) \/ Upsert(q) \/ Fail(q) PROVE FALSE
  BY <1>3 DEF ListEras, ComputeOpen, Upsert, Fail, Typed, TypeOK
<1>4. ASSUME NEW r \in Refreshers, r # q, Upsert(r) PROVE FALSE
  BY <1>4 DEF Upsert, Typed, TypeOK
<1>5. ASSUME NEW r \in Refreshers, r # q,
             ListEras(r) \/ ComputeOpen(r) \/ ReadStored(r) \/ Fail(r)
      PROVE  pc[q] = "stored" /\ q \notin overtaken /\ rows' = rows /\ stored'[q] = stored[q]
  BY <1>5 DEF ListEras, ComputeOpen, ReadStored, Fail, Typed, TypeOK, history
<1>6. QED
  BY <1>1, <1>2, <1>3, <1>4, <1>5 DEF Next, vars, OpenEraChanges, EraCloses, history

LEMMA ToldNext ==
  ASSUME Typed, Told, [Next]_vars
  PROVE  Told'
<1>1. ASSUME NEW r \in Refreshers, Upsert(r) PROVE Told'
  <2>1. latest' = {r} /\ UNCHANGED seen
    BY <1>1 DEF Upsert
  <2>2. ASSUME NEW s \in Sides, StateOf(s, seen[r]).state # "none"
        PROVE  /\ rows'[s] # NoRow
               /\ rows'[s] = [StateOf(s, seen[r]) EXCEPT !.firstSeen = rows'[s].firstSeen]
    BY <1>1, <2>2, Upserts
  <2>3. QED
    BY <2>1, <2>2 DEF Told
<1>2. ASSUME UNCHANGED <<rows, latest>>,
             \A q \in Refreshers : pc'[q] = "idle" /\ seen'[q] # << >> =>
               pc[q] = "idle" /\ seen'[q] = seen[q]
      PROVE  Told'
  BY <1>2 DEF Told, Typed, TypeOK
<1>3. ASSUME NEW r \in Refreshers,
             ListEras(r) \/ ComputeOpen(r) \/ ReadStored(r) \/ Fail(r)
      PROVE  Told'
  <2>1. UNCHANGED <<rows, latest>>
    BY <1>3 DEF ListEras, ComputeOpen, ReadStored, Fail, history
  <2>2. \A q \in Refreshers : pc'[q] = "idle" /\ seen'[q] # << >> =>
          pc[q] = "idle" /\ seen'[q] = seen[q]
    BY <1>3 DEF ListEras, ComputeOpen, ReadStored, Fail, Typed, TypeOK
  <2>3. QED
    BY <1>2, <2>1, <2>2
<1>4. QED
  BY <1>1, <1>2, <1>3 DEF Next, vars, OpenEraChanges, EraCloses, history

\* The first era a refresh reports itself is one before which none shows the
\* pattern.
LEMMA ReportsFirst ==
  ASSUME Typed, Views, NEW r \in Refreshers, pc[r] # "idle", NEW s \in Sides,
         StateOf(s, seen[r]).state # "none"
  PROVE  NoneBefore(s, StateOf(s, seen[r]).firstSeen)
<1> DEFINE n == Len(closed)
           es == seen[r]
           H == Hits(s, es)
           k == Len(es)
<1>1. /\ n \in Nat /\ es \in Seq(EraData) /\ k \in Nat /\ k <= n + 1
      /\ \A i \in 1..(k - 1) : es[i] = EraRecord(closed[i])
  BY SeenTyped, LenProperties DEF Typed, TypeOK, Views
<1>2. StateOf(s, es).firstSeen = First0(H) /\ H # {}
  BY <1>1, OutcomeOf
<1>3. /\ H \in SUBSET (1..k)
      /\ \A i \in 1..k : i \in H <=> (IF s = "fault" THEN es[i].fired ELSE es[i].strength)
  <2>1. DOMAIN es = 1..k
    BY <1>1, LenProperties
  <2>2. QED
    BY <2>1 DEF Hits, Fired, Shown
<1> HIDE DEF H, es, n, k
<1>4. First0(H) \in H /\ \A j \in H : First0(H) <= j
  BY <1>1, <1>2, <1>3, FirstOf
<1>5. PICK m : m = First0(H)
  OBVIOUS
<1>6. m \in 1..k /\ m \in 1..(n + 1)
  <2>1. m \in 1..k
    BY <1>3, <1>4, <1>5
  <2>2. k \in Nat /\ n \in Nat /\ k <= n + 1
    BY <1>1
  <2>3. QED
    BY <2>1, <2>2
<1>7. ASSUME NEW i \in 1..(m - 1) PROVE ~Showed(s, closed[i])
  <2>1. i \in 1..k /\ i \in 1..(k - 1) /\ ~(m <= i)
    BY <1>1, <1>6
  <2>2. i \notin H
    BY <1>4, <1>5, <2>1
  <2>3. es[i] = EraRecord(closed[i])
    BY <1>1, <2>1
  <2>4. QED
    BY <1>3, <2>1, <2>2, <2>3 DEF Showed
<1>8. QED
  BY <1>2, <1>5, <1>6, <1>7 DEF NoneBefore, n, es

LEMMA LooksBackNext ==
  ASSUME Typed, Views, LooksBack, [Next]_vars
  PROVE  LooksBack'
<1>1. ASSUME UNCHANGED <<closed, rows, stored>> PROVE LooksBack'
  BY <1>1 DEF LooksBack, NoneBefore
<1>2. ASSUME NEW r \in Refreshers, EraCloses(r) PROVE LooksBack'
  <2>1. /\ Len(closed) \in Nat /\ Len(closed') = Len(closed) + 1
        /\ \A i \in 1..Len(closed) : closed'[i] = closed[i]
        /\ UNCHANGED <<rows, stored>>
    BY <1>2, Closes
  <2>2. ASSUME NEW s \in Sides, NEW n, NoneBefore(s, n) PROVE NoneBefore(s, n)'
    <3>1. n \in 1..(Len(closed) + 1) /\ \A i \in 1..(n - 1) : ~Showed(s, closed[i])
      BY <2>2 DEF NoneBefore
    <3>2. n \in 1..(Len(closed') + 1) /\ \A i \in 1..(n - 1) : i \in 1..Len(closed)
      BY <2>1, <3>1
    <3>3. QED
      BY <2>1, <3>1, <3>2 DEF NoneBefore
  <2>3. QED
    BY <2>1, <2>2 DEF LooksBack, Typed, TypeOK
<1>3. ASSUME NEW r \in Refreshers, Upsert(r) PROVE LooksBack'
  <2>1. UNCHANGED closed /\ pc[r] # "idle"
    BY <1>3 DEF Upsert
  <2>2. \A q \in Refreshers, s \in Sides :
          stored'[q][s] = NoRow \/ stored'[q][s] = stored[q][s]
    BY <1>3 DEF Upsert, Unread, Typed, TypeOK
  <2>3. ASSUME NEW s \in Sides, rows'[s] # NoRow PROVE NoneBefore(s, rows'[s].firstSeen)
    <3>1. CASE StateOf(s, seen[r]).state = "none"
      BY <1>3, <2>3, <3>1, Upserts DEF LooksBack
    <3>2. CASE StateOf(s, seen[r]).state # "none"
      BY <1>3, <2>1, <3>2, Upserts, ReportsFirst DEF LooksBack
    <3>3. QED
      BY <3>1, <3>2
  <2>4. QED
    BY <2>1, <2>2, <2>3 DEF LooksBack, NoneBefore
<1>4. ASSUME NEW r \in Refreshers, ReadStored(r) \/ Fail(r) PROVE LooksBack'
  <2>1. UNCHANGED <<closed, rows>>
    BY <1>4 DEF ReadStored, Fail
  <2>2. \A q \in Refreshers, s \in Sides :
          stored'[q][s] \in {NoRow, stored[q][s], rows[s]}
    <3>1. CASE ReadStored(r)
      BY <3>1 DEF ReadStored, Typed, TypeOK
    <3>2. CASE Fail(r)
      <4>1. stored' = [stored EXCEPT ![r] = Unread]
        BY <3>2 DEF Fail
      <4>2. QED
        BY <4>1 DEF Unread, Typed, TypeOK
    <3>3. QED
      BY <1>4, <3>1, <3>2
  <2>3. QED
    BY <2>1, <2>2 DEF LooksBack, NoneBefore
<1>5. QED
  BY <1>1, <1>2, <1>3, <1>4 DEF Next, vars, OpenEraChanges, ListEras, ComputeOpen

\* No closed era before the one a row was first seen in shows the pattern,
\* whichever refreshes overlapped.
THEOREM FirstSeenIsFirstEver == Spec => []FirstSeenIsFirst
<1>1. LooksBack => FirstSeenIsFirst
  BY DEF LooksBack, FirstSeenIsFirst, NoneBefore
<1>2. QED
  BY <1>1, TypedInit, TypedNext, ProjectionInit, ViewsNext, LooksBackNext, PTL DEF Spec

\* A row never goes away, and only the upsert of an overtaken refresh rewrites
\* when it was first seen.
THEOREM OnlyOvertakenRewriteEver == Spec => OnlyOvertakenRewrite
<1> DEFINE Step == \A s \in Sides : rows[s] # NoRow =>
                     /\ rows'[s] # NoRow
                     /\ KeepsFirstSeen(s) \/ \E r \in overtaken : Upsert(r)
<1>1. ASSUME Typed, Fresh, [Next]_vars PROVE Step
  <2>1. ASSUME NEW r \in Refreshers, Upsert(r), NEW s \in Sides, rows[s] # NoRow
        PROVE  rows'[s] # NoRow /\ (KeepsFirstSeen(s) \/ r \in overtaken)
    <3>1. rows'[s] # NoRow
      BY <1>1, <2>1, Upserts
    <3>2. ASSUME r \notin overtaken PROVE KeepsFirstSeen(s)
      <4>1. stored[r][s] = rows[s]
        BY <1>1, <2>1, <3>2 DEF Fresh, Upsert
      <4>2. QED
        BY <1>1, <2>1, <3>1, <4>1, Upserts DEF KeepsFirstSeen
    <3>3. QED
      BY <3>1, <3>2
  <2>2. rows' = rows \/ \E r \in Refreshers : Upsert(r)
    BY <1>1 DEF Next, vars, OpenEraChanges, EraCloses, ListEras, ComputeOpen, ReadStored, Fail
  <2>3. QED
    BY <2>1, <2>2 DEF KeepsFirstSeen
<1>2. ASSUME Typed, Fresh, [Next]_vars PROVE [Step]_vars
  BY <1>1, <1>2
<1>3. QED
  BY <1>2, TypedInit, TypedNext, ProjectionInit, FreshNext, PTL DEF Spec, OnlyOvertakenRewrite

\* The refresh that upserted last leaves the rows that the eras, as it read
\* them, give.
THEOREM ProjectionCurrentEver == Spec => []ProjectionCurrent
<1>1. Told => ProjectionCurrent
  BY DEF Told, ProjectionCurrent, Current
<1>2. QED
  BY <1>1, TypedInit, TypedNext, ProjectionInit, ToldNext, PTL DEF Spec

\* The partition of the eras as they are is what one forward pass gives.
THEOREM PartitionIsForwardEver == Spec => []PartitionIsForward
<1>1. Typed => PartitionIsForward
  <2> SUFFICES ASSUME Typed PROVE PartitionIsForward
    OBVIOUS
  <2>1. closed \in Seq(Facts) /\ open \in Facts \cup {NoEra}
    BY DEF Typed, TypeOK
  <2>2. ClosedRecords \in Seq(EraRecords)
    BY <2>1, ClosedTyped
  <2>3. open # NoEra => EraRecord(open) \in EraRecords
    BY <2>1, RecordTyped
  <2>4. Records \in Seq(EraRecords)
    BY <2>2, <2>3, AppendProperties DEF Records
  <2>5. PICK es : es = Records
    OBVIOUS
  <2>6. /\ Len(es) \in Nat /\ DOMAIN es = 1..Len(es) /\ es \in [1..Len(es) -> EraRecords]
    BY <2>4, <2>5, LenProperties
  <2>7. \A e \in EraRecords : e \in EraData /\ (e.fired => e.rank \in Int)
    <3>1. SUFFICES ASSUME NEW f \in Facts
                   PROVE  /\ EraRecord(f) \in EraData
                          /\ EraRecord(f).fired => EraRecord(f).rank \in Int
      BY DEF EraRecords
    <3>2. f \in Fact
      BY TendencyAssumption
    <3>3. f.band \in Int \cup {Quiet}
      BY <3>2 DEF Fact
    <3>4. EraRecord(f).fired => EraRecord(f).rank \in Int
      BY <3>3 DEF EraRecord
    <3>5. QED
      BY <3>4, RecordTyped
  <2>8. es \in [1..Len(es) -> EraData]
    <3>1. \A i \in 1..Len(es) : es[i] \in EraRecords
      BY <2>6
    <3>2. QED
      BY <2>6, <2>7, <3>1
  <2>9. es \in Seq(EraData) /\ Ranked(es)
    BY <2>6, <2>7, <2>8, SeqDef DEF Ranked
  <2>10. QED
    BY <2>5, <2>9, PartitionIsOnePass DEF PartitionIsForward
<1>2. QED
  BY <1>1, TypedInit, TypedNext, PTL DEF Spec

=============================================================================
