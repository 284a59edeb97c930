--------------------------- MODULE CoachingProofs ---------------------------
(***************************************************************************)
(* Proofs about Coaching, for any corpus, any thresholds and any windows   *)
(* of the corners.  What a driver is told is what was computed when he     *)
(* last looked, so that a property of all answers is first proved of the   *)
(* answer a corpus gives; the corpus owes it Recorded.                     *)
(***************************************************************************)
EXTENDS Coaching, FiniteSetTheorems, SequenceTheorems, WellFoundedInduction, TLAPS

\* Times and readings are numbers.
Counted(lap) ==
  \A c \in DOMAIN lap.seen :
    /\ \A p \in DOMAIN lap.seen[c].times : lap.seen[c].times[p] \in Int
    /\ \A m \in DOMAIN lap.seen[c].metrics : lap.seen[c].metrics[m] \in Int

\* Laps are marked, never removed, and only reference laps are; the thresholds
\* are ones a file may hold.
Recorded ==
  /\ config \in Configs
  /\ \E S : laps \in Seq(S)
  /\ \A l \in All : Counted(laps[l])
  /\ \A l \in excluded : l \in All /\ laps[l].role = "reference"

LEMMA RecordedInit == Init => Recorded
<1>1. << >> \in Seq({})
  OBVIOUS
<1> QED
  BY <1>1 DEF Init, Recorded, All

LEMMA DetectedIsCounted ==
  ASSUME NEW d \in Drives
  PROVE  Counted(Detected(d))
<1> DEFINE seen == [c \in DOMAIN d.seen |->
                      [times |-> d.seen[c].times, metrics |-> d.seen[c].metrics,
                       detectors |-> Verdicts(d.seen[c].landmarks, d.seen[c].metrics)]]
<1>1. Detected(d).seen = seen
  BY CoachingAssumption DEF Detected, CoachingAssumption
<1>2. \A c \in DOMAIN seen : /\ c \in DOMAIN d.seen /\ seen[c].times = d.seen[c].times
                            /\ seen[c].metrics = d.seen[c].metrics
  OBVIOUS
<1> HIDE DEF seen
<1> QED
  BY <1>1, <1>2, CoachingAssumption DEF Counted, CoachingAssumption

LEMMA RecordedNext == Recorded /\ [Next]_vars => Recorded'
<1> SUFFICES ASSUME Recorded, [Next]_vars PROVE Recorded'
  OBVIOUS
<1>1. ASSUME NEW d \in Drives, Import(d) PROVE Recorded'
  <2> DEFINE x == Detected(d)
  <2>1. laps' = Append(laps, x) /\ UNCHANGED <<config, excluded>>
    BY <1>1 DEF Import
  <2> HIDE DEF x
  <2>2. PICK S : laps \in Seq(S)
    BY DEF Recorded
  <2> DEFINE T == S \cup {x}
  <2>3. laps \in Seq(T) /\ x \in T
    BY <2>2
  <2> HIDE DEF T
  <2>4. /\ laps' \in Seq(T) /\ \A l \in All : l \in DOMAIN laps' /\ laps'[l] = laps[l]
        /\ \A l \in DOMAIN laps' : l \in All \/ laps'[l] = x
    BY <2>1, <2>3 DEF All
  <2>5. \E U : laps' \in Seq(U)
    BY <2>4
  <2>6. Counted(x)
    BY DetectedIsCounted DEF x
  <2>7. \A l \in DOMAIN laps' : Counted(laps'[l])
    BY <2>4, <2>6 DEF Recorded
  <2> QED
    BY <2>1, <2>4, <2>5, <2>7 DEF Recorded, All
<1>2. ASSUME NEW l \in All, Exclude(l) PROVE Recorded'
  BY <1>2 DEF Exclude, Recorded, All
<1>3. ASSUME NEW l \in All, Include(l) PROVE Recorded'
  BY <1>3 DEF Include, Recorded, All
<1>4. CASE Read
  BY <1>4 DEF Read, Recorded, All
<1>5. CASE UNCHANGED vars
  BY <1>5 DEF vars, Recorded, All
<1> QED
  BY <1>1, <1>2, <1>3, <1>4, <1>5 DEF Next

-----------------------------------------------------------------------------
(* One voice.                                                              *)

\* What a page and the rollup say of a cohort.
OneSpeaks(page, listed, weak) ==
  LET said == page.faults \cup page.strengths \cup listed
      spoken == {x.corner : x \in {y \in said : y.id = Voices[weak]}}
  IN \A x \in page.headline \cup said : x.id = weak => x.corner \notin spoken

LEMMA OnePageOneVoice ==
  ASSUME NEW faults, NEW wins, NEW weak \in DOMAIN Voices, NEW listed,
         listed \subseteq Shown(faults, faults, wins) \cup Shown(wins, faults, wins)
  PROVE  OneSpeaks(Selection(faults, wins), listed, weak)
<1> DEFINE page == Selection(faults, wins)
           said == page.faults \cup page.strengths \cup listed
           spoken == {x.corner : x \in {y \in said : y.id = Voices[weak]}}
<1>1. /\ page.headline = Headlines(faults, wins)
      /\ page.faults = {x \in Shown(faults, faults, wins) : x.band # "negligible"}
      /\ page.strengths = Shown(wins, faults, wins)
  BY DEF Selection
<1>2. page.headline \subseteq Shown(faults, faults, wins)
  BY <1>1 DEF Headlines
<1>3. page.headline \cup said
        \subseteq Shown(faults, faults, wins) \cup Shown(wins, faults, wins)
  BY <1>1, <1>2
<1>4. said \subseteq faults \cup wins
  BY <1>3 DEF Shown
<1>5. spoken \subseteq Covered(Voices[weak], faults, wins)
  BY <1>4 DEF Covered
<1>6. \A x \in page.headline \cup said : Presentable(x, faults, wins)
  BY <1>3 DEF Shown
<1>7. \A x \in page.headline \cup said :
        x.id = weak => x.corner \notin Covered(Voices[weak], faults, wins)
  BY <1>6 DEF Presentable
<1> QED
  BY <1>5, <1>7 DEF OneSpeaks

LEMMA AnswerHasOneVoice == VoiceIn(Answer)
<1> DEFINE F(h) == Claims(All, h).faults
           W(h) == Claims(All, h).strengths
<1> SUFFICES ASSUME NEW h \in DOMAIN Answer.pages, NEW weak \in DOMAIN Voices
             PROVE  LET page == Answer.pages[h]
                        listed == {i[2] : i \in {j \in Answer.rollup.faults \cup Answer.rollup.strengths :
                                                  j[1] = h}}
                        spoken == {x.corner : x \in {y \in page.faults \cup page.strengths \cup listed :
                                                       y.id = Voices[weak]}}
                    IN \A x \in page.headline \cup page.faults \cup page.strengths \cup listed :
                         x.id = weak => x.corner \notin spoken
  BY DEF VoiceIn
<1>1. Answer.pages = [k \in Cohorts |-> Selection(F(k), W(k))]
  BY DEF Answer, Payload, Page
<1>2. h \in Cohorts /\ Answer.pages[h] = Selection(F(h), W(h))
  BY <1>1
<1> DEFINE shown(k, S) == {<<k, x>> : x \in Shown(S, F(k), W(k))}
<1>3. /\ Answer.rollup.faults = UNION {shown(k, F(k)) : k \in Cohorts}
      /\ Answer.rollup.strengths = UNION {shown(k, W(k)) : k \in Cohorts}
  BY DEF Answer, Payload, Rollup
<1> DEFINE listed == {i[2] : i \in {j \in Answer.rollup.faults \cup Answer.rollup.strengths :
                                     j[1] = h}}
<1>4. listed \subseteq Shown(F(h), F(h), W(h)) \cup Shown(W(h), F(h), W(h))
  <2> HIDE DEF F, W
  <2> QED
    BY <1>3
<1> HIDE DEF F, W, listed
<1>5. OneSpeaks(Selection(F(h), W(h)), listed, weak)
  BY <1>4, OnePageOneVoice
<1> QED
  BY <1>2, <1>5 DEF listed, OneSpeaks

-----------------------------------------------------------------------------
(* Evidence.                                                               *)

GateKinds == {"detector", "dispersion", "stat", "finding"}

\* Every principle has a gate of one of the four kinds the code knows.
LEMMA PrincipleKinds ==
  \A id \in DOMAIN Principles : Principles[id].gate.kind \in GateKinds
<1> DEFINE Known(g) == \A id \in DOMAIN g : g[id].gate.kind \in GateKinds
<1>1. Known(EntryDetectors) /\ Known(LaterDetectors) /\ Known(FindingPrinciples)
  BY DEF EntryDetectors, LaterDetectors, FindingPrinciples, Principle, Detector,
         Finding, GateKinds
<1>2. Known(DispersionPrinciples) /\ Known(VehicleStats)
  BY DEF DispersionPrinciples, VehicleStats, Principle, Dispersion, Stat, GateKinds
<1>3. Known(EntryStats) /\ Known(LaterStats)
  BY DEF EntryStats, LaterStats, Principle, Stat, GateKinds
<1>4. \A g \in PrincipleGroups : Known(g)
  <2> HIDE DEF Known
  <2> QED
    BY <1>1, <1>2, <1>3 DEF PrincipleGroups
<1>5. ASSUME NEW id \in DOMAIN Principles PROVE Principles[id].gate.kind \in GateKinds
  <2>1. id \in UNION {DOMAIN g : g \in PrincipleGroups}
    BY DEF Principles
  <2>2. PICK g \in PrincipleGroups :
          id \in DOMAIN g /\ Principles[id] = g[id]
    BY <2>1 DEF Principles
  <2> QED
    BY <1>4, <2>2
<1> QED
  BY <1>5

\* All that a gate but a statistic's rests on lies in its scope.
LEMMA EvidenceStays ==
  ASSUME NEW scope, NEW h, NEW c, NEW gate,
         gate.kind \in GateKinds \ {"stat"}
  PROVE  Evidence(scope, h, c, gate) \subseteq scope
<1>1. EvidenceScope(scope, gate) = scope
  BY DEF EvidenceScope
<1>2. CASE gate.kind = "detector"
  BY <1>1, <1>2 DEF Evidence, Triggered, Total, Own
<1>3. CASE gate.kind = "dispersion"
  BY <1>1, <1>3 DEF Evidence, With, Own
<1>4. CASE gate.kind = "finding"
  BY <1>1, <1>4 DEF Evidence, History, Own
<1> QED
  BY <1>2, <1>3, <1>4 DEF GateKinds

\* What a claim is about, and what it rests on.
LEMMA FaultsRest ==
  ASSUME NEW scope, NEW h, NEW x \in Candidates(scope, h)
  PROVE  /\ x.id \in DOMAIN Principles /\ x.corner \in Corners
         /\ IsCandidate(scope, h, Principles[x.id], x.corner)
         /\ x.evidence = Evidence(scope, h, x.corner, Principles[x.id].gate)
BY DEF Candidates, Candidate

LEMMA StrengthsRest ==
  ASSUME NEW scope, NEW h, NEW x \in Strengths(scope, h)
  PROVE  /\ x.id \in DOMAIN Principles /\ x.corner \in Corners
         /\ IsStrength(scope, h, Principles[x.id].gate, x.corner)
         /\ x.evidence = Evidence(scope, h, x.corner, Principles[x.id].gate)
BY DEF Strengths

\* The finding against the reference rests on the driver's own laps and on
\* reference laps that nobody has excluded; only reference laps are excluded.
LEMMA FindingsAvoidExcluded ==
  ASSUME Recorded, NEW h, NEW c, NEW phase
  PROVE  ReferenceFinding(h, c, phase).evidence \cap excluded = {}
<1>1. ReferenceFinding(h, c, phase).evidence
        = History(All, h, c, phase) \cup References(h, c, phase)
  BY DEF ReferenceFinding
<1>2. \A l \in History(All, h, c, phase) : l \notin excluded
  BY DEF History, Own, Recorded
<1>3. \A l \in References(h, c, phase) : l \notin excluded
  BY DEF References
<1> QED
  BY <1>1, <1>2, <1>3

LEMMA AnswerInScope ==
  ASSUME Recorded
  PROVE  ScopeIn(Answer)
<1>1. Answer.eras = Eras /\ Answer.excluded = excluded
      /\ Answer.findings = [h \in Cohorts |-> Findings(h)]
  BY DEF Answer, Payload
<1>2. ASSUME NEW i \in DOMAIN Eras, NEW h \in DOMAIN Eras[i].claims,
             NEW x \in Eras[i].claims[h].faults \cup Eras[i].claims[h].strengths,
             Principles[x.id].gate.kind # "stat"
      PROVE  x.evidence \subseteq Eras[i].laps
  <2>1. /\ h \in Cohorts
        /\ Eras[i].claims[h] = Claims(Eras[i].laps, h)
    BY <1>2 DEF Eras
  <2>2. x \in Candidates(Eras[i].laps, h) \cup Strengths(Eras[i].laps, h)
    BY <1>2, <2>1 DEF Claims
  <2>3. x.id \in DOMAIN Principles
        /\ x.evidence = Evidence(Eras[i].laps, h, x.corner, Principles[x.id].gate)
    BY <2>2, FaultsRest, StrengthsRest
  <2> QED
    BY <1>2, <2>3, PrincipleKinds, EvidenceStays
<1>3. ASSUME NEW h \in Cohorts, NEW x \in Findings(h).reference
      PROVE  x.evidence \cap excluded = {}
  <2>1. PICK y \in Corners \X Phases :
          x.evidence = ReferenceFinding(h, y[1], y[2]).evidence
    BY <1>3 DEF Findings
  <2> QED
    BY <2>1, FindingsAvoidExcluded
<1> QED
  BY <1>1, <1>2, <1>3 DEF ScopeIn

-----------------------------------------------------------------------------
(* The chart in two buckets.                                               *)

LEMMA GreaterOfTwo ==
  ASSUME NEW a \in Int, NEW b \in Int, a >= b
  PROVE  Greatest({a, b}) = a
<1>1. \A u \in {a, b} : u <= a
  OBVIOUS
<1>2. \A v \in {a, b} : (\A u \in {a, b} : u <= v) => v = a
  OBVIOUS
<1> QED
  BY <1>1, <1>2 DEF Greatest

\* The dated laps are a sequence.
LEMMA DatedIsSequence ==
  ASSUME Recorded
  PROVE  Len(Dated) \in Nat /\ DOMAIN Dated = 1 .. Len(Dated)
<1> DEFINE own == {l \in All : laps[l].role = "self" /\ laps[l].date # None}
<1>1. All = 1 .. Len(laps) /\ Len(laps) \in Nat
  BY DEF Recorded, All
<1>2. IsFiniteSet(All)
  BY <1>1, FS_Interval
<1>3. IsFiniteSet(own)
  BY <1>2, FS_Subset
<1>4. Cardinality(own) \in Nat
  BY <1>3, FS_CardinalityType
<1> DEFINE n == Cardinality(own)
           pick(i) == CHOOSE l \in own :
             Cardinality({k \in own : \/ laps[k].date < laps[l].date
                                      \/ laps[k].date = laps[l].date /\ k <= l}) = i
<1>5. Dated = [i \in 1 .. n |-> pick(i)]
  BY DEF Dated
<1>6. n \in Nat
  BY <1>4
<1> HIDE DEF n, pick
<1> DEFINE S == {pick(i) : i \in 1 .. n}
<1>7. Dated \in [1 .. n -> S]
  BY <1>5
<1> HIDE DEF S
<1>8. Dated \in Seq(S)
  BY <1>6, <1>7, SeqDef
<1> QED
  BY <1>8

\* The first of two buckets gets half of the laps, rounded down.
LEMMA TwoChunks ==
  ASSUME NEW s, Len(s) \in Nat
  PROVE  /\ Chunk(s, 2, 1) = {s[k] : k \in 1 .. (Len(s) \div 2)}
         /\ Chunk(s, 2, 2) = {s[k] : k \in ((Len(s) \div 2) + 1) .. Len(s)}
<1> DEFINE n == Len(s)
<1>1. n \in Nat /\ n \div 2 \in Nat /\ n % 2 \in {0, 1}
  OBVIOUS
<1> HIDE DEF n
<1>2. ChunkStart(n, 2, 1) = 0
  <2>1. (1 - 1) - (2 - (n % 2)) \in Int /\ (1 - 1) - (2 - (n % 2)) <= 0
    BY <1>1
  <2>2. Greatest({0, (1 - 1) - (2 - (n % 2))}) = 0
    BY <2>1, GreaterOfTwo
  <2>3. (1 - 1) * (n \div 2) = 0
    BY <1>1
  <2> QED
    BY <2>2, <2>3 DEF ChunkStart
<1>3. ChunkStart(n, 2, 2) = n \div 2
  <2>1. (2 - 1) - (2 - (n % 2)) \in Int /\ (2 - 1) - (2 - (n % 2)) <= 0
    BY <1>1
  <2>2. Greatest({0, (2 - 1) - (2 - (n % 2))}) = 0
    BY <2>1, GreaterOfTwo
  <2>3. (2 - 1) * (n \div 2) = n \div 2
    BY <1>1
  <2> QED
    BY <1>1, <2>2, <2>3 DEF ChunkStart
<1>4. Chunk(s, 2, 1) = {s[k] : k \in (0 + 1) .. (n \div 2)}
  BY <1>2, <1>3 DEF Chunk, n
<1>5. Chunk(s, 2, 2) = {s[k] : k \in ((n \div 2) + 1) .. n}
  BY <1>3 DEF Chunk, n
<1> QED
  BY <1>4, <1>5 DEF n

LEMMA AnswerTrendIsSeries ==
  ASSUME Recorded
  PROVE  TrendIn(Answer)
<1>1. /\ Answer.series = [f \in DOMAIN Fundamentals |-> Series(f)]
      /\ Answer.halves = [f \in DOMAIN Fundamentals |-> HalfScores(f)]
  BY DEF Answer, Payload
<1>2. ASSUME Buckets = 2, NEW f, Series(f) # << >> PROVE Series(f) = HalfScores(f)
  <2>1. EnoughDated(2) /\ Series(f) = [i \in 1 .. 2 |-> BucketScore(f, Chunk(Dated, 2, i))]
    BY <1>2 DEF Series
  <2>2. Series(f) = <<BucketScore(f, Chunk(Dated, 2, 1)), BucketScore(f, Chunk(Dated, 2, 2))>>
    <3> HIDE DEF Chunk
    <3> QED
      BY <2>1
  <2>3. HalfScores(f) =
          <<BucketScore(f, {Dated[i] : i \in 1 .. (Len(Dated) \div 2)}),
            BucketScore(f, {Dated[i] : i \in ((Len(Dated) \div 2) + 1) .. Len(Dated)})>>
    BY <2>1 DEF HalfScores
  <2> QED
    BY <2>2, <2>3, TwoChunks, DatedIsSequence
<1> QED
  BY <1>1, <1>2 DEF TrendIn

-----------------------------------------------------------------------------
(* Sums and order statistics of finite families.                           *)

\* The least-number principle, for sets of natural numbers.
LEMMA LeastNumber ==
  ASSUME NEW S \in SUBSET Nat, S # {}
  PROVE  \E m \in S : \A k \in S : m <= k
<1> DEFINE T == {1..n : n \in S}
<1>1. T \subseteq FiniteSubsetsOf(Nat) /\ T # {}
  <2>1. \A n \in S : 1..n \in SUBSET Nat /\ IsFiniteSet(1..n)
    BY FS_Interval
  <2> QED
    BY <2>1 DEF FiniteSubsetsOf
<1>2. PICK x \in T : \A y \in T : ~(<<y, x>> \in StrictSubsetOrdering(Nat))
  <2> HIDE DEF T
  <2> QED
    BY <1>1, FS_StrictSubsetOrderingWellFounded, WFMin
<1>3. PICK m \in S : x = 1..m
  OBVIOUS
<1>4. ASSUME NEW k \in S, k < m PROVE FALSE
  <2>1. 1..k \subseteq 1..m /\ m \in 1..m /\ m \notin 1..k
    BY <1>4
  <2>2. <<1..k, x>> \in StrictSubsetOrdering(Nat)
    BY <2>1, <1>3 DEF StrictSubsetOrdering
  <2> QED
    BY <1>2, <2>2
<1> QED
  BY <1>4

\* The sums of f over the subsets of its domain that have at most n members,
\* as the library's fold makes them.
UpToSize(f, n) == {S \in SUBSET DOMAIN f : Cardinality(S) <= n}
SumStep(g, f, S) ==
  IF S = {} THEN 0
  ELSE LET x == CHOOSE x \in S : TRUE IN f[x] + g[S \ {x}]
IsSums(g, f, n) ==
  /\ g = [S \in UpToSize(f, n) |-> g[S]]
  /\ \A S \in UpToSize(f, n) : g[S] = SumStep(g, f, S)

LEMMA SumsExist ==
  ASSUME NEW f, IsFiniteSet(DOMAIN f), NEW n \in Nat
  PROVE  \E g : IsSums(g, f, n)
<1> DEFINE D == DOMAIN f
           Has(m) == \E g : IsSums(g, f, m)
           Bad == {m \in Nat : ~Has(m)}
<1>1. SUFFICES ASSUME Bad # {} PROVE FALSE
  OBVIOUS
<1>2. PICK m \in Bad : \A k \in Bad : m <= k
  <2>1. Bad \in SUBSET Nat
    OBVIOUS
  <2> HIDE DEF Bad
  <2> QED
    BY <1>1, <2>1, LeastNumber
<1>3. \A S \in SUBSET D : IsFiniteSet(S) /\ Cardinality(S) \in Nat
  BY FS_Subset, FS_CardinalityType
<1>4. m \in Nat /\ ~Has(m)
  OBVIOUS
<1>5. CASE m = 0
  <2> DEFINE g == [S \in UpToSize(f, 0) |-> 0]
  <2>1. \A S \in UpToSize(f, 0) : S = {}
    BY <1>3, FS_EmptySet DEF UpToSize
  <2>2. IsSums(g, f, 0)
    BY <2>1 DEF IsSums, SumStep
  <2> HIDE DEF g
  <2>3. Has(0)
    BY <2>2
  <2> QED
    BY <1>4, <1>5, <2>3
<1>6. CASE m # 0
  <2>1. m - 1 \in Nat /\ ~(m <= m - 1)
    BY <1>4, <1>6
  <2>2. Has(m - 1)
    BY <1>2, <2>1
  <2>3. PICK h : IsSums(h, f, m - 1)
    BY <2>2
  <2> DEFINE g == [S \in UpToSize(f, m) |-> SumStep(h, f, S)]
  <2>4. ASSUME NEW S \in UpToSize(f, m), S # {}, NEW x \in S
        PROVE  S \ {x} \in UpToSize(f, m - 1) /\ S \ {x} \in UpToSize(f, m)
    <3>1. Cardinality(S \ {x}) = Cardinality(S) - 1
      BY <1>3, <2>4, FS_RemoveElement DEF UpToSize
    <3>2. Cardinality(S) \in Nat /\ Cardinality(S) <= m
      BY <1>3 DEF UpToSize
    <3>3. S \ {x} \in SUBSET D
      BY DEF UpToSize
    <3> QED
      BY <1>4, <3>1, <3>2, <3>3 DEF UpToSize
  <2>5. \A S \in UpToSize(f, m - 1) : S \in UpToSize(f, m) /\ g[S] = h[S]
    <3>1. TAKE S \in UpToSize(f, m - 1)
    <3>2. S \in UpToSize(f, m)
      BY <1>3, <1>4 DEF UpToSize
    <3>3. h[S] = SumStep(h, f, S)
      BY <2>3 DEF IsSums
    <3> QED
      BY <3>2, <3>3
  <2>6. \A S \in UpToSize(f, m) : g[S] = SumStep(g, f, S)
    <3>1. TAKE S \in UpToSize(f, m)
    <3>2. g[S] = SumStep(h, f, S)
      OBVIOUS
    <3> HIDE DEF g
    <3>3. CASE S = {}
      BY <3>2, <3>3 DEF SumStep
    <3>4. CASE S # {}
      <4>1. PICK x : x = CHOOSE y \in S : TRUE
        OBVIOUS
      <4>2. x \in S
        BY <3>4, <4>1
      <4>3. g[S \ {x}] = h[S \ {x}]
        BY <2>4, <2>5, <3>4, <4>2
      <4> QED
        BY <3>2, <3>4, <4>1, <4>3 DEF SumStep
    <3> QED
      BY <3>3, <3>4
  <2>7. g = [S \in UpToSize(f, m) |-> g[S]]
    OBVIOUS
  <2> HIDE DEF g
  <2>8. Has(m)
    BY <2>6, <2>7 DEF IsSums
  <2> QED
    BY <1>4, <2>8
<1> QED
  BY <1>5, <1>6

\* A sum is a number of the kind that was added up.
LEMMA SumIn ==
  ASSUME NEW f, IsFiniteSet(DOMAIN f), NEW R, 0 \in R, \A a, b \in R : a + b \in R,
         \A x \in DOMAIN f : f[x] \in R
  PROVE  SumFunction(f) \in R
<1> DEFINE D == DOMAIN f
           n == Cardinality(D)
           Folds(g) == g = [S \in SUBSET D |-> SumStep(g, f, S)]
<1>1. n \in Nat /\ UpToSize(f, n) = SUBSET D
  <2>1. \A S \in SUBSET D : Cardinality(S) <= n
    BY FS_Subset
  <2> QED
    BY <2>1, FS_CardinalityType DEF UpToSize
<1>2. PICK g : IsSums(g, f, n)
  <2> HIDE DEF n
  <2> QED
    BY <1>1, SumsExist
<1>3. Folds(g)
  BY <1>1, <1>2 DEF IsSums
<1>4. SumFunction(f) = (CHOOSE h : Folds(h))[D]
  BY DEF SumFunction, SumFunctionOnSet, FoldFunctionOnSet, MapThenFoldSet, SumStep
<1>5. PICK h : Folds(h) /\ SumFunction(f) = h[D]
  BY <1>3, <1>4
<1>6. \A S \in SUBSET D : h[S] = SumStep(h, f, S)
  BY <1>5
<1> DEFINE Bad == {k \in Nat : \E S \in SUBSET D : Cardinality(S) = k /\ h[S] \notin R}
<1>7. \A S \in SUBSET D : IsFiniteSet(S) /\ Cardinality(S) \in Nat
  BY FS_Subset, FS_CardinalityType
<1>8. SUFFICES ASSUME h[D] \notin R PROVE FALSE
  BY <1>5
<1>9. PICK m \in Bad : \A k \in Bad : m <= k
  <2>1. Bad \in SUBSET Nat /\ n \in Bad
    BY <1>1, <1>8
  <2> HIDE DEF Bad
  <2> QED
    BY <2>1, LeastNumber
<1>10. PICK S \in SUBSET D : Cardinality(S) = m /\ h[S] \notin R
  OBVIOUS
<1>11. S # {}
  BY <1>6, <1>10 DEF SumStep
<1>12. PICK x : x = CHOOSE y \in S : TRUE
  OBVIOUS
<1>13. x \in S /\ h[S] = f[x] + h[S \ {x}]
  BY <1>6, <1>11, <1>12 DEF SumStep
<1>14. Cardinality(S \ {x}) = m - 1 /\ m \in Nat /\ Cardinality(S \ {x}) \in Nat
  BY <1>7, <1>10, <1>13, FS_RemoveElement
<1>15. h[S \ {x}] \in R
  <2>1. SUFFICES ASSUME h[S \ {x}] \notin R PROVE FALSE
    OBVIOUS
  <2>2. m - 1 \in Bad
    BY <1>14, <2>1
  <2> QED
    BY <1>9, <1>14, <2>2
<1> QED
  BY <1>10, <1>13, <1>15

\* The values of a finite family lie between a number and its opposite.
LEMMA Bounded ==
  ASSUME NEW s, IsFiniteSet(DOMAIN s), \A i \in DOMAIN s : s[i] \in Int
  PROVE  \E b \in Nat : \A i \in DOMAIN s : -b <= s[i] /\ s[i] <= b
<1> DEFINE size(i) == IF s[i] < 0 THEN -s[i] ELSE s[i]
           f == [i \in DOMAIN s |-> size(i)]
           Over(T) == \E b \in Nat : \A i \in T : f[i] <= b
           Bad == {k \in Nat : \E T \in SUBSET DOMAIN s : Cardinality(T) = k /\ ~Over(T)}
<1>1. \A i \in DOMAIN s : f[i] \in Nat /\ -f[i] <= s[i] /\ s[i] <= f[i]
  OBVIOUS
<1> HIDE DEF f
<1>2. Over(DOMAIN s)
  <2>1. SUFFICES ASSUME ~Over(DOMAIN s) PROVE FALSE
    OBVIOUS
  <2>2. Cardinality(DOMAIN s) \in Bad
    BY <2>1, FS_CardinalityType
  <2>3. PICK m \in Bad : \A k \in Bad : m <= k
    <3>1. Bad \in SUBSET Nat
      OBVIOUS
    <3> HIDE DEF Bad
    <3> QED
      BY <2>2, <3>1, LeastNumber
  <2>4. PICK T \in SUBSET DOMAIN s : Cardinality(T) = m /\ ~Over(T)
    OBVIOUS
  <2>5. IsFiniteSet(T)
    BY FS_Subset
  <2>6. T # {}
    BY <2>4
  <2>7. PICK x \in T : TRUE
    BY <2>6
  <2>8. Cardinality(T \ {x}) = m - 1 /\ Cardinality(T \ {x}) \in Nat /\ m \in Nat
    BY <2>4, <2>5, FS_RemoveElement, FS_Subset, FS_CardinalityType
  <2>9. Over(T \ {x})
    <3>1. SUFFICES ASSUME ~Over(T \ {x}) PROVE FALSE
      OBVIOUS
    <3>2. m - 1 \in Bad
      <4> HIDE DEF Over
      <4> QED
        BY <2>8, <3>1
    <3> HIDE DEF Bad
    <3>3. m <= m - 1
      BY <2>3, <3>2
    <3> QED
      BY <2>8, <3>3
  <2>10. PICK b \in Nat : \A i \in T \ {x} : f[i] <= b
    BY <2>9
  <2>11. b + f[x] \in Nat /\ f[x] \in Nat
    BY <1>1
  <2>12. \A i \in T : f[i] <= b + f[x]
    <3>1. TAKE i \in T
    <3>2. f[i] \in Nat
      BY <1>1
    <3>3. CASE i = x
      BY <2>11, <3>3
    <3>4. CASE i # x
      BY <2>10, <2>11, <3>2, <3>4
    <3> QED
      BY <3>3, <3>4
  <2> QED
    BY <2>4, <2>11, <2>12
<1>3. PICK b \in Nat : \A i \in DOMAIN s : f[i] <= b
  BY <1>2
<1>4. \A i \in DOMAIN s : -b <= s[i] /\ s[i] <= b
  BY <1>1, <1>3
<1> QED
  BY <1>4

\* Kth returns one of the values.
LEMMA KthIsOne ==
  ASSUME NEW s, IsFiniteSet(DOMAIN s), \A i \in DOMAIN s : s[i] \in Int,
         NEW k \in 1 .. Count(s)
  PROVE  Kth(s, k) \in {s[i] : i \in DOMAIN s}
<1>1. PICK b \in Nat : \A i \in DOMAIN s : -b <= s[i] /\ s[i] <= b
  BY Bounded
<1> DEFINE UpTo(u) == {i \in DOMAIN s : s[i] <= u - b}
           Below(u) == {i \in DOMAIN s : s[i] < u - b}
           V == {u \in Nat : k <= Cardinality(UpTo(u))}
<1>2. k \in Nat /\ k >= 1 /\ Cardinality(DOMAIN s) \in Nat
      /\ k <= Cardinality(DOMAIN s)
  BY FS_CardinalityType DEF Count
<1>3. \A u \in Nat : /\ IsFiniteSet(UpTo(u)) /\ Cardinality(UpTo(u)) \in Nat
                     /\ IsFiniteSet(Below(u)) /\ Cardinality(Below(u)) \in Nat
  BY FS_Subset, FS_CardinalityType
<1>4. V # {}
  <2>1. b + b \in Nat /\ (b + b) - b = b
    OBVIOUS
  <2>2. UpTo(b + b) = DOMAIN s
    BY <1>1, <2>1
  <2>3. b + b \in V
    BY <1>2, <2>1, <2>2
  <2> QED
    BY <2>3
<1>5. PICK u \in V : \A x \in V : u <= x
  <2>1. V \in SUBSET Nat
    OBVIOUS
  <2> HIDE DEF V
  <2> QED
    BY <2>1, <1>4, LeastNumber
<1>6. Cardinality(Below(u)) < k
  <2>1. CASE u = 0
    <3>1. Below(u) = {}
      BY <1>1, <2>1
    <3> QED
      BY <3>1, <1>2, FS_EmptySet
  <2>2. CASE u # 0
    <3>1. u - 1 \in Nat /\ ~(u <= u - 1)
      BY <2>2
    <3>2. ~(k <= Cardinality(UpTo(u - 1)))
      BY <3>1, <1>5
    <3>3. Cardinality(UpTo(u - 1)) \in Nat
      BY <3>1, <1>3
    <3>4. UpTo(u - 1) = Below(u)
      BY <3>1
    <3> HIDE DEF UpTo, Below
    <3> QED
      BY <3>2, <3>3, <3>4, <1>2
  <2> QED
    BY <2>1, <2>2
<1>7. PICK j \in DOMAIN s : s[j] = u - b
  <2>1. SUFFICES ASSUME \A j \in DOMAIN s : s[j] # u - b PROVE FALSE
    OBVIOUS
  <2>2. UpTo(u) = Below(u)
    BY <2>1
  <2>3. k <= Cardinality(UpTo(u)) /\ Cardinality(UpTo(u)) \in Nat
    BY <1>3, <1>5
  <2> HIDE DEF UpTo, Below
  <2> QED
    BY <2>2, <2>3, <1>2, <1>6
<1>8. \E v \in {s[i] : i \in DOMAIN s} :
        /\ Cardinality({i \in DOMAIN s : s[i] < v}) < k
        /\ k <= Cardinality({i \in DOMAIN s : s[i] <= v})
  BY <1>5, <1>6, <1>7
<1> QED
  BY <1>8 DEF Kth

\* A finite family of numbers that is not empty.
Numbers(s) == /\ IsFiniteSet(DOMAIN s) /\ DOMAIN s # {}
              /\ \A i \in DOMAIN s : s[i] \in Int

LEMMA KthIsNumber ==
  ASSUME NEW s, Numbers(s), NEW k \in 1 .. Count(s)
  PROVE  Kth(s, k) \in Int
BY KthIsOne DEF Numbers

LEMMA CountIsPositive ==
  ASSUME NEW s, IsFiniteSet(DOMAIN s), DOMAIN s # {}
  PROVE  Count(s) \in Nat \ {0}
BY FS_CardinalityType, FS_EmptySet DEF Count

LEMMA MedianIsNumber ==
  ASSUME NEW s, Numbers(s)
  PROVE  Median(s) \in Int
<1> DEFINE n == Count(s)
           low == (n + 1) \div 2
           high == n \div 2 + 1
<1>1. n \in Nat \ {0}
  BY CountIsPositive DEF Numbers
<1>2. low \in 1..n /\ high \in 1..n
  <2> HIDE DEF n
  <2> QED
    BY <1>1
<1>3. Median(s) = (Kth(s, low) + Kth(s, high)) \div 2
  BY DEF Median, Count
<1> HIDE DEF low, high
<1>4. Kth(s, low) \in Int /\ Kth(s, high) \in Int
  BY <1>2, KthIsNumber
<1> QED
  BY <1>3, <1>4

LEMMA DeviationsAreNumbers ==
  ASSUME NEW s, Numbers(s)
  PROVE  Numbers(Deviations(s))
<1>1. Median(s) \in Int
  BY MedianIsNumber
<1>2. \A a, b \in Int : Distance(a, b) \in Int
  BY DEF Distance
<1> QED
  BY <1>1, <1>2 DEF Deviations, Numbers

\* Every value of a mean is one of a finite family of numbers.
LEMMA MeanIsNumber ==
  ASSUME NEW s, Numbers(s)
  PROVE  Mean(s) \in Int
<1>1. SumFunction(s) \in Int
  <2>1. 0 \in Int /\ \A a, b \in Int : a + b \in Int
    OBVIOUS
  <2> QED
    BY <2>1, SumIn DEF Numbers
<1>2. Count(s) \in Nat \ {0}
  BY CountIsPositive DEF Numbers
<1>3. \A a \in Int, b \in Nat \ {0} : a \div b \in Int
  OBVIOUS
<1> QED
  BY <1>1, <1>2, <1>3 DEF Mean

LEMMA LesserOfTwo ==
  ASSUME NEW a \in Int, NEW b \in Int
  PROVE  /\ Least({a, b}) \in {a, b} /\ Least({a, b}) <= a /\ Least({a, b}) <= b
         /\ Greatest({a, b}) \in {a, b} /\ Greatest({a, b}) >= a /\ Greatest({a, b}) >= b
<1>1. \E v \in {a, b} : \A u \in {a, b} : v <= u
  OBVIOUS
<1>2. \E v \in {a, b} : \A u \in {a, b} : u <= v
  OBVIOUS
<1>3. Least({a, b}) \in {a, b} /\ \A u \in {a, b} : Least({a, b}) <= u
  BY <1>1 DEF Least
<1>4. Greatest({a, b}) \in {a, b} /\ \A u \in {a, b} : u <= Greatest({a, b})
  BY <1>2 DEF Greatest
<1> QED
  BY <1>3, <1>4

-----------------------------------------------------------------------------
(* The tables are finite.                                                  *)

LEMMA ImageFinite ==
  ASSUME NEW f, IsFiniteSet(DOMAIN f)
  PROVE  IsFiniteSet({f[x] : x \in DOMAIN f})
<1> DEFINE S == {f[x] : x \in DOMAIN f}
           g == [x \in DOMAIN f |-> f[x]]
<1>1. g \in Surjection(DOMAIN f, S)
  BY DEF Surjection
<1> HIDE DEF S, g
<1>2. IsFiniteSet(S)
  BY <1>1, FS_Surjection
<1> QED
  BY <1>2 DEF S

LEMMA TriplesFinite ==
  ASSUME NEW A, NEW B, NEW C, IsFiniteSet(A), IsFiniteSet(B), IsFiniteSet(C)
  PROVE  /\ IsFiniteSet(A \X B \X C)
         /\ IsFiniteSet({<<a, b, c>> : a \in A, b \in B, c \in C})
<1> DEFINE P == (A \X B) \X C
           f == [x \in P |-> <<x[1][1], x[1][2], x[2]>>]
<1>1. IsFiniteSet(P)
  BY FS_Product
<1>2. IsFiniteSet({f[x] : x \in DOMAIN f})
  <2>1. DOMAIN f = P
    OBVIOUS
  <2> HIDE DEF P, f
  <2> QED
    BY <1>1, <2>1, ImageFinite
<1>3. ASSUME NEW a \in A, NEW b \in B, NEW c \in C
      PROVE  <<a, b, c>> \in {f[x] : x \in DOMAIN f}
  <2>1. <<<<a, b>>, c>> \in P
    OBVIOUS
  <2>2. f[<<<<a, b>>, c>>] = <<a, b, c>>
    BY <2>1
  <2> QED
    BY <2>1, <2>2
<1>4. A \X B \X C = {<<a, b, c>> : a \in A, b \in B, c \in C}
  OBVIOUS
<1>5. {<<a, b, c>> : a \in A, b \in B, c \in C} \subseteq {f[x] : x \in DOMAIN f}
  <2> HIDE DEF f
  <2> QED
    BY <1>3
<1>6. IsFiniteSet({<<a, b, c>> : a \in A, b \in B, c \in C})
  BY <1>2, <1>5, FS_Subset
<1> QED
  BY <1>4, <1>6

MetricNames ==
  ({"brake_point_dist_pct", "turn_in_dist_pct", "apex_dist_pct",
    "throttle_pickup_dist_pct", "full_throttle_dist_pct"}
   \cup {"brake_peak", "abs_active_ratio", "brake_application_rate",
         "steering_smoothness_dps2", "yaw_peak_rate"})
  \cup ({"brake_release_duration_s", "trail_brake_overlap_s",
         "throttle_brake_overlap_s", "coast_s", "min_speed_kmh"}
        \cup {"steering_corrections", "throttle_modulation_count", "exit_accel_ms2"})
DetectorNames ==
  {"brake-release-taper", "throttle-brake-overlap", "one-steering-input",
   "coast-window", "throttle-monotonic"}

LEMMA FiveFinite ==
  ASSUME NEW a, NEW b, NEW c, NEW d, NEW e
  PROVE  IsFiniteSet({a, b, c, d, e})
<1>1. IsFiniteSet({a}) /\ IsFiniteSet({a} \cup {b})
  BY FS_Singleton, FS_AddElement
<1>2. IsFiniteSet({a} \cup {b} \cup {c})
  BY <1>1, FS_AddElement
<1>3. IsFiniteSet({a} \cup {b} \cup {c} \cup {d})
  BY <1>2, FS_AddElement
<1>4. IsFiniteSet({a} \cup {b} \cup {c} \cup {d} \cup {e})
  BY <1>3, FS_AddElement
<1>5. {a} \cup {b} \cup {c} \cup {d} \cup {e} = {a, b, c, d, e}
  OBVIOUS
<1> QED
  BY <1>4, <1>5

LEMMA NamesFinite == IsFiniteSet(MetricNames) /\ IsFiniteSet(DetectorNames)
<1>1. IsFiniteSet(DetectorNames)
  BY FiveFinite DEF DetectorNames
<1> DEFINE A == {"brake_point_dist_pct", "turn_in_dist_pct", "apex_dist_pct",
                 "throttle_pickup_dist_pct", "full_throttle_dist_pct"}
           B == {"brake_peak", "abs_active_ratio", "brake_application_rate",
                 "steering_smoothness_dps2", "yaw_peak_rate"}
           C == {"brake_release_duration_s", "trail_brake_overlap_s",
                 "throttle_brake_overlap_s", "coast_s", "min_speed_kmh"}
           D == {"steering_corrections", "throttle_modulation_count", "exit_accel_ms2"}
<1>2. IsFiniteSet(A) /\ IsFiniteSet(B) /\ IsFiniteSet(C)
  BY FiveFinite
<1>3. IsFiniteSet(D)
  <2>1. D = {"steering_corrections", "throttle_modulation_count", "exit_accel_ms2",
             "exit_accel_ms2", "exit_accel_ms2"}
    OBVIOUS
  <2> HIDE DEF D
  <2> QED
    BY <2>1, FiveFinite
<1>4. MetricNames = (A \cup B) \cup (C \cup D)
  BY DEF MetricNames
<1> HIDE DEF A, B, C, D
<1>5. IsFiniteSet(A \cup B) /\ IsFiniteSet(C \cup D)
  BY <1>2, <1>3, FS_Union
<1>6. IsFiniteSet(MetricNames)
  BY <1>4, <1>5, FS_Union
<1> QED
  BY <1>1, <1>6

\* Every technique reads metrics and detectors there are.
LEMMA TechniqueNames ==
  \A t \in DOMAIN Techniques : /\ Techniques[t].metrics \subseteq MetricNames
                               /\ Techniques[t].detectors \subseteq DetectorNames
BY DEF Techniques, Technique, MetricNames, DetectorNames

LEMMA FundamentalNames ==
  ASSUME NEW f
  PROVE  /\ MetricsOf(f) \subseteq MetricNames /\ IsFiniteSet(MetricsOf(f))
         /\ DetectorsOf(f) \subseteq DetectorNames /\ IsFiniteSet(DetectorsOf(f))
<1>1. MetricsOf(f) \subseteq MetricNames
  BY TechniqueNames DEF MetricsOf, AllMeasured, TechniquesOf
<1>2. DetectorsOf(f) \subseteq DetectorNames
  BY TechniqueNames DEF DetectorsOf, TechniquesOf
<1> QED
  BY <1>1, <1>2, NamesFinite, FS_Subset

\* What a gate of dispersion pools.
LEMMA PooledNames ==
  ASSUME NEW id \in DOMAIN Principles, Principles[id].gate.kind = "dispersion"
  PROVE  Principles[id].gate.metrics \subseteq MetricNames
<1> DEFINE Known(g) ==
      \A i \in DOMAIN g : g[i].gate.kind = "dispersion" => g[i].gate.metrics \subseteq MetricNames
<1>1. Known(EntryDetectors) /\ Known(LaterDetectors) /\ Known(FindingPrinciples)
  BY DEF EntryDetectors, LaterDetectors, FindingPrinciples, Principle, Detector, Finding
<1>2. Known(VehicleStats) /\ Known(EntryStats) /\ Known(LaterStats)
  BY DEF EntryStats, LaterStats, VehicleStats, Principle, Stat
<1>3. Known(DispersionPrinciples)
  <2>1. AllMeasured \subseteq MetricNames /\ {"brake_point_dist_pct"} \subseteq MetricNames
    BY TechniqueNames DEF AllMeasured, MetricNames
  <2> QED
    BY <2>1 DEF DispersionPrinciples, Principle, Dispersion
<1>4. \A g \in PrincipleGroups : Known(g)
  <2> HIDE DEF Known
  <2> QED
    BY <1>1, <1>2, <1>3 DEF PrincipleGroups
<1>5. PICK g \in PrincipleGroups : id \in DOMAIN g /\ Principles[id] = g[id]
  BY DEF Principles
<1> QED
  BY <1>4, <1>5

-----------------------------------------------------------------------------
(* What is computed of a corpus of numbers is a number.                    *)

\* The laps everything is computed on: all of them, and those of each era.
Scopes == {All} \cup {Eras[i].laps : i \in DOMAIN Eras}

LEMMA ScopesFinite ==
  ASSUME Recorded
  PROVE  \A scope \in Scopes : IsFiniteSet(scope)
<1>1. IsFiniteSet(All)
  <2>1. All = 1 .. Len(laps) /\ Len(laps) \in Nat
    BY DEF Recorded, All
  <2> QED
    BY <2>1, FS_Interval
<1>2. ASSUME NEW i \in DOMAIN Eras PROVE IsFiniteSet(Eras[i].laps)
  <2>1. i \in DOMAIN Dated /\ Eras[i].laps = {Dated[k] : k \in i .. Len(Dated)}
    BY DEF Eras
  <2>2. i \in Int /\ Len(Dated) \in Int
    BY <2>1, DatedIsSequence
  <2>3. IsFiniteSet(i .. Len(Dated))
    BY <2>2, FS_Interval
  <2> DEFINE I == i .. Len(Dated)
             S == {Dated[k] : k \in I}
             f == [k \in I |-> Dated[k]]
  <2>4. f \in Surjection(I, S)
    BY DEF Surjection
  <2>5. IsFiniteSet(S)
    BY <2>3, <2>4, FS_Surjection
  <2> QED
    BY <2>1, <2>5
<1> QED
  BY <1>1, <1>2 DEF Scopes

LEMMA CohortsFinite ==
  ASSUME Recorded
  PROVE  IsFiniteSet(All) /\ IsFiniteSet(Cohorts) /\ IsFiniteSet(Corners)
<1>1. IsFiniteSet(All)
  BY ScopesFinite DEF Scopes
<1> DEFINE own == {k \in All : laps[k].role = "self"}
           f == [l \in own |-> <<laps[l].car, laps[l].track>>]
<1>2. IsFiniteSet(own) /\ DOMAIN f = own
  BY <1>1, FS_Subset
<1>3. IsFiniteSet({f[x] : x \in DOMAIN f})
  <2> HIDE DEF f, own
  <2> QED
    BY <1>2, ImageFinite
<1>4. Cohorts = {f[x] : x \in DOMAIN f}
  BY DEF Cohorts
<1> QED
  BY <1>1, <1>3, <1>4, WindowsAssumption DEF Corners, WindowsAssumption

\* The readings of a metric at a corner.
LEMMA ReadingsAreNumbers ==
  ASSUME Recorded, NEW scope \in Scopes, NEW h, NEW c, NEW m
  PROVE  LET s == Readings(scope, h, c, m)
         IN /\ IsFiniteSet(DOMAIN s) /\ Count(s) \in Nat
            /\ Count(s) # 0 => Numbers(s)
<1> DEFINE S == With(scope, h, c, m)
           s == Readings(scope, h, c, m)
<1>1. IsFiniteSet(scope)
  BY ScopesFinite
<1>2. S \subseteq scope /\ DOMAIN s = S
  BY DEF With, Own, Readings
<1>3. IsFiniteSet(S)
  BY <1>1, <1>2, FS_Subset
<1>4. Count(s) \in Nat
  BY <1>2, <1>3, FS_CardinalityType DEF Count
<1>5. S \subseteq All
  BY DEF With, Own
<1>6. \A l \in S : s[l] \in Int
  BY <1>5 DEF Readings, With, Measured, Seen, Recorded, Counted
<1>7. Count(s) # 0 => S # {}
  BY <1>2, FS_EmptySet DEF Count
<1> QED
  BY <1>2, <1>3, <1>4, <1>6, <1>7 DEF Numbers

LEMMA PercentileIsNumber ==
  ASSUME NEW s, Numbers(s), NEW p \in 0 .. 100
  PROVE  Percentile(s, p) \in Int
<1> DEFINE n == Count(s)
           at == p * (n - 1)
           i == at \div 100 + 1
           j == Least({at \div 100 + 2, n})
<1>1. n \in Nat \ {0}
  BY CountIsPositive DEF Numbers
<1>2. at \in Nat /\ at <= 100 * (n - 1)
  <2>1. n - 1 \in Nat /\ p \in Nat /\ p <= 100
    BY <1>1
  <2> HIDE DEF n
  <2>2. \A a, b \in Nat : a <= 100 => a * b \in Nat /\ a * b <= 100 * b
    <3>1. TAKE a, b \in Nat
    <3>2. HAVE a <= 100
    <3>3. a * b \in Nat /\ (100 - a) * b \in Nat
      BY <3>2
    <3>4. (100 - a) * b = 100 * b - a * b
      OBVIOUS
    <3> QED
      BY <3>3, <3>4
  <2> QED
    BY <2>1, <2>2
<1>3. i \in 1 .. n
  <2> HIDE DEF n, at
  <2> QED
    BY <1>1, <1>2
<1>4. j \in 1 .. n
  <2>1. at \div 100 + 2 \in Int /\ at \div 100 + 2 >= 1 /\ n \in Int /\ n >= 1
    BY <1>1, <1>2
  <2> HIDE DEF n, at
  <2>2. j \in {at \div 100 + 2, n} /\ j <= n
    BY <2>1, LesserOfTwo
  <2> QED
    BY <2>1, <2>2
<1>5. Kth(s, i) \in Int /\ Kth(s, j) \in Int
  BY <1>3, <1>4, KthIsNumber
<1>6. at % 100 \in Int
  BY <1>2
<1>7. Percentile(s, p) = Kth(s, i) + ((Kth(s, j) - Kth(s, i)) * (at % 100)) \div 100
  BY DEF Percentile
<1> HIDE DEF i, j, at
<1>8. \A x, y, z \in Int : x + ((y - x) * z) \div 100 \in Int
  <2>1. \A a, b \in Int : a * b \in Int /\ a \div 100 \in Int /\ a + b \in Int /\ a - b \in Int
    OBVIOUS
  <2> QED
    BY <2>1
<1> QED
  BY <1>5, <1>6, <1>7, <1>8

LEMMA MetricStatIsNumber ==
  ASSUME NEW s, NEW stat, Count(s) \in Nat, Count(s) # 0 => Numbers(s)
  PROVE  MetricStat(s, stat) \in Int \cup {None}
<1>1. CASE Count(s) = 0
  BY <1>1 DEF MetricStat
<1>2. CASE Count(s) # 0
  <2>1. Median(s) \in Int /\ Percentile(s, 75) \in Int /\ Percentile(s, 25) \in Int
    BY <1>2, MedianIsNumber, PercentileIsNumber
  <2> QED
    BY <2>1 DEF MetricStat
<1> QED
  BY <1>1, <1>2

LEMMA ReferenceIsNumber == Recorded => \A m : Reference(m) \in Int
BY ConfigsAssumption DEF Recorded, Reference, ConfigsAssumption

\* The dispersion of the readings of a metric that can be pooled.
LEMMA NormalizedIsNumber ==
  ASSUME Recorded, NEW s, NEW m, Numbers(s), HasDispersion(s, m)
  PROVE  Normalized(s, m) \in Int
<1> DEFINE deviations == Deviations(s)
           some == {deviations[i] : i \in DOMAIN s} \ {0}
<1>1. Numbers(deviations) /\ DOMAIN deviations = DOMAIN s
      /\ \A i \in DOMAIN s : deviations[i] \in Nat
  <2>1. Median(s) \in Int
    BY MedianIsNumber
  <2>2. \A a, b \in Int : Distance(a, b) \in Nat
    BY DEF Distance
  <2> QED
    BY <2>1, <2>2, DeviationsAreNumbers DEF Deviations, Numbers
<1>2. Median(deviations) \in Int
  BY <1>1, MedianIsNumber
<1>3. some # {} => Least(some) \in Int
  <2>1. some \in SUBSET Nat
    BY <1>1
  <2> HIDE DEF some
  <2> SUFFICES ASSUME some # {} PROVE Least(some) \in Int
    OBVIOUS
  <2>2. \E v \in some : \A u \in some : v <= u
    BY <2>1, LeastNumber
  <2>3. Least(some) \in some
    BY <2>2 DEF Least
  <2>4. Least(some) \in Nat
    BY <2>1, <2>3
  <2> QED
    BY <2>4
<1>4. ScaledMad(s) \in Int
  BY <1>2, <1>3 DEF ScaledMad
<1>5. Reference(m) \in Int /\ Reference(m) > 0
  BY ReferenceIsNumber DEF HasDispersion
<1>6. \A a, b \in Int : b > 0 => (148260 * a) \div b \in Int
  OBVIOUS
<1> QED
  BY <1>4, <1>5, <1>6 DEF Normalized

Numeric(gate) == gate.kind \in {"dispersion", "stat"}
\* The mean over units of the means within units.
LEMMA PooledIsNumber ==
  ASSUME NEW dispersions, NEW of, IsFiniteSet(DOMAIN of), DOMAIN of # {},
         \A x \in DOMAIN of : dispersions[x] \in Int
  PROVE  Pooled(dispersions, of) \in Int
<1> DEFINE units == {Unit(of[x]) : x \in DOMAIN of}
           within(u) == {x \in DOMAIN of : Unit(of[x]) = u}
           mean(u) == Mean([x \in within(u) |-> dispersions[x]])
           means == [u \in units |-> mean(u)]
           f == [x \in DOMAIN of |-> Unit(of[x])]
<1>1. IsFiniteSet(units) /\ units # {}
  <2>1. DOMAIN f = DOMAIN of /\ units = {f[x] : x \in DOMAIN f}
    OBVIOUS
  <2> HIDE DEF f, units
  <2>2. IsFiniteSet(units)
    BY <2>1, ImageFinite
  <2> QED
    BY <2>1, <2>2
<1>2. ASSUME NEW u \in units PROVE mean(u) \in Int
  <2>1. within(u) # {} /\ IsFiniteSet(within(u))
    BY FS_Subset
  <2> DEFINE t == [x \in within(u) |-> dispersions[x]]
  <2>2. Numbers(t)
    BY <2>1 DEF Numbers
  <2> HIDE DEF t
  <2>3. Mean(t) \in Int
    BY <2>2, MeanIsNumber
  <2> QED
    BY <2>3 DEF t
<1> HIDE DEF mean
<1>3. Numbers(means)
  BY <1>1, <1>2 DEF Numbers
<1>4. Mean(means) \in Int
  <2> HIDE DEF means
  <2> QED
    BY <1>3, MeanIsNumber
<1> QED
  BY <1>4 DEF Pooled, mean

LEMMA DispersionIsNumber ==
  ASSUME Recorded, NEW scope \in Scopes, NEW h, NEW c,
         NEW id \in DOMAIN Principles, Principles[id].gate.kind = "dispersion"
  PROVE  DispersionValue(scope, h, c, Principles[id].gate) \in Int \cup {None}
<1> DEFINE gate == Principles[id].gate
           cells == DispersionCells(scope, h, c, gate)
           dispersions == [m \in cells |-> Normalized(Readings(scope, h, c, m), m)]
           of == [m \in cells |-> m]
<1>1. IsFiniteSet(cells)
  BY PooledNames, NamesFinite, FS_Subset DEF DispersionCells
<1>2. ASSUME NEW m \in cells PROVE Normalized(Readings(scope, h, c, m), m) \in Int
  <2>1. HasDispersion(Readings(scope, h, c, m), m)
    BY DEF DispersionCells
  <2>2. Count(Readings(scope, h, c, m)) # 0
    BY <2>1, ReadingsAreNumbers DEF HasDispersion
  <2> QED
    BY <2>1, <2>2, ReadingsAreNumbers, NormalizedIsNumber
<1> HIDE DEF cells
<1>3. DOMAIN of = cells /\ \A m \in DOMAIN of : dispersions[m] \in Int
  BY <1>2
<1>4. cells # {} => Pooled(dispersions, of) \in Int
  <2> HIDE DEF dispersions, of
  <2> QED
    BY <1>1, <1>3, PooledIsNumber
<1> QED
  BY <1>4 DEF DispersionValue, cells

LEMMA StatIsNumber ==
  ASSUME Recorded, NEW scope \in Scopes, NEW h, NEW c, NEW gate
  PROVE  StatValue(scope, h, c, gate) \in Int \cup {None}
<1>1. MetricStat(Readings(scope, h, c, gate.metric), gate.stat) \in Int \cup {None}
  BY ReadingsAreNumbers, MetricStatIsNumber
<1> QED
  BY <1>1 DEF StatValue

\* A dispersion or a statistic that there is can be compared.
LEMMA Measurable ==
  ASSUME Recorded, NEW scope \in Scopes, NEW h, NEW c,
         NEW id \in DOMAIN Principles, Numeric(Principles[id].gate)
  PROVE  Value(scope, h, c, Principles[id].gate) \in Int \cup {None}
BY DispersionIsNumber, StatIsNumber DEF Value, Numeric

-----------------------------------------------------------------------------
(* Faults and strengths.                                                   *)

\* The rate of a detector is a number wherever it judged a lap.
LEMMA RateIsNumber ==
  ASSUME NEW scope, IsFiniteSet(scope), NEW h, NEW c, NEW d,
         Total(scope, h, c, d) # {}
  PROVE  Rate(Triggered(scope, h, c, d), Total(scope, h, c, d)) \in Int
<1> DEFINE total == Total(scope, h, c, d)
           triggered == Triggered(scope, h, c, d)
<1>1. triggered \subseteq total /\ total \subseteq scope
  BY DEF Triggered, Total, Own
<1>2. IsFiniteSet(total) /\ IsFiniteSet(triggered)
  BY <1>1, FS_Subset
<1>3. Cardinality(triggered) \in Nat /\ Cardinality(total) \in Nat
      /\ Cardinality(total) # 0
  BY <1>2, FS_CardinalityType, FS_EmptySet
<1>4. \A a, b \in Nat : b # 0 => (1000 * a) \div b \in Int
  OBVIOUS
<1> HIDE DEF total, triggered
<1>5. Rate(triggered, total) \in Int
  BY <1>3, <1>4 DEF Rate
<1> QED
  BY <1>5 DEF total, triggered

LEMMA FloorIsNumber ==
  ASSUME Recorded, NEW id \in DOMAIN Principles,
         Principles[id].gate.kind # "finding"
  PROVE  Floor(Principles[id].gate) \in Int
BY PrincipleKinds, ConfigsAssumption DEF Recorded, Floor, GateKinds, ConfigsAssumption

\* A value that is a number is not on both sides of its floor.
LEMMA NotBothSides ==
  ASSUME NEW value, NEW gate, gate.kind # "finding",
         value \in Int \cup {None}, Floor(gate) \in Int
  PROVE  ~(Fires(value, gate) /\ Clears(value, gate))
BY DEF Fires, Clears

LEMMA OneSide ==
  ASSUME Recorded, NEW scope \in Scopes,
         NEW h \in Cohorts, NEW c \in Corners, NEW id \in DOMAIN Principles
  PROVE  LET gate == Principles[id].gate
             value == Value(scope, h, c, gate)
         IN ~(Fires(value, gate) /\ Clears(value, gate))
<1> DEFINE gate == Principles[id].gate
           value == Value(scope, h, c, gate)
<1>1. gate.kind \in GateKinds
  BY PrincipleKinds
<1>2. CASE gate.kind = "finding"
  BY <1>2 DEF Fires, Clears
<1>3. CASE gate.kind = "detector"
  <2>1. IsFiniteSet(scope)
    BY ScopesFinite
  <2>2. value \in Int \cup {None}
    BY <1>3, <2>1, RateIsNumber DEF Value
  <2>3. Floor(gate) \in Int
    BY <1>3, FloorIsNumber
  <2> QED
    BY <1>3, <2>2, <2>3, NotBothSides
<1>4. CASE Numeric(gate)
  <2>1. value \in Int \cup {None}
    BY <1>4, Measurable
  <2>2. gate.kind # "finding" /\ Floor(gate) \in Int
    BY <1>4, FloorIsNumber DEF Numeric
  <2> QED
    BY <2>1, <2>2, NotBothSides
<1> QED
  BY <1>1, <1>2, <1>3, <1>4 DEF GateKinds, Numeric

\* On the laps of one scope nothing is a fault and a strength.
LEMMA ClaimsAgree ==
  ASSUME Recorded, NEW scope \in Scopes,
         NEW h \in Cohorts, NEW x \in Candidates(scope, h), NEW y \in Strengths(scope, h),
         x.id = y.id
  PROVE  x.corner # y.corner
<1>1. /\ x.id \in DOMAIN Principles /\ x.corner \in Corners
      /\ Fires(Value(scope, h, x.corner, Principles[x.id].gate), Principles[x.id].gate)
  BY FaultsRest DEF IsCandidate
<1>2. Clears(Value(scope, h, y.corner, Principles[y.id].gate), Principles[y.id].gate)
  BY StrengthsRest DEF IsStrength
<1> QED
  BY <1>1, <1>2, OneSide

\* A strength of a detector is below the rate from which its finding is shown.
LEMMA StrengthIsNoFinding ==
  ASSUME Recorded, NEW h \in Cohorts, NEW y \in Strengths(All, h),
         Principles[y.id].gate.kind = "detector"
  PROVE  <<y.corner, Principles[y.id].gate.detector>> \notin Findings(h).principle
<1> DEFINE gate == Principles[y.id].gate
           c == y.corner
           d == gate.detector
           rate == Rate(Triggered(All, h, c, d), Total(All, h, c, d))
<1>1. y.id \in DOMAIN Principles /\ Clears(Value(All, h, c, gate), gate)
  BY StrengthsRest DEF IsStrength
<1>2. Total(All, h, c, d) # {} /\ Value(All, h, c, gate) = rate
  BY <1>1 DEF Value, Clears
<1>3. rate < config.min_trigger_rate
  BY <1>1, <1>2 DEF Clears, Floor
<1>4. rate \in Int /\ config.min_trigger_rate \in Int
  BY <1>2, ScopesFinite, RateIsNumber, ConfigsAssumption DEF Scopes, Recorded, ConfigsAssumption
<1>5. \A z \in Findings(h).principle : PrincipleFinding(h, z[1], z[2]).reason = "shown"
  BY DEF Findings
<1>6. PrincipleFinding(h, c, d).reason = "shown" => ~(rate < config.min_trigger_rate)
  BY DEF PrincipleFinding, Gate
<1> QED
  BY <1>3, <1>5, <1>6

LEMMA AnswerHasOneVerdict ==
  ASSUME Recorded
  PROVE  VerdictIn(Answer)
<1> DEFINE F(h) == Claims(All, h).faults
           W(h) == Claims(All, h).strengths
           shown(k, S) == {<<k, x>> : x \in Shown(S, F(k), W(k))}
<1>1. /\ Answer.eras = Eras
      /\ Answer.findings = [h \in Cohorts |-> Findings(h)]
      /\ Answer.pages = [h \in Cohorts |-> Selection(F(h), W(h))]
      /\ Answer.rollup.faults = UNION {shown(k, F(k)) : k \in Cohorts}
      /\ Answer.rollup.strengths = UNION {shown(k, W(k)) : k \in Cohorts}
  BY DEF Answer, Payload, Page, Rollup
<1>2. \A h : F(h) = Candidates(All, h) /\ W(h) = Strengths(All, h)
  BY DEF Claims
<1> HIDE DEF F, W
<1>3. ASSUME NEW i \in DOMAIN Eras, NEW h \in DOMAIN Eras[i].claims,
             NEW x \in Eras[i].claims[h].faults, NEW y \in Eras[i].claims[h].strengths,
             x.id = y.id
      PROVE  x.corner # y.corner
  <2>1. h \in Cohorts /\ Eras[i].claims[h] = Claims(Eras[i].laps, h)
    BY <1>3 DEF Eras
  <2>2. x \in Candidates(Eras[i].laps, h) /\ y \in Strengths(Eras[i].laps, h)
    BY <1>3, <2>1 DEF Claims
  <2> QED
    BY <1>3, <2>1, <2>2, ClaimsAgree DEF Scopes
<1>4. ASSUME NEW x \in Answer.rollup.faults, NEW y \in Answer.rollup.strengths,
             x[1] = y[1], x[2].id = y[2].id
      PROVE  x[2].corner # y[2].corner
  <2>1. PICK h \in Cohorts : x \in shown(h, F(h))
    BY <1>1, <1>4
  <2>2. PICK k \in Cohorts : y \in shown(k, W(k))
    BY <1>1, <1>4
  <2>3. h = k
    BY <1>4, <2>1, <2>2
  <2>4. x[2] \in Candidates(All, h) /\ y[2] \in Strengths(All, h)
    BY <1>2, <2>1, <2>2, <2>3 DEF Shown
  <2> QED
    BY <1>4, <2>4, ClaimsAgree DEF Scopes
<1>5. ASSUME NEW h \in Cohorts, NEW y \in Selection(F(h), W(h)).strengths,
             Principles[y.id].gate.kind = "detector"
      PROVE  <<y.corner, Principles[y.id].gate.detector>> \notin Findings(h).principle
  <2>1. y \in Strengths(All, h)
    BY <1>2, <1>5 DEF Selection, Shown
  <2> QED
    BY <1>5, <2>1, StrengthIsNoFinding
<1> QED
  BY <1>1, <1>3, <1>4, <1>5 DEF VerdictIn

-----------------------------------------------------------------------------
(* What the driver is told.                                                *)

\* He is told an answer of the corpus, or still what he was told before.
LEMMA ToldNext ==
  [Next]_vars => (told' = Answer /\ config' = config) \/ UNCHANGED <<told, config>>
BY DEF Next, Import, Exclude, Include, Read, vars

LEMMA RecordedEver == Spec => []Recorded
BY RecordedInit, RecordedNext, PTL DEF Spec

\* On no page and nowhere in the rollup do a principle and its weaker twin
\* speak of the same corner, whatever the corpus.
THEOREM OneVoiceEver == Spec => []OneVoice
<1>1. Init => OneVoice
  BY AnswerHasOneVoice DEF Init, OneVoice
<1>2. OneVoice /\ [Next]_vars => OneVoice'
  <2>1. told' = told /\ OneVoice => OneVoice'
    BY DEF OneVoice, VoiceIn
  <2>2. told' = Answer => OneVoice'
    BY AnswerHasOneVoice DEF OneVoice, VoiceIn
  <2> QED
    BY <2>1, <2>2, ToldNext
<1> QED
  BY <1>1, <1>2, PTL DEF Spec

\* What is claimed of an era rests on laps of that era, a statistic's claim
\* excepted, and a finding against the reference on no lap that was excluded.
THEOREM EvidenceInScopeEver == Spec => []EvidenceInScope
<1>1. Recorded /\ Init => EvidenceInScope
  BY AnswerInScope DEF Init, EvidenceInScope
<1>2. Recorded /\ EvidenceInScope /\ [Next]_vars => EvidenceInScope'
  <2>1. told' = told /\ EvidenceInScope => EvidenceInScope'
    BY DEF EvidenceInScope, ScopeIn
  <2>2. Recorded /\ told' = Answer => EvidenceInScope'
    BY AnswerInScope DEF EvidenceInScope, ScopeIn
  <2> QED
    BY <2>1, <2>2, ToldNext
<1> QED
  BY <1>1, <1>2, RecordedEver, PTL DEF Spec

\* A chart of two buckets shows the two scores the trend compares, for an odd
\* number of laps as for an even one.
THEOREM TrendIsSeriesEver == Spec => []TrendIsSeries
<1>1. Recorded /\ Init => TrendIsSeries
  BY AnswerTrendIsSeries DEF Init, TrendIsSeries
<1>2. Recorded /\ TrendIsSeries /\ [Next]_vars => TrendIsSeries'
  <2>1. UNCHANGED <<told, config>> /\ TrendIsSeries => TrendIsSeries'
    BY DEF TrendIsSeries, TrendIn, Buckets
  <2>2. Recorded /\ told' = Answer /\ config' = config => TrendIsSeries'
    BY AnswerTrendIsSeries DEF TrendIsSeries, TrendIn, Buckets
  <2> QED
    BY <2>1, <2>2, ToldNext
<1> QED
  BY <1>1, <1>2, RecordedEver, PTL DEF Spec

\* Nothing is a fault and a strength at one corner, and no strength stands
\* beside the finding that denies it, whatever was driven and measured.
THEOREM OneVerdictEver == Spec => []OneVerdict
<1>1. Recorded /\ Init => OneVerdict
  BY AnswerHasOneVerdict DEF Init, OneVerdict
<1>2. Recorded /\ OneVerdict /\ [Next]_vars => OneVerdict'
  <2>1. told' = told /\ OneVerdict => OneVerdict'
    BY DEF OneVerdict, VerdictIn
  <2>2. Recorded /\ told' = Answer => OneVerdict'
    BY AnswerHasOneVerdict DEF OneVerdict, VerdictIn
  <2> QED
    BY <2>1, <2>2, ToldNext
<1> QED
  BY <1>1, <1>2, RecordedEver, PTL DEF Spec

-----------------------------------------------------------------------------
(* The components of a score are numbers.                                  *)

Parts == {"adherence", "opportunity", "consistency"}

LEMMA UnderIsNumber ==
  ASSUME NEW ceiling \in Int, NEW x \in Int
  PROVE  Under(ceiling, x) \in Int
<1>1. ceiling > 0 => (1000 * x) \div ceiling \in Int
  OBVIOUS
<1> QED
  BY <1>1 DEF Under, Clamp

LEMMA AdherenceIsNumber ==
  ASSUME Recorded, NEW f
  PROVE  Adherence(f, All) \in Int \cup {None}
<1> DEFINE cells == {<<h, c, d>> : h \in Cohorts, c \in Corners, d \in DetectorsOf(f)}
           judged == [x \in cells |-> Cardinality(Total(All, x[1], x[2], x[3]))]
           bad == [x \in cells |-> Cardinality(Triggered(All, x[1], x[2], x[3]))]
<1>1. IsFiniteSet(cells)
  BY CohortsFinite, FundamentalNames, TriplesFinite
<1>2. ASSUME NEW x \in cells PROVE judged[x] \in Nat /\ bad[x] \in Nat
  <2>1. Total(All, x[1], x[2], x[3]) \subseteq All
        /\ Triggered(All, x[1], x[2], x[3]) \subseteq All
    BY DEF Total, Triggered, Own
  <2>2. Cardinality(Total(All, x[1], x[2], x[3])) \in Nat
        /\ Cardinality(Triggered(All, x[1], x[2], x[3])) \in Nat
    BY <2>1, CohortsFinite, FS_Subset, FS_CardinalityType
  <2> QED
    BY <2>2
<1>3. 0 \in Nat /\ \A a, b \in Nat : a + b \in Nat
  OBVIOUS
<1>4. DOMAIN judged = cells /\ DOMAIN bad = cells
  OBVIOUS
<1> HIDE DEF judged, bad, cells
<1>5. SumFunction(judged) \in Nat /\ SumFunction(bad) \in Nat
  BY <1>1, <1>2, <1>3, <1>4, SumIn
<1>6. \A a, b \in Nat : a # 0 => 1000 - (1000 * b) \div a \in Int
  OBVIOUS
<1>7. Adherence(f, All) = IF SumFunction(judged) = 0 THEN None
                          ELSE 1000 - (1000 * SumFunction(bad)) \div SumFunction(judged)
  BY DEF Adherence, judged, bad, cells
<1> QED
  BY <1>5, <1>6, <1>7

LEMMA ConsistencyIsNumber ==
  ASSUME Recorded, NEW f
  PROVE  Consistency(f, All) \in Int \cup {None}
<1> DEFINE readings(x) == Readings(All, x[1], x[2], x[3])
           cells == {x \in Cohorts \X Corners \X MetricsOf(f) :
                       HasDispersion(readings(x), x[3])}
           dispersions == [x \in cells |-> Normalized(readings(x), x[3])]
           of == [x \in cells |-> x[3]]
<1>1. IsFiniteSet(cells)
  <2>1. IsFiniteSet(Cohorts \X Corners \X MetricsOf(f))
    BY CohortsFinite, FundamentalNames, TriplesFinite
  <2>2. cells \subseteq Cohorts \X Corners \X MetricsOf(f)
    OBVIOUS
  <2> QED
    BY <2>1, <2>2, FS_Subset
<1>2. ASSUME NEW x \in cells PROVE Normalized(readings(x), x[3]) \in Int
  <2>1. HasDispersion(readings(x), x[3])
    OBVIOUS
  <2>2. All \in Scopes
    BY DEF Scopes
  <2>3. Count(readings(x)) # 0
    BY <2>1, <2>2, ReadingsAreNumbers DEF HasDispersion
  <2>4. Numbers(readings(x))
    BY <2>2, <2>3, ReadingsAreNumbers
  <2> HIDE DEF readings
  <2> QED
    BY <2>1, <2>4, NormalizedIsNumber
<1>3. DOMAIN of = cells /\ \A x \in DOMAIN of : dispersions[x] \in Int
  BY <1>2
<1>4. cells # {} => Pooled(dispersions, of) \in Int
  <2> HIDE DEF dispersions, of, cells
  <2> QED
    BY <1>1, <1>3, PooledIsNumber
<1>5. config.dispersion_ceiling \in Int
  BY ConfigsAssumption DEF Recorded, ConfigsAssumption
<1>6. Consistency(f, All) =
        IF cells = {} THEN None
        ELSE Under(config.dispersion_ceiling, Pooled(dispersions, of))
  BY DEF Consistency
<1> HIDE DEF cells, dispersions, of
<1> QED
  BY <1>4, <1>5, <1>6, UnderIsNumber

\* The fence of the outliers reaches to the median deviation at least, so that
\* it never leaves nothing.
Fenced == \A c \in Configs : c.outlier_mad_k >= 1000

LEMMA TimesAreNumbers ==
  ASSUME Recorded, NEW h, NEW c, NEW phase,
         NEW S \in SUBSET History(All, h, c, phase), S # {}
  PROVE  IsFiniteSet(S) /\ Numbers(Times(S, c, phase)) /\ DOMAIN Times(S, c, phase) = S
         /\ \A l \in S : Times(S, c, phase)[l] = Time(l, c, phase) /\ Time(l, c, phase) \in Int
<1>1. S \subseteq All
  BY DEF History, Own
<1>2. IsFiniteSet(S)
  BY <1>1, CohortsFinite, FS_Subset
<1>3. DOMAIN Times(S, c, phase) = S /\ \A l \in S : Times(S, c, phase)[l] = Time(l, c, phase)
  BY DEF Times
<1>4. \A l \in S : Time(l, c, phase) \in Int
  BY <1>1 DEF Time, History, Timed, Seen, Recorded, Counted
<1> QED
  BY <1>2, <1>3, <1>4 DEF Numbers

\* No time is further from the median than all the others are.
LEMMA SomeDeviationWithin ==
  ASSUME NEW s, Numbers(s)
  PROVE  \E i \in DOMAIN s : Deviations(s)[i] <= Mad(s)
<1> DEFINE d == Deviations(s)
           n == Count(d)
           low == (n + 1) \div 2
           high == n \div 2 + 1
           V == {d[i] : i \in DOMAIN d}
<1>1. Numbers(d) /\ DOMAIN d = DOMAIN s /\ \A i \in DOMAIN d : d[i] \in Nat
  <2>1. Median(s) \in Int
    BY MedianIsNumber
  <2>2. \A a, b \in Int : Distance(a, b) \in Nat
    BY DEF Distance
  <2> QED
    BY <2>1, <2>2, DeviationsAreNumbers DEF Deviations, Numbers
<1> HIDE DEF d
<1>2. n \in Nat \ {0}
  BY <1>1, CountIsPositive DEF Numbers
<1>3. low \in 1..n /\ high \in 1..n
  <2> HIDE DEF n
  <2> QED
    BY <1>2
<1>4. Mad(s) = (Kth(d, low) + Kth(d, high)) \div 2
  BY DEF Mad, Median, Count, d
<1> HIDE DEF low, high
<1>5. Kth(d, low) \in V /\ Kth(d, high) \in V
  BY <1>1, <1>3, KthIsOne DEF Numbers
<1>6. V \in SUBSET Nat /\ V # {}
  BY <1>1 DEF Numbers
<1>7. PICK m \in V : \A k \in V : m <= k
  <2> HIDE DEF V
  <2> QED
    BY <1>6, LeastNumber
<1>8. m <= Mad(s)
  <2>1. m <= Kth(d, low) /\ m <= Kth(d, high) /\ m \in Nat
        /\ Kth(d, low) \in Nat /\ Kth(d, high) \in Nat
    BY <1>5, <1>6, <1>7
  <2>2. \A a, x, y \in Nat : a <= x /\ a <= y => a <= (x + y) \div 2
    OBVIOUS
  <2> QED
    BY <1>4, <2>1, <2>2
<1> QED
  BY <1>1, <1>7, <1>8 DEF d

\* There is always a time that is no outlier.
LEMMA CleanLeavesSome ==
  ASSUME Recorded, Fenced, NEW h, NEW c, NEW phase,
         NEW S \in SUBSET History(All, h, c, phase), S # {}
  PROVE  Clean(S, c, phase) \subseteq S /\ Clean(S, c, phase) # {}
<1> DEFINE s == Times(S, c, phase)
           mad == Mad(s)
           k == config.outlier_mad_k
<1>1. Numbers(s) /\ DOMAIN s = S /\ \A l \in S : s[l] = Time(l, c, phase)
  BY TimesAreNumbers
<1>2. k \in Int /\ k >= 1000
  BY ConfigsAssumption DEF Recorded, Fenced, ConfigsAssumption
<1>3. mad \in Int
  BY <1>1, DeviationsAreNumbers, MedianIsNumber DEF Mad
<1>4. PICK l \in S : Deviations(s)[l] <= mad
  BY <1>1, SomeDeviationWithin
<1>5. Deviations(s)[l] = Distance(Time(l, c, phase), Median(s))
      /\ Deviations(s)[l] \in Nat
  <2>1. Median(s) \in Int /\ Time(l, c, phase) \in Int
    BY <1>1, MedianIsNumber, TimesAreNumbers
  <2>2. \A a, b \in Int : Distance(a, b) \in Nat
    BY DEF Distance
  <2> HIDE DEF s
  <2> QED
    BY <1>1, <2>1, <2>2 DEF Deviations
<1>6. 1000 * Distance(Time(l, c, phase), Median(s)) <= k * mad
  <2> DEFINE x == Distance(Time(l, c, phase), Median(s))
  <2>1. x \in Nat /\ x <= mad
    BY <1>4, <1>5
  <2> HIDE DEF x, mad, k
  <2>2. k - 1000 \in Nat /\ mad \in Nat
    BY <1>2, <1>3, <2>1
  <2>3. (k - 1000) * mad \in Nat
    BY <2>2
  <2>4. (k - 1000) * mad = k * mad - 1000 * mad
    BY <1>2, <1>3
  <2>5. k * mad \in Int /\ 1000 * x <= 1000 * mad
    BY <1>2, <1>3, <2>1
  <2>6. 1000 * x <= k * mad
    BY <1>3, <2>1, <2>3, <2>4, <2>5
  <2> QED
    BY <2>6 DEF x
<1>7. Clean(S, c, phase) = S \/ l \in Clean(S, c, phase)
  BY <1>6 DEF Clean
<1>8. Clean(S, c, phase) \subseteq S
  BY DEF Clean
<1> QED
  BY <1>7, <1>8

LEMMA RobustBestIsNumber ==
  ASSUME Recorded, NEW s, Numbers(s)
  PROVE  RobustBest(s) \in Int
<1> DEFINE k == Greatest({1, Least({config.baseline_top_k, Count(s)})})
           t == [i \in 1..k |-> Kth(s, i)]
<1>1. Count(s) \in Nat \ {0} /\ config.baseline_top_k \in Int
  BY CountIsPositive, ConfigsAssumption DEF Recorded, Numbers, ConfigsAssumption
<1>2. k \in 1 .. Count(s)
  <2> DEFINE m == Least({config.baseline_top_k, Count(s)})
  <2>1. m \in Int /\ m <= Count(s)
    BY <1>1, LesserOfTwo
  <2> HIDE DEF m
  <2>2. Greatest({1, m}) \in {1, m} /\ Greatest({1, m}) >= 1
    BY <2>1, LesserOfTwo
  <2> QED
    BY <1>1, <2>1, <2>2 DEF m
<1> HIDE DEF k
<1>3. \A i \in 1..k : Kth(s, i) \in Int
  BY <1>1, <1>2, KthIsNumber
<1>4. IsFiniteSet(1..k) /\ 1 \in 1..k
  BY <1>1, <1>2, FS_Interval
<1>5. Numbers(t)
  BY <1>3, <1>4 DEF Numbers
<1>6. Median(t) \in Int
  <2> HIDE DEF t
  <2> QED
    BY <1>5, MedianIsNumber
<1> QED
  BY <1>6 DEF RobustBest, k

LEMMA FundamentalPhases ==
  \A f \in DOMAIN Fundamentals : IsFiniteSet(Fundamentals[f])
<1> DEFINE phases == {"entry", "mid", "exit", "entry", "entry"}
<1>1. IsFiniteSet(phases)
  BY FiveFinite
<1>2. \A f \in DOMAIN Fundamentals : Fundamentals[f] \subseteq phases
  BY DEF Fundamentals
<1> HIDE DEF phases
<1> QED
  BY <1>1, <1>2, FS_Subset

LEMMA LossScoreIsNumber ==
  ASSUME Recorded, Fenced, NEW f \in DOMAIN Fundamentals
  PROVE  LossScore(f, All) \in Int \cup {None}
<1> DEFINE cells == {x \in Cohorts \X Corners \X Fundamentals[f] :
                       HasFinding(All, x[1], x[2], x[3])}
           losses == [x \in cells |-> Loss(All, x[1], x[2], x[3])]
<1>1. ASSUME NEW h, NEW c, NEW phase, HasFinding(All, h, c, phase)
      PROVE  Loss(All, h, c, phase) \in Int
  <2> DEFINE history == History(All, h, c, phase)
             clean == Clean(history, c, phase)
  <2>1. history # {}
    BY <1>1 DEF HasFinding
  <2>2. Median(Times(history, c, phase)) \in Int
    BY <2>1, TimesAreNumbers, MedianIsNumber
  <2>3. clean \subseteq history /\ clean # {}
    BY <2>1, CleanLeavesSome
  <2>4. Numbers(Times(clean, c, phase))
    <3> HIDE DEF clean
    <3> QED
      BY <2>3, TimesAreNumbers
  <2>5. Baseline(history, c, phase).robust \in Int
    BY <2>4, RobustBestIsNumber DEF Baseline
  <2> QED
    BY <2>2, <2>5 DEF Loss
<1>2. IsFiniteSet(cells)
  <2>1. IsFiniteSet(Cohorts \X Corners \X Fundamentals[f])
    BY FundamentalPhases, CohortsFinite, TriplesFinite
  <2>2. cells \subseteq Cohorts \X Corners \X Fundamentals[f]
    OBVIOUS
  <2> QED
    BY <2>1, <2>2, FS_Subset
<1>3. DOMAIN losses = cells /\ \A x \in DOMAIN losses : losses[x] \in Int
  BY <1>1
<1>4. cells # {} => Mean(losses) \in Int
  <2>1. cells # {} => Numbers(losses)
    BY <1>2, <1>3 DEF Numbers
  <2> HIDE DEF losses, cells
  <2> QED
    BY <2>1, MeanIsNumber
<1>5. config.opportunity_ceiling \in Int
  BY ConfigsAssumption DEF Recorded, ConfigsAssumption
<1>6. LossScore(f, All) = IF cells = {} THEN None
                          ELSE Under(config.opportunity_ceiling, Mean(losses))
  BY DEF LossScore
<1> HIDE DEF cells, losses
<1> QED
  BY <1>4, <1>5, <1>6, UnderIsNumber

\* A component that there is is a number.
LEMMA Scorable ==
  ASSUME Recorded, Fenced, NEW f \in DOMAIN Fundamentals, NEW k \in Parts
  PROVE  Components(f, All)[k] \in Int \cup {None}
BY AdherenceIsNumber, LossScoreIsNumber, ConsistencyIsNumber DEF Components, Parts

-----------------------------------------------------------------------------
(* Scores.                                                                 *)

\* Every weight counts.  (The code refuses weights that do not add up to one,
\* and neither a zero nor a negative one.)
Positive == \A c \in Configs : \A k \in Parts : c.weight[k] \in Nat \ {0}

LEMMA ScaledBound ==
  ASSUME NEW x \in Int, NEW y \in Int, NEW w \in Nat, x <= y
  PROVE  x * w <= y * w
OBVIOUS

\* A quotient lies between the bounds of its dividend.
LEMMA QuotientBetween ==
  ASSUME NEW s \in Int, NEW w \in Nat \ {0}, NEW a \in Int, NEW b \in Int,
         a * w <= s, s <= b * w
  PROVE  a <= s \div w /\ s \div w <= b
<1> DEFINE q == s \div w
           r == s % w
<1>1. q \in Int /\ r \in 0 .. (w - 1) /\ s = w * q + r
  OBVIOUS
<1> HIDE DEF q, r
<1>2. a <= q
  <2>1. SUFFICES ASSUME q + 1 <= a PROVE FALSE
    BY <1>1
  <2>2. (q + 1) * w <= a * w
    BY <1>1, <2>1, ScaledBound
  <2>3. (q + 1) * w = w * q + w
    BY <1>1
  <2> QED
    BY <1>1, <2>2, <2>3
<1>3. q <= b
  <2>1. SUFFICES ASSUME b + 1 <= q PROVE FALSE
    BY <1>1
  <2>2. (b + 1) * w <= q * w
    BY <1>1, <2>1, ScaledBound
  <2>3. (b + 1) * w = b * w + w /\ q * w = w * q
    BY <1>1
  <2> QED
    BY <1>1, <2>2, <2>3
<1> QED
  BY <1>2, <1>3 DEF q

LEMMA ExtremesOfThree ==
  ASSUME NEW a \in Int, NEW b \in Int, NEW c \in Int, NEW S, S = {a, b, c}
  PROVE  /\ Least(S) \in S /\ \A u \in S : Least(S) <= u
         /\ Greatest(S) \in S /\ \A u \in S : u <= Greatest(S)
<1>1. \E v \in S : \A u \in S : v <= u
  OBVIOUS
<1>2. \E v \in S : \A u \in S : u <= v
  OBVIOUS
<1>3. Least(S) \in S /\ \A u \in S : Least(S) <= u
  BY <1>1 DEF Least
<1>4. Greatest(S) \in S /\ \A u \in S : u <= Greatest(S)
  BY <1>2 DEF Greatest
<1> QED
  BY <1>3, <1>4

\* The mean of the components there are, by weight, lies among them.
LEMMA WeightedAmong ==
  ASSUME NEW parts, DOMAIN parts = Parts,
         \A k \in Parts : parts[k] \in Int \cup {None},
         \A k \in Parts : config.weight[k] \in Nat \ {0},
         Available(parts) # {}
  PROVE  LET there == {parts[k] : k \in Available(parts)}
         IN Least(there) <= Weighted(parts) /\ Weighted(parts) <= Greatest(there)
<1> DEFINE there == {parts[k] : k \in Available(parts)}
           weight(k) == IF parts[k] = None THEN 0 ELSE config.weight[k]
           scored(k) == IF parts[k] = None THEN 0 ELSE parts[k] * config.weight[k]
           low == Least(there)
           high == Greatest(there)
<1>1. PICK k0 \in Parts : parts[k0] # None
  BY DEF Available
<1>2. /\ low \in there /\ \A u \in there : low <= u
      /\ high \in there /\ \A u \in there : u <= high
  <2> DEFINE v(k) == IF parts[k] = None THEN parts[k0] ELSE parts[k]
  <2>1. there = {v("adherence"), v("opportunity"), v("consistency")}
    BY <1>1 DEF Available, Parts
  <2>2. \A k \in Parts : v(k) \in Int
    BY <1>1
  <2>3. v("adherence") \in Int /\ v("opportunity") \in Int /\ v("consistency") \in Int
    BY <2>2 DEF Parts
  <2> HIDE DEF v, there
  <2> QED
    BY <2>1, <2>3, ExtremesOfThree
<1>3. low \in Int /\ high \in Int
  BY <1>2 DEF Available
<1>4. ASSUME NEW k \in Parts
      PROVE  /\ weight(k) \in Nat /\ scored(k) \in Int
             /\ low * weight(k) <= scored(k) /\ scored(k) <= high * weight(k)
  <2> HIDE DEF low, high
  <2>1. CASE parts[k] = None
    BY <1>3, <2>1
  <2>2. CASE parts[k] # None
    <3>1. parts[k] \in there /\ parts[k] \in Int /\ config.weight[k] \in Nat
      BY <2>2 DEF Available
    <3>2. low <= parts[k] /\ parts[k] <= high
      BY <1>2, <3>1
    <3>3. low * config.weight[k] <= parts[k] * config.weight[k]
          /\ parts[k] * config.weight[k] <= high * config.weight[k]
      BY <1>3, <3>1, <3>2, ScaledBound
    <3>4. parts[k] * config.weight[k] \in Int
      BY <3>1
    <3> QED
      BY <2>2, <3>1, <3>3, <3>4
  <2> QED
    BY <2>1, <2>2
<1>5. weight(k0) # 0
  BY <1>1
<1> HIDE DEF low, high, there, weight, scored
<1> DEFINE a == "adherence" o == "opportunity" c == "consistency"
           w == weight(a) + weight(o) + weight(c)
           s == scored(a) + scored(o) + scored(c)
<1>6. a \in Parts /\ o \in Parts /\ c \in Parts /\ Parts = {a, o, c}
  BY DEF Parts
<1>7. w \in Nat \ {0} /\ s \in Int
  <2>1. weight(a) \in Nat /\ weight(o) \in Nat /\ weight(c) \in Nat
    BY <1>4, <1>6
  <2>2. weight(a) # 0 \/ weight(o) # 0 \/ weight(c) # 0
    BY <1>5, <1>6
  <2>3. scored(a) \in Int /\ scored(o) \in Int /\ scored(c) \in Int
    BY <1>4, <1>6
  <2> QED
    BY <2>1, <2>2, <2>3
<1>8. low * w <= s /\ s <= high * w
  <2>1. /\ weight(a) \in Nat /\ weight(o) \in Nat /\ weight(c) \in Nat
        /\ scored(a) \in Int /\ scored(o) \in Int /\ scored(c) \in Int
        /\ low * weight(a) <= scored(a) /\ scored(a) <= high * weight(a)
        /\ low * weight(o) <= scored(o) /\ scored(o) <= high * weight(o)
        /\ low * weight(c) <= scored(c) /\ scored(c) <= high * weight(c)
    BY <1>4, <1>6
  <2>2. \A m \in Int, x, y, z \in Nat : m * (x + y + z) = m * x + m * y + m * z
    OBVIOUS
  <2>3. low * w = low * weight(a) + low * weight(o) + low * weight(c)
        /\ high * w = high * weight(a) + high * weight(o) + high * weight(c)
    BY <1>3, <2>1, <2>2
  <2>4. \A m \in Int, x \in Nat : m * x \in Int
    OBVIOUS
  <2>5. /\ low * weight(a) \in Int /\ low * weight(o) \in Int /\ low * weight(c) \in Int
        /\ high * weight(a) \in Int /\ high * weight(o) \in Int /\ high * weight(c) \in Int
    BY <1>3, <2>1, <2>4
  <2> QED
    BY <2>1, <2>3, <2>5
<1>9. Weighted(parts) = s \div w
  BY DEF Weighted, weight, scored
<1>10. low <= s \div w /\ s \div w <= high
  <2> HIDE DEF s, w
  <2> QED
    BY <1>3, <1>7, <1>8, QuotientBetween
<1> QED
  BY <1>9, <1>10 DEF low, high, there

LEMMA AnswerScores ==
  ASSUME Recorded, Fenced, Positive
  PROVE  ScoreIn(Answer)
<1>1. /\ Answer.beliefs = Beliefs
      /\ Answer.parts = [f \in DOMAIN Fundamentals |-> Components(f, All)]
  BY DEF Answer, Payload
<1>2. ASSUME NEW f \in DOMAIN Fundamentals, Beliefs[f].score # None
      PROVE  LET parts == Components(f, All)
                 there == {parts[k] : k \in Available(parts)}
             IN /\ Least(there) <= Beliefs[f].score
                /\ Beliefs[f].score <= Greatest(there)
  <2> DEFINE parts == Components(f, All)
  <2>1. Beliefs[f].score = Weighted(parts)
    BY <1>2 DEF Beliefs, Belief, NoBelief, BucketScore
  <2>2. Available(parts) # {}
    BY <1>2, <2>1 DEF Weighted
  <2>3. DOMAIN parts = Parts
    BY DEF Components, Parts
  <2>4. \A k \in Parts : parts[k] \in Int \cup {None}
    BY Scorable
  <2>5. \A k \in Parts : config.weight[k] \in Nat \ {0}
    BY DEF Positive, Recorded
  <2> HIDE DEF parts
  <2>6. LET there == {parts[k] : k \in Available(parts)}
        IN Least(there) <= Weighted(parts) /\ Weighted(parts) <= Greatest(there)
    BY <2>2, <2>3, <2>4, <2>5, WeightedAmong
  <2> QED
    BY <2>1, <2>6 DEF parts
<1>3. DOMAIN Beliefs = DOMAIN Fundamentals
  BY DEF Beliefs
<1> QED
  BY <1>1, <1>2, <1>3 DEF ScoreIn

\* A score lies among the components that have evidence, whichever those are,
\* if every weight counts and the fence of the outliers leaves a lap to learn
\* from.
THEOREM ScoreAmongComponentsEver ==
  ASSUME Positive, Fenced
  PROVE  Spec => []ScoreAmongComponents
<1>1. Recorded /\ Init => ScoreAmongComponents
  BY AnswerScores DEF Init, ScoreAmongComponents
<1>2. Recorded /\ ScoreAmongComponents /\ [Next]_vars => ScoreAmongComponents'
  <2>1. told' = told /\ ScoreAmongComponents => ScoreAmongComponents'
    BY DEF ScoreAmongComponents, ScoreIn, Available
  <2>2. Recorded /\ told' = Answer => ScoreAmongComponents'
    BY AnswerScores DEF ScoreAmongComponents, ScoreIn, Available
  <2> QED
    BY <2>1, <2>2, ToldNext
<1> QED
  BY <1>1, <1>2, RecordedEver, PTL DEF Spec

-----------------------------------------------------------------------------
(* Other people's laps.  What is computed of the driver reads his own laps *)
(* only, so that it is the same before and after somebody else's is stored.*)

\* The corpus grows, if at all, by laps that are not the driver's.
Extends ==
  /\ config' = config
  /\ \A l \in All : l \in All' /\ laps'[l] = laps[l]
  /\ \A l \in All' : l \notin All => laps'[l].role # "self"

\* The driver has the same laps in S, before, as in T, after.
Alike(S, T) ==
  {l \in All' \cap T : laps'[l].role = "self"} = {l \in All \cap S : laps[l].role = "self"}

LEMMA AlikeSelf ==
  ASSUME Extends, NEW S
  PROVE  Alike(S, S)
BY DEF Extends, Alike

LEMMA AlikeAll ==
  ASSUME Extends
  PROVE  \A S, T : S = All /\ T = All' => Alike(S, T)
BY DEF Extends, Alike

LEMMA OwnSame ==
  ASSUME Extends, NEW S, NEW T, Alike(S, T), NEW h
  PROVE  Own(T, h)' = Own(S, h) /\ Own(S, h) \subseteq All
<1>1. \A l \in All : InCohort(l, h)' <=> InCohort(l, h)
  BY DEF Extends, InCohort
<1> QED
  BY <1>1 DEF Own, Alike, Extends

LEMMA LapSame ==
  ASSUME Extends, NEW l \in All, NEW c, NEW x
  PROVE  /\ Seen(l, c)' <=> Seen(l, c)
         /\ Timed(l, c, x)' <=> Timed(l, c, x)
         /\ Measured(l, c, x)' <=> Measured(l, c, x)
         /\ Judged(l, c, x)' <=> Judged(l, c, x)
         /\ Time(l, c, x)' = Time(l, c, x)
BY DEF Extends, Seen, Timed, Measured, Judged, Time

LEMMA HistorySame ==
  ASSUME Extends, NEW S, NEW T, Alike(S, T), NEW h, NEW c, NEW phase
  PROVE  /\ History(T, h, c, phase)' = History(S, h, c, phase)
         /\ History(S, h, c, phase) \subseteq All
         /\ HasFinding(T, h, c, phase)' <=> HasFinding(S, h, c, phase)
<1>1. History(T, h, c, phase)' = History(S, h, c, phase)
      /\ History(S, h, c, phase) \subseteq All
  BY OwnSame, LapSame DEF History
<1> QED
  BY <1>1 DEF HasFinding

LEMMA TablesSame ==
  ASSUME Extends, NEW S, NEW T, Alike(S, T), NEW h, NEW c, NEW x
  PROVE  /\ With(T, h, c, x)' = With(S, h, c, x)
         /\ Readings(T, h, c, x)' = Readings(S, h, c, x)
         /\ Total(T, h, c, x)' = Total(S, h, c, x)
         /\ Triggered(T, h, c, x)' = Triggered(S, h, c, x)
<1>1. With(T, h, c, x)' = With(S, h, c, x) /\ With(S, h, c, x) \subseteq All
  BY OwnSame, LapSame DEF With
<1>2. Total(T, h, c, x)' = Total(S, h, c, x) /\ Total(S, h, c, x) \subseteq All
  BY OwnSame, LapSame DEF Total
<1>3. \A l \in All : laps'[l] = laps[l]
  BY DEF Extends
<1>4. Readings(T, h, c, x)' = Readings(S, h, c, x)
  BY <1>1, <1>3 DEF Readings
<1>5. Triggered(T, h, c, x)' = Triggered(S, h, c, x)
  BY <1>2, <1>3 DEF Triggered
<1> QED
  BY <1>1, <1>2, <1>4, <1>5

LEMMA CohortsSame == Extends => Cohorts' = Cohorts
BY DEF Extends, Cohorts

LEMMA SessionsSame ==
  ASSUME Extends, NEW X \in SUBSET All
  PROVE  Sessions(X)' = Sessions(X)
BY DEF Extends, Sessions

LEMMA TimesSame ==
  ASSUME Extends, NEW X \in SUBSET All, NEW c, NEW phase
  PROVE  Times(X, c, phase)' = Times(X, c, phase)
BY LapSame DEF Times

LEMMA CleanSame ==
  ASSUME Extends, NEW X \in SUBSET All, NEW c, NEW phase
  PROVE  Clean(X, c, phase)' = Clean(X, c, phase) /\ Clean(X, c, phase) \subseteq X
<1>1. Times(X, c, phase)' = Times(X, c, phase)
  BY TimesSame
<1>2. \A l \in X : Time(l, c, phase)' = Time(l, c, phase)
  BY LapSame
<1>3. config' = config
  BY DEF Extends
<1> QED
  BY <1>1, <1>2, <1>3 DEF Clean

LEMMA LossSame ==
  ASSUME Extends, NEW S, NEW T, Alike(S, T), NEW h, NEW c, NEW phase
  PROVE  Loss(T, h, c, phase)' = Loss(S, h, c, phase)
<1>1. PICK X : X = History(S, h, c, phase)
  OBVIOUS
<1>2. History(T, h, c, phase)' = X /\ X \subseteq All
  BY <1>1, HistorySame
<1>3. PICK Y : Y = Clean(X, c, phase)
  OBVIOUS
<1>4. Clean(X, c, phase)' = Y /\ Y \subseteq All
  BY <1>2, <1>3, CleanSame
<1>5. Times(X, c, phase)' = Times(X, c, phase) /\ Times(Y, c, phase)' = Times(Y, c, phase)
  BY <1>2, <1>4, TimesSame
<1>6. \A s : RobustBest(s)' = RobustBest(s)
  BY DEF RobustBest, Extends
<1>7. Baseline(X, c, phase)' = Baseline(X, c, phase)
  BY <1>3, <1>4, <1>5, <1>6 DEF Baseline
<1> QED
  BY <1>1, <1>2, <1>5, <1>7 DEF Loss

LEMMA GapSame ==
  ASSUME Extends, NEW X \in SUBSET All, NEW F, NEW G, NEW c, NEW phase
  PROVE  Gap(X, F, G, c, phase)' = Gap(X, F, G, c, phase)
<1>1. /\ Times(X \cap F, c, phase)' = Times(X \cap F, c, phase)
      /\ Times(X \cap G, c, phase)' = Times(X \cap G, c, phase)
  BY TimesSame
<1> QED
  BY <1>1 DEF Gap

LEMMA OrderSame ==
  ASSUME Extends, NEW X \in SUBSET All, NEW k
  PROVE  Fastest(X, k)' = Fastest(X, k) /\ Slowest(X, k)' = Slowest(X, k)
<1>1. \A a, b \in All : Before(a, b)' <=> Before(a, b)
  BY DEF Extends, Before
<1> QED
  BY <1>1 DEF Fastest, Slowest

LEMMA OpportunitySame ==
  ASSUME Extends, NEW S, NEW T, Alike(S, T), NEW h, NEW c, NEW phase
  PROVE  Opportunity(T, h, c, phase)' = Opportunity(S, h, c, phase)
<1>1. PICK X : X = History(S, h, c, phase)
  OBVIOUS
<1>2. History(T, h, c, phase)' = X /\ X \subseteq All
  BY <1>1, HistorySame
<1>3. PICK Y : Y = Clean(X, c, phase)
  OBVIOUS
<1>4. Clean(X, c, phase)' = Y /\ Y \subseteq All
  BY <1>2, <1>3, CleanSame
<1>5. PICK O : O = Own(S, h)
  OBVIOUS
<1>6. Own(T, h)' = O /\ O \subseteq All
  BY <1>5, OwnSame
<1>7. PICK k : k = Greatest({1, Cardinality(O) \div 3})
  OBVIOUS
<1>8. PICK F : F = Fastest(O, k)
  OBVIOUS
<1>9. PICK G : G = Slowest(O, k)
  OBVIOUS
<1>10. Fastest(O, k)' = F /\ Slowest(O, k)' = G
  BY <1>6, <1>8, <1>9, OrderSame
<1>11. Gap(Y, F, G, c, phase)' = Gap(Y, F, G, c, phase)
  BY <1>4, GapSame
<1> QED
  BY <1>1, <1>2, <1>3, <1>4, <1>5, <1>6, <1>7, <1>8, <1>9, <1>10, <1>11 DEF Opportunity

LEMMA ReasonSame ==
  ASSUME Extends, NEW S, NEW T, Alike(S, T), NEW h, NEW c, NEW phase
  PROVE  SelfFinding(T, h, c, phase).reason' = SelfFinding(S, h, c, phase).reason
<1>1. PICK X : X = History(S, h, c, phase)
  OBVIOUS
<1>2. History(T, h, c, phase)' = X /\ X \subseteq All
  BY <1>1, HistorySame
<1>3. Sessions(X)' = Sessions(X)
  BY <1>2, SessionsSame
<1>4. \A n, m : Gate(n, m)' = Gate(n, m)
  BY DEF Extends, Gate
<1>5. Opportunity(T, h, c, phase)' = Opportunity(S, h, c, phase)
  BY OpportunitySame
<1>6. config' = config
  BY DEF Extends
<1> QED
  BY <1>1, <1>2, <1>3, <1>4, <1>5, <1>6 DEF SelfFinding

LEMMA AdherenceSame ==
  ASSUME Extends, NEW S, NEW T, Alike(S, T), NEW f
  PROVE  Adherence(f, T)' = Adherence(f, S)
<1>1. Cohorts' = Cohorts
  BY CohortsSame
<1>2. \A h, c, x : /\ Total(T, h, c, x)' = Total(S, h, c, x)
                   /\ Triggered(T, h, c, x)' = Triggered(S, h, c, x)
  BY TablesSame
<1> QED
  BY <1>1, <1>2 DEF Adherence

LEMMA LossScoreSame ==
  ASSUME Extends, NEW S, NEW T, Alike(S, T), NEW f
  PROVE  LossScore(f, T)' = LossScore(f, S)
<1>1. Cohorts' = Cohorts /\ config' = config
  BY CohortsSame DEF Extends
<1>2. \A h, c, x : /\ HasFinding(T, h, c, x)' <=> HasFinding(S, h, c, x)
                   /\ Loss(T, h, c, x)' = Loss(S, h, c, x)
  BY HistorySame, LossSame
<1> QED
  BY <1>1, <1>2 DEF LossScore

LEMMA DispersionSame ==
  ASSUME Extends, NEW s, NEW m
  PROVE  /\ HasDispersion(s, m)' <=> HasDispersion(s, m)
         /\ Normalized(s, m)' = Normalized(s, m)
<1>1. Reference(m)' = Reference(m)
  BY DEF Extends, Reference
<1> QED
  BY <1>1 DEF HasDispersion, Normalized

LEMMA ConsistencySame ==
  ASSUME Extends, NEW S, NEW T, Alike(S, T), NEW f
  PROVE  Consistency(f, T)' = Consistency(f, S)
<1>1. Cohorts' = Cohorts /\ config' = config
  BY CohortsSame DEF Extends
<1>2. \A h, c, m : Readings(T, h, c, m)' = Readings(S, h, c, m)
  BY TablesSame
<1>3. \A s, m : /\ HasDispersion(s, m)' <=> HasDispersion(s, m)
                /\ Normalized(s, m)' = Normalized(s, m)
  BY DispersionSame
<1> QED
  BY <1>1, <1>2, <1>3 DEF Consistency

LEMMA BucketScoreSame ==
  ASSUME Extends, NEW S, NEW T, Alike(S, T), NEW f
  PROVE  BucketScore(f, T)' = BucketScore(f, S)
<1>1. Components(f, T)' = Components(f, S)
  BY AdherenceSame, LossScoreSame, ConsistencySame DEF Components
<1>2. \A p : Weighted(p)' = Weighted(p)
  BY DEF Extends, Weighted
<1> QED
  BY <1>1, <1>2 DEF BucketScore

LEMMA DatedSame ==
  ASSUME Extends
  PROVE  Dated' = Dated
<1> DEFINE own == {l \in All : laps[l].role = "self" /\ laps[l].date # None}
           late == {l \in All' : laps'[l].role = "self" /\ laps'[l].date # None}
           rank(l) == Cardinality({k \in own : \/ laps[k].date < laps[l].date
                                               \/ laps[k].date = laps[l].date /\ k <= l})
           place(l) == Cardinality({k \in late : \/ laps'[k].date < laps'[l].date
                                                 \/ laps'[k].date = laps'[l].date /\ k <= l})
           first(i) == CHOOSE l \in own : rank(l) = i
           then(i) == CHOOSE l \in late : place(l) = i
<1>1. late = own
  BY DEF Extends
<1>2. ASSUME NEW l \in own PROVE place(l) = rank(l)
  <2>1. \A k \in own : laps'[k] = laps[k]
    BY DEF Extends
  <2> HIDE DEF own, late
  <2> QED
    BY <1>1, <2>1
<1>3. /\ Dated = [i \in 1..Cardinality(own) |-> first(i)]
      /\ Dated' = [i \in 1..Cardinality(late) |-> then(i)]
  BY DEF Dated
<1>4. \A i : then(i) = first(i)
  <2> HIDE DEF own, late, rank, place
  <2> QED
    BY <1>1, <1>2
<1> HIDE DEF first, then, own, late
<1> QED
  BY <1>1, <1>3, <1>4

LEMMA ConfidenceSame ==
  ASSUME Extends, NEW f
  PROVE  EvidenceLaps(f)' = EvidenceLaps(f) /\ Confidence(f)' = Confidence(f)
<1> DEFINE own == {l \in All : laps[l].role = "self"}
<1>1. {l \in All' : laps'[l].role = "self"} = own
  BY DEF Extends
<1>2. EvidenceLaps(f)' = EvidenceLaps(f)
  <2>1. \A l \in All : /\ laps'[l] = laps[l]
                       /\ \A c, x : Measured(l, c, x)' <=> Measured(l, c, x)
                       /\ \A c, x : Judged(l, c, x)' <=> Judged(l, c, x)
    BY LapSame DEF Extends
  <2> QED
    BY <2>1 DEF EvidenceLaps, Extends
<1>3. PICK O : O = own
  OBVIOUS
<1>4. Sessions(O)' = Sessions(O)
  BY <1>3, SessionsSame
<1>5. Cohorts' = Cohorts /\ config' = config
  BY CohortsSame DEF Extends
<1>6. Terms(f)' = Terms(f)
  BY <1>1, <1>2, <1>3, <1>4, <1>5 DEF Terms
<1> QED
  BY <1>2, <1>5, <1>6 DEF Confidence

\* What is believed of the driver.
LEMMA BeliefsSame == ASSUME Extends PROVE Beliefs' = Beliefs
<1>1. Dated' = Dated /\ config' = config
  BY DatedSame DEF Extends
<1>2. \A f, S : BucketScore(f, S)' = BucketScore(f, S)
  BY AlikeSelf, BucketScoreSame
<1>3. \A f : BucketScore(f, All)' = BucketScore(f, All)
  <2>1. PICK S : S = All
    OBVIOUS
  <2>2. PICK T : T = All'
    OBVIOUS
  <2>3. Alike(S, T)
    BY <2>1, <2>2, AlikeAll
  <2>4. \A f : BucketScore(f, T)' = BucketScore(f, S)
    BY <2>3, BucketScoreSame
  <2> QED
    BY <2>1, <2>2, <2>4
<1>4. \A f : HalfScores(f)' = HalfScores(f)
  BY <1>1, <1>2 DEF HalfScores, EnoughDated
<1>5. \A f : Trend(f)' = Trend(f)
  BY <1>1, <1>4 DEF Trend, Direction
<1>6. \A f : EvidenceLaps(f)' = EvidenceLaps(f) /\ Confidence(f)' = Confidence(f)
  BY ConfidenceSame
<1>7. \A f, s : Belief(f, s)' = Belief(f, s)
  BY <1>1, <1>5, <1>6 DEF Belief
<1> QED
  BY <1>3, <1>7 DEF Beliefs

LEMMA ValueSame ==
  ASSUME Extends, NEW S, NEW T, Alike(S, T), NEW h, NEW c,
         NEW gate, gate.kind \in GateKinds
  PROVE  /\ Value(T, h, c, gate)' = Value(S, h, c, gate)
         /\ Volume(T, h, c, gate)' = Volume(S, h, c, gate)
<1>1. \A x : /\ Readings(T, h, c, x)' = Readings(S, h, c, x)
             /\ Total(T, h, c, x)' = Total(S, h, c, x)
             /\ Triggered(T, h, c, x)' = Triggered(S, h, c, x)
  BY TablesSame
<1>2. \A x : /\ HasFinding(T, h, c, x)' <=> HasFinding(S, h, c, x)
             /\ SelfFinding(T, h, c, x).reason' = SelfFinding(S, h, c, x).reason
             /\ History(T, h, c, x)' = History(S, h, c, x)
  BY HistorySame, ReasonSame
<1>3. config' = config
  BY DEF Extends
<1>4. \A s, m : /\ HasDispersion(s, m)' <=> HasDispersion(s, m)
                /\ Normalized(s, m)' = Normalized(s, m)
  BY DispersionSame
<1>5. DispersionCells(T, h, c, gate)' = DispersionCells(S, h, c, gate)
  BY <1>1, <1>4 DEF DispersionCells
<1>6. DispersionValue(T, h, c, gate)' = DispersionValue(S, h, c, gate)
  BY <1>1, <1>4, <1>5 DEF DispersionValue
<1>7. StatValue(T, h, c, gate)' = StatValue(S, h, c, gate)
  <2>1. Guarded(T, h, c, gate)' <=> Guarded(S, h, c, gate)
    BY <1>1, <1>3 DEF Guarded
  <2> QED
    BY <1>1, <2>1 DEF StatValue
<1>8. Value(T, h, c, gate)' = Value(S, h, c, gate)
  BY <1>1, <1>2, <1>6, <1>7 DEF Value, GateKinds
<1>9. Volume(T, h, c, gate)' = Volume(S, h, c, gate)
  BY <1>1, <1>2, <1>5 DEF Volume, GateKinds
<1> QED
  BY <1>8, <1>9

LEMMA VerdictSame ==
  ASSUME Extends, NEW value, NEW gate
  PROVE  /\ Fires(value, gate)' <=> Fires(value, gate)
         /\ Clears(value, gate)' <=> Clears(value, gate)
<1>1. Floor(gate)' = Floor(gate)
  BY DEF Extends, Floor
<1> QED
  BY <1>1 DEF Fires, Clears

LEMMA EvidenceSame ==
  ASSUME Extends, NEW S, NEW T, Alike(S, T), NEW h, NEW c, NEW gate
  PROVE  Evidence(T, h, c, gate)' = Evidence(S, h, c, gate)
<1>1. PICK U : U = EvidenceScope(S, gate)
  OBVIOUS
<1>2. PICK V : V = EvidenceScope(T, gate)'
  OBVIOUS
<1>3. Alike(U, V)
  BY <1>1, <1>2, AlikeAll DEF EvidenceScope
<1>4. \A x : /\ With(V, h, c, x)' = With(U, h, c, x)
             /\ Triggered(V, h, c, x)' = Triggered(U, h, c, x)
             /\ History(V, h, c, x)' = History(U, h, c, x)
  BY <1>3, TablesSame, HistorySame
<1> QED
  BY <1>1, <1>2, <1>4 DEF Evidence

\* What is claimed of the driver.
LEMMA ClaimsSame ==
  ASSUME Extends, NEW S, NEW T, Alike(S, T), NEW h
  PROVE  Claims(T, h)' = Claims(S, h)
<1>1. \A c, gate : gate.kind \in GateKinds =>
        /\ Value(T, h, c, gate)' = Value(S, h, c, gate)
        /\ Volume(T, h, c, gate)' = Volume(S, h, c, gate)
  BY ValueSame
<1>2. \A c, gate : Evidence(T, h, c, gate)' = Evidence(S, h, c, gate)
  BY EvidenceSame
<1>3. \A v, gate : /\ Fires(v, gate)' <=> Fires(v, gate)
                   /\ Clears(v, gate)' <=> Clears(v, gate)
  BY VerdictSame
<1>4. \A c, x : /\ HasFinding(T, h, c, x)' <=> HasFinding(S, h, c, x)
                /\ Loss(T, h, c, x)' = Loss(S, h, c, x)
  BY HistorySame, LossSame
<1>5. config' = config
  BY DEF Extends
<1>6. ASSUME NEW id \in DOMAIN Principles, NEW c
      PROVE  LET p == Principles[id]
             IN /\ IsCandidate(T, h, p, c)' <=> IsCandidate(S, h, p, c)
                /\ Magnitude(T, h, p, c)' = Magnitude(S, h, p, c)
                /\ IsStrength(T, h, p.gate, c)' <=> IsStrength(S, h, p.gate, c)
  <2> DEFINE p == Principles[id]
  <2>1. p.gate.kind \in GateKinds
    BY PrincipleKinds
  <2> HIDE DEF p
  <2>2. IsCandidate(T, h, p, c)' <=> IsCandidate(S, h, p, c)
    BY <1>1, <1>3, <1>4, <2>1 DEF IsCandidate
  <2>3. Magnitude(T, h, p, c)' = Magnitude(S, h, p, c)
    BY <1>1, <1>4, <2>1 DEF Magnitude
  <2>4. IsStrength(T, h, p.gate, c)' <=> IsStrength(S, h, p.gate, c)
    BY <1>1, <1>3, <1>5, <2>1 DEF IsStrength
  <2> QED
    BY <2>2, <2>3, <2>4 DEF p
<1>7. \A id, p, c, m, e : Candidate(id, p, c, m, e)' = Candidate(id, p, c, m, e)
  <2>1. \A v, gate : StatBand(v, gate)' = StatBand(v, gate)
    BY <1>5 DEF StatBand, Multiple, Floor
  <2>2. \A p, m : BandOf(p, m)' = BandOf(p, m)
    BY <1>5, <2>1 DEF BandOf
  <2> QED
    BY <2>2 DEF Candidate
<1>8. Candidates(T, h)' = Candidates(S, h)
  BY <1>2, <1>6, <1>7 DEF Candidates
<1>9. Strengths(T, h)' = Strengths(S, h)
  BY <1>2, <1>6 DEF Strengths
<1> QED
  BY <1>8, <1>9 DEF Claims

\* The pages of the cohorts, and the rollup over them.
Pages == [h \in Cohorts |-> Page(Claims(All, h))]
Over == Rollup([h \in Cohorts |-> Claims(All, h)])

LEMMA PresentationSame ==
  ASSUME Extends
  PROVE  Pages' = Pages /\ Over' = Over
<1>1. \A h : Claims(All, h)' = Claims(All, h)
  <2>1. PICK S : S = All
    OBVIOUS
  <2>2. PICK T : T = All'
    OBVIOUS
  <2>3. Alike(S, T)
    BY <2>1, <2>2, AlikeAll
  <2>4. \A h : Claims(T, h)' = Claims(S, h)
    BY <2>3, ClaimsSame
  <2> QED
    BY <2>1, <2>2, <2>4
<1>2. Cohorts' = Cohorts /\ config' = config
  BY CohortsSame DEF Extends
<1>3. \A claims : Page(claims)' = Page(claims)
  <2>1. \A x : Severity(x)' = Severity(x)
    BY <1>2 DEF Severity
  <2>2. \A F, W : Headlines(F, W)' = Headlines(F, W)
    BY <2>1 DEF Headlines
  <2>3. \A F, W : Selection(F, W)' = Selection(F, W)
    BY <2>2 DEF Selection
  <2> QED
    BY <2>3 DEF Page
<1>4. \A claims : Rollup(claims)' = Rollup(claims)
  BY <1>2 DEF Rollup
<1>5. Pages' = Pages
  BY <1>1, <1>2, <1>3 DEF Pages
<1>6. PICK claims : claims = [h \in Cohorts |-> Claims(All, h)]
  OBVIOUS
<1>7. [h \in Cohorts |-> Claims(All, h)]' = claims
  BY <1>1, <1>2, <1>6
<1>8. Over' = Over
  BY <1>4, <1>6, <1>7 DEF Over
<1> QED
  BY <1>5, <1>8

-----------------------------------------------------------------------------
(* What he is told of himself.                                             *)

\* Whatever was added since he looked, if it is none of his, the answer he was
\* given still is the answer.
StillTrue ==
  /\ told.laps \in 0 .. Len(laps)
  /\ (\A l \in (told.laps + 1) .. Len(laps) : laps[l].role = "reference")
       => told.beliefs = Beliefs /\ told.pages = Pages /\ told.rollup = Over

LEMMA AnswerIs ==
  /\ Answer.laps = Len(laps) /\ Answer.beliefs = Beliefs
  /\ Answer.pages = Pages /\ Answer.rollup = Over
<1>1. Answer.pages = Pages
  BY DEF Answer, Payload, Pages
<1> QED
  BY <1>1 DEF Answer, Payload, Over

LEMMA StillTrueNext ==
  ASSUME Recorded, StillTrue, [Next]_vars
  PROVE  StillTrue'
<1>1. All = 1 .. Len(laps) /\ Len(laps) \in Nat
  BY DEF Recorded, All
<1>2. CASE UNCHANGED <<told, laps, config>>
  <2>1. Extends
    BY <1>2 DEF Extends, All
  <2> QED
    BY <1>2, <2>1, BeliefsSame, PresentationSame DEF StillTrue
<1>3. CASE Read
  <2>1. Extends
    BY <1>3 DEF Read, Extends, All
  <2>2. told' = Answer /\ laps' = laps
    BY <1>3 DEF Read
  <2> QED
    BY <1>1, <2>1, <2>2, AnswerIs, BeliefsSame, PresentationSame DEF StillTrue
<1>4. ASSUME NEW d \in Drives, Import(d) PROVE StillTrue'
  <2> DEFINE x == Detected(d)
  <2>1. told.laps = Len(laps) /\ UNCHANGED <<config, told>> /\ laps' = Append(laps, x)
    BY <1>4 DEF Import, Fresh
  <2>2. PICK R : laps \in Seq(R)
    BY DEF Recorded
  <2> HIDE DEF x
  <2>3. /\ Len(laps') = Len(laps) + 1 /\ laps'[Len(laps) + 1] = x
        /\ \A l \in All : l \in All' /\ laps'[l] = laps[l]
        /\ \A l \in All' : l \notin All => l = Len(laps) + 1
    BY <1>1, <2>1, <2>2 DEF All
  <2>4. CASE x.role # "self"
    <3>1. Extends
      BY <2>1, <2>3, <2>4 DEF Extends
    <3>2. told.beliefs = Beliefs /\ told.pages = Pages /\ told.rollup = Over
      BY <1>1, <2>1 DEF StillTrue
    <3> QED
      BY <1>1, <2>1, <2>3, <3>1, <3>2, BeliefsSame, PresentationSame DEF StillTrue
  <2>5. CASE x.role = "self"
    <3>1. told'.laps \in 0 .. Len(laps')
      BY <1>1, <2>1, <2>3
    <3>2. Len(laps) + 1 \in (told'.laps + 1) .. Len(laps')
      BY <1>1, <2>1, <2>3
    <3>3. laps'[Len(laps) + 1].role # "reference"
      BY <2>3, <2>5
    <3> QED
      BY <3>1, <3>2, <3>3 DEF StillTrue
  <2> QED
    BY <2>4, <2>5
<1>5. ASSUME NEW l \in All, Exclude(l) \/ Include(l) PROVE StillTrue'
  BY <1>2, <1>5 DEF Exclude, Include
<1> QED
  BY <1>2, <1>3, <1>4, <1>5 DEF Next, vars

LEMMA StillTrueEver == Spec => []StillTrue
<1>1. Init => StillTrue
  BY AnswerIs DEF Init, StillTrue
<1>2. Recorded /\ StillTrue /\ [Next]_vars => StillTrue'
  BY StillTrueNext
<1> QED
  BY <1>1, <1>2, RecordedEver, PTL DEF Spec

\* Somebody else's laps, and which of them are excluded, change nothing that a
\* driver is told of himself: no score, no fault and no strength.
THEOREM ReferencesTeachNothingEver == Spec => ReferencesTeachNothing
<1> DEFINE Others == \A l \in (told.laps + 1)..Len(laps) : laps[l].role = "reference"
           Same == /\ told'.beliefs = told.beliefs /\ told'.pages = told.pages
                   /\ told'.rollup = told.rollup
<1>1. StillTrue /\ [Next]_vars => [Others => Same]_told
  <2> SUFFICES ASSUME StillTrue, [Next]_vars, told' # told, Others PROVE Same
    OBVIOUS
  <2>1. told' = Answer
    BY ToldNext
  <2> QED
    BY <2>1, AnswerIs DEF StillTrue
<1> QED
  BY <1>1, StillTrueEver, PTL DEF Spec, ReferencesTeachNothing

=============================================================================
