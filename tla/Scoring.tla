------------------------------ MODULE Scoring ------------------------------
(***************************************************************************)
(* The driver model (model/scoring.py, history.py, reading.py): a score, a *)
(* confidence and a trend for each fundamental, pooled over every cohort   *)
(* of the driver.  Scores and components run from 0 to 1000.               *)
(***************************************************************************)
EXTENDS Attribution, Functions

Mean(s) == SumFunction(s) \div Count(s)

Clamp(x) == IF x < 0 THEN 0 ELSE IF x > 1000 THEN 1000 ELSE x

\* What x leaves of a ceiling; of one that is not positive, nothing.
Under(ceiling, x) == IF ceiling > 0 THEN Clamp(1000 - (1000 * x) \div ceiling) ELSE 0

-----------------------------------------------------------------------------
(* The three components; None where there is no evidence                   *)

Adherence(f, scope) ==
  LET cells == {<<h, c, d>> : h \in Cohorts, c \in Corners, d \in DetectorsOf(f)}
      total ==
        SumFunction([x \in cells |-> Cardinality(Total(scope, x[1], x[2], x[3]))])
      triggered ==
        SumFunction([x \in cells |-> Cardinality(Triggered(scope, x[1], x[2], x[3]))])
  IN IF total = 0 THEN None ELSE 1000 - (1000 * triggered) \div total

\* The mean over cohorts, corners and phases of the seconds lost.
LossScore(f, scope) ==
  LET cells == {x \in Cohorts \X Corners \X Fundamentals[f] :
                  HasFinding(scope, x[1], x[2], x[3])}
      lost == Mean([x \in cells |-> Loss(scope, x[1], x[2], x[3])])
  IN IF cells = {} THEN None
     ELSE Under(config.opportunity_ceiling, lost)

\* Deviation from the median; where most readings are equal, the least that is
\* not zero. The constant 1.4826 that makes it comparable is in Normalized.
ScaledMad(s) ==
  LET deviations == Deviations(s)
      mad == Median(deviations)
      some == {deviations[i] : i \in DOMAIN s} \ {0}
  IN IF mad = 0 /\ some # {} THEN Least(some) ELSE mad

\* What can be pooled: two readings or more, an event that happened, a metric
\* with a reference.
HasDispersion(s, m) ==
  Count(s) >= 2 /\ (\E i \in DOMAIN s : s[i] # 0) /\ Reference(m) > 0

\* In thousandths of the metric's reference.
Normalized(s, m) == (148260 * ScaledMad(s)) \div Reference(m)

\* The mean over units of the means within units: no unit dominates by the
\* number of its metrics and corners.  of: the metric of each dispersion.
Pooled(dispersions, of) ==
  LET units == {Unit(of[x]) : x \in DOMAIN of}
      within(u) == {x \in DOMAIN of : Unit(of[x]) = u}
  IN Mean([u \in units |-> Mean([x \in within(u) |-> dispersions[x]])])

Consistency(f, scope) ==
  LET readings(x) == Readings(scope, x[1], x[2], x[3])
      cells == {x \in Cohorts \X Corners \X MetricsOf(f) :
                  HasDispersion(readings(x), x[3])}
      pooled == Pooled([x \in cells |-> Normalized(readings(x), x[3])],
                       [x \in cells |-> x[3]])
  IN IF cells = {} THEN None
     ELSE Under(config.dispersion_ceiling, pooled)

Components(f, scope) ==
  [adherence |-> Adherence(f, scope), opportunity |-> LossScore(f, scope),
   consistency |-> Consistency(f, scope)]

Available(parts) == {k \in DOMAIN parts : parts[k] # None}

\* Mutant of Weighted: what is missing counts as average.
Neutral(parts) ==
  LET value(k) == IF parts[k] = None THEN 500 ELSE parts[k]
  IN IF Available(parts) = {} THEN None
     ELSE SumFunction([k \in DOMAIN parts |-> value(k) * config.weight[k]])
          \div SumFunction([k \in DOMAIN parts |-> config.weight[k]])

\* The weight of what is missing is shared out among the others.
Weighted(parts) ==
  LET weight(k) == IF parts[k] = None THEN 0 ELSE config.weight[k]
      scored(k) == IF parts[k] = None THEN 0 ELSE parts[k] * config.weight[k]
  IN IF Available(parts) = {} THEN None
     ELSE (scored("adherence") + scored("opportunity") + scored("consistency"))
          \div (weight("adherence") + weight("opportunity") + weight("consistency"))

BucketScore(f, scope) == Weighted(Components(f, scope))

-----------------------------------------------------------------------------
(* Confidence, trend and history                                           *)

\* Laps with a reading of a metric or a verdict of a detector of f.
EvidenceLaps(f) ==
  {l \in All : /\ laps[l].role = "self"
               /\ \E c \in Corners :
                    \/ \E m \in MetricsOf(f) : Measured(l, c, m)
                    \/ \E d \in DetectorsOf(f) : Judged(l, c, d)}

\* How full each of four floors is.
Terms(f) ==
  LET own == {l \in All : laps[l].role = "self"} IN
  [laps |-> Cardinality(EvidenceLaps(f)),
   sessions |-> Cardinality(Sessions(own)),
   tracks |-> Cardinality({h[2] : h \in Cohorts}),
   cars |-> Cardinality({h[1] : h \in Cohorts})]

Confidence(f) ==
  LET full(k) == Least({1000, (1000 * Terms(f)[k]) \div config.floor[k]})
      mean == Mean([k \in DOMAIN config.floor |-> full(k)])
  IN IF Signal(f) = "proxy" THEN Least({mean, config.proxy_cap}) ELSE mean

\* Mutant of ChunkStart: the first chunks get what does not divide.
ChunkHead(length, n, i) ==
  (i - 1) * (length \div n) + Least({i - 1, length % n})

\* The last chunks get what does not divide.
ChunkStart(length, n, i) ==
  (i - 1) * (length \div n) + Greatest({0, (i - 1) - (n - (length % n))})

Chunk(s, n, i) ==
  LET to == IF i = n THEN Len(s) ELSE ChunkStart(Len(s), n, i + 1)
  IN {s[k] : k \in (ChunkStart(Len(s), n, i) + 1)..to}

EnoughDated(n) == Len(Dated) >= n * config.min_laps_per_bucket

\* score_history: a score, or None, for each bucket of dated laps; nothing of
\* a fundamental no signal measures, nor of too few laps.
Buckets == Greatest({1, config.history_buckets})
Series(f) ==
  IF ~EnoughDated(Buckets) \/ Signal(f) = "no_signal" THEN << >>
  ELSE [i \in 1..Buckets |-> BucketScore(f, Chunk(Dated, Buckets, i))]

\* The scores of the earlier and of the later half.
HalfScores(f) ==
  LET dated == Dated
      half == Len(dated) \div 2
  IN IF ~EnoughDated(2) THEN <<None, None>>
     ELSE <<BucketScore(f, {dated[i] : i \in 1..half}),
            BucketScore(f, {dated[i] : i \in (half + 1)..Len(dated)})>>

Direction(half) ==
  IF None \in {half[1], half[2]} THEN "unavailable"
  ELSE IF half[2] - half[1] > config.trend_delta THEN "improving"
  ELSE IF half[2] - half[1] < -config.trend_delta THEN "declining" ELSE "stable"

Trend(f) == Direction(HalfScores(f))

\* No direction is asserted of a score at the end of the scale.
Settled(trend, score) ==
  IF trend \in {"improving", "declining"} /\ score \in {0, 1000}
  THEN "unavailable" ELSE trend

NoBelief == [score |-> None, confidence |-> 0, trend |-> "unavailable"]

Belief(f, score) ==
  IF \/ Signal(f) = "no_signal"
     \/ Cardinality(EvidenceLaps(f)) < config.min_evidence
     \/ score = None
  THEN NoBelief
  ELSE [score |-> score, confidence |-> Confidence(f),
        trend |-> Settled(Trend(f), score)]

Beliefs == [f \in DOMAIN Fundamentals |-> Belief(f, BucketScore(f, All))]

\* The strongest and the weakest measured fundamental, when they are far
\* enough apart to say so; None otherwise.
Reading(beliefs) ==
  LET pool == {f \in DOMAIN beliefs :
                 beliefs[f].score # None /\ Signal(f) = "measured"}
      scores == {beliefs[f].score : f \in pool}
      named(score) == {f \in pool : beliefs[f].score = score}
  IN IF \/ Cardinality(pool) < config.reading_min_scored
        \/ Greatest(scores) - Least(scores) < config.reading_min_separation
     THEN None
     ELSE [strongest |-> named(Greatest(scores)), weakest |-> named(Least(scores))]
=============================================================================
