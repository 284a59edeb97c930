---------------------------- MODULE Attribution ----------------------------
(***************************************************************************)
(* The corpus of one driver and what is attributed to him: the tables of   *)
(* observations by lap scope (db.py), the robust baseline                  *)
(* (attribution/engine.py) and the findings and cumulative loss            *)
(* (attribution/ranker.py).                                                *)
(*                                                                         *)
(* Quantities are integers, in thousandths of their unit.  A scope is a    *)
(* set of laps, the whole table or an era or a date bucket of it, and      *)
(* restricts every read.                                                   *)
(***************************************************************************)
EXTENDS Thresholds, Stats

CONSTANT Windows  \* of each corner, the phases its frozen windows define

ASSUME WindowsAssumption == IsFiniteSet(DOMAIN Windows)

VARIABLES laps,     \* tables laps, corner_observations, phase_times,
                    \* metric_values, detector_results: by lap_pk, [role,
                    \* cohort, session, date, time, seen: corner ->
                    \* [times, metrics, detectors]]
          excluded  \* table reference_exclusions

Corners == DOMAIN Windows
All == DOMAIN laps
Cohorts == {<<laps[l].car, laps[l].track>> : l \in {k \in All : laps[k].role = "self"}}

InCohort(l, cohort) == <<laps[l].car, laps[l].track>> = cohort

\* How many values a family has.  (What a query lists is a family by lap; no
\* statistic depends on the order of the list.)
Count(s) == Cardinality(DOMAIN s)

\* Mutant of Own: somebody else's laps count.
Everybodys(scope, cohort) == {l \in All \cap scope : InCohort(l, cohort)}

\* role='self' AND driver=? AND owner_user_pk=? AND lap_pk IN scope
Own(scope, cohort) ==
  {l \in All \cap scope : laps[l].role = "self" /\ InCohort(l, cohort)}

Seen(l, c) == c \in DOMAIN laps[l].seen
Timed(l, c, phase) == Seen(l, c) /\ phase \in DOMAIN laps[l].seen[c].times
Measured(l, c, m) == Seen(l, c) /\ m \in DOMAIN laps[l].seen[c].metrics
Judged(l, c, d) == Seen(l, c) /\ d \in DOMAIN laps[l].seen[c].detectors

\* phase_history and all_self_phase_times.
History(scope, cohort, c, phase) == {l \in Own(scope, cohort) : Timed(l, c, phase)}
Time(l, c, phase) == laps[l].seen[c].times[phase]
Times(S, c, phase) == [l \in S |-> Time(l, c, phase)]

\* The pool of the envelope: reference laps nobody has excluded.
References(cohort, c, phase) ==
  {l \in All : /\ laps[l].role = "reference" /\ InCohort(l, cohort)
               /\ l \notin excluded /\ Timed(l, c, phase)}

\* self_metric_table
With(scope, cohort, c, m) == {l \in Own(scope, cohort) : Measured(l, c, m)}
Readings(scope, cohort, c, m) ==
  [l \in With(scope, cohort, c, m) |-> laps[l].seen[c].metrics[m]]

\* self_detector_table
Total(scope, cohort, c, d) == {l \in Own(scope, cohort) : Judged(l, c, d)}
Triggered(scope, cohort, c, d) ==
  {l \in Total(scope, cohort, c, d) : laps[l].seen[c].detectors[d]}

Sessions(S) == {laps[l].session : l \in S} \ {None}

\* Dated laps of a driver, by date and lap_pk.
Dated ==
  LET own == {l \in All : laps[l].role = "self" /\ laps[l].date # None}
      rank(l) == Cardinality({k \in own :
        \/ laps[k].date < laps[l].date
        \/ laps[k].date = laps[l].date /\ k <= l})
  IN [i \in 1..Cardinality(own) |-> CHOOSE l \in own : rank(l) = i]

-----------------------------------------------------------------------------
(* attribution/engine.py                                                   *)

\* Median plus or minus k times the median deviation; fewer than four points
\* or no deviation at all call nothing an outlier.
Deviations(s) ==
  LET median == Median(s) IN [i \in DOMAIN s |-> Distance(s[i], median)]
Mad(s) == Median(Deviations(s))
Clean(S, c, phase) ==
  LET s == Times(S, c, phase)
      median == Median(s)
      mad == Mad(s)
  IN IF Count(s) < 4 \/ mad = 0 THEN S
     ELSE {l \in S : 1000 * Distance(Time(l, c, phase), median)
                       <= config.outlier_mad_k * mad}

\* The median of the fastest k, of one at least.
RobustBest(s) ==
  LET k == Greatest({1, Least({config.baseline_top_k, Count(s)})})
  IN Median([i \in 1..k |-> Kth(s, i)])

Baseline(S, c, phase) ==
  LET s == Times(Clean(S, c, phase), c, phase)
  IN [robust |-> RobustBest(s), best |-> Kth(s, 1), median |-> Median(s)]

-----------------------------------------------------------------------------
(* attribution/ranker.py                                                   *)

\* Suppressed, with the reason, until there is enough to speak on.
Gate(n, sessions) ==
  IF n < config.min_phase_samples THEN "few samples"
  ELSE IF sessions < config.min_sessions THEN "few sessions" ELSE "open"

\* Laps in order of duration, equals by lap_pk: the k fastest, the k slowest.
Before(a, b) ==
  laps[a].time < laps[b].time \/ (laps[a].time = laps[b].time /\ a <= b)
Fastest(S, k) == {l \in S : Cardinality({a \in S : Before(a, l)}) <= k}
Slowest(S, k) == {l \in S : Cardinality({a \in S : Before(l, a)}) <= k}

Gap(S, fast, slow, c, phase) ==
  IF S \cap fast = {} \/ S \cap slow = {} THEN None
  ELSE Median(Times(S \cap slow, c, phase)) - Median(Times(S \cap fast, c, phase))

\* Between the slowest and the fastest third; an outlying time is not weighed.
Opportunity(scope, cohort, c, phase) ==
  LET own == Own(scope, cohort)
      third == Greatest({1, Cardinality(own) \div 3})
      clean == Clean(History(scope, cohort, c, phase), c, phase)
  IN IF Cardinality(own) < 3 THEN None
     ELSE Gap(clean, Fastest(own, third), Slowest(own, third), c, phase)

Sign(x) == IF x > 0 THEN 1 ELSE IF x < 0 THEN -1 ELSE 0

\* The sessions whose own halves differ the same way, of those that have halves.
Repeatability(S, opportunity, c, phase) ==
  LET of(s) == {l \in S : laps[l].session = s}
      halves == {s \in Sessions(S) : Cardinality(of(s)) >= 2}
      diff(s) == LET k == Cardinality(of(s)) \div 2
                 IN Gap(of(s), Fastest(of(s), k), Slowest(of(s), k), c, phase)
      agree == {s \in halves : Sign(diff(s)) = Sign(opportunity)}
  IN IF opportunity \in {None, 0} \/ halves = {} THEN None
     ELSE (1000 * Cardinality(agree)) \div Cardinality(halves)

\* vs-self: one finding per corner and phase that has any history.
SelfFinding(scope, cohort, c, phase) ==
  LET history == History(scope, cohort, c, phase)
      seconds == Opportunity(scope, cohort, c, phase)
      gate == Gate(Cardinality(history), Cardinality(Sessions(history)))
  IN [seconds |-> seconds, n |-> Cardinality(history), evidence |-> history,
      repeatability |->
        Repeatability(Clean(history, c, phase), seconds, c, phase),
      reason |-> IF gate # "open" THEN gate
                 ELSE IF seconds = None THEN "few laps"
                 ELSE IF seconds < config.min_effect_s THEN "no effect"
                 ELSE "shown"]

HasFinding(scope, cohort, c, phase) ==
  phase \in Windows[c] /\ History(scope, cohort, c, phase) # {}

\* vs-principle: a detector that triggers on enough of a corner's laps.
Rate(triggered, total) == (1000 * Cardinality(triggered)) \div Cardinality(total)

PrincipleFinding(cohort, c, d) ==
  LET total == Total(All, cohort, c, d)
      triggered == Triggered(All, cohort, c, d)
      gate == Gate(Cardinality(total), Cardinality(Sessions(total)))
  IN [n |-> Cardinality(total), evidence |-> triggered,
      reason |-> IF gate # "open" THEN gate
                 ELSE IF Rate(triggered, total) < config.min_trigger_rate
                      THEN "below the floor" ELSE "shown"]

\* vs-reference: the gap to the envelope of the laps that are not excluded.
ReferenceFinding(cohort, c, phase) ==
  LET history == History(All, cohort, c, phase)
      pool == References(cohort, c, phase)
      base == Baseline(history, c, phase)
      gate == Gate(Cardinality(history), Cardinality(Sessions(history)))
  IN [median |-> base.median - Median(Times(pool, c, phase)),
      best |-> base.best - Kth(Times(pool, c, phase), 1),
      evidence |-> history \cup pool,
      reason |-> IF gate = "open" THEN "shown" ELSE gate]

\* Where there is one: both sides must have times there.
HasReference(cohort, c, phase) ==
  /\ HasFinding(All, cohort, c, phase)
  /\ References(cohort, c, phase) # {}

\* cumulative_loss: what the typical lap loses to the robust best.
Loss(scope, cohort, c, phase) ==
  LET history == History(scope, cohort, c, phase)
  IN Median(Times(history, c, phase)) - Baseline(history, c, phase).robust
=============================================================================
