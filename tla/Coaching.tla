----------------------------- MODULE Coaching -----------------------------
(***************************************************************************)
(* What a driver is told to work on and what he does well                  *)
(* (coaching/engine.py), and the three places that present it: the cohort  *)
(* page (coaching/payload.py), the rollup over cohorts                     *)
(* (coaching/rollup.py) and the written report (coaching/report.py).       *)
(*                                                                         *)
(* The corpus grows a lap at a time, reference laps are excluded and taken *)
(* back, and everything is computed anew from it each time it is read.     *)
(***************************************************************************)
EXTENDS Scoring

CONSTANTS Drives,  \* a lap that is imported, with what is measured of it:
                   \* corner -> [times, metrics, landmarks]
          MaxLaps  \* bound: laps

ASSUME CoachingAssumption ==
  /\ MaxLaps \in Nat
  /\ \A d \in Drives :
       /\ d.role \in {"self", "reference"} /\ "seen" \in DOMAIN d
       /\ \A c \in DOMAIN d.seen :
            /\ \A p \in DOMAIN d.seen[c].times : d.seen[c].times[p] \in Int
            /\ \A m \in DOMAIN d.seen[c].metrics : d.seen[c].metrics[m] \in Int

VARIABLE told  \* what was computed when the driver last looked

vars == <<config, laps, excluded, told>>

-----------------------------------------------------------------------------
(* The gates: [n, value, fires] of a principle at a corner, or None where   *)
(* there is nothing to judge                                                *)

\* np.percentile, between the two readings the position falls between.
Percentile(s, p) ==
  LET at == p * (Count(s) - 1)
      low == Kth(s, at \div 100 + 1)
      high == Kth(s, Least({at \div 100 + 2, Count(s)}))
  IN low + ((high - low) * (at % 100)) \div 100

MetricStat(s, stat) ==
  IF stat = "median" THEN IF Count(s) < 2 THEN None ELSE Median(s)
  ELSE IF Count(s) < 4 THEN None ELSE Percentile(s, 75) - Percentile(s, 25)

\* A corner below the guard is not being judged at all.
Guarded(scope, h, c, gate) ==
  \/ gate.guard = "none"
  \/ LET stat == MetricStat(Readings(scope, h, c, gate.guard), "median")
     IN stat # None /\ stat >= config.guard_floor

StatValue(scope, h, c, gate) ==
  LET s == Readings(scope, h, c, gate.metric)
  IN IF Guarded(scope, h, c, gate) THEN MetricStat(s, gate.stat) ELSE None

DispersionCells(scope, h, c, gate) ==
  {m \in gate.metrics : HasDispersion(Readings(scope, h, c, m), m)}

DispersionValue(scope, h, c, gate) ==
  LET cells == DispersionCells(scope, h, c, gate)
  IN IF cells = {} THEN None
     ELSE Pooled([m \in cells |-> Normalized(Readings(scope, h, c, m), m)],
                 [m \in cells |-> m])

\* What the gate reads, whichever way it turns out.
Value(scope, h, c, gate) ==
  CASE gate.kind = "detector" ->
         LET total == Total(scope, h, c, gate.detector)
         IN IF total = {} THEN None
            ELSE Rate(Triggered(scope, h, c, gate.detector), total)
    [] gate.kind = "dispersion" -> DispersionValue(scope, h, c, gate)
    [] gate.kind = "stat" -> StatValue(scope, h, c, gate)
    [] gate.kind = "finding" ->
         IF HasFinding(scope, h, c, gate.phase)
         THEN SelfFinding(scope, h, c, gate.phase).reason ELSE None

Volume(scope, h, c, gate) ==
  CASE gate.kind = "detector" -> Cardinality(Total(scope, h, c, gate.detector))
    [] gate.kind = "dispersion" ->
         SumFunction([m \in DispersionCells(scope, h, c, gate) |->
                        Count(Readings(scope, h, c, m))])
    [] gate.kind = "stat" -> Count(Readings(scope, h, c, gate.metric))
    [] gate.kind = "finding" -> Cardinality(History(scope, h, c, gate.phase))

Floor(gate) ==
  IF gate.kind = "detector" THEN config.min_trigger_rate
  ELSE config.gate_floor[gate.floor]

\* The statistic is on the bad side of its floor, or on it.
Fires(value, gate) ==
  /\ value # None
  /\ CASE gate.kind = "finding" -> value = "shown"
       [] gate.kind = "stat" /\ gate.direction = "below" -> value <= Floor(gate)
       [] OTHER -> value >= Floor(gate)

\* Mutant of Clears: a statistic on its floor is well done, too.
ClearsAtFloor(value, gate) ==
  /\ value # None
  /\ CASE gate.kind = "finding" -> value = "no effect"
       [] gate.kind = "stat" /\ gate.direction = "below" -> value >= Floor(gate)
       [] OTHER -> value <= Floor(gate)

\* On the good side; a finding that is suppressed for want of data is neither.
Clears(value, gate) ==
  /\ value # None
  /\ CASE gate.kind = "finding" -> value = "no effect"
       [] gate.kind = "stat" /\ gate.direction = "below" -> value > Floor(gate)
       [] OTHER -> value < Floor(gate)

\* Mutant of EvidenceScope: an era's claims rest on every lap.
EverEvidence(scope, gate) == All

\* The laps a claim may name: of the era, except for a statistic, whose
\* evidence is collected without it.
EvidenceScope(scope, gate) == IF gate.kind = "stat" THEN All ELSE scope

Evidence(scope, h, c, gate) ==
  LET in == EvidenceScope(scope, gate) IN
  CASE gate.kind = "detector" -> Triggered(in, h, c, gate.detector)
    [] gate.kind = "dispersion" ->
         UNION {With(in, h, c, m) : m \in gate.metrics}
    [] gate.kind = "stat" ->
         UNION {With(in, h, c, m) : m \in {gate.metric, gate.guard} \cap Metrics}
    [] gate.kind = "finding" -> History(in, h, c, gate.phase)

-----------------------------------------------------------------------------
(* Bands                                                                   *)

BandRank == [negligible |-> 0, moderate |-> 1, notable |-> 2, major |-> 3]

\* floors: of moderate, notable and major.
Band(value, floors) ==
  IF value >= floors[3] THEN "major" ELSE IF value >= floors[2] THEN "notable"
  ELSE IF value >= floors[1] THEN "moderate" ELSE "negligible"

\* As a multiple of the gate's own floor, in thousandths.
Multiple(value, gate) ==
  LET floor == Floor(gate) IN
  IF gate.direction = "above" THEN (1000 * value) \div floor
  ELSE IF value <= 0 THEN config.stat_bands[3] ELSE (1000 * floor) \div value

StatBand(value, gate) ==
  IF Floor(gate) <= 0 THEN "moderate"
  ELSE LET band == Band(Multiple(value, gate), config.stat_bands)
       IN IF band = "negligible" THEN "moderate" ELSE band

-----------------------------------------------------------------------------
(* Faults and strengths, of one scope of one cohort                        *)

\* What a principle that fires is banded on, and on which scale.
Kind(p) == IF p.phase # "none" THEN "seconds" ELSE p.gate.kind
Magnitude(scope, h, p, c) ==
  IF Kind(p) = "seconds" THEN Loss(scope, h, c, p.phase) ELSE Value(scope, h, c, p.gate)
BandOf(p, magnitude) ==
  CASE Kind(p) = "seconds" -> Band(magnitude, config.seconds_bands)
    [] Kind(p) = "stat" -> StatBand(magnitude, p.gate)
    [] OTHER -> Band(magnitude, config.dispersion_bands)

Candidate(id, p, c, magnitude, evidence) ==
  [id |-> id, corner |-> c, kind |-> Kind(p), magnitude |-> magnitude,
   band |-> BandOf(p, magnitude), evidence |-> evidence]

\* Without seconds to band on there is no candidate.
IsCandidate(scope, h, p, c) ==
  /\ Fires(Value(scope, h, c, p.gate), p.gate)
  /\ p.phase = "none" \/ HasFinding(scope, h, c, p.phase)

Candidates(scope, h) ==
  {LET p == Principles[x[1]]
   IN Candidate(x[1], p, x[2], Magnitude(scope, h, p, x[2]),
                Evidence(scope, h, x[2], p.gate)) :
     x \in {y \in (DOMAIN Principles) \X Corners :
              IsCandidate(scope, h, Principles[y[1]], y[2])}}

\* A positive claim needs more than a fault does: it is withheld when thin.
IsStrength(scope, h, gate, c) ==
  /\ Clears(Value(scope, h, c, gate), gate)
  /\ Volume(scope, h, c, gate) >= config.thin_evidence

Strengths(scope, h) ==
  {[id |-> y[1], corner |-> y[2],
    evidence |-> Evidence(scope, h, y[2], Principles[y[1]].gate)] :
     y \in {z \in (DOMAIN Principles) \X Corners :
              IsStrength(scope, h, Principles[z[1]].gate, z[2])}}

-----------------------------------------------------------------------------
(* Presentation                                                            *)

\* The weaker voice of each pair, and the measured one that silences it.
Voices == [trust_the_proxy |-> "same_marker", roll_it_on |-> "one_squeeze"]

\* Mutant of Covered: a strength is no verdict.
CoveredByFaults(id, faults, wins) == {x.corner : x \in {y \in faults : y.id = id}}

\* Corners where a principle has spoken, either way.
Covered(id, faults, wins) ==
  {x.corner : x \in {y \in faults \cup wins : y.id = id}}

Presentable(x, faults, wins) ==
  \/ x.id \notin DOMAIN Voices
  \/ x.corner \notin Covered(Voices[x.id], faults, wins)

Shown(S, faults, wins) == {x \in S : Presentable(x, faults, wins)}

\* How far into a scale: seconds against theirs, all else against dispersion's.
Severity(x) ==
  LET ceiling == IF x.kind = "seconds" THEN config.seconds_bands[3]
                 ELSE config.dispersion_bands[3]
  IN IF ceiling > 0 THEN (1000 * x.magnitude) \div ceiling ELSE 0

\* The candidates of the loudest band that are most severe (ties go by name);
\* only the two loudest bands can lead.
Headlines(faults, wins) ==
  LET loud == {x \in Shown(faults, faults, wins) : x.band \in {"notable", "major"}}
      louder(x, y) == \/ BandRank[x.band] > BandRank[y.band]
                      \/ x.band = y.band /\ Severity(x) > Severity(y)
  IN {x \in loud : ~\E y \in loud : louder(y, x)}

\* select_coaching: what a page says of faults and of strengths.
Selection(faults, wins) ==
  [headline |-> Headlines(faults, wins),
   faults |-> {x \in Shown(faults, faults, wins) : x.band # "negligible"},
   silent |-> Cardinality({x \in faults : x.band = "negligible"}),
   checks |-> SelfChecks,
   strengths |-> Shown(wins, faults, wins)]

\* What is claimed of a cohort on the laps of a scope.
Claims(scope, h) == [faults |-> Candidates(scope, h), strengths |-> Strengths(scope, h)]

Page(claims) == Selection(claims.faults, claims.strengths)

\* build_coaching_rollup: each instance stays with its cohort.
Rollup(claims) ==
  LET shown(h, S) == {<<h, x>> : x \in Shown(S, claims[h].faults, claims[h].strengths)}
  IN [faults |-> UNION {shown(h, claims[h].faults) : h \in Cohorts},
      strengths |-> UNION {shown(h, claims[h].strengths) : h \in Cohorts}]

\* A pattern is the driver's when it is seen at enough tracks.
Patterns(instances) ==
  LET tracks(id) == {i[1][2] : i \in {j \in instances : j[2].id = id}}
  IN {id \in {i[2].id : i \in instances} :
        Cardinality(tracks(id)) >= config.min_tracks}

-----------------------------------------------------------------------------
(* The corpus                                                              *)

\* An era's claims, as the tendencies read them: here, of the dated laps from
\* the i-th on.
Eras ==
  LET dated == Dated IN
  [i \in DOMAIN dated |->
     LET era == {dated[k] : k \in i..Len(dated)}
     IN [laps |-> era, claims |-> [h \in Cohorts |-> Claims(era, h)]]]

\* The findings of a cohort that are shown, against a principle and against
\* the reference.
Findings(h) ==
  [principle |-> {x \in Corners \X Detectors :
                    /\ Total(All, h, x[1], x[2]) # {}
                    /\ PrincipleFinding(h, x[1], x[2]).reason = "shown"},
   reference |-> {[evidence |-> ReferenceFinding(h, x[1], x[2]).evidence,
                   corner |-> x[1], phase |-> x[2]] :
                    x \in {y \in Corners \X Phases :
                             /\ HasReference(h, y[1], y[2])
                             /\ ReferenceFinding(h, y[1], y[2]).reason = "shown"}}]

\* The payloads of the driver, of his cohorts and of his eras.
Payload(claims, beliefs) ==
  [laps |-> Len(laps), excluded |-> excluded, beliefs |-> beliefs,
   parts |-> [f \in DOMAIN Fundamentals |-> Components(f, All)],
   halves |-> [f \in DOMAIN Fundamentals |-> HalfScores(f)],
   series |-> [f \in DOMAIN Fundamentals |-> Series(f)],
   reading |-> Reading(beliefs),
   findings |-> [h \in Cohorts |-> Findings(h)],
   pages |-> [h \in Cohorts |-> Page(claims[h])], rollup |-> Rollup(claims),
   patterns |-> Patterns(Rollup(claims).faults),
   eras |-> Eras]

Answer == Payload([h \in Cohorts |-> Claims(All, h)], Beliefs)

Init ==
  /\ config \in Configs
  /\ laps = << >>
  /\ excluded = {}
  /\ told = Answer

\* A lap is stored with what the detectors make of each corner.
Detected(d) ==
  [d EXCEPT !.seen = [c \in DOMAIN @ |->
     [times |-> @[c].times, metrics |-> @[c].metrics,
      detectors |-> Verdicts(@[c].landmarks, @[c].metrics)]]]

Fresh == <<told.laps, told.excluded>> = <<Len(laps), excluded>>

Read ==
  /\ ~Fresh
  /\ told' = Answer
  /\ UNCHANGED <<config, laps, excluded>>

\* Looking changes nothing, so that it is enough to look after each change:
\* the bound Fresh of the three actions that follow.
Import(d) ==
  /\ Fresh
  /\ Len(laps) < MaxLaps
  /\ laps' = Append(laps, Detected(d))
  /\ UNCHANGED <<config, excluded, told>>

\* POST and DELETE /api/laps/{lap_pk}/exclude: a lap is marked, never removed.
Exclude(l) ==
  /\ Fresh
  /\ laps[l].role = "reference"
  /\ l \notin excluded
  /\ excluded' = excluded \cup {l}
  /\ UNCHANGED <<config, laps, told>>

Include(l) ==
  /\ Fresh
  /\ l \in excluded
  /\ excluded' = excluded \ {l}
  /\ UNCHANGED <<config, laps, told>>

Next ==
  \/ \E d \in Drives : Import(d)
  \/ \E l \in All : Exclude(l) \/ Include(l)
  \/ Read

Spec == Init /\ [][Next]_vars

-----------------------------------------------------------------------------
(* Properties                                                              *)

\* A page, or anything else computed from the corpus, is what was told; each
\* property is first said of an answer.

VerdictIn(answer) ==
  /\ \A i \in DOMAIN answer.eras : \A h \in DOMAIN answer.eras[i].claims :
       LET claims == answer.eras[i].claims[h] IN
       \A x \in claims.faults, y \in claims.strengths :
         x.id = y.id => x.corner # y.corner
  /\ \A x \in answer.rollup.faults, y \in answer.rollup.strengths :
       x[1] = y[1] /\ x[2].id = y[2].id => x[2].corner # y[2].corner
  /\ \A h \in DOMAIN answer.pages : \A y \in answer.pages[h].strengths :
       LET gate == Principles[y.id].gate IN
       gate.kind = "detector" =>
         <<y.corner, gate.detector>> \notin answer.findings[h].principle

\* Nothing is a fault and a strength at one corner, whichever laps are in
\* scope, the whole table for a page or an era for its tendencies ("a strength
\* and a fault can never both be claimed", coaching/engine.py:512-514), and no
\* shown finding of a detector stands beside its strength.
OneVerdict == VerdictIn(told)

VoiceIn(answer) ==
  \A h \in DOMAIN answer.pages, weak \in DOMAIN Voices :
    LET page == answer.pages[h]
        listed == {i[2] : i \in {j \in answer.rollup.faults \cup answer.rollup.strengths :
                                  j[1] = h}}
        spoken == {x.corner : x \in {y \in page.faults \cup page.strengths \cup listed :
                                       y.id = Voices[weak]}}
    IN \A x \in page.headline \cup page.faults \cup page.strengths \cup listed :
         x.id = weak => x.corner \notin spoken

\* One voice for each piece of evidence: where the measured principle says
\* anything of a corner, good or bad, its weaker twin says nothing there, on
\* the page of the cohort and in the rollup (coaching/engine.py:660-670).
OneVoice == VoiceIn(told)

ScopeIn(answer) ==
  /\ \A i \in DOMAIN answer.eras : \A h \in DOMAIN answer.eras[i].claims :
       \A x \in answer.eras[i].claims[h].faults \cup answer.eras[i].claims[h].strengths :
         Principles[x.id].gate.kind # "stat" => x.evidence \subseteq answer.eras[i].laps
  /\ \A h \in DOMAIN answer.findings : \A x \in answer.findings[h].reference :
       x.evidence \cap answer.excluded = {}

\* A claim about an era names laps of that era only (lap_pks "restricts every
\* input to one era's laps", coaching/engine.py:335), save for the statistics,
\* whose evidence the code collects without it; and a finding against the
\* reference names no lap that is excluded.
EvidenceInScope == ScopeIn(told)

ScoreIn(answer) ==
  \A f \in DOMAIN answer.beliefs :
    LET parts == answer.parts[f]
        there == {parts[k] : k \in Available(parts)}
        score == answer.beliefs[f].score
    IN score # None => Least(there) <= score /\ score <= Greatest(there)

\* A score lies between the least and the greatest of the components that have
\* evidence: what is missing neither lowers nor lifts it ("never a fabricated
\* neutral fill-in for missing evidence", model/scoring.py:44-46).
ScoreAmongComponents == ScoreIn(told)

TrendIn(answer) ==
  Buckets = 2 =>
    \A f \in DOMAIN answer.series :
      answer.series[f] # << >> => answer.series[f] = answer.halves[f]

\* The chart of the score in two buckets is what the trend compares, also for
\* an odd number of laps (model/history.py:60-67).
TrendIsSeries == TrendIn(told)

\* Other people's laps, and which of them are excluded, change nothing that is
\* said of the driver: not a score, not a fault, not a strength.
ReferencesTeachNothing ==
  [][ (\A l \in (told.laps + 1)..Len(laps) : laps[l].role = "reference")
      => /\ told'.beliefs = told.beliefs
         /\ told'.pages = told.pages
         /\ told'.rollup = told.rollup ]_told
=============================================================================
