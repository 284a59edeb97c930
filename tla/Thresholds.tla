----------------------------- MODULE Thresholds -----------------------------
(***************************************************************************)
(* The thresholds the analysis reads: the defaults of config.py, by the    *)
(* section of the code, and the ones in force, config, which a stored file *)
(* may have changed.  Fields no code reads any more are left out.          *)
(*                                                                         *)
(* Measured quantities, shares and scores are in thousandths of their      *)
(* unit (a score of 100 points is 1000); counts of laps, sessions, tracks, *)
(* cars and buckets are plain; dispersions of reference are in 1/100000.   *)
(***************************************************************************)
EXTENDS Taxonomy, Integers

\* DetectorsConfig: beyond which quantity a detector triggers, and on which
\* share of the laps that makes a pattern.
DetectorDefaults ==
  [limit |-> "brake-release-taper" :> 300 @@ "throttle-brake-overlap" :> 750
             @@ "one-steering-input" :> 1000 @@ "throttle-monotonic" :> 0
             @@ "coast-window" :> 500,
   min_trigger_rate |-> 500]

\* AttributionConfig and GatesConfig.
AttributionDefaults ==
  [outlier_mad_k |-> 3500, baseline_top_k |-> 3, min_effect_s |-> 50]
GateDefaults ==
  [min_phase_samples |-> 10, min_sessions |-> 2, min_tracks |-> 2]

\* ModelConfig: the weights of the components, and what each is scaled by.
WeightDefaults ==
  [weight |-> [adherence |-> 400, opportunity |-> 350, consistency |-> 250]]
CeilingDefaults == [opportunity_ceiling |-> 1000]
ReadingDefaults == [reading_min_scored |-> 3, reading_min_separation |-> 100]

MetricReference ==
  [abs_active_ratio |-> 18121, apex_dist_pct |-> 44219,
   brake_application_rate |-> 40338, brake_peak |-> 13390,
   brake_point_dist_pct |-> 41386, brake_release_duration_s |-> 23474,
   coast_s |-> 74130, exit_accel_ms2 |-> 57825, full_throttle_dist_pct |-> 43762,
   min_speed_kmh |-> 928766, steering_corrections |-> 222390,
   steering_smoothness_dps2 |-> 9771206, throttle_brake_overlap_s |-> 19768,
   throttle_modulation_count |-> 148260, throttle_pickup_dist_pct |-> 56852,
   trail_brake_overlap_s |-> 48184, turn_in_dist_pct |-> 30190,
   yaw_peak_rate |-> 4593]
UnitReference ==
  [percent |-> 42892, speed |-> 928766, yaw |-> 4593, steering |-> 9771206,
   acceleration |-> 57825, fraction |-> 15198, rate |-> 40338, seconds |-> 27181,
   number |-> 148260]
ReferenceDefaults ==
  [metric_reference |-> MetricReference, unit_reference |-> UnitReference]

DispersionDefaults == [dispersion_ceiling |-> 3000]
EvidenceDefaults == [min_evidence |-> 5, proxy_cap |-> 500]
ConfidenceDefaults ==
  [floor |-> [laps |-> 50, sessions |-> 6, tracks |-> 3, cars |-> 2]]
TrendDefaults ==
  [min_laps_per_bucket |-> 4, trend_delta |-> 50, history_buckets |-> 6]

\* CoachingConfig: the floors of moderate, notable and major, by scale.
BandDefaults == [seconds_bands |-> <<50, 150, 350>>]
DispersionBandDefaults == [dispersion_bands |-> <<1150, 1500, 2000>>]
\* Multiples of a gate's own floor; firing is moderate.
StatBandDefaults == [stat_bands |-> <<1000, 1500, 2000>>]

\* The floors of the gates of dispersion, of braking, and of what follows.
ConsistencyFloor == [consistency |-> 1150]
CommitmentFloor == [commitment |-> 1150]
GuardDefaults == [guard_floor |-> 500]
BrakingFloors == [trail |-> 100, application |-> 350, marker |-> 1000]
LaterFloors == [hands |-> 500000, squeeze |-> 1000, exit |-> 1250]
VehicleFloors == [abs |-> 250]
FloorDefaults ==
  [gate_floor |-> ConsistencyFloor @@ CommitmentFloor @@ BrakingFloors @@ LaterFloors
                  @@ VehicleFloors]
ThinDefaults == [thin_evidence |-> 8]

\* DriverDNAConfig(): the default of every section.
Defaults ==
  DetectorDefaults @@ AttributionDefaults @@ GateDefaults @@ WeightDefaults
  @@ CeilingDefaults @@ ReadingDefaults @@ ReferenceDefaults @@ DispersionDefaults
  @@ EvidenceDefaults @@ ConfidenceDefaults @@ TrendDefaults @@ BandDefaults
  @@ DispersionBandDefaults @@ StatBandDefaults @@ GuardDefaults @@ FloorDefaults
  @@ ThinDefaults

CONSTANTS Configs,  \* what may be in force: the fields of Defaults
          None      \* no value

VARIABLE config  \* the thresholds in force, DriverDNAConfig

\* ModelConfig._weights_sum_to_one: any other file is refused when it is loaded.
Loadable(c) ==
  c.weight.adherence + c.weight.opportunity + c.weight.consistency = 1000

ASSUME ConfigsAssumption ==
  \A c \in Configs :
    /\ DOMAIN c = DOMAIN Defaults /\ Loadable(c)
    /\ c.min_trigger_rate \in Int /\ c.outlier_mad_k \in Int /\ c.baseline_top_k \in Int
    /\ c.opportunity_ceiling \in Int /\ c.dispersion_ceiling \in Int
    /\ \A m \in DOMAIN c.metric_reference : c.metric_reference[m] \in Int
    /\ \A u \in DOMAIN c.unit_reference : c.unit_reference[u] \in Int
    /\ \A id \in DOMAIN Principles :
         LET gate == Principles[id].gate
         IN gate.kind \in {"dispersion", "stat"} => c.gate_floor[gate.floor] \in Int

\* A metric without an anchor of its own has its unit's, and perhaps none: zero.
Reference(m) ==
  IF m \in DOMAIN config.metric_reference THEN config.metric_reference[m]
  ELSE IF Unit(m) \in DOMAIN config.unit_reference THEN config.unit_reference[Unit(m)]
  ELSE 0

-----------------------------------------------------------------------------
(* The detectors of one corner of one lap (metrics/detectors.py)           *)

\* The metric a detector judges; the taper is judged on the corner's landmarks.
JudgedMetric ==
  "throttle-brake-overlap" :> "throttle_brake_overlap_s"
  @@ "one-steering-input" :> "steering_corrections"
  @@ "throttle-monotonic" :> "throttle_modulation_count"
  @@ "coast-window" :> "coast_s"

\* From brake release to turn-in; None where either is missing.
ReleaseGap(landmarks) ==
  IF None \in {landmarks.brake_release, landmarks.turn_in} THEN None
  ELSE landmarks.turn_in - landmarks.brake_release

Quantity(d, landmarks, metrics) ==
  IF d = "brake-release-taper" THEN ReleaseGap(landmarks)
  ELSE IF JudgedMetric[d] \in DOMAIN metrics THEN metrics[JudgedMetric[d]] ELSE None

\* run_detectors: no verdict where there is nothing to judge.
Verdicts(landmarks, metrics) ==
  [d \in {e \in Detectors : Quantity(e, landmarks, metrics) # None} |->
     Quantity(d, landmarks, metrics) > config.limit[d]]
=============================================================================
