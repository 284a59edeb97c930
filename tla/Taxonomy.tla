----------------------------- MODULE Taxonomy -----------------------------
(***************************************************************************)
(* The static tables the driver model and the coaching layer read: the     *)
(* metrics and their units (metrics/technique.py), the pyramid of          *)
(* techniques and fundamentals (model/taxonomy.py), and the principles a   *)
(* driver can be coached on with the gates that make them eligible         *)
(* (coaching/ontology.py).  Wording and drills are left out.               *)
(***************************************************************************)
EXTENDS Sequences, FiniteSets, TLC

Phases == {"entry", "mid", "exit"}

\* METRIC_DEFS: the metrics of each unit.
Units ==
  [percent |-> {"brake_point_dist_pct", "turn_in_dist_pct", "apex_dist_pct",
                "throttle_pickup_dist_pct", "full_throttle_dist_pct"},
   fraction |-> {"brake_peak", "abs_active_ratio"},
   rate |-> {"brake_application_rate"},
   seconds |-> {"brake_release_duration_s", "trail_brake_overlap_s",
                "throttle_brake_overlap_s", "coast_s"},
   number |-> {"steering_corrections", "throttle_modulation_count"},
   steering |-> {"steering_smoothness_dps2"},
   yaw |-> {"yaw_peak_rate"},
   speed |-> {"min_speed_kmh"},
   acceleration |-> {"exit_accel_ms2"}]

Metrics == UNION {Units[u] : u \in DOMAIN Units}
Unit(m) == CHOOSE u \in DOMAIN Units : m \in Units[u]

Technique(fundamental, status, metrics, detectors) ==
  [fundamental |-> fundamental, status |-> status,
   metrics |-> metrics, detectors |-> detectors]

Techniques ==
  [brake_point_selection |->
     Technique("braking", "measured", {"brake_point_dist_pct"}, {}),
   brake_application |->
     Technique("braking", "measured", {"brake_application_rate", "brake_peak"}, {}),
   brake_release |->
     Technique("braking", "measured", {"brake_release_duration_s"},
               {"brake-release-taper"}),
   trail_braking |->
     Technique("braking", "measured", {"trail_brake_overlap_s"}, {}),
   pedal_overlap |->
     Technique("braking", "measured", {"throttle_brake_overlap_s"},
               {"throttle-brake-overlap"}),
   turn_in |->
     Technique("rotation", "measured", {"turn_in_dist_pct"}, {"one-steering-input"}),
   steering_smoothness |->
     Technique("rotation", "measured",
               {"steering_corrections", "steering_smoothness_dps2"}, {}),
   rotation_efficiency |->
     Technique("rotation", "measured",
               {"yaw_peak_rate", "min_speed_kmh", "apex_dist_pct"}, {}),
   coasting |->
     Technique("rotation", "measured", {"coast_s"}, {"coast-window"}),
   throttle_pickup |->
     Technique("corner_exit", "measured", {"throttle_pickup_dist_pct"},
               {"throttle-monotonic"}),
   throttle_modulation |->
     Technique("corner_exit", "measured", {"throttle_modulation_count"}, {}),
   exit_acceleration |->
     Technique("corner_exit", "measured",
               {"full_throttle_dist_pct", "exit_accel_ms2"}, {}),
   abs_usage |->
     Technique("vehicle_management", "measured", {"abs_active_ratio"}, {}),
   tire_utilization |-> Technique("vehicle_management", "no_signal", {}, {}),
   weight_transfer |-> Technique("vehicle_management", "no_signal", {}, {}),
   slip_management |-> Technique("vehicle_management", "no_signal", {}, {}),
   repeatability |-> Technique("consistency", "measured", {}, {}),
   entry_commitment |->
     Technique("commitment", "proxy", {"brake_point_dist_pct"}, {}),
   eye_line |-> Technique("vision", "no_signal", {}, {})]

\* The phases whose lost seconds a fundamental answers for.
Fundamentals ==
  [braking |-> {"entry"}, rotation |-> {"mid"}, corner_exit |-> {"exit"},
   vehicle_management |-> {}, consistency |-> {}, commitment |-> {"entry"},
   vision |-> {}]

TechniquesOf(f) == {t \in DOMAIN Techniques : Techniques[t].fundamental = f}
DetectorsOf(f) == UNION {Techniques[t].detectors : t \in TechniquesOf(f)}

Detectors == UNION {Techniques[t].detectors : t \in DOMAIN Techniques}

\* One technique measured among others without a signal is only a proxy.
Signal(f) ==
  LET statuses == {Techniques[t].status : t \in TechniquesOf(f)}
  IN IF Cardinality(statuses) = 1 THEN CHOOSE s \in statuses : TRUE ELSE "proxy"

AllMeasured ==
  UNION {Techniques[t].metrics :
           t \in {u \in DOMAIN Techniques : Techniques[u].status = "measured"}}

\* Consistency has no metrics of its own: it pools what is measured.
MetricsOf(f) ==
  IF f = "consistency" THEN AllMeasured
  ELSE UNION {Techniques[t].metrics : t \in TechniquesOf(f)}

-----------------------------------------------------------------------------
(* The principles: [gate, phase], where phase is what the gap is banded on *)
(* ("none": on the gate's own statistic).                                  *)

Detector(d) == [kind |-> "detector", detector |-> d]
Finding(phase) == [kind |-> "finding", phase |-> phase]
Dispersion(metrics, floor) ==
  [kind |-> "dispersion", metrics |-> metrics, floor |-> floor]
Stat(metric, stat, direction, floor, guard) ==
  [kind |-> "stat", metric |-> metric, stat |-> stat,
   direction |-> direction, floor |-> floor, guard |-> guard]
Principle(gate, phase) == [gate |-> gate, phase |-> phase]

\* By the phase a detector speaks of: the entry, and what follows it.
EntryDetectors ==
  [finish_the_front |-> Principle(Detector("brake-release-taper"), "entry"),
   clean_handoff |-> Principle(Detector("throttle-brake-overlap"), "entry")]

LaterDetectors ==
  [one_commitment |-> Principle(Detector("one-steering-input"), "mid"),
   roll_it_on |-> Principle(Detector("throttle-monotonic"), "exit"),
   always_working |-> Principle(Detector("coast-window"), "mid")]

FindingPrinciples == [carry_the_middle |-> Principle(Finding("mid"), "mid")]

DispersionPrinciples ==
  [same_lap_twice |-> Principle(Dispersion(AllMeasured, "consistency"), "none"),
   trust_the_proxy |->
     Principle(Dispersion({"brake_point_dist_pct"}, "commitment"), "entry")]

\* Nothing in the telemetry speaks of them: offered to everybody.
SelfChecks == {"look_further"}

\* The tranche of the entry, of steering and throttle, and of the vehicle.
EntryStats ==
  [carry_the_brake |->
     Principle(Stat("trail_brake_overlap_s", "median", "below", "trail",
                    "brake_peak"), "entry"),
   get_to_peak |->
     Principle(Stat("brake_application_rate", "median", "below", "application",
                    "brake_peak"), "entry"),
   same_marker |->
     Principle(Stat("brake_point_dist_pct", "iqr", "above", "marker", "none"),
               "entry")]

LaterStats ==
  [smooth_hands |->
     Principle(Stat("steering_smoothness_dps2", "median", "above", "hands", "none"),
               "mid"),
   one_squeeze |->
     Principle(Stat("throttle_modulation_count", "median", "above", "squeeze",
                    "none"), "exit"),
   commit_early |->
     Principle(Stat("exit_accel_ms2", "median", "below", "exit", "none"), "exit")]

VehicleStats ==
  [stay_off_the_abs |->
     Principle(Stat("abs_active_ratio", "median", "above", "abs", "none"), "none")]

PrincipleGroups ==
  {EntryDetectors, LaterDetectors, FindingPrinciples, DispersionPrinciples,
   EntryStats, LaterStats, VehicleStats}
Principles ==
  [id \in UNION {DOMAIN g : g \in PrincipleGroups} |->
     (CHOOSE g \in PrincipleGroups : id \in DOMAIN g)[id]]
=============================================================================
