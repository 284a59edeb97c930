--------------------------- MODULE MCCoaching ---------------------------
(* Instances of Coaching for TLC: constants a .cfg cannot write. *)
EXTENDS Coaching

MCWindows == [C1 |-> {"entry", "exit"}, C2 |-> {"mid"}]

\* The defaults, save for the counts, which are those of a small corpus, and
\* for two anchors: coasting falls back to its unit's, and speed has none.
MCConfigs == {
  [Defaults EXCEPT
     !.baseline_top_k = 2, !.min_phase_samples = 2, !.min_sessions = 1,
     !.floor = [laps |-> 4, sessions |-> 2, tracks |-> 2, cars |-> 2],
     !.history_buckets = 2, !.min_laps_per_bucket = 1, !.min_evidence = 1,
     !.reading_min_scored = 2, !.thin_evidence = 2,
     !.metric_reference = [m \in DOMAIN @ \ {"coast_s", "min_speed_kmh"} |-> @[m]],
     !.unit_reference = [u \in DOMAIN @ \ {"speed"} |-> @[u]]]}

Lap(role, track, date, time, seen) ==
  [role |-> role, car |-> "car", track |-> track, session |-> date, date |-> date,
   time |-> time, seen |-> seen]
C1(entry, exit, brake, stabs, release) ==
  [times |-> [entry |-> entry, exit |-> exit],
   metrics |-> [brake_point_dist_pct |-> brake, brake_peak |-> 800,
                throttle_modulation_count |-> stabs],
   landmarks |-> [brake_release |-> release, turn_in |-> 1000]]
C2(mid, coast) ==
  [times |-> [mid |-> mid],
   metrics |-> [min_speed_kmh |-> 100000, coast_s |-> coast],
   landmarks |-> [brake_release |-> None, turn_in |-> 1000]]

\* A clean lap, one that brakes early and stabs, a spin, an undated lap at
\* another track, and somebody else's lap.
MCDrives ==
  {Lap("self", "t1", 1, 40000, [C1 |-> C1(2500, 2500, 2000, 0, 1200), C2 |-> C2(2000, 200)]),
   Lap("self", "t1", 2, 42000, [C1 |-> C1(2800, 2600, 4000, 2000, 600), C2 |-> C2(2500, 600)]),
   Lap("self", "t1", 2, 80000, [C1 |-> C1(10000, 3000, 2000, 1000, None)]),
   Lap("self", "t2", None, 40000, [C1 |-> C1(2600, 2600, 3000, 1000, 800)]),
   Lap("reference", "t1", 1, 36000,
       [C1 |-> C1(2000, 2000, 5000, 0, 1200), C2 |-> C2(1500, 600)])}
==========================================================================
