------------------------------ MODULE MCLapStore ------------------------------
(* Instances of LapStore for TLC: constants a .cfg cannot write. *)
EXTENDS LapStore, TLC

CONSTANTS x, y, z, v, c1

PastRow(c) == [src |-> "past", content |-> c, cohort |-> c1, measured |-> TRUE]

\* Two laps of one cohort from before: one with its trace still in the
\* database, one copied from another machine without its trace.
MCPast == [rows |-> <<PastRow(x), PastRow(y)>>, legacy |-> {1}]
MCNoPast == [rows |-> << >>, legacy |-> {}]

\* Nothing of the past has content z or v.
MCSymmetry ==
  Permutations(Workers) \cup Permutations(Sources) \cup Permutations({z, v})
=============================================================================
