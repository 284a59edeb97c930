SPECIFICATION Spec
CONSTANTS
  Workers = {w1, w2}
  Laps <- MCLaps
  Past <- MCPast
  Round = 50
  Radius = 3
  MinLaps = 2
  SlowMax = 90
  FastMin = 150
  Margin = 5
  MaxLaps = 2
  MaxRebuilds = 1
  MaxFaults = 1
  None = None
INVARIANTS
  SelfDecides
PROPERTIES
  ObservationKeepsCorner
  RebuildRepairs
  ClassFollowsSpeed
SYMMETRY Symmetric
CHECK_DEADLOCK FALSE
