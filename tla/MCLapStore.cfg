SPECIFICATION Spec
CONSTANTS
  x = x
  y = y
  z = z
  v = v
  c1 = c1
  Workers = {w1, w2}
  Sources = {a, b}
  Contents = {x, y, z, v}
  Cohorts = {c1, c2}
  Keep = 1
  Past <- MCPast
  MaxLaps = 4
  None = None
INVARIANTS
  TracesBelong
PROPERTIES
  OnlyRacesDoubleCount
  OnlyOldTracesGo
SYMMETRY MCSymmetry
