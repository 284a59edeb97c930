SPECIFICATION Spec
CONSTANTS
  Refreshers = {r1, r2}
  Facts <- MCFewFacts
  Quiet = Quiet
  NoEra = NoEra
  NoRow = NoRow
  ShareNum = 2
  ShareDen = 3
  ResolvedMinEras = 2
  MaxEras = 2
INVARIANTS
  FirstSeenIsFirst
  ProjectionCurrent
PROPERTIES
  OnlyOvertakenRewrite
