SPECIFICATION Spec
CONSTANTS
  Refreshers = {r1}
  Facts <- MCFacts
  Quiet = Quiet
  NoEra = NoEra
  NoRow = NoRow
  ShareNum = 2
  ShareDen = 3
  ResolvedMinEras = 2
  MaxEras = 4
INVARIANTS
  PartitionIsForward
PROPERTIES
  VerdictSteps
