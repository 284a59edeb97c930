SPECIFICATION Spec
CONSTANTS
  Refreshers = {r1}
  None = None
  Dates = {1, 2}
  NoDate = NoDate
  Sizes = {1, 2}
  DefaultSize = 2
  LegacyDates <- MCLegacyDates
  MaxLaps = 5
  Overlap = FALSE
INVARIANTS
  TypeOK
  ErasFilled
PROPERTIES
  ClosedErasFrozen
  AppendOnlyBlocks
