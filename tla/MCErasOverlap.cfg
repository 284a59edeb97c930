SPECIFICATION FairSpec
CONSTANTS
  Refreshers = {r1, r2}
  None = None
  Dates = {1}
  NoDate = NoDate
  Sizes = {2}
  DefaultSize = 2
  LegacyDates <- MCOneLegacy
  MaxLaps = 3
  Overlap = TRUE
PROPERTIES
  LapsPlacedOnce
  SummariesComplete
  RefreshTerminates
