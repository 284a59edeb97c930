SPECIFICATION Spec
CONSTANTS
  Windows <- MCWindows
  Configs <- MCConfigs
  Drives <- MCDrives
  MaxLaps = 4
  None = None
INVARIANTS
  OneVerdict
  OneVoice
  EvidenceInScope
  ScoreAmongComponents
  TrendIsSeries
PROPERTIES
  ReferencesTeachNothing
CHECK_DEADLOCK FALSE
