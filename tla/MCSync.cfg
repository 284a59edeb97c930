SPECIFICATION LiveSpec
CONSTANTS
  Workers = {w1, w2}
  Accounts <- MCAccounts
  DriverOf <- MCDriverOf
  EnvDriver = "ann"
  AuthOn = TRUE
  Laps <- MCLaps
  Cohorts = 2
  Dated = TRUE
  Scoped = FALSE
  MaxCohorts = 1
  SkipPitlane = FALSE
  PageSize = 1
  Initially <- MCInitially
  Connected <- MCConnected
  Changes <- MCChanges
  MaxChanges = 1
  MaxSyncs = 2
  MaxFaults = 1
  None = None
INVARIANTS
  NothingForeign
  NothingDueMissed
  StoredOnce
PROPERTY SyncEnds
CHECK_DEADLOCK FALSE
