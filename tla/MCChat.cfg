SPECIFICATION LiveSpec
CONSTANTS
  Users = {u1}
  User = u1
  Workers = {w1}
  Keys = {k1, k2}
  Tables = {k2}
  Values = {1, 2}
  Default = 1
  MaxHistory = 2
  MaxFaults = 1
  MaxSteps = 2
  MaxStaged = 2
  MaxTurns = 2
  MaxSwitches = 1
  None = None
INVARIANTS
  ConfirmedAsShown
  AppliedOnce
PROPERTIES
  ChangeExplained
  TurnsEnd
CHECK_DEADLOCK FALSE
