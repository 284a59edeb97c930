SPECIFICATION Spec
CONSTANTS
  Browsers = {b1, b2}
  Emails = {e1}
  Drivers = {d1}
  Passwords = {p1, p2}
  Unset = Unset
  MaxAttempts = 1
  Lockout = 1
  TTL = 1
  ResetTTL = 0
  MaxClock = 1
  MaxRequests = 5
  MaxFaults = 1
  None = None
SYMMETRY Symmetric
INVARIANTS
  OneAccountPerEmail
  OneLiveSession
PROPERTIES
  ResetSpendsLinks
  
CHECK_DEADLOCK FALSE
