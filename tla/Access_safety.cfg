CONSTANTS
  Request = {r1, r2}
  Token = {k1}
  None = None
  Ttl = 2
  MaxClock = 2
  MaxCookies = 2
  MaxChanges = 1
  MaxFaults = 1
SPECIFICATION Spec
SYMMETRY AccessSymmetry
INVARIANTS CutOffHolds ChangeEndsSessions OneSetup
CHECK_DEADLOCK FALSE
