CONSTANTS
  Request = {r1, r2}
  Token = {k1}
  None = None
  Ttl = 2
  MaxClock = 2
  MaxCookies = 2
  MaxChanges = 1
  MaxFaults = 0
SPECIFICATION Spec
SYMMETRY AccessSymmetry
INVARIANT RefusedHoldsNoToken
CHECK_DEADLOCK FALSE
