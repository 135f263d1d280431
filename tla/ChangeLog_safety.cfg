CONSTANTS
  Content = {a, b, c}
  None = None
  Policies <- MCPolicies
  Period = 2
  SlowScans = TRUE
  MaxClock = 4
  MaxFaults = 1
  MaxDeletes = 1
  MaxWindow = 1
  MaxScansBack = 2
  MaxPairsBack = 1
  MaxChanges = 1
  LogFetchLimit = 2
  MaxEdits = 1
SPECIFICATION Spec
CONSTRAINT FewDisturbances
SYMMETRY ContentSymmetry
INVARIANTS ClaimedRowsPresent MarkerBacked LogComplete CauseShown
CHECK_DEADLOCK FALSE
