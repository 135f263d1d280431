CONSTANTS
  Content = {a, b}
  None = None
  Policies <- MCKeepAll
  Period = 2
  SlowScans = FALSE
  MaxClock = 4
  MaxFaults = 0
  MaxDeletes = 0
  MaxWindow = 2
  MaxScansBack = 2
  MaxPairsBack = 1
  MaxChanges = 1
  LogFetchLimit = 2
  MaxEdits = 0
SPECIFICATION Spec
SYMMETRY ContentSymmetry
PROPERTY LogSinceNeverMoves
CHECK_DEADLOCK FALSE
