CONSTANTS
  w1 = w1  w2 = w2  s1 = s1  s2 = s2
  Nobody = Nobody  Dead = Dead
  Worker = {w1, w2}
  Scanner = {s1, s2}
  Home <- MCHome
  Connection = {c1}
  RunId = {r1, r2}
  MaxCrashes = 0
  MaxDrops = 0
  MaxFaults = 0
SPECIFICATION Spec
INVARIANT DeletedLeavesNoSnapshots
CHECK_DEADLOCK FALSE
