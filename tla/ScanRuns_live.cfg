CONSTANTS
  w1 = w1  w2 = w2  s1 = s1  s2 = s2
  Nobody = Nobody  Dead = Dead
  Worker = {w1, w2}
  Scanner = {s1, s2}
  Home <- MCHome
  Connection = {c1}
  RunId = {r1, r2}
  MaxCrashes = 1
  MaxDrops = 1
  MaxFaults = 0
SPECIFICATION FairSpec
PROPERTIES RunsEnd LocksComeFree
CHECK_DEADLOCK FALSE
