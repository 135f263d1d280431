CONSTANTS
  w1 = w1  w2 = w2  s1 = s1  s2 = s2
  Nobody = Nobody  Dead = Dead
  Worker = {w1, w2}
  Scanner = {s1, s2}
  Home <- MCHome
  Connection = {c1}
  RunId = {r1, r2, r3}
  MaxCrashes = 1
  MaxDrops = 0
  MaxFaults = 1
SPECIFICATION Spec
SYMMETRY RunSymmetry
INVARIANTS OneScanAtATime LiveRunIsRunning LastStatusBacked
PROPERTIES TerminalStatusIsFinal ImplementsScanHistory
CHECK_DEADLOCK FALSE
