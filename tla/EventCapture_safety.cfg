CONSTANTS
  Event = {e1, e2}
  Capture = {c1, c2}
  None = None
  Cap = 2
  Hours = {1, 2}
  Overlap = 2
  Delay = 2
  MaxClock = 2
  MaxTrouble = 2
SPECIFICATION Spec
SYMMETRY CaptureSymmetry
INVARIANTS CheckpointBacked GapsDisjoint NothingDiscarded
CHECK_DEADLOCK FALSE
