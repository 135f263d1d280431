CONSTANTS
  Nobody = Nobody  Dead = Dead
  Worker = {w1, w2}
  SchedulerOn = {w1, w2}
  Caller = {r1}
  Connection = {c1}
  Interval = {i1}
  MaxEdits = 1
  MaxDrops = 1
  MaxCrashes = 1
  MaxFaults = 1
SPECIFICATION FairSpec
INVARIANTS OnlyLeaderHasJobs RecordedMeansJob
PROPERTY UncrossedReachJobs
