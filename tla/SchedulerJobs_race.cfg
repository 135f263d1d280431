CONSTANTS
  Nobody = Nobody  Dead = Dead
  Worker = {w1}
  SchedulerOn = {w1}
  Caller = {r1}
  Connection = {c1}
  Interval = {i1}
  MaxEdits = 1
  MaxDrops = 0
  MaxCrashes = 0
  MaxFaults = 0
SPECIFICATION FairSpec
PROPERTY SchedulesReachJobs
