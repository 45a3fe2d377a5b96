\* Three jobs of two concurrent callers, three pids, a registry of two entries.
SPECIFICATION FairSpec
CONSTANTS
  c1 = c1
  c2 = c2
  Callers <- TwoCallers
  Pids <- ThreePids
  Capacity = 2
  MaxJobs = 3
  MaxLines = 1
INVARIANTS
  TypeOK
  RunningIsTracked
  KillHitsItsJob
PROPERTIES
  BashReturns
CHECK_DEADLOCK FALSE
