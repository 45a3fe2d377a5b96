\* Two sessions in a registry of one, and two concurrent callers.
SPECIFICATION FairSpec
CONSTANTS
  c1 = c1
  c2 = c2
  Callers <- TwoCallers
  Capacity = 1
  MaxSessions = 2
  MaxChunks = 1
INVARIANTS
  TypeOK
  LiveIsListed
  NobodyOversleeps
PROPERTIES
  ExitIsNoticed
  DeadSessionReleases
  ClosedSessionEnds
CHECK_DEADLOCK FALSE
