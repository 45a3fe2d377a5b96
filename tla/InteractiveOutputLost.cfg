\* One session that prints two chunks and exits.
SPECIFICATION FairSpec
CONSTANTS
  c1 = c1
  c2 = c2
  Callers <- OneCaller
  Capacity = 1
  MaxSessions = 1
  MaxChunks = 2
INVARIANTS
  OutputIsCaptured
CHECK_DEADLOCK FALSE
