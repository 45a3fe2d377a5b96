\* stop() while a respawn is in progress.
SPECIFICATION Spec
CONSTANTS
  c1 = c1
  c2 = c2
  Clients <- OneClient
  Modes <- OnFailure
  MaxRestarts = 1
  MaxStarts = 2
  MaxSpawns = 3
  Writers <- Nobody
INVARIANTS
  StopLeavesNothing
CHECK_DEADLOCK FALSE
