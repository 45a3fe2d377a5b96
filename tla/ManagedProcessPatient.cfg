\* One patient client, every restart policy, the first two runs may print.
SPECIFICATION FairPatientSpec
CONSTANTS
  c1 = c1
  c2 = c2
  Clients <- OneClient
  Modes <- AllModes
  MaxRestarts = 1
  MaxStarts = 2
  MaxSpawns = 4
  Writers <- Chatty
INVARIANTS
  SingleChild
  StopLeavesNothing
  LogsInOrder
PROPERTIES
  CallsReturn
  CrashIsHandled
  FollowsTheDrawing
CHECK_DEADLOCK FALSE
