\* Two clients that call whenever they like, every restart policy.
SPECIFICATION Spec
CONSTANTS
  c1 = c1
  c2 = c2
  Clients <- TwoClients
  Modes <- AllModes
  MaxRestarts = 1
  MaxStarts = 2
  MaxSpawns = 3
  Writers <- Nobody
SYMMETRY Symmetry
INVARIANTS
  TypeOK
  ChildrenAreMinded
  StatusIsBacked
  BackoffIsEarned
CHECK_DEADLOCK FALSE
