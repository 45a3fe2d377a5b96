\* Two callers, two overlapping shutdowns, every restart policy.
SPECIFICATION FairSpec
CONSTANTS
  c1 = c1
  c2 = c2
  s1 = s1
  s2 = s2
  Callers <- TwoCallers
  Stoppers <- TwoStoppers
  Modes <- AllModes
  MaxRestarts = 1
  MaxConns = 4
INVARIANTS
  TypeOK
  RunningIsConnected
  OneRequest
  PreviousIsPrior
  ListingIsComplete
  StopIsFinal
PROPERTIES
  SentToOpenSession
  StopReturns
  CrashIsHandled
CHECK_DEADLOCK FALSE
