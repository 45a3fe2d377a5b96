\* Two restarts in any five ticks, a pause of one tick.
SPECIFICATION Spec
CONSTANTS
  MaxRestarts = 2
  WindowSeconds = 4
  BackoffSeconds = 1
  MaxTime = 12
  MaxExits = 6
INVARIANTS
  WindowIsRecent
  RateIsLimited
PROPERTIES
  CrashLoopRule
CHECK_DEADLOCK FALSE
