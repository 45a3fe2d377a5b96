\* Lines of up to six bytes, a limit of two, pieces and cuts of one byte, and
\* a ring of two entries for the two streams.
SPECIFICATION Spec
CONSTANTS
  MaxOutput = 3
  Outputs <- SomeOutputs
  MaxLine = 1
  Limit = 2
  MaxChunk = 2
  Capacity = 2
INVARIANTS
  TypeOK
  LogsAreRecent
PROPERTIES
  OutputIsLogged
CHECK_DEADLOCK FALSE
