\* Two reloads that may overlap each other, two calls, one of them at any time,
\* and registries of one job; three generations.
SPECIFICATION Spec
CONSTANTS
  r1 = r1
  r2 = r2
  t1 = t1
  u1 = u1
  j1 = j1
  j2 = j2
  Lifespan = Lifespan
  NoTool = NoTool
  Requests <- TwoRequests
  Tools <- OneTool
  Upstreams <- OneUpstream
  Configs <- Everything
  Jobs <- TwoJobs
  JobCapacity = 1
  Sessions = {s1}
  MaxCalls = 2
  MaxDuring = 1
  MaxGens = 3
SYMMETRY Symmetry
INVARIANTS
  TypeOK
  ShutdownIsComplete
  AutostartIsComplete
CHECK_DEADLOCK FALSE
