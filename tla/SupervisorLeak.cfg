\* One reload at a time and no call but those before it: what stays behind?
SPECIFICATION Spec
CONSTANTS
  r1 = r1
  r2 = r2
  t1 = t1
  u1 = u1
  j1 = j1
  j2 = j2
  Lifespan = Lifespan
  NoTool = NoTool
  Requests <- OneRequest
  Tools <- OneTool
  Upstreams <- OneUpstream
  Configs <- Everything
  Jobs <- TwoJobs
  JobCapacity = 1
  Sessions = {s1}
  MaxCalls = 0
  MaxDuring = 1
  MaxGens = 2
INVARIANT ReloadLeavesNothing
CHECK_DEADLOCK FALSE
