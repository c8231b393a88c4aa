SPECIFICATION Spec
CONSTANTS
  None = None
  t1 = t1
  t2 = t2
  na = na
  nb = nb
  nc = nc
  RequestIds <- AllRefs
  Micros <- SomeMicros
  NodeOrder <- ThreeNodes
  Graphs <- SmallGraphs
  Writers <- SomeNodes
  MaxAttempts = 2
  MaxConcurrentAgents = 2
  PoolPolicy <- Pool
  RequireCompleteUsage = FALSE
  UsageRows = {}
  Threads <- TwoThreads
  Commands = {"step", "evaluate", "cancel", "expire"}
  MaxEffects = 3
  MaxEpoch = 1
INVARIANTS TypeOK EachSentOnce SuccessIsBacked PlansReplay
PROPERTY SupersededStays
SYMMETRY ThreadSymmetry
CHECK_DEADLOCK FALSE
