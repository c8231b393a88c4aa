SPECIFICATION FairSpec
CONSTANTS
  None = None
  t1 = t1
  t2 = t2
  na = na
  nb = nb
  nc = nc
  RequestIds <- AllRefs
  Micros <- SomeMicros
  NodeOrder <- OneNode
  Graphs <- TerminalOnly
  Writers <- AllNodes
  MaxAttempts = 1
  MaxConcurrentAgents = 2
  PoolPolicy <- Pool
  RequireCompleteUsage = TRUE
  UsageRows <- Paid
  Threads <- OneThread
  Commands = {"step", "reconcile", "pause"}
  MaxEffects = 1
  MaxEpoch = 2
PROPERTY UnknownIsReconciled
CHECK_DEADLOCK FALSE
