SPECIFICATION Spec
CONSTANTS
  None = None
  t1 = t1
  t2 = t2
  na = na
  nb = nb
  nc = nc
  RequestIds <- AllRefs
  Micros <- SomeMicros
  NodeOrder <- OneNode
  Graphs <- TerminalOnly
  Writers <- AllNodes
  MaxAttempts = 1
  MaxConcurrentAgents = 2
  PoolPolicy <- Pool
  RequireCompleteUsage = TRUE
  UsageRows <- Paid
  Threads <- TwoThreads
  Commands = {"step", "webhook", "reconcile", "evaluate", "pause", "cancel", "crash"}
  MaxEffects = 3
  MaxEpoch = 2
INVARIANT StopsAreFinal
PROPERTY StoppedLaunchesNothing
SYMMETRY ThreadSymmetry
CHECK_DEADLOCK FALSE
