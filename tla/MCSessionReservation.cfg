SPECIFICATION Spec
CONSTANTS
  None = None
  t1 = t1
  t2 = t2
  na = na
  nb = nb
  nc = nc
  RequestIds <- AllRefs
  Micros <- SomeMicros
  NodeOrder <- OneNode
  Graphs <- TerminalOnly
  Writers <- AllNodes
  MaxAttempts = 1
  MaxConcurrentAgents = 2
  PoolPolicy <- Pool
  RequireCompleteUsage = TRUE
  UsageRows <- Paid
  Threads <- OneThread
  Commands = {"step", "evaluate"}
  MaxEffects = 2
  MaxEpoch = 1
INVARIANT IntendedOwnsReservation
CHECK_DEADLOCK FALSE
