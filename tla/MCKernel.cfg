SPECIFICATION KernelSpec
CONSTANTS
  a1 = a1
  n1 = n1
  None = None
  Absent = Absent
  EffectIds = {"e1"}
  Keys = {"k1"}
  ReceiptIds <- MCReceiptIds
  Attempts = {a1}
  Nodes = {n1}
  NodeStates <- MCNodeStates
  EventIds <- MCEventIds
  AppendIds = {"q1", "q2", "q3"}
  ClaimIds = {"c1"}
  Appends <- MCAppends
  Receivable <- MCReceivable
  InitialEpoch = 1
  MaxEpoch = 2
  MaxRevision = 5
  RequestIds <- MCRequestIds
  Micros <- MCMicros
  Policies <- MCPolicies
  Rows <- MCRows
  Nil = Nil
  NodeIds <- MCNodeIds
  FirstGraph <- MCGraph
  Patches <- MCPatches
  Contract <- MCContract
  Digests = {1}
  Outcomes <- MCOutcomes
  Refusals <- MCRefusals
  MaxConcurrentAgents = 2
  LeaseTtl = 1
  MaxNow = 2
  MaxTokens = 4
  MaxStreak = 3
  CarriesFairness = TRUE
INVARIANTS
  TypeOK ChargedOnce SettledOnEvidence SpendIsExplained
  RecoveryIsExact
  HoldersExclude WorkIsCurrent PassedOverOnce
CHECK_DEADLOCK FALSE
