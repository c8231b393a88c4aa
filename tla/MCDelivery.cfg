SPECIFICATION DeliverySpec
CONSTANTS
  d1 = d1  d2 = d2  s0 = s0  s1 = s1  s2 = s2  q1 = q1  q2 = q2  f1 = f1  k1 = k1  c1 = c1  c2 = c2
  x1 = x1  x2 = x2  t1 = t1  t2 = t2
  Nil = Nil
  PiEffects = {f1}
  PiMessages <- MCMessages
  MaxRequests = 2
  MaxPiUpsets = 2
  ChildDelegations = {d1, d2}
  Plans <- MCPlans
  Sessions = {s0, s1, s2}
  Parent = s0
  ParentGrant <- MCGrant
  Deadline <- MCDeadline
  ProviderRequests = {q1, q2}
  Micros = {1}
  PoolPolicy <- MCPolicy
  ProviderRows <- MCRows
  ChildOutcomes = {"completed", "lost"}
  MaxSteps = 2
  MaxNow = 1
  MaxChildUpsets = 1
  Agents = {f1}
  Tools = {k1}
  MaxTurns = 2
  MaxDshUpsets = 2
  TeamDelegations = {x1, x2}
  Children = {c1, c2}
  Target <- MCTarget
  Existing = {x2}
  Threads = {t1, t2}
  Concurrency = 2
  Calls = {k1}
  MaxEvents = 4
  MaxTeamUpsets = 1
  a1 = a1
  a2 = a2
  n1 = n1
  Absent = Absent
  EffectIds <- MCEffectIds
  Keys <- MCKeys
  ReceiptIds <- MCReceiptIds
  Attempts = {a1, a2}
  Nodes = {n1}
  NodeStates <- MCNodeStates
  EventIds <- MCEventIds
  AppendIds <- MCRequestIds
  ClaimIds <- MCClaimIds
  Appends <- MCAppends
  Receivable <- MCReceivable
  InitialEpoch = 1
  MaxEpoch = 3
  MaxRevision = 8
INVARIANTS
  JournalReplays AtMostOneClaim SerialHistory ContentMatchesJournal NothingStaleMovesAnEffect
  DispatchedOnce AnswersAreWhole ChildrenStayBounded
PROPERTIES ImplementsDelivery ImplementsHostContract PausesAreHonored
CHECK_DEADLOCK FALSE
SYMMETRY Interchangeable
