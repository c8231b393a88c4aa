SPECIFICATION RoundSpec
CONSTANTS
  None = None
  t1 = t1
  t2 = t2
  na = na
  nb = nb
  nc = nc
  Task <- MCTask
  Root <- MCRoot
  Requests <- MCRequests
  Manifests <- MCManifests
  Policies <- MCPolicies
  Operations <- MCOperations
  Inputs <- MCInputs
  Expectation <- MCExpectation
  Delegated <- MCDelegated
  Approvable = {1}
  Slots = 2
  Ttl = 1
  MaxNow = 2
  MaxEpoch = 2
  MaxChanges = 2
  Matrices <- MCMatrices
  Scripts <- MCScripts
  Nil = Nil
  Contract <- MCContract
  Registration <- MCRegistration
  Bundles <- MCBundles
  BranchItems <- MCBranchItems
  Endings <- MCEndings
  MaxAttempts = 2
INVARIANTS
  AuthorityShrinks HostRunsOnce OutcomeIsMeasured FeedbackIsPublic
PROPERTIES UnknownIsReconciled SentOnEvidence
CHECK_DEADLOCK FALSE
