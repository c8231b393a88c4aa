SPECIFICATION PoolSpec
CONSTANTS
  None = None
  RequestIds <- MCRequestIds
  Micros <- MCMicros
  Policies <- MCPolicies
  Rows <- MCRows
INVARIANT ExhaustedWhenFull
CHECK_DEADLOCK FALSE
