SPECIFICATION Spec
CONSTANTS
  e1 = e1  e2 = e2  p1 = p1  i1 = i1  i2 = i2  c1 = c1  c2 = c2
  Effects = {e1, e2}
  Paths = {p1}
  Edits <- MCEdits
  Scope <- MCScope
  Tasks <- OneTask
  Instances = {i1, i2}
  Calls = {c1, c2}
  Serves <- Together
  AtomicSwap = FALSE
  MaxEpoch = 1
  MaxUpsets = 1
  None = None
INVARIANT TransactionsExclude
CHECK_DEADLOCK FALSE
