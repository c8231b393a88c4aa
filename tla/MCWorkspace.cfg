SPECIFICATION Spec
CONSTANTS
  e1 = e1  e2 = e2  p1 = p1  i1 = i1  i2 = i2  c1 = c1  c2 = c2
  Effects = {e1, e2}
  Paths = {p1}
  Edits <- MCEdits
  Scope <- MCScope
  Tasks <- MCTasks
  Instances = {i1, i2}
  Calls = {c1, c2}
  Serves <- Apart
  AtomicSwap = FALSE
  MaxEpoch = 2
  MaxUpsets = 2
  None = None
INVARIANTS OneWriter ReceiptsTellTheTruth KeptLocksAreRecoverable
SYMMETRY Interchangeable
CHECK_DEADLOCK FALSE
