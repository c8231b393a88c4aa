SPECIFICATION ServicesSpec
CONSTANTS
  a1 = a1  a2 = a2  p1 = p1  t1 = t1  t2 = t2  s1 = s1  x1 = x1  x2 = x2  q1 = q1  r1 = r1  r2 = r2
  None = None
  Nil = Nil
  Assets = {a1, a2}
  Deps <- MCDeps
  Pointers = {p1}
  Session <- MCSession
  RollbackIds = {x1}
  RestoreId <- MCRestoreId
  Threads = {t1, t2}
  Requests = {q1}
  MaxAsked = 2
  Expirable = {a1}
  Withdrawable = {"cancel"}
  MaxUpsets = 1
  Runs = {r1, r2}
  Limits <- MCLimits
  Uses <- MCUses
  MaxIterations <- MCIterations
  MaxFailed = 2
  MaxIdle = 1
  Strays = {"same", "other", "protected"}
  MaxDisturbances = 1
INVARIANTS
  PointersAreTrue RevocationIsHonest
  LedgerIsExplained GenerationsAreGenuine
PROPERTY ExhaustedAcceptsNothing
CHECK_DEADLOCK FALSE
SYMMETRY Interchangeable
