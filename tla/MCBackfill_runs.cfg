\* Two runs on one connection.
CONSTANTS
  t1 = t1
  t2 = t2
  Accounts <- AllAccounts
  Threads = {t1, t2}
  ScopeStarts = {0}
  PageSize = 1
  ReadyAfter = 2
  BulkThreshold = 1
  ExpiryDays = 1
  MaxRows = 2
  MaxRuns = 2
  MaxDays = 2
  MaxMishaps = 1
SPECIFICATION Spec
SYMMETRY ThreadSymmetry
INVARIANTS
  TypeOK
  CursorNeverSkips
  OpenedMeansCovered
  NoDuplicates
  QuotaKept
  PushedAll
\* The bounds stop every call in the end.
CHECK_DEADLOCK FALSE
