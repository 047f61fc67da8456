\* Two runs with different scopes, one after the other, on one connection.
CONSTANTS
  t1 = t1
  t2 = t2
  Accounts <- UnlimitedDataverse
  Threads = {t1}
  ScopeStarts = {0, 1}
  PageSize = 1
  ReadyAfter = 1
  BulkThreshold = 1
  ExpiryDays = 2
  MaxRows = 3
  MaxRuns = 2
  MaxDays = 1
  MaxMishaps = 0
SPECIFICATION Spec
INVARIANT
  CompleteMeansCovered
\* The bounds stop every call in the end.
CHECK_DEADLOCK FALSE
