\* Two requests at a time on one connection.
CONSTANTS
  t1 = t1
  t2 = t2
  Never = Never
  Threads = {t1, t2}
  Bursts = {0, 2}
  Rate = 1
  Second = 2
  Costs = {2}
  Asks = {1, 3}
  Dates = {3}
  Cap = 2
  Floor = 1
  Base = 1
  Longest = 2
  MaxAttempts = 2
  MaxBatches = 2
  MaxCalls = 4
  MaxClock = 4
  MaxRaced = 1
SPECIFICATION Spec
SYMMETRY ThreadSymmetry
INVARIANTS
  TypeOK
  
  CompleteMeansAccepted
  AttemptsWereSent
PROPERTIES
  PausedSendsNothing
  WaitIsKept
\* The bounds stop every call in the end.
CHECK_DEADLOCK FALSE
