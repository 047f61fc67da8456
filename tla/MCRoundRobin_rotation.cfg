\* Two requests at a time on one distribution.
CONSTANTS
  t1 = t1
  t2 = t2
  MemberCount = 2
  SlotCount = 2
  Weight <- EvenWeights
  Calendars <- AnyCalendar
  Threads = {t1,t2}
  NoShowPage = 1
  MaxRoutes = 2
  MaxEdits = 1
  MaxRaced = 2
SPECIFICATION Spec
SYMMETRY ThreadSymmetry
INVARIANTS
  TypeOK
  CommittedTogether
  LedgerNeverOverstates
  LedgerExplained
  BookedOnce
  TakesTurns
PROPERTY
  SettledForGood
\* Every session may be booked and every booking settled: then nobody calls.
CHECK_DEADLOCK FALSE
