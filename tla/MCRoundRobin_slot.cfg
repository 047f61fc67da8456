\* One request at a time, two sessions open at once.
CONSTANTS
  t1 = t1
  t2 = t2
  MemberCount = 2
  SlotCount = 2
  Weight <- EvenWeights
  Calendars <- JustFree
  Threads = {t1}
  NoShowPage = 1
  MaxRoutes = 2
  MaxEdits = 0
  MaxRaced = 2
SPECIFICATION Spec
INVARIANTS
  NoDoubleBooking
\* Every session may be booked and every booking settled: then nobody calls.
CHECK_DEADLOCK FALSE
