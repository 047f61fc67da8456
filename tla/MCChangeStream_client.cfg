\* One request at a time, with failing writes and restarts.
CONSTANTS
  t1 = t1
  t2 = t2
  s1 = s1
  roomA = roomA
  Threads = {t1}
  Subs = {s1}
  Rooms = {roomA}
  RoomOf <- JustOne
  Keys = {"A","B","C"}
  Stream <- Enriching
  Faults = {"busy","crash"}
  NoSub = NoSub
  MaxRows = 5
  MaxFetch = 5
  MaxWrites = 6
SPECIFICATION Spec
INVARIANTS
  NothingOvertakes
  NothingVanishes
  AppliedAsAUnit
  DeliveredWithinBudget
