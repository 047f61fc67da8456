\* The client retries an event whose delivery was answered with an error.
CONSTANTS
  t1 = t1
  t2 = t2
  s1 = s1
  roomA = roomA
  Threads = {t1}
  Subs = {s1}
  Rooms = {roomA}
  RoomOf <- JustOne
  Keys = {"A","B","C"}
  Stream <- Brief
  Faults = {"redelivery"}
  NoSub = NoSub
  MaxRows = 4
  MaxFetch = 4
  MaxWrites = 4
SPECIFICATION Spec
INVARIANTS
  NothingVanishes
