\* A set of transactions is refused at its last one.
CONSTANTS
  t1 = t1
  t2 = t2
  s1 = s1
  roomA = roomA
  Threads = {t1}
  Subs = {s1}
  Rooms = {roomA}
  RoomOf <- JustOne
  Keys = {"A","B","C"}
  Stream <- Blocked
  Faults = {}
  NoSub = NoSub
  MaxRows = 3
  MaxFetch = 3
  MaxWrites = 5
SPECIFICATION Spec
INVARIANTS
  ReplicaNeverGoesBack
