\* Two requests at a time, every fault.
CONSTANTS
  t1 = t1
  t2 = t2
  s1 = s1
  roomA = roomA
  Threads = {t1,t2}
  Subs = {s1}
  Rooms = {roomA}
  RoomOf <- JustOne
  Keys = {"A","B","C"}
  Stream <- Late
  Faults = {"redelivery","busy","crash"}
  NoSub = NoSub
  MaxRows = 2
  MaxFetch = 2
  MaxWrites = 4
SPECIFICATION Spec
SYMMETRY ThreadSymmetry
INVARIANTS
  TypeOK
  AppliedIsLogged
  CommittedMeansApplied
