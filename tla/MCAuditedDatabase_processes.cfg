\* Two processes contend for the write lock of the file.
CONSTANTS
  t1 = t1
  t2 = t2
  c1 = c1
  c2 = c2
  r1 = r1
  r2 = r2
  Conns = {c1,c2}
  Threads = {t1,t2}
  ConnOf <- TwoProcesses
  Ids = {r1}
  Fields = {"f"}
  Values = {1}
  Unset = Unset
  Null = Null
  NoThread = NoThread
  MaxAudit = 2
SPECIFICATION FairSpec
PROPERTY
  ConnectionComesFree
