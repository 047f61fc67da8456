\* Two threads of one process, one of them a plain client, on two records.
CONSTANTS
  t1 = t1
  t2 = t2
  c1 = c1
  c2 = c2
  r1 = r1
  r2 = r2
  Conns = {c1}
  Threads = {t1,t2}
  ConnOf <- OneProcess
  Ids = {r1,r2}
  Fields = {"f"}
  Values = {1}
  Unset = Unset
  Null = Null
  NoThread = NoThread
  MaxAudit = 3
SPECIFICATION Spec
CONSTRAINT PlainClient
INVARIANTS
  TypeOK
  NoLostUpdate
  MirrorTellsCommitted
  TrailExplainsRecords
  TrailIsUnbroken
  RevisionsCountEntries
  IndexMatchesRecords
PROPERTY
  ImplementsHistory
