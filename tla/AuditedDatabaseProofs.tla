----------------------- MODULE AuditedDatabaseProofs -----------------------
(***************************************************************************)
(* Theorems about AuditedDatabase for every set of processes, threads, ids *)
(* and payloads and every length of the audit trail: the types, that the   *)
(* trail explains the records, and that a committed transaction is one     *)
(* step of AuditedHistory.                                                 *)
(***************************************************************************)
EXTENDS AuditedDatabase, SequenceTheorems, TLAPS

(* Entries built by Entry are audit rows. *)
LEMMA EntryType ==
  ASSUME NEW action \in {"insert", "update", "delete", "restore"}, NEW i \in Ids,
         NEW before \in Payloads \cup {Null}, NEW after \in Payloads \cup {Null}
  PROVE  Entry(action, i, before, after) \in Entries
BY DEF Entry, Entries, Only, NoPayloads

LEMMA PayloadTypes ==
  /\ Empty \in Payloads
  /\ AbsentRow \in Rows
  /\ NoPayloads \in [Ids -> Payloads \cup {Null}]
  /\ BlankEntry \in Entries
  /\ IdleJob \in Jobs
  /\ NoSnapshot \in Snapshots
<1>1. Empty \in Payloads
  BY DEF Empty, Payloads
<1>2. NoPayloads \in [Ids -> Payloads \cup {Null}]
  BY DEF NoPayloads
<1>3. BlankEntry \in Entries
  BY <1>2 DEF BlankEntry, Entries
<1>4. IdleJob \in Jobs
  BY <1>3 DEF IdleJob, Jobs, Stages, Kinds
<1>5. AbsentRow \in Rows
  BY <1>1 DEF AbsentRow, Rows
<1>6. NoSnapshot \in Snapshots
  BY <1>1 DEF NoSnapshot, Snapshots
<1>. QED BY <1>1, <1>2, <1>3, <1>4, <1>5, <1>6

LEMMA MergedType ==
  ASSUME NEW data \in Payloads, NEW patch \in Payloads
  PROVE  Merged(data, patch) \in Payloads
BY DEF Merged, Payloads

(* The row changes of the statements stay rows. *)
LEMMA RowTypes ==
  ASSUME NEW row \in Rows, NEW state \in {"absent", "live", "deleted"}, NEW data \in Payloads
  PROVE  /\ row.data \in Payloads
         /\ Touched(row, state, data) \in Rows
BY DEF Rows, Touched

(* A statement that writes a well-typed row and entry keeps the types. *)
LEMMA StatedType ==
  ASSUME TypeOK, NEW t \in Threads, NEW i \in Ids, NEW row \in Rows, NEW entry \in Entries,
         NEW checked \in BOOLEAN, NEW next \in Stages,
         Stated(t, i, row, entry, checked, next)
  PROVE  TypeOK'
<1>1. working' \in Databases
  BY DEF Stated, TypeOK, Databases
<1>2. job' \in [Threads -> Jobs]
  BY DEF Stated, TypeOK, Jobs
<1>. QED BY <1>1, <1>2 DEF Stated, TypeOK

-----------------------------------------------------------------------------
(* Type correctness. *)

(* Every step keeps every variable in its type. *)
LEMMA TypeStep ==
  ASSUME TypeOK, [Next]_vars
  PROVE  TypeOK'
<1>. USE PayloadTypes, ThreadAssumption
<1>1. ASSUME NEW t \in Threads, NEW i \in Ids, Get(t, i)
      PROVE  TypeOK'
  BY <1>1 DEF Get, TypeOK, Snapshots, Databases, Rows
<1>2. ASSUME NEW t \in Threads, NEW kind \in Kinds, AcquireLock(t, kind)
      PROVE  TypeOK'
  <2>1. [IdleJob EXCEPT !.stage = "locked", !.kind = kind] \in Jobs
    BY DEF Jobs, Stages
  <2>. QED BY <1>2, <2>1 DEF AcquireLock, TypeOK
<1>3. ASSUME NEW t \in Threads, BeginImmediate(t)
      PROVE  TypeOK'
  <2>1. [job[t] EXCEPT !.stage = "open"] \in Jobs
    BY DEF TypeOK, Jobs, Stages
  <2>. QED BY <1>3, <2>1 DEF BeginImmediate, TypeOK
<1>4. ASSUME NEW t \in Threads, BusyTimeout(t)
      PROVE  TypeOK'
  BY <1>4 DEF BusyTimeout, TypeOK
<1>5. ASSUME NEW t \in Threads, Rollback(t)
      PROVE  TypeOK'
  BY <1>5 DEF Rollback, TypeOK
<1>6. ASSUME NEW t \in Threads, Commit(t)
      PROVE  TypeOK'
  <2>1. [job[t] EXCEPT !.stage = "mirroring"] \in Jobs
    BY DEF TypeOK, Jobs, Stages
  <2>. QED BY <1>6, <2>1 DEF Commit, TypeOK
<1>7. ASSUME NEW t \in Threads, Statement(t)
      PROVE  TypeOK'
  <2>. USE DEF Stages
  <2>0. /\ \A i \in Ids : working.records[i] \in Rows
        /\ Len(working.audit_log) \in Nat
    BY DEF TypeOK, Databases
  <2>00. ASSUME NEW p \in Payloads
         PROVE  FreshRow(p) \in Rows
    BY <2>0 DEF FreshRow, Rows
  <2>1. ASSUME NEW i \in Ids, NEW p \in Payloads, InsertRow(t, i, p)
        PROVE  TypeOK'
    <3>1. Entry("insert", i, Null, p) \in Entries
      BY EntryType
    <3>. QED BY <2>1, <2>00, <3>1, StatedType DEF InsertRow
  <2>2. ASSUME NEW i \in Ids, NEW p \in Payloads, NEW checked \in BOOLEAN,
               Update(t, i, p, checked)
        PROVE  TypeOK'
    <3>. DEFINE row == working.records[i]
                merged == Merged(row.data, p)
    <3>1. row.data \in Payloads /\ merged \in Payloads
      BY <2>0, MergedType DEF Rows
    <3>2. Touched(row, "live", merged) \in Rows
      BY <2>0, <3>1, RowTypes
    <3>3. Entry("update", i, row.data, merged) \in Entries
      BY <3>1, EntryType
    <3>. QED BY <2>2, <3>2, <3>3, StatedType DEF Update
  <2>3. ASSUME NEW i \in Ids, SoftDelete(t, i)
        PROVE  TypeOK'
    <3>. DEFINE row == working.records[i]
    <3>1. Touched(row, "deleted", row.data) \in Rows
      BY <2>0, RowTypes
    <3>2. Entry("delete", i, row.data, Null) \in Entries
      BY <2>0, EntryType DEF Rows
    <3>. QED BY <2>3, <3>1, <3>2, StatedType DEF SoftDelete
  <2>4. ASSUME NEW i \in Ids, HardDelete(t, i)
        PROVE  TypeOK'
    <3>1. Entry("delete", i, working.records[i].data, Null) \in Entries
      BY <2>0, EntryType DEF Rows
    <3>2. working' \in Databases
      BY <2>4 DEF HardDelete, TypeOK, Databases
    <3>3. job' \in [Threads -> Jobs]
      BY <2>4, <3>1 DEF HardDelete, TypeOK, Jobs
    <3>. QED BY <2>4, <3>2, <3>3 DEF HardDelete, TypeOK
  <2>5. ASSUME NEW i \in Ids, RestoreRow(t, i)
        PROVE  TypeOK'
    <3>. DEFINE row == working.records[i]
    <3>1. Touched(row, "live", row.data) \in Rows
      BY <2>0, RowTypes
    <3>2. Entry("restore", i, Null, row.data) \in Entries
      BY <2>0, EntryType DEF Rows
    <3>. QED BY <2>5, <3>1, <3>2, StatedType DEF RestoreRow
  <2>6. ASSUME NEW i \in Ids, NEW p \in Payloads, BulkInsert(t, i, p)
        PROVE  TypeOK'
    <3>1. working' \in Databases
      BY <2>6, <2>00 DEF BulkInsert, TypeOK, Databases
    <3>2. job' \in [Threads -> Jobs]
      BY <2>6 DEF BulkInsert, TypeOK, Jobs, Entries
    <3>. QED BY <2>6, <3>1, <3>2 DEF BulkInsert, TypeOK
  <2>7. ASSUME NEW i \in Ids, BulkSoftDelete(t, i) \/ BulkHardDelete(t, i)
        PROVE  TypeOK'
    <3>1. working' \in Databases
      <4>1. CASE BulkSoftDelete(t, i)
        <5>. DEFINE row == Touched(working.records[i], "deleted", working.records[i].data)
        <5>1. row \in Rows
          BY <2>0, RowTypes
        <5>2. working' = [working EXCEPT !.records[i] = row]
          BY <4>1 DEF BulkSoftDelete
        <5>. HIDE DEF row
        <5>. QED BY <5>1, <5>2 DEF TypeOK, Databases
      <4>2. CASE BulkHardDelete(t, i)
        BY <4>2 DEF BulkHardDelete, TypeOK, Databases
      <4>. QED BY <2>7, <4>1, <4>2
    <3>2. Remove(t, i)
      BY <2>7 DEF BulkSoftDelete, BulkHardDelete
    <3>3. job' \in [Threads -> Jobs]
      <4>1. working.records[i].data \in Payloads
        BY <2>0, RowTypes
      <4>. DEFINE entry == job[t].entry
                  next == [action |-> "delete", ids |-> entry.ids \cup {i},
                           before |-> [entry.before EXCEPT ![i] = working.records[i].data],
                           after |-> NoPayloads]
      <4>2. entry \in Entries
        BY DEF TypeOK, Jobs
      <4>3. next \in Entries
        BY <4>1, <4>2 DEF Entries
      <4>4. job' = [job EXCEPT ![t].stage = "bulk", ![t].entry = next]
        BY <3>2 DEF Remove
      <4>. HIDE DEF next
      <4>. QED BY <4>3, <4>4 DEF TypeOK, Jobs
    <3>. QED BY <3>1, <3>2, <3>3 DEF Remove, TypeOK
  <2>. QED BY <1>7, <2>1, <2>2, <2>3, <2>4, <2>5, <2>6, <2>7
       DEF Statement, UpdateRow, UpdateExpecting
<1>8. ASSUME NEW t \in Threads, Reindex(t)
      PROVE  TypeOK'
  <2>1. working' \in Databases
    BY <1>8 DEF Reindex, TypeOK, Databases, Rows
  <2>2. [job[t] EXCEPT !.stage = "indexed"] \in Jobs
    BY DEF TypeOK, Jobs, Stages
  <2>. QED BY <1>8, <2>1, <2>2 DEF Reindex, TypeOK
<1>9. ASSUME NEW t \in Threads, Audit(t)
      PROVE  TypeOK'
  <2>0. job[t].entry \in Entries /\ working.audit_log \in Seq(Entries)
    BY DEF TypeOK, Jobs, Databases
  <2>00. Append(working.audit_log, job[t].entry) \in Seq(Entries)
    BY <2>0, AppendProperties
  <2>1. working' \in Databases
    BY <1>9, <2>00 DEF Audit, TypeOK, Databases
  <2>2. [seq |-> Len(working.audit_log) + 1, entry |-> job[t].entry] \in Lines
    BY <2>0 DEF Lines
  <2>3. job' \in [Threads -> Jobs]
    <3>. DEFINE pending == Append(job[t].pending, [seq |-> Len(working.audit_log) + 1,
                                                   entry |-> job[t].entry])
                next == [job[t] EXCEPT !.stage = "audited", !.entry = BlankEntry,
                                       !.checked = FALSE, !.pending = pending]
    <3>1. job[t] \in Jobs /\ job[t].pending \in Seq(Lines)
      BY DEF TypeOK, Jobs
    <3>2. pending \in Seq(Lines)
      BY <2>2, <3>1, AppendProperties
    <3>3. job' = [job EXCEPT ![t] = next]
      BY <1>9 DEF Audit
    <3>. HIDE DEF pending
    <3>4. next \in Jobs
      BY <3>1, <3>2 DEF Jobs, Stages
    <3>. HIDE DEF next
    <3>. QED BY <3>3, <3>4 DEF TypeOK
  <2>. QED BY <1>9, <2>1, <2>3 DEF Audit, TypeOK
<1>10. ASSUME NEW t \in Threads, WriteMirror(t) \/ LoseMirror(t)
       PROVE  TypeOK'
  <2>. DEFINE rest == Tail(job[t].pending)
              line == Head(job[t].pending)
  <2>1. job[t].pending \in Seq(Lines) /\ job[t].pending # <<>>
    BY <1>10 DEF TypeOK, Jobs, WriteMirror, LoseMirror
  <2>2. line \in Lines /\ rest \in Seq(Lines)
    BY <2>1, HeadTailProperties
  <2>5. /\ job' = [job EXCEPT ![t].pending = rest]
        /\ mirror' = mirror \/ mirror' = Append(mirror, line)
    BY <1>10 DEF WriteMirror, LoseMirror
  <2>. HIDE DEF rest, line
  <2>3. job' \in [Threads -> Jobs]
    BY <2>2, <2>5 DEF TypeOK, Jobs
  <2>4. mirror' \in Seq(Lines)
    <3>1. mirror \in Seq(Lines)
      BY DEF TypeOK
    <3>2. Append(mirror, line) \in Seq(Lines)
      BY <2>2, <3>1, AppendProperties
    <3>. QED BY <2>5, <3>1, <3>2
  <2>. QED BY <1>10, <2>3, <2>4 DEF WriteMirror, LoseMirror, TypeOK
<1>11. ASSUME NEW t \in Threads, Return(t)
       PROVE  TypeOK'
  BY <1>11 DEF Return, TypeOK
<1>12. ASSUME NEW c \in Conns, Crash(c)
       PROVE  TypeOK'
  BY <1>12 DEF Crash, TypeOK
<1>13. CASE UNCHANGED vars
  BY <1>13 DEF TypeOK, vars
<1>. QED BY <1>1, <1>2, <1>3, <1>4, <1>5, <1>6, <1>7, <1>8, <1>9, <1>10, <1>11, <1>12, <1>13
     DEF Next

LEMMA TypeInit == Init => TypeOK
<1>. SUFFICES ASSUME Init PROVE TypeOK
  OBVIOUS
<1>1. durable \in Databases
  BY PayloadTypes DEF Init, Databases
<1>. QED BY <1>1, PayloadTypes DEF Init, TypeOK

(* TypeOK holds in every reachable state of the store. *)
THEOREM TypeCorrect == Spec => []TypeOK
BY TypeInit, TypeStep, PTL DEF Spec

-----------------------------------------------------------------------------
(* The audit trail explains the records. *)

(* The stages of a call that is inside the write transaction. *)
InWrite(t) == job[t].stage \in {"open", "stated", "bulk", "indexed", "audited"}

(* SQLite's write lock belongs to the one call that is inside BEGIN..COMMIT. *)
OneWriter == \A t \in Threads : InWrite(t) <=> writer = t

(* Between two writes no audit row is being prepared; a bulk call prepares  *)
(* one whose form its kind fixes.                                           *)
EntryForm(t) ==
  LET e == job[t].entry
  IN /\ job[t].stage \in {"locked", "open", "audited"} => e = BlankEntry
     /\ job[t].stage = "bulk" =>
          \/ job[t].kind = "bulk_create" /\ e.action = "insert" /\ e.after = NoPayloads
          \/ job[t].kind \in {"bulk_delete", "bulk_hard_delete"} /\ e.action = "delete"

EntriesWellFormed == \A t \in Threads : EntryForm(t)

(* Uncommitted records: the ids the audit row in preparation names are what *)
(* that row says, all others are what the uncommitted trail says.           *)
PendingExplained(e, db) ==
  \A i \in Ids : IF i \in e.ids THEN EntryExplains(e, i, db.records[i])
                 ELSE ExplainedAt(db.audit_log, i, db.records[i])

WorkingExplained == \A t \in Threads : InWrite(t) => PendingExplained(job[t].entry, working)

(* The inductive invariant: the property itself speaks of committed states  *)
(* only, so it has to be carried through the statements of a transaction.   *)
IInv ==
  /\ TypeOK
  /\ OneWriter
  /\ EntriesWellFormed
  /\ WorkingExplained
  /\ TrailExplainsRecords

(* With nothing in preparation, PendingExplained is the property itself. *)
LEMMA NothingPending ==
  ASSUME NEW db
  PROVE  PendingExplained(BlankEntry, db) <=>
           \A i \in Ids : ExplainedAt(db.audit_log, i, db.records[i])
BY DEF PendingExplained, BlankEntry

(* Appending the prepared audit row makes the trail explain every record. *)
LEMMA AuditExplains ==
  ASSUME NEW log \in Seq(Entries), NEW e \in Entries, NEW i \in Ids, NEW r,
         IF i \in e.ids THEN EntryExplains(e, i, r) ELSE ExplainedAt(log, i, r)
  PROVE  ExplainedAt(Append(log, e), i, r)
<1>. DEFINE new == Append(log, e)
<1>1. /\ Len(log) \in Nat
      /\ Len(new) = Len(log) + 1
      /\ \A n \in 1..Len(log) : new[n] = log[n]
      /\ new[Len(log) + 1] = e
  BY AppendProperties
<1>. HIDE DEF new
<1>2. CASE i \in e.ids
  <2>1. Len(log) + 1 \in About(new, i)
    BY <1>1, <1>2 DEF About
  <2>2. ASSUME NEW n \in About(new, i), \A m \in About(new, i) : m <= n
        PROVE  new[n] = e
    <3>1. n \in 1..(Len(log) + 1) /\ Len(log) + 1 <= n
      BY <1>1, <2>1, <2>2 DEF About
    <3>2. n = Len(log) + 1
      BY <1>1, <3>1
    <3>. QED BY <1>1, <3>2
  <2>3. EntryExplains(e, i, r)
    BY <1>2
  <2>. QED BY <2>1, <2>2, <2>3 DEF ExplainedAt, new
<1>3. CASE i \notin e.ids
  <2>1. About(new, i) = About(log, i)
    BY <1>1, <1>3 DEF About
  <2>2. \A n \in About(log, i) : new[n] = log[n]
    BY <1>1 DEF About
  <2>3. ExplainedAt(log, i, r)
    BY <1>3
  <2>. QED BY <2>1, <2>2, <2>3 DEF ExplainedAt, new
<1>. QED BY <1>2, <1>3

(* A statement on one row, with an audit row that says what it did, keeps   *)
(* the uncommitted records explained.                                       *)
LEMMA StatementExplains ==
  ASSUME NEW db \in Databases, NEW next \in Databases, NEW i \in Ids, NEW e \in Entries,
         NEW e2 \in Entries,
         PendingExplained(e, db),
         next.audit_log = db.audit_log,
         \A j \in Ids \ {i} : next.records[j] = db.records[j],
         e2.ids = e.ids \cup {i},
         \A j \in e.ids \ {i} : e2.action = e.action /\ e2.after[j] = e.after[j],
         EntryExplains(e2, i, next.records[i])
  PROVE  PendingExplained(e2, next)
BY DEF PendingExplained, EntryExplains

LEMMA IInvInit == Init => IInv
<1>. SUFFICES ASSUME Init PROVE IInv
  OBVIOUS
<1>1. TypeOK
  BY TypeInit
<1>2. OneWriter /\ EntriesWellFormed /\ WorkingExplained
  BY ThreadAssumption DEF Init, OneWriter, EntriesWellFormed, EntryForm, WorkingExplained,
                          InWrite, IdleJob
<1>3. TrailExplainsRecords
  BY DEF Init, TrailExplainsRecords, ExplainedAt, About, AbsentRow
<1>. QED BY <1>1, <1>2, <1>3 DEF IInv

(* What a step must show when thread t is the writer before and after it    *)
(* and nothing is committed.                                                *)
LEMMA WriterStep ==
  ASSUME IInv, TypeOK', NEW t \in Threads, writer = t, writer' = t, durable' = durable,
         \A s \in Threads \ {t} : job'[s] = job[s],
         InWrite(t)', EntryForm(t)', PendingExplained(job[t].entry, working)'
  PROVE  IInv'
<1>1. OneWriter'
  BY DEF IInv, OneWriter, InWrite
<1>2. EntriesWellFormed'
  BY DEF IInv, EntriesWellFormed, EntryForm
<1>3. WorkingExplained'
  BY <1>1 DEF WorkingExplained, OneWriter
<1>4. TrailExplainsRecords'
  BY DEF IInv, TrailExplainsRecords
<1>. QED BY <1>1, <1>2, <1>3, <1>4 DEF IInv

(* The statement of a single-record write: nothing was in preparation, and  *)
(* the entry prepared now names the one id the statement changed.           *)
LEMMA SingleStatement ==
  ASSUME IInv, TypeOK', NEW t \in Threads, ReadyToWrite(t),
         NEW i \in Ids, NEW e \in Entries, e.ids = {i},
         writer' = writer, durable' = durable,
         \A s \in Threads \ {t} : job'[s] = job[s],
         job'[t].stage \in {"stated", "indexed"}, job'[t].entry = e,
         working'.audit_log = working.audit_log,
         \A j \in Ids \ {i} : working'.records[j] = working.records[j],
         EntryExplains(e, i, working'.records[i])
  PROVE  IInv'
<1>1. InWrite(t) /\ job[t].entry = BlankEntry
  BY DEF ReadyToWrite, InWrite, IInv, EntriesWellFormed, EntryForm
<1>2. writer = t
  BY <1>1 DEF IInv, OneWriter
<1>3. PendingExplained(BlankEntry, working)
  BY <1>1 DEF IInv, WorkingExplained
<1>4. PendingExplained(e, working')
  <2>1. working \in Databases /\ working' \in Databases
    BY DEF TypeOK, IInv
  <2>2. e.ids = BlankEntry.ids \cup {i} /\ BlankEntry.ids = {}
    BY DEF BlankEntry
  <2>3. BlankEntry \in Entries
    BY PayloadTypes
  <2>. QED BY <1>3, <2>1, <2>2, <2>3, StatementExplains
<1>5. InWrite(t)' /\ EntryForm(t)'
  BY DEF InWrite, EntryForm
<1>6. PendingExplained(job[t].entry, working)'
  BY <1>4
<1>. QED BY <1>2, <1>5, <1>6, WriterStep

(* The entry each statement prepares explains the row it leaves. *)
LEMMA EntryOfStatement ==
  ASSUME NEW i \in Ids, NEW p \in Payloads, NEW r, NEW action \in {"insert", "update", "restore"},
         NEW before \in Payloads \cup {Null}
  PROVE  /\ Entry(action, i, before, p).ids = {i}
         /\ r.state = "live" /\ r.data = p => EntryExplains(Entry(action, i, before, p), i, r)
         /\ Entry("delete", i, p, Null).ids = {i}
         /\ r.state # "live" => EntryExplains(Entry("delete", i, p, Null), i, r)
BY DEF Entry, Only, NoPayloads, EntryExplains

LEMMA StatedExplains ==
  ASSUME IInv, TypeOK', NEW t \in Threads, ReadyToWrite(t),
         NEW i \in Ids, NEW row \in Rows, NEW e \in Entries, e.ids = {i},
         EntryExplains(e, i, row), NEW checked, NEW next \in {"stated", "indexed"},
         Stated(t, i, row, e, checked, next)
  PROVE  IInv'
<1>1. /\ working'.audit_log = working.audit_log
      /\ working'.records = [working.records EXCEPT ![i] = row]
      /\ working.records \in [Ids -> Rows]
  BY DEF Stated, IInv, TypeOK, Databases
<1>2. /\ job'[t].stage = next /\ job'[t].entry = e
      /\ \A s \in Threads \ {t} : job'[s] = job[s]
  BY DEF Stated, IInv, TypeOK, Jobs
<1>3. durable' = durable /\ writer' = writer
  BY DEF Stated
<1>. QED BY <1>1, <1>2, <1>3, SingleStatement

LEMMA IInvStatement ==
  ASSUME IInv, TypeOK', NEW t \in Threads, Statement(t)
  PROVE  IInv'
<1>0. /\ \A i \in Ids : working.records[i] \in Rows
      /\ working \in Databases /\ working' \in Databases
      /\ job \in [Threads -> Jobs] /\ job' \in [Threads -> Jobs]
      /\ Len(working.audit_log) \in Nat
  BY DEF TypeOK, Databases, IInv
<1>00. \A i \in Ids : working.records[i].data \in Payloads
  BY <1>0 DEF Rows
<1>1. ASSUME NEW i \in Ids, NEW p \in Payloads, InsertRow(t, i, p)
      PROVE  IInv'
  <2>0. Entry("insert", i, Null, p) \in Entries
    BY EntryType
  <2>1. FreshRow(p) \in Rows
    BY <1>0 DEF FreshRow, Rows
  <2>2. FreshRow(p).state = "live" /\ FreshRow(p).data = p
    BY DEF FreshRow
  <2>. QED BY <1>1, <2>0, <2>1, <2>2, EntryOfStatement, StatedExplains DEF InsertRow
<1>2. ASSUME NEW i \in Ids, NEW p \in Payloads, NEW checked \in BOOLEAN,
             Update(t, i, p, checked)
      PROVE  IInv'
  <2>. DEFINE row == working.records[i]
              merged == Merged(row.data, p)
              after == Touched(row, "live", merged)
  <2>1. merged \in Payloads /\ after \in Rows
    BY <1>0, <1>00, MergedType, RowTypes
  <2>2. after.state = "live" /\ after.data = merged
    BY DEF Touched
  <2>3. Entry("update", i, row.data, merged) \in Entries
    BY <1>00, <2>1, EntryType
  <2>4. ReadyToWrite(t) /\ Stated(t, i, after, Entry("update", i, row.data, merged), checked, "stated")
    BY <1>2 DEF Update
  <2>5. /\ Entry("update", i, row.data, merged).ids = {i}
        /\ EntryExplains(Entry("update", i, row.data, merged), i, after)
    BY <1>00, <2>1, <2>2, EntryOfStatement
  <2>. QED BY <2>1, <2>3, <2>4, <2>5, StatedExplains
<1>3. ASSUME NEW i \in Ids, SoftDelete(t, i)
      PROVE  IInv'
  <2>. DEFINE row == working.records[i]
              after == Touched(row, "deleted", row.data)
              e == Entry("delete", i, row.data, Null)
  <2>1. after \in Rows /\ e \in Entries
    BY <1>0, <1>00, RowTypes, EntryType
  <2>2. after.state = "deleted"
    BY DEF Touched
  <2>3. ReadyToWrite(t) /\ Stated(t, i, after, e, FALSE, "indexed")
    BY <1>3 DEF SoftDelete
  <2>4. e.ids = {i} /\ EntryExplains(e, i, after)
    BY <1>00, <2>2, EntryOfStatement
  <2>. QED BY <2>1, <2>3, <2>4, StatedExplains
<1>4. ASSUME NEW i \in Ids, HardDelete(t, i)
      PROVE  IInv'
  <2>. DEFINE e == Entry("delete", i, working.records[i].data, Null)
  <2>1. e \in Entries
    BY <1>00, EntryType
  <2>2. working'.audit_log = working.audit_log /\ working'.records[i] = AbsentRow
        /\ \A j \in Ids \ {i} : working'.records[j] = working.records[j]
    BY <1>0, <1>4 DEF HardDelete, Databases
  <2>3. /\ job'[t].stage = "indexed" /\ job'[t].entry = e
        /\ \A s \in Threads \ {t} : job'[s] = job[s]
    BY <1>0, <1>4 DEF HardDelete, Jobs
  <2>4. e.ids = {i} /\ EntryExplains(e, i, AbsentRow)
    BY <1>00, EntryOfStatement DEF AbsentRow
  <2>5. ReadyToWrite(t) /\ writer' = writer /\ durable' = durable
    BY <1>4 DEF HardDelete
  <2>. HIDE DEF e
  <2>. QED BY <2>1, <2>2, <2>3, <2>4, <2>5, SingleStatement
<1>5. ASSUME NEW i \in Ids, RestoreRow(t, i)
      PROVE  IInv'
  <2>. DEFINE row == working.records[i]
              after == Touched(row, "live", row.data)
              e == Entry("restore", i, Null, row.data)
  <2>1. after \in Rows /\ e \in Entries
    BY <1>0, <1>00, RowTypes, EntryType
  <2>2. after.state = "live" /\ after.data = row.data
    BY DEF Touched
  <2>3. ReadyToWrite(t) /\ Stated(t, i, after, e, FALSE, "stated")
    BY <1>5 DEF RestoreRow
  <2>4. e.ids = {i} /\ EntryExplains(e, i, after)
    BY <1>00, <2>2, EntryOfStatement
  <2>. QED BY <2>1, <2>3, <2>4, StatedExplains
<1>6. ASSUME NEW i \in Ids, NEW p \in Payloads, BulkInsert(t, i, p)
      PROVE  IInv'
  <2>. DEFINE e == job[t].entry
              e2 == [e EXCEPT !.ids = @ \cup {i}]
  <2>1. InWrite(t) /\ writer = t /\ e \in Entries
    BY <1>0, <1>6 DEF BulkInsert, BulkReady, InWrite, IInv, OneWriter, Jobs
  <2>2. e.action = "insert" /\ e.after = NoPayloads
    BY <1>6 DEF BulkInsert, BulkReady, IInv, EntriesWellFormed, EntryForm, BlankEntry
  <2>3. /\ job'[t].stage = "bulk" /\ job'[t].entry = e2 /\ job'[t].kind = "bulk_create"
        /\ \A s \in Threads \ {t} : job'[s] = job[s]
    BY <1>0, <1>6 DEF BulkInsert, BulkReady, Jobs
  <2>4. /\ e2 \in Entries /\ e2.ids = e.ids \cup {i}
        /\ e2.action = e.action /\ e2.after = e.after
    BY <2>1 DEF Entries
  <2>5. /\ working'.audit_log = working.audit_log /\ working'.records[i] = FreshRow(p)
        /\ \A j \in Ids \ {i} : working'.records[j] = working.records[j]
    BY <1>0, <1>6 DEF BulkInsert, Databases
  <2>6. EntryExplains(e2, i, working'.records[i])
    BY <2>2, <2>4, <2>5 DEF EntryExplains, FreshRow, NoPayloads
  <2>7. PendingExplained(e, working)
    BY <2>1 DEF IInv, WorkingExplained
  <2>8. PendingExplained(e2, working')
    <3>. HIDE DEF e, e2
    <3>. QED BY <1>0, <2>1, <2>4, <2>5, <2>6, <2>7, StatementExplains
  <2>9. InWrite(t)' /\ EntryForm(t)'
    <3>. HIDE DEF e2
    <3>. QED BY <2>2, <2>3, <2>4 DEF InWrite, EntryForm
  <2>10. writer' = writer /\ durable' = durable
    BY <1>6 DEF BulkInsert
  <2>11. PendingExplained(job[t].entry, working)'
    BY <2>3, <2>8
  <2>. QED BY <2>1, <2>3, <2>9, <2>10, <2>11, WriterStep
<1>7. ASSUME NEW i \in Ids, BulkSoftDelete(t, i) \/ BulkHardDelete(t, i)
      PROVE  IInv'
  <2>. DEFINE e == job[t].entry
              e2 == [action |-> "delete", ids |-> e.ids \cup {i},
                     before |-> [e.before EXCEPT ![i] = working.records[i].data],
                     after |-> NoPayloads]
  <2>1. InWrite(t) /\ writer = t /\ e \in Entries
    BY <1>0, <1>7 DEF BulkSoftDelete, BulkHardDelete, BulkReady, InWrite, IInv, OneWriter, Jobs
  <2>2. e.ids = {} \/ e.action = "delete"
    BY <1>7 DEF BulkSoftDelete, BulkHardDelete, BulkReady, IInv, EntriesWellFormed, EntryForm,
                BlankEntry
  <2>3. /\ job'[t].stage = "bulk" /\ job'[t].entry = e2 /\ job'[t].kind = job[t].kind
        /\ job[t].kind \in {"bulk_delete", "bulk_hard_delete"}
        /\ \A s \in Threads \ {t} : job'[s] = job[s]
    BY <1>0, <1>7 DEF BulkSoftDelete, BulkHardDelete, BulkReady, Remove, Jobs
  <2>4. e2 \in Entries
    BY <1>00, <2>1, PayloadTypes DEF Entries
  <2>5. /\ working'.audit_log = working.audit_log /\ working'.records[i].state # "live"
        /\ \A j \in Ids \ {i} : working'.records[j] = working.records[j]
    <3>1. CASE BulkSoftDelete(t, i)
      BY <1>0, <3>1 DEF BulkSoftDelete, Databases, Touched
    <3>2. CASE BulkHardDelete(t, i)
      BY <1>0, <3>2 DEF BulkHardDelete, Databases, AbsentRow
    <3>. QED BY <1>7, <3>1, <3>2
  <2>6. EntryExplains(e2, i, working'.records[i])
    BY <2>5 DEF EntryExplains
  <2>7. PendingExplained(e, working)
    BY <2>1 DEF IInv, WorkingExplained
  <2>8. PendingExplained(e2, working')
    <3>1. \A j \in Ids : j \in e2.ids => EntryExplains(e2, j, working'.records[j])
      BY <2>2, <2>5, <2>6, <2>7 DEF PendingExplained, EntryExplains
    <3>2. \A j \in Ids : j \notin e2.ids =>
            ExplainedAt(working'.audit_log, j, working'.records[j])
      BY <2>5, <2>7 DEF PendingExplained
    <3>. QED BY <3>1, <3>2 DEF PendingExplained
  <2>9. InWrite(t)' /\ EntryForm(t)'
    BY <2>3 DEF InWrite, EntryForm
  <2>10. writer' = writer /\ durable' = durable
    BY <1>7 DEF BulkSoftDelete, BulkHardDelete, Remove
  <2>11. PendingExplained(job[t].entry, working)'
    BY <2>3, <2>8
  <2>. QED BY <2>1, <2>3, <2>9, <2>10, <2>11, WriterStep
<1>. QED BY <1>1, <1>2, <1>3, <1>4, <1>5, <1>6, <1>7
     DEF Statement, UpdateRow, UpdateExpecting

(* Steps of a thread that is not, and does not become, the writer. *)
LEMMA OutsideStep ==
  ASSUME IInv, TypeOK', NEW t \in Threads, ~InWrite(t), ~InWrite(t)',
         EntryForm(t)', writer' = writer, durable' = durable, working' = working,
         \A s \in Threads \ {t} : job'[s] = job[s]
  PROVE  IInv'
<1>1. OneWriter'
  BY DEF IInv, OneWriter, InWrite
<1>2. EntriesWellFormed'
  BY DEF IInv, EntriesWellFormed, EntryForm, InWrite
<1>3. WorkingExplained'
  BY DEF IInv, WorkingExplained, InWrite
<1>4. TrailExplainsRecords'
  BY DEF IInv, TrailExplainsRecords
<1>. QED BY <1>1, <1>2, <1>3, <1>4 DEF IInv

LEMMA IInvStep ==
  ASSUME IInv, [Next]_vars
  PROVE  IInv'
<1>0. TypeOK'
  BY TypeStep DEF IInv
<1>00. job \in [Threads -> Jobs] /\ job' \in [Threads -> Jobs]
  BY <1>0 DEF IInv, TypeOK
<1>1. ASSUME NEW t \in Threads, NEW i \in Ids, Get(t, i)
      PROVE  IInv'
  BY <1>0, <1>1 DEF Get, IInv, OneWriter, EntriesWellFormed, EntryForm, WorkingExplained,
                    InWrite, TrailExplainsRecords
<1>2. ASSUME NEW t \in Threads, NEW kind \in Kinds, AcquireLock(t, kind)
      PROVE  IInv'
  <2>1. /\ job[t].stage = "idle" /\ job'[t].stage = "locked" /\ job'[t].entry = BlankEntry
        /\ \A s \in Threads \ {t} : job'[s] = job[s]
    BY <1>00, <1>2 DEF AcquireLock, IdleJob
  <2>. QED BY <1>0, <1>2, <2>1, OutsideStep DEF AcquireLock, InWrite, EntryForm
<1>3. ASSUME NEW t \in Threads, BeginImmediate(t)
      PROVE  IInv'
  <2>1. /\ job[t].stage = "locked" /\ job'[t].stage = "open" /\ job'[t].entry = job[t].entry
        /\ \A s \in Threads \ {t} : job'[s] = job[s]
    BY <1>00, <1>3 DEF BeginImmediate, Jobs
  <2>2. \A s \in Threads : ~InWrite(s)
    BY <1>3, ThreadAssumption DEF BeginImmediate, IInv, OneWriter
  <2>3. job[t].entry = BlankEntry
    BY <2>1 DEF IInv, EntriesWellFormed, EntryForm
  <2>4. OneWriter'
    BY <1>3, <2>1, <2>2 DEF BeginImmediate, OneWriter, InWrite
  <2>5. EntriesWellFormed'
    BY <2>1, <2>3 DEF IInv, EntriesWellFormed, EntryForm
  <2>6. TrailExplainsRecords'
    BY <1>3 DEF BeginImmediate, IInv, TrailExplainsRecords
  <2>7. PendingExplained(BlankEntry, working')
    BY <1>3, NothingPending DEF BeginImmediate, IInv, TrailExplainsRecords
  <2>8. WorkingExplained'
    BY <2>1, <2>2, <2>3, <2>7 DEF WorkingExplained, InWrite
  <2>. QED BY <1>0, <2>4, <2>5, <2>6, <2>8 DEF IInv
<1>4. ASSUME NEW t \in Threads, BusyTimeout(t)
      PROVE  IInv'
  <2>1. /\ job[t].stage = "locked" /\ job'[t].stage = "idle"
        /\ \A s \in Threads \ {t} : job'[s] = job[s]
    BY <1>00, <1>4 DEF BusyTimeout, IdleJob
  <2>. QED BY <1>0, <1>4, <2>1, OutsideStep DEF BusyTimeout, InWrite, EntryForm
<1>5. ASSUME NEW t \in Threads, Rollback(t)
      PROVE  IInv'
  <2>1. /\ InWrite(t) /\ job'[t].stage = "idle"
        /\ \A s \in Threads \ {t} : job'[s] = job[s]
    BY <1>00, <1>5 DEF Rollback, IdleJob, InWrite
  <2>2. \A s \in Threads : ~InWrite(s)'
    BY <2>1 DEF IInv, OneWriter, InWrite
  <2>3. EntriesWellFormed'
    BY <2>1 DEF IInv, EntriesWellFormed, EntryForm
  <2>. QED BY <1>0, <1>5, <2>2, <2>3, ThreadAssumption
       DEF Rollback, IInv, OneWriter, WorkingExplained, TrailExplainsRecords
<1>6. ASSUME NEW t \in Threads, Commit(t)
      PROVE  IInv'
  <2>1. /\ InWrite(t) /\ job'[t].stage = "mirroring" /\ job[t].stage \in {"open", "audited"}
        /\ \A s \in Threads \ {t} : job'[s] = job[s]
    BY <1>00, <1>6 DEF Commit, CanCommit, Jobs, InWrite
  <2>2. \A s \in Threads : ~InWrite(s)'
    BY <2>1 DEF IInv, OneWriter, InWrite
  <2>3. EntriesWellFormed'
    BY <2>1 DEF IInv, EntriesWellFormed, EntryForm
  <2>4. PendingExplained(BlankEntry, working)
    BY <2>1 DEF IInv, EntriesWellFormed, EntryForm, WorkingExplained
  <2>5. TrailExplainsRecords'
    BY <1>6, <2>4, NothingPending DEF Commit, TrailExplainsRecords
  <2>. QED BY <1>0, <1>6, <2>2, <2>3, <2>5, ThreadAssumption
       DEF Commit, IInv, OneWriter, WorkingExplained
<1>7. ASSUME NEW t \in Threads, Statement(t)
      PROVE  IInv'
  BY <1>0, <1>7, IInvStatement
<1>8. ASSUME NEW t \in Threads, Reindex(t)
      PROVE  IInv'
  <2>1. /\ InWrite(t) /\ writer = t
        /\ job'[t].stage = "indexed" /\ job'[t].entry = job[t].entry
        /\ \A s \in Threads \ {t} : job'[s] = job[s]
    BY <1>00, <1>8 DEF Reindex, Jobs, InWrite, IInv, OneWriter
  <2>2. working'.records = working.records /\ working'.audit_log = working.audit_log
    BY <1>8 DEF Reindex, IInv, TypeOK, Databases
  <2>3. PendingExplained(job[t].entry, working')
    BY <2>1, <2>2 DEF IInv, WorkingExplained, PendingExplained
  <2>4. InWrite(t)' /\ EntryForm(t)'
    BY <2>1 DEF InWrite, EntryForm
  <2>5. PendingExplained(job[t].entry, working)'
    BY <2>1, <2>3
  <2>6. writer' = writer /\ durable' = durable
    BY <1>8 DEF Reindex
  <2>. QED BY <1>0, <2>1, <2>4, <2>5, <2>6, WriterStep
<1>9. ASSUME NEW t \in Threads, Audit(t)
      PROVE  IInv'
  <2>1. /\ InWrite(t) /\ writer = t /\ job[t].entry \in Entries
        /\ job'[t].stage = "audited" /\ job'[t].entry = BlankEntry
        /\ \A s \in Threads \ {t} : job'[s] = job[s]
    BY <1>00, <1>9 DEF Audit, Jobs, InWrite, IInv, OneWriter
  <2>2. /\ working'.records = working.records
        /\ working'.audit_log = Append(working.audit_log, job[t].entry)
        /\ working.audit_log \in Seq(Entries)
    BY <1>9 DEF Audit, IInv, TypeOK, Databases
  <2>3. PendingExplained(job[t].entry, working)
    BY <2>1 DEF IInv, WorkingExplained
  <2>4. \A i \in Ids : ExplainedAt(working'.audit_log, i, working'.records[i])
    BY <2>1, <2>2, <2>3, AuditExplains DEF PendingExplained
  <2>5. PendingExplained(job[t].entry, working)'
    BY <2>1, <2>4, NothingPending
  <2>6. InWrite(t)' /\ EntryForm(t)'
    BY <2>1 DEF InWrite, EntryForm
  <2>7. writer' = writer /\ durable' = durable
    BY <1>9 DEF Audit
  <2>. QED BY <1>0, <2>1, <2>5, <2>6, <2>7, WriterStep
<1>10. ASSUME NEW t \in Threads, WriteMirror(t) \/ LoseMirror(t) \/ Return(t)
       PROVE  IInv'
  <2>1. /\ job[t].stage = "mirroring" /\ job'[t].stage \in {"mirroring", "idle"}
        /\ \A s \in Threads \ {t} : job'[s] = job[s]
    BY <1>00, <1>10 DEF WriteMirror, LoseMirror, Return, IdleJob, Jobs
  <2>2. writer' = writer /\ durable' = durable /\ working' = working
    BY <1>10 DEF WriteMirror, LoseMirror, Return
  <2>. QED BY <1>0, <2>1, <2>2, OutsideStep DEF InWrite, EntryForm
<1>11. ASSUME NEW c \in Conns, Crash(c)
       PROVE  IInv'
  <2>. DEFINE mine == {t \in Threads : ConnOf[t] = c}
  <2>1. \A s \in Threads : job'[s] = IF s \in mine THEN IdleJob ELSE job[s]
    BY <1>11 DEF Crash
  <2>2. writer' = IF writer \in mine THEN NoThread ELSE writer
    BY <1>11 DEF Crash
  <2>3. OneWriter'
    BY <2>1, <2>2, ThreadAssumption DEF IInv, OneWriter, InWrite, IdleJob
  <2>4. EntriesWellFormed'
    BY <2>1 DEF IInv, EntriesWellFormed, EntryForm, IdleJob
  <2>5. TrailExplainsRecords'
    BY <1>11 DEF Crash, IInv, TrailExplainsRecords
  <2>6. WorkingExplained'
    <3>1. SUFFICES ASSUME NEW s \in Threads, InWrite(s)'
                   PROVE  PendingExplained(job'[s].entry, working')
      BY DEF WorkingExplained
    <3>2. s \notin mine /\ job'[s] = job[s] /\ InWrite(s)
      BY <2>1, <3>1 DEF InWrite, IdleJob
    <3>3. writer = s /\ working' = working
      BY <1>11, <3>2 DEF Crash, IInv, OneWriter
    <3>. QED BY <3>2, <3>3 DEF IInv, WorkingExplained
  <2>. QED BY <1>0, <2>3, <2>4, <2>5, <2>6 DEF IInv
<1>12. CASE UNCHANGED vars
  BY <1>0, <1>12 DEF vars, IInv, OneWriter, EntriesWellFormed, EntryForm, WorkingExplained,
                     InWrite, TrailExplainsRecords
<1>. QED BY <1>1, <1>2, <1>3, <1>4, <1>5, <1>6, <1>7, <1>8, <1>9, <1>10, <1>11, <1>12
     DEF Next

(* In every reachable state, for any number of processes, threads and       *)
(* records and whatever crashes and exceptions interrupt the writes, each   *)
(* committed record is exactly what the newest committed audit row about it *)
(* says.                                                                    *)
THEOREM TrailCorrect == Spec => []TrailExplainsRecords
<1>1. Spec => []IInv
  BY IInvInit, IInvStep, PTL DEF Spec
<1>2. IInv => TrailExplainsRecords
  BY DEF IInv
<1>. QED BY <1>1, <1>2, PTL

-----------------------------------------------------------------------------
(***************************************************************************)
(* AuditedDatabase implements AuditedHistory: a committed transaction is   *)
(* one indivisible step of the atomic history, and nothing else moves it.  *)
(*                                                                         *)
(* A commit is atomic although its statements were not, so the proof       *)
(* carries through the statements of the open transaction what the commit  *)
(* will show: how `working` grew out of `durable`.                         *)
(***************************************************************************)

(* The uncommitted trail continues the committed one. *)
TrailContinues(old, new) ==
  /\ Len(old.audit_log) <= Len(new.audit_log)
  /\ \A n \in 1..Len(old.audit_log) : new.audit_log[n] = old.audit_log[n]

(* Positions of the uncommitted entries about id i. *)
NewOf(old, new, i) == {n \in About(new.audit_log, i) : Len(old.audit_log) < n}

(* What the open transaction, with the audit row e in preparation, did to   *)
(* id i: nothing if no entry names it; otherwise the first entry that names *)
(* it kept the payload readers still find there.                            *)
ChangeTold(old, new, e, i) ==
  /\ NewOf(old, new, i) = {} /\ i \notin e.ids => new.records[i] = old.records[i]
  /\ NewOf(old, new, i) = {} /\ i \in e.ids /\ old.records[i].state = "live" =>
       e.before[i] = old.records[i].data
  /\ \A n \in NewOf(old, new, i) :
       (\A m \in NewOf(old, new, i) : n <= m) /\ old.records[i].state = "live" =>
         new.audit_log[n].before[i] = old.records[i].data

(* The rows a bulk hard delete took so far are gone: none is taken twice. *)
TakenOnce(j, new) ==
  j.kind = "bulk_hard_delete" => \A i \in j.entry.ids : new.records[i].state = "absent"

Unfolds(j, old, new) ==
  /\ TrailContinues(old, new)
  /\ \A i \in Ids : ChangeTold(old, new, j.entry, i)
  /\ TakenOnce(j, new)

WorkingUnfolds == \A t \in Threads : InWrite(t) => Unfolds(job[t], durable, working)

RInv == IInv /\ WorkingUnfolds

-----------------------------------------------------------------------------
(* How the pieces move. *)

LEMMA NothingYet ==
  ASSUME NEW db \in Databases
  PROVE  TrailContinues(db, db) /\ \A i \in Ids : ChangeTold(db, db, BlankEntry, i)
<1>1. Len(db.audit_log) \in Nat
  BY DEF Databases
<1>2. \A i \in Ids : NewOf(db, db, i) = {}
  BY <1>1 DEF NewOf, About
<1>. QED BY <1>1, <1>2 DEF TrailContinues, ChangeTold, BlankEntry

(* A statement on row i, covered by the entry e2 that replaces e. *)
LEMMA StatementUnfolds ==
  ASSUME NEW old \in Databases, NEW db \in Databases, NEW next \in Databases,
         NEW i \in Ids, NEW e \in Entries, NEW e2 \in Entries,
         TrailContinues(old, db), \A j \in Ids : ChangeTold(old, db, e, j),
         next.audit_log = db.audit_log,
         \A j \in Ids \ {i} : next.records[j] = db.records[j],
         e2.ids = e.ids \cup {i}, i \notin e.ids,
         \A j \in e.ids : e2.before[j] = e.before[j],
         db.records[i].state = "live" => e2.before[i] = db.records[i].data
  PROVE  TrailContinues(old, next) /\ \A j \in Ids : ChangeTold(old, next, e2, j)
<1>1. TrailContinues(old, next)
  BY DEF TrailContinues
<1>2. \A j \in Ids : NewOf(old, next, j) = NewOf(old, db, j)
  BY DEF NewOf, About
<1>3. ASSUME NEW j \in Ids \ {i}
      PROVE  ChangeTold(old, next, e2, j)
  BY <1>2, <1>3 DEF ChangeTold
<1>4. ChangeTold(old, next, e2, i)
  BY <1>2 DEF ChangeTold
<1>. QED BY <1>1, <1>3, <1>4

(* Appending the prepared audit row leaves none in preparation. *)
LEMMA AuditUnfolds ==
  ASSUME NEW old \in Databases, NEW db \in Databases, NEW next \in Databases,
         NEW e \in Entries,
         TrailContinues(old, db), \A j \in Ids : ChangeTold(old, db, e, j),
         next.records = db.records,
         next.audit_log = Append(db.audit_log, e)
  PROVE  TrailContinues(old, next) /\ \A j \in Ids : ChangeTold(old, next, BlankEntry, j)
<1>. DEFINE last == Len(db.audit_log) + 1
<1>1. /\ Len(db.audit_log) \in Nat /\ Len(old.audit_log) \in Nat
      /\ Len(next.audit_log) = last
      /\ \A n \in 1..Len(db.audit_log) : next.audit_log[n] = db.audit_log[n]
      /\ next.audit_log[last] = e
  BY AppendProperties DEF Databases
<1>2. TrailContinues(old, next)
  BY <1>1 DEF TrailContinues
<1>3. Len(old.audit_log) < last
  BY <1>1 DEF TrailContinues
<1>4. ASSUME NEW j \in Ids
      PROVE  ChangeTold(old, next, BlankEntry, j)
  <2>. DEFINE before == NewOf(old, db, j)
              now == NewOf(old, next, j)
  <2>0. ChangeTold(old, db, e, j) /\ BlankEntry.ids = {}
    BY DEF BlankEntry
  <2>1. before \subseteq 1..Len(db.audit_log)
    BY DEF NewOf, About
  <2>2. CASE j \notin e.ids
    <3>1. now = before
      BY <1>1, <2>2 DEF NewOf, About
    <3>2. \A n \in before : next.audit_log[n] = db.audit_log[n]
      BY <1>1, <2>1
    <3>. QED BY <2>0, <2>2, <3>1, <3>2 DEF ChangeTold
  <2>3. CASE j \in e.ids
    <3>1. now = before \cup {last}
      BY <1>1, <1>3, <2>3 DEF NewOf, About
    <3>2. ASSUME NEW n \in now, \A m \in now : n <= m, old.records[j].state = "live"
          PROVE  next.audit_log[n].before[j] = old.records[j].data
      <4>1. CASE before = {}
        BY <1>1, <2>0, <2>3, <3>1, <3>2, <4>1 DEF ChangeTold
      <4>2. CASE before # {}
        <5>1. n \in before
          BY <1>1, <2>1, <3>1, <3>2, <4>2
        <5>2. \A m \in before : n <= m
          BY <3>1, <3>2
        <5>3. next.audit_log[n] = db.audit_log[n]
          BY <1>1, <2>1, <5>1
        <5>. QED BY <2>0, <3>2, <5>1, <5>2, <5>3 DEF ChangeTold
      <4>. QED BY <4>1, <4>2
    <3>. QED BY <2>0, <3>1, <3>2 DEF ChangeTold
  <2>. QED BY <2>2, <2>3
<1>. QED BY <1>2, <1>4

-----------------------------------------------------------------------------
(* The invariant. *)

LEMMA RInvInit == Init => RInv
BY IInvInit, ThreadAssumption DEF RInv, Init, WorkingUnfolds, InWrite, IdleJob

(* What a step must show when thread t is the writer after it. *)
LEMMA WriterUnfolds ==
  ASSUME RInv, IInv', NEW t \in Threads, writer' = t, Unfolds(job[t], durable, working)'
  PROVE  RInv'
<1>1. \A s \in Threads : InWrite(s)' => s = t
  BY DEF IInv, OneWriter
<1>. QED BY <1>1 DEF RInv, WorkingUnfolds

(* A step after which a thread that writes was writing before, with nothing *)
(* it depends on changed.                                                   *)
LEMMA UnfoldsElsewhere ==
  ASSUME RInv, IInv',
         \A s \in Threads : InWrite(s)' => /\ InWrite(s) /\ job'[s] = job[s]
                                           /\ durable' = durable /\ working' = working
  PROVE  RInv'
<1>1. SUFFICES ASSUME NEW s \in Threads, InWrite(s)'
               PROVE  Unfolds(job'[s], durable', working')
  BY DEF RInv, WorkingUnfolds
<1>. QED BY <1>1 DEF RInv, WorkingUnfolds

(* The statement of a single-record write. *)
LEMMA SingleUnfolds ==
  ASSUME RInv, IInv', NEW t \in Threads, ReadyToWrite(t),
         NEW i \in Ids, NEW e \in Entries, e.ids = {i},
         writer' = writer, durable' = durable,
         job'[t].entry = e, job'[t].kind = job[t].kind,
         working'.audit_log = working.audit_log,
         \A j \in Ids \ {i} : working'.records[j] = working.records[j],
         working.records[i].state = "live" => e.before[i] = working.records[i].data
  PROVE  RInv'
<1>1. InWrite(t) /\ job[t].entry = BlankEntry /\ job[t].kind # "bulk_hard_delete"
  BY DEF ReadyToWrite, InWrite, RInv, IInv, EntriesWellFormed, EntryForm
<1>2. writer = t /\ Unfolds(job[t], durable, working)
  BY <1>1 DEF RInv, IInv, OneWriter, WorkingUnfolds
<1>3. durable \in Databases /\ working \in Databases /\ working' \in Databases
  BY DEF RInv, IInv, TypeOK
<1>4. BlankEntry \in Entries /\ BlankEntry.ids = {}
  BY PayloadTypes DEF BlankEntry
<1>5. TrailContinues(durable, working') /\ \A j \in Ids : ChangeTold(durable, working', e, j)
  BY <1>1, <1>2, <1>3, <1>4, StatementUnfolds DEF Unfolds
<1>6. Unfolds(job'[t], durable', working')
  BY <1>1, <1>5 DEF Unfolds, TakenOnce
<1>. QED BY <1>2, <1>6, WriterUnfolds

LEMMA StatedUnfolds ==
  ASSUME RInv, IInv', NEW t \in Threads, ReadyToWrite(t),
         NEW i \in Ids, NEW row, NEW e \in Entries, e.ids = {i}, NEW checked, NEW next,
         working.records[i].state = "live" => e.before[i] = working.records[i].data,
         Stated(t, i, row, e, checked, next)
  PROVE  RInv'
<1>1. /\ working'.audit_log = working.audit_log
      /\ working'.records = [working.records EXCEPT ![i] = row]
      /\ working.records \in [Ids -> Rows]
  BY DEF Stated, RInv, IInv, TypeOK, Databases
<1>2. job'[t].entry = e /\ job'[t].kind = job[t].kind
  BY DEF Stated, RInv, IInv, TypeOK, Jobs
<1>3. durable' = durable /\ writer' = writer
  BY DEF Stated
<1>. QED BY <1>1, <1>2, <1>3, SingleUnfolds

(* What a single-record entry says it found. *)
LEMMA BeforeOfStatement ==
  ASSUME NEW i \in Ids, NEW before \in Payloads \cup {Null}, NEW after \in Payloads \cup {Null},
         NEW action \in {"insert", "update", "delete", "restore"}
  PROVE  /\ Entry(action, i, before, after) \in Entries
         /\ Entry(action, i, before, after).ids = {i}
         /\ Entry(action, i, before, after).before[i] = before
BY EntryType DEF Entry, Only, NoPayloads

LEMMA RInvStatement ==
  ASSUME RInv, IInv', NEW t \in Threads, Statement(t)
  PROVE  RInv'
<1>0. /\ \A i \in Ids : working.records[i] \in Rows
      /\ \A i \in Ids : working.records[i].data \in Payloads
      /\ durable \in Databases /\ working \in Databases /\ working' \in Databases
      /\ job \in [Threads -> Jobs] /\ job' \in [Threads -> Jobs]
  BY DEF TypeOK, Databases, RInv, IInv, Rows
<1>1. ASSUME NEW i \in Ids, NEW p \in Payloads, InsertRow(t, i, p)
      PROVE  RInv'
  <2>. DEFINE e == Entry("insert", i, Null, p)
  <2>1. /\ ReadyToWrite(t) /\ working.records[i].state = "absent"
        /\ Stated(t, i, FreshRow(p), e, FALSE, "stated")
    BY <1>1 DEF InsertRow
  <2>2. e \in Entries /\ e.ids = {i}
    BY EntryType DEF Entry
  <2>. HIDE DEF e
  <2>. QED BY <2>1, <2>2, StatedUnfolds
<1>2. ASSUME NEW i \in Ids, NEW p \in Payloads, NEW checked \in BOOLEAN,
             Update(t, i, p, checked)
      PROVE  RInv'
  <2>. DEFINE row == working.records[i]
              merged == Merged(row.data, p)
              e == Entry("update", i, row.data, merged)
  <2>1. merged \in Payloads
    BY <1>0, MergedType
  <2>2. ReadyToWrite(t) /\ Stated(t, i, Touched(row, "live", merged), e, checked, "stated")
    BY <1>2 DEF Update
  <2>3. e \in Entries /\ e.ids = {i} /\ e.before[i] = row.data
    BY <1>0, <2>1, BeforeOfStatement
  <2>. HIDE DEF e, merged
  <2>. QED BY <2>2, <2>3, StatedUnfolds
<1>3. ASSUME NEW i \in Ids, SoftDelete(t, i)
      PROVE  RInv'
  <2>. DEFINE row == working.records[i]
              e == Entry("delete", i, row.data, Null)
  <2>1. ReadyToWrite(t) /\ Stated(t, i, Touched(row, "deleted", row.data), e, FALSE, "indexed")
    BY <1>3 DEF SoftDelete
  <2>2. e \in Entries /\ e.ids = {i} /\ e.before[i] = row.data
    BY <1>0, BeforeOfStatement
  <2>. HIDE DEF e
  <2>. QED BY <2>1, <2>2, StatedUnfolds
<1>4. ASSUME NEW i \in Ids, HardDelete(t, i)
      PROVE  RInv'
  <2>. DEFINE e == Entry("delete", i, working.records[i].data, Null)
  <2>1. e \in Entries /\ e.ids = {i} /\ e.before[i] = working.records[i].data
    BY <1>0, BeforeOfStatement
  <2>2. /\ working'.audit_log = working.audit_log
        /\ \A j \in Ids \ {i} : working'.records[j] = working.records[j]
    BY <1>0, <1>4 DEF HardDelete, Databases
  <2>3. job'[t].entry = e /\ job'[t].kind = job[t].kind
    BY <1>0, <1>4 DEF HardDelete, Jobs
  <2>4. ReadyToWrite(t) /\ writer' = writer /\ durable' = durable
    BY <1>4 DEF HardDelete
  <2>. HIDE DEF e
  <2>. QED BY <2>1, <2>2, <2>3, <2>4, SingleUnfolds
<1>5. ASSUME NEW i \in Ids, RestoreRow(t, i)
      PROVE  RInv'
  <2>. DEFINE row == working.records[i]
              e == Entry("restore", i, Null, row.data)
  <2>1. /\ ReadyToWrite(t) /\ row.state = "deleted"
        /\ Stated(t, i, Touched(row, "live", row.data), e, FALSE, "stated")
    BY <1>5 DEF RestoreRow
  <2>2. e \in Entries /\ e.ids = {i}
    BY <1>0, EntryType DEF Entry
  <2>. HIDE DEF e
  <2>. QED BY <2>1, <2>2, StatedUnfolds
<1>6. ASSUME NEW i \in Ids, NEW p \in Payloads, BulkInsert(t, i, p)
      PROVE  RInv'
  <2>. DEFINE e == job[t].entry
              e2 == [e EXCEPT !.ids = @ \cup {i}]
  <2>1. InWrite(t) /\ writer = t /\ e \in Entries /\ Unfolds(job[t], durable, working)
    BY <1>0, <1>6 DEF BulkInsert, BulkReady, InWrite, RInv, IInv, OneWriter, WorkingUnfolds, Jobs
  <2>2. /\ job'[t].entry = e2 /\ job'[t].kind = "bulk_create"
        /\ i \notin e.ids /\ working.records[i].state = "absent"
    BY <1>0, <1>6 DEF BulkInsert, BulkReady, NeverUsed, Jobs
  <2>3. e2 \in Entries /\ e2.ids = e.ids \cup {i} /\ e2.before = e.before
    BY <2>1 DEF Entries
  <2>4. /\ working'.audit_log = working.audit_log
        /\ \A j \in Ids \ {i} : working'.records[j] = working.records[j]
    BY <1>0, <1>6 DEF BulkInsert, Databases
  <2>5. writer' = writer /\ durable' = durable
    BY <1>6 DEF BulkInsert
  <2>6. TrailContinues(durable, working') /\ \A j \in Ids : ChangeTold(durable, working', e2, j)
    <3>. HIDE DEF e, e2
    <3>1. TrailContinues(durable, working) /\ \A j \in Ids : ChangeTold(durable, working, e, j)
      BY <2>1 DEF Unfolds, e
    <3>. QED BY <1>0, <2>1, <2>2, <2>3, <2>4, <3>1, StatementUnfolds
  <2>7. Unfolds(job'[t], durable', working')
    BY <2>2, <2>5, <2>6 DEF Unfolds, TakenOnce
  <2>. QED BY <2>1, <2>5, <2>7, WriterUnfolds
<1>7. ASSUME NEW i \in Ids, BulkSoftDelete(t, i) \/ BulkHardDelete(t, i)
      PROVE  RInv'
  <2>. DEFINE e == job[t].entry
              e2 == [action |-> "delete", ids |-> e.ids \cup {i},
                     before |-> [e.before EXCEPT ![i] = working.records[i].data],
                     after |-> NoPayloads]
  <2>1. InWrite(t) /\ writer = t /\ e \in Entries /\ Unfolds(job[t], durable, working)
    BY <1>0, <1>7 DEF BulkSoftDelete, BulkHardDelete, BulkReady, InWrite, RInv, IInv,
                      OneWriter, WorkingUnfolds, Jobs
  <2>2. e.ids = {} \/ e.action = "delete"
    BY <1>7 DEF BulkSoftDelete, BulkHardDelete, BulkReady, RInv, IInv, EntriesWellFormed,
                EntryForm, BlankEntry
  <2>3. job'[t].entry = e2 /\ job'[t].kind = job[t].kind
    BY <1>0, <1>7 DEF BulkSoftDelete, BulkHardDelete, BulkReady, Remove, Jobs
  <2>4. e2 \in Entries
    BY <1>0, <2>1, PayloadTypes DEF Entries
  <2>5. /\ working'.audit_log = working.audit_log
        /\ \A j \in Ids \ {i} : working'.records[j] = working.records[j]
        /\ job[t].kind = "bulk_hard_delete" => working'.records[i].state = "absent"
    <3>1. CASE BulkSoftDelete(t, i)
      BY <1>0, <3>1 DEF BulkSoftDelete, BulkReady, Databases
    <3>2. CASE BulkHardDelete(t, i)
      BY <1>0, <3>2 DEF BulkHardDelete, Databases, AbsentRow
    <3>. QED BY <1>7, <3>1, <3>2
  <2>6. i \notin e.ids
    <3>1. CASE BulkSoftDelete(t, i)
      <4>1. working.records[i].state = "live" /\ PendingExplained(e, working)
        BY <2>1, <3>1 DEF BulkSoftDelete, RInv, IInv, WorkingExplained
      <4>. QED BY <2>2, <4>1 DEF PendingExplained, EntryExplains
    <3>2. CASE BulkHardDelete(t, i)
      BY <2>1, <3>2 DEF BulkHardDelete, BulkReady, Unfolds, TakenOnce
    <3>. QED BY <1>7, <3>1, <3>2
  <2>7. e2.before[i] = working.records[i].data /\ \A j \in e.ids : e2.before[j] = e.before[j]
    BY <2>1, <2>6 DEF Entries
  <2>8. writer' = writer /\ durable' = durable
    BY <1>7 DEF BulkSoftDelete, BulkHardDelete, Remove
  <2>9. TrailContinues(durable, working') /\ \A j \in Ids : ChangeTold(durable, working', e2, j)
    <3>0. e2.ids = e.ids \cup {i}
      OBVIOUS
    <3>. HIDE DEF e, e2
    <3>1. TrailContinues(durable, working) /\ \A j \in Ids : ChangeTold(durable, working, e, j)
      BY <2>1 DEF Unfolds, e
    <3>. QED BY <1>0, <2>1, <2>4, <2>5, <2>6, <2>7, <3>0, <3>1, StatementUnfolds
  <2>10. TakenOnce(job'[t], working')
    <3>1. SUFFICES ASSUME job[t].kind = "bulk_hard_delete", NEW j \in e.ids \cup {i}
                   PROVE  working'.records[j].state = "absent"
      BY <2>3 DEF TakenOnce
    <3>2. CASE j = i
      BY <2>5, <3>1, <3>2
    <3>3. CASE j # i
      BY <2>1, <2>5, <3>1, <3>3 DEF Unfolds, TakenOnce, Entries
    <3>. QED BY <3>2, <3>3
  <2>11. Unfolds(job'[t], durable', working')
    BY <2>3, <2>8, <2>9, <2>10 DEF Unfolds
  <2>. QED BY <2>1, <2>8, <2>11, WriterUnfolds
<1>. QED BY <1>1, <1>2, <1>3, <1>4, <1>5, <1>6, <1>7
     DEF Statement, UpdateRow, UpdateExpecting

LEMMA RInvStep ==
  ASSUME RInv, [Next]_vars
  PROVE  RInv'
<1>0. IInv'
  BY IInvStep DEF RInv
<1>00. /\ job \in [Threads -> Jobs] /\ job' \in [Threads -> Jobs]
       /\ durable \in Databases /\ working \in Databases /\ working' \in Databases
  BY <1>0 DEF RInv, IInv, TypeOK
<1>1. ASSUME NEW t \in Threads, NEW i \in Ids, Get(t, i)
      PROVE  RInv'
  BY <1>0, <1>1, UnfoldsElsewhere DEF Get, InWrite
<1>2. ASSUME NEW t \in Threads, NEW kind \in Kinds, AcquireLock(t, kind)
      PROVE  RInv'
  <2>1. /\ job'[t].stage = "locked"
        /\ \A s \in Threads \ {t} : job'[s] = job[s]
    BY <1>00, <1>2 DEF AcquireLock, IdleJob
  <2>. QED BY <1>0, <1>2, <2>1, UnfoldsElsewhere DEF AcquireLock, InWrite
<1>3. ASSUME NEW t \in Threads, BeginImmediate(t)
      PROVE  RInv'
  <2>1. job[t].stage = "locked" /\ job'[t].entry = job[t].entry
    BY <1>00, <1>3 DEF BeginImmediate, Jobs
  <2>2. job'[t].entry = BlankEntry
    BY <2>1 DEF RInv, IInv, EntriesWellFormed, EntryForm
  <2>3. durable' = durable /\ working' = durable /\ writer' = t
    BY <1>3 DEF BeginImmediate
  <2>4. TakenOnce(job'[t], working')
    BY <2>2 DEF TakenOnce, BlankEntry
  <2>5. Unfolds(job'[t], durable', working')
    BY <1>00, <2>2, <2>3, <2>4, NothingYet DEF Unfolds
  <2>. QED BY <1>0, <2>3, <2>5, WriterUnfolds
<1>4. ASSUME NEW t \in Threads, BusyTimeout(t) \/ Return(t)
      PROVE  RInv'
  <2>1. /\ job'[t].stage = "idle"
        /\ \A s \in Threads \ {t} : job'[s] = job[s]
    BY <1>00, <1>4 DEF BusyTimeout, Return, IdleJob
  <2>. QED BY <1>0, <1>4, <2>1, UnfoldsElsewhere DEF BusyTimeout, Return, InWrite
<1>5. ASSUME NEW t \in Threads, Rollback(t) \/ Commit(t)
      PROVE  RInv'
  <2>1. /\ InWrite(t) /\ ~InWrite(t)'
        /\ \A s \in Threads \ {t} : job'[s] = job[s]
    BY <1>00, <1>5 DEF Rollback, Commit, CanCommit, IdleJob, InWrite, Jobs
  <2>2. \A s \in Threads : ~InWrite(s)'
    BY <2>1 DEF RInv, IInv, OneWriter, InWrite
  <2>. QED BY <1>0, <2>2, UnfoldsElsewhere
<1>6. ASSUME NEW t \in Threads, Statement(t)
      PROVE  RInv'
  BY <1>0, <1>6, RInvStatement
<1>7. ASSUME NEW t \in Threads, Reindex(t)
      PROVE  RInv'
  <2>1. /\ InWrite(t) /\ writer = t /\ Unfolds(job[t], durable, working)
        /\ job'[t].entry = job[t].entry /\ job'[t].kind = job[t].kind
    BY <1>00, <1>7 DEF Reindex, Jobs, InWrite, RInv, IInv, OneWriter, WorkingUnfolds
  <2>2. working'.records = working.records /\ working'.audit_log = working.audit_log
    BY <1>00, <1>7 DEF Reindex, Databases
  <2>3. writer' = writer /\ durable' = durable
    BY <1>7 DEF Reindex
  <2>4. Unfolds(job'[t], durable', working')
    BY <2>1, <2>2, <2>3 DEF Unfolds, TakenOnce, TrailContinues, ChangeTold, NewOf, About
  <2>. QED BY <1>0, <2>1, <2>3, <2>4, WriterUnfolds
<1>8. ASSUME NEW t \in Threads, Audit(t)
      PROVE  RInv'
  <2>1. /\ InWrite(t) /\ writer = t /\ Unfolds(job[t], durable, working)
        /\ job[t].entry \in Entries /\ job'[t].entry = BlankEntry
    BY <1>00, <1>8 DEF Audit, Jobs, InWrite, RInv, IInv, OneWriter, WorkingUnfolds
  <2>2. /\ working'.records = working.records
        /\ working'.audit_log = Append(working.audit_log, job[t].entry)
    BY <1>00, <1>8 DEF Audit, Databases
  <2>3. writer' = writer /\ durable' = durable
    BY <1>8 DEF Audit
  <2>4. /\ TrailContinues(durable, working')
        /\ \A j \in Ids : ChangeTold(durable, working', BlankEntry, j)
    BY <1>00, <2>1, <2>2, AuditUnfolds DEF Unfolds
  <2>5. TakenOnce(job'[t], working')
    BY <2>1 DEF TakenOnce, BlankEntry
  <2>6. Unfolds(job'[t], durable', working')
    BY <2>1, <2>3, <2>4, <2>5 DEF Unfolds
  <2>. QED BY <1>0, <2>1, <2>3, <2>6, WriterUnfolds
<1>9. ASSUME NEW t \in Threads, WriteMirror(t) \/ LoseMirror(t)
      PROVE  RInv'
  <2>1. /\ job[t].stage = "mirroring" /\ job'[t].stage = "mirroring"
        /\ \A s \in Threads \ {t} : job'[s] = job[s]
    BY <1>00, <1>9 DEF WriteMirror, LoseMirror, Jobs
  <2>. QED BY <1>0, <1>9, <2>1, UnfoldsElsewhere DEF WriteMirror, LoseMirror, InWrite
<1>10. ASSUME NEW c \in Conns, Crash(c)
       PROVE  RInv'
  <2>. DEFINE mine == {t \in Threads : ConnOf[t] = c}
  <2>1. \A s \in Threads : job'[s] = IF s \in mine THEN IdleJob ELSE job[s]
    BY <1>10 DEF Crash
  <2>2. ASSUME NEW s \in Threads, InWrite(s)'
        PROVE  InWrite(s) /\ job'[s] = job[s] /\ durable' = durable /\ working' = working
    <3>1. s \notin mine /\ job'[s] = job[s] /\ InWrite(s)
      BY <2>1, <2>2 DEF InWrite, IdleJob
    <3>2. writer = s
      BY <3>1 DEF RInv, IInv, OneWriter
    <3>. QED BY <1>10, <3>1, <3>2 DEF Crash
  <2>. QED BY <1>0, <2>2, UnfoldsElsewhere
<1>11. CASE UNCHANGED vars
  BY <1>0, <1>11, UnfoldsElsewhere DEF vars, InWrite
<1>. QED BY <1>1, <1>2, <1>3, <1>4, <1>5, <1>6, <1>7, <1>8, <1>9, <1>10, <1>11 DEF Next

-----------------------------------------------------------------------------
(* The refinement. *)

(* A commit is one step of the history, or changes nothing readers see. *)
LEMMA CommitIsHistory ==
  ASSUME RInv, NEW t \in Threads, Commit(t)
  PROVE  [History!CommitChange]_(History!hvars)
<1>1. /\ InWrite(t) /\ job[t].entry = BlankEntry
      /\ durable' = working
  BY DEF Commit, CanCommit, InWrite, RInv, IInv, EntriesWellFormed, EntryForm
<1>2. /\ durable \in Databases /\ working \in Databases
      /\ TrailContinues(durable, working)
      /\ \A i \in Ids : ChangeTold(durable, working, BlankEntry, i)
      /\ \A i \in Ids : ExplainedAt(working.audit_log, i, working.records[i])
  BY <1>1, NothingPending DEF RInv, IInv, TypeOK, WorkingExplained, WorkingUnfolds, Unfolds
<1>3. /\ Len(durable.audit_log) \in Nat /\ Len(working.audit_log) \in Nat
      /\ \A i \in Ids : durable.records[i] \in Rows /\ working.records[i] \in Rows
      /\ BlankEntry.ids = {}
  BY <1>2 DEF Databases, BlankEntry
<1>4. CASE Len(working.audit_log) = Len(durable.audit_log)
  <2>1. \A i \in Ids : NewOf(durable, working, i) = {}
    BY <1>3, <1>4 DEF NewOf, About
  <2>2. \A i \in Ids : working.records[i] = durable.records[i]
    BY <1>2, <1>3, <2>1 DEF ChangeTold
  <2>3. working.audit_log = durable.audit_log
    <3>1. working.audit_log \in Seq(Entries) /\ durable.audit_log \in Seq(Entries)
      BY <1>2 DEF Databases
    <3>. QED BY <1>2, <1>4, <3>1, SeqEqual DEF TrailContinues
  <2>4. LiveView' = LiveView
    BY <1>1, <2>2 DEF LiveView
  <2>. QED BY <1>1, <2>3, <2>4 DEF History!hvars
<1>5. CASE Len(working.audit_log) # Len(durable.audit_log)
  <2>1. History!TrailGrows
    BY <1>1, <1>2, <1>3, <1>5 DEF History!TrailGrows, TrailContinues
  <2>2. ASSUME NEW i \in Ids
        PROVE  /\ History!NewAbout(i) = NewOf(durable, working, i)
               /\ LiveView'[i] = IF working.records[i].state = "live"
                                   THEN working.records[i].data ELSE Null
               /\ LiveView[i] # Null =>
                    durable.records[i].state = "live" /\ LiveView[i] = durable.records[i].data
    BY <1>1, <1>3 DEF History!NewAbout, NewOf, About, LiveView
  <2>3. ASSUME NEW i \in Ids, NewOf(durable, working, i) = {}
        PROVE  LiveView'[i] = LiveView[i]
    BY <1>1, <1>2, <1>3, <2>3 DEF ChangeTold, LiveView
  <2>4. ASSUME NEW i \in Ids, NEW n \in NewOf(durable, working, i),
               \A m \in NewOf(durable, working, i) : m <= n
        PROVE  History!EntryLeaves(working.audit_log[n], i, LiveView'[i])
    <3>1. n \in About(working.audit_log, i) /\ \A m \in About(working.audit_log, i) : m <= n
      BY <1>3, <2>4 DEF NewOf, About
    <3>2. EntryExplains(working.audit_log[n], i, working.records[i])
      BY <1>2, <3>1 DEF ExplainedAt
    <3>3. working.records[i].data # Null
      BY <1>3, PayloadAssumption DEF Rows, Payloads
    <3>. QED BY <2>2, <3>2, <3>3 DEF EntryExplains, History!EntryLeaves
  <2>5. ASSUME NEW i \in Ids, NEW n \in NewOf(durable, working, i),
               \A m \in NewOf(durable, working, i) : n <= m, LiveView[i] # Null
        PROVE  working.audit_log[n].before[i] = LiveView[i]
    BY <1>2, <2>2, <2>5 DEF ChangeTold
  <2>6. History!RecordsFollowTrail
    BY <1>1, <2>2, <2>3, <2>4, <2>5 DEF History!RecordsFollowTrail
  <2>. QED BY <2>1, <2>6 DEF History!CommitChange
<1>. QED BY <1>4, <1>5

(* Every other step leaves the committed tables alone. *)
LEMMA OnlyCommitChanges ==
  ASSUME [Next]_vars, \A t \in Threads : ~Commit(t)
  PROVE  durable' = durable
<1>1. ASSUME NEW t \in Threads, Statement(t)
      PROVE  durable' = durable
  <2>1. ASSUME NEW i \in Ids, NEW p \in Payloads,
               InsertRow(t, i, p) \/ UpdateRow(t, i, p) \/ UpdateExpecting(t, i, p)
                 \/ BulkInsert(t, i, p)
        PROVE  durable' = durable
    BY <2>1 DEF InsertRow, UpdateRow, UpdateExpecting, Update, Stated, BulkInsert
  <2>2. ASSUME NEW i \in Ids,
               SoftDelete(t, i) \/ HardDelete(t, i) \/ RestoreRow(t, i)
                 \/ BulkSoftDelete(t, i) \/ BulkHardDelete(t, i)
        PROVE  durable' = durable
    BY <2>2 DEF SoftDelete, HardDelete, RestoreRow, Stated, BulkSoftDelete, BulkHardDelete, Remove
  <2>. QED BY <1>1, <2>1, <2>2 DEF Statement
<1>2. ASSUME NEW t \in Threads, NEW i \in Ids, Get(t, i)
      PROVE  durable' = durable
  BY <1>2 DEF Get
<1>3. ASSUME NEW t \in Threads,
             \/ \E kind \in Kinds : AcquireLock(t, kind)
             \/ BeginImmediate(t) \/ BusyTimeout(t) \/ Reindex(t) \/ Audit(t)
             \/ Rollback(t) \/ WriteMirror(t) \/ LoseMirror(t) \/ Return(t)
      PROVE  durable' = durable
  BY <1>3 DEF AcquireLock, BeginImmediate, BusyTimeout, Reindex, Audit, Rollback, WriteMirror,
              LoseMirror, Return
<1>4. ASSUME NEW c \in Conns, Crash(c)
      PROVE  durable' = durable
  BY <1>4 DEF Crash
<1>. QED BY <1>1, <1>2, <1>3, <1>4 DEF Next, vars

LEMMA HistoryInit == Init => History!HInit
BY DEF Init, History!HInit, LiveView, AbsentRow

LEMMA HistoryStep ==
  ASSUME RInv, [Next]_vars
  PROVE  [History!CommitChange]_(History!hvars)
<1>1. CASE \E t \in Threads : Commit(t)
  BY <1>1, CommitIsHistory
<1>2. CASE \A t \in Threads : ~Commit(t)
  BY <1>2, OnlyCommitChanges DEF History!hvars, LiveView
<1>. QED BY <1>1, <1>2

(* The store implements the atomic history: whatever statements of however  *)
(* many threads and processes, rollbacks and crashes lie between two        *)
(* commits, readers see the records and the append-only trail move together *)
(* in single steps, each as the entries it appends say.                     *)
THEOREM HistoryCorrect == Spec => ImplementsHistory
<1>1. Spec => []RInv
  BY RInvInit, RInvStep, PTL DEF Spec
<1>. QED BY <1>1, HistoryInit, HistoryStep, PTL DEF Spec, ImplementsHistory, History!HSpec
=============================================================================
