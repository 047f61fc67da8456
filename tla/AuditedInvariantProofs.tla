---------------------- MODULE AuditedInvariantProofs -----------------------
(***************************************************************************)
(* The invariants of AuditedDatabase about the rows themselves: the index, *)
(* the revisions and the chain of the audit trail, for every set of        *)
(* processes, threads, ids and payloads.                                   *)
(*                                                                         *)
(* All of them follow from what one statement does to one row, which       *)
(* `Wrote` says once for the nine statements.                              *)
(***************************************************************************)
EXTENDS AuditedDatabaseProofs, FiniteSetTheorems

(* The payload an entry claims it found. *)
Start(e, i) == IF e.action = "restore" THEN e.after[i] ELSE e.before[i]

(* A call that prepares no audit row has nothing checked, and bulk calls    *)
(* prepare rows without the payloads their kind does not record.            *)
CallForm(j) ==
  /\ j.checked => j.stage \in {"stated", "indexed"}
  /\ j.stage = "bulk" => /\ j.entry.after = NoPayloads
                         /\ j.kind = "bulk_create" => j.entry.before = NoPayloads

CallsWellFormed == \A t \in Threads : CallForm(job[t])

(* The three ways a statement moves a row: created, touched or removed. *)
RowMoved(row, row2, length) ==
  \/ row.state = "absent" /\ row2.state = "live" /\ row2.revision = 1 /\ row2.born = length + 1
  \/ /\ row.state # "absent" /\ row2.state # "absent"
     /\ row2.revision = row.revision + 1 /\ row2.born = row.born
  \/ row.state # "absent" /\ row2 = AbsentRow

(* Entry e2 about id i links the row before the statement to the one after. *)
Links(e2, i, row, row2) ==
  /\ e2.action # "insert" => row.state # "absent" /\ Start(e2, i) = row.data
  /\ row2.state # "absent" /\ PayloadOf(e2, i) # Null => row2.data = PayloadOf(e2, i)

(* The entry in preparation grew by id i and kept what it said of others. *)
Covers(e, e2, i) ==
  /\ i \notin e.ids /\ e2.ids = e.ids \cup {i}
  /\ \A j \in e.ids : /\ e2.action = e.action
                      /\ e2.before[j] = e.before[j] /\ e2.after[j] = e.after[j]

(* Thread t ran one statement, on row i. *)
Wrote(t, i) ==
  /\ InWrite(t) /\ InWrite(t)' /\ writer = t /\ writer' = t
  /\ durable' = durable /\ snapshot' = snapshot /\ mirror' = mirror
  /\ \A s \in Threads \ {t} : job'[s] = job[s]
  /\ job'[t].pending = job[t].pending
  /\ working'.audit_log = working.audit_log
  /\ \A j \in Ids \ {i} : /\ working'.records[j] = working.records[j]
                          /\ working'.record_index[j] = working.record_index[j]
  /\ Covers(job[t].entry, job'[t].entry, i)
  /\ RowMoved(working.records[i], working'.records[i], Len(working.audit_log))
  /\ Links(job'[t].entry, i, working.records[i], working'.records[i])
  /\ job[t].stage # "stated"
  /\ \/ job'[t].stage = "stated" /\ job'[t].entry.ids = {i}
     \/ /\ job'[t].stage # "stated"
        /\ working.record_index[i] = working.records[i].data =>
             working'.record_index[i] = working'.records[i].data
  /\ job'[t].checked => /\ snapshot[t].id = i
                        /\ snapshot[t].revision = working.records[i].revision
                        /\ working'.records[i].born = working.records[i].born
                        /\ working'.records[i].state # "absent"
                        /\ job'[t].entry.before[i] = working.records[i].data
  /\ CallForm(job'[t])

-----------------------------------------------------------------------------
(* Every statement is such a step. *)

(* What Entry builds. *)
LEMMA EntryFields ==
  ASSUME NEW i \in Ids, NEW before, NEW after, NEW action
  PROVE  /\ Entry(action, i, before, after).ids = {i}
         /\ Entry(action, i, before, after).action = action
         /\ Entry(action, i, before, after).before[i] = before
         /\ Entry(action, i, before, after).after[i] = after
BY DEF Entry, Only, NoPayloads

(* Statements of single-record methods and of blocks. *)
LEMMA StatedWrote ==
  ASSUME RInv, CallsWellFormed, NEW t \in Threads, ReadyToWrite(t),
         NEW i \in Ids, NEW row \in Rows, NEW e, e.ids = {i},
         NEW checked \in BOOLEAN, NEW next \in {"stated", "indexed"},
         Stated(t, i, row, e, checked, next),
         RowMoved(working.records[i], row, Len(working.audit_log)),
         Links(e, i, working.records[i], row),
         next # "stated" => row.data = working.records[i].data,
         checked => /\ snapshot[t].id = i
                    /\ snapshot[t].revision = working.records[i].revision
                    /\ row.born = working.records[i].born
                    /\ row.state # "absent"
                    /\ e.before[i] = working.records[i].data
  PROVE  Wrote(t, i)
<1>1. /\ working'.audit_log = working.audit_log
      /\ working'.record_index = working.record_index
      /\ working'.records = [working.records EXCEPT ![i] = row]
      /\ working.records \in [Ids -> Rows]
  BY DEF Stated, RInv, IInv, TypeOK, Databases
<1>2. /\ job'[t].entry = e /\ job'[t].pending = job[t].pending
      /\ job'[t].stage = next /\ job'[t].checked = checked
      /\ \A s \in Threads \ {t} : job'[s] = job[s]
  BY DEF Stated, RInv, IInv, TypeOK, Jobs
<1>3. InWrite(t) /\ job[t].entry = BlankEntry /\ job[t].stage # "stated"
  BY DEF ReadyToWrite, InWrite, RInv, IInv, EntriesWellFormed, EntryForm
<1>4. writer = t
  BY <1>3 DEF RInv, IInv, OneWriter
<1>5. durable' = durable /\ writer' = writer /\ snapshot' = snapshot /\ mirror' = mirror
  BY DEF Stated
<1>6. Covers(job[t].entry, job'[t].entry, i)
  BY <1>2, <1>3 DEF Covers, BlankEntry
<1>7. InWrite(t)' /\ CallForm(job'[t])
  BY <1>2 DEF InWrite, CallForm
<1>8. working'.records[i] = row
  BY <1>1
<1>. QED BY <1>1, <1>2, <1>3, <1>4, <1>5, <1>6, <1>7, <1>8 DEF Wrote

LEMMA StatementWrote ==
  ASSUME RInv, IInv', CallsWellFormed, NEW t \in Threads, Statement(t)
  PROVE  \E i \in Ids : Wrote(t, i)
<1>0. /\ \A i \in Ids : working.records[i] \in Rows
      /\ \A i \in Ids : working.records[i].data \in Payloads
      /\ working \in Databases /\ working' \in Databases
      /\ job \in [Threads -> Jobs] /\ job' \in [Threads -> Jobs]
      /\ Len(working.audit_log) \in Nat
  BY DEF TypeOK, Databases, RInv, IInv, Rows
<1>1. ASSUME NEW i \in Ids, NEW p \in Payloads, InsertRow(t, i, p)
      PROVE  Wrote(t, i)
  <2>. DEFINE e == Entry("insert", i, Null, p)
              row == FreshRow(p)
  <2>1. /\ ReadyToWrite(t) /\ working.records[i].state = "absent"
        /\ Stated(t, i, row, e, FALSE, "stated")
    BY <1>1 DEF InsertRow
  <2>2. e.ids = {i} /\ e.action = "insert" /\ e.before[i] = Null /\ e.after[i] = p
    BY EntryFields
  <2>3. row \in Rows /\ row.state = "live" /\ row.data = p /\ row.revision = 1
        /\ row.born = Len(working.audit_log) + 1
    BY <1>0 DEF FreshRow, Rows
  <2>. HIDE DEF e, row
  <2>4. RowMoved(working.records[i], row, Len(working.audit_log))
    BY <2>1, <2>3 DEF RowMoved
  <2>5. Links(e, i, working.records[i], row)
    BY <2>2, <2>3 DEF Links, PayloadOf
  <2>. QED BY <2>1, <2>2, <2>3, <2>4, <2>5, StatedWrote
<1>2. ASSUME NEW i \in Ids, NEW p \in Payloads, NEW checked \in BOOLEAN,
             Update(t, i, p, checked), checked => RevisionMatches(t, i)
      PROVE  Wrote(t, i)
  <2>. DEFINE row == working.records[i]
              merged == Merged(row.data, p)
              e == Entry("update", i, row.data, merged)
              row2 == Touched(row, "live", merged)
  <2>0. merged \in Payloads
    BY <1>0, MergedType
  <2>1. ReadyToWrite(t) /\ row.state = "live" /\ Stated(t, i, row2, e, checked, "stated")
    BY <1>2 DEF Update
  <2>. HIDE DEF merged
  <2>2. e.ids = {i} /\ e.action = "update" /\ e.before[i] = row.data /\ e.after[i] = merged
    BY EntryFields
  <2>3. row2 \in Rows /\ row2.state = "live" /\ row2.data = merged
        /\ row2.revision = row.revision + 1 /\ row2.born = row.born
    BY <1>0, <2>0, RowTypes DEF Touched
  <2>. HIDE DEF e, row2
  <2>4. RowMoved(row, row2, Len(working.audit_log))
    BY <2>1, <2>3 DEF RowMoved
  <2>5. Links(e, i, row, row2)
    BY <2>0, <2>1, <2>2, <2>3, PayloadAssumption DEF Links, PayloadOf, Start, Payloads
  <2>6. checked => snapshot[t].id = i /\ snapshot[t].revision = row.revision
    BY <1>2 DEF RevisionMatches
  <2>. QED BY <2>1, <2>2, <2>3, <2>4, <2>5, <2>6, StatedWrote
<1>3. ASSUME NEW i \in Ids, SoftDelete(t, i)
      PROVE  Wrote(t, i)
  <2>. DEFINE row == working.records[i]
              e == Entry("delete", i, row.data, Null)
              row2 == Touched(row, "deleted", row.data)
  <2>1. ReadyToWrite(t) /\ row.state = "live" /\ Stated(t, i, row2, e, FALSE, "indexed")
    BY <1>3 DEF SoftDelete
  <2>2. e.ids = {i} /\ e.action = "delete" /\ e.before[i] = row.data /\ e.after[i] = Null
    BY EntryFields
  <2>3. row2 \in Rows /\ row2.state = "deleted" /\ row2.data = row.data
        /\ row2.revision = row.revision + 1 /\ row2.born = row.born
    BY <1>0, RowTypes DEF Touched
  <2>. HIDE DEF e, row2
  <2>4. RowMoved(row, row2, Len(working.audit_log))
    BY <2>1, <2>3 DEF RowMoved
  <2>5. Links(e, i, row, row2)
    BY <2>1, <2>2, <2>3 DEF Links, PayloadOf, Start
  <2>. QED BY <2>1, <2>2, <2>3, <2>4, <2>5, StatedWrote
<1>4. ASSUME NEW i \in Ids, HardDelete(t, i)
      PROVE  Wrote(t, i)
  <2>. DEFINE row == working.records[i]
              e == Entry("delete", i, row.data, Null)
  <2>1. e.ids = {i} /\ e.action = "delete" /\ e.before[i] = row.data /\ e.after[i] = Null
    BY EntryFields
  <2>2. /\ working'.audit_log = working.audit_log
        /\ working'.records[i] = AbsentRow /\ working'.record_index[i] = Empty
        /\ \A j \in Ids \ {i} : /\ working'.records[j] = working.records[j]
                                /\ working'.record_index[j] = working.record_index[j]
    BY <1>0, <1>4 DEF HardDelete, Databases
  <2>3. /\ job'[t].stage = "indexed" /\ job'[t].entry = e /\ job'[t].pending = job[t].pending
        /\ ~job'[t].checked
        /\ \A s \in Threads \ {t} : job'[s] = job[s]
    BY <1>0, <1>4 DEF HardDelete, Jobs
  <2>4. /\ ReadyToWrite(t) /\ row.state # "absent" /\ writer' = writer /\ durable' = durable
        /\ snapshot' = snapshot /\ mirror' = mirror
    BY <1>4 DEF HardDelete
  <2>. HIDE DEF e
  <2>5. InWrite(t) /\ job[t].entry = BlankEntry /\ job[t].stage # "stated"
    BY <2>4 DEF ReadyToWrite, InWrite, RInv, IInv, EntriesWellFormed, EntryForm
  <2>6. writer = t
    BY <2>5 DEF RInv, IInv, OneWriter
  <2>7. Covers(job[t].entry, job'[t].entry, i)
    BY <2>1, <2>3, <2>5 DEF Covers, BlankEntry
  <2>8. RowMoved(row, working'.records[i], Len(working.audit_log))
    BY <2>2, <2>4 DEF RowMoved
  <2>9. Links(e, i, row, AbsentRow)
    BY <2>1, <2>4 DEF Links, Start, AbsentRow
  <2>10. AbsentRow.data = Empty
    BY DEF AbsentRow
  <2>11. InWrite(t)' /\ CallForm(job'[t])
    BY <2>3 DEF InWrite, CallForm
  <2>. QED BY <2>2, <2>3, <2>4, <2>5, <2>6, <2>7, <2>8, <2>9, <2>10, <2>11 DEF Wrote
<1>5. ASSUME NEW i \in Ids, RestoreRow(t, i)
      PROVE  Wrote(t, i)
  <2>. DEFINE row == working.records[i]
              e == Entry("restore", i, Null, row.data)
              row2 == Touched(row, "live", row.data)
  <2>1. ReadyToWrite(t) /\ row.state = "deleted" /\ Stated(t, i, row2, e, FALSE, "stated")
    BY <1>5 DEF RestoreRow
  <2>2. e.ids = {i} /\ e.action = "restore" /\ e.before[i] = Null /\ e.after[i] = row.data
    BY EntryFields
  <2>3. row2 \in Rows /\ row2.state = "live" /\ row2.data = row.data
        /\ row2.revision = row.revision + 1 /\ row2.born = row.born
    BY <1>0, RowTypes DEF Touched
  <2>. HIDE DEF e, row2
  <2>4. RowMoved(row, row2, Len(working.audit_log))
    BY <2>1, <2>3 DEF RowMoved
  <2>5. Links(e, i, row, row2)
    BY <2>1, <2>2, <2>3 DEF Links, PayloadOf, Start
  <2>. QED BY <2>1, <2>2, <2>3, <2>4, <2>5, StatedWrote
<1>6. ASSUME NEW i \in Ids, NEW p \in Payloads, BulkInsert(t, i, p)
      PROVE  Wrote(t, i)
  <2>. DEFINE e == job[t].entry
              e2 == [e EXCEPT !.ids = @ \cup {i}]
  <2>1. InWrite(t) /\ writer = t /\ e \in Entries /\ job[t].stage # "stated"
    BY <1>0, <1>6 DEF BulkInsert, BulkReady, InWrite, RInv, IInv, OneWriter, Jobs
  <2>2. e.action = "insert" /\ e.after = NoPayloads /\ e.before = NoPayloads
    BY <1>6 DEF BulkInsert, BulkReady, RInv, IInv, EntriesWellFormed, EntryForm, BlankEntry,
                CallsWellFormed, CallForm
  <2>3. /\ job'[t].entry = e2 /\ job'[t].kind = "bulk_create" /\ job'[t].stage = "bulk"
        /\ i \notin e.ids /\ working.records[i].state = "absent"
        /\ job'[t].pending = job[t].pending /\ job'[t].checked = job[t].checked
        /\ \A s \in Threads \ {t} : job'[s] = job[s]
    BY <1>0, <1>6 DEF BulkInsert, BulkReady, NeverUsed, Jobs
  <2>4. /\ e2.ids = e.ids \cup {i}
        /\ e2.before = e.before /\ e2.after = e.after /\ e2.action = e.action
    BY <2>1 DEF Entries
  <2>5. /\ working'.audit_log = working.audit_log
        /\ working'.records[i] = FreshRow(p) /\ working'.record_index[i] = p
        /\ \A j \in Ids \ {i} : /\ working'.records[j] = working.records[j]
                                /\ working'.record_index[j] = working.record_index[j]
    BY <1>0, <1>6 DEF BulkInsert, Databases
  <2>6. /\ writer' = writer /\ durable' = durable /\ snapshot' = snapshot /\ mirror' = mirror
        /\ job[t].stage \in {"open", "bulk"}
    BY <1>6 DEF BulkInsert, BulkReady
  <2>. HIDE DEF e2
  <2>7. ~job[t].checked
    BY <2>6 DEF CallsWellFormed, CallForm
  <2>8. Covers(e, e2, i)
    BY <2>3, <2>4 DEF Covers
  <2>9. RowMoved(working.records[i], working'.records[i], Len(working.audit_log))
    BY <2>3, <2>5 DEF RowMoved, FreshRow
  <2>10. Links(e2, i, working.records[i], working'.records[i])
    BY <2>2, <2>4 DEF Links, PayloadOf, NoPayloads
  <2>11. InWrite(t)' /\ CallForm(job'[t])
    BY <2>2, <2>3, <2>4, <2>7 DEF InWrite, CallForm
  <2>12. FreshRow(p).data = p
    BY DEF FreshRow
  <2>. QED BY <2>1, <2>3, <2>5, <2>6, <2>7, <2>8, <2>9, <2>10, <2>11, <2>12 DEF Wrote
<1>7. ASSUME NEW i \in Ids, BulkSoftDelete(t, i) \/ BulkHardDelete(t, i)
      PROVE  Wrote(t, i)
  <2>. DEFINE e == job[t].entry
              row == working.records[i]
              row2 == working'.records[i]
              e2 == [action |-> "delete", ids |-> e.ids \cup {i},
                     before |-> [e.before EXCEPT ![i] = row.data],
                     after |-> NoPayloads]
  <2>1. InWrite(t) /\ writer = t /\ e \in Entries /\ job[t].stage \in {"open", "bulk"}
        /\ Unfolds(job[t], durable, working)
    BY <1>0, <1>7 DEF BulkSoftDelete, BulkHardDelete, BulkReady, InWrite, RInv, IInv,
                      OneWriter, WorkingUnfolds, Jobs
  <2>2. e.ids = {} \/ (e.action = "delete" /\ e.after = NoPayloads)
    BY <1>7 DEF BulkSoftDelete, BulkHardDelete, BulkReady, RInv, IInv, EntriesWellFormed,
                EntryForm, BlankEntry, CallsWellFormed, CallForm
  <2>3. /\ job'[t].entry = e2 /\ job'[t].kind = job[t].kind /\ job'[t].stage = "bulk"
        /\ job'[t].pending = job[t].pending /\ job'[t].checked = job[t].checked
        /\ \A s \in Threads \ {t} : job'[s] = job[s]
        /\ job[t].kind # "bulk_create"
    <3>1. /\ job' = [job EXCEPT ![t].stage = "bulk", ![t].entry = e2]
          /\ job[t].kind \in {"bulk_delete", "bulk_hard_delete"}
      BY <1>7 DEF BulkSoftDelete, BulkHardDelete, BulkReady, Remove
    <3>. HIDE DEF e2
    <3>. QED BY <1>0, <3>1 DEF Jobs
  <2>4. /\ working'.audit_log = working.audit_log
        /\ \A j \in Ids \ {i} : /\ working'.records[j] = working.records[j]
                                /\ working'.record_index[j] = working.record_index[j]
        /\ RowMoved(row, row2, Len(working.audit_log)) /\ row.state # "absent"
        /\ row2.state # "absent" => row2.data = row.data
        /\ working.record_index[i] = row.data => working'.record_index[i] = row2.data
    <3>1. CASE BulkSoftDelete(t, i)
      <4>1. /\ working'.audit_log = working.audit_log
            /\ working'.record_index = working.record_index
            /\ working'.records = [working.records EXCEPT ![i] = Touched(row, "deleted", row.data)]
            /\ row.state = "live"
        BY <1>0, <3>1 DEF BulkSoftDelete, Databases
      <4>2. row2 = Touched(row, "deleted", row.data)
        BY <1>0, <4>1 DEF Databases
      <4>. QED BY <1>0, <4>1, <4>2 DEF RowMoved, Touched, Databases
    <3>2. CASE BulkHardDelete(t, i)
      BY <1>0, <3>2 DEF BulkHardDelete, Databases, AbsentRow, RowMoved
    <3>. QED BY <1>7, <3>1, <3>2
  <2>5. i \notin e.ids
    <3>1. CASE BulkSoftDelete(t, i)
      <4>1. working.records[i].state = "live" /\ PendingExplained(e, working)
        BY <2>1, <3>1 DEF BulkSoftDelete, RInv, IInv, WorkingExplained
      <4>. QED BY <2>2, <4>1 DEF PendingExplained, EntryExplains
    <3>2. CASE BulkHardDelete(t, i)
      BY <2>1, <3>2 DEF BulkHardDelete, BulkReady, Unfolds, TakenOnce
    <3>. QED BY <1>7, <3>1, <3>2
  <2>6. /\ e2.before[i] = row.data /\ e2.after[i] = Null
        /\ \A j \in e.ids : e2.before[j] = e.before[j]
    BY <2>1, <2>5 DEF Entries, NoPayloads
  <2>7. /\ writer' = writer /\ durable' = durable /\ snapshot' = snapshot /\ mirror' = mirror
    BY <1>7 DEF BulkSoftDelete, BulkHardDelete, Remove
  <2>8. e2.ids = e.ids \cup {i} /\ e2.action = "delete" /\ e2.after = NoPayloads
    OBVIOUS
  <2>. HIDE DEF e2
  <2>9. ~job[t].checked
    BY <2>1 DEF CallsWellFormed, CallForm
  <2>10. Covers(e, e2, i)
    BY <2>2, <2>5, <2>6, <2>8 DEF Covers
  <2>11. Links(e2, i, row, row2)
    BY <2>4, <2>6, <2>8 DEF Links, PayloadOf, Start
  <2>12. InWrite(t)' /\ CallForm(job'[t])
    BY <2>3, <2>8, <2>9 DEF InWrite, CallForm
  <2>. QED BY <2>1, <2>3, <2>4, <2>7, <2>9, <2>10, <2>11, <2>12 DEF Wrote
<1>8. ASSUME NEW i \in Ids, NEW p \in Payloads, UpdateRow(t, i, p) \/ UpdateExpecting(t, i, p)
      PROVE  Wrote(t, i)
  BY <1>2, <1>8 DEF UpdateRow, UpdateExpecting
<1>. QED BY <1>1, <1>3, <1>4, <1>5, <1>6, <1>7, <1>8 DEF Statement

-----------------------------------------------------------------------------
(* Every other step of the store. *)

(* A step that leaves every open transaction, and what is committed, alone; *)
(* a thread that serves no call may have read a row, or died.               *)
Elsewhere ==
  /\ durable' = durable
  /\ \A s \in Threads : InWrite(s)' => /\ InWrite(s) /\ job'[s] = job[s] /\ working' = working
                                       /\ snapshot'[s] = snapshot[s]
  /\ \A s \in Threads : \/ snapshot'[s] = snapshot[s]
                         \/ snapshot'[s].born = 0
                         \/ \E i \in Ids : LET row == durable.records[i]
                                          IN /\ row.state = "live"
                                             /\ snapshot'[s] = [id |-> i, data |-> row.data,
                                                  revision |-> row.revision, born |-> row.born]

(* The transaction of t opens, on the committed content. *)
Opened(t) ==
  /\ durable' = durable /\ working' = durable /\ writer' = t /\ snapshot' = snapshot
  /\ job'[t].entry = BlankEntry /\ job'[t].stage = "open"

(* The row that Reindex completes. *)
Reindexed(t) ==
  /\ InWrite(t) /\ writer' = t /\ durable' = durable /\ snapshot' = snapshot
  /\ job'[t].checked = job[t].checked
  /\ job[t].stage = "stated" /\ job'[t].stage = "indexed" /\ job'[t].entry = job[t].entry
  /\ working'.records = working.records /\ working'.audit_log = working.audit_log
  /\ working'.record_index = [i \in Ids |-> IF i \in job[t].entry.ids
                                              THEN working.records[i].data
                                              ELSE working.record_index[i]]

(* The audit row joins the uncommitted trail. *)
Audited(t) ==
  /\ InWrite(t) /\ writer' = t /\ durable' = durable /\ snapshot' = snapshot
  /\ job[t].stage # "stated" /\ job'[t].stage = "audited" /\ job'[t].entry = BlankEntry
  /\ working'.records = working.records /\ working'.record_index = working.record_index
  /\ working'.audit_log = Append(working.audit_log, job[t].entry)

(* The transaction of t is committed: it is nobody's any more. *)
Committed(t) ==
  /\ InWrite(t) /\ job[t].entry = BlankEntry /\ job[t].stage # "stated"
  /\ durable' = working /\ snapshot' = snapshot
  /\ \A s \in Threads : ~InWrite(s)'

LEMMA StepKinds ==
  ASSUME RInv, IInv', CallsWellFormed, [Next]_vars
  PROVE  \/ \E t \in Threads, i \in Ids : Wrote(t, i)
         \/ \E t \in Threads : Opened(t) \/ Reindexed(t) \/ Audited(t) \/ Committed(t)
         \/ Elsewhere
<1>0. /\ job \in [Threads -> Jobs] /\ job' \in [Threads -> Jobs]
      /\ durable \in Databases /\ working \in Databases /\ working' \in Databases
  BY DEF RInv, IInv, TypeOK
<1>1. ASSUME NEW t \in Threads, Statement(t)
      PROVE  \E i \in Ids : Wrote(t, i)
  BY <1>1, StatementWrote
<1>2. ASSUME NEW t \in Threads, BeginImmediate(t)
      PROVE  Opened(t)
  <2>1. /\ job[t].stage = "locked" /\ job'[t].entry = job[t].entry /\ job'[t].stage = "open"
        /\ durable' = durable /\ working' = durable /\ writer' = t /\ snapshot' = snapshot
    BY <1>0, <1>2 DEF BeginImmediate, Jobs
  <2>. QED BY <2>1 DEF RInv, IInv, EntriesWellFormed, EntryForm, Opened
<1>3. ASSUME NEW t \in Threads, Reindex(t)
      PROVE  Reindexed(t)
  <2>1. InWrite(t) /\ writer = t
    BY <1>3 DEF Reindex, InWrite, RInv, IInv, OneWriter
  <2>. QED BY <1>0, <1>3, <2>1 DEF Reindex, Reindexed, Jobs, Databases
<1>4. ASSUME NEW t \in Threads, Audit(t)
      PROVE  Audited(t)
  <2>1. InWrite(t) /\ writer = t
    BY <1>4 DEF Audit, InWrite, RInv, IInv, OneWriter
  <2>2. job'[t].stage = "audited" /\ job'[t].entry = BlankEntry
    BY <1>0, <1>4 DEF Audit, Jobs
  <2>3. /\ working'.records = working.records /\ working'.record_index = working.record_index
        /\ working'.audit_log = Append(working.audit_log, job[t].entry)
    BY <1>0, <1>4 DEF Audit, Databases
  <2>. QED BY <1>4, <2>1, <2>2, <2>3 DEF Audit, Audited
<1>5. ASSUME NEW t \in Threads, Commit(t)
      PROVE  Committed(t)
  <2>1. /\ InWrite(t) /\ ~InWrite(t)' /\ job[t].stage \in {"open", "audited"}
        /\ \A s \in Threads \ {t} : job'[s] = job[s]
    BY <1>0, <1>5 DEF Commit, CanCommit, InWrite, Jobs
  <2>2. \A s \in Threads : ~InWrite(s)'
    BY <2>1 DEF RInv, IInv, OneWriter, InWrite
  <2>3. job[t].entry = BlankEntry
    BY <2>1 DEF RInv, IInv, EntriesWellFormed, EntryForm
  <2>. QED BY <1>5, <2>1, <2>2, <2>3 DEF Commit, Committed
<1>6. ASSUME NEW t \in Threads, Rollback(t)
      PROVE  Elsewhere
  <2>1. /\ InWrite(t) /\ ~InWrite(t)'
        /\ \A s \in Threads \ {t} : job'[s] = job[s]
    BY <1>0, <1>6 DEF Rollback, IdleJob, InWrite
  <2>2. \A s \in Threads : ~InWrite(s)'
    BY <2>1 DEF RInv, IInv, OneWriter, InWrite
  <2>. QED BY <1>6, <2>2 DEF Elsewhere, Rollback
<1>7. ASSUME NEW t \in Threads,
             \/ \E i \in Ids : Get(t, i)
             \/ \E kind \in Kinds : AcquireLock(t, kind)
             \/ BusyTimeout(t) \/ WriteMirror(t) \/ LoseMirror(t) \/ Return(t)
      PROVE  Elsewhere
  <2>1. /\ durable' = durable /\ working' = working
        /\ \A s \in Threads \ {t} : job'[s] = job[s]
        /\ job' = job \/ job'[t].stage \notin {"open", "stated", "bulk", "indexed", "audited"}
    <3>1. CASE \E i \in Ids : Get(t, i)
      BY <3>1 DEF Get
    <3>2. CASE \E kind \in Kinds : AcquireLock(t, kind)
      BY <1>0, <3>2 DEF AcquireLock, IdleJob
    <3>3. CASE BusyTimeout(t) \/ Return(t)
      BY <1>0, <3>3 DEF BusyTimeout, Return, IdleJob
    <3>4. CASE WriteMirror(t) \/ LoseMirror(t)
      BY <1>0, <3>4 DEF WriteMirror, LoseMirror, Jobs
    <3>. QED BY <1>7, <3>1, <3>2, <3>3, <3>4
  <2>2. \/ snapshot' = snapshot
        \/ /\ job' = job /\ ~InWrite(t)
           /\ \E i \in Ids : LET row == durable.records[i]
                            IN /\ row.state = "live"
                               /\ snapshot' = [snapshot EXCEPT ![t] =
                                    [id |-> i, data |-> row.data,
                                     revision |-> row.revision, born |-> row.born]]
    BY <1>7 DEF Get, AcquireLock, BusyTimeout, WriteMirror, LoseMirror, Return, InWrite
  <2>3. snapshot \in [Threads -> Snapshots]
    BY DEF RInv, IInv, TypeOK
  <2>4. CASE snapshot' = snapshot
    BY <2>1, <2>4 DEF Elsewhere, InWrite
  <2>5. CASE snapshot' # snapshot
    <3>1. \A s \in Threads \ {t} : snapshot'[s] = snapshot[s]
      BY <2>2, <2>3, <2>5
    <3>2. \E i \in Ids : LET row == durable.records[i]
                        IN /\ row.state = "live"
                           /\ snapshot'[t] = [id |-> i, data |-> row.data,
                                              revision |-> row.revision, born |-> row.born]
      BY <2>2, <2>3, <2>5
    <3>. QED BY <2>1, <2>2, <2>5, <3>1, <3>2 DEF Elsewhere, InWrite
  <2>. QED BY <2>4, <2>5
<1>8. ASSUME NEW c \in Conns, Crash(c)
      PROVE  Elsewhere
  <2>. DEFINE mine == {t \in Threads : ConnOf[t] = c}
  <2>1. \A s \in Threads : job'[s] = IF s \in mine THEN IdleJob ELSE job[s]
    BY <1>8 DEF Crash
  <2>2. ASSUME NEW s \in Threads, InWrite(s)'
        PROVE  /\ InWrite(s) /\ job'[s] = job[s] /\ working' = working
               /\ snapshot'[s] = snapshot[s]
    <3>1. s \notin mine /\ job'[s] = job[s] /\ InWrite(s)
      BY <2>1, <2>2 DEF InWrite, IdleJob
    <3>2. writer = s
      BY <3>1 DEF RInv, IInv, OneWriter
    <3>. QED BY <1>8, <3>1, <3>2 DEF Crash
  <2>3. \A s \in Threads : snapshot'[s] = IF s \in mine THEN NoSnapshot ELSE snapshot[s]
    BY <1>8 DEF Crash
  <2>. QED BY <1>8, <2>2, <2>3 DEF Elsewhere, Crash, NoSnapshot
<1>9. CASE UNCHANGED vars
  BY <1>9 DEF vars, Elsewhere, InWrite
<1>. QED BY <1>1, <1>2, <1>3, <1>4, <1>5, <1>6, <1>7, <1>8, <1>9 DEF Next

(* The form of every call survives every step. *)
LEMMA CallsStep ==
  ASSUME RInv, IInv', CallsWellFormed, [Next]_vars
  PROVE  CallsWellFormed'
<1>0. /\ job \in [Threads -> Jobs] /\ job' \in [Threads -> Jobs]
  BY DEF RInv, IInv, TypeOK
<1>1. ASSUME NEW t \in Threads, Statement(t)
      PROVE  CallsWellFormed'
  BY <1>1, StatementWrote DEF Wrote, CallsWellFormed
<1>2. ASSUME NEW t \in Threads,
             \/ BeginImmediate(t) \/ BusyTimeout(t) \/ Reindex(t) \/ Audit(t)
             \/ Rollback(t) \/ Commit(t) \/ WriteMirror(t) \/ LoseMirror(t) \/ Return(t)
             \/ \E kind \in Kinds : AcquireLock(t, kind)
      PROVE  CallsWellFormed'
  <2>1. \A s \in Threads \ {t} : job'[s] = job[s]
    BY <1>0, <1>2 DEF BeginImmediate, BusyTimeout, Reindex, Audit, Rollback, Commit, WriteMirror,
                      LoseMirror, Return, AcquireLock
  <2>2. CallForm(job[t])
    BY DEF CallsWellFormed
  <2>3. CallForm(job'[t])
    <3>1. CASE BeginImmediate(t) \/ Reindex(t) \/ Commit(t)
      BY <1>0, <2>2, <3>1 DEF BeginImmediate, Reindex, Commit, CanCommit, CallForm, Jobs
    <3>2. CASE Audit(t)
      BY <1>0, <2>2, <3>2 DEF Audit, CallForm, Jobs
    <3>3. CASE WriteMirror(t) \/ LoseMirror(t)
      BY <1>0, <2>2, <3>3 DEF WriteMirror, LoseMirror, CallForm, Jobs
    <3>4. CASE \/ BusyTimeout(t) \/ Rollback(t) \/ Return(t)
               \/ \E kind \in Kinds : AcquireLock(t, kind)
      <4>1. ~job'[t].checked /\ job'[t].stage # "bulk"
        <5>1. CASE BusyTimeout(t) \/ Rollback(t) \/ Return(t)
          BY <1>0, <5>1 DEF BusyTimeout, Rollback, Return, IdleJob
        <5>2. CASE \E kind \in Kinds : AcquireLock(t, kind)
          BY <1>0, <5>2 DEF AcquireLock, IdleJob
        <5>. QED BY <3>4, <5>1, <5>2
      <4>. QED BY <4>1 DEF CallForm
    <3>. QED BY <1>2, <3>1, <3>2, <3>3, <3>4
  <2>. QED BY <2>1, <2>3 DEF CallsWellFormed
<1>3. ASSUME NEW t \in Threads, NEW i \in Ids, Get(t, i)
      PROVE  CallsWellFormed'
  BY <1>3 DEF Get, CallsWellFormed
<1>4. ASSUME NEW c \in Conns, Crash(c)
      PROVE  CallsWellFormed'
  BY <1>4 DEF Crash, CallsWellFormed, CallForm, IdleJob
<1>5. CASE UNCHANGED vars
  BY <1>5 DEF vars, CallsWellFormed
<1>. QED BY <1>1, <1>2, <1>3, <1>4, <1>5 DEF Next

-----------------------------------------------------------------------------
(* The rows. *)

(* Payload changes of id i follow one another through the trail, the audit  *)
(* row in preparation and the row itself.                                   *)
Follows(log, m, n, i) == m < n /\ \A k \in About(log, i) : k <= m \/ n <= k

Newest(log, m, i) == \A k \in About(log, i) : k <= m

Chained(db, e, i) ==
  LET log == db.audit_log
      row == db.records[i]
  IN /\ \A m, n \in About(log, i) :
          (Follows(log, m, n, i) /\ log[n].action # "insert" /\ PayloadOf(log[m], i) # Null) =>
            Start(log[n], i) = PayloadOf(log[m], i)
     /\ \A m \in About(log, i) :
          (Newest(log, m, i) /\ PayloadOf(log[m], i) # Null) =>
            IF i \in e.ids THEN e.action # "insert" => Start(e, i) = PayloadOf(log[m], i)
            ELSE row.state # "absent" => row.data = PayloadOf(log[m], i)
     /\ (i \in e.ids /\ row.state # "absent" /\ PayloadOf(e, i) # Null) =>
          row.data = PayloadOf(e, i)

(* Entries about id i since the row under it was inserted. *)
Since(log, i, born) == {n \in About(log, i) : n >= born}

(* The revision of row i counts its entries, the one in preparation too. *)
Counted(db, e, i) ==
  LET row == db.records[i]
      log == db.audit_log
  IN row.state # "absent" =>
       IF i \in e.ids
         THEN /\ row.born \in 1..(Len(log) + 1)
              /\ row.revision = Cardinality(Since(log, i, row.born)) + 1
         ELSE /\ row.born \in 1..Len(log)
              /\ row.revision = Cardinality(Since(log, i, row.born))

(* Row i is indexed, unless the statement on it waits for its Reindex. *)
Indexed(j, db, i) ==
  \/ j.stage = "stated" /\ i \in j.entry.ids
  \/ db.record_index[i] = db.records[i].data

Sound(j, db) ==
  \A i \in Ids : Chained(db, j.entry, i) /\ Counted(db, j.entry, i) /\ Indexed(j, db, i)

RowInv ==
  /\ RInv
  /\ CallsWellFormed
  /\ Sound(IdleJob, durable)
  /\ \A t \in Threads : InWrite(t) => Sound(job[t], working)

(* With nothing in preparation every job says the same. *)
LEMMA SoundBetween ==
  ASSUME NEW db, NEW j, j.entry = BlankEntry
  PROVE  Sound(j, db) <=> Sound(IdleJob, db)
BY DEF Sound, IdleJob, Indexed, BlankEntry

LEMMA SinceFinite ==
  ASSUME NEW log, Len(log) \in Nat, NEW i \in Ids, NEW born
  PROVE  IsFiniteSet(Since(log, i, born)) /\ Cardinality(Since(log, i, born)) \in Nat
<1>1. IsFiniteSet(1..Len(log))
  BY FS_Interval
<1>2. Since(log, i, born) \subseteq 1..Len(log)
  BY DEF Since, About
<1>. QED BY <1>1, <1>2, FS_Subset, FS_CardinalityType

(* One statement. *)
LEMMA WroteSound ==
  ASSUME RowInv, IInv', NEW t \in Threads, NEW i \in Ids, Wrote(t, i)
  PROVE  Sound(job'[t], working')
<1>. DEFINE e == job[t].entry
            e2 == job'[t].entry
            log == working.audit_log
            row == working.records[i]
            row2 == working'.records[i]
<1>0. /\ Len(log) \in Nat /\ row \in Rows
      /\ working'.audit_log = log
      /\ Covers(e, e2, i) /\ Sound(job[t], working)
      /\ RowMoved(row, row2, Len(log)) /\ Links(e2, i, row, row2)
  BY DEF RowInv, RInv, IInv, TypeOK, Databases, Wrote
<1>1. ASSUME NEW j \in Ids \ {i}
      PROVE  Chained(working', e2, j) /\ Counted(working', e2, j) /\ Indexed(job'[t], working', j)
  <2>1. /\ working'.records[j] = working.records[j]
        /\ working'.record_index[j] = working.record_index[j]
        /\ j \in e2.ids <=> j \in e.ids
        /\ j \in e.ids => /\ e2.action = e.action /\ Start(e2, j) = Start(e, j)
                          /\ PayloadOf(e2, j) = PayloadOf(e, j)
        /\ Chained(working, e, j) /\ Counted(working, e, j) /\ Indexed(job[t], working, j)
        /\ job[t].stage # "stated"
    BY <1>0 DEF Wrote, Covers, Sound, Start, PayloadOf
  <2>2. Chained(working', e2, j)
    BY <1>0, <2>1 DEF Chained
  <2>3. Counted(working', e2, j)
    BY <1>0, <2>1 DEF Counted
  <2>4. Indexed(job'[t], working', j)
    BY <2>1 DEF Indexed
  <2>. QED BY <2>2, <2>3, <2>4
<1>2. /\ i \in e2.ids /\ i \notin e.ids
      /\ Chained(working, e, i) /\ Counted(working, e, i) /\ Indexed(job[t], working, i)
  BY <1>0 DEF Covers, Sound
<1>3. Chained(working', e2, i)
  BY <1>0, <1>2 DEF Chained, Links
<1>4. Counted(working', e2, i)
  <2>1. SUFFICES ASSUME row2.state # "absent"
                 PROVE  /\ row2.born \in 1..(Len(log) + 1)
                        /\ row2.revision = Cardinality(Since(log, i, row2.born)) + 1
    BY <1>0, <1>2 DEF Counted
  <2>2. CASE row.state = "absent"
    <3>1. row2.revision = 1 /\ row2.born = Len(log) + 1
      BY <1>0, <2>1, <2>2 DEF RowMoved
    <3>2. Since(log, i, row2.born) = {}
      BY <1>0, <3>1 DEF Since, About
    <3>3. Cardinality(Since(log, i, row2.born)) = 0
      BY <3>2, FS_EmptySet
    <3>. QED BY <1>0, <3>1, <3>3
  <2>3. CASE row.state # "absent"
    <3>1. row2.revision = row.revision + 1 /\ row2.born = row.born
      BY <1>0, <2>1, <2>3 DEF RowMoved, AbsentRow
    <3>. QED BY <1>0, <1>2, <2>3, <3>1 DEF Counted
  <2>. QED BY <2>2, <2>3
<1>5. Indexed(job'[t], working', i)
  BY <1>2 DEF Wrote, Indexed
<1>. QED BY <1>1, <1>3, <1>4, <1>5 DEF Sound

(* The audit row. *)
LEMMA AuditedSound ==
  ASSUME RowInv, IInv', NEW t \in Threads, Audited(t)
  PROVE  Sound(job'[t], working')
<1>. DEFINE e == job[t].entry
            log == working.audit_log
            log2 == working'.audit_log
            last == Len(log) + 1
<1>0. /\ log \in Seq(Entries) /\ e \in Entries /\ log2 = Append(log, e)
      /\ Sound(job[t], working) /\ job[t].stage # "stated"
      /\ job'[t].entry = BlankEntry /\ BlankEntry.ids = {}
      /\ working'.records = working.records /\ working'.record_index = working.record_index
  BY DEF RowInv, RInv, IInv, TypeOK, Databases, Jobs, Audited, BlankEntry
<1>1. /\ Len(log) \in Nat /\ Len(log2) = last /\ log2[last] = e
      /\ \A n \in 1..Len(log) : log2[n] = log[n]
  BY <1>0, AppendProperties
<1>2. ASSUME NEW i \in Ids
      PROVE  /\ Chained(working', BlankEntry, i) /\ Counted(working', BlankEntry, i)
             /\ Indexed(job'[t], working', i)
  <2>. DEFINE row == working.records[i]
  <2>0. Chained(working, e, i) /\ Counted(working, e, i) /\ Indexed(job[t], working, i)
    BY <1>0 DEF Sound
  <2>1. Indexed(job'[t], working', i)
    BY <1>0, <2>0 DEF Indexed
  <2>2. About(log, i) \subseteq 1..Len(log)
    BY DEF About
  <2>3. CASE i \notin e.ids
    <3>1. About(log2, i) = About(log, i)
      BY <1>1, <2>3 DEF About
    <3>2. \A n \in About(log, i) : log2[n] = log[n]
      BY <1>1, <2>2
    <3>3. \A m, n : Follows(log2, m, n, i) <=> Follows(log, m, n, i)
      BY <3>1 DEF Follows
    <3>4. \A m : Newest(log2, m, i) <=> Newest(log, m, i)
      BY <3>1 DEF Newest
    <3>5. Chained(working', BlankEntry, i)
      BY <1>0, <2>0, <2>3, <3>1, <3>2, <3>3, <3>4 DEF Chained
    <3>6. Counted(working', BlankEntry, i)
      <4>1. \A born : Since(log2, i, born) = Since(log, i, born)
        BY <3>1 DEF Since
      <4>. QED BY <1>0, <1>1, <2>0, <2>3, <4>1 DEF Counted
    <3>. QED BY <2>1, <3>5, <3>6
  <2>4. CASE i \in e.ids
    <3>1. About(log2, i) = About(log, i) \cup {last}
      BY <1>1, <2>4 DEF About
    <3>2. \A n \in About(log, i) : log2[n] = log[n] /\ n < last
      BY <1>1, <2>2
    <3>3. Chained(working', BlankEntry, i)
      <4>1. ASSUME NEW m \in About(log2, i), NEW n \in About(log2, i), Follows(log2, m, n, i),
                   log2[n].action # "insert", PayloadOf(log2[m], i) # Null
            PROVE  Start(log2[n], i) = PayloadOf(log2[m], i)
        <5>1. m \in About(log, i) /\ log2[m] = log[m]
          BY <1>1, <2>2, <3>1, <3>2, <4>1 DEF Follows
        <5>2. CASE n = last
          <6>1. Newest(log, m, i)
            BY <1>1, <2>2, <3>1, <3>2, <4>1, <5>2 DEF Follows, Newest
          <6>. QED BY <1>1, <2>0, <2>4, <4>1, <5>1, <5>2, <6>1 DEF Chained
        <5>3. CASE n # last
          <6>1. n \in About(log, i) /\ log2[n] = log[n]
            BY <3>1, <3>2, <5>3
          <6>2. Follows(log, m, n, i)
            BY <3>1, <4>1 DEF Follows
          <6>. QED BY <2>0, <4>1, <5>1, <6>1, <6>2 DEF Chained
        <5>. QED BY <5>2, <5>3
      <4>2. ASSUME NEW m \in About(log2, i), Newest(log2, m, i), PayloadOf(log2[m], i) # Null,
                   row.state # "absent"
            PROVE  row.data = PayloadOf(log2[m], i)
        <5>1. m = last
          BY <1>1, <2>2, <3>1, <3>2, <4>2 DEF Newest
        <5>. QED BY <1>1, <2>0, <2>4, <4>2, <5>1 DEF Chained
      <4>. QED BY <1>0, <4>1, <4>2 DEF Chained
    <3>4. Counted(working', BlankEntry, i)
      <4>1. SUFFICES ASSUME row.state # "absent"
                     PROVE  /\ row.born \in 1..last
                            /\ row.revision = Cardinality(Since(log2, i, row.born))
        BY <1>0, <1>1 DEF Counted
      <4>2. /\ row.born \in 1..last
            /\ row.revision = Cardinality(Since(log, i, row.born)) + 1
        BY <2>0, <2>4, <4>1 DEF Counted
      <4>3. Since(log2, i, row.born) = Since(log, i, row.born) \cup {last}
        BY <1>1, <3>1, <4>2 DEF Since
      <4>4. last \notin Since(log, i, row.born)
        BY <1>1, <3>2 DEF Since
      <4>5. IsFiniteSet(Since(log, i, row.born))
        BY <1>1, SinceFinite
      <4>. QED BY <4>2, <4>3, <4>4, <4>5, FS_AddElement
    <3>. QED BY <2>1, <3>3, <3>4
  <2>. QED BY <2>3, <2>4
<1>. QED BY <1>0, <1>2 DEF Sound

LEMMA ReindexedSound ==
  ASSUME RowInv, IInv', NEW t \in Threads, Reindexed(t)
  PROVE  Sound(job'[t], working')
<1>1. Sound(job[t], working) /\ job'[t].entry = job[t].entry
  BY DEF RowInv, Reindexed
<1>2. ASSUME NEW i \in Ids
      PROVE  Chained(working', job'[t].entry, i) /\ Counted(working', job'[t].entry, i)
  BY <1>1 DEF Sound, Reindexed, Chained, Counted
<1>3. ASSUME NEW i \in Ids
      PROVE  Indexed(job'[t], working', i)
  BY <1>1 DEF Sound, Reindexed, Indexed
<1>. QED BY <1>2, <1>3 DEF Sound

LEMMA RowInit == Init => RowInv
<1>. SUFFICES ASSUME Init PROVE RowInv
  OBVIOUS
<1>1. CallsWellFormed /\ \A t \in Threads : ~InWrite(t)
  BY DEF Init, CallsWellFormed, CallForm, InWrite, IdleJob
<1>2. Sound(IdleJob, durable)
  BY DEF Init, Sound, Chained, Counted, Indexed, About, AbsentRow, IdleJob, BlankEntry
<1>. QED BY <1>1, <1>2, RInvInit DEF RowInv

LEMMA RowStep ==
  ASSUME RowInv, [Next]_vars
  PROVE  RowInv'
<1>0. RInv' /\ IInv' /\ CallsWellFormed'
  BY RInvStep, CallsStep DEF RowInv, RInv
<1>1. \A s, t \in Threads : InWrite(s)' /\ writer' = t => s = t
  BY <1>0 DEF IInv, OneWriter
<1>2. ASSUME NEW t \in Threads, NEW i \in Ids, Wrote(t, i)
      PROVE  RowInv'
  <2>1. durable' = durable /\ writer' = t
    BY <1>2 DEF Wrote
  <2>. QED BY <1>0, <1>1, <1>2, <2>1, WroteSound DEF RowInv
<1>3. ASSUME NEW t \in Threads, Opened(t)
      PROVE  RowInv'
  <2>1. /\ durable' = durable /\ working' = durable /\ writer' = t
        /\ job'[t].entry = BlankEntry
    BY <1>3 DEF Opened
  <2>2. Sound(job'[t], working')
    BY <2>1, SoundBetween DEF RowInv
  <2>. QED BY <1>0, <1>1, <2>1, <2>2 DEF RowInv
<1>4. ASSUME NEW t \in Threads, Reindexed(t) \/ Audited(t)
      PROVE  RowInv'
  <2>1. durable' = durable /\ writer' = t
    BY <1>4 DEF Reindexed, Audited
  <2>. QED BY <1>0, <1>1, <1>4, <2>1, ReindexedSound, AuditedSound DEF RowInv
<1>5. ASSUME NEW t \in Threads, Committed(t)
      PROVE  RowInv'
  <2>1. Sound(IdleJob, working)
    BY <1>5, SoundBetween DEF Committed, RowInv
  <2>. QED BY <1>0, <1>5, <2>1 DEF Committed, RowInv
<1>6. CASE Elsewhere
  BY <1>0, <1>6 DEF Elsewhere, RowInv
<1>. QED BY <1>0, <1>2, <1>3, <1>4, <1>5, <1>6, StepKinds DEF RowInv

LEMMA RowsHold == Spec => []RowInv
BY RowInit, RowStep, PTL DEF Spec

(* The index never drifts from the committed rows, in any order of inserts, *)
(* merges, soft and hard deletes, restores and bulk calls.                  *)
THEOREM IndexCorrect == Spec => []IndexMatchesRecords
<1>1. RowInv => IndexMatchesRecords
  BY DEF RowInv, Sound, Indexed, IdleJob, IndexMatchesRecords
<1>. QED BY <1>1, RowsHold, PTL

(* The revision of every committed row is the number of audit rows about it *)
(* since it was inserted.                                                   *)
THEOREM RevisionsCorrect == Spec => []RevisionsCountEntries
<1>1. RowInv => RevisionsCountEntries
  BY DEF RowInv, Sound, Counted, IdleJob, BlankEntry, Since, RevisionsCountEntries
<1>. QED BY <1>1, RowsHold, PTL

(* The committed trail of every id is a chain: each entry starts from the   *)
(* payload the one before it ended with.                                    *)
THEOREM ChainCorrect == Spec => []TrailIsUnbroken
<1>1. RowInv => TrailIsUnbroken
  <2>1. SUFFICES ASSUME RowInv, NEW i \in Ids,
                        NEW m \in 1..Len(durable.audit_log), NEW n \in 1..Len(durable.audit_log),
                        m < n, i \in durable.audit_log[m].ids, i \in durable.audit_log[n].ids,
                        \A k \in (m + 1)..(n - 1) : i \notin durable.audit_log[k].ids,
                        durable.audit_log[n].action # "insert",
                        PayloadOf(durable.audit_log[m], i) # Null
                 PROVE  Start(durable.audit_log[n], i) = PayloadOf(durable.audit_log[m], i)
    BY DEF TrailIsUnbroken, Start
  <2>2. Len(durable.audit_log) \in Nat
    BY <2>1 DEF RowInv, RInv, IInv, TypeOK, Databases
  <2>3. m \in About(durable.audit_log, i) /\ n \in About(durable.audit_log, i)
    BY <2>1 DEF About
  <2>4. Follows(durable.audit_log, m, n, i)
    BY <2>1, <2>2 DEF Follows, About
  <2>. QED BY <2>1, <2>3, <2>4 DEF RowInv, Sound, Chained
<1>. QED BY <1>1, RowsHold, PTL

-----------------------------------------------------------------------------
(* Optimistic updates. *)

(* Row `row` carries on the life of `old`, a row or what a thread read of   *)
(* one: under the same birth the revision only grows, and an equal revision *)
(* means an equal payload.                                                  *)
Later(old, row) ==
  old.born = row.born => /\ old.revision <= row.revision
                         /\ old.revision = row.revision => old.data = row.data

(* What a thread read, if it read anything. *)
ReadOf(read, db) ==
  read.born # 0 => /\ read.id \in Ids
                   /\ read.born \in 1..Len(db.audit_log)
                   /\ Later(read, db.records[read.id])

LifeInv ==
  /\ RowInv
  /\ \A t \in Threads : ReadOf(snapshot[t], durable)
  /\ \A s \in Threads : InWrite(s) =>
       /\ \A t \in Threads : ReadOf(snapshot[t], working)
       /\ \A i \in Ids : durable.records[i].state # "absent" =>
                           Later(durable.records[i], working.records[i])
  /\ NoLostUpdate

LEMMA LifeInit == Init => LifeInv
<1>. SUFFICES ASSUME Init PROVE LifeInv
  OBVIOUS
<1>1. \A t \in Threads : snapshot[t].born = 0 /\ ~InWrite(t) /\ ~job[t].checked
  BY DEF Init, InWrite, IdleJob, NoSnapshot
<1>. QED BY <1>1, RowInit DEF LifeInv, ReadOf, NoLostUpdate

(* A row that a statement moved still carries on every earlier life. *)
LEMMA MovedLater ==
  ASSUME NEW length \in Nat, NEW row \in Rows, NEW row2, RowMoved(row, row2, length),
         NEW old, old.born \in 1..length, old.revision \in Nat, Later(old, row)
  PROVE  Later(old, row2)
BY DEF RowMoved, Later, AbsentRow, Rows

LEMMA LifeStep ==
  ASSUME LifeInv, [Next]_vars
  PROVE  LifeInv'
<1>0. RowInv /\ RowInv' /\ RInv /\ IInv /\ IInv' /\ CallsWellFormed /\ CallsWellFormed'
  BY RowStep DEF LifeInv, RowInv, RInv
<1>1. /\ durable \in Databases /\ working \in Databases
      /\ durable' \in Databases /\ working' \in Databases
      /\ snapshot \in [Threads -> Snapshots] /\ snapshot' \in [Threads -> Snapshots]
      /\ job \in [Threads -> Jobs] /\ job' \in [Threads -> Jobs]
  BY <1>0 DEF IInv, TypeOK
<1>2. \A db \in Databases : /\ Len(db.audit_log) \in Nat
                            /\ \A i \in Ids : db.records[i] \in Rows
  BY DEF Databases
<1>3. \A i \in Ids : durable.records[i].state # "absent" =>
                        durable.records[i].born \in 1..Len(durable.audit_log)
  BY <1>0 DEF RowInv, Sound, Counted, IdleJob, BlankEntry
<1>4. \A t \in Threads : InWrite(t) => Len(durable.audit_log) <= Len(working.audit_log)
  BY <1>0 DEF RInv, WorkingUnfolds, Unfolds, TrailContinues
<1>5. \A s, t \in Threads : InWrite(s)' /\ writer' = t => s = t
  BY <1>0 DEF IInv, OneWriter
<1>6. \A s \in Threads : job'[s].checked => InWrite(s)'
  BY <1>0 DEF CallsWellFormed, CallForm, InWrite
<1>7. \A s \in Threads : job[s].checked => InWrite(s)
  BY <1>0 DEF CallsWellFormed, CallForm, InWrite
<1>8. ASSUME NEW t \in Threads, NEW i \in Ids, Wrote(t, i)
      PROVE  LifeInv'
  <2>. DEFINE row == working.records[i]
              row2 == working'.records[i]
  <2>1. /\ InWrite(t) /\ writer' = t /\ durable' = durable /\ snapshot' = snapshot
        /\ working'.audit_log = working.audit_log
        /\ \A j \in Ids \ {i} : working'.records[j] = working.records[j]
        /\ RowMoved(row, row2, Len(working.audit_log))
    BY <1>8 DEF Wrote
  <2>2. row \in Rows /\ Len(working.audit_log) \in Nat /\ Len(durable.audit_log) \in Nat
    BY <1>1, <1>2
  <2>3. ASSUME NEW s \in Threads
        PROVE  ReadOf(snapshot[s], working')
    <3>. DEFINE read == snapshot[s]
    <3>1. ReadOf(read, working) /\ ReadOf(read, durable) /\ read \in Snapshots
      BY <1>1, <2>1 DEF LifeInv
    <3>. HIDE DEF read
    <3>2. SUFFICES ASSUME read.born # 0
                   PROVE  Later(read, working'.records[read.id])
      BY <2>1, <3>1 DEF ReadOf, read
    <3>3. /\ read.id \in Ids /\ read.born \in 1..Len(working.audit_log)
          /\ read.revision \in Nat /\ Later(read, working.records[read.id])
      BY <3>1, <3>2 DEF ReadOf, Snapshots
    <3>4. CASE read.id = i
      BY <2>1, <2>2, <3>3, <3>4, MovedLater
    <3>5. CASE read.id # i
      BY <2>1, <3>3, <3>5
    <3>. QED BY <3>4, <3>5
  <2>4. ASSUME NEW j \in Ids, durable.records[j].state # "absent"
        PROVE  Later(durable.records[j], working'.records[j])
    <3>. DEFINE old == durable.records[j]
    <3>1. /\ Later(old, working.records[j]) /\ old \in Rows
          /\ old.born \in 1..Len(durable.audit_log)
      BY <1>1, <1>2, <1>3, <2>1, <2>4 DEF LifeInv
    <3>2. old.born \in 1..Len(working.audit_log) /\ old.revision \in Nat
      BY <1>4, <2>1, <2>2, <3>1 DEF Rows
    <3>. HIDE DEF old
    <3>3. CASE j = i
      BY <2>1, <2>2, <3>1, <3>2, <3>3, MovedLater DEF old
    <3>4. CASE j # i
      BY <2>1, <3>1, <3>4 DEF old
    <3>. QED BY <3>3, <3>4
  <2>5. ASSUME NEW s \in Threads, job'[s].checked,
               snapshot[s].born = working'.records[snapshot[s].id].born
        PROVE  job'[s].entry.before[snapshot[s].id] = snapshot[s].data
    <3>1. s = t
      BY <1>5, <1>6, <2>1, <2>5
    <3>2. /\ snapshot[t].id = i /\ snapshot[t].revision = row.revision
          /\ row2.born = row.born /\ row2.state # "absent"
          /\ job'[t].entry.before[i] = row.data
      BY <1>8, <2>5, <3>1 DEF Wrote
    <3>3. snapshot[t].born # 0
      <4>1. Counted(working', job'[t].entry, i) /\ InWrite(t)'
        BY <1>0, <1>8 DEF RowInv, Sound, Wrote
      <4>2. row2.born # 0
        BY <3>2, <4>1 DEF Counted
      <4>. QED BY <2>5, <3>1, <3>2, <4>2
    <3>4. Later(snapshot[t], row)
      BY <2>1, <3>2, <3>3 DEF LifeInv, ReadOf
    <3>. QED BY <2>5, <3>1, <3>2, <3>4 DEF Later
  <2>6. NoLostUpdate'
    BY <2>1, <2>5 DEF NoLostUpdate
  <2>7. \A s \in Threads : ReadOf(snapshot[s], durable)
    BY DEF LifeInv
  <2>. QED BY <1>0, <2>1, <2>3, <2>4, <2>6, <2>7 DEF LifeInv
<1>9. ASSUME NEW t \in Threads, Opened(t)
      PROVE  LifeInv'
  <2>1. /\ durable' = durable /\ working' = durable /\ snapshot' = snapshot /\ writer' = t
        /\ job'[t].stage = "open"
    BY <1>9 DEF Opened
  <2>2. \A s \in Threads : ~job'[s].checked
    BY <1>0, <1>5, <1>6, <2>1 DEF CallsWellFormed, CallForm
  <2>3. \A i \in Ids : Later(durable.records[i], durable.records[i])
    BY <1>1, <1>2 DEF Later, Rows
  <2>. QED BY <1>0, <2>1, <2>2, <2>3 DEF LifeInv, NoLostUpdate
<1>10. ASSUME NEW t \in Threads, Reindexed(t) \/ Audited(t)
       PROVE  LifeInv'
  <2>1. /\ InWrite(t) /\ writer' = t /\ durable' = durable /\ snapshot' = snapshot
        /\ working'.records = working.records
        /\ Len(working'.audit_log) >= Len(working.audit_log)
    <3>1. CASE Reindexed(t)
      BY <1>1, <1>2, <3>1 DEF Reindexed
    <3>2. CASE Audited(t)
      <4>1. job[t].entry \in Entries /\ working.audit_log \in Seq(Entries)
        BY <1>1 DEF Jobs, Databases
      <4>. QED BY <3>2, <4>1, AppendProperties DEF Audited
    <3>. QED BY <1>10, <3>1, <3>2
  <2>2. Len(working.audit_log) \in Nat /\ Len(working'.audit_log) \in Nat
    BY <1>1, <1>2
  <2>3. \A s \in Threads : ReadOf(snapshot[s], working')
    BY <2>1, <2>2 DEF LifeInv, ReadOf
  <2>4. NoLostUpdate'
    <3>1. CASE Reindexed(t)
      BY <1>5, <1>6, <2>1, <3>1 DEF Reindexed, LifeInv, NoLostUpdate
    <3>2. CASE Audited(t)
      BY <1>0, <1>5, <1>6, <2>1, <3>2 DEF Audited, NoLostUpdate, CallsWellFormed, CallForm
    <3>. QED BY <1>10, <3>1, <3>2
  <2>. QED BY <1>0, <2>1, <2>3, <2>4 DEF LifeInv
<1>11. ASSUME NEW t \in Threads, Committed(t)
       PROVE  LifeInv'
  <2>1. /\ InWrite(t) /\ durable' = working /\ snapshot' = snapshot
        /\ \A s \in Threads : ~InWrite(s)'
    BY <1>11 DEF Committed
  <2>. QED BY <1>0, <1>6, <2>1 DEF LifeInv, NoLostUpdate
<1>12. CASE Elsewhere
  <2>1. durable' = durable
    BY <1>12 DEF Elsewhere
  <2>2. ASSUME NEW s \in Threads, NEW db \in {durable, working}, ReadOf(snapshot[s], db),
               \A i \in Ids : durable.records[i].state # "absent" =>
                   /\ Later(durable.records[i], db.records[i])
                   /\ durable.records[i].born \in 1..Len(db.audit_log)
        PROVE  ReadOf(snapshot'[s], db)
    <3>1. CASE snapshot'[s] = snapshot[s] \/ snapshot'[s].born = 0
      BY <2>2, <3>1 DEF ReadOf
    <3>2. CASE \E i \in Ids : LET row == durable.records[i]
                             IN /\ row.state = "live"
                                /\ snapshot'[s] = [id |-> i, data |-> row.data,
                                     revision |-> row.revision, born |-> row.born]
      <4>1. PICK i \in Ids : LET row == durable.records[i]
                             IN /\ row.state = "live"
                                /\ snapshot'[s] = [id |-> i, data |-> row.data,
                                     revision |-> row.revision, born |-> row.born]
        BY <3>2
      <4>. QED BY <2>2, <4>1 DEF ReadOf, Later
    <3>. QED BY <1>12, <3>1, <3>2 DEF Elsewhere
  <2>3. \A s \in Threads : ReadOf(snapshot'[s], durable)
    <3>1. \A i \in Ids : Later(durable.records[i], durable.records[i])
      BY <1>1, <1>2 DEF Later, Rows
    <3>. QED BY <1>3, <2>2, <3>1 DEF LifeInv
  <2>4. ASSUME NEW w \in Threads, InWrite(w)'
        PROVE  /\ InWrite(w) /\ working' = working
               /\ \A s \in Threads : ReadOf(snapshot'[s], working)
    <3>1. InWrite(w) /\ working' = working
      BY <1>12, <2>4 DEF Elsewhere
    <3>2. \A i \in Ids : durable.records[i].state # "absent" =>
                             durable.records[i].born \in 1..Len(working.audit_log)
      BY <1>1, <1>2, <1>3, <1>4, <3>1
    <3>. QED BY <2>2, <3>1, <3>2 DEF LifeInv
  <2>5. NoLostUpdate'
    BY <1>6, <1>12 DEF Elsewhere, LifeInv, NoLostUpdate
  <2>. QED BY <1>0, <2>1, <2>3, <2>4, <2>5 DEF LifeInv
<1>. QED BY <1>0, <1>8, <1>9, <1>10, <1>11, <1>12, StepKinds

(* No update that passed expected_revision overwrites what its caller did   *)
(* not read, however many threads and processes read and write the row.     *)
THEOREM UpdateCorrect == Spec => []NoLostUpdate
<1>1. Spec => []LifeInv
  BY LifeInit, LifeStep, PTL DEF Spec
<1>2. LifeInv => NoLostUpdate
  BY DEF LifeInv
<1>. QED BY <1>1, <1>2, PTL

-----------------------------------------------------------------------------
(* The mirror. *)

(* A line copies the row of the trail whose seq it carries. *)
Copies(line, log) == line.seq \in 1..Len(log) /\ log[line.seq] = line.entry

AllCopy(lines, log) == \A k \in 1..Len(lines) : Copies(lines[k], log)

Once(lines) == \A k, l \in 1..Len(lines) : lines[k].seq = lines[l].seq => k = l

Apart(lines, others) ==
  \A k \in 1..Len(lines), l \in 1..Len(others) : lines[k].seq # others[l].seq

(* The lines a thread still has to write. *)
Queue(t) == job[t].pending

(* Lines queued by an open transaction copy rows only it can see. *)
QueueAhead(t) ==
  /\ AllCopy(Queue(t), working.audit_log)
  /\ Once(Queue(t))
  /\ \A k \in 1..Len(Queue(t)) : Len(durable.audit_log) < Queue(t)[k].seq

(* Lines queued after the commit copy committed rows nobody else copies. *)
QueueOwed(t) ==
  /\ AllCopy(Queue(t), durable.audit_log)
  /\ Once(Queue(t))
  /\ Apart(Queue(t), mirror)
  /\ \A s \in Threads \ {t} : job[s].stage = "mirroring" => Apart(Queue(t), Queue(s))

QueueFits(t) ==
  /\ job[t].stage \in {"idle", "locked"} => Queue(t) = <<>>
  /\ InWrite(t) => QueueAhead(t)
  /\ job[t].stage = "mirroring" => QueueOwed(t)

MirrorInv ==
  /\ RInv
  /\ AllCopy(mirror, durable.audit_log)
  /\ Once(mirror)
  /\ \A t \in Threads : QueueFits(t)

LEMMA NoLines ==
  /\ \A log : AllCopy(<<>>, log)
  /\ Once(<<>>)
  /\ \A lines : Apart(<<>>, lines) /\ Apart(lines, <<>>)
BY DEF AllCopy, Once, Apart

(* Every thread keeps its call and its lines, or has none to write. *)
LEMMA QueuesDrop ==
  ASSUME MirrorInv, RInv', mirror' = mirror, durable' = durable,
         \A s \in Threads : \/ job'[s].pending = <<>>
                            \/ job'[s] = job[s] /\ (InWrite(s) => working' = working)
  PROVE  MirrorInv'
<1>1. ASSUME NEW t \in Threads
      PROVE  QueueFits(t)'
  <2>1. CASE job'[t].pending = <<>>
    BY <2>1, NoLines DEF QueueFits, QueueAhead, QueueOwed, Queue
  <2>2. CASE job'[t] = job[t] /\ (InWrite(t) => working' = working)
    <3>1. QueueFits(t)
      BY DEF MirrorInv
    <3>2. InWrite(t)' => QueueAhead(t)'
      BY <2>2, <3>1 DEF QueueFits, QueueAhead, Queue, InWrite
    <3>3. job'[t].stage = "mirroring" => QueueOwed(t)'
      BY <2>2, <3>1, NoLines DEF QueueFits, QueueOwed, Queue
    <3>. QED BY <2>2, <3>1, <3>2, <3>3 DEF QueueFits, Queue
  <2>. QED BY <2>1, <2>2
<1>. QED BY <1>1 DEF MirrorInv

(* The writer goes on, with the lines it queued and the trail it wrote. *)
LEMMA QueueStays ==
  ASSUME MirrorInv, RInv', NEW t \in Threads, mirror' = mirror, durable' = durable,
         InWrite(t), InWrite(t)', job'[t].pending = job[t].pending,
         working'.audit_log = working.audit_log,
         \A s \in Threads \ {t} : job'[s] = job[s]
  PROVE  MirrorInv'
<1>1. \A s \in Threads \ {t} : ~InWrite(s) /\ ~InWrite(s)'
  BY DEF MirrorInv, RInv, IInv, OneWriter, InWrite
<1>2. job'[t].stage \notin {"idle", "locked", "mirroring"}
  BY DEF InWrite
<1>3. QueueFits(t)'
  BY <1>2 DEF MirrorInv, QueueFits, QueueAhead, Queue
<1>4. ASSUME NEW s \in Threads \ {t}
      PROVE  QueueFits(s)'
  BY <1>1, <1>2, <1>4 DEF MirrorInv, QueueFits, QueueOwed, Queue
<1>. QED BY <1>3, <1>4 DEF MirrorInv

(* The audit row and the line that copies it. *)
LEMMA QueueGrows ==
  ASSUME MirrorInv, RInv', NEW t \in Threads, Audit(t)
  PROVE  MirrorInv'
<1>. DEFINE log == working.audit_log
            e == job[t].entry
            line == [seq |-> Len(log) + 1, entry |-> e]
            old == job[t].pending
            new == job'[t].pending
<1>1. /\ job \in [Threads -> Jobs] /\ log \in Seq(Entries) /\ e \in Entries
      /\ old \in Seq(Lines) /\ durable.audit_log \in Seq(Entries)
  BY DEF MirrorInv, RInv, IInv, TypeOK, Databases, Jobs
<1>2. /\ mirror' = mirror /\ durable' = durable
      /\ working'.audit_log = Append(log, e) /\ new = Append(old, line)
      /\ job'[t].stage = "audited" /\ InWrite(t)
      /\ \A s \in Threads \ {t} : job'[s] = job[s]
  BY <1>1 DEF Audit, InWrite, Jobs, MirrorInv, RInv, IInv, TypeOK, Databases
<1>3. line \in Lines
  BY <1>1 DEF Lines
<1>4. /\ Len(working'.audit_log) = Len(log) + 1 /\ Len(log) \in Nat
      /\ working'.audit_log[Len(log) + 1] = e
      /\ \A n \in 1..Len(log) : working'.audit_log[n] = log[n]
      /\ Len(durable.audit_log) \in Nat
  BY <1>1, <1>2, AppendProperties
<1>5. /\ line.seq = Len(log) + 1 /\ line.entry = e
  OBVIOUS
<1>. HIDE DEF line
<1>6. /\ Len(new) = Len(old) + 1 /\ Len(old) \in Nat /\ new[Len(old) + 1] = line
      /\ \A k \in 1..Len(old) : new[k] = old[k]
  BY <1>1, <1>2, <1>3, AppendProperties
<1>7. Len(durable.audit_log) <= Len(log)
  BY <1>2 DEF MirrorInv, RInv, WorkingUnfolds, Unfolds, TrailContinues
<1>8. QueueAhead(t)
  BY <1>2 DEF MirrorInv, QueueFits
<1>. HIDE DEF old, new
<1>9. \A k \in 1..Len(old) : old[k].seq \in 1..Len(log) /\ log[old[k].seq] = old[k].entry
  BY <1>8 DEF QueueAhead, AllCopy, Copies, Queue, old
<1>10. AllCopy(new, working'.audit_log)
  <2>1. SUFFICES ASSUME NEW k \in 1..Len(new)
                 PROVE  Copies(new[k], working'.audit_log)
    BY DEF AllCopy
  <2>2. CASE k \in 1..Len(old)
    <3>1. new[k] = old[k] /\ old[k].seq \in 1..Len(log) /\ log[old[k].seq] = old[k].entry
      BY <1>6, <1>9, <2>2
    <3>. QED BY <1>4, <3>1 DEF Copies
  <2>3. CASE k = Len(old) + 1
    BY <1>4, <1>5, <1>6, <2>3 DEF Copies
  <2>. QED BY <1>6, <2>2, <2>3
<1>11. Once(new)
  <2>1. Once(old)
    BY <1>8 DEF QueueAhead, Queue, old
  <2>2. \A k \in 1..Len(old) : new[k].seq < Len(log) + 1
    BY <1>4, <1>6, <1>9
  <2>3. SUFFICES ASSUME NEW k \in 1..Len(new), NEW l \in 1..Len(new), new[k].seq = new[l].seq
                 PROVE  k = l
    BY DEF Once
  <2>4. CASE k \in 1..Len(old) /\ l \in 1..Len(old)
    BY <1>6, <2>1, <2>3, <2>4 DEF Once
  <2>5. CASE k = Len(old) + 1 \/ l = Len(old) + 1
    BY <1>4, <1>5, <1>6, <2>2, <2>3, <2>5
  <2>. QED BY <1>6, <2>4, <2>5
<1>12. \A k \in 1..Len(new) : Len(durable.audit_log) < new[k].seq
  <2>1. \A k \in 1..Len(old) : Len(durable.audit_log) < new[k].seq
    BY <1>6, <1>8 DEF QueueAhead, Queue, old
  <2>2. Len(durable.audit_log) < new[Len(old) + 1].seq
    BY <1>4, <1>5, <1>6, <1>7
  <2>. QED BY <1>6, <2>1, <2>2
<1>13. QueueFits(t)'
  BY <1>2, <1>10, <1>11, <1>12 DEF QueueFits, QueueAhead, Queue, new
<1>14. ASSUME NEW s \in Threads \ {t}
       PROVE  QueueFits(s)'
  <2>1. ~InWrite(s) /\ ~InWrite(s)'
    BY <1>2 DEF MirrorInv, RInv, IInv, OneWriter, InWrite
  <2>2. job'[t].stage # "mirroring"
    BY <1>2
  <2>. QED BY <1>2, <2>1, <2>2 DEF MirrorInv, QueueFits, QueueOwed, Queue
<1>. QED BY <1>2, <1>13, <1>14 DEF MirrorInv

(* The commit turns the lines of the transaction into lines that are owed. *)
LEMMA QueueCommitted ==
  ASSUME MirrorInv, RInv', NEW t \in Threads, Commit(t)
  PROVE  MirrorInv'
<1>1. /\ durable' = working /\ mirror' = mirror /\ InWrite(t)
      /\ job'[t].pending = job[t].pending /\ job'[t].stage = "mirroring"
      /\ \A s \in Threads \ {t} : job'[s] = job[s]
  BY DEF Commit, CanCommit, InWrite, Jobs, MirrorInv, RInv, IInv, TypeOK
<1>2. /\ TrailContinues(durable, working)
      /\ Len(durable.audit_log) \in Nat /\ Len(working.audit_log) \in Nat
  BY <1>1 DEF MirrorInv, RInv, IInv, TypeOK, Databases, WorkingUnfolds, Unfolds
<1>3. \A line : Copies(line, durable.audit_log) => Copies(line, working.audit_log)
  BY <1>2 DEF Copies, TrailContinues
<1>4. QueueAhead(t)
  BY <1>1 DEF MirrorInv, QueueFits
<1>5. AllCopy(mirror, working.audit_log)
  BY <1>3 DEF MirrorInv, AllCopy
<1>6. Apart(Queue(t), mirror)
  <2>1. \A l \in 1..Len(mirror) : mirror[l].seq \in 1..Len(durable.audit_log)
    BY DEF MirrorInv, AllCopy, Copies
  <2>2. \A k \in 1..Len(Queue(t)) : /\ Queue(t)[k].seq \in 1..Len(working.audit_log)
                                    /\ Len(durable.audit_log) < Queue(t)[k].seq
    BY <1>4 DEF QueueAhead, AllCopy, Copies
  <2>. QED BY <1>2, <2>1, <2>2 DEF Apart
<1>7. ASSUME NEW s \in Threads \ {t}, job[s].stage = "mirroring"
      PROVE  /\ QueueOwed(s) /\ AllCopy(Queue(s), working.audit_log)
             /\ Apart(Queue(t), Queue(s)) /\ Apart(Queue(s), Queue(t))
  <2>1. QueueOwed(s)
    BY <1>7 DEF MirrorInv, QueueFits
  <2>2. AllCopy(Queue(s), working.audit_log)
    BY <1>3, <2>1 DEF QueueOwed, AllCopy
  <2>3. \A l \in 1..Len(Queue(s)) : Queue(s)[l].seq \in 1..Len(durable.audit_log)
    BY <2>1 DEF QueueOwed, AllCopy, Copies
  <2>4. \A k \in 1..Len(Queue(t)) : /\ Queue(t)[k].seq \in 1..Len(working.audit_log)
                                    /\ Len(durable.audit_log) < Queue(t)[k].seq
    BY <1>4 DEF QueueAhead, AllCopy, Copies
  <2>. QED BY <1>2, <2>1, <2>2, <2>3, <2>4 DEF Apart
<1>8. QueueFits(t)'
  <2>1. QueueOwed(t)'
    BY <1>1, <1>4, <1>6, <1>7 DEF QueueOwed, QueueAhead, Queue
  <2>. QED BY <1>1, <2>1 DEF QueueFits, InWrite
<1>9. ASSUME NEW s \in Threads \ {t}
      PROVE  QueueFits(s)'
  <2>1. ~InWrite(s) /\ ~InWrite(s)' /\ job'[s] = job[s] /\ QueueFits(s)
    BY <1>1 DEF MirrorInv, RInv, IInv, OneWriter, InWrite
  <2>2. job[s].stage = "mirroring" => QueueOwed(s)'
    BY <1>1, <1>7 DEF QueueOwed, Queue
  <2>. QED BY <2>1, <2>2 DEF QueueFits, Queue
<1>. QED BY <1>1, <1>5, <1>8, <1>9 DEF MirrorInv

(* One line leaves the queue, for the mirror or for good. *)
LEMMA LineLeaves ==
  ASSUME MirrorInv, RInv', NEW t \in Threads, WriteMirror(t) \/ LoseMirror(t)
  PROVE  MirrorInv'
<1>. DEFINE old == job[t].pending
            new == job'[t].pending
            line == Head(old)
<1>1. /\ job \in [Threads -> Jobs] /\ old \in Seq(Lines) /\ mirror \in Seq(Lines)
      /\ old # <<>>
  BY DEF MirrorInv, RInv, IInv, TypeOK, Jobs, WriteMirror, LoseMirror
<1>2. /\ durable' = durable /\ working' = working
      /\ job[t].stage = "mirroring" /\ job'[t].stage = "mirroring"
      /\ new = Tail(old)
      /\ mirror' = mirror \/ mirror' = Append(mirror, line)
      /\ \A s \in Threads \ {t} : job'[s] = job[s]
  BY <1>1 DEF WriteMirror, LoseMirror, Jobs
<1>3. /\ Len(old) \in Nat \ {0} /\ line = old[1] /\ line \in Lines
      /\ Len(new) = Len(old) - 1 /\ \A k \in 1..Len(new) : new[k] = old[k + 1]
  <2>1. /\ line \in Lines /\ new \in Seq(Lines)
        /\ Len(new) = Len(old) - 1 /\ \A k \in 1..Len(new) : new[k] = old[k + 1]
    BY <1>1, <1>2, HeadTailProperties
  <2>2. Len(old) \in Nat /\ Len(old) # 0 /\ line = old[1]
    BY <1>1, LenProperties, EmptySeq
  <2>. QED BY <2>1, <2>2
<1>4. QueueOwed(t)
  BY <1>2 DEF MirrorInv, QueueFits
<1>. HIDE DEF old, new, line
<1>5. /\ AllCopy(old, durable.audit_log) /\ Once(old) /\ Apart(old, mirror)
      /\ \A s \in Threads \ {t} : job[s].stage = "mirroring" => Apart(old, Queue(s))
  BY <1>4 DEF QueueOwed, Queue, old
<1>6. \A k \in 1..Len(new) : k + 1 \in 1..Len(old) /\ k + 1 # 1 /\ 1 \in 1..Len(old)
  BY <1>3
<1>7. /\ AllCopy(new, durable.audit_log) /\ Once(new)
      /\ \A lines : Apart(old, lines) => Apart(new, lines)
      /\ \A lines : Apart(lines, old) => Apart(lines, new)
  <2>1. AllCopy(new, durable.audit_log)
    BY <1>3, <1>5, <1>6 DEF AllCopy
  <2>2. Once(new)
    BY <1>3, <1>5, <1>6 DEF Once
  <2>3. ASSUME NEW lines
        PROVE  /\ Apart(old, lines) => Apart(new, lines)
               /\ Apart(lines, old) => Apart(lines, new)
    BY <1>3, <1>6 DEF Apart
  <2>. QED BY <2>1, <2>2, <2>3
<1>8. \A k \in 1..Len(new) : new[k].seq # line.seq
  BY <1>3, <1>5, <1>6 DEF Once
<1>9. Copies(line, durable.audit_log)
  BY <1>3, <1>5 DEF AllCopy
<1>10. \A k \in 1..Len(mirror) : mirror[k].seq # line.seq
  BY <1>3, <1>5 DEF Apart
<1>11. ASSUME NEW s \in Threads \ {t}, job[s].stage = "mirroring"
       PROVE  /\ QueueOwed(s) /\ Apart(Queue(s), new) /\ Apart(Queue(s), mirror)
              /\ \A k \in 1..Len(Queue(s)) : Queue(s)[k].seq # line.seq
  <2>1. QueueOwed(s)
    BY <1>11 DEF MirrorInv, QueueFits
  <2>2. Apart(Queue(s), old)
    BY <1>2, <2>1 DEF QueueOwed, Queue, old
  <2>. QED BY <1>3, <1>7, <2>1, <2>2 DEF QueueOwed, Apart
<1>12. /\ AllCopy(mirror', durable.audit_log) /\ Once(mirror')
       /\ \A lines : (Apart(lines, mirror) /\ \A k \in 1..Len(lines) : lines[k].seq # line.seq)
                     => Apart(lines, mirror')
  <2>1. CASE mirror' = mirror
    BY <2>1 DEF MirrorInv
  <2>2. CASE mirror' = Append(mirror, line)
    <3>1. /\ Len(mirror) \in Nat /\ Len(mirror') = Len(mirror) + 1
          /\ mirror'[Len(mirror) + 1] = line
          /\ \A k \in 1..Len(mirror) : mirror'[k] = mirror[k]
      BY <1>1, <1>3, <2>2, AppendProperties
    <3>2. \A k \in 1..Len(mirror') : k \in 1..Len(mirror) \/ k = Len(mirror) + 1
      BY <3>1
    <3>3. AllCopy(mirror', durable.audit_log)
      BY <1>9, <3>1, <3>2 DEF MirrorInv, AllCopy
    <3>4. Once(mirror')
      BY <1>10, <3>1, <3>2 DEF MirrorInv, Once
    <3>5. ASSUME NEW lines, Apart(lines, mirror), \A k \in 1..Len(lines) : lines[k].seq # line.seq
          PROVE  Apart(lines, mirror')
      BY <3>1, <3>2, <3>5 DEF Apart
    <3>. QED BY <3>3, <3>4, <3>5
  <2>. QED BY <1>2, <2>1, <2>2
<1>13. QueueFits(t)'
  <2>1. Apart(new, mirror')
    BY <1>5, <1>7, <1>8, <1>12
  <2>2. QueueOwed(t)'
    BY <1>2, <1>5, <1>7, <2>1 DEF QueueOwed, Queue, new
  <2>. QED BY <1>2, <2>2 DEF QueueFits, InWrite
<1>14. ASSUME NEW s \in Threads \ {t}
       PROVE  QueueFits(s)'
  <2>1. job'[s] = job[s] /\ QueueFits(s)
    BY <1>2 DEF MirrorInv
  <2>2. InWrite(s)' => QueueAhead(s)'
    BY <1>2, <2>1 DEF QueueFits, QueueAhead, Queue, InWrite
  <2>3. ASSUME job[s].stage = "mirroring"
        PROVE  QueueOwed(s)'
    <3>1. Apart(Queue(s), mirror') /\ Apart(Queue(s), new) /\ QueueOwed(s)
      BY <1>11, <1>12, <2>3
    <3>. QED BY <1>2, <2>1, <3>1 DEF QueueOwed, Queue, new
  <2>. QED BY <2>1, <2>2, <2>3 DEF QueueFits, Queue
<1>. QED BY <1>2, <1>12, <1>13, <1>14 DEF MirrorInv

LEMMA MirrorInit == Init => MirrorInv
<1>. SUFFICES ASSUME Init PROVE MirrorInv
  OBVIOUS
<1>1. mirror = <<>> /\ \A t \in Threads : job[t].stage = "idle" /\ job[t].pending = <<>>
  BY DEF Init, IdleJob
<1>. QED BY <1>1, RInvInit, NoLines DEF MirrorInv, QueueFits, Queue, InWrite

LEMMA MirrorStep ==
  ASSUME MirrorInv, CallsWellFormed, [Next]_vars
  PROVE  MirrorInv'
<1>0. RInv /\ RInv' /\ IInv'
  BY RInvStep DEF MirrorInv, RInv
<1>1. job \in [Threads -> Jobs] /\ job' \in [Threads -> Jobs]
  BY <1>0 DEF RInv, IInv, TypeOK
<1>2. ASSUME NEW t \in Threads, Statement(t)
      PROVE  MirrorInv'
  <2>1. PICK i \in Ids : Wrote(t, i)
    BY <1>0, <1>2, StatementWrote
  <2>. QED BY <1>0, <2>1, QueueStays DEF Wrote
<1>3. ASSUME NEW t \in Threads, Reindex(t)
      PROVE  MirrorInv'
  <2>1. /\ InWrite(t) /\ InWrite(t)' /\ job'[t].pending = job[t].pending
        /\ \A s \in Threads \ {t} : job'[s] = job[s]
    BY <1>1, <1>3 DEF Reindex, InWrite, Jobs
  <2>2. working'.audit_log = working.audit_log
    BY <1>0, <1>3 DEF Reindex, RInv, IInv, TypeOK, Databases
  <2>3. mirror' = mirror /\ durable' = durable
    BY <1>3 DEF Reindex
  <2>. QED BY <1>0, <2>1, <2>2, <2>3, QueueStays
<1>4. ASSUME NEW t \in Threads, Audit(t) \/ Commit(t) \/ WriteMirror(t) \/ LoseMirror(t)
      PROVE  MirrorInv'
  BY <1>0, <1>4, QueueGrows, QueueCommitted, LineLeaves
<1>5. ASSUME NEW t \in Threads, BeginImmediate(t)
      PROVE  MirrorInv'
  <2>1. /\ job[t].stage = "locked" /\ job'[t].pending = job[t].pending
        /\ \A s \in Threads \ {t} : job'[s] = job[s]
    BY <1>1, <1>5 DEF BeginImmediate, Jobs
  <2>2. job'[t].pending = <<>>
    BY <2>1 DEF MirrorInv, QueueFits, Queue
  <2>3. \A s \in Threads : ~InWrite(s)
    BY <1>0, <1>5, ThreadAssumption DEF BeginImmediate, RInv, IInv, OneWriter
  <2>. QED BY <1>0, <1>5, <2>1, <2>2, <2>3, QueuesDrop DEF BeginImmediate
<1>6. ASSUME NEW t \in Threads,
             \/ BusyTimeout(t) \/ Return(t) \/ Rollback(t)
             \/ \E kind \in Kinds : AcquireLock(t, kind)
      PROVE  MirrorInv'
  <2>1. /\ mirror' = mirror /\ durable' = durable
        /\ job'[t].pending = <<>> /\ \A s \in Threads \ {t} : job'[s] = job[s]
    <3>1. CASE BusyTimeout(t) \/ Return(t) \/ Rollback(t)
      BY <1>1, <3>1 DEF BusyTimeout, Return, Rollback, IdleJob
    <3>2. CASE \E kind \in Kinds : AcquireLock(t, kind)
      BY <1>1, <3>2 DEF AcquireLock, IdleJob
    <3>. QED BY <1>6, <3>1, <3>2
  <2>2. \A s \in Threads \ {t} : InWrite(s) => working' = working
    BY <1>0, <1>6 DEF BusyTimeout, Return, Rollback, AcquireLock, InWrite, RInv, IInv, OneWriter
  <2>. QED BY <1>0, <2>1, <2>2, QueuesDrop
<1>7. ASSUME NEW t \in Threads, NEW i \in Ids, Get(t, i)
      PROVE  MirrorInv'
  BY <1>0, <1>7, QueuesDrop DEF Get
<1>8. ASSUME NEW c \in Conns, Crash(c)
      PROVE  MirrorInv'
  <2>. DEFINE mine == {t \in Threads : ConnOf[t] = c}
  <2>1. /\ mirror' = mirror /\ durable' = durable
        /\ \A s \in Threads : job'[s] = IF s \in mine THEN IdleJob ELSE job[s]
        /\ working' = IF writer \in mine THEN durable ELSE working
    BY <1>8 DEF Crash
  <2>2. ASSUME NEW s \in Threads
        PROVE  \/ job'[s].pending = <<>>
               \/ job'[s] = job[s] /\ (InWrite(s) => working' = working)
    <3>1. CASE s \in mine
      BY <2>1, <3>1 DEF IdleJob
    <3>2. CASE s \notin mine
      BY <1>0, <2>1, <3>2 DEF RInv, IInv, OneWriter
    <3>. QED BY <3>1, <3>2
  <2>. QED BY <1>0, <2>1, <2>2, QueuesDrop
<1>9. CASE UNCHANGED vars
  BY <1>0, <1>9, QueuesDrop DEF vars
<1>. QED BY <1>2, <1>3, <1>4, <1>5, <1>6, <1>7, <1>8, <1>9 DEF Next

(* Every line of the JSONL mirror copies an audit row that is committed, and *)
(* no row is copied twice, whatever threads, processes, rollbacks, lost     *)
(* lines and crashes lie between a commit and its lines.                    *)
THEOREM MirrorCorrect == Spec => []MirrorTellsCommitted
<1>1. Init => MirrorInv /\ CallsWellFormed
  BY MirrorInit, RowInit DEF RowInv
<1>2. MirrorInv /\ CallsWellFormed /\ [Next]_vars => MirrorInv' /\ CallsWellFormed'
  BY MirrorStep, CallsStep, RInvStep DEF MirrorInv, RInv
<1>3. MirrorInv => MirrorTellsCommitted
  <2>1. SUFFICES ASSUME MirrorInv, NEW n \in 1..Len(mirror)
                 PROVE  /\ Copies(mirror[n], durable.audit_log)
                        /\ \A m \in 1..(n - 1) : mirror[m].seq # mirror[n].seq
    BY DEF MirrorTellsCommitted, Copies
  <2>2. Len(mirror) \in Nat
    BY <2>1 DEF MirrorInv, RInv, IInv, TypeOK
  <2>. QED BY <2>1, <2>2 DEF MirrorInv, AllCopy, Once
<1>. QED BY <1>1, <1>2, <1>3, PTL DEF Spec
=============================================================================
