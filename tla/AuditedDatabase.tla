-------------------------- MODULE AuditedDatabase --------------------------
(***************************************************************************)
(* The audited SQLite store of backend/dsr/db/audited.py: the `records`,   *)
(* `record_index` and `audit_log` tables, the write transaction every      *)
(* mutation goes through, the all-or-nothing `transaction()` block, the    *)
(* bulk operations, the optimistic `expected_revision` check and the JSONL *)
(* mirror written after the commit.                                        *)
(*                                                                         *)
(* Each SQL statement of a write is a step of its own.  Statements change  *)
(* `working`, the uncommitted state of the connection that holds SQLite's  *)
(* write lock; Commit makes it `durable`; an exception rolls it back and a *)
(* crash of the process loses it.                                          *)
(***************************************************************************)
EXTENDS Naturals, Sequences, FiniteSets

CONSTANTS
  Conns,      \* processes, each with its one AuditedDatabase connection
  Threads,    \* threads serving calls
  ConnOf,     \* ConnOf[t]: the process thread t runs in
  Ids,        \* record ids
  Fields,     \* top-level keys of `data`
  Values,     \* values a key may hold
  Unset,      \* the key is not in the payload
  Null,       \* SQL NULL in before_state / after_state
  NoThread,
  MaxAudit    \* bound on the length of the audit trail

ASSUME ThreadAssumption == ConnOf \in [Threads -> Conns] /\ NoThread \notin Threads
ASSUME PayloadAssumption == Unset \notin Values /\ Null \notin [Fields -> Values \cup {Unset}]
ASSUME BoundAssumption == MaxAudit \in Nat

VARIABLES
  durable,    \* the committed content of the database file
  working,    \* what the open write transaction would commit
  lock,       \* lock[c]: the thread inside `self._lock` of connection c
  writer,     \* the thread whose BEGIN IMMEDIATE holds the file's write lock
  job,        \* job[t]: the call thread t is serving
  snapshot,   \* snapshot[t]: the record thread t last read, for expected_revision
  mirror      \* the lines of the JSONL mirror, oldest first

vars == <<durable, working, lock, writer, job, snapshot, mirror>>

Payloads == [Fields -> Values \cup {Unset}]
Empty == [f \in Fields |-> Unset]

(* One row of `records`.  `born` stands for created_at: it tells apart two  *)
(* rows that lived under one id, before and after a hard delete.            *)
Rows == [state : {"absent", "live", "deleted"}, data : Payloads,
         revision : Nat, born : Nat]
AbsentRow == [state |-> "absent", data |-> Empty, revision |-> 0, born |-> 0]

(* The row after an UPDATE statement, which always sets revision + 1. *)
Touched(row, state, data) ==
  [state |-> state, data |-> data, revision |-> row.revision + 1, born |-> row.born]

(* One row of `audit_log`: single-record writes name one id, bulk ones many. *)
Entries == [action : {"insert", "update", "delete", "restore"}, ids : SUBSET Ids,
            before : [Ids -> Payloads \cup {Null}], after : [Ids -> Payloads \cup {Null}]]

NoPayloads == [i \in Ids |-> Null]
Only(i, p) == [NoPayloads EXCEPT ![i] = p]
Entry(action, i, before, after) ==
  [action |-> action, ids |-> {i}, before |-> Only(i, before), after |-> Only(i, after)]
BlankEntry == [action |-> "insert", ids |-> {}, before |-> NoPayloads, after |-> NoPayloads]

Databases == [records : [Ids -> Rows], record_index : [Ids -> Payloads], audit_log : Seq(Entries)]

(* A call in progress.  `entry` is the audit row the write under way will  *)
(* insert, `checked` that this write passed expected_revision, `pending`   *)
(* the mirror lines queued for after the commit, each with the audit_log   *)
(* seq it copies.                                                          *)
Stages == {"idle", "locked", "open", "stated", "bulk", "indexed", "audited", "mirroring"}
Kinds == {"single", "block", "bulk_create", "bulk_delete", "bulk_hard_delete"}
Lines == [seq : Nat, entry : Entries]
Jobs == [stage : Stages, kind : Kinds, entry : Entries, checked : BOOLEAN,
         pending : Seq(Lines)]
IdleJob == [stage |-> "idle", kind |-> "single", entry |-> BlankEntry, checked |-> FALSE,
            pending |-> <<>>]

Snapshots == [id : Ids \cup {Null}, data : Payloads, revision : Nat, born : Nat]
NoSnapshot == [id |-> Null, data |-> Empty, revision |-> 0, born |-> 0]

TypeOK ==
  /\ durable \in Databases
  /\ working \in Databases
  /\ lock \in [Conns -> Threads \cup {NoThread}]
  /\ writer \in Threads \cup {NoThread}
  /\ job \in [Threads -> Jobs]
  /\ snapshot \in [Threads -> Snapshots]
  /\ mirror \in Seq(Lines)

Init ==
  /\ durable = [records |-> [i \in Ids |-> AbsentRow],
                record_index |-> [i \in Ids |-> Empty], audit_log |-> <<>>]
  /\ working = durable
  /\ lock = [c \in Conns |-> NoThread]
  /\ writer = NoThread
  /\ job = [t \in Threads |-> IdleJob]
  /\ snapshot = [t \in Threads |-> NoSnapshot]
  /\ mirror = <<>>

-----------------------------------------------------------------------------
(* Reads, the connection lock and the write transaction. *)

(* get / require: a live row, under the connection's lock. *)
Get(t, i) ==
  /\ job[t].stage = "idle"
  /\ lock[ConnOf[t]] = NoThread
  /\ durable.records[i].state = "live"
  /\ snapshot' = [snapshot EXCEPT ![t] =
       [id |-> i, data |-> durable.records[i].data,
        revision |-> durable.records[i].revision, born |-> durable.records[i].born]]
  /\ UNCHANGED <<durable, working, lock, writer, job, mirror>>

(* `with self._lock`: a write method or a transaction() block is entered. *)
AcquireLock(t, kind) ==
  /\ job[t].stage = "idle"
  /\ lock[ConnOf[t]] = NoThread
  /\ lock' = [lock EXCEPT ![ConnOf[t]] = t]
  /\ job' = [job EXCEPT ![t] = [IdleJob EXCEPT !.stage = "locked", !.kind = kind]]
  /\ UNCHANGED <<durable, working, writer, snapshot, mirror>>

(* BEGIN IMMEDIATE takes the write lock of the file, or waits for it. *)
BeginImmediate(t) ==
  /\ job[t].stage = "locked"
  /\ writer = NoThread
  /\ writer' = t
  /\ working' = durable
  /\ job' = [job EXCEPT ![t].stage = "open"]
  /\ UNCHANGED <<durable, lock, snapshot, mirror>>

(* Deliberate fault: the error path forgets to release the connection. *)
BusyTimeoutKeepsLock(t) ==
  /\ job[t].stage = "locked"
  /\ writer # NoThread
  /\ job' = [job EXCEPT ![t] = IdleJob]
  /\ UNCHANGED <<durable, working, lock, writer, snapshot, mirror>>

(* Another process holds the file past busy_timeout: AuditError. *)
BusyTimeout(t) ==
  /\ job[t].stage = "locked"
  /\ writer # NoThread
  /\ lock' = [lock EXCEPT ![ConnOf[t]] = NoThread]
  /\ job' = [job EXCEPT ![t] = IdleJob]
  /\ UNCHANGED <<durable, working, writer, snapshot, mirror>>

(* Deliberate fault: the mirror lines are written in a `finally`. *)
RollbackMirrors(t) ==
  /\ job[t].stage \in {"open", "stated", "bulk", "indexed", "audited"}
  /\ working' = durable
  /\ writer' = NoThread
  /\ lock' = [lock EXCEPT ![ConnOf[t]] = NoThread]
  /\ job' = [job EXCEPT ![t].stage = "mirroring"]
  /\ UNCHANGED <<durable, snapshot, mirror>>

(* Any exception inside the block: RecordNotFound, a revision conflict, an  *)
(* id that exists, a nested write, a value the index cannot hold, an SQLite *)
(* error, the caller's own.  Everything since BEGIN is rolled back and the  *)
(* queued mirror lines are forgotten with the writer handle.                *)
Rollback(t) ==
  /\ job[t].stage \in {"open", "stated", "bulk", "indexed", "audited"}
  /\ working' = durable
  /\ writer' = NoThread
  /\ lock' = [lock EXCEPT ![ConnOf[t]] = NoThread]
  /\ job' = [job EXCEPT ![t] = IdleJob]
  /\ UNCHANGED <<durable, snapshot, mirror>>

(* Deliberate fault: the transaction commits before the audit row. *)
CanCommitUnaudited(t) ==
  \/ job[t].stage \in {"indexed", "audited"}
  \/ job[t].stage = "open" /\ job[t].kind = "block"

(* A single-record write commits after its audit row, a block whenever the  *)
(* caller leaves it between two writes.  The lock goes before the mirror.   *)
CanCommit(t) ==
  \/ job[t].stage = "audited"
  \/ job[t].stage = "open" /\ job[t].kind = "block"

Commit(t) ==
  /\ CanCommit(t)
  /\ durable' = working
  /\ writer' = NoThread
  /\ lock' = [lock EXCEPT ![ConnOf[t]] = NoThread]
  /\ job' = [job EXCEPT ![t].stage = "mirroring"]
  /\ UNCHANGED <<working, snapshot, mirror>>

-----------------------------------------------------------------------------
(* The statements of one write. *)

(* The thread is about to run a write's first statement: the only one of a  *)
(* single-record method, the next one of a transaction() block.             *)
ReadyToWrite(t) ==
  /\ \/ job[t].stage = "open" /\ job[t].kind \in {"single", "block"}
     \/ job[t].stage = "audited" /\ job[t].kind = "block"
  /\ Len(working.audit_log) < MaxAudit

(* The statement on row i ran; `next` is the stage that follows it. *)
Stated(t, i, row, entry, checked, next) ==
  /\ working' = [working EXCEPT !.records[i] = row]
  /\ job' = [job EXCEPT ![t].stage = next, ![t].entry = entry, ![t].checked = checked]
  /\ UNCHANGED <<durable, lock, writer, snapshot, mirror>>

(* _insert_record: the primary key refuses an id whose row still exists,   *)
(* soft-deleted rows included.                                             *)
FreshRow(p) ==
  [state |-> "live", data |-> p, revision |-> 1, born |-> Len(working.audit_log) + 1]

InsertRow(t, i, p) ==
  /\ ReadyToWrite(t)
  /\ working.records[i].state = "absent"
  /\ Stated(t, i, FreshRow(p), Entry("insert", i, Null, p), FALSE, "stated")

(* Deliberate fault: a key the patch does not name becomes NULL. *)
MergedWithNulls(data, patch) == [f \in Fields |-> IF patch[f] = Unset THEN Null ELSE patch[f]]

(* A shallow merge patch: keys the patch names, the stored ones elsewhere. *)
Merged(data, patch) == [f \in Fields |-> IF patch[f] = Unset THEN data[f] ELSE patch[f]]

(* Deliberate fault: expected_revision is accepted and not compared. *)
RevisionIgnored(t, i) == snapshot[t].id = i

RevisionMatches(t, i) ==
  snapshot[t].id = i /\ snapshot[t].revision = working.records[i].revision

(* Deliberate fault: the before state is taken after the merge. *)
UpdateAuditsMerged(t, i, patch, checked) ==
  LET row == working.records[i]
      merged == Merged(row.data, patch)
  IN /\ ReadyToWrite(t)
     /\ row.state = "live"
     /\ Stated(t, i, Touched(row, "live", merged),
               Entry("update", i, merged, merged), checked, "stated")

(* _update_record: a live row, merged with the patch inside the transaction. *)
Update(t, i, patch, checked) ==
  LET row == working.records[i]
      merged == Merged(row.data, patch)
  IN /\ ReadyToWrite(t)
     /\ row.state = "live"
     /\ Stated(t, i, Touched(row, "live", merged),
               Entry("update", i, row.data, merged), checked, "stated")

UpdateRow(t, i, patch) == Update(t, i, patch, FALSE)

(* The same with expected_revision: the caller passes the revision it read. *)
UpdateExpecting(t, i, patch) ==
  /\ RevisionMatches(t, i)
  /\ Update(t, i, patch, TRUE)

(* delete: the row is kept and its index left alone, or both are removed. *)
SoftDelete(t, i) ==
  LET row == working.records[i]
  IN /\ ReadyToWrite(t)
     /\ job[t].kind = "single"
     /\ row.state = "live"
     /\ Stated(t, i, Touched(row, "deleted", row.data),
               Entry("delete", i, row.data, Null), FALSE, "indexed")

(* Deliberate fault: the index rows of a removed record stay behind. *)
HardDeleteKeepsIndex(t, i) ==
  LET row == working.records[i]
  IN /\ ReadyToWrite(t)
     /\ job[t].kind = "single"
     /\ row.state # "absent"
     /\ Stated(t, i, AbsentRow, Entry("delete", i, row.data, Null), FALSE, "indexed")

(* Deliberate fault: removing a record removes the trail written so far. *)
HardDeletePurgesTrail(t, i) ==
  LET row == working.records[i]
  IN /\ ReadyToWrite(t)
     /\ job[t].kind = "single"
     /\ row.state # "absent"
     /\ working' = [records |-> [working.records EXCEPT ![i] = AbsentRow],
                    record_index |-> [working.record_index EXCEPT ![i] = Empty],
                    audit_log |-> <<>>]
     /\ job' = [job EXCEPT ![t].stage = "indexed", ![t].checked = FALSE,
                           ![t].entry = Entry("delete", i, row.data, Null)]
     /\ UNCHANGED <<durable, lock, writer, snapshot, mirror>>

HardDelete(t, i) ==
  LET row == working.records[i]
  IN /\ ReadyToWrite(t)
     /\ job[t].kind = "single"
     /\ row.state # "absent"
     /\ working' = [working EXCEPT !.records[i] = AbsentRow, !.record_index[i] = Empty]
     /\ job' = [job EXCEPT ![t].stage = "indexed", ![t].checked = FALSE,
                           ![t].entry = Entry("delete", i, row.data, Null)]
     /\ UNCHANGED <<durable, lock, writer, snapshot, mirror>>

(* restore: only a soft-deleted row comes back, with the payload it kept. *)
RestoreRow(t, i) ==
  LET row == working.records[i]
  IN /\ ReadyToWrite(t)
     /\ job[t].kind = "single"
     /\ row.state = "deleted"
     /\ Stated(t, i, Touched(row, "live", row.data),
               Entry("restore", i, Null, row.data), FALSE, "stated")

(* _reindex of the record just stated: delete its rows, insert the new ones. *)
Reindex(t) ==
  /\ job[t].stage = "stated"
  /\ working' = [working EXCEPT !.record_index =
       [i \in Ids |-> IF i \in job[t].entry.ids THEN working.records[i].data ELSE @[i]]]
  /\ job' = [job EXCEPT ![t].stage = "indexed"]
  /\ UNCHANGED <<durable, lock, writer, snapshot, mirror>>

(* _audit, and the mirror line the method will write once committed. *)
Audit(t) ==
  /\ \/ job[t].stage = "indexed"
     \/ job[t].stage = "bulk" /\ job[t].entry.ids # {}
  /\ working' = [working EXCEPT !.audit_log = Append(@, job[t].entry)]
  /\ job' = [job EXCEPT ![t].stage = "audited",
                        ![t].entry = BlankEntry, ![t].checked = FALSE,
                        ![t].pending = Append(@, [seq |-> Len(working.audit_log) + 1,
                                                  entry |-> job[t].entry])]
  /\ UNCHANGED <<durable, lock, writer, snapshot, mirror>>

-----------------------------------------------------------------------------
(* The bulk operations: many rows, one audit row. *)

BulkReady(t, kind) ==
  /\ job[t].kind = kind
  /\ job[t].stage \in {"open", "bulk"}
  /\ Len(working.audit_log) < MaxAudit

(* new_id is random: an id no row and no audit entry has ever named. *)
NeverUsed(i) ==
  /\ working.records[i].state = "absent"
  /\ \A n \in 1..Len(working.audit_log) : i \notin working.audit_log[n].ids

(* One item of bulk_create; its audit row will name the id, not the data. *)
BulkInsert(t, i, p) ==
  /\ BulkReady(t, "bulk_create")
  /\ NeverUsed(i)
  /\ i \notin job[t].entry.ids
  /\ working' = [working EXCEPT !.records[i] = FreshRow(p), !.record_index[i] = p]
  /\ job' = [job EXCEPT ![t].stage = "bulk", ![t].entry.ids = @ \cup {i}]
  /\ UNCHANGED <<durable, lock, writer, snapshot, mirror>>

(* One id of bulk_delete joins the audit row that will cover the batch. *)
Remove(t, i) ==
  LET entry == job[t].entry
  IN /\ job' = [job EXCEPT ![t].stage = "bulk",
                           ![t].entry = [action |-> "delete", ids |-> entry.ids \cup {i},
                                         before |-> [entry.before EXCEPT ![i] =
                                                       working.records[i].data],
                                         after |-> NoPayloads]]
     /\ UNCHANGED <<durable, lock, writer, snapshot, mirror>>

(* Deliberate fault: the bulk path forgets the revision. *)
BulkSoftDeleteKeepsRevision(t, i) ==
  /\ BulkReady(t, "bulk_delete")
  /\ working.records[i].state = "live"
  /\ working' = [working EXCEPT !.records[i].state = "deleted"]
  /\ Remove(t, i)

(* A missing id, or one named twice, raises RecordNotFound: Rollback. *)
BulkSoftDelete(t, i) ==
  /\ BulkReady(t, "bulk_delete")
  /\ working.records[i].state = "live"
  /\ working' = [working EXCEPT !.records[i] = Touched(@, "deleted", @.data)]
  /\ Remove(t, i)

BulkHardDelete(t, i) ==
  /\ BulkReady(t, "bulk_hard_delete")
  /\ working.records[i].state # "absent"
  /\ working' = [working EXCEPT !.records[i] = AbsentRow, !.record_index[i] = Empty]
  /\ Remove(t, i)

-----------------------------------------------------------------------------
(* After the commit, and the crash of a process. *)

(* _mirror: one line appended to the JSONL file, or lost to an OSError. *)
WriteMirror(t) ==
  /\ job[t].stage = "mirroring"
  /\ job[t].pending # <<>>
  /\ mirror' = Append(mirror, Head(job[t].pending))
  /\ job' = [job EXCEPT ![t].pending = Tail(@)]
  /\ UNCHANGED <<durable, working, lock, writer, snapshot>>

LoseMirror(t) ==
  /\ job[t].stage = "mirroring"
  /\ job[t].pending # <<>>
  /\ job' = [job EXCEPT ![t].pending = Tail(@)]
  /\ UNCHANGED <<durable, working, lock, writer, snapshot, mirror>>

Return(t) ==
  /\ job[t].stage = "mirroring"
  /\ job[t].pending = <<>>
  /\ job' = [job EXCEPT ![t] = IdleJob]
  /\ UNCHANGED <<durable, working, lock, writer, snapshot, mirror>>

(* The process dies: SQLite discards the uncommitted transaction. *)
Crash(c) ==
  LET mine == {t \in Threads : ConnOf[t] = c}
  IN /\ \E t \in mine : job[t].stage # "idle"
     /\ job' = [t \in Threads |-> IF t \in mine THEN IdleJob ELSE job[t]]
     /\ snapshot' = [t \in Threads |-> IF t \in mine THEN NoSnapshot ELSE snapshot[t]]
     /\ lock' = [lock EXCEPT ![c] = NoThread]
     /\ writer' = IF writer \in mine THEN NoThread ELSE writer
     /\ working' = IF writer \in mine THEN durable ELSE working
     /\ UNCHANGED <<durable, mirror>>

-----------------------------------------------------------------------------
Statement(t) ==
  \/ \E i \in Ids, p \in Payloads : InsertRow(t, i, p)
  \/ \E i \in Ids, p \in Payloads : UpdateRow(t, i, p)
  \/ \E i \in Ids, p \in Payloads : UpdateExpecting(t, i, p)
  \/ \E i \in Ids : SoftDelete(t, i)
  \/ \E i \in Ids : HardDelete(t, i)
  \/ \E i \in Ids : RestoreRow(t, i)
  \/ \E i \in Ids, p \in Payloads : BulkInsert(t, i, p)
  \/ \E i \in Ids : BulkSoftDelete(t, i)
  \/ \E i \in Ids : BulkHardDelete(t, i)

Next ==
  \/ \E t \in Threads, i \in Ids : Get(t, i)
  \/ \E t \in Threads, kind \in Kinds : AcquireLock(t, kind)
  \/ \E t \in Threads : \/ BeginImmediate(t) \/ BusyTimeout(t)
                        \/ Statement(t) \/ Reindex(t) \/ Audit(t)
                        \/ Rollback(t) \/ Commit(t)
                        \/ WriteMirror(t) \/ LoseMirror(t) \/ Return(t)
  \/ \E c \in Conns : Crash(c)

Spec == Init /\ [][Next]_vars

-----------------------------------------------------------------------------
(* Properties. *)

About(log, i) == {n \in 1..Len(log) : i \in log[n].ids}

(* Row r is what entry e left under id i.  A bulk insert records ids only. *)
EntryExplains(e, i, r) ==
  IF e.action = "delete" THEN r.state # "live"
  ELSE r.state = "live" /\ (e.after[i] # Null => r.data = e.after[i])

(* Row r is what the newest entry of log about id i left there; an id no    *)
(* entry names has no row.                                                  *)
ExplainedAt(log, i, r) ==
  /\ About(log, i) = {} => r.state = "absent"
  /\ \A n \in About(log, i) :
       (\A m \in About(log, i) : m <= n) => EntryExplains(log[n], i, r)

(* A committed record is what the newest audit row about it says, and a     *)
(* record no audit row names does not exist: no change without its audit    *)
(* row and no audit row without its change (schema.sql), whatever mixture   *)
(* of single writes, blocks, bulk calls, exceptions and crashes led here.   *)
TrailExplainsRecords ==
  \A i \in Ids : ExplainedAt(durable.audit_log, i, durable.records[i])

(* What an entry says of a payload: the one it leaves, or the one it removes. *)
PayloadOf(e, i) == IF e.after[i] # Null THEN e.after[i] ELSE e.before[i]

(* The trail of one id has no hole: each update or delete starts from the   *)
(* payload the entry before it ended with, and a restore brings back the    *)
(* payload the delete took.  A bulk insert, which keeps no payload, is the  *)
(* only entry the chain cannot see through.                                 *)
TrailIsUnbroken ==
  \A i \in Ids, m, n \in 1..Len(durable.audit_log) :
    LET e == durable.audit_log[n]
        d == durable.audit_log[m]
        start == IF e.action = "restore" THEN e.after[i] ELSE e.before[i]
    IN (/\ m < n /\ i \in d.ids /\ i \in e.ids
        /\ \A k \in (m + 1)..(n - 1) : i \notin durable.audit_log[k].ids
        /\ e.action # "insert" /\ PayloadOf(d, i) # Null)
       => start = PayloadOf(d, i)

(* The revision of a row is the number of audit entries about it since the  *)
(* insert that created it, so a client can line revisions up with the trail *)
(* and no path (soft delete, restore, bulk) forgets to bump it.             *)
RevisionsCountEntries ==
  \A i \in Ids :
    LET row == durable.records[i]
    IN row.state # "absent" =>
         row.revision = Cardinality({n \in About(durable.audit_log, i) : n >= row.born})

(* The dynamic index of a committed row holds the payload the row holds,    *)
(* soft-deleted rows included, and a removed row leaves nothing behind: the *)
(* index is never rebuilt, so a drift here is permanent.                    *)
IndexMatchesRecords ==
  \A i \in Ids : durable.record_index[i] = durable.records[i].data

(* A mirror line copies an audit row that is committed, and no row is       *)
(* copied twice, even though lines are written outside the lock: "the       *)
(* mirror cannot describe a change that was rolled back".                   *)
MirrorTellsCommitted ==
  \A n \in 1..Len(mirror) :
    /\ mirror[n].seq \in 1..Len(durable.audit_log)
    /\ durable.audit_log[mirror[n].seq] = mirror[n].entry
    /\ \A m \in 1..(n - 1) : mirror[m].seq # mirror[n].seq

(* An update that passed expected_revision merges into the payload its      *)
(* caller read, as long as the row is still the one it read (the id was not *)
(* hard-deleted and created again).                                         *)
NoLostUpdate ==
  \A t \in Threads : job[t].checked =>
    LET i == snapshot[t].id
    IN snapshot[t].born = working.records[i].born =>
         job[t].entry.before[i] = snapshot[t].data

(* The committed tables implement the atomic history. *)
LiveView == [i \in Ids |-> IF durable.records[i].state = "live"
                             THEN durable.records[i].data ELSE Null]
History == INSTANCE AuditedHistory WITH live <- LiveView, log <- durable.audit_log

(* Every commit is one step of AuditedHistory: the trail only grows, and    *)
(* the live records move exactly as the entries that step appends say.      *)
ImplementsHistory == History!HSpec

(* Each thread that entered a call keeps running; SQLite answers a BEGIN    *)
(* with the lock or, after busy_timeout, with an error.                     *)
Running(t) ==
  \/ BeginImmediate(t) \/ BusyTimeout(t) \/ Statement(t) \/ Reindex(t) \/ Audit(t)
  \/ Rollback(t) \/ Commit(t) \/ WriteMirror(t) \/ LoseMirror(t) \/ Return(t)

FairSpec == Spec /\ \A t \in Threads : WF_vars(Running(t))

(* The one connection of a process always becomes free again, even when     *)
(* another process holds the file or a call dies half way.                  *)
ConnectionComesFree == \A c \in Conns : lock[c] # NoThread ~> lock[c] = NoThread
=============================================================================
