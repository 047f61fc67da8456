------------------------- MODULE MCAuditedDatabase -------------------------
(* TLC instances of AuditedDatabase: two threads of one process, or one     *)
(* thread in each of two processes that share the database file.            *)
EXTENDS AuditedDatabase, TLC

CONSTANTS t1, t2, c1, c2, r1, r2

OneProcess == (t1 :> c1) @@ (t2 :> c1)
TwoProcesses == (t1 :> c1) @@ (t2 :> c2)

(* The second thread reads and edits one record; the first makes every kind *)
(* of call on both, and reads only that one record before a write of one.   *)
PlainClient ==
  /\ job[t2].kind = "single" /\ snapshot[t2].id # r2
  /\ job[t2].entry.ids # {} => job[t2].entry.ids = {r1} /\ job[t2].entry.action = "update"
  /\ snapshot[t1] # NoSnapshot => snapshot[t1].id = r1 /\ job[t1].kind \in {"single", "block"}
=============================================================================
