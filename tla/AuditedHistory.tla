--------------------------- MODULE AuditedHistory ---------------------------
(***************************************************************************)
(* What the audited database promises its users, with no connection, no    *)
(* transaction and no index in sight: a set of records and an append-only  *)
(* audit trail that move together, one indivisible step per committed      *)
(* transaction.  `schema.sql` states the promise in two lines: the trail   *)
(* "is append-only and is written inside the same transaction as the       *)
(* change it describes, so an audit row can never exist without its        *)
(* change, nor a change without its audit row".                            *)
(*                                                                         *)
(* AuditedDatabase implements this specification under the refinement      *)
(* mapping given there.                                                    *)
(***************************************************************************)
EXTENDS Naturals, Sequences

CONSTANTS
  Ids,      \* record identifiers
  Null      \* no live payload / the entry does not carry one

VARIABLES
  live,     \* live[i]: the payload readers find under id i, or Null
  log       \* the committed audit trail, oldest entry first

hvars == <<live, log>>

HInit ==
  /\ live = [i \in Ids |-> Null]
  /\ log = <<>>

(* Entry e leaves id i holding payload p.  A bulk insert records the ids it *)
(* created and not their payloads, so it only says that i is live.          *)
EntryLeaves(e, i, p) ==
  IF e.action = "delete" THEN p = Null
  ELSE /\ p # Null
       /\ e.after[i] # Null => p = e.after[i]

(* Positions of the entries about id i that the step appends. *)
NewAbout(i) == {n \in (Len(log) + 1)..Len(log') : i \in log'[n].ids}

TrailGrows ==
  /\ Len(log') > Len(log)
  /\ \A n \in 1..Len(log) : log'[n] = log[n]

(* A record nobody wrote an entry about keeps its payload; one that was     *)
(* written holds what the newest entry about it says, and the first new     *)
(* entry starts from the payload the record held.                           *)
RecordsFollowTrail ==
  \A i \in Ids :
    /\ NewAbout(i) = {} => live'[i] = live[i]
    /\ \A n \in NewAbout(i) :
         /\ (\A m \in NewAbout(i) : m <= n) => EntryLeaves(log'[n], i, live'[i])
         /\ /\ \A m \in NewAbout(i) : n <= m
            /\ live[i] # Null
            => log'[n].before[i] = live[i]

CommitChange == TrailGrows /\ RecordsFollowTrail

HSpec == HInit /\ [][CommitChange]_hvars
=============================================================================
