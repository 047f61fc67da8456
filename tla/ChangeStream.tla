---------------------------- MODULE ChangeStream ----------------------------
(***************************************************************************)
(* The CRM change-event stream of backend/dsr/change_stream/: a room opens *)
(* a subscription, asks for events with FetchRequests, and each event that *)
(* arrives is written to the change log, parked in memory under its        *)
(* transaction key and applied to the room's replica when a later key      *)
(* closes its transaction, or when the subscription is closed.             *)
(*                                                                         *)
(* A request handler runs in a thread, and each database call of a handler *)
(* is an action of its own: the store is transactional per call and not    *)
(* per handler.  The parked transactions (BufferSet) are process memory    *)
(* and change in one step per method call.                                 *)
(*                                                                         *)
(* The CRM's events are the positions of Stream.  sequence_number and      *)
(* commit_timestamp both grow with the position, so a position stands for  *)
(* either; `needs` says where the event carries the field the replica      *)
(* resolves records by.                                                    *)
(***************************************************************************)
EXTENDS Naturals, Sequences, FiniteSets

CONSTANTS
  Subs,       \* subscription ids
  Rooms,
  RoomOf,     \* RoomOf[s]: the room subscription s belongs to
  Threads,    \* threads serving requests
  Keys,       \* transaction keys
  Stream,     \* the events the CRM emits: a sequence of [key, needs]
  Faults,     \* what may go wrong: a subset of {"redelivery", "busy", "crash"}
  NoSub,
  MaxRows,    \* bound on the rows of the change log
  MaxFetch,   \* bound on the events one subscription may request
  MaxWrites   \* bound on the writes to a replica when a call starts

ASSUME SubscriptionAssumption == RoomOf \in [Subs -> Rooms] /\ NoSub \notin Subs
ASSUME StreamAssumption ==
  Stream \in Seq([key : Keys, needs : {"payload", "enriched", "nothing"}])
ASSUME LimitAssumption ==
  /\ Faults \subseteq {"redelivery", "busy", "crash"}
  /\ MaxRows \in Nat /\ MaxFetch \in Nat /\ MaxWrites \in Nat

VARIABLES
  subscription,   \* the stored subscription rows
  change_log,     \* the rows of CHANGE_EVENTS, in the order they were created
  replica_writes, \* [room]: the writes to REPLICA rows, oldest first
  invalidations,  \* [room]: what INVALIDATIONS rows say was refreshed
  enriched,       \* the channel selects the field the room resolves records by
  buffers,        \* [s]: the BufferSet, oldest transaction first (in memory)
  job,            \* the call each thread is serving (in memory)
  disturbed       \* history: a write failed or the process restarted

vars == <<subscription, change_log, replica_writes, invalidations, enriched, buffers, job,
          disturbed>>

Events == 1..Len(Stream)
KeyOf(n) == Stream[n].key

Usages == [requested : Nat, delivered : Nat, outstanding : Nat]
BlankUsage == [requested |-> 0, delivered |-> 0, outstanding |-> 0]
Subscriptions == [state : {"none", "open", "closed"}, usage : Usages]
Rows == [sub : Subs, event : Events, state : {"buffered", "committed"}]
Writes == [sub : Subs, event : Events]
Buffers == [key : Keys, events : (SUBSET Events) \ {{}}]

(* `usage` is the counters as the handler last read them; `ready` the       *)
(* transactions it took off the BufferSet, `current` the one it is          *)
(* committing and `todo` the events left in the present phase of that.      *)
Stages == {"idle", "fetching", "admitted", "logged", "refusing", "parked", "draining",
           "ready", "planning", "writing", "invalidating", "marking", "counting",
           "counted", "closing", "releasing"}
Jobs == [stage : Stages, close : BOOLEAN, sub : Subs \cup {NoSub}, event : Nat,
         usage : Usages, ready : Seq(Buffers), current : Nat, todo : SUBSET Events]
IdleJob == [stage |-> "idle", close |-> FALSE, sub |-> NoSub, event |-> 0,
            usage |-> BlankUsage, ready |-> <<>>, current |-> 0, todo |-> {}]

TypeOK ==
  /\ subscription \in [Subs -> Subscriptions]
  /\ change_log \in Seq(Rows)
  /\ replica_writes \in [Rooms -> Seq(Writes)]
  /\ invalidations \in [Rooms -> SUBSET Writes]
  /\ enriched \in BOOLEAN
  /\ buffers \in [Subs -> Seq(Buffers)]
  /\ job \in [Threads -> Jobs]
  /\ disturbed \in BOOLEAN

Init ==
  /\ subscription = [s \in Subs |-> [state |-> "none", usage |-> BlankUsage]]
  /\ change_log = <<>>
  /\ replica_writes = [r \in Rooms |-> <<>>]
  /\ invalidations = [r \in Rooms |-> {}]
  /\ enriched = FALSE
  /\ buffers = [s \in Subs |-> <<>>]
  /\ job = [t \in Threads |-> IdleJob]
  /\ disturbed = FALSE

stored == <<subscription, change_log, replica_writes, invalidations, enriched>>

-----------------------------------------------------------------------------
(* The counters of usage.py. *)

RequestFetch(usage, n) ==
  [usage EXCEPT !.requested = @ + n, !.outstanding = @ + n]

(* Deliberate fault: a delivery is not charged to the request. *)
RecordDeliveryFree(usage) == [usage EXCEPT !.delivered = @ + 1]

(* Deliberate fault: a delivery is charged twice. *)
RecordDeliveryTwice(usage) == [usage EXCEPT !.delivered = @ + 1, !.outstanding = @ - 2]

RecordDelivery(usage) ==
  [usage EXCEPT !.delivered = @ + 1,
                !.outstanding = IF @ > 0 THEN @ - 1 ELSE 0]

-----------------------------------------------------------------------------
(* BufferSet: the parked transactions of one subscription. *)

KeysOf(held) == {held[i].key : i \in DOMAIN held}
Parked(held) == UNION {held[i].events : i \in DOMAIN held}

First(S) == CHOOSE n \in S : \A m \in S : n <= m
Last(S) == CHOOSE n \in S : \A m \in S : m <= n

(* Deliberate fault: off by one, a key closes its own transaction too. *)
AheadInclusive(held, key) ==
  IF key \in KeysOf(held) THEN First({i \in DOMAIN held : held[i].key = key}) ELSE Len(held)

(* complete_before: an event under `key` closes what is parked ahead of it, *)
(* which is everything when no transaction is open under that key.          *)
Ahead(held, key) ==
  IF key \in KeysOf(held) THEN First({i \in DOMAIN held : held[i].key = key}) - 1
                          ELSE Len(held)
Completed(held, key) == SubSeq(held, 1, Ahead(held, key))
StillParked(held, key) == SubSeq(held, Ahead(held, key) + 1, Len(held))

(* accept, after complete_before: the event joins the buffer of its key,    *)
(* which is now the first, or opens one.                                    *)
Accepted(held, n) ==
  LET rest == StillParked(held, KeyOf(n))
  IN IF rest = <<>> THEN <<[key |-> KeyOf(n), events |-> {n}]>>
     ELSE [rest EXCEPT ![1].events = @ \cup {n}]

IsDuplicate(held, n) == \E i \in DOMAIN held : held[i].key = KeyOf(n) /\ n \in held[i].events

(* What is parked under other keys, still oldest first. *)
Without(held, keys) ==
  LET kept == {i \in DOMAIN held : held[i].key \notin keys}
      place(i) == Cardinality({j \in kept : j <= i})
  IN [n \in 1..Cardinality(kept) |-> held[CHOOSE i \in kept : place(i) = n]]

(* restore_front: the refused transactions go back to the front; one whose  *)
(* key was opened again meanwhile gives way to the buffer under that key.   *)
Restored(held, ready) ==
  [i \in DOMAIN ready |->
     IF ready[i].key \in KeysOf(held)
       THEN CHOOSE b \in {held[j] : j \in DOMAIN held} : b.key = ready[i].key
       ELSE ready[i]]
  \o Without(held, KeysOf(ready))

(* assert_orderable: the timestamps of a set to apply do not go backwards. *)
Orderable(ready) ==
  \A i \in 1..(Len(ready) - 1) : Last(ready[i].events) <= First(ready[i + 1].events)

-----------------------------------------------------------------------------
(* Subscriptions, flow control and enrichment. *)

OpenSubscription(s) ==
  /\ subscription[s].state = "none"
  /\ subscription' = [subscription EXCEPT ![s].state = "open"]
  /\ UNCHANGED <<change_log, replica_writes, invalidations, enriched, buffers, job, disturbed>>

(* fetch: the row is read here and patched by FetchUpdate. *)
Fetch(t, s) ==
  /\ job[t].stage = "idle"
  /\ subscription[s].state = "open"
  /\ subscription[s].usage.requested < MaxFetch
  /\ job' = [job EXCEPT ![t] = [IdleJob EXCEPT !.stage = "fetching", !.sub = s,
                                               !.usage = subscription[s].usage]]
  /\ UNCHANGED <<stored, buffers, disturbed>>

FetchUpdate(t, n) ==
  /\ job[t].stage = "fetching"
  /\ job[t].usage.requested + n <= MaxFetch
  /\ subscription' = [subscription EXCEPT ![job[t].sub].usage = RequestFetch(job[t].usage, n)]
  /\ job' = [job EXCEPT ![t] = IdleJob]
  /\ UNCHANGED <<change_log, replica_writes, invalidations, enriched, buffers, disturbed>>

(* enrich_channel / unenrich_channel, each one read and one update. *)
Enrich ==
  /\ enriched' = ~enriched
  /\ UNCHANGED <<subscription, change_log, replica_writes, invalidations, buffers, job, disturbed>>

-----------------------------------------------------------------------------
(* deliver_event: refuse, log, park, count. *)

(* What the CRM's transport may hand over next: without redelivery the      *)
(* events come in order and once, and some may never come.                  *)
MayArrive(s, n) ==
  \/ "redelivery" \in Faults
  \/ \A i \in DOMAIN change_log : change_log[i].sub = s => change_log[i].event < n

(* An open subscription with a FetchRequest outstanding, as read here. *)
Deliver(t, s, n) ==
  /\ job[t].stage = "idle"
  /\ subscription[s].state = "open"
  /\ subscription[s].usage.outstanding >= 1
  /\ MayArrive(s, n)
  /\ Len(change_log) < MaxRows
  /\ Len(replica_writes[RoomOf[s]]) < MaxWrites
  /\ job' = [job EXCEPT ![t] = [IdleJob EXCEPT !.stage = "admitted", !.sub = s, !.event = n,
                                               !.usage = subscription[s].usage]]
  /\ UNCHANGED <<stored, buffers, disturbed>>

(* Deliberate fault: the change log is written on a best-effort basis. *)
LogEventMaybe(t) ==
  /\ job[t].stage = "admitted"
  /\ job' = [job EXCEPT ![t].stage = "logged"]
  /\ UNCHANGED <<stored, buffers, disturbed>>

LogEvent(t) ==
  /\ job[t].stage = "admitted"
  /\ change_log' = Append(change_log, [sub |-> job[t].sub, event |-> job[t].event,
                                       state |-> "buffered"])
  /\ job' = [job EXCEPT ![t].stage = "logged"]
  /\ UNCHANGED <<subscription, replica_writes, invalidations, enriched, buffers, disturbed>>

(* A sequence number already parked under the key is refused, but what was  *)
(* parked ahead of the key has left the BufferSet by then.                  *)
Accept(t) ==
  LET s == job[t].sub
      n == job[t].event
  IN /\ job[t].stage = "logged"
     /\ buffers' = [buffers EXCEPT ![s] = Accepted(@, n)]
     /\ job' = [job EXCEPT
          ![t].stage = IF IsDuplicate(buffers[s], n) THEN "refusing" ELSE "parked",
          ![t].ready = IF IsDuplicate(buffers[s], n) THEN <<>>
                       ELSE Completed(buffers[s], KeyOf(n))]
     /\ UNCHANGED <<stored, disturbed>>

(* The duplicate is counted, from the counters read on entry; the counters  *)
(* kept here come back as they were then.                                   *)
RefuseDuplicate(t) ==
  /\ job[t].stage = "refusing"
  /\ subscription' = [subscription EXCEPT ![job[t].sub].usage = job[t].usage]
  /\ job' = [job EXCEPT ![t] = IdleJob]
  /\ UNCHANGED <<change_log, replica_writes, invalidations, enriched, buffers, disturbed>>

CountDelivery(t) ==
  /\ job[t].stage = "parked"
  /\ subscription' = [subscription EXCEPT ![job[t].sub].usage = RecordDelivery(job[t].usage)]
  /\ job' = [job EXCEPT ![t] = IF job[t].ready = <<>> THEN IdleJob
                               ELSE [job[t] EXCEPT !.stage = "ready"]]
  /\ UNCHANGED <<change_log, replica_writes, invalidations, enriched, buffers, disturbed>>

-----------------------------------------------------------------------------
(* _commit_many and _commit_one: plan a transaction, then write it. *)

Current(t) == job[t].ready[job[t].current]

(* Deliberate fault: a transaction that cannot be applied is dropped. *)
RefuseDrops(t) ==
  /\ job' = [job EXCEPT ![t] = IdleJob]
  /\ UNCHANGED <<stored, buffers, disturbed>>

(* A ChangeStreamError: the whole set goes back, and the call fails. *)
Refuse(t) ==
  /\ buffers' = [buffers EXCEPT ![job[t].sub] = Restored(@, job[t].ready)]
  /\ job' = [job EXCEPT ![t] = IdleJob]
  /\ UNCHANGED <<stored, disturbed>>

CommitMany(t) ==
  /\ job[t].stage = "ready"
  /\ Orderable(job[t].ready)
  /\ job' = [job EXCEPT ![t].stage = "planning", ![t].current = 1]
  /\ UNCHANGED <<stored, buffers, disturbed>>

RefuseOrder(t) ==
  /\ job[t].stage = "ready"
  /\ ~Orderable(job[t].ready)
  /\ Refuse(t)

(* plan_event finds the record an event is about. *)
Resolvable(n) == \/ Stream[n].needs = "payload"
                 \/ Stream[n].needs = "enriched" /\ enriched

Plan(t) ==
  /\ job[t].stage = "planning"
  /\ \A n \in Current(t).events : Resolvable(n)
  /\ job' = [job EXCEPT ![t].stage = "writing", ![t].todo = Current(t).events]
  /\ UNCHANGED <<stored, buffers, disturbed>>

(* Deliberate fault: only the refused transaction goes back, and the commit *)
(* goes on with the next one.                                               *)
RefusePlanSkips(t) ==
  /\ job[t].stage = "planning"
  /\ \E n \in Current(t).events : ~Resolvable(n)
  /\ buffers' = [buffers EXCEPT ![job[t].sub] = Restored(@, <<Current(t)>>)]
  /\ job' = [job EXCEPT ![t] = IF @.current < Len(@.ready) THEN [@ EXCEPT !.current = @ + 1]
                               ELSE IdleJob]
  /\ UNCHANGED <<stored, disturbed>>

RefusePlan(t) ==
  /\ job[t].stage = "planning"
  /\ \E n \in Current(t).events : ~Resolvable(n)
  /\ Refuse(t)

(* One more event of the transaction is through this phase of the commit,   *)
(* taken in sequence order; after the last one the next phase starts over.  *)
EventDone(t, next) ==
  LET left == job[t].todo \ {First(job[t].todo)}
  IN job' = [job EXCEPT ![t].stage = IF left = {} THEN next ELSE @,
                        ![t].todo = IF left = {} THEN Current(t).events ELSE left]

WriteOf(t) == [sub |-> job[t].sub, event |-> First(job[t].todo)]

(* Deliberate fault: rows are marked before the panels are refreshed. *)
WriteReplicaThenMark(t) ==
  /\ job[t].stage = "writing"
  /\ replica_writes' = [replica_writes EXCEPT ![RoomOf[job[t].sub]] = Append(@, WriteOf(t))]
  /\ EventDone(t, "marking")
  /\ UNCHANGED <<subscription, change_log, invalidations, enriched, buffers, disturbed>>

WriteReplica(t) ==
  /\ job[t].stage = "writing"
  /\ replica_writes' = [replica_writes EXCEPT ![RoomOf[job[t].sub]] = Append(@, WriteOf(t))]
  /\ EventDone(t, "invalidating")
  /\ UNCHANGED <<subscription, change_log, invalidations, enriched, buffers, disturbed>>

Invalidate(t) ==
  /\ job[t].stage = "invalidating"
  /\ invalidations' = [invalidations EXCEPT ![RoomOf[job[t].sub]] = @ \cup {WriteOf(t)}]
  /\ EventDone(t, "marking")
  /\ UNCHANGED <<subscription, change_log, replica_writes, enriched, buffers, disturbed>>

(* The rows to mark are looked up by key and sequence number alone. *)
MarkCommitted(t) ==
  /\ job[t].stage = "marking"
  /\ change_log' = [i \in DOMAIN change_log |->
       IF change_log[i].event = First(job[t].todo)
         THEN [change_log[i] EXCEPT !.state = "committed"] ELSE change_log[i]]
  /\ EventDone(t, "counting")
  /\ UNCHANGED <<subscription, replica_writes, invalidations, enriched, buffers, disturbed>>

(* record_commit, on counters read afresh here and patched by CommitCounted. *)
CountCommit(t) ==
  /\ job[t].stage = "counting"
  /\ job' = [job EXCEPT ![t].stage = "counted", ![t].todo = {},
                        ![t].usage = subscription[job[t].sub].usage]
  /\ UNCHANGED <<stored, buffers, disturbed>>

CommitCounted(t) ==
  /\ job[t].stage = "counted"
  /\ subscription' = [subscription EXCEPT ![job[t].sub].usage = job[t].usage]
  /\ job' = [job EXCEPT ![t] =
       IF job[t].current < Len(job[t].ready)
         THEN [job[t] EXCEPT !.stage = "planning", !.current = job[t].current + 1]
       ELSE IF job[t].close THEN [job[t] EXCEPT !.stage = "closing"] ELSE IdleJob]
  /\ UNCHANGED <<change_log, replica_writes, invalidations, enriched, buffers, disturbed>>

-----------------------------------------------------------------------------
(* close_subscription: flush, commit, mark closed, forget the buffers. *)

Close(t, s) ==
  /\ job[t].stage = "idle"
  /\ subscription[s].state = "open"
  /\ Len(replica_writes[RoomOf[s]]) < MaxWrites
  /\ job' = [job EXCEPT ![t] = [IdleJob EXCEPT !.stage = "draining", !.close = TRUE, !.sub = s]]
  /\ UNCHANGED <<stored, buffers, disturbed>>

Flush(t) ==
  LET held == buffers[job[t].sub]
  IN /\ job[t].stage = "draining"
     /\ buffers' = [buffers EXCEPT ![job[t].sub] = <<>>]
     /\ job' = [job EXCEPT ![t].ready = held,
                           ![t].stage = IF held = <<>> THEN "closing" ELSE "ready"]
     /\ UNCHANGED <<stored, disturbed>>

CloseRow(t) ==
  /\ job[t].stage = "closing"
  /\ subscription' = [subscription EXCEPT ![job[t].sub].state = "closed"]
  /\ job' = [job EXCEPT ![t].stage = "releasing"]
  /\ UNCHANGED <<change_log, replica_writes, invalidations, enriched, buffers, disturbed>>

Release(t) ==
  /\ job[t].stage = "releasing"
  /\ buffers' = [buffers EXCEPT ![job[t].sub] = <<>>]
  /\ job' = [job EXCEPT ![t] = IdleJob]
  /\ UNCHANGED <<stored, disturbed>>

-----------------------------------------------------------------------------
(* Failures. *)

(* A write finds the database locked: AuditError, which the handlers do not *)
(* catch, so nothing already taken off the BufferSet goes back.             *)
DatabaseFails(t) ==
  /\ "busy" \in Faults
  /\ job[t].stage \in {"fetching", "admitted", "refusing", "parked", "writing", "invalidating",
                       "marking", "counted", "closing"}
  /\ job' = [job EXCEPT ![t] = IdleJob]
  /\ disturbed' = TRUE
  /\ UNCHANGED <<stored, buffers>>

(* The process restarts; only the store survives. *)
Crash ==
  /\ "crash" \in Faults
  /\ buffers' = [s \in Subs |-> <<>>]
  /\ job' = [t \in Threads |-> IdleJob]
  /\ disturbed' = TRUE
  /\ UNCHANGED stored

Handler(t) ==
  \/ \E n \in 1..MaxFetch : FetchUpdate(t, n)
  \/ LogEvent(t) \/ Accept(t) \/ RefuseDuplicate(t) \/ CountDelivery(t)
  \/ CommitMany(t) \/ RefuseOrder(t) \/ Plan(t) \/ RefusePlan(t)
  \/ WriteReplica(t) \/ Invalidate(t) \/ MarkCommitted(t) \/ CountCommit(t) \/ CommitCounted(t)
  \/ Flush(t) \/ CloseRow(t) \/ Release(t)

Next ==
  \/ \E s \in Subs : OpenSubscription(s)
  \/ \E t \in Threads, s \in Subs : Fetch(t, s) \/ Close(t, s)
  \/ \E t \in Threads, s \in Subs, n \in Events : Deliver(t, s, n)
  \/ \E t \in Threads : Handler(t) \/ DatabaseFails(t)
  \/ Enrich
  \/ Crash

Spec == Init /\ [][Next]_vars

-----------------------------------------------------------------------------
(* Properties. *)

Quiet == \A t \in Threads : job[t].stage = "idle"
WritesOf(r) == {replica_writes[r][k] : k \in DOMAIN replica_writes[r]}
Applied(s) == {w.event : w \in {v \in WritesOf(RoomOf[s]) : v.sub = s}}
Logged(s) == {change_log[i].event : i \in {j \in DOMAIN change_log : change_log[j].sub = s}}

(* Whatever reaches a room's replica is in its change log, so a reviewer    *)
(* can see what arrived, through crashes, retries and racing requests.      *)
AppliedIsLogged == \A s \in Subs : Applied(s) \subseteq Logged(s)

(* A row of the change log says "committed" only when the replica of its    *)
(* room holds the event and the buyer's panel was told to refresh: a commit *)
(* cut short half way never looks finished.                                 *)
CommittedMeansApplied ==
  \A i \in DOMAIN change_log :
    LET room == RoomOf[change_log[i].sub]
    IN change_log[i].state = "committed" =>
         /\ \E w \in WritesOf(room) : w.event = change_log[i].event
         /\ \E w \in invalidations[room] : w.event = change_log[i].event

(* A client that sends its requests one by one is never made to take more   *)
(* events than it asked for, unless a write failed or the process restarted.*)
DeliveredWithinBudget ==
  ~disturbed => \A s \in Subs :
    Cardinality({i \in DOMAIN change_log : change_log[i].sub = s})
      <= subscription[s].usage.requested

(* Nothing overtakes: when an event reaches the replica for the first time, *)
(* what the replica got from other transactions of the subscription is      *)
(* older.  A refused transaction blocks those behind it, and no retry,      *)
(* crash or lost write lets an older change come in after a newer one.      *)
NothingOvertakes ==
  \A r \in Rooms : \A j \in DOMAIN replica_writes[r] : \A i \in 1..(j - 1) :
    LET earlier == replica_writes[r][i]
        later == replica_writes[r][j]
    IN (/\ earlier.sub = later.sub
        /\ KeyOf(earlier.event) # KeyOf(later.event)
        /\ \A k \in 1..(j - 1) : replica_writes[r][k] # later)
       => earlier.event < later.event

(* What the docstrings of complete_before and assert_orderable promise: the *)
(* replica sees changes in the order the stream delivered them, and never   *)
(* has an older change written over a newer one.                            *)
ReplicaNeverGoesBack ==
  \A r \in Rooms : \A j \in DOMAIN replica_writes[r] : \A i \in 1..(j - 1) :
    LET earlier == replica_writes[r][i]
        later == replica_writes[r][j]
    IN (earlier.sub = later.sub /\ KeyOf(earlier.event) # KeyOf(later.event))
       => earlier.event < later.event

(* While no write fails, every event the change log shows as buffered       *)
(* between requests is still parked, so it can still be committed: a        *)
(* transaction that fails to apply "must not vanish" (restore_front).       *)
NothingVanishes ==
  (Quiet /\ ~disturbed) =>
    \A i \in DOMAIN change_log :
      change_log[i].state = "buffered" =>
        change_log[i].event \in Parked(buffers[change_log[i].sub])

(* While no write fails, between requests the replica holds all of a        *)
(* transaction's events that arrived or none of them.                       *)
AppliedAsAUnit ==
  (Quiet /\ ~disturbed) =>
    \A s \in Subs, key \in Keys :
      LET arrived == {n \in Logged(s) : KeyOf(n) = key}
      IN arrived \cap Applied(s) \in {{}, arrived}
=============================================================================
