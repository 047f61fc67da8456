# Verification of the Digital Sales Room

TLA+ specifications of the core of the Digital Sales Room backend
(`src/backend/dsr`), TLC runs that check them on small instances, and theorems
about them that TLAPS proves for every value of the constants.

    tlc -workers 2 -config MCAuditedDatabase_calls.cfg MCAuditedDatabase
    tlapm AuditedDatabaseProofs.tla

`PROJECT.json` lists the components, the runs, the source lines each definition
translates, the hazards of the code and the findings.

## 1. The system

One Python process (FastAPI, uvicorn) serves the API and the built React
frontend. Route handlers are plain functions that the server runs in a thread
pool, so two requests may execute at the same time. All data is in one SQLite
file behind one `AuditedDatabase`: one connection, guarded by a re-entrant lock.
`RecordStore` (`store.py`) is a thin facade over it. A workflow is a file under
`backend/dsr/features/` with a router, usually over an engine package of its own
that reads rows, decides, and writes rows through the store. Engines are built
per request. What they keep between requests is in the database, with few
exceptions: the parked transactions of the change stream are one.

Two layers of concurrency follow, and they are where this code is hard to test:

* **inside a database call** the connection's lock, `BEGIN IMMEDIATE` and
  rollback have to keep three tables together, whatever raises or dies;
* **between the database calls of one handler** nothing is held. What a handler
  read may be stale when it writes, a failure in the middle leaves the first
  writes behind, and process memory and database may part company.

### Components

| Component | State it keeps | Operations | What makes it correct | Model |
|---|---|---|---|---|
| Audited database (`db/audited.py`, `db/schema.sql`) | `records`, `record_index`, `audit_log`, JSONL mirror, connection lock | create, update, delete, restore, bulk_create, bulk_delete, `transaction()` block | change and audit row commit together; revisions, index and trail agree; the lock comes free | `AuditedDatabase` |
| CRM change stream (`change_stream/`) | subscription, change-log, replica and invalidation rows; the BufferSet in memory | open, fetch, deliver_event, commit, close, enrich | what arrived is logged, parked or applied; transactions in order and whole; flow control | `ChangeStream` |
| Dataverse tables, HubSpot webhooks (`change_stream/`) | counters and a delta token per row | poll_table, charge_hubspot_call, register | no lost counts, capacity respected | - |
| Record store, HTTP records API, plugin host | none of their own | pass-through, argument checks, registry built at start-up | the database's | - |
| Round-robin distribution (`round_robin/`) | distributions with a credit ledger and a cursor, routes, bookings, no-shows | init_simple, book, mark_no_show, cancel_booking | one booking per route, ledger = bookings, turns are taken, no member twice in one slot | `RoundRobin` |
| Headless booking, in-room scheduling | sessions, holds | start, complete, expire | one slot, one booking | planned |
| Activity event stream (`event_stream/`) | webhooks with their secrets, subscriptions with counters, events, delivery rows | record_event with its fan-out, retry_delivery, rotate_key, pause, subscribe, unsubscribe, retire | an event reaches each webhook once and none is left out; counters agree with the rows; the old signature is dropped only after the new one worked | `EventStream` |
| CRM backfill (`crm_backfill/`) | runs, a cursor per room and connection, the connection's daily purse, the replica | start, poll, resume, cancel | no row skipped, none written twice, every call charged and the charges within the daily limit | `Backfill` |
| Throttle (`throttle/`) | connections with a token bucket, batches | submit, observe, retry, drain, pause, patch | sends within the burst and the rate, the vendor's wait kept, complete = accepted | `Throttle` |
| SLA timers, approval gates, room lifecycle | deadlines, decisions, archive state | sweep, decide, archive, restore | a decision is final; a sweep and a reply do not both win | planned |
| CRM write planners (atomic bundles, partial failures, upsert, dedupe, field maps) | a request row | plan, send | pure validation mostly | - |
| Access, roles, permissions | stored grants | decide | a table of cases | - |
| Publishing, library, documents, pages, templates | content rows and files | CRUD | - | - |
| Analytics, scoring, signals, intent | aggregates | compute | pure functions | - |
| The other workflow engines (about 70 packages) | rows | read, decide, write | as above | - |
| Frontend, orchestration, tools, docs | - | - | - | - |

Interaction: features call engines, engines call the store, the store calls the
database; there are no callbacks and no background threads. The only shared
mutable memory the models meet is the connection's lock with `_tx_depth`, and
`BufferSet._registry`. The models of the engines stand on that of the database:
they take a store call, and a `transaction()` block, as one atomic step that
happens or does not, which is what `AuditedDatabase` is checked and proved to
provide.

The column "what makes it correct" is the standard, not a claim. Where the code does not
meet it, section 3 says so, and the properties say what it does keep.

## 2. The modules

| Module | What it is |
|---|---|
| `AuditedHistory` | Abstract: records and an append-only trail that move in one step per committed transaction |
| `AuditedDatabase` | The database, statement by statement; refines `AuditedHistory` |
| `AuditedDatabaseProofs` | Theorems about it: its types, that the trail explains the records, and that it implements `AuditedHistory` |
| `AuditedInvariantProofs` | Its other invariants: index, revisions, chain, optimistic updates, mirror |
| `ChangeStream` | The change stream, database call by database call |
| `ChangeStreamProofs` | Theorems about it |
| `RoundRobin` | One distribution and its team, store call by store call |
| `RoundRobinProofs` | Theorems about it |
| `Throttle` | One connection with its bucket and batches |
| `ThrottleProofs` | Theorems about it: its types, and that complete means accepted |
| `ThrottleSoloProofs` | What holds of its calls while they are served one at a time |
| `Backfill` | One connection of one room with its runs, against the three vendor adapters |
| `BackfillProofs` | Theorems about it |
| `EventStream` | The webhooks and subscriptions of the event stream, store call by store call and POST by POST |
| `EventStreamProofs` | Theorems about it |
| `MCAuditedDatabase`, `MCChangeStream`, `MCRoundRobin`, `MCThrottle`, `MCBackfill`, `MCEventStream` | Values of the constants for TLC |

Operators marked "Deliberate fault" are wrong versions of the definition that
follows them. No specification uses them: they are substituted, one at a time, to
see that a property notices.

### 2.1 AuditedDatabase

`durable` is what is committed, `working` what the connection in a write
transaction sees. `lock[c]` is `self._lock` of process `c`; `writer` is the
thread whose `BEGIN IMMEDIATE` holds SQLite's write lock of the file, which is
one lock for all processes. `job[t]` is the call thread `t` is in.

    AcquireLock -> BeginImmediate -> statement -> Reindex -> Audit -> Commit -> WriteMirror... -> Return
                   BusyTimeout        (a block repeats these three)     Rollback (any step)   Crash (any step)

* `InsertRow`, `UpdateRow`, `UpdateExpecting`, `RestoreRow` are the SQL statement
  on `records`; the `_reindex` and `_audit` that follow it in the code are
  `Reindex` and `Audit`, which are forced: nothing else is enabled but a failure.
  `SoftDelete` and `HardDelete` skip `Reindex` as the code does.
* A `transaction()` block is the `kind` "block": more writes may follow each
  `Audit`, `Commit` ends it. The bulk calls loop over `BulkInsert`,
  `BulkSoftDelete` or `BulkHardDelete` and write one audit row.
* `Rollback` stands for every exception inside `_write`: a missing row, a
  revision conflict, an id that exists, SQLite's own errors, the caller's.
  `Crash` drops the transaction and the mirror lines not yet written.
* The mirror lines are written after the commit, without the lock
  (`WriteMirror`); an `OSError` loses one (`LoseMirror`).

Abstractions. Payloads are functions from top-level keys to values, which is the
granularity of the merge patch. An index entry of a key is its value (the nested
flattening of `_flatten` is not modelled). One item of `bulk_create` and its
index rows are one step, inside the transaction where no one sees between them.
A bulk audit row keeps what the code keeps: ids for an insert, payloads for a
delete. `born` stands for `created_at`. `Get` happens between the calls of a
thread. Mirror lines carry the `seq` of their audit row only so that the property
can name it. The id of a `bulk_create` item is random in the code and never used
before in the model; the ids of the single create may be the caller's, so they
can come back after a hard delete.

### 2.2 ChangeStream

`Stream` is what the CRM emits. An event is its position there, which stands for
its sequence number and its commit timestamp. `needs` says whether the event
carries the field the room resolves records by, carries it only as an enriched
field, or not at all. A handler is the sequence

    Deliver -> LogEvent -> Accept -> CountDelivery -> CommitMany
      -> per transaction: Plan -> WriteReplica* -> Invalidate* -> MarkCommitted* -> CountCommit -> CommitCounted

with one action per database call, since each call is its own transaction and
other requests run in between. `Close` takes the same path through `Flush`, and
ends in `CloseRow` and `Release`. Refusals are actions of their own
(`RefuseDuplicate`, `RefuseOrder`, `RefusePlan`). `DatabaseFails` is an
`AuditError` out of a write, which `_commit_many` does not catch; `Crash`
forgets `buffers` and every handler.

A refused transaction sends the whole set back (`Refuse`, `Restored`), the ones before
it that are applied already included, as `restore_front` does. They are then applied
again, so writes to the replica are not bounded by the events; `MaxWrites` bounds those
there are when a call starts.

`Faults` says what a run lets happen: redelivery by the CRM, a busy database,
restarts. Without "redelivery" events come once and in order, although some may
be missing.

Abstractions. Events of a subscription are posted to the subscription's own room.
`_find_replica` and the create or update after it are one step, as are the
updates of the (normally single) change-log row of an event, and each method of
`BufferSet`. Of the usage counters, those of the flow control are kept. The
replica is the sequence of writes to it, which is what order and atomicity are
about; field values are not kept. The channel is its enrichment. Organisations,
field maps and the creation, editing and deletion of channels are left out.

### 2.3 RoundRobin

One distribution over one team. A route, a booking, a no-show row is the position
of its record; a member is its place in the team. A handler is the sequence of its
store calls, and what it read is kept in its `job`:

    Open -> OpenRoute | NotScheduled
    Book -> BookReadDistribution -> BookChoose | BookRefused -> BookCommit
    MarkNoShow -> NoShowList -> NoShowReadDistribution -> NoShowCommit
    Cancel -> CancelUpdate

`BookCommit` and `NoShowCommit` are the two `store.db.transaction` blocks: one
step, but what they write (the ledger, the cursor) is computed from `job.body`,
the distribution as it was read before the block. `EditTeam` is the administrator's
PATCH of a member. `Rank` is the order of `selection.py`, lists of keys compared
left to right.

Abstractions. The window is `SlotCount` slots and a calendar is the set of busy
ones, which is what `free_members_at` asks. The flexible score is the declared
weight times the free slots (the share of the free time has the same order).
Guests, meeting links, reminders and formatting of the calendar are left out.
`NoShowPage` stands for the 1000 rows one list call returns.

### 2.4 Throttle

The room only decides: the answer to `submit` or `retry` says "send", the caller
sends, and reports the vendor's answer with `observe` later or never
(`in_flight`). Each handler reads the connection and the batch at its start, the
bucket after that, and writes bucket and batch in separate calls:

    Submit -> SubmitDecide -> SubmitCreate -> SubmitCharge
    Observe -> ObserveSpend -> ObserveCharge -> ObserveUpdate
    Retry -> RetryDecide -> RetryCharge -> RetryUpdate   (or RetryRefuse)
    Drain -> DrainNext -> the steps of a retry, per due batch
    SetPaused, PatchConnection -> SyncRead -> SyncWrite

Time is counted in ticks of which `Second` make a second, as instants are written
to the second and the fraction is lost (`Iso`). `granted`, `sends`, `asked`, `accepted`
and `writes` are history: what was really sent and answered, the instant the vendor asked
to wait for, how often the bucket was written; against these the records are judged.
`RetryAfter` reads both forms of the header, seconds and a date: a date is cut to the whole
seconds it is away and to `Cap`, and only seconds can be beyond the cap.

Abstractions. The jitter of the backoff ladder is any value it may have. An answer with
a 2xx status completes the batch whether or not it says accepted, and is one answer with
an acceptance here. A drain goes through what is due in any order, since the store lists
by the instant of the last write. The policy fields other than the burst are constants. The quota meter, the log,
the drain of one named batch and the re-creation of a missing bucket are left out.

### 2.5 Backfill

A row of the vendor's history is its rank by date; the history grows at its end.
A scope is how many of the oldest rows it leaves out, with the newest row at the
start of the run as its end. A handler is again the sequence of its store and
vendor calls:

    Start -> AdoptCursor -> CreateRun -> OpenSpend -> CallStart -> OpenJob -> Decide
    Poll -> ReadConnection -> CountPoll -> Charge -> Ask (or ListReplica -> Submit)
    a page with rows:     Look -> Land -> Advance -> PatchRun
    a page without rows:  Wait | Finish
    Resume -> CountResume -> PollResumed,  Cancel -> CancelRun,  Break, Stall

`Decide` may go back to `OpenSpend`: `_reconsider` reopens the job once when the
vendor's count contradicts the strategy. `job.body` is the run and `job.purse` the
quota as the call read them, and `PatchRun` writes counters and job from there,
as `_patch` merges the fields it names. `estimate` is the volume a user states, true or
not, which only decides whether a start is refused and whether the job may be reopened; a
start from scratch is a full history, which may name its own beginning (`start`). `ReadPage`, `StartPage` and `PageAt` are
the three adapters, which differ in what they resume from: Dataverse from the
token of the run's cursor, the others from what the job has processed. A page is the list of rows the code
slices out: `Window` are its places, `Listed` their rows and `size` its length, so two
rows of one key in a listing of the replica count twice. `Landed` puts new rows anywhere in the replica's order, since ids are random and the push
lists by id. `Crash` forgets every job. `made` counts every call the vendor sees in the day, the second one of a reopened job
included, against which the purse is judged.

Abstractions. Row contents, the field map and thus the update of a changed row and
the rejection of a row without a key; the log; poll intervals (a poll that is not
due changes nothing); of a Salesforce or HubSpot cursor only the kind, since the
adapters read nothing else of it. A day passes and the history grows between
calls, never during one.

### 2.6 EventStream

A subscription is its position in the order of creation, an event or a delivery
that of its row, a signing secret its generation. Every store call and every POST
is an action, and the answer to a POST is chosen freely:

    RecordEvent -> List -> per candidate: Fan -> Post -> StoreDelivery -> FoldRead -> FoldWrite
                                                      -> CountRead -> CountWrite       ... -> FanOver
    Retry -> RetryRequire -> Post -> StoreDelivery -> FoldRead -> FoldWrite -> ConfirmRotation
    Rotate -> RotateWrite                       PauseWebhook
    PauseSubscription, Unsubscribe, Subscribe -> SubscribeWrite: then Recount -> RecountWrite
    Retire -> per subscription: RetireNext -> Recount -> RecountWrite ... -> RetireHook

A candidate that is withheld (paused, or its filter does not match) skips `Post` and
the webhook's counters, one whose webhook was sent to already is passed over, and a
retry skips the webhook's counters, as the code does. `Fan`, `FoldRead`, `FoldWrite`,
`CountRead` and `CountWrite` end the call when the record is gone, which is how
`RecordNotFound` leaves it. The candidates are gone through in any order, since the
listing is sorted by `updated_at`, which every counter moves. `job.seen` are the
webhooks sent to in this call, `job.line` and `job.base` the copies of webhook and
subscription that counters and confirmation are computed from.

`posts`, `steady` and `proven` are history: how many POSTs were really made for a
subscription; per event, the subscriptions that matched it and were live, with their
webhook, at the record and ever since; the secret that signed the last accepted
delivery of a webhook.

Abstractions. What an event is to a subscription (`Interests`) stands for the type,
the room and the filter at once. A retry may be asked for at any time, without the
waits of the ladder. Some subscriptions are there from the start, and one is created
at a time, so that a position names a subscription. The creation of webhooks and the
test event are left out.

## 3. The runs

| Run | Question | Instance | Result |
|---|---|---|---|
| `database_calls` | Do records, index, revisions, trail and mirror agree after any sequence of calls, failures and crashes, whatever two threads interleave? Does `expected_revision` protect a read-then-update? Is every commit one step of `AuditedHistory`? | 2 threads, 2 records, 3 audit rows | holds |
| `database_processes` | Does the connection's lock always come free? | 2 processes, 1 record, 2 audit rows, liveness | holds |
| `stream_client` | Is what the replica gets for the first time younger than what it has, through refusals, lost writes and restarts? Until one of those happens (`disturbed`), is nothing lost or half applied, and the budget kept? | 1 thread, 5 events in 3 transactions, busy database and restarts | holds |
| `stream_threads` | Does the log cover the replica, and "committed" mean applied, between racing requests? | 2 threads, 2 events, 2 log rows, all faults | holds |
| `stream_refused` | Do transactions reach the replica in the order the stream delivered them? | 1 thread, 3 transactions, no fault | violated |
| `stream_retry` | Does a transaction that failed to apply survive a retry? | 1 thread, redelivery | violated |
| `round_robin_rotation` | Do booking, credit and route come together, does racing never invent a credit, and do calls served one at a time leave a ledger that adds up, one booking per session, settled bookings and a fair rotation? | 2 threads, 2 members, 2 slots, 2 routes, an edit of the team | holds |
| `round_robin_slot` | Is a member booked once for a slot? | 1 thread, 2 members, 2 slots, 2 routes | violated |
| `throttle_calls` | Is "complete" only what the vendor accepted, whatever overlaps? Served one at a time, is the pause kept, the vendor's wait to within a second and up to the cap, and is what is sent beyond burst and rate only what the lost fractions explain? | 2 threads, 2 batches, 4 calls, a clock of half seconds | holds |
| `backfill_runs` | Is a resume point never ahead of the replica, and a complete run complete, whatever crashes or overlaps? Served one at a time, do calls make no duplicates, charge no more than the daily limit, and leave at most the reopening call of each run uncharged? What has a complete push sent? | 2 threads, 2 runs, 2 rows in pages of one, 2 days, a crash or an overlap, three accounts | holds |
| `backfill_gap` | Is every row of the scope of a complete run in the replica, when runs have different scopes? | 1 thread, 2 runs, 3 rows, Dataverse | violated |
| `event_calls` | Does an event reach each webhook once, whatever overlaps or crashes, and do the counters never tell of more than was sent? Do calls served one at a time go through all their candidates, count right, and keep the old signature until the new one worked? | 2 threads, 2 subscriptions of 1 webhook, 1 event, 5 calls, 1 retry, a crash, an overlap | holds |

### What is claimed of overlapping calls

Handlers hold no lock between their store calls, so most of what the code says of
a call holds only when no other call is served meanwhile. The models let calls
overlap everywhere and keep a history of it (`overlapped`, `Quiet`). A property
that two racing calls can break is stated for calls served one at a time, and the
loss is listed as a hazard; what must survive a race is stated without the
condition: `LedgerNeverOverstates`, `CommittedTogether`, `CompleteMeansAccepted`,
`CursorNeverSkips`, `OpenedMeansCovered`, `AppliedIsLogged`, `NoLostUpdate`,
`SentOncePerWebhook`, and `PushedAll`, whose exceptions are not overlaps: a row
landed in the replica by another run moves the places that a push counts, and a push to
Dataverse sends nothing.

Where the code breaks, one call at a time, what it says of itself, the property states
what is left of it and how far the code may be off: `SpendsWithinBudget` (what the lost
fractions add), `WaitIsKept` (the lost second, the date beyond the cap), `QuotaKept` (the
call that is not charged) and `PushedAll` (Dataverse). The runs of these properties reach
the states in which the stronger claim is false.

### Bounds, and why they are enough

`MaxAudit` bounds the audit rows. Three rows are enough for insert, delete and
restore or re-creation of one id, and for a bulk call between two writes on two ids.
In `database_calls` one of the two threads makes every call there is, with the revision
it read of the first record or without one, and the other is a client that reads and
edits that record (`PlainClient`): writes of one process exclude each other through the
lock, so what is left to interleave is a read with what comes between it and the
update, and the mirror lines of two calls. That two arbitrary threads, or two
processes, do no more is part of the theorems of section 4.

`MaxRows` and `MaxFetch` bound the change log and the requested events, and `MaxWrites`
(6 in the client run) what a replica holds when a call starts, which is enough to apply a
set again after a refusal. The stream
of the client run has three transactions of up to two events, so a set of two can
be closed together, one of them refused. The threads run has two deliveries in
flight, and all faults.

`MaxRoutes` (2) and `MaxEdits` (1) bound the sessions and the edits: two sessions
are what a race, a tie and a repeated visit need. `MaxRaced` (2) bounds the calls
served once two calls have overlapped; until then calls are not bounded, so the
long one-at-a-time histories are all explored, and a race is explored with what
follows it in two more calls. `NoShowPage` is 1, so that a second no-show pushes the
first off the page.

`MaxCalls` (4), `MaxBatches` (2), `MaxClock` (4 ticks, of which `Second` makes 2) and
`MaxRaced` (1) bound the throttle: a batch can be submitted, deferred, retried and
answered, and calls come at whole and at half seconds, so every instant that is stored
may lose its fraction. `Asks` has a wait the room takes on its own and one above `Cap`;
the date in `Dates` is beyond the cap when it is observed early and within it later. Finer
clocks, other rates and other policies are part of the theorems of section 4.

In `Backfill`, `MaxRuns` (2) bounds the runs, so that one adopts the other's cursor;
`MaxRows` (2) with pages of one row gives first, last and empty pages;
`MaxDays` (2) with `ExpiryDays` 1 lets a token expire and the purse start over;
`MaxMishaps` (1) bounds the crashes plus the calls begun during another one, so a
crash falls, or a second call begins, at every point of every history. The accounts are one of
each vendor: one that reopens the job, one without the grant, which leaves its runs
unopened, and one with a token and a daily limit of three calls, which two runs that
reopen their jobs pass: they make four calls and are charged for two. A HubSpot account with the grant
reads pages as the Salesforce one does.

In `EventStream`, `MaxCalls` (5) is enough to record an event, retry its delivery and
rotate the key around them, with another edit; `MaxEvents` (1), since events meet only in the
counters, which retries share too; `MaxRetries` (1), so that a delivery is retried and
then given up; `MaxMishaps` (1) bounds the crashes and, apart, the calls begun during
another one. Two subscriptions of one webhook, where both match or the filter of the
first one does not, are what "once per webhook" needs; that webhooks do not disturb
each other is part of the theorem of section 4.

Symmetry is used for threads that make the same calls only, and never with liveness. The deadlock check is off in the runs of `RoundRobin`, `Throttle`,
`Backfill` and `EventStream`: when the sessions are booked and settled, or the bounds on calls, runs
and days are reached, nobody calls. The runs of the other two modules keep it on.

### Fairness

Only `ConnectionComesFree` needs it: `WF_vars(Running(t))` says that a thread in
a call goes on. The code justifies it: the call has no wait but `BEGIN
IMMEDIATE`, which SQLite answers within `busy_timeout` (`_connect` sets it), and
a `with` block that raises leaves through the rollback. A caller may keep a
`transaction()` block open as long as it likes in the code. In the model a block
is finite since `MaxAudit` bounds its writes, so the property assumes that the
callers' blocks end. Nothing is assumed about new calls, crashes or the other
process.

The engines have no liveness property: nothing in the code calls poll, drain or
deliver again, a scheduler outside it does, and no fairness of the code makes a
run or a batch end.

### Findings

* **A retried delivery loses a transaction** (`stream_retry`). A is parked; the
  first event of B closes it; A cannot be applied, goes back in front of B's
  buffer, and the request fails. The client sends the event again, as one does:
  `accept` removes A before it finds that the event is a duplicate, and the early
  return drops A.
* **An older change is written over a newer one** (`stream_refused`). A and B are
  applied and C, of the same set, cannot be. `restore_front` parks A, B and C again;
  the next event closes them, and A is applied a second time, after B. What was
  applied for the first time is in order (`NothingOvertakes`, proved).
* **A member is booked twice for a slot** (`round_robin_slot`). Two sessions offer
  the same slot; the re-check at booking time reads the configured busy blocks and
  no booking.
* **A complete backfill misses rows** (`backfill_gap`). A Dataverse token is an
  offset into the scope it was read under. A run over another scope of the same
  connection adopts it and starts that far into its own.

Other places where the code and what it says of itself part, met while modelling
and kept in the models, which no run is spent on:

* A room's rows are marked committed by another room, since the rows to mark are found
  by transaction key and sequence number alone (`change_stream/engine.py:1053`); the
  model has one room.
* `refill` credits up to the instant and stores it truncated to the second, so the
  fraction is credited again (`throttle/bucket.py:98`), and a decision that spends refills
  twice. Calls served one at a time are granted more than the burst and the rate allow;
  `SpendsWithinBudget` has the term for it.
* A wait ends up to a second early: its end is written truncated
  (`throttle/timestamps.py:21`), and a `Retry-After` that names a date was cut to whole
  seconds before (`throttle/backoff.py:141`). A date beyond the cap is not refused as a
  number of seconds is (`exceeds_cap`) but cut to the cap, so the batch is sent before the
  instant the vendor named, where `throttle/backoff.py:164` calls it "a wait the vendor has
  scheduled for later".
* An id that comes back after a hard delete starts over at revision 1, so an
  `expected_revision` read before is accepted (`db/audited.py:620`).
* `drain` sends every due batch and applies its `limit` to the answer only, where
  `throttle/engine.py:736` says the limit keeps it from walking a backlog in one call;
  it retries a batch in `needs_action`, which `throttle/vocabulary.py:157`
  says the room will not retry on its own; a refused retry replaces the wait the
  vendor asked for; `submit` and `retry` spend tokens for a call and `observe`
  spends them again.
* A backfill run left `created` can be polled although its job was never opened, and
  is complete after one page, since no total is known. The second call of a
  reopened job overwrites the charge of the first (`crm_backfill/engine.py:1155`), where
  `crm_backfill/quota.py:35` has every call cost one, so a limited connection is called
  past its daily limit without any overlap: by one call for each run. A push to Dataverse
  is accepted (`supports_push`, `crm_backfill/vendors.py:378`), asks the vendor for a page
  of its history instead, and when that is empty, as after a pull whose token it adopted,
  is complete having sent nothing. A push to another vendor loses its place in the listing when a pull lands
  rows between its pages. A cancelled run is revived by a poll that was under way.
* A retry looks neither at a pause nor at the state of the subscription: it posts to a
  paused webhook, and for a cancelled subscription it posts and then answers with an
  error out of the counters. `event_stream/stream.py:725` says a delivered row is final,
  but of two retries that overlap both post, and the slower failure makes it retrying
  again. The delivery id in the header is meant to be stable and is another one at the
  first attempt (`event_stream/stream.py:839`) than at the retries (`:737`).
* A subscription cancelled, or a webhook retired, while an event is fanned out ends the
  fan-out for all candidates that follow (`event_stream/stream.py:794`). A subscription
  created while its webhook is retired is never unsubscribed and ends every later
  fan-out of an event it matches.
* A success closes the overlap of the rotation the retry saw, also when another
  rotation came in between (`event_stream/stream.py:762`); and while both signatures
  are sent it may be the old one that was verified.

## 4. What is proved

Each proof module holds theorems of one component (the database and the throttle have two), for any
value of its constants, from the assumptions named in the component's module only. In each,
one lemma types each helper, one step covers each action, and the inductive
invariant is a conjunction of named parts.

### AuditedDatabaseProofs

From `ThreadAssumption`, `PayloadAssumption` and `BoundAssumption` (no thread is
called `NoThread`, `Unset` is not a value, `Null` is not a payload, the bound is a
number):

* `TypeCorrect`: `Spec => []TypeOK`.
* `TrailCorrect`: `Spec => []TrailExplainsRecords`. A committed record is what the
  newest audit row about it says.
* `HistoryCorrect`: `Spec => ImplementsHistory`, the refinement of `AuditedHistory`.

`TrailExplainsRecords` speaks of `durable` and is not inductive: `Commit` copies
`working`, of which it says nothing. `IInv` adds what a write transaction
maintains on the way:

* who is inside a transaction (`InWrite`) holds the write lock, so there is one
  such thread (`OneWriter`), and outside one `working` is not looked at;
* the entries in both trails and the entry in preparation have the shape their
  action gives them;
* between the statement on a row and its audit row, `working` is explained by the
  trail extended by the entry in preparation (`PendingExplained`); once that entry
  is appended, and before the first statement, it is explained by the trail as it
  stands (`WorkingExplained`).

A statement establishes `PendingExplained` from `WorkingExplained` (it changes only
the rows the entry names), `Reindex` keeps it, `Audit` turns it into
`WorkingExplained` for the longer trail, `Commit` moves that to `durable`, and
`Rollback` and `Crash` fall back to `durable`.

A commit is one step of the abstract history although its statements were not, so the
invariant has to carry what the commit will show. `RInv` adds `WorkingUnfolds` to
`IInv`: the trail of an open transaction continues the committed one; an id no new
entry names is as it was; and the first new entry that names an id kept the payload
that readers still find there, which is what `AuditedHistory` asks of a step. Each
statement extends this by the entry in preparation (`StatementUnfolds`), `Audit` turns
that entry into one of the trail (`AuditUnfolds`), and `Commit` is then a step of the
history (`CommitIsHistory`). Nothing else changes `durable` (`OnlyCommitChanges`).

### AuditedInvariantProofs

* `IndexCorrect`, `RevisionsCorrect`, `ChainCorrect`: `IndexMatchesRecords`,
  `RevisionsCountEntries` and `TrailIsUnbroken` hold in every reachable state.
* `UpdateCorrect`: so does `NoLostUpdate`.
* `MirrorCorrect`: so does `MirrorTellsCommitted`.

Nine statements write a row, and five invariants would each need a case for all of
them. Instead `Wrote` says once what a statement does to one row and to the entry in
preparation (the row is created, touched or removed; the entry grew by its id and
holds the payload found), and `StepKinds` sorts every other step: a transaction opens,
the index is written, the audit row is written, a commit, or neither table moves. Then

* `RowInv` holds of `durable`, and of `working` inside a transaction, that rows, trail
  and entry in preparation agree: `Chained`, `Counted` and, but for the rows whose index
  is not written yet, `Indexed`;
* `LifeInv` says that every row, and every copy a thread has read, is `Later`ed by the
  row there is now: under the same birth the revision has not gone back, and with an
  equal revision the payload is equal. That is all `expected_revision` can tell;
* `MirrorInv` follows a line from the audit row it copies to the file: queued lines are
  ahead of `durable` while the transaction is open (`QueueAhead`), so a rollback takes
  with them all they copied, and after the commit they copy rows that no other queue
  and no line of the file copies (`QueueOwed`).

### ChangeStreamProofs

From the assumptions of the module on its constants:

* `TypeCorrect`: `Spec => []TypeOK`.
* `LoggedCorrect`: `Spec => []AppliedIsLogged`, whatever overlaps, fails or dies.
* `CommittedCorrect`: `Spec => []CommittedMeansApplied`, whatever overlaps, fails or
  dies, if the subscriptions are those of one room.
* `BudgetCorrect`, `VanishCorrect`: `DeliveredWithinBudget` and `NothingVanishes` under
  `OneByOne`.
* `OvertakesCorrect`, `UnitCorrect`: `NothingOvertakes` and `AppliedAsAUnit` under
  `OneByOne` and `Contiguous`.

The hypotheses are those of the runs, and the properties are false without them. One
room, because `_mark_events_committed` looks rows up by transaction key and sequence
number and finds those of other rooms. `OneByOne` (one thread, and no event handed over
twice): two deliveries spend one request, and `stream_retry` shows what a retry does.
`Contiguous` (the events of a transaction follow one another, as a CRM that numbers its
commits emits them): where A, B, A is delivered, the first half of A is applied before
the second arrives. No theorem assumes anything of the stream's length, of the number of
subscriptions, or of which transactions can be applied. `disturbed` in a property ends
its claim with the first failed write or restart; `AppliedIsLogged`,
`CommittedMeansApplied` and `NothingOvertakes` have no such end.

`TypeInv` adds what a call has at each stage (`Fits`), among them that the events left to
do are those of its transaction. Each invariant after it says the same of what is parked,
of what a call carries, and of the tables:

* `LogInv`: what is parked or carried was logged. `CommitInv` follows a transaction
  through its loops (`CallApplied`): the events no longer in `todo` are written, then all
  are and those no longer in `todo` were told, and only then rows are marked.
* `ClientInv` holds of a client that waits for its answers: an event is newer than what
  was logged (`FreshCall`), so it is never a duplicate; a key is parked once
  (`OnePerKey`) and either parked or carried (`HeldCall`).
* `BudgetInv` keeps the books of the counters: requested is delivered plus outstanding,
  and the rows of the log are delivered, with one more while a delivery is on its way.
* `VanishInv`: a row that says buffered is parked, or a call has yet to apply or mark it
  (`Pending`). When a call ends, what it still carried was put back (`PendingAtEnd`).
* `OrderInv`: what is parked is in order, behind what is carried, and whatever of it is
  not in the replica is younger than all the replica has of other transactions
  (`Younger`). What is applied again after a refusal is in the replica already, which is
  why the property speaks of the first time.
* `UnitInv`: a parked or carried transaction holds all that arrived under its key
  (`Whole`), and one of which an event is applied can receive no other (`Settled`): the
  stream is past it or the subscription is closed. So the one transaction that is
  applied in part is the one a call is writing (`Unit`).

### RoundRobinProofs

From `CountAssumption`, `TeamAssumption` and `BoundAssumption`:

* `TypeCorrect`: `Spec => []TypeOK`.
* `LedgerCorrect`: `Spec => []LedgerNeverOverstates`, although every call writes a
  ledger it computed from an old read.
* `TogetherCorrect`: `Spec => []CommittedTogether`, whatever overlaps.
* `ExplainedCorrect`, `OnceCorrect`, `SettledCorrect`: of calls served one at a time,
  `LedgerExplained`, `BookedOnce` and `SettledForGood`, for any `NoShowPage`.
* `TurnsCorrect`: `Spec => []TakesTurns`, for a team of any size.

`TypeInv` adds `CallsFit` to the types: what a call remembers of a row (its slot,
its member, the booking's member) is still true of it, since no step removes a
booking or gives it to somebody else (`Kept`). `LedgerInv` strengthens the property
to every copy of the ledger: not only the record's, but each one a call has read
and will write back, is covered by the bookings and no-shows there are now
(`Covers`). These only grow, so a copy stays covered while it ages; a commit writes
a covered copy plus one, together with the row that covers the one.

The other invariants are proved from `StepKinds`, which says field by field what each
kind of step does. `TogetherInv` needs, besides the counts of movements per booking
(`Linked`) and the route's own reference (`Closed`), that no movement names a booking
still to come (`MovementsNamed`) and that a call books a route that exists
(`RoutesFit`). `SoloInv` is about the time before any two calls overlap (`raced = 0`):
at most one thread is at work, what it read is what is there, the route it is to book
is open and the booking it is to settle is confirmed (`Current`). From the open route
follows `Once`, because a booked route is closed by `TogetherInv`; from the confirmed
booking follows that nothing is settled twice, without a word about the page of
no-show rows. `TurnsInv` is about the shorter time in which the rotation is left alone
(`Quiet`): the one open session names a member with the fewest bookings
(`FewestFirst`; strict ranking compares credits consumed, which are the bookings as
long as none came back), that member is free and takes the booking (`TakesChosen`),
and so nobody gets more than one ahead (`Level`).

### ThrottleProofs

From `PolicyAssumption` and `BoundAssumption`:

* `TypeCorrect`: `Spec => []TypeOK`.
* `AcceptedCorrect`: `Spec => []CompleteMeansAccepted`, whatever overlaps.

`TypeInv` adds `CallsFit`: a call that has a batch has one that exists. A call writes
back the batch as it read it, so the property has to be said of what calls carry as
well: `Carries` says, per kind of call, at which stages it carries a batch and that
its `body` is complete only if the batch is in `accepted` (an observe of an acceptance
has put it there itself). `accepted` only grows, so a copy stays good while it ages.

### ThrottleSoloProofs

From the same assumptions:

* `AttemptsCorrect`: `Spec => []AttemptsWereSent`.
* `PausedCorrect`: `Spec => PausedSendsNothing`.
* `WaitCorrect`: `Spec => WaitIsKept`.
* `BudgetCorrect`: `Spec => []SpendsWithinBudget`.

`StepKinds` says field by field what each of the nineteen kinds of step does; the
invariants are proved from that. `MadeInv` bounds the attempts of every row and of
every copy by the calls sent, with one more for the row whose submit is about to say
"send" (`Owed`). `SoloInv` is about the time before any two calls overlap
(`raced = 0`): then at most one thread is at work (`Alone`), what it read of its batch
and of the connection is what is there (`Fresh`), and the counts are equal (`Even`). So
the decision it took on an unpaused connection was taken on the connection there is
when it says "send".

The last two are about instants that lose their fraction when they are written, by as
much as a second less a tick (`IsoBounds`), for a clock of any resolution. `WaitInv` says
that a deferred row names an instant at most a second before the one the vendor asked for
(`WaitRow`, from `LongEnough`: a wait taken on, cut and written, ends at most a second
early), unless the answer is still being observed, and that a retry that passed the check
has seen that instant. `BudgetInv` keeps the books (`Covered`): what was granted, and a
purse, come from the largest burst, from what the rate brought until the instant the purse
names, and from the drift. A refill at an instant credits all that has passed since the
instant the purse names, and the purse then names one up to a `Fraction` earlier, so a write
adds that much to the drift; a decision that spends refills a second time before it
writes, and adds it twice (`RefillCovered`, `SpendOnce`, `Drift`). A call that was allowed
pays its cost in full (`SpendCovered`), so its purse is covered together with the grant it
is about to make (`Held`).

### BackfillProofs

From `PageAssumption`, `AccountAssumption` and `BoundAssumption`:

* `TypeCorrect`: `Spec => []TypeOK`.
* `ResumeCorrect`: `ScopeStarts = {0} => (Spec => []CursorNeverSkips)`. A resume
  point is never ahead of the replica, whatever overlaps or crashes.
* `CoverCorrect`: `ScopeStarts = {0} => (Spec => []OpenedMeansCovered)`. A complete
  pull whose total is known has landed its whole scope, whatever overlaps or crashes.
* `PushCorrect`: `Spec => []PushedAll`, whatever overlaps or crashes: what a complete
  push to Salesforce or HubSpot has sent, and that one to Dataverse has sent nothing.
* `UniqueCorrect`, `QuotaCorrect`: of calls served one at a time, `NoDuplicates` and
  `QuotaKept`.

`TypeInv` adds `CallsNamed`: a call in progress names a run that exists.
`CursorNeverSkips` speaks of what is stored, but a call carries resume points of its
own: the body of the run it read, the cursor it adopted, the page it is about to
land. `ResumeInv` says the same of those (`GoodRun`, `GoodPage`), with one
exception, which is the order of `_land`: what a page claims as processed is in the
replica together with the page's rows that are still to be landed (`Pending`). Those
are all rows of the page until the replica was looked through, the missing ones
until they are created, and none after that, which is when `Advance` and `PatchRun`
store the claim. The replica only grows, so a claim that holds stays true however
late it is written. The hypothesis that all scopes start with the history is needed:
without it a token is an offset into another scope, and `backfill_gap` shows the
rows that are skipped.

`CoverInv` is `ResumeInv`, `PushInv` and the end of a pull: a page without more rows
reaches the total it names (`Whole`), again together with the rows still to be landed;
only such a page completes a run, and the call carries it until `PatchRun` writes
"complete" (`CoveredCall`). That the total is the number of rows of the scope is an
invariant of its own, `TotalInv`: the scope of a run is fixed when the run is created,
and every total that is known, of a run, of a call's copy of it or of a page, was
counted in that scope. `PushInv` is needed because a run that is complete may be a
push: the direction a call works in is that of its run (`Sided`). By itself it says
that the rows at the places a run has seen were sent (`PushedRun`), that a call's
copy of the run lags behind what was sent (`PushedCall`), and that the page it holds
takes both to the end of the page (`PushedPage`); a landing moves the places and ends
the claim (`outbox[r].moved`).

`UniqueInv` and `QuotaInv` are about the time before any two calls overlap, in which
one thread at most is at work (`Alone`, which both steps share as `AloneStep`). Then a
row that a call found missing is still missing when it lands it (`Missed`), and the
landing adds as many rows as keys. For the quota, a call is charged before it is made:
`Owes` names the stages between the charge and the vendor call, at which one call
fewer was made than the purse shows, and until it charges a call carries the purse
there is (`Uncharged`). A reopened job writes its second charge from the purse it read
before the first, over it, so it is the one vendor call of its run that the purse does
not show. A run's job is opened by the call that creates the run and by no other, so
the books are kept in `Net`, the calls made less one for each run there is: a run that
has not been reopened has that call to spare (`OwesTwo`).

### EventStreamProofs

From `HookAssumption`, `InterestAssumption` and `BoundAssumption` (the constants are
of their kind, and there is a webhook at all):

* `TypeCorrect`: `Spec => []TypeOK`. `TypeInv` adds what a call is about at each of its
  stages (`Fits`) and that one subscription is created at a time, in a place there is.
* `SentCorrect`: `Spec => []SentOncePerWebhook`, for any number of webhooks,
  subscriptions, events and threads.
* `CountersCorrect`: `Spec => []CountersAddUp`. That counters never tell of more than
  was sent holds whatever overlaps; that they are equal to it, and the count of a
  webhook's live subscriptions is right, of calls served one at a time.
* `FanOutCorrect`, `OverlapCorrect`: of calls served one at a time, `FanOutGoesThrough`
  and `OverlapEndsWithDelivery`.

`SentOncePerWebhook` speaks of the rows and of fan-outs that are over. What connects
the two is the fan-out under way (`FansOut`): its `seen` are exactly the webhooks with
a row of the event, but for the one whose POST is made and whose row is not written
(`UnderWay`), which has none; and a subscription on the path is still in `todo` or its
webhook is in `seen`. So a second POST to a webhook is never made, and when `todo` is
empty every webhook on the path has its row. That nobody else writes a row of the event
needs two more facts: one call fans an event out (`OneFanOut`), and a retry writes over
a row of the same event and subscription that is no skip (`Retries`). `OnPath` says
that a subscription on the path is live, matches and is not paused, so that it is never
withheld; a crash only leaves the event without `updated`.

`TallyInv` bounds the counters. `CountedFor` and `CountedTo` are the POSTs of a
subscription and the rows of a webhook less those whose call has not come to write the
counter yet (`Uncounted`, `Untold`); a counter, and the copy a call has read of it and
will write back plus one (`Fresh`), is at most that number. It never decreases, since a
POST and the debt of its call come in one step, so a copy stays good while it ages and
a lost update can only leave a counter behind. One lemma per step says which of these
numbers it moves (`Level`, `Grows`).

The other three are about the time in which nothing is disturbed: one thread at most is
at work, no crash has happened (`Turn`). `EvenInv` turns the bound into an equation
(`Balanced`), as what a call carries is what is there (`Copies`). It needs `OrderInv`,
by which a fan-out never ends early because its record is gone: a webhook is retired
after the last subscription under it and none is created under a retired one
(`NoOrphan`), candidates are kept subscriptions (`Orderly`), and an event without
`updated` has its fan-out under way (`AllOut`). `LiveInv` says of the webhook's count of
live subscriptions that it is right or the call that changed them is about to write it
(`Told`, `Tallied`). In `SignedInv` the line a call signs with is that of the webhook
there is, and an accepted answer proves that secret until the confirmation is written
(`Signs`), because a rotation would be a second call.

### Only model-checked

Of the properties of the passing runs only `ConnectionComesFree` of `AuditedDatabase`:
it is liveness under fairness, which is out of the prover's reach. Every invariant and
action property of these runs, and the refinement of `AuditedHistory`, is a theorem.
Where a theorem has a hypothesis on the constants (`ScopeStarts = {0}`, and those of `ChangeStreamProofs` above), the run that checks its property satisfies it,
and what happens without it is the subject of a finding or of a hazard. The properties
of the runs that expect a violation are false, so there is nothing to prove.

## 5. What is not modelled

`close()` and the schema set-up of the database (start and end of the process);
queries, which change nothing; `COMMIT` itself failing and exceptions outside
`Exception`, both of which leave the connection in an open transaction (listed
as a hazard). In the change stream the organisations, and the creation, editing
and deletion of channels: deleting a channel looks for open subscriptions and then
deletes, so a subscription opened in between reads a deleted channel. Its
Dataverse tables and HubSpot webhooks: single read-modify-write calls on one row,
which lose counts when they overlap. The replica lookup is one step, although two
commits may both find no row and both create one, and a lookup reads at most 100
matches. In the event stream the creation of a webhook, the test event, new types, rooms
or filters of a subscription, the waits of the ladder, and the backfill of old events
with its rate limit, and the window of 500 rows of its listings, beyond which a webhook
has candidates that a fan-out does not see.

A few steps stand for two calls of the code that a call in between could part: the
team that `OpenRoute` reads and the route it
writes; the listing and the first read of `Retire`; the read of the subscription and its
patch in `Unsubscribe`; the look-up of the cursor row and its write in `Advance`. The
components without a module in the table of section 1, for the
reasons given in `PROJECT.json`.

## 6. Plan

In order of what the system stands on:

1. `AuditedHistory`, `AuditedDatabase` and its theorems - done.
2. `ChangeStream` - done as far as section 2.2 says. Next: deletion of a channel
   against opening a subscription; the replica per record, with find and create
   apart; `BufferSet` methods in finer steps.
3. `RoundRobin`, `Throttle`, `Backfill`, `EventStream` - done.
4. `SlaTimers` and `ApprovalGate`: a sweep against a reply, a decision against an
   escalation; booking sessions of `headless_booking`.

Proofs to come: none of the invariants above is open. What a proof would add next is
an abstract specification of a component other than the database, shown to be
implemented step by step: for the fan-out, a webhook and the set of events it was
sent; for the backfill, a scope and the part of it that has landed.
