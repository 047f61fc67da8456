------------------------------ MODULE Backfill ------------------------------
(***************************************************************************)
(* Historical backfill of backend/dsr/crm_backfill/: a run copies the rows *)
(* of a CRM's history into a room's replica page by page (or the replica   *)
(* into the CRM), resuming from a cursor it stores after each page.        *)
(*                                                                         *)
(* One connection of one room.  Nothing here starts a thread: a scheduler, *)
(* or a user, calls start, poll, resume and cancel, and every call a       *)
(* handler makes on the store or on the vendor is an action of its own.    *)
(* What a handler has read is kept in its thread's job, and a patch writes *)
(* the fields it names from there.                                         *)
(*                                                                         *)
(* A row of the history is its rank, oldest first.  A run is the position  *)
(* of its record.  Poll intervals are left out: a poll that is not due     *)
(* changes nothing.                                                        *)
(***************************************************************************)
EXTENDS Integers, Sequences, FiniteSets

CONSTANTS
  Accounts,      \* what the connection may be: vendor, daily limit, grant
  Threads,       \* threads serving requests
  ScopeStarts,   \* how many of the oldest rows a scope may leave out
  PageSize,      \* rows of a page
  ReadyAfter,    \* polls before an asynchronous job has results
  BulkThreshold, \* rows above which a history is read by an asynchronous job
  ExpiryDays,    \* days a vendor answers for a change token
  MaxRows,       \* bound on the rows of the history
  MaxRuns,       \* bound on the runs
  MaxDays,       \* bound on the days
  MaxMishaps     \* bound on the crashes, and the calls begun during another one

Vendors == {"salesforce", "hubspot", "dataverse"}
Rows == 1..MaxRows

ASSUME PageAssumption == PageSize \in Nat \ {0}
ASSUME AccountAssumption ==
  Accounts \subseteq [vendor : Vendors, limited : BOOLEAN, limit : Nat, granted : BOOLEAN]
ASSUME BoundAssumption ==
  /\ ScopeStarts \subseteq Nat
  /\ \A bound \in {ReadyAfter, BulkThreshold, ExpiryDays, MaxRows, MaxRuns, MaxDays, MaxMishaps} : bound \in Nat
  /\ MaxDays > 0

VARIABLES
  account,  \* the connection, without its purse
  purse,    \* the connection's quota: the window's day and its calls
  rows,     \* rows of the vendor's history so far
  replica,  \* the keys of the replica's rows, in the order of their ids
  stored,   \* the room's cursor row for the connection
  runs,     \* the run records
  job,      \* the call each thread is serving (in memory)
  day,      \* today
  made,     \* history: today's vendor calls on a limited connection
  outbox,   \* history: per run the rows sent, and whether the replica moved
  crashes,
  raced     \* history: the calls begun while another one was served

records == <<account, purse, replica, stored, runs>>
history == <<made, outbox, crashes, raced>>
vars == <<records, rows, job, day, history>>

-----------------------------------------------------------------------------
(* Records. *)

Unknown == -1

(* cursors.py: a token is an offset; an unreadable one ("None") counts as 0. *)
Cursors == [kind : {"none", "handle", "data_token", "paging_cookie"}, at : Int, day : Nat]
NoCursor == [kind |-> "none", at |-> 0, day |-> 0]

States == {"created", "running", "complete", "failed", "cancelled", "stalled"}
Terminal == {"complete", "failed", "cancelled", "stalled"}

(* `start` and `to` are the scope, `total` and `processed` the job's,       *)
(* `seen` and `polls` the counters'.                                        *)
Runs == [direction : {"pull", "push"}, start : Nat, to : Nat, state : States,
         total : Int, processed : Nat, cursor : Cursors, seen : Nat, polls : Nat]
NoRun == [direction |-> "pull", start |-> 0, to |-> 0, state |-> "created", total |-> Unknown,
          processed |-> 0, cursor |-> NoCursor, seen |-> 0, polls |-> 0]

(* VendorPage, or a page of the replica: `size` is the length of its list   *)
(* of rows, `token` the cursor of a page of a change stream.                *)
Pages == [rows : SUBSET Rows, size : Nat, total : Int, processed : Nat, more : BOOLEAN,
          token : Int]
NoPage == [rows |-> {}, size |-> 0, total |-> Unknown, processed |-> 0, more |-> FALSE,
           token |-> 0]

Purses == [day : Nat, calls : Nat]

Stages == {"idle",
           "starting", "creating", "opening", "calling", "opened", "deciding",
           "resuming", "repolling", "polling", "counting", "charging", "asking", "listing",
           "submitting", "looking", "landing", "advancing", "patching",
           "waiting", "finishing", "breaking", "stalling", "cancelling"}

(* `adopted` is the cursor a start adopted, `loose` that no volume was      *)
(* given, `again` that the job is reopened, `pushing` that the page goes    *)
(* out to the vendor.                                                       *)
Jobs == [stage : Stages, run : Nat, body : Runs, purse : Purses, adopted : Cursors,
         loose : BOOLEAN, again : BOOLEAN, pushing : BOOLEAN, page : Pages,
         missing : SUBSET Rows]
IdleJob == [stage |-> "idle", run |-> 0, body |-> NoRun, purse |-> [day |-> 0, calls |-> 0],
            adopted |-> NoCursor, loose |-> FALSE, again |-> FALSE, pushing |-> FALSE,
            page |-> NoPage, missing |-> {}]

TypeOK ==
  /\ account \in Accounts
  /\ purse \in Purses
  /\ rows \in 0..MaxRows
  /\ replica \in Seq(Rows)
  /\ stored \in Cursors
  /\ runs \in Seq(Runs)
  /\ job \in [Threads -> Jobs]
  /\ day \in 1..MaxDays
  /\ made \in Nat
  /\ outbox \in Seq([sent : SUBSET Rows, moved : BOOLEAN])
  /\ crashes \in 0..MaxMishaps
  /\ raced \in 0..MaxMishaps

(* create_connection: a connection with an empty purse. *)
Init ==
  /\ account \in Accounts
  /\ purse = [day |-> 0, calls |-> 0]
  /\ rows \in 0..MaxRows
  /\ replica = <<>>
  /\ stored = NoCursor
  /\ runs = <<>>
  /\ job = [t \in Threads |-> IdleJob]
  /\ day = 1
  /\ made = 0
  /\ outbox = <<>>
  /\ crashes = 0
  /\ raced = 0

-----------------------------------------------------------------------------
(* vendors.py: the pages of the three adapters. *)

InScope(run) == run.to - run.start

(* Deliberate fault: a page starts one row late. *)
RowsAtLate(run, offset) ==
  {k \in Rows : run.start + offset + 1 < k /\ k <= run.to /\ k <= run.start + offset + 1 + PageSize}

(* SimulatedHistory.rows: a page of the scope's rows at an offset. *)
RowsAt(run, offset) ==
  {k \in Rows : run.start + offset < k /\ k <= run.to /\ k <= run.start + offset + PageSize}

Offset(cursor) == IF cursor.at < 0 THEN 0 ELSE cursor.at

(* Deliberate fault: the last row of the scope is taken for its end. *)
PageAtEarly(run, offset, total) ==
  LET size == Cardinality(RowsAt(run, offset))
      processed == offset + size
      more == total # Unknown /\ processed < total - 1
  IN [rows |-> RowsAt(run, offset), size |-> size, total |-> total, processed |-> processed,
      more |-> more, token |-> processed]

(* A page of rows at an offset, out of `total`: there is more when the      *)
(* total is known and not reached.                                          *)
PageAt(run, offset, total) ==
  LET size == Cardinality(RowsAt(run, offset))
      processed == offset + size
      more == total # Unknown /\ processed < total
  IN [rows |-> RowsAt(run, offset), size |-> size, total |-> total, processed |-> processed,
      more |-> more, token |-> IF more THEN processed ELSE total]

(* Deliberate fault: the total is reported as what was processed. *)
NotReadySwapped(run) ==
  [NoPage EXCEPT !.total = run.total, !.processed = run.total, !.more = TRUE]

NotReady(run) ==
  [NoPage EXCEPT !.total = run.total, !.processed = run.processed, !.more = TRUE]

(* start: Dataverse answers with the first page, from the adopted token. *)
StartPage(run, adopted) ==
  IF account.vendor = "dataverse"
  THEN LET page == PageAt(run, Offset(adopted), InScope(run))
       IN [page EXCEPT !.token = page.processed]
  ELSE NotReady([run EXCEPT !.total = InScope(run), !.processed = 0])

(* read_page: Dataverse reads on from the run's token; the others from what *)
(* the job has processed once it is ready, and Salesforce counts the rows   *)
(* when the job carries no total.                                           *)
ReadPage(run) ==
  IF account.vendor = "dataverse" THEN PageAt(run, Offset(run.cursor), run.total)
  ELSE IF run.polls < ReadyAfter THEN NotReady(run)
  ELSE PageAt(run, run.processed,
              IF account.vendor = "salesforce" /\ run.total = Unknown THEN InScope(run)
              ELSE run.total)

(* cursors.is_expired: only a change token ages. *)
Expired(cursor) == cursor.kind = "data_token" /\ cursor.day + ExpiryDays <= day

-----------------------------------------------------------------------------
(* quota.py: the purse of the day. *)

CallsToday(kept) == IF kept.day = day THEN kept.calls ELSE 0
Remaining(kept) == account.limit - CallsToday(kept)

Spent(kept) == account.limited /\ Remaining(kept) <= 0

(* The history of the calls. *)
Calls == made' = IF account.limited THEN made + 1 ELSE made

(* estimate_calls: one call opens the job, one finds it ready, one a page. *)
EstimatedCalls(n) == 2 + (n + PageSize - 1) \div PageSize

(* _spend writes the purse from the connection the call has read. *)
SpendFrom(kept) ==
  purse' = IF account.limited THEN [day |-> day, calls |-> CallsToday(kept) + 1] ELSE purse

-----------------------------------------------------------------------------
(* The replica. *)

Keys == {replica[i] : i \in DOMAIN replica}

(* bulk_create: new ids are random, so new rows fall anywhere in the order. *)
Landed(new) ==
  {s \in [1..(Len(replica) + Cardinality(new)) -> Rows] :
     \E place \in [DOMAIN replica -> DOMAIN s] :
       /\ \A i, j \in DOMAIN replica : i < j => place[i] < place[j]
       /\ \A i \in DOMAIN replica : s[place[i]] = replica[i]
       /\ new = {s[i] : i \in DOMAIN s \ {place[j] : j \in DOMAIN replica}}}

(* Deliberate fault: the offset counts from zero, the rows from one. *)
WindowLate(offset) == {i \in DOMAIN replica : offset + 1 < i /\ i <= offset + 1 + PageSize}

(* store.list by id at an offset, one page: its places, and their rows. *)
Window(offset) == {i \in DOMAIN replica : offset < i /\ i <= offset + PageSize}
Listed(offset) == {replica[i] : i \in Window(offset)}

-----------------------------------------------------------------------------
(* A call is served while its thread is not idle. *)

Busy == {t \in Threads : job[t].stage # "idle"}
overlapped == raced > 0

Begins(t, call) ==
  /\ job[t].stage = "idle"
  /\ Busy # {} => crashes + raced < MaxMishaps
  /\ raced' = IF Busy = {} THEN raced ELSE raced + 1
  /\ job' = [job EXCEPT ![t] = call]
  /\ UNCHANGED <<records, rows, day, made, outbox, crashes>>

Goes(t, next) == job' = [job EXCEPT ![t] = next]
GoesTo(t, stage) == Goes(t, [job[t] EXCEPT !.stage = stage])
Done(t) == Goes(t, IdleJob)

(* A call that is about to end needs its run, and nothing it has read. *)
Closes(t, stage) == Goes(t, [IdleJob EXCEPT !.stage = stage, !.run = job[t].run])

AtStage(t, stage) == job[t].stage = stage

(* _patch of the call's run; the counters are written as one field. *)
Patch(r, record) == runs' = [runs EXCEPT ![r] = record]
Counted(r, body) == [runs[r] EXCEPT !.seen = body.seen, !.polls = body.polls]

(* A page without rows waits or finishes, one with rows is landed. *)
After(page) ==
  IF page.rows # {} THEN "looking" ELSE IF page.more THEN "waiting" ELSE "finishing"

-----------------------------------------------------------------------------
(* start: read the connection, then the cursor row, and create the run.     *)

InFlight == {t \in Threads : job[t].stage \in {"starting", "creating"}}

(* `estimate` is the volume the user states, if any: a stated one is held   *)
(* against what is left of the day, true or not.  `scratch` (from_scratch)  *)
(* goes with the full history only, which may name its own start.           *)
Start(t, direction, start, scratch, estimate) ==
  /\ Len(runs) + Cardinality(InFlight) < MaxRuns
  /\ start <= rows
  /\ (estimate # Unknown /\ account.limited) => EstimatedCalls(estimate) <= Remaining(purse)
  /\ Begins(t, [IdleJob EXCEPT
       !.stage = IF scratch THEN "creating" ELSE "starting",
       !.body = [NoRun EXCEPT !.direction = direction, !.start = start, !.to = rows],
       !.purse = purse,
       !.loose = (estimate = Unknown)])

(* The stored cursor is adopted; an expired one refuses the start.  With a  *)
(* cursor whose strategy the vendor has, the strategy is not reconsidered.  *)
AdoptCursor(t) ==
  /\ AtStage(t, "starting")
  /\ IF Expired(stored) THEN Done(t)
     ELSE Goes(t, [job[t] EXCEPT
            !.stage = "creating", !.adopted = stored,
            !.loose = @ /\ (\/ stored.kind = "none"
                            \/ stored.kind = "paging_cookie" /\ account.vendor = "hubspot")])
  /\ UNCHANGED <<records, rows, day, history>>

(* A connection without the grant leaves the run `created`. *)
CreateRun(t) ==
  /\ AtStage(t, "creating")
  /\ runs' = Append(runs, job[t].body)
  /\ outbox' = Append(outbox, [sent |-> {}, moved |-> FALSE])
  /\ IF account.granted \/ account.vendor # "hubspot"
     THEN Goes(t, [job[t] EXCEPT !.stage = "opening", !.run = Len(runs) + 1])
     ELSE Done(t)
  /\ UNCHANGED <<account, purse, rows, replica, stored, day, made, crashes, raced>>

(* _open_job: the purse is the one read at the start of the call, also when *)
(* the job is reopened, so the second call of a run costs nothing.  Nothing *)
(* left of it leaves the run `created`.                                     *)
OpenSpend(t) ==
  /\ AtStage(t, "opening")
  /\ IF Spent(job[t].purse) THEN Done(t) /\ UNCHANGED purse
     ELSE GoesTo(t, "calling") /\ SpendFrom(job[t].purse)
  /\ UNCHANGED <<account, rows, replica, stored, runs, day, history>>

(* The counters are written back and the vendor is asked; it may raise. *)
CallStart(t) ==
  /\ AtStage(t, "calling")
  /\ Patch(job[t].run, Counted(job[t].run, job[t].body))
  /\ Calls
  /\ \/ Goes(t, [job[t] EXCEPT !.stage = "opened",
                               !.page = StartPage(job[t].body, job[t].adopted)])
     \/ Closes(t, "breaking")
  /\ UNCHANGED <<account, purse, replica, stored, rows, day, outbox, crashes, raced>>

OpenJob(t) ==
  LET r == job[t].run
      opened == [runs[r] EXCEPT !.state = "running", !.total = job[t].page.total,
                                !.processed = job[t].page.processed]
  IN /\ AtStage(t, "opened")
     /\ Patch(r, opened)
     /\ Goes(t, [job[t] EXCEPT !.stage = "deciding", !.body = opened])
     /\ UNCHANGED <<account, purse, replica, stored, rows, day, history>>

(* Deliberate fault: a job may be reopened any number of times. *)
ReconsidersAlways(t) ==
  /\ job[t].loose
  /\ job[t].page.rows = {} /\ job[t].body.seen = 0
  /\ account.vendor # "hubspot"
  /\ job[t].page.total <= BulkThreshold

(* _reconsider: without a stated volume, the vendor's count asks for a      *)
(* paged read and the vendor has one; once, and before a row was written.   *)
Reconsiders(t) ==
  /\ job[t].loose /\ ~job[t].again
  /\ job[t].page.rows = {} /\ job[t].body.seen = 0
  /\ account.vendor # "hubspot"
  /\ job[t].page.total <= BulkThreshold

(* Either way the counters of the run just patched are written again. *)
Decide(t) ==
  /\ AtStage(t, "deciding")
  /\ Patch(job[t].run, Counted(job[t].run, job[t].body))
  /\ IF Reconsiders(t) THEN Goes(t, [job[t] EXCEPT !.stage = "opening", !.again = TRUE])
     ELSE Goes(t, [IdleJob EXCEPT !.stage = After(job[t].page), !.run = job[t].run,
                                  !.body = job[t].body, !.page = job[t].page])
  /\ UNCHANGED <<account, purse, replica, stored, rows, day, history>>

-----------------------------------------------------------------------------
(* poll: read the run, then the connection; count the poll; spend a call.   *)

IsOpen(r) == runs[r].state \notin Terminal

Polling(r) == [IdleJob EXCEPT !.stage = "polling", !.run = r, !.body = runs[r]]

Poll(t, r) == r \in DOMAIN runs /\ IsOpen(r) /\ Begins(t, Polling(r))

ReadConnection(t) ==
  /\ AtStage(t, "polling")
  /\ Goes(t, [job[t] EXCEPT !.stage = "counting", !.purse = purse])
  /\ UNCHANGED <<records, rows, day, history>>

(* Polls are counted up to ReadyAfter: nothing tells more of them apart. *)
CountPoll(t) ==
  LET counted == [job[t].body EXCEPT !.polls = IF @ < ReadyAfter THEN @ + 1 ELSE @]
  IN /\ AtStage(t, "counting")
     /\ Patch(job[t].run, Counted(job[t].run, counted))
     /\ IF counted.direction = "pull" /\ Expired(counted.cursor) THEN Closes(t, "stalling")
        ELSE Goes(t, [job[t] EXCEPT !.stage = "charging", !.body = counted])
     /\ UNCHANGED <<account, purse, replica, stored, rows, day, history>>

(* A spent purse postpones the poll and leaves the run as it is. *)
Charge(t) ==
  /\ AtStage(t, "charging")
  /\ IF Spent(job[t].purse) THEN Done(t) /\ UNCHANGED purse
     ELSE /\ SpendFrom(job[t].purse)
          /\ GoesTo(t, IF job[t].body.direction = "push" THEN "listing" ELSE "asking")
  /\ UNCHANGED <<account, rows, replica, stored, runs, day, history>>

(* adapter.read_page, or a vendor that raises. *)
Ask(t) ==
  LET page == ReadPage(job[t].body)
  IN /\ AtStage(t, "asking")
     /\ Calls
     /\ \/ Goes(t, [job[t] EXCEPT !.stage = After(page), !.page = page])
        \/ Closes(t, "breaking")
     /\ UNCHANGED <<records, rows, day, outbox, crashes, raced>>

(* _push_page: a page of the replica, from as many rows as were seen. *)
ListReplica(t) ==
  LET listed == Listed(job[t].body.seen)
      size == Cardinality(Window(job[t].body.seen))
  IN /\ AtStage(t, "listing")
     /\ Goes(t, [job[t] EXCEPT
               !.pushing = TRUE,
               !.stage = IF listed = {} THEN "finishing" ELSE "submitting",
               !.page =
               [NoPage EXCEPT !.rows = listed, !.size = size, !.total = job[t].body.total,
                              !.processed = job[t].body.processed,
                              !.more = size = PageSize]])
     /\ UNCHANGED <<records, rows, day, history>>

(* adapter.submit_page, which the Dataverse adapter does not implement. *)
Submit(t) ==
  /\ AtStage(t, "submitting")
  /\ Calls
  /\ \/ /\ account.vendor # "dataverse"
        /\ outbox' = [outbox EXCEPT ![job[t].run].sent = @ \union job[t].page.rows]
        /\ GoesTo(t, "advancing")
     \/ Closes(t, "breaking") /\ UNCHANGED outbox
  /\ UNCHANGED <<records, rows, day, crashes, raced>>

-----------------------------------------------------------------------------
(* _land: the rows the replica misses are created, then the cursor moves,   *)
(* then the run is patched.                                                 *)

(* Deliberate fault: the rows are created without looking for them. *)
LookBlind(t) ==
  /\ AtStage(t, "looking")
  /\ Goes(t, [job[t] EXCEPT !.missing = job[t].page.rows, !.stage = "landing"])
  /\ UNCHANGED <<records, rows, day, history>>

Look(t) ==
  LET missing == job[t].page.rows \ Keys
  IN /\ AtStage(t, "looking")
     /\ Goes(t, [job[t] EXCEPT !.missing = missing,
                               !.stage = IF missing = {} THEN "advancing" ELSE "landing"])
     /\ UNCHANGED <<records, rows, day, history>>

Land(t) ==
  /\ AtStage(t, "landing")
  /\ replica' \in Landed(job[t].missing)
  /\ outbox' = [r \in DOMAIN outbox |-> [outbox[r] EXCEPT !.moved = TRUE]]
  /\ GoesTo(t, "advancing")
  /\ UNCHANGED <<account, purse, stored, runs, rows, day, made, crashes, raced>>

(* Of a job's handle and of a paging cookie only the kind is ever read. *)
NewCursor(t) ==
  IF job[t].pushing THEN [NoCursor EXCEPT !.kind = "paging_cookie"]
  ELSE IF account.vendor # "dataverse" THEN [NoCursor EXCEPT !.kind = "handle"]
  ELSE [kind |-> "data_token", at |-> job[t].page.token, day |-> day]

(* _advance: one cursor row per room and connection, whatever the run. *)
Advance(t) ==
  /\ AtStage(t, "advancing")
  /\ stored' = NewCursor(t)
  /\ GoesTo(t, "patching")
  /\ UNCHANGED <<account, purse, replica, runs, rows, day, history>>

PatchRun(t) ==
  LET r == job[t].run
      page == job[t].page
      body == job[t].body
  IN /\ AtStage(t, "patching")
     /\ Patch(r, [runs[r] EXCEPT !.state = IF page.more THEN "running" ELSE "complete",
                                 !.total = page.total, !.processed = page.processed,
                                 !.cursor = NewCursor(t),
                                 !.seen = body.seen + page.size,
                                 !.polls = body.polls])
     /\ Done(t)
     /\ UNCHANGED <<account, purse, replica, stored, rows, day, history>>

(* _not_ready and _complete: a page without rows. *)
Wait(t) ==
  /\ AtStage(t, "waiting")
  /\ Patch(job[t].run, [runs[job[t].run] EXCEPT !.state = "running",
                          !.total = job[t].page.total, !.processed = job[t].page.processed])
  /\ Done(t)
  /\ UNCHANGED <<account, purse, replica, stored, rows, day, history>>

Finish(t) ==
  /\ AtStage(t, "finishing")
  /\ Patch(job[t].run, [Counted(job[t].run, job[t].body) EXCEPT !.state = "complete",
                          !.total = job[t].page.total, !.processed = job[t].page.processed])
  /\ Done(t)
  /\ UNCHANGED <<account, purse, replica, stored, rows, day, history>>

(* _vendor_broke and _vendor_failed; _stall. *)
Break(t) ==
  /\ AtStage(t, "breaking")
  /\ Patch(job[t].run, [runs[job[t].run] EXCEPT !.state = "failed"])
  /\ Done(t)
  /\ UNCHANGED <<account, purse, replica, stored, rows, day, history>>

Stall(t) ==
  /\ AtStage(t, "stalling")
  /\ Patch(job[t].run, [runs[job[t].run] EXCEPT !.state = "stalled"])
  /\ Done(t)
  /\ UNCHANGED <<account, purse, replica, stored, rows, day, history>>

-----------------------------------------------------------------------------
(* resume: count the resume, or stall, and poll.  cancel: read and patch.   *)

Resume(t, r) ==
  /\ r \in DOMAIN runs
  /\ IsOpen(r)
  /\ Begins(t, IF Expired(runs[r].cursor)
               THEN [IdleJob EXCEPT !.stage = "stalling", !.run = r]
               ELSE [Polling(r) EXCEPT !.stage = "resuming"])

CountResume(t) ==
  /\ AtStage(t, "resuming")
  /\ Patch(job[t].run, Counted(job[t].run, job[t].body))
  /\ Closes(t, "repolling")
  /\ UNCHANGED <<account, purse, replica, stored, rows, day, history>>

PollResumed(t) ==
  /\ AtStage(t, "repolling")
  /\ IF IsOpen(job[t].run) THEN Goes(t, Polling(job[t].run)) ELSE Done(t)
  /\ UNCHANGED <<records, rows, day, history>>

Cancel(t, r) ==
  /\ r \in DOMAIN runs
  /\ IsOpen(r)
  /\ Begins(t, [IdleJob EXCEPT !.stage = "cancelling", !.run = r])

CancelRun(t) ==
  /\ AtStage(t, "cancelling")
  /\ Patch(job[t].run, [runs[job[t].run] EXCEPT !.state = "cancelled"])
  /\ Done(t)
  /\ UNCHANGED <<account, purse, replica, stored, rows, day, history>>

-----------------------------------------------------------------------------
(* The vendor's history grows and a day passes between two calls, which     *)
(* take far less; the process may die between two steps.                    *)

NewRow ==
  /\ Busy = {}
  /\ rows < MaxRows
  /\ rows' = rows + 1
  /\ UNCHANGED <<records, job, day, history>>

Tick ==
  /\ Busy = {}
  /\ day < MaxDays
  /\ day' = day + 1
  /\ made' = 0
  /\ UNCHANGED <<records, rows, job, outbox, crashes, raced>>

Crash ==
  /\ Busy # {}
  /\ crashes + raced < MaxMishaps
  /\ crashes' = crashes + 1
  /\ job' = [t \in Threads |-> IdleJob]
  /\ UNCHANGED <<records, rows, day, made, outbox, raced>>

Handler(t) ==
  \/ AdoptCursor(t) \/ CreateRun(t) \/ OpenSpend(t) \/ CallStart(t) \/ OpenJob(t) \/ Decide(t)
  \/ ReadConnection(t) \/ CountPoll(t) \/ Charge(t) \/ Ask(t) \/ ListReplica(t) \/ Submit(t)
  \/ Look(t) \/ Land(t) \/ Advance(t) \/ PatchRun(t) \/ Wait(t) \/ Finish(t)
  \/ Break(t) \/ Stall(t) \/ CountResume(t) \/ PollResumed(t) \/ CancelRun(t)

Next ==
  \/ \E t \in Threads, direction \in {"pull", "push"}, start \in ScopeStarts,
       scratch \in BOOLEAN, estimate \in {Unknown} \cup 0..MaxRows :
       Start(t, direction, start, scratch, estimate)
  \/ \E t \in Threads, r \in 1..MaxRuns : Poll(t, r) \/ Resume(t, r) \/ Cancel(t, r)
  \/ \E t \in Threads : Handler(t)
  \/ NewRow \/ Tick \/ Crash

Spec == Init /\ [][Next]_vars

-----------------------------------------------------------------------------
(* Properties. *)

(* The rows of the history up to a rank, and those of a scope up to an      *)
(* offset.                                                                  *)
Upto(n) == {k \in Rows : k <= n}
Read(run, offset) == {k \in Rows : run.start < k /\ k <= run.start + offset /\ k <= run.to}

(* Whatever calls race and wherever a crash falls, a resume point is never  *)
(* ahead of the replica: the rows before a change token, and those a job    *)
(* has processed, were landed ("the page write above already happened, and  *)
(* only now does the resume point move", _advance in engine.py).            *)
CursorNeverSkips ==
  /\ stored.kind = "data_token" => Upto(Offset(stored)) \subseteq Keys
  /\ \A r \in DOMAIN runs :
       /\ runs[r].cursor.kind = "data_token" => Read(runs[r], Offset(runs[r].cursor)) \subseteq Keys
       /\ account.vendor # "dataverse" => Read(runs[r], runs[r].processed) \subseteq Keys

(* A pull that is complete, and whose total is known, because its job was   *)
(* opened, has landed every row of its scope ("every row in the scope has   *)
(* been read", _land).                                                      *)
OpenedMeansCovered ==
  \A r \in DOMAIN runs :
    (runs[r].state = "complete" /\ runs[r].direction = "pull" /\ runs[r].total # Unknown)
    => Read(runs[r], InScope(runs[r])) \subseteq Keys

(* Served one at a time, a row has one record in the replica, also after    *)
(* crashes, restarts and further runs over the same rows.                   *)
NoDuplicates == ~overlapped => Cardinality(Keys) = Len(replica)

(* Served one at a time, no more calls are charged in a day than the limit, *)
(* and every call made is charged but one of each run: a job that is        *)
(* reopened asks the vendor a second time, and charges from the purse read  *)
(* before the first ("every vendor call the room makes costs one", quota.py,*)
(* but not this one).  So the calls made may pass the daily limit, by no    *)
(* more than the runs there are.                                            *)
QuotaKept ==
  (~overlapped /\ account.limited) =>
     /\ CallsToday(purse) <= account.limit
     /\ made <= CallsToday(purse) + Len(runs)

(* A push that is complete has sent every row of the replica, unless rows   *)
(* were landed after it was created, which moves the offsets it counts by.  *)
(* A push to Dataverse is NOT: its adapter says it supports one, has no     *)
(* submit_page, and answers the start with a page of its own history; when  *)
(* such a push completes it has sent nothing.                               *)
PushedAll ==
  \A r \in DOMAIN runs :
    (runs[r].state = "complete" /\ runs[r].direction = "push" /\ ~outbox[r].moved) =>
      IF account.vendor = "dataverse" THEN outbox[r].sent = {} ELSE Keys \subseteq outbox[r].sent

(* Every pull that is complete has landed every row of its scope ("no       *)
(* duplicates, no gaps", resume in engine.py).                              *)
CompleteMeansCovered ==
  \A r \in DOMAIN runs :
    (runs[r].state = "complete" /\ runs[r].direction = "pull")
    => Read(runs[r], InScope(runs[r])) \subseteq Keys
=============================================================================
