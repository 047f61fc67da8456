------------------------------ MODULE Throttle ------------------------------
(***************************************************************************)
(* The vendor-call throttle of backend/dsr/throttle/: a batch of CRM calls *)
(* is submitted against the token bucket of its connection, the vendor's   *)
(* answer is observed, and a batch that was put off is sent again by a     *)
(* person (retry) or by the queue worker (drain).                          *)
(*                                                                         *)
(* The room only decides: the caller sends the call when the answer says   *)
(* so and reports the vendor's answer later, or never.  A handler runs in  *)
(* a thread and every call it makes on the store that the next step        *)
(* depends on is an action of its own.                                     *)
(*                                                                         *)
(* Time is counted in ticks of which Second make a second; an instant in a *)
(* record is written to the second (timestamps.py).  A batch is named by   *)
(* the position of its row.                                                *)
(***************************************************************************)
EXTENDS Integers, Sequences, FiniteSets

CONSTANTS
  Threads,       \* threads serving requests
  Bursts,        \* the burst capacities a policy may name; 0 names none
  Rate,          \* tokens a tick brings
  Second,        \* ticks in a second
  Costs,         \* the tokens a batch may cost
  Asks,          \* the waits a Retry-After of the vendor may name, in seconds
  Dates,         \* the dates it may name instead, in whole seconds of the clock
  Cap,           \* the longest wait the room takes on its own, in seconds
  Floor,         \* the lock floor of the policy, in seconds
  Base, Longest, \* the backoff ladder: its first and its longest wait, in seconds
  MaxAttempts,   \* attempts after which a person is asked
  Never,         \* no instant
  MaxBatches,    \* bound on the batches submitted
  MaxCalls,      \* bound on the calls served
  MaxClock,      \* bound on the clock
  MaxRaced       \* bound on the calls served once two calls have overlapped

ASSUME PolicyAssumption ==
  /\ Bursts \subseteq Nat /\ Rate \in Nat /\ Second \in Nat \ {0} /\ Costs \subseteq Nat \ {0}
  /\ Asks \subseteq Nat /\ Dates \subseteq Nat /\ Cap \in Nat /\ Floor \in Nat
  /\ Base \in Nat \ {0} /\ Longest \in Nat /\ MaxAttempts \in Nat /\ Never \notin Int
ASSUME BoundAssumption ==
  /\ MaxBatches \in Nat /\ MaxCalls \in Nat /\ MaxClock \in Nat /\ MaxRaced \in Nat

VARIABLES
  clock,
  connection,   \* the connection's record
  bucket,       \* the bucket's record
  batches,      \* the batches' records
  in_flight,    \* [batch]: calls sent whose answer was not reported
  job,          \* the call each thread is serving (in memory)
  calls,        \* calls started so far
  raced,        \* history: the calls started since two calls overlapped
  granted,      \* history: the tokens sends were granted
  sends,        \* history: [batch]: how many calls were sent
  asked,        \* history: [batch]: until when its deferral has to wait, while it stands
  accepted,     \* history: the batches the vendor accepted
  writes        \* history: how often the bucket was written

books == <<bucket, writes>>
records == <<connection, books, batches>>
history == <<granted, sends, asked, accepted>>
vars == <<clock, records, in_flight, job, calls, raced, history>>

Instants == Nat \cup {Never}
States == {"proceeding", "deferred", "retrying", "complete", "needs_action"}
Connections == [burst : Nat, paused : BOOLEAN]
Buckets == [tokens : Nat, updated_at : Nat]
Batches == [state : States, attempt : Nat \ {0}, attempts : Nat, cost : Nat, next : Instants]

(* What the vendor answered: it took the batch (said so, or answered with a *)
(* 2xx status: to the room that is the same), it sent a throttle signal, or *)
(* something the room does not recognise.  A signal may come with a         *)
(* Retry-After, in seconds or as a date.                                    *)
Signals == {"signal", "migration"}
Answers == [kind : {"accepted", "unknown"} \cup Signals, form : {"none"}, ask : {0}]
             \cup [kind : Signals, form : {"seconds"}, ask : Asks]
             \cup [kind : Signals, form : {"date"}, ask : Dates]

(* `body`, `line` and `purse` are the batch, the connection and the bucket  *)
(* as the call read them, `purse` as it is to be written back; `now` is the *)
(* clock the call took; `todo` is what a drain still has to retry.          *)
Calls == {"none", "submit", "observe", "retry", "drain", "admin"}
Stages == {"idle", "deciding", "creating", "charging", "updating", "refusing", "draining",
           "syncing", "resizing"}
NoAnswer == [kind |-> "unknown", form |-> "none", ask |-> 0]
NoBatch == [state |-> "proceeding", attempt |-> 1, attempts |-> 0, cost |-> 1, next |-> Never]
NoPurse == [tokens |-> 0, updated_at |-> 0]
NoLine == [burst |-> 0, paused |-> FALSE]
Jobs == [call : Calls, stage : Stages, batch : Nat, body : Batches, line : Connections,
         purse : Buckets, now : 0..MaxClock, answer : Answers, force : BOOLEAN,
         gated : BOOLEAN, todo : SUBSET Nat]
IdleJob == [call |-> "none", stage |-> "idle", batch |-> 0, body |-> NoBatch, line |-> NoLine,
            purse |-> NoPurse, now |-> 0, answer |-> NoAnswer, force |-> FALSE,
            gated |-> FALSE, todo |-> {}]

TypeOK ==
  /\ clock \in 0..MaxClock
  /\ connection \in Connections
  /\ bucket \in Buckets
  /\ batches \in Seq(Batches)
  /\ in_flight \in Seq(Nat) /\ Len(in_flight) = Len(batches)
  /\ job \in [Threads -> Jobs]
  /\ \A t \in Threads : job[t].batch \in 0..Len(batches) /\ job[t].todo \subseteq DOMAIN batches
  /\ calls \in 0..MaxCalls
  /\ raced \in 0..MaxRaced
  /\ granted \in Nat
  /\ sends \in Seq(Nat) /\ Len(sends) = Len(batches)
  /\ asked \in Seq(Nat) /\ Len(asked) = Len(batches)
  /\ accepted \subseteq DOMAIN batches
  /\ writes \in Nat

(* create_connection: the bucket starts full. *)
Init ==
  /\ clock = 0
  /\ \E burst \in Bursts :
       /\ connection = [burst |-> burst, paused |-> FALSE]
       /\ bucket = [tokens |-> burst, updated_at |-> 0]
  /\ batches = <<>>
  /\ in_flight = <<>>
  /\ job = [t \in Threads |-> IdleJob]
  /\ calls = 0
  /\ raced = 0
  /\ granted = 0
  /\ sends = <<>>
  /\ asked = <<>>
  /\ accepted = {}
  /\ writes = 0

Lesser(m, n) == IF m < n THEN m ELSE n
Greater(m, n) == IF m > n THEN m ELSE n

-----------------------------------------------------------------------------
(* timestamps.py: an instant is written without its fraction of a second. *)

Iso(n) == n - (n % Second)
After(now, wait) == IF wait = Never THEN Never ELSE Iso(now + wait * Second)

-----------------------------------------------------------------------------
(* bucket.py *)

(* Deliberate fault: the instant of the refill is not kept. *)
RefillAgain(purse, burst, now) ==
  LET tokens == purse.tokens + Greater(0, now - purse.updated_at) * Rate
  IN [purse EXCEPT !.tokens = IF burst > 0 THEN Lesser(tokens, burst) ELSE tokens]

Refill(purse, burst, now) ==
  LET tokens == purse.tokens + Greater(0, now - purse.updated_at) * Rate
  IN [tokens |-> IF burst > 0 THEN Lesser(tokens, burst) ELSE tokens, updated_at |-> Iso(now)]

(* Deliberate fault: a paused connection still sends what its bucket holds. *)
AllowedWhilePaused(line, purse, cost) == line.burst = 0 \/ purse.tokens >= cost

(* decide; a connection with no capacity is never refused for it. *)
Allowed(line, purse, cost) == ~line.paused /\ (line.burst = 0 \/ purse.tokens >= cost)

(* The seconds until the bucket holds the cost. *)
WaitFor(line, purse, cost) ==
  IF line.paused THEN Never
  ELSE IF Rate = 0 THEN 0
  ELSE Greater(1, (cost - purse.tokens + Rate * Second - 1) \div (Rate * Second))

(* Deliberate fault: the count may run below zero. *)
SpendUnfloored(purse, burst, now, cost) ==
  LET full == Refill(purse, burst, now)
  IN [full EXCEPT !.tokens = @ - cost]

(* spend, which refills first. *)
Spend(purse, burst, now, cost) ==
  LET full == Refill(purse, burst, now)
  IN [full EXCEPT !.tokens = Greater(0, @ - cost)]

-----------------------------------------------------------------------------
(* backoff.py: the waits, in seconds, one deferral may be given.  The       *)
(* jitter is a fixed fraction of each batch; here any it may have.          *)

Ladder(attempt) == Lesser(Base * 2 ^ (attempt - 1), Longest)

(* The Retry-After in seconds.  A date is cut to the whole seconds it is    *)
(* away, and to the cap.                                                    *)
RetryAfter(answer, now) ==
  IF answer.form = "seconds" THEN answer.ask
  ELSE Lesser(Greater(0, (answer.ask * Second - now) \div Second), Cap)

(* Only a wait named in seconds can be longer than the room takes on alone. *)
BeyondCap(answer) == answer.form = "seconds" /\ answer.ask > Cap

Schedule(attempt, answer, now) ==
  LET ladder == Ladder(attempt)
      half == ladder \div 2
      wait == RetryAfter(answer, now)
  IN IF BeyondCap(answer) THEN {Never}
     ELSE IF answer.form # "none"
       THEN {IF answer.kind = "migration" THEN wait ELSE Greater(wait, Floor)}
     ELSE IF ladder < Floor THEN {Floor}
     ELSE half..(half + Greater(half, 1) - 1)

(* History: the instant the vendor asked to wait for, or the end of the     *)
(* longest wait the room takes on alone if that is sooner.                  *)
Until(answer, now) ==
  CASE answer.form = "none" -> 0
    [] answer.form = "seconds" -> now + Lesser(answer.ask, Cap) * Second
    [] answer.form = "date" -> Lesser(answer.ask * Second, now + Cap * Second)

-----------------------------------------------------------------------------
(* A call starts when its thread is free. *)

overlapped == raced > 0

Start(t, call) ==
  /\ job[t].stage = "idle"
  /\ calls < MaxCalls /\ calls' = calls + 1
  /\ raced < MaxRaced
  /\ raced' = IF overlapped \/ \E u \in Threads \ {t} : job[u].stage # "idle" THEN raced + 1 ELSE 0
  /\ job' = [job EXCEPT ![t] = call]

Goes(t, next) == job' = [job EXCEPT ![t] = next]

(* The call is over; a drain goes on with its next batch. *)
Over(t) == Goes(t, IF job[t].call = "drain" THEN [IdleJob EXCEPT !.call = "drain",
                                                    !.stage = "draining", !.todo = job[t].todo]
                   ELSE IdleJob)

(* The answer to the call says "send": the caller sends. *)
Send(t, b) ==
  /\ in_flight' = [in_flight EXCEPT ![b] = @ + 1]
  /\ granted' = IF job[t].gated THEN granted + job[t].body.cost ELSE granted
  /\ sends' = [sends EXCEPT ![b] = @ + 1]
  /\ UNCHANGED <<asked, accepted>>

(* The bucket is written as the call has it. *)
WriteBucket(t) == bucket' = job[t].purse /\ writes' = writes + 1

Tick ==
  /\ clock < MaxClock
  /\ clock' = clock + 1
  /\ UNCHANGED <<records, in_flight, job, calls, raced, history>>

still == <<clock, calls>>

-----------------------------------------------------------------------------
(* submit *)

Submit(t, cost) ==
  /\ Len(batches) + Cardinality({u \in Threads : job[u].call = "submit"}) < MaxBatches
  /\ Start(t, [IdleJob EXCEPT !.call = "submit", !.stage = "deciding", !.line = connection,
                              !.now = clock, !.body = [NoBatch EXCEPT !.cost = cost]])
  /\ UNCHANGED <<clock, records, in_flight, history>>

SubmitDecide(t) ==
  LET line == job[t].line
      cost == job[t].body.cost
      purse == Refill(bucket, line.burst, job[t].now)
  IN /\ job[t].call = "submit" /\ job[t].stage = "deciding"
     /\ \/ /\ Allowed(line, purse, cost)
           /\ Goes(t, [job[t] EXCEPT
                !.stage = "creating", !.gated = line.burst > 0,
                !.purse = Spend(purse, line.burst, job[t].now, cost),
                !.body = [@ EXCEPT !.attempts = 1, !.next = Iso(job[t].now)]])
        \/ /\ ~Allowed(line, purse, cost)
           /\ \E wait \in Schedule(1, NoAnswer, job[t].now) :
                Goes(t, [job[t] EXCEPT
                  !.stage = "creating", !.purse = purse,
                  !.body = [@ EXCEPT !.state = "deferred", !.next = After(job[t].now, wait)]])
     /\ UNCHANGED <<still, records, in_flight, raced, history>>

SubmitCreate(t) ==
  /\ job[t].stage = "creating"
  /\ batches' = Append(batches, job[t].body)
  /\ in_flight' = Append(in_flight, 0)
  /\ sends' = Append(sends, 0)
  /\ asked' = Append(asked, 0)
  /\ Goes(t, [job[t] EXCEPT !.stage = "charging", !.batch = Len(batches) + 1])
  /\ UNCHANGED <<still, connection, books, raced, granted, accepted>>

SubmitCharge(t) ==
  /\ job[t].call = "submit" /\ job[t].stage = "charging"
  /\ WriteBucket(t)
  /\ IF job[t].body.state = "proceeding" THEN Send(t, job[t].batch)
                                         ELSE UNCHANGED <<in_flight, history>>
  /\ Over(t)
  /\ UNCHANGED <<still, connection, batches, raced>>

-----------------------------------------------------------------------------
(* observe: the answer to a call that was sent, with the batch and its      *)
(* connection as read here.                                                 *)

Observe(t, b, answer) ==
  /\ in_flight[b] > 0
  /\ Start(t, [IdleJob EXCEPT !.call = "observe", !.stage = "deciding", !.batch = b,
                              !.body = batches[b], !.line = connection, !.now = clock,
                              !.answer = answer])
  /\ in_flight' = [in_flight EXCEPT ![b] = @ - 1]
  /\ asked' = [asked EXCEPT ![b] = Until(answer, clock)]
  /\ accepted' = IF answer.kind = "accepted" THEN accepted \cup {b} ELSE accepted
  /\ UNCHANGED <<clock, records, granted, sends>>

(* The tokens are spent whatever the vendor said. *)
ObserveSpend(t) ==
  /\ job[t].call = "observe" /\ job[t].stage = "deciding"
  /\ Goes(t, [job[t] EXCEPT !.stage = "charging",
              !.purse = Spend(bucket, job[t].line.burst, job[t].now, job[t].body.cost)])
  /\ UNCHANGED <<still, records, in_flight, raced, history>>

ObserveCharge(t) ==
  /\ job[t].call = "observe" /\ job[t].stage = "charging"
  /\ WriteBucket(t)
  /\ Goes(t, [job[t] EXCEPT !.stage = "updating"])
  /\ UNCHANGED <<still, connection, batches, in_flight, raced, history>>

(* Deliberate fault: any answer that is no throttle signal completes it. *)
SettledAlways(body, answer) ==
  [body EXCEPT !.state = "complete", !.next = Never]

Settled(body, answer) ==
  IF answer.kind = "accepted" THEN [body EXCEPT !.state = "complete", !.next = Never]
                              ELSE [body EXCEPT !.state = "needs_action"]

Deferred(body, wait, now) ==
  [body EXCEPT !.attempt = @ + 1, !.next = After(now, wait),
               !.state = IF wait = Never \/ body.attempt >= MaxAttempts THEN "needs_action"
                                                                        ELSE "deferred"]

ObserveUpdate(t) ==
  LET body == job[t].body
      answer == job[t].answer
  IN /\ job[t].call = "observe" /\ job[t].stage = "updating"
     /\ \/ /\ answer.kind \in {"accepted", "unknown"}
           /\ batches' = [batches EXCEPT ![job[t].batch] = Settled(body, answer)]
        \/ /\ answer.kind \in Signals
           /\ \E wait \in Schedule(body.attempt, answer, job[t].now) :
                batches' = [batches EXCEPT ![job[t].batch] = Deferred(body, wait, job[t].now)]
     /\ Over(t)
     /\ UNCHANGED <<still, connection, books, in_flight, raced, history>>

-----------------------------------------------------------------------------
(* retry: by a person, who may force it, or for each due batch of a drain.  *)

RetryOf(t, b) == [IdleJob EXCEPT !.call = "retry", !.stage = "deciding", !.batch = b,
                                 !.body = batches[b], !.line = connection, !.now = clock]

Retry(t, b, force) ==
  /\ batches[b].state # "complete"
  /\ Start(t, [RetryOf(t, b) EXCEPT !.force = force])
  /\ UNCHANGED <<clock, records, in_flight, history>>

(* Deliberate fault: a batch is sent as soon as the bucket allows it. *)
RetryDecideEarly(t) ==
  LET line == job[t].line
      body == job[t].body
      purse == Refill(bucket, line.burst, job[t].now)
      allowed == Allowed(line, purse, body.cost)
  IN /\ job[t].call \in {"retry", "drain"} /\ job[t].stage = "deciding"
     /\ job[t].force \/ allowed
     /\ Goes(t, [job[t] EXCEPT !.stage = "charging", !.gated = allowed /\ line.burst > 0,
                               !.purse = Spend(purse, line.burst, job[t].now, body.cost)])
     /\ UNCHANGED <<still, records, in_flight, raced, history>>

RetryDecide(t) ==
  LET line == job[t].line
      now == job[t].now
      body == job[t].body
      purse == Refill(bucket, line.burst, now)
      allowed == Allowed(line, purse, body.cost)
      early == body.next # Never /\ body.next > now
      wait == IF ~allowed THEN WaitFor(line, purse, body.cost)
              ELSE Greater(1, (body.next - now) \div Second)
  IN /\ job[t].call \in {"retry", "drain"} /\ job[t].stage = "deciding"
     /\ \/ /\ job[t].force \/ (allowed /\ ~early)
           /\ Goes(t, [job[t] EXCEPT !.stage = "charging", !.gated = allowed /\ line.burst > 0,
                                     !.purse = Spend(purse, line.burst, now, body.cost)])
        \/ /\ ~job[t].force /\ (~allowed \/ early)
           /\ Goes(t, [job[t] EXCEPT !.stage = "refusing",
                !.body = [@ EXCEPT !.state = "deferred", !.next = After(now, wait)]])
     /\ UNCHANGED <<still, records, in_flight, raced, history>>

RetryRefuse(t) ==
  /\ job[t].stage = "refusing"
  /\ batches' = [batches EXCEPT ![job[t].batch] = job[t].body]
  /\ asked' = [asked EXCEPT ![job[t].batch] = 0]
  /\ Over(t)
  /\ UNCHANGED <<still, connection, books, in_flight, raced, granted, sends, accepted>>

RetryCharge(t) ==
  /\ job[t].call \in {"retry", "drain"} /\ job[t].stage = "charging"
  /\ WriteBucket(t)
  /\ Goes(t, [job[t] EXCEPT !.stage = "updating"])
  /\ UNCHANGED <<still, connection, batches, in_flight, raced, history>>

(* Deliberate fault: the send is not counted. *)
Uncounted(body) == [body EXCEPT !.state = "retrying", !.attempt = @ + 1, !.next = Never]

Retried(body) ==
  [body EXCEPT !.state = "retrying", !.attempt = @ + 1, !.attempts = @ + 1, !.next = Never]

RetryUpdate(t) ==
  /\ job[t].call \in {"retry", "drain"} /\ job[t].stage = "updating"
  /\ batches' = [batches EXCEPT ![job[t].batch] = Retried(job[t].body)]
  /\ Send(t, job[t].batch)
  /\ Over(t)
  /\ UNCHANGED <<still, connection, books, raced>>

-----------------------------------------------------------------------------
(* drain: the queue worker.  What is due is judged by the list read at the  *)
(* start.  The store lists by the instant of the last write, which any      *)
(* order of the batches may be.                                             *)

Due(body, now) ==
  \/ body.state = "needs_action"
  \/ body.state \in {"deferred", "retrying"} /\ (body.next = Never \/ body.next <= now)

DueNow == {b \in DOMAIN batches : Due(batches[b], clock)}

Drain(t) ==
  /\ DueNow # {}
  /\ Start(t, [IdleJob EXCEPT !.call = "drain", !.stage = "draining", !.todo = DueNow])
  /\ UNCHANGED <<clock, records, in_flight, history>>

(* A batch completed since the list was read fails the whole drain. *)
DrainNext(t) ==
  /\ job[t].stage = "draining"
  /\ \/ /\ job[t].todo = {} \/ \E b \in job[t].todo : batches[b].state = "complete"
        /\ Goes(t, IdleJob)
     \/ \E b \in job[t].todo :
          /\ batches[b].state # "complete"
          /\ Goes(t, [RetryOf(t, b) EXCEPT !.call = "drain", !.todo = job[t].todo \ {b}])
  /\ UNCHANGED <<still, records, in_flight, raced, history>>

-----------------------------------------------------------------------------
(* set_paused and patch_connection: the connection, then _sync_bucket.      *)

Administer(t, line) ==
  /\ connection' = line
  /\ Start(t, [IdleJob EXCEPT !.call = "admin", !.stage = "syncing", !.line = line])
  /\ UNCHANGED <<clock, books, batches, in_flight, history>>

SetPaused(t, paused) == Administer(t, [connection EXCEPT !.paused = paused])
PatchConnection(t, burst) == Administer(t, [connection EXCEPT !.burst = burst])

SyncRead(t) ==
  /\ job[t].stage = "syncing"
  /\ Goes(t, [job[t] EXCEPT !.stage = "resizing", !.purse = Refill(bucket, job[t].line.burst, clock)])
  /\ UNCHANGED <<still, records, in_flight, raced, history>>

SyncWrite(t) ==
  /\ job[t].stage = "resizing"
  /\ WriteBucket(t)
  /\ Over(t)
  /\ UNCHANGED <<still, connection, batches, in_flight, raced, history>>

Handler(t) ==
  \/ SubmitDecide(t) \/ SubmitCreate(t) \/ SubmitCharge(t)
  \/ ObserveSpend(t) \/ ObserveCharge(t) \/ ObserveUpdate(t)
  \/ RetryDecide(t) \/ RetryRefuse(t) \/ RetryCharge(t) \/ RetryUpdate(t)
  \/ DrainNext(t)
  \/ SyncRead(t) \/ SyncWrite(t)

Next ==
  \/ Tick
  \/ \E t \in Threads, cost \in Costs : Submit(t, cost)
  \/ \E t \in Threads, b \in DOMAIN batches, answer \in Answers : Observe(t, b, answer)
  \/ \E t \in Threads, b \in DOMAIN batches, force \in BOOLEAN : Retry(t, b, force)
  \/ \E t \in Threads, paused \in BOOLEAN : SetPaused(t, paused)
  \/ \E t \in Threads, burst \in Bursts : PatchConnection(t, burst)
  \/ \E t \in Threads : Drain(t) \/ Handler(t)

Spec == Init /\ [][Next]_vars

-----------------------------------------------------------------------------
(* Properties.  Two calls that overlap both act on what they read, and the  *)
(* later write wins; what only holds of calls served one at a time says so. *)

quiet == \A t \in Threads : job[t].stage = "idle"

Sending(t) ==
  /\ job[t].batch \in DOMAIN sends
  /\ sends' # sends /\ Len(sends') = Len(sends) /\ job'[t] # job[t]

(* The bucket stops the sending before the vendor does: served one at a     *)
(* time, the tokens granted to sends and those left never exceed the        *)
(* largest burst, what the rate brought, and what the fractions gave.  The  *)
(* bucket's instant loses its fraction of a second in every write, and the  *)
(* next refill pays for that fraction again: once for a decision, twice     *)
(* for a decision and its spending.  So the code does NOT keep to the       *)
(* burst and the rate alone: every write may bring up to two seconds' worth *)
(* of tokens more, and this is the most it brings.                          *)
SpendsWithinBudget ==
  ~overlapped => \A burst \in Bursts :
    (\A other \in Bursts : other <= burst) =>
      granted + bucket.tokens <= burst + Rate * (clock + 2 * (Second - 1) * writes)

(* A batch is complete only when the vendor accepted it (or answered with   *)
(* a 2xx status, which the room takes for that), whatever calls overlap and *)
(* however late an answer is reported.                                      *)
CompleteMeansAccepted ==
  \A b \in DOMAIN batches : batches[b].state = "complete" => b \in accepted

(* The attempts a batch shows were really made: overlapping calls may lose  *)
(* one from the count and never add one; one at a time none is lost.        *)
AttemptsWereSent ==
  quiet => \A b \in DOMAIN batches :
    /\ batches[b].attempts <= sends[b]
    /\ ~overlapped => batches[b].attempts = sends[b]

(* "Pausing is a refusal to send": one at a time, nothing is sent on a      *)
(* paused connection unless a person forces it, not even by the drain.      *)
PausedSendsNothing ==
  [][\A t \in Threads :
       Sending(t) /\ ~overlapped' /\ ~job[t].force => ~connection.paused]_vars

(* A deferral's wait is kept to within a second: one at a time, a batch     *)
(* the vendor asked to wait for is never sent more than a second before     *)
(* that instant, unless a person forces it or a refused retry has given it  *)
(* another wait (or none) since.  That second is what the code loses: it    *)
(* cuts a date to the whole seconds it is away, and writes the instant      *)
(* without its fraction.  And a date beyond the longest wait the room takes *)
(* on is NOT kept: the wait is cut, and the batch is sent at its end.       *)
WaitIsKept ==
  [][\A t \in Threads :
       (/\ Sending(t) /\ ~overlapped' /\ ~job[t].force
        /\ job[t].call \in {"retry", "drain"} /\ job[t].body.state = "deferred")
       => clock + Second >= asked[job[t].batch]]_vars
=============================================================================
