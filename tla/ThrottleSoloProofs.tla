------------------------ MODULE ThrottleSoloProofs -------------------------
(***************************************************************************)
(* The properties of Throttle that are about calls served one at a time:   *)
(* while no two calls have overlapped, what a call has read is what there  *)
(* is, so the counts add up, a pause is kept, a wait is kept to within a   *)
(* second, and what is spent stays within its bound.                       *)
(*                                                                         *)
(* `StepKinds` says what each step does, field by field; the invariants    *)
(* are proved from that.                                                   *)
(***************************************************************************)
EXTENDS ThrottleProofs

(* The other threads stay where they are. *)
Others(t) == \A u \in Threads \ {t} : job'[u] = job[u]

Frozen == UNCHANGED <<connection, books, batches, sends, asked, granted>>

(* A call begins. *)
Begins(t) ==
  /\ job[t].stage = "idle" /\ Others(t) /\ clock' = clock
  /\ raced' = 0 => raced = 0 /\ \A u \in Threads \ {t} : job[u].stage = "idle"

(* A call goes on. *)
Continues(t) == job[t].stage # "idle" /\ Others(t) /\ UNCHANGED <<clock, raced, connection>>

(* The call keeps its name, its batch and what it read of the connection. *)
Same(t) ==
  /\ job'[t].call = job[t].call /\ job'[t].batch = job[t].batch /\ job'[t].line = job[t].line
  /\ job'[t].now = job[t].now /\ job'[t].force = job[t].force /\ job'[t].answer = job[t].answer
  /\ job'[t].body.cost = job[t].body.cost

(* The call has read its batch and the connection. *)
ReadNow(j) ==
  /\ j.stage = "deciding" /\ j.batch \in 1..Len(batches) /\ j.body = batches[j.batch]
  /\ j.line = connection /\ j.now = clock /\ j.gated = FALSE

(* The call is over: nothing is left of it, or the rest of a drain. *)
Rests(j) == j.stage = "idle" \/ (j.call = "drain" /\ j.stage = "draining")

Waits == UNCHANGED <<job, raced>> /\ Frozen /\ clock <= clock'
BeginsSubmit(t) ==
  /\ Begins(t) /\ Frozen /\ job'[t].call = "submit" /\ job'[t].stage = "deciding"
  /\ job'[t].line = connection /\ job'[t].now = clock /\ job'[t].gated = FALSE
BeginsRetry(t) == Begins(t) /\ Frozen /\ job'[t].call = "retry" /\ ReadNow(job'[t])
BeginsObserve(t) ==
  /\ Begins(t) /\ UNCHANGED <<connection, books, batches, sends, granted>>
  /\ job'[t].call = "observe" /\ ReadNow(job'[t])
  /\ asked' = [asked EXCEPT ![job'[t].batch] = Until(job'[t].answer, clock)]
BeginsDrain(t) == Begins(t) /\ Frozen /\ job'[t].call = "drain" /\ job'[t].stage = "draining"
BeginsAdmin(t) ==
  /\ Begins(t) /\ UNCHANGED <<books, batches, sends, asked, granted>>
  /\ connection' = job'[t].line /\ job'[t].call = "admin" /\ job'[t].stage = "syncing"

(* The bucket a decision is made on. *)
Full(j) == Refill(bucket, j.line.burst, j.now)
Spent(j) == Spend(Full(j), j.line.burst, j.now, j.body.cost)

SubmitSends(t) ==
  /\ Continues(t) /\ Frozen /\ Same(t)
  /\ job[t].call = "submit" /\ job[t].stage = "deciding" /\ job'[t].stage = "creating"
  /\ Allowed(job[t].line, Full(job[t]), job[t].body.cost)
  /\ job'[t].gated = (job[t].line.burst > 0) /\ job'[t].purse = Spent(job[t])
SubmitWaits(t) ==
  /\ Continues(t) /\ Frozen /\ Same(t)
  /\ job[t].call = "submit" /\ job[t].stage = "deciding" /\ job'[t].stage = "creating"
  /\ job'[t].body.state = "deferred"
  /\ job'[t].gated = job[t].gated /\ job'[t].purse = Full(job[t])
Creates(t) ==
  /\ Continues(t) /\ UNCHANGED <<books, granted>>
  /\ job[t].call = "submit" /\ job[t].stage = "creating" /\ job'[t].stage = "charging"
  /\ job'[t].call = "submit" /\ job'[t].batch = Len(batches) + 1 /\ job'[t].line = job[t].line
  /\ job'[t].now = job[t].now /\ job'[t].body = job[t].body
  /\ job'[t].purse = job[t].purse /\ job'[t].gated = job[t].gated
  /\ batches' = Append(batches, job[t].body)
  /\ sends' = Append(sends, 0) /\ asked' = Append(asked, 0)
Grants(t) == granted' = IF job[t].gated THEN granted + job[t].body.cost ELSE granted
SubmitEnds(t) ==
  /\ Continues(t) /\ UNCHANGED <<batches, asked>> /\ WriteBucket(t)
  /\ job[t].call = "submit" /\ job[t].stage = "charging" /\ Rests(job'[t])
  /\ \/ /\ job[t].body.state = "proceeding" /\ Grants(t)
        /\ sends' = [sends EXCEPT ![job[t].batch] = @ + 1]
     \/ /\ job[t].body.state # "proceeding" /\ UNCHANGED <<sends, granted>>
ObserveSpends(t) ==
  /\ Continues(t) /\ Frozen /\ Same(t)
  /\ job[t].call = "observe" /\ job[t].stage = "deciding" /\ job'[t].stage = "charging"
  /\ job'[t].body = job[t].body /\ job'[t].gated = job[t].gated
  /\ job'[t].purse = Spend(bucket, job[t].line.burst, job[t].now, job[t].body.cost)
Charges(t) ==
  /\ Continues(t) /\ UNCHANGED <<batches, sends, asked, granted>> /\ Same(t)
  /\ job[t].call \in {"observe", "retry", "drain"}
  /\ job[t].stage = "charging" /\ job'[t].stage = "updating"
  /\ job'[t].body = job[t].body /\ job'[t].gated = job[t].gated /\ WriteBucket(t)
ObserveEnds(t) ==
  /\ Continues(t) /\ UNCHANGED <<books, sends, asked, granted>>
  /\ job[t].call = "observe" /\ job[t].stage = "updating" /\ Rests(job'[t])
  /\ \E row \in Batches :
       /\ batches' = [batches EXCEPT ![job[t].batch] = row]
       /\ row.attempts = job[t].body.attempts
       /\ row.state = "deferred" /\ job[t].body.attempt \in Nat \ {0} =>
            \E wait \in Schedule(job[t].body.attempt, job[t].answer, job[t].now) \ {Never} :
              row.next = After(job[t].now, wait)

Early(j) == j.body.next # Never /\ j.body.next > j.now
RetrySends(t) ==
  /\ Continues(t) /\ Frozen /\ Same(t)
  /\ job[t].call \in {"retry", "drain"} /\ job[t].stage = "deciding"
  /\ job'[t].stage = "charging" /\ job'[t].body = job[t].body
  /\ job[t].force \/ ~Early(job[t])
  /\ job'[t].gated => job[t].line.burst > 0 /\ Allowed(job[t].line, Full(job[t]), job[t].body.cost)
  /\ job'[t].purse = Spent(job[t])
RetryWaits(t) ==
  /\ Continues(t) /\ Frozen /\ Same(t)
  /\ job[t].call \in {"retry", "drain"} /\ job[t].stage = "deciding"
  /\ job'[t].stage = "refusing" /\ job'[t].body.attempts = job[t].body.attempts
RetryRefuses(t) ==
  /\ Continues(t) /\ UNCHANGED <<books, sends, granted>>
  /\ job[t].call \in {"retry", "drain"} /\ job[t].stage = "refusing" /\ Rests(job'[t])
  /\ batches' = [batches EXCEPT ![job[t].batch] = job[t].body]
  /\ asked' = [asked EXCEPT ![job[t].batch] = 0]
RetryEnds(t) ==
  /\ Continues(t) /\ UNCHANGED <<books, asked>>
  /\ job[t].call \in {"retry", "drain"} /\ job[t].stage = "updating" /\ Rests(job'[t])
  /\ batches' = [batches EXCEPT ![job[t].batch] = Retried(job[t].body)]
  /\ sends' = [sends EXCEPT ![job[t].batch] = @ + 1] /\ Grants(t)
DrainGoesOn(t) ==
  /\ Continues(t) /\ Frozen /\ job[t].stage = "draining"
  /\ \/ job'[t].stage = "idle"
     \/ (job'[t].call = "drain" /\ ReadNow(job'[t]))
SyncReads(t) ==
  /\ Continues(t) /\ Frozen /\ job[t].stage = "syncing"
  /\ job'[t].stage = "resizing" /\ job'[t].call = "admin"
  /\ job'[t].purse = Refill(bucket, job[t].line.burst, clock)
SyncEnds(t) ==
  /\ Continues(t) /\ UNCHANGED <<batches, sends, asked, granted>>
  /\ job[t].stage = "resizing" /\ Rests(job'[t]) /\ WriteBucket(t)

Kinds(t) ==
  \/ BeginsSubmit(t) \/ BeginsRetry(t) \/ BeginsObserve(t) \/ BeginsDrain(t) \/ BeginsAdmin(t)
  \/ SubmitSends(t) \/ SubmitWaits(t) \/ Creates(t) \/ SubmitEnds(t)
  \/ ObserveSpends(t) \/ Charges(t) \/ ObserveEnds(t)
  \/ RetrySends(t) \/ RetryWaits(t) \/ RetryRefuses(t) \/ RetryEnds(t)
  \/ DrainGoesOn(t) \/ SyncReads(t) \/ SyncEnds(t)

LEMMA MoveOthers ==
  ASSUME job \in [Threads -> Jobs], NEW t \in Threads, NEW next, job' = [job EXCEPT ![t] = next]
  PROVE  job'[t] = next /\ Others(t)
BY DEF Others

LEMMA StartBegins ==
  ASSUME TypeInv, NEW t \in Threads, NEW call, Start(t, call), clock' = clock
  PROVE  Begins(t) /\ job'[t] = call
<1>1. job'[t] = call /\ Others(t)
  BY MoveOthers, CallTypes DEF Start
<1>2. ASSUME raced' = 0
      PROVE  raced = 0 /\ \A u \in Threads \ {t} : job[u].stage = "idle"
  <2>1. raced \in Nat
    BY BoundAssumption DEF TypeInv, TypeOK
  <2>. QED BY <1>2, <2>1 DEF Start, overlapped
<1>. QED BY <1>1, <1>2 DEF Begins, Start

LEMMA OverRests ==
  ASSUME TypeInv, NEW t \in Threads, Over(t)
  PROVE  Others(t) /\ Rests(job'[t])
<1>1. job'[t] = RestOf(t) /\ Others(t)
  BY MoveOthers, CallTypes DEF Over, Goes, RestOf
<1>2. Rests(RestOf(t))
  BY DEF RestOf, Rests, IdleJob
<1>. QED BY <1>1, <1>2

LEMMA StepKinds ==
  ASSUME CallInv, [Next]_vars
  PROVE  Waits \/ \E t \in Threads : Kinds(t)
<1>. DEFINE Goal == Waits \/ \E t \in Threads : Kinds(t)
<1>0. TypeInv /\ \A t \in Threads : job[t] \in Jobs /\ job[t].body \in Batches
  BY CallTypes DEF CallInv, Jobs
<1>. USE <1>0, CallTypes
<1>1. ASSUME Tick \/ UNCHANGED vars
      PROVE  Goal
  BY <1>1 DEF Tick, vars, records, books, history, Waits, Frozen
<1>2. ASSUME NEW t \in Threads, NEW cost \in Costs, Submit(t, cost)
      PROVE  Goal
  <2>. DEFINE call == [IdleJob EXCEPT !.call = "submit", !.stage = "deciding", !.line = connection,
                                      !.now = clock, !.body = [NoBatch EXCEPT !.cost = cost]]
  <2>1. Start(t, call) /\ clock' = clock /\ Frozen
    BY <1>2 DEF Submit, Frozen, records, books, history
  <2>2. /\ call.call = "submit" /\ call.stage = "deciding" /\ call.line = connection
        /\ call.now = clock /\ call.gated = FALSE
    BY DEF IdleJob
  <2>. HIDE DEF call
  <2>3. BeginsSubmit(t)
    BY <2>1, <2>2, StartBegins DEF BeginsSubmit
  <2>. QED BY <2>3 DEF Kinds
<1>3. ASSUME NEW t \in Threads, SubmitDecide(t)
      PROVE  Goal
  <2>. DEFINE line == job[t].line
              cost == job[t].body.cost
              purse == Refill(bucket, line.burst, job[t].now)
  <2>1. /\ job[t].call = "submit" /\ job[t].stage = "deciding" /\ Frozen
        /\ UNCHANGED <<clock, raced, connection>>
    BY <1>3 DEF SubmitDecide, Frozen, records, books, still, history
  <2>2. CASE Allowed(line, purse, cost)
    <3>. DEFINE go == [job[t] EXCEPT
                         !.stage = "creating", !.gated = line.burst > 0,
                         !.purse = Spend(purse, line.burst, job[t].now, cost),
                         !.body = [@ EXCEPT !.attempts = 1, !.next = Iso(job[t].now)]]
    <3>1. job' = [job EXCEPT ![t] = go]
      BY <1>3, <2>2 DEF SubmitDecide, Goes
    <3>2. /\ go.call = job[t].call /\ go.batch = job[t].batch /\ go.line = job[t].line
          /\ go.now = job[t].now /\ go.force = job[t].force /\ go.answer = job[t].answer
          /\ go.body.cost = job[t].body.cost /\ go.stage = "creating"
          /\ go.gated = (job[t].line.burst > 0)
          /\ go.purse = Spend(purse, line.burst, job[t].now, cost)
      BY DEF Jobs, Batches
    <3>. HIDE DEF go
    <3>3. job'[t] = go /\ Others(t)
      BY <3>1, MoveOthers
    <3>4. SubmitSends(t)
      BY <2>1, <2>2, <3>2, <3>3 DEF SubmitSends, Continues, Same, Full, Spent
    <3>. QED BY <3>4 DEF Kinds
  <2>3. CASE ~Allowed(line, purse, cost)
    <3>1. PICK w : job' = [job EXCEPT ![t] = [job[t] EXCEPT
                     !.stage = "creating", !.purse = purse,
                     !.body = [@ EXCEPT !.state = "deferred", !.next = w]]]
      BY <1>3, <2>3 DEF SubmitDecide, Goes
    <3>. DEFINE wait == [job[t] EXCEPT !.stage = "creating", !.purse = purse,
                           !.body = [@ EXCEPT !.state = "deferred", !.next = w]]
    <3>2. /\ wait.call = job[t].call /\ wait.batch = job[t].batch /\ wait.line = job[t].line
          /\ wait.now = job[t].now /\ wait.force = job[t].force /\ wait.answer = job[t].answer
          /\ wait.body.cost = job[t].body.cost /\ wait.stage = "creating"
          /\ wait.body.state = "deferred" /\ wait.gated = job[t].gated /\ wait.purse = purse
      BY DEF Jobs, Batches
    <3>3. job' = [job EXCEPT ![t] = wait]
      BY <3>1
    <3>. HIDE DEF wait
    <3>4. job'[t] = wait /\ Others(t)
      BY <3>3, MoveOthers
    <3>5. SubmitWaits(t)
      BY <2>1, <3>2, <3>4 DEF SubmitWaits, Continues, Same, Full
    <3>. QED BY <3>5 DEF Kinds
  <2>. QED BY <2>2, <2>3
<1>4. ASSUME NEW t \in Threads, SubmitCreate(t)
      PROVE  Goal
  <2>. DEFINE next == [job[t] EXCEPT !.stage = "charging", !.batch = Len(batches) + 1]
  <2>1. /\ job[t].stage = "creating" /\ job' = [job EXCEPT ![t] = next]
        /\ batches' = Append(batches, job[t].body)
        /\ sends' = Append(sends, 0) /\ asked' = Append(asked, 0)
        /\ UNCHANGED <<clock, connection, books, raced, granted>>
    BY <1>4 DEF SubmitCreate, Goes, still
  <2>2. /\ next.call = job[t].call /\ next.stage = "charging" /\ next.batch = Len(batches) + 1
        /\ next.line = job[t].line /\ next.now = job[t].now /\ next.body = job[t].body
        /\ next.purse = job[t].purse /\ next.gated = job[t].gated
    BY DEF Jobs
  <2>. HIDE DEF next
  <2>3. job'[t] = next /\ Others(t) /\ job[t].call = "submit"
    BY <2>1, MoveOthers DEF Fits
  <2>4. Creates(t)
    BY <2>1, <2>2, <2>3 DEF Creates, Continues
  <2>. QED BY <2>4 DEF Kinds
<1>5. ASSUME NEW t \in Threads, SubmitCharge(t)
      PROVE  Goal
  <2>1. /\ job[t].call = "submit" /\ job[t].stage = "charging" /\ WriteBucket(t)
        /\ Over(t) /\ UNCHANGED <<clock, connection, batches, raced>>
        /\ IF job[t].body.state = "proceeding" THEN Send(t, job[t].batch)
                                               ELSE UNCHANGED <<in_flight, history>>
    BY <1>5 DEF SubmitCharge, still
  <2>2. asked' = asked /\ Others(t) /\ Rests(job'[t])
    BY <2>1, OverRests DEF Send, history
  <2>3. SubmitEnds(t)
    BY <2>1, <2>2 DEF SubmitEnds, Continues, Send, Grants, history
  <2>. QED BY <2>3 DEF Kinds
<1>6. ASSUME NEW t \in Threads, NEW b \in DOMAIN batches, NEW answer \in Answers,
             Observe(t, b, answer)
      PROVE  Goal
  <2>. DEFINE call == [IdleJob EXCEPT !.call = "observe", !.stage = "deciding", !.batch = b,
                              !.body = batches[b], !.line = connection, !.now = clock,
                              !.answer = answer]
  <2>1. /\ Start(t, call) /\ clock' = clock
        /\ UNCHANGED <<connection, books, batches, sends, granted>>
        /\ asked' = [asked EXCEPT ![b] = Until(answer, clock)]
    BY <1>6 DEF Observe, records, books
  <2>2. /\ call.call = "observe" /\ call.stage = "deciding" /\ call.line = connection
        /\ call.now = clock /\ call.gated = FALSE /\ call.batch = b /\ call.body = batches[b]
        /\ call.answer = answer
    BY DEF IdleJob
  <2>. HIDE DEF call
  <2>3. BeginsObserve(t)
    BY <2>1, <2>2, StartBegins DEF BeginsObserve, ReadNow
  <2>. QED BY <2>3 DEF Kinds
<1>7. ASSUME NEW t \in Threads, ObserveSpend(t)
      PROVE  Goal
  <2>. DEFINE purse == Spend(bucket, job[t].line.burst, job[t].now, job[t].body.cost)
              next == [job[t] EXCEPT !.stage = "charging", !.purse = purse]
  <2>1. /\ job[t].call = "observe" /\ job[t].stage = "deciding" /\ job' = [job EXCEPT ![t] = next]
        /\ UNCHANGED <<clock, raced, connection>> /\ Frozen
    BY <1>7 DEF ObserveSpend, Goes, still, records, books, history, Frozen
  <2>2. /\ next.call = job[t].call /\ next.batch = job[t].batch /\ next.line = job[t].line
        /\ next.now = job[t].now /\ next.force = job[t].force /\ next.answer = job[t].answer
        /\ next.body = job[t].body /\ next.stage = "charging" /\ next.gated = job[t].gated
        /\ next.purse = purse
    BY DEF Jobs
  <2>. HIDE DEF next
  <2>3. job'[t] = next /\ Others(t)
    BY <2>1, MoveOthers
  <2>4. ObserveSpends(t)
    BY <2>1, <2>2, <2>3 DEF ObserveSpends, Continues, Same
  <2>. QED BY <2>4 DEF Kinds
<1>8. ASSUME NEW t \in Threads, ObserveCharge(t) \/ RetryCharge(t)
      PROVE  Goal
  <2>. DEFINE next == [job[t] EXCEPT !.stage = "updating"]
  <2>1. /\ job[t].call \in {"observe", "retry", "drain"} /\ job[t].stage = "charging"
        /\ job' = [job EXCEPT ![t] = next] /\ WriteBucket(t)
        /\ UNCHANGED <<clock, raced, connection, batches, sends, asked, granted>>
    BY <1>8 DEF ObserveCharge, RetryCharge, Goes, still, history
  <2>2. /\ next.call = job[t].call /\ next.batch = job[t].batch /\ next.line = job[t].line
        /\ next.now = job[t].now /\ next.force = job[t].force /\ next.answer = job[t].answer
        /\ next.body = job[t].body /\ next.stage = "updating" /\ next.gated = job[t].gated
    BY DEF Jobs
  <2>. HIDE DEF next
  <2>3. job'[t] = next /\ Others(t)
    BY <2>1, MoveOthers
  <2>4. Charges(t)
    BY <2>1, <2>2, <2>3 DEF Charges, Continues, Same
  <2>. QED BY <2>4 DEF Kinds
<1>9. ASSUME NEW t \in Threads, ObserveUpdate(t)
      PROVE  Goal
  <2>. DEFINE body == job[t].body
              answer == job[t].answer
              Row(row) == /\ batches' = [batches EXCEPT ![job[t].batch] = row]
                          /\ row.attempts = body.attempts
                          /\ row.state = "deferred" /\ body.attempt \in Nat \ {0} =>
                               \E wait \in Schedule(body.attempt, answer, job[t].now) \ {Never} :
                                 row.next = After(job[t].now, wait)
  <2>1. /\ job[t].call = "observe" /\ job[t].stage = "updating" /\ Over(t)
        /\ UNCHANGED <<clock, raced, connection, books, sends, asked, granted>>
    BY <1>9 DEF ObserveUpdate, still, history
  <2>2. answer \in Answers /\ job[t].now \in Nat /\ body \in Batches
    BY BoundAssumption DEF Jobs
  <2>3. \E row \in Batches : Row(row)
    <3>1. CASE batches' = [batches EXCEPT ![job[t].batch] = Settled(body, answer)]
      <4>1. /\ Settled(body, answer).state # "deferred"
            /\ Settled(body, answer).attempts = body.attempts
        BY <2>2 DEF Settled, Batches
      <4>2. Settled(body, answer) \in Batches
        BY <2>2, BodyTypes
      <4>. QED BY <3>1, <4>1, <4>2
    <3>2. ASSUME NEW wait \in Schedule(body.attempt, answer, job[t].now),
                 batches' = [batches EXCEPT ![job[t].batch] = Deferred(body, wait, job[t].now)]
          PROVE  \E row \in Batches : Row(row)
      <4>. DEFINE row == Deferred(body, wait, job[t].now)
      <4>1. row \in Batches
        <5>1. body.attempt \in Nat \ {0}
          BY <2>2 DEF Batches
        <5>. QED BY <2>2, <5>1, ScheduleType, BodyTypes
      <4>2. /\ row.attempts = body.attempts
            /\ row.next = After(job[t].now, wait)
            /\ row.state = "deferred" => wait # Never
        BY <2>2 DEF Deferred, Batches
      <4>. HIDE DEF row
      <4>. QED BY <3>2, <4>1, <4>2 DEF row
    <3>. HIDE DEF Row
    <3>. QED BY <1>9, <3>1, <3>2 DEF ObserveUpdate
  <2>4. Others(t) /\ Rests(job'[t])
    BY <2>1, OverRests
  <2>5. ObserveEnds(t)
    BY <2>1, <2>3, <2>4 DEF ObserveEnds, Continues
  <2>. QED BY <2>5 DEF Kinds
<1>10. ASSUME NEW t \in Threads, NEW b \in DOMAIN batches, NEW force \in BOOLEAN,
              Retry(t, b, force)
       PROVE  Goal
  <2>. DEFINE call == [RetryOf(t, b) EXCEPT !.force = force]
  <2>1. Start(t, call) /\ clock' = clock /\ Frozen
    BY <1>10 DEF Retry, records, books, history, Frozen
  <2>2. /\ call.call = "retry" /\ call.stage = "deciding" /\ call.line = connection
        /\ call.now = clock /\ call.gated = FALSE /\ call.batch = b /\ call.body = batches[b]
    BY DEF RetryOf, IdleJob
  <2>. HIDE DEF call
  <2>3. BeginsRetry(t)
    BY <2>1, <2>2, StartBegins DEF BeginsRetry, ReadNow
  <2>. QED BY <2>3 DEF Kinds
<1>11. ASSUME NEW t \in Threads, RetryDecide(t)
       PROVE  Goal
  <2>. DEFINE line == job[t].line
              body == job[t].body
              purse == Refill(bucket, line.burst, job[t].now)
              allowed == Allowed(line, purse, body.cost)
              early == body.next # Never /\ body.next > job[t].now
  <2>1. /\ job[t].call \in {"retry", "drain"} /\ job[t].stage = "deciding"
        /\ UNCHANGED <<clock, raced, connection>> /\ Frozen
    BY <1>11 DEF RetryDecide, still, records, books, history, Frozen
  <2>2. CASE job[t].force \/ (allowed /\ ~early)
    <3>. DEFINE go == [job[t] EXCEPT !.stage = "charging", !.gated = allowed /\ line.burst > 0,
                         !.purse = Spend(purse, line.burst, job[t].now, body.cost)]
    <3>1. job' = [job EXCEPT ![t] = go]
      BY <1>11, <2>2, Zenon DEF RetryDecide, Goes
    <3>2. job[t].force \/ ~Early(job[t])
      BY <2>2, Zenon DEF Early
    <3>3. /\ go.call = job[t].call /\ go.batch = job[t].batch /\ go.line = job[t].line
          /\ go.now = job[t].now /\ go.force = job[t].force /\ go.answer = job[t].answer
          /\ go.body = job[t].body /\ go.stage = "charging"
          /\ go.purse = Spend(purse, line.burst, job[t].now, body.cost)
      BY DEF Jobs
    <3>4. go.gated => line.burst > 0 /\ allowed
      <4>. HIDE DEF allowed, line, purse
      <4>. QED BY DEF Jobs
    <3>. HIDE DEF go
    <3>5. job'[t] = go /\ Others(t)
      BY <3>1, MoveOthers
    <3>6. RetrySends(t)
      <4>1. job'[t].gated => /\ job[t].line.burst > 0
                             /\ Allowed(job[t].line, Full(job[t]), job[t].body.cost)
        BY <3>4, <3>5, Zenon DEF Full
      <4>2. job'[t].purse = Spent(job[t])
        BY <3>3, <3>5 DEF Spent, Full
      <4>3. Same(t) /\ Continues(t) /\ job'[t].stage = "charging" /\ job'[t].body = job[t].body
        BY <2>1, <3>3, <3>5 DEF Same, Continues
      <4>. QED BY <2>1, <3>2, <4>1, <4>2, <4>3, Zenon DEF RetrySends
    <3>. QED BY <3>6 DEF Kinds
  <2>3. CASE ~(job[t].force \/ (allowed /\ ~early))
    <3>1. PICK w : job' = [job EXCEPT ![t] = [job[t] EXCEPT !.stage = "refusing",
                      !.body = [@ EXCEPT !.state = "deferred", !.next = w]]]
      BY <1>11, <2>3, Zenon DEF RetryDecide, Goes
    <3>. DEFINE refuse == [job[t] EXCEPT !.stage = "refusing",
                             !.body = [@ EXCEPT !.state = "deferred", !.next = w]]
    <3>2. /\ refuse.call = job[t].call /\ refuse.batch = job[t].batch /\ refuse.line = job[t].line
          /\ refuse.now = job[t].now /\ refuse.force = job[t].force
          /\ refuse.answer = job[t].answer /\ refuse.body.cost = job[t].body.cost
          /\ refuse.stage = "refusing" /\ refuse.body.attempts = job[t].body.attempts
      BY DEF Jobs, Batches
    <3>3. job' = [job EXCEPT ![t] = refuse]
      BY <3>1
    <3>. HIDE DEF refuse
    <3>4. job'[t] = refuse /\ Others(t)
      BY <3>3, MoveOthers
    <3>5. RetryWaits(t)
      BY <2>1, <3>2, <3>4 DEF RetryWaits, Continues, Same
    <3>. QED BY <3>5 DEF Kinds
  <2>. HIDE DEF allowed, early
  <2>. QED BY <2>2, <2>3, Zenon
<1>12. ASSUME NEW t \in Threads, RetryRefuse(t)
       PROVE  Goal
  <2>1. /\ job[t].stage = "refusing" /\ Over(t)
        /\ batches' = [batches EXCEPT ![job[t].batch] = job[t].body]
        /\ asked' = [asked EXCEPT ![job[t].batch] = 0]
        /\ UNCHANGED <<clock, raced, connection, books, sends, granted>>
    BY <1>12 DEF RetryRefuse, still
  <2>2. Others(t) /\ Rests(job'[t]) /\ job[t].call \in {"retry", "drain"}
    BY <2>1, OverRests DEF Fits
  <2>3. RetryRefuses(t)
    BY <2>1, <2>2 DEF RetryRefuses, Continues
  <2>. QED BY <2>3 DEF Kinds
<1>13. ASSUME NEW t \in Threads, RetryUpdate(t)
       PROVE  Goal
  <2>1. /\ job[t].call \in {"retry", "drain"} /\ job[t].stage = "updating" /\ Over(t)
        /\ batches' = [batches EXCEPT ![job[t].batch] = Retried(job[t].body)]
        /\ UNCHANGED <<clock, raced, connection, books>> /\ Send(t, job[t].batch)
    BY <1>13 DEF RetryUpdate, still
  <2>2. Others(t) /\ Rests(job'[t])
    BY <2>1, OverRests
  <2>3. RetryEnds(t)
    BY <2>1, <2>2 DEF RetryEnds, Continues, Send, Grants
  <2>. QED BY <2>3 DEF Kinds
<1>14. ASSUME NEW t \in Threads, Drain(t)
       PROVE  Goal
  <2>. DEFINE call == [IdleJob EXCEPT !.call = "drain", !.stage = "draining", !.todo = DueNow]
  <2>1. Start(t, call) /\ clock' = clock /\ Frozen
    BY <1>14 DEF Drain, records, books, history, Frozen
  <2>2. call.call = "drain" /\ call.stage = "draining"
    BY DEF IdleJob
  <2>. HIDE DEF call
  <2>3. BeginsDrain(t)
    BY <2>1, <2>2, StartBegins DEF BeginsDrain
  <2>. QED BY <2>3 DEF Kinds
<1>15. ASSUME NEW t \in Threads, DrainNext(t)
       PROVE  Goal
  <2>1. job[t].stage = "draining" /\ UNCHANGED <<clock, raced, connection>> /\ Frozen
    BY <1>15 DEF DrainNext, still, records, books, history, Frozen
  <2>2. CASE Goes(t, IdleJob)
    <3>1. job'[t] = IdleJob /\ Others(t)
      BY <2>2, MoveOthers DEF Goes
    <3>2. DrainGoesOn(t)
      BY <2>1, <3>1 DEF DrainGoesOn, Continues, IdleJob
    <3>. QED BY <3>2 DEF Kinds
  <2>3. ASSUME NEW b \in job[t].todo,
               Goes(t, [RetryOf(t, b) EXCEPT !.call = "drain", !.todo = job[t].todo \ {b}])
        PROVE  Goal
    <3>. DEFINE next == [RetryOf(t, b) EXCEPT !.call = "drain", !.todo = job[t].todo \ {b}]
    <3>1. job' = [job EXCEPT ![t] = next] /\ b \in 1..Len(batches)
      BY <2>3 DEF Goes, Placed
    <3>2. /\ next.call = "drain" /\ next.stage = "deciding" /\ next.line = connection
          /\ next.now = clock /\ next.gated = FALSE /\ next.batch = b /\ next.body = batches[b]
      BY DEF RetryOf, IdleJob
    <3>. HIDE DEF next
    <3>3. job'[t] = next /\ Others(t)
      BY <3>1, MoveOthers
    <3>4. DrainGoesOn(t)
      BY <2>1, <3>1, <3>2, <3>3 DEF DrainGoesOn, Continues, ReadNow
    <3>. QED BY <3>4 DEF Kinds
  <2>. QED BY <1>15, <2>2, <2>3 DEF DrainNext
<1>16. ASSUME NEW t \in Threads, NEW line, Administer(t, line)
       PROVE  Goal
  <2>. DEFINE call == [IdleJob EXCEPT !.call = "admin", !.stage = "syncing", !.line = line]
  <2>1. /\ Start(t, call) /\ clock' = clock /\ connection' = line
        /\ UNCHANGED <<books, batches, sends, asked, granted>>
    BY <1>16 DEF Administer, history
  <2>2. call.call = "admin" /\ call.stage = "syncing" /\ call.line = line
    BY DEF IdleJob
  <2>. HIDE DEF call
  <2>3. BeginsAdmin(t)
    BY <2>1, <2>2, StartBegins DEF BeginsAdmin
  <2>. QED BY <2>3 DEF Kinds
<1>17. ASSUME NEW t \in Threads, SyncRead(t)
       PROVE  Goal
  <2>. DEFINE next == [job[t] EXCEPT !.stage = "resizing",
                                     !.purse = Refill(bucket, job[t].line.burst, clock)]
  <2>1. /\ job[t].stage = "syncing" /\ job' = [job EXCEPT ![t] = next]
        /\ UNCHANGED <<clock, raced, connection>> /\ Frozen
    BY <1>17 DEF SyncRead, Goes, still, records, books, history, Frozen
  <2>2. /\ next.stage = "resizing" /\ next.call = job[t].call
        /\ next.purse = Refill(bucket, job[t].line.burst, clock)
    BY DEF Jobs
  <2>. HIDE DEF next
  <2>3. job[t].call = "admin"
    BY <2>1 DEF CallInv, Carries, Submits, Observes, Retries, Jobs, Calls
  <2>4. job'[t] = next /\ Others(t)
    BY <2>1, MoveOthers
  <2>5. SyncReads(t)
    BY <2>1, <2>2, <2>3, <2>4 DEF SyncReads, Continues
  <2>. QED BY <2>5 DEF Kinds
<1>18. ASSUME NEW t \in Threads, SyncWrite(t)
       PROVE  Goal
  <2>1. /\ job[t].stage = "resizing" /\ WriteBucket(t) /\ Over(t)
        /\ UNCHANGED <<clock, raced, connection, batches, sends, asked, granted>>
    BY <1>18 DEF SyncWrite, still, history
  <2>2. Others(t) /\ Rests(job'[t])
    BY <2>1, OverRests
  <2>3. SyncEnds(t)
    BY <2>1, <2>2 DEF SyncEnds, Continues
  <2>. QED BY <2>3 DEF Kinds
<1>. HIDE DEF Goal
<1>19. Goal
  BY <1>1, <1>2, <1>3, <1>4, <1>5, <1>6, <1>7, <1>8, <1>9, <1>10, <1>11, <1>12, <1>13, <1>14,
     <1>15, <1>16, <1>17, <1>18 DEF Next, Handler, SetPaused, PatchConnection
<1>. QED BY <1>19 DEF Goal

-----------------------------------------------------------------------------
(* Attempts: whatever calls overlap, none is shown that was not made. *)

(* The call is about a batch whose row it has read. *)
Reads(j) == j.call \in {"observe", "retry", "drain"} /\ j.stage # "draining"

(* The row of a batch shows its first attempt, and the call was not sent yet. *)
ToSend(j) == j.call = "submit" /\ j.stage = "charging" /\ j.body.state = "proceeding"
Owed(b) == \E t \in Threads : ToSend(job[t]) /\ job[t].batch = b

AtMost(n, b) == n <= sends[b] \/ (n <= sends[b] + 1 /\ Owed(b))

(* The same after the step. *)
OwedNext(b) == \E t \in Threads : ToSend(job'[t]) /\ job'[t].batch = b
AtMostNext(n, b) == n <= sends'[b] \/ (n <= sends'[b] + 1 /\ OwedNext(b))

MadeInv ==
  /\ CallInv
  /\ \A b \in 1..Len(batches) : AtMost(batches[b].attempts, b)
  /\ \A t \in Threads : Reads(job[t]) => AtMost(job[t].body.attempts, job[t].batch)

LEMMA Counts ==
  ASSUME CallInv
  PROVE  /\ sends \in Seq(Nat) /\ Len(sends) = Len(batches)
         /\ asked \in Seq(Nat) /\ Len(asked) = Len(batches)
         /\ Len(batches) \in Nat /\ DOMAIN batches = 1..Len(batches)
         /\ \A b \in 1..Len(batches) : /\ sends[b] \in Nat /\ asked[b] \in Nat
                                       /\ batches[b] \in Batches /\ batches[b].attempts \in Nat
         /\ \A t \in Threads : /\ job[t] \in Jobs /\ job[t].body \in Batches
                               /\ job[t].body.attempts \in Nat /\ job[t].now \in Nat
                               /\ Reads(job[t]) \/ ToSend(job[t]) => job[t].batch \in 1..Len(batches)
                               /\ job[t].stage = "idle" => job[t].call = "none"
<1>1. TypeInv
  BY DEF CallInv
<1>2. /\ sends \in Seq(Nat) /\ Len(sends) = Len(batches)
      /\ asked \in Seq(Nat) /\ Len(asked) = Len(batches)
      /\ batches \in Seq(Batches)
      /\ Len(batches) \in Nat /\ DOMAIN batches = 1..Len(batches)
  BY <1>1, CallTypes DEF TypeInv, TypeOK
<1>3. ASSUME NEW b \in 1..Len(batches)
      PROVE  /\ sends[b] \in Nat /\ asked[b] \in Nat
             /\ batches[b] \in Batches /\ batches[b].attempts \in Nat
  <2>1. sends[b] \in Nat /\ asked[b] \in Nat /\ batches[b] \in Batches
    BY <1>2
  <2>. QED BY <2>1 DEF Batches
<1>4. ASSUME NEW t \in Threads
      PROVE  /\ job[t] \in Jobs /\ job[t].body \in Batches
             /\ job[t].body.attempts \in Nat /\ job[t].now \in Nat
             /\ Reads(job[t]) \/ ToSend(job[t]) => job[t].batch \in 1..Len(batches)
             /\ job[t].stage = "idle" => job[t].call = "none"
  <2>1. job[t] \in Jobs /\ (Named(job[t]) => job[t].batch \in 1..Len(batches))
    BY <1>1, CallTypes
  <2>2. job[t].body \in Batches /\ job[t].now \in Nat /\ job[t].call \in Calls
    BY <2>1, BoundAssumption DEF Jobs
  <2>3. Carries(job[t], accepted)
    BY DEF CallInv
  <2>4. Reads(job[t]) \/ ToSend(job[t]) => Named(job[t])
    BY <2>3 DEF Reads, ToSend, Named, Carries, Observes, Retries
  <2>5. job[t].stage = "idle" => job[t].call = "none"
    BY <2>2, <2>3 DEF Calls, Carries, Submits, Observes, Retries
  <2>. QED BY <2>1, <2>2, <2>4, <2>5 DEF Batches
<1>. QED BY <1>2, <1>3, <1>4

(* What a call remembers of its batch it has just read, or knew before. *)
LEMMA ReadsStep ==
  ASSUME CallInv, CallInv', NEW t \in Threads, Kinds(t), Reads(job'[t])
  PROVE  /\ batches' = batches /\ sends' = sends
         /\ \/ ReadNow(job'[t])
            \/ /\ Reads(job[t]) /\ job'[t].batch = job[t].batch
               /\ job'[t].body.attempts = job[t].body.attempts
<1>1. /\ job'[t].call # "submit" /\ job'[t].call # "admin" /\ job'[t].stage # "idle"
      /\ ~Rests(job'[t])
  BY DEF CallInv, Carries, Observes, Retries, Reads, Rests
<1>. QED BY <1>1 DEF Kinds, BeginsSubmit, BeginsRetry, BeginsObserve, BeginsDrain, BeginsAdmin,
       SubmitSends, SubmitWaits, Creates, SubmitEnds, ObserveSpends, Charges, ObserveEnds,
       RetrySends, RetryWaits, RetryRefuses, RetryEnds, DrainGoesOn, SyncReads, SyncEnds,
       Same, Frozen, Reads

(* A send is counted, and what is owed is paid by a send. *)
LEMMA OwedStep ==
  ASSUME CallInv, CallInv', NEW t \in Threads, Kinds(t), NEW b \in 1..Len(batches)
  PROVE  /\ sends'[b] \in {sends[b], sends[b] + 1}
         /\ Owed(b) => OwedNext(b) \/ sends'[b] = sends[b] + 1
<1>. USE Counts
<1>1. sends'[b] \in {sends[b], sends[b] + 1}
  <2>1. CASE sends' = sends
    BY <2>1
  <2>2. CASE sends' = Append(sends, 0)
    BY <2>2, AppendProperties
  <2>3. CASE sends' = [sends EXCEPT ![job[t].batch] = @ + 1]
    BY <2>3
  <2>. QED BY <2>1, <2>2, <2>3
         DEF Kinds, BeginsSubmit, BeginsRetry, BeginsObserve, BeginsDrain, BeginsAdmin,
           SubmitSends, SubmitWaits, Creates, SubmitEnds, ObserveSpends, Charges, ObserveEnds,
           RetrySends, RetryWaits, RetryRefuses, RetryEnds, DrainGoesOn, SyncReads, SyncEnds,
           Frozen
<1>2. ASSUME NEW u \in Threads, ToSend(job[u]), job[u].batch = b
      PROVE  OwedNext(b) \/ sends'[b] = sends[b] + 1
  <2>1. Others(t)
    BY DEF Kinds, BeginsSubmit, BeginsRetry, BeginsObserve, BeginsDrain, BeginsAdmin,
           SubmitSends, SubmitWaits, Creates, SubmitEnds, ObserveSpends, Charges, ObserveEnds,
           RetrySends, RetryWaits, RetryRefuses, RetryEnds, DrainGoesOn, SyncReads, SyncEnds,
           Begins, Continues
  <2>2. CASE u # t
    BY <1>2, <2>1, <2>2 DEF Others, Owed, OwedNext
  <2>3. CASE u = t
    <3>1. SubmitEnds(t)
      BY <1>2, <2>3 DEF ToSend, Kinds, BeginsSubmit, BeginsRetry, BeginsObserve, BeginsDrain,
           BeginsAdmin, Begins, SubmitSends, SubmitWaits, Creates, ObserveSpends, Charges,
           ObserveEnds, RetrySends, RetryWaits, RetryRefuses, RetryEnds, DrainGoesOn, SyncReads,
           SyncEnds
    <3>2. sends' = [sends EXCEPT ![b] = @ + 1]
      BY <1>2, <2>3, <3>1 DEF SubmitEnds, ToSend
    <3>. QED BY <3>2
  <2>. QED BY <2>2, <2>3
<1>. QED BY <1>1, <1>2 DEF Owed

LEMMA AtMostStep ==
  ASSUME CallInv, CallInv', NEW t \in Threads, Kinds(t), NEW b \in 1..Len(batches), NEW n \in Nat,
         AtMost(n, b)
  PROVE  AtMostNext(n, b)
<1>1. /\ sends'[b] \in {sends[b], sends[b] + 1} /\ sends[b] \in Nat
      /\ Owed(b) => OwedNext(b) \/ sends'[b] = sends[b] + 1
  BY OwedStep, Counts
<1>. QED BY <1>1 DEF AtMost, AtMostNext

LEMMA MadeInit == Init => MadeInv
<1>. SUFFICES ASSUME Init PROVE MadeInv
  OBVIOUS
<1>1. Len(batches) = 0 /\ \A t \in Threads : job[t] = IdleJob
  BY DEF Init
<1>. QED BY <1>1, CallInit DEF MadeInv, Reads, IdleJob

(* The rows after a step: the same, one more, or one written by a call that *)
(* had read it. *)
LEMMA RowsStep ==
  ASSUME CallInv, CallInv', NEW t \in Threads, Kinds(t)
  PROVE  \/ batches' = batches
         \/ Creates(t)
         \/ /\ Reads(job[t]) /\ ~Reads(job'[t]) /\ Rests(job'[t])
            /\ \E row \in Batches :
                 /\ batches' = [batches EXCEPT ![job[t].batch] = row]
                 /\ \/ sends' = sends /\ row.attempts = job[t].body.attempts
                    \/ /\ sends' = [sends EXCEPT ![job[t].batch] = @ + 1]
                       /\ row.attempts = job[t].body.attempts + 1
<1>. USE Counts
<1>1. CASE ObserveEnds(t) \/ RetryRefuses(t) \/ RetryEnds(t)
  <2>1. Rests(job'[t]) /\ Reads(job[t])
    BY <1>1 DEF ObserveEnds, RetryRefuses, RetryEnds, Reads
  <2>2. ~Reads(job'[t])
    BY <2>1 DEF CallInv, Carries, Observes, Retries, Reads, Rests
  <2>3. CASE ObserveEnds(t)
    BY <2>1, <2>2, <2>3 DEF ObserveEnds
  <2>4. CASE RetryRefuses(t)
    BY <2>1, <2>2, <2>4 DEF RetryRefuses
  <2>5. CASE RetryEnds(t)
    <3>1. Retried(job[t].body) \in Batches /\ Retried(job[t].body).attempts = job[t].body.attempts + 1
      <4>1. NoAnswer \in Answers /\ 0 \in Nat
        BY BlankTypes
      <4>2. Retried(job[t].body).attempts = job[t].body.attempts + 1
        BY DEF Retried, Batches
      <4>. QED BY <4>1, <4>2, BodyTypes
    <3>. QED BY <2>1, <2>2, <2>5, <3>1 DEF RetryEnds
  <2>. QED BY <1>1, <2>3, <2>4, <2>5
<1>2. CASE ~(ObserveEnds(t) \/ RetryRefuses(t) \/ RetryEnds(t))
  BY <1>2 DEF Kinds, BeginsSubmit, BeginsRetry, BeginsObserve, BeginsDrain, BeginsAdmin,
       SubmitSends, SubmitWaits, SubmitEnds, ObserveSpends, Charges,
       RetrySends, RetryWaits, DrainGoesOn, SyncReads, SyncEnds, Frozen
<1>. QED BY <1>1, <1>2

LEMMA OthersStay ==
  ASSUME CallInv, NEW t \in Threads, Kinds(t)
  PROVE  Others(t) /\ (Begins(t) \/ Continues(t))
BY DEF Kinds, BeginsSubmit, BeginsRetry, BeginsObserve, BeginsDrain, BeginsAdmin,
       SubmitSends, SubmitWaits, Creates, SubmitEnds, ObserveSpends, Charges, ObserveEnds,
       RetrySends, RetryWaits, RetryRefuses, RetryEnds, DrainGoesOn, SyncReads, SyncEnds,
       Begins, Continues

(* A new row shows an attempt if and only if its call is to be sent. *)
LEMMA CreateStep ==
  ASSUME CallInv, CallInv', NEW t \in Threads, Creates(t)
  PROVE  LET b == Len(batches) + 1
         IN /\ Len(batches') = b /\ sends'[b] = 0 /\ batches'[b] = job[t].body
            /\ \A c \in 1..Len(batches) : batches'[c] = batches[c] /\ sends'[c] = sends[c]
            /\ \/ job[t].body.attempts = 1 /\ OwedNext(b)
               \/ job[t].body.attempts = 0 /\ ~ToSend(job'[t])
<1>. DEFINE b == Len(batches) + 1
<1>. USE Counts
<1>1. batches \in Seq(Batches)
  BY CallTypes DEF CallInv
<1>2. /\ batches' = Append(batches, job[t].body) /\ sends' = Append(sends, 0)
      /\ job'[t].call = "submit" /\ job'[t].stage = "charging"
      /\ job'[t].body = job[t].body /\ job'[t].batch = b
      /\ job[t].call = "submit" /\ job[t].stage = "creating"
  BY DEF Creates
<1>3. /\ Len(batches') = b /\ sends'[b] = 0 /\ batches'[b] = job[t].body
      /\ \A c \in 1..Len(batches) : batches'[c] = batches[c] /\ sends'[c] = sends[c]
  BY <1>1, <1>2, AppendProperties
<1>4. \/ job[t].body.state = "proceeding" /\ job[t].body.attempts = 1
      \/ job[t].body.state = "deferred" /\ job[t].body.attempts = 0
  BY <1>2 DEF CallInv, Carries, Submits
<1>5. CASE job[t].body.state = "proceeding" /\ job[t].body.attempts = 1
  BY <1>2, <1>3, <1>5 DEF OwedNext, ToSend
<1>6. CASE job[t].body.state = "deferred" /\ job[t].body.attempts = 0
  BY <1>2, <1>3, <1>6 DEF ToSend
<1>. QED BY <1>3, <1>4, <1>5, <1>6

LEMMA MadeStep ==
  ASSUME MadeInv, [Next]_vars
  PROVE  MadeInv'
<1>1. CallInv /\ CallInv'
  BY CallInvStep DEF MadeInv
<1>. USE <1>1, Counts
<1>2. CASE Waits
  BY <1>2 DEF MadeInv, Waits, Frozen, AtMost, Owed
<1>3. ASSUME NEW t \in Threads, Kinds(t)
      PROVE  MadeInv'
  <2>1. \A b \in 1..Len(batches), n \in Nat : AtMost(n, b) => AtMostNext(n, b)
    BY <1>3, AtMostStep
  <2>2. ASSUME batches' = batches
        PROVE  \A b \in 1..Len(batches') : AtMostNext(batches'[b].attempts, b)
    BY <2>1, <2>2 DEF MadeInv
  <2>3. ASSUME NEW u \in Threads \ {t}, Reads(job'[u])
        PROVE  AtMostNext(job'[u].body.attempts, job'[u].batch)
    <3>1. job'[u] = job[u]
      BY <1>3, OthersStay DEF Others
    <3>. QED BY <2>1, <2>3, <3>1 DEF MadeInv
  <2>4. ASSUME Reads(job'[t])
        PROVE  AtMostNext(job'[t].body.attempts, job'[t].batch)
    <3>1. batches' = batches
      BY <1>3, <2>4, ReadsStep
    <3>2. CASE ReadNow(job'[t])
      BY <2>2, <3>1, <3>2 DEF ReadNow
    <3>3. CASE /\ Reads(job[t]) /\ job'[t].batch = job[t].batch
               /\ job'[t].body.attempts = job[t].body.attempts
      BY <2>1, <3>3 DEF MadeInv
    <3>. QED BY <1>3, <2>4, <3>2, <3>3, ReadsStep
  <2>5. \A b \in 1..Len(batches') : AtMostNext(batches'[b].attempts, b)
    <3>1. CASE Creates(t)
      <4>. DEFINE last == Len(batches) + 1
      <4>1. \A b \in 1..Len(batches) : AtMostNext(batches'[b].attempts, b)
        BY <2>1, <3>1, CreateStep DEF MadeInv
      <4>2. AtMostNext(batches'[last].attempts, last)
        BY <3>1, CreateStep DEF AtMostNext
      <4>. QED BY <3>1, <4>1, <4>2, CreateStep
    <3>2. ASSUME Reads(job[t]), ~Reads(job'[t]), NEW row \in Batches,
                 batches' = [batches EXCEPT ![job[t].batch] = row],
                 \/ sends' = sends /\ row.attempts = job[t].body.attempts
                 \/ /\ sends' = [sends EXCEPT ![job[t].batch] = @ + 1]
                    /\ row.attempts = job[t].body.attempts + 1
          PROVE  \A b \in 1..Len(batches') : AtMostNext(batches'[b].attempts, b)
      <4>. DEFINE c == job[t].batch
      <4>1. c \in 1..Len(batches) /\ Len(batches') = Len(batches)
            /\ \A b \in 1..Len(batches) : batches'[b] = IF b = c THEN row ELSE batches[b]
        BY <3>2 DEF CallInv
      <4>2. AtMost(job[t].body.attempts, c)
        BY <3>2 DEF MadeInv
      <4>3. AtMostNext(row.attempts, c)
        <5>1. CASE sends' = sends /\ row.attempts = job[t].body.attempts
          BY <2>1, <4>1, <4>2, <5>1
        <5>2. CASE /\ sends' = [sends EXCEPT ![c] = @ + 1]
                   /\ row.attempts = job[t].body.attempts + 1
          <6>1. sends'[c] = sends[c] + 1
            BY <4>1, <5>2
          <6>2. Owed(c) => OwedNext(c)
            <7>1. \A u \in Threads : ToSend(job[u]) => u # t
              BY <3>2 DEF ToSend, Reads
            <7>. QED BY <1>3, <7>1, OthersStay DEF Owed, OwedNext, Others
          <6>3. sends[c] \in Nat /\ job[t].body.attempts \in Nat
            BY <4>1
          <6>4. CASE job[t].body.attempts <= sends[c]
            <7>1. row.attempts <= sends'[c]
              <8>1. row.attempts = job[t].body.attempts + 1 /\ sends'[c] = sends[c] + 1
                BY <5>2, <6>1
              <8>2. \A m, n \in Nat : m <= n => m + 1 <= n + 1
                OBVIOUS
              <8>. QED BY <6>3, <6>4, <8>1, <8>2
            <7>. QED BY <7>1 DEF AtMostNext
          <6>5. CASE job[t].body.attempts <= sends[c] + 1 /\ Owed(c)
            <7>1. OwedNext(c)
              BY <6>2, <6>5
            <7>2. row.attempts <= sends'[c] + 1
              <8>1. row.attempts = job[t].body.attempts + 1 /\ sends'[c] = sends[c] + 1
                BY <5>2, <6>1
              <8>2. \A m, n \in Nat : m <= n + 1 => m + 1 <= (n + 1) + 1
                OBVIOUS
              <8>. HIDE DEF c
              <8>. QED BY <6>3, <6>5, <8>1, <8>2
            <7>. QED BY <7>1, <7>2 DEF AtMostNext
          <6>. QED BY <4>2, <6>4, <6>5 DEF AtMost
        <5>. QED BY <3>2, <5>1, <5>2
      <4>4. \A b \in 1..Len(batches) : AtMostNext(batches[b].attempts, b)
        BY <2>1 DEF MadeInv
      <4>. QED BY <4>1, <4>3, <4>4
    <3>. QED BY <1>3, <2>2, <3>1, <3>2, RowsStep
  <2>. QED BY <2>3, <2>4, <2>5 DEF MadeInv, AtMost, AtMostNext, Owed, OwedNext
<1>. QED BY <1>2, <1>3, StepKinds

-----------------------------------------------------------------------------
(* One call at a time. *)

Alone == \A t, u \in Threads : job[t].stage # "idle" /\ job[u].stage # "idle" => t = u

(* What the call has read is what there is. *)
Fresh(j) ==
  /\ j.call = "submit" \/ Reads(j) => j.line = connection
  /\ Reads(j) => j.body.attempts = batches[j.batch].attempts
  /\ Reads(j) /\ j.stage # "refusing" => j.body = batches[j.batch]

(* A row shows the calls that were sent, and the one that is about to be. *)
Even(b) ==
  /\ Owed(b) => batches[b].attempts = sends[b] + 1
  /\ ~Owed(b) => batches[b].attempts = sends[b]

Solo ==
  /\ Alone
  /\ \A t \in Threads : Fresh(job[t])
  /\ \A b \in 1..Len(batches) : Even(b)

SoloInv == CallInv /\ (raced = 0 => Solo)

LEMMA SoloInit == Init => SoloInv
<1>. SUFFICES ASSUME Init PROVE SoloInv
  OBVIOUS
<1>1. Len(batches) = 0 /\ \A t \in Threads : job[t] = IdleJob
  BY DEF Init
<1>. QED BY <1>1, CallInit DEF SoloInv, Solo, Alone, Fresh, Reads, IdleJob

(* While nothing has overlapped, the others are idle before and after. *)
LEMMA SoloOthers ==
  ASSUME SoloInv, CallInv', NEW t \in Threads, Kinds(t), raced' = 0
  PROVE  /\ Solo
         /\ \A u \in Threads \ {t} : /\ job'[u] = job[u]
                                     /\ job[u].stage = "idle" /\ job[u].call = "none"
         /\ Alone'
         /\ \A b : Owed(b) <=> ToSend(job[t]) /\ job[t].batch = b
         /\ \A b : OwedNext(b) <=> ToSend(job'[t]) /\ job'[t].batch = b
<1>1. CallInv /\ raced = 0 /\ Solo /\ Others(t)
  BY OthersStay DEF SoloInv, Begins, Continues
<1>2. \A u \in Threads \ {t} : job[u].stage = "idle"
  BY <1>1, OthersStay DEF Solo, Alone, Begins, Continues
<1>3. \A u \in Threads \ {t} : job'[u] = job[u] /\ job[u].call = "none"
  BY <1>1, <1>2, Counts DEF Others
<1>4. Alone'
  BY <1>2, <1>3 DEF Alone
<1>5. \A b : Owed(b) <=> ToSend(job[t]) /\ job[t].batch = b
  BY <1>2, <1>3 DEF Owed, ToSend
<1>6. \A b : OwedNext(b) <=> ToSend(job'[t]) /\ job'[t].batch = b
  BY <1>2, <1>3 DEF OwedNext, ToSend
<1>. QED BY <1>1, <1>2, <1>3, <1>4, <1>5, <1>6

LEMMA FreshStep ==
  ASSUME SoloInv, CallInv', NEW t \in Threads, Kinds(t), raced' = 0
  PROVE  \A u \in Threads : Fresh(job[u])'
<1>1. /\ Solo /\ \A u \in Threads \ {t} : job'[u] = job[u] /\ job[u].call = "none"
      /\ Fresh(job[t])
  BY SoloOthers DEF Solo
<1>2. \A u \in Threads \ {t} : Fresh(job[u])'
  BY <1>1 DEF Fresh, Reads
<1>3. ASSUME Reads(job'[t])
      PROVE  /\ job'[t].line = connection'
             /\ job'[t].body.attempts = batches'[job'[t].batch].attempts
             /\ job'[t].stage # "refusing" => job'[t].body = batches'[job'[t].batch]
  <2>1. /\ batches' = batches
        /\ \/ ReadNow(job'[t])
           \/ /\ Reads(job[t]) /\ job'[t].batch = job[t].batch
              /\ job'[t].body.attempts = job[t].body.attempts
    BY <1>3, ReadsStep DEF SoloInv
  <2>2. job'[t].stage # "idle" /\ job'[t].call # "submit" /\ job'[t].call # "admin"
        /\ ~Rests(job'[t])
    BY <1>3 DEF CallInv, Carries, Observes, Retries, Reads, Rests
  <2>3. connection' = connection
    BY <2>2 DEF Kinds, BeginsSubmit, BeginsRetry, BeginsObserve, BeginsDrain, BeginsAdmin,
       SubmitSends, SubmitWaits, Creates, SubmitEnds, ObserveSpends, Charges, ObserveEnds,
       RetrySends, RetryWaits, RetryRefuses, RetryEnds, DrainGoesOn, SyncReads, SyncEnds,
       Continues, Frozen
  <2>4. CASE ReadNow(job'[t])
    BY <2>1, <2>3, <2>4 DEF ReadNow
  <2>5. CASE ~ReadNow(job'[t])
    <3>1. ObserveSpends(t) \/ Charges(t) \/ RetrySends(t) \/ RetryWaits(t)
      BY <1>3, <2>1, <2>2, <2>5
         DEF Kinds, BeginsSubmit, BeginsRetry, BeginsObserve, BeginsDrain, BeginsAdmin,
           SubmitSends, SubmitWaits, Creates, SubmitEnds, ObserveEnds,
           RetryRefuses, RetryEnds, DrainGoesOn, SyncReads, SyncEnds, Reads, Same
    <3>2. /\ job'[t].line = job[t].line
          /\ job'[t].stage # "refusing" => job'[t].body = job[t].body /\ job[t].stage # "refusing"
      BY <3>1 DEF ObserveSpends, Charges, RetrySends, RetryWaits, Same
    <3>. QED BY <1>1, <2>1, <2>3, <2>5, <3>2 DEF Fresh
  <2>. QED BY <2>4, <2>5
<1>4. ASSUME job'[t].call = "submit"
      PROVE  job'[t].line = connection'
  <2>1. ~Rests(job'[t]) /\ job'[t].stage # "idle"
    BY <1>4 DEF CallInv, Carries, Submits, Rests
  <2>. QED BY <1>1, <1>4, <2>1
         DEF Kinds, BeginsSubmit, BeginsRetry, BeginsObserve, BeginsDrain, BeginsAdmin,
           SubmitSends, SubmitWaits, Creates, SubmitEnds, ObserveSpends, Charges, ObserveEnds,
           RetrySends, RetryWaits, RetryRefuses, RetryEnds, DrainGoesOn, SyncReads, SyncEnds,
           Same, Continues, Frozen, Fresh, Reads
<1>5. Fresh(job[t])'
  BY <1>3, <1>4 DEF Fresh, Reads
<1>. QED BY <1>2, <1>5

LEMMA EvenStep ==
  ASSUME SoloInv, CallInv', NEW t \in Threads, Kinds(t), raced' = 0
  PROVE  \A b \in 1..Len(batches') : Even(b)'
<1>. DEFINE EvenNext(b) == /\ OwedNext(b) => batches'[b].attempts = sends'[b] + 1
                           /\ ~OwedNext(b) => batches'[b].attempts = sends'[b]
<1>. SUFFICES \A b \in 1..Len(batches') : EvenNext(b)
  BY DEF Even, Owed, OwedNext
<1>. USE Counts
<1>0. CallInv
  BY DEF SoloInv
<1>1. /\ \A b \in 1..Len(batches) : Even(b)
      /\ Fresh(job[t])
      /\ \A b : Owed(b) <=> ToSend(job[t]) /\ job[t].batch = b
      /\ \A b : OwedNext(b) <=> ToSend(job'[t]) /\ job'[t].batch = b
  BY SoloOthers DEF Solo
<1>2. CASE Creates(t)
  <2>. DEFINE last == Len(batches) + 1
  <2>1. ~ToSend(job[t]) /\ job'[t].batch = last
    BY <1>2 DEF Creates, ToSend
  <2>2. ASSUME NEW b \in 1..Len(batches) PROVE EvenNext(b)
    <3>1. batches[b].attempts = sends[b]
      BY <1>1, <2>1 DEF Even
    <3>2. batches'[b] = batches[b] /\ sends'[b] = sends[b]
      BY <1>0, <1>2, CreateStep
    <3>3. ~OwedNext(b)
      <4>1. Len(batches) \in Nat /\ b # last
        OBVIOUS
      <4>. QED BY <1>1, <2>1, <4>1
    <3>. QED BY <3>1, <3>2, <3>3
  <2>3. EvenNext(last)
    BY <1>0, <1>1, <1>2, CreateStep
  <2>. QED BY <1>0, <1>2, <2>2, <2>3, CreateStep
<1>3. CASE SubmitEnds(t)
  <2>1. ~ToSend(job'[t]) /\ batches' = batches
    BY <1>3 DEF SubmitEnds, Rests, ToSend
  <2>2. CASE job[t].body.state = "proceeding"
    <3>1. ToSend(job[t]) /\ sends' = [sends EXCEPT ![job[t].batch] = @ + 1]
      BY <1>3, <2>2 DEF SubmitEnds, ToSend
    <3>2. job[t].batch \in 1..Len(batches)
      BY <1>0, <3>1
    <3>3. ASSUME NEW b \in 1..Len(batches)
          PROVE  batches[b].attempts = sends'[b]
      <4>1. CASE b = job[t].batch
        <5>1. batches[b].attempts = sends[b] + 1
          BY <1>1, <3>1, <3>2, <4>1 DEF Even
        <5>2. sends'[b] = sends[b] + 1
          BY <1>0, <3>1, <3>2, <4>1
        <5>. QED BY <5>1, <5>2
      <4>2. CASE b # job[t].batch
        <5>1. batches[b].attempts = sends[b]
          BY <1>1, <4>2 DEF Even
        <5>2. sends'[b] = sends[b]
          BY <1>0, <3>1, <4>2
        <5>. QED BY <5>1, <5>2
      <4>. QED BY <4>1, <4>2
    <3>4. \A b : ~OwedNext(b)
      BY <1>1, <2>1
    <3>. QED BY <2>1, <3>3, <3>4
  <2>3. CASE job[t].body.state # "proceeding"
    BY <1>1, <1>3, <2>1, <2>3 DEF SubmitEnds, ToSend, Even
  <2>. QED BY <2>2, <2>3
<1>4. ASSUME Reads(job[t]), Rests(job'[t]), NEW row \in Batches,
             batches' = [batches EXCEPT ![job[t].batch] = row],
             \/ sends' = sends /\ row.attempts = job[t].body.attempts
             \/ /\ sends' = [sends EXCEPT ![job[t].batch] = @ + 1]
                /\ row.attempts = job[t].body.attempts + 1
      PROVE  \A b \in 1..Len(batches') : EvenNext(b)
  <2>. DEFINE c == job[t].batch
  <2>1. /\ c \in 1..Len(batches) /\ Len(batches') = Len(batches)
        /\ \A b \in 1..Len(batches) : batches'[b] = IF b = c THEN row ELSE batches[b]
    BY <1>0, <1>4
  <2>2. ~ToSend(job[t])
    BY <1>4 DEF ToSend, Reads
  <2>3. ~ToSend(job'[t])
    BY <1>4 DEF Rests, ToSend
  <2>4. job[t].body.attempts = sends[c]
    BY <1>1, <1>4, <2>1, <2>2 DEF Fresh, Even
  <2>5. ASSUME NEW b \in 1..Len(batches)
        PROVE  batches'[b].attempts = sends'[b]
    <3>1. CASE b = c
      <4>1. CASE sends' = sends /\ row.attempts = job[t].body.attempts
        BY <2>1, <2>4, <3>1, <4>1
      <4>2. CASE /\ sends' = [sends EXCEPT ![c] = @ + 1]
                 /\ row.attempts = job[t].body.attempts + 1
        <5>1. sends'[c] = sends[c] + 1
          BY <1>0, <2>1, <4>2
        <5>. QED BY <2>1, <2>4, <3>1, <4>2, <5>1
      <4>. QED BY <1>4, <4>1, <4>2
    <3>2. CASE b # c
      <4>1. sends'[b] = sends[b]
        <5>1. sends \in [1..Len(batches) -> Nat]
          BY <1>0
        <5>2. sends' = sends \/ sends' = [sends EXCEPT ![c] = @ + 1]
          BY <1>4
        <5>. QED BY <3>2, <5>1, <5>2
      <4>2. batches[b].attempts = sends[b]
        BY <1>1, <2>2 DEF Even
      <4>. QED BY <2>1, <3>2, <4>1, <4>2
    <3>. QED BY <3>1, <3>2
  <2>6. \A b : ~OwedNext(b)
    BY <1>1, <2>3
  <2>. QED BY <2>1, <2>5, <2>6
<1>5. CASE batches' = batches /\ ~SubmitEnds(t)
  <2>1. ~ToSend(job[t])
    BY <1>5 DEF Kinds, BeginsSubmit, BeginsRetry, BeginsObserve, BeginsDrain, BeginsAdmin, Begins,
       SubmitSends, SubmitWaits, Creates, ObserveSpends, Charges, ObserveEnds,
       RetrySends, RetryWaits, RetryRefuses, RetryEnds, DrainGoesOn, SyncReads, SyncEnds, ToSend
  <2>2. CASE Creates(t)
    BY <1>2, <2>2
  <2>3. CASE RetryEnds(t)
    <3>1. Reads(job[t]) /\ Rests(job'[t])
      BY <2>3 DEF RetryEnds, Reads
    <3>2. \E row \in Batches :
                 /\ batches' = [batches EXCEPT ![job[t].batch] = row]
                 /\ \/ sends' = sends /\ row.attempts = job[t].body.attempts
                    \/ /\ sends' = [sends EXCEPT ![job[t].batch] = @ + 1]
                       /\ row.attempts = job[t].body.attempts + 1
      <4>1. Retried(job[t].body).attempts = job[t].body.attempts + 1
        BY <1>0 DEF Retried, Batches
      <4>2. NoAnswer \in Answers /\ 0 \in Nat
        BY BlankTypes
      <4>. QED BY <1>0, <2>3, <4>1, <4>2, BodyTypes DEF RetryEnds
    <3>. QED BY <1>4, <3>1, <3>2
  <2>4. CASE ~Creates(t) /\ ~RetryEnds(t)
    <3>1. sends' = sends /\ ~ToSend(job'[t])
      BY <1>5, <2>4 DEF Kinds, BeginsSubmit, BeginsRetry, BeginsObserve, BeginsDrain, BeginsAdmin,
         SubmitSends, SubmitWaits, ObserveSpends, Charges, ObserveEnds, RetrySends, RetryWaits,
         RetryRefuses, DrainGoesOn, SyncReads, SyncEnds, Frozen, Same, ToSend, ReadNow, Rests
    <3>. QED BY <1>1, <1>5, <2>1, <3>1 DEF Even
  <2>. QED BY <2>2, <2>3, <2>4
<1>6. \/ batches' = batches
      \/ Creates(t)
      \/ /\ Reads(job[t]) /\ ~Reads(job'[t]) /\ Rests(job'[t])
         /\ \E row \in Batches :
                 /\ batches' = [batches EXCEPT ![job[t].batch] = row]
                 /\ \/ sends' = sends /\ row.attempts = job[t].body.attempts
                    \/ /\ sends' = [sends EXCEPT ![job[t].batch] = @ + 1]
                       /\ row.attempts = job[t].body.attempts + 1
  BY <1>0, RowsStep
<1>. HIDE DEF EvenNext
<1>. QED BY <1>2, <1>3, <1>4, <1>5, <1>6

LEMMA SoloStep ==
  ASSUME SoloInv, [Next]_vars
  PROVE  SoloInv'
<1>1. CallInv /\ CallInv'
  BY CallInvStep DEF SoloInv
<1>2. CASE Waits
  BY <1>1, <1>2 DEF SoloInv, Waits, Frozen, Solo, Alone, Fresh, Reads, Even, Owed
<1>3. ASSUME NEW t \in Threads, Kinds(t), raced' = 0
      PROVE  Solo'
  BY <1>1, <1>3, SoloOthers, FreshStep, EvenStep DEF Solo
<1>. QED BY <1>1, <1>2, <1>3, StepKinds DEF SoloInv

LEMMA MadeAndSolo == Spec => [](MadeInv /\ SoloInv)
<1>1. Init => MadeInv /\ SoloInv
  BY MadeInit, SoloInit
<1>2. MadeInv /\ SoloInv /\ [Next]_vars => (MadeInv /\ SoloInv)'
  BY MadeStep, SoloStep
<1>. QED BY <1>1, <1>2, PTL DEF Spec

(* The attempts a batch shows were made: overlapping calls may lose one     *)
(* from the count and never add one; one at a time none is lost.            *)
THEOREM AttemptsCorrect == Spec => []AttemptsWereSent
<1>1. ASSUME MadeInv, SoloInv
      PROVE  AttemptsWereSent
  <2>. USE Counts
  <2>1. CallInv /\ raced \in Nat
    BY <1>1, BoundAssumption DEF MadeInv, CallInv, TypeInv, TypeOK
  <2>2. ASSUME quiet, NEW b \in DOMAIN batches
        PROVE  /\ batches[b].attempts <= sends[b]
               /\ ~overlapped => batches[b].attempts = sends[b]
    <3>1. ~Owed(b)
      BY <2>2 DEF quiet, Owed, ToSend
    <3>2. batches[b].attempts <= sends[b]
      BY <1>1, <2>1, <2>2, <3>1 DEF MadeInv, AtMost
    <3>3. ~overlapped => raced = 0
      BY <2>1 DEF overlapped
    <3>4. raced = 0 => batches[b].attempts = sends[b]
      BY <1>1, <2>1, <2>2, <3>1 DEF SoloInv, Solo, Even
    <3>. QED BY <3>2, <3>3, <3>4
  <2>. QED BY <2>2 DEF AttemptsWereSent
<1>. QED BY <1>1, MadeAndSolo, PTL

(* Who sends, and from where. *)
LEMMA WhoSends ==
  ASSUME CallInv, CallInv', [Next]_vars, NEW t \in Threads, Sending(t), ~overlapped'
  PROVE  Kinds(t) /\ raced' = 0 /\ ((SubmitEnds(t) /\ ToSend(job[t])) \/ RetryEnds(t))
<1>1. raced' = 0
  BY BoundAssumption DEF CallInv, TypeInv, TypeOK, overlapped
<1>2. ~Waits
  BY DEF Sending, Waits, Frozen
<1>3. PICK u \in Threads : Kinds(u)
  BY <1>2, StepKinds
<1>4. u = t
  BY <1>3, OthersStay DEF Others, Sending
<1>5. ~Creates(t)
  BY Counts, AppendProperties DEF Creates, Sending
<1>. QED BY <1>1, <1>3, <1>4, <1>5
         DEF Kinds, BeginsSubmit, BeginsRetry, BeginsObserve, BeginsDrain, BeginsAdmin,
           SubmitSends, SubmitWaits, SubmitEnds, ObserveSpends, Charges, ObserveEnds,
           RetrySends, RetryWaits, RetryRefuses, DrainGoesOn, SyncReads, SyncEnds,
           Frozen, Sending, ToSend

(* One at a time, nothing is sent on a paused connection unless a person    *)
(* forces it.                                                               *)
THEOREM PausedCorrect == Spec => PausedSendsNothing
<1>1. ASSUME SoloInv, SoloInv', [Next]_vars, NEW t \in Threads,
             Sending(t), ~overlapped', ~job[t].force
      PROVE  ~connection.paused
  <2>1. /\ CallInv /\ CallInv' /\ Kinds(t) /\ raced' = 0
        /\ (SubmitEnds(t) /\ ToSend(job[t])) \/ RetryEnds(t)
    BY <1>1, WhoSends DEF SoloInv
  <2>2. Fresh(job[t]) /\ Carries(job[t], accepted)
    BY <1>1, <2>1, SoloOthers DEF Solo, CallInv
  <2>3. CASE SubmitEnds(t) /\ ToSend(job[t])
    BY <2>2, <2>3 DEF SubmitEnds, ToSend, Fresh, Carries, Submits
  <2>4. CASE RetryEnds(t)
    BY <1>1, <2>2, <2>4 DEF RetryEnds, Fresh, Reads, Carries, Retries
  <2>. QED BY <2>1, <2>3, <2>4
<1>2. Spec => []SoloInv
  BY SoloInit, SoloStep, PTL DEF Spec
<1>3. SoloInv /\ SoloInv' /\ [Next]_vars =>
        [\A t \in Threads : Sending(t) /\ ~overlapped' /\ ~job[t].force => ~connection.paused]_vars
  BY <1>1
<1>. QED BY <1>2, <1>3, PTL DEF Spec, PausedSendsNothing

-----------------------------------------------------------------------------
(* The wait.  An instant is written without its fraction and a date is cut  *)
(* to whole seconds, so that a wait is kept to within one second.           *)

Observing(b) == \E t \in Threads : job[t].call = "observe" /\ job[t].batch = b
AskedBy(j) == Until(j.answer, j.now)

(* A deferred row names an instant at which the wait is over, unless the    *)
(* answer that asks for it is being observed.                               *)
WaitRow(b) ==
  batches[b].state = "deferred" /\ asked[b] # 0 =>
    (batches[b].next \in Nat /\ asked[b] <= batches[b].next + Second) \/ Observing(b)

WaitCall(j) ==
  /\ Reads(j) => j.now <= clock
  /\ j.call = "observe" => asked[j.batch] = AskedBy(j)
  /\ (/\ j.call \in {"retry", "drain"} /\ j.stage \in {"charging", "updating"}
      /\ j.force = FALSE /\ j.body.state = "deferred") => asked[j.batch] <= clock + Second

WaitInv ==
  /\ SoloInv
  /\ raced = 0 => /\ \A t \in Threads : WaitCall(job[t])
                  /\ \A b \in 1..Len(batches) : WaitRow(b)

(* What an instant loses when it is written, and what it does not.          *)
LEMMA IsoBounds ==
  ASSUME NEW n \in Nat
  PROVE  /\ Iso(n) \in Nat /\ Iso(n) <= n /\ n < Iso(n) + Second
         /\ n - Iso(n) \in 0..(Second - 1)
         /\ \A k \in Nat : k * Second <= n => k * Second <= Iso(n)
<1>1. Second \in Nat \ {0}
  BY PolicyAssumption
<1>. DEFINE a == n \div Second
            m == n % Second
<1>2. a \in Int /\ n = Second * a + m
  BY <1>1
<1>3. m \in Nat /\ m < Second
  BY <1>1
<1>4. Second * a \in Int /\ a * Second = Second * a /\ Iso(n) = Second * a
  BY <1>1, <1>2, <1>3 DEF Iso
<1>5. Iso(n) \in Nat
  BY InstantTypes
<1>6. ASSUME NEW k \in Nat, k * Second <= n
      PROVE  k * Second <= Iso(n)
  <2>1. k * Second < a * Second + Second
    <3>1. k * Second \in Int
      BY <1>1
    <3>. HIDE DEF a, m
    <3>. QED BY <1>1, <1>2, <1>3, <1>4, <1>6, <3>1
  <2>2. k <= a
    <3>. HIDE DEF a
    <3>. QED BY <1>1, <1>2, <2>1
  <2>3. k * Second <= a * Second
    <3>. HIDE DEF a
    <3>. QED BY <1>1, <1>2, <2>2
  <2>. QED BY <1>4, <2>3
<1>. HIDE DEF a, m
<1>. QED BY <1>1, <1>2, <1>3, <1>4, <1>5, <1>6

(* A wait the room takes on ends at most a second before the instant the    *)
(* vendor asked for, or before the end of the longest wait.                 *)
LEMMA LongEnough ==
  ASSUME NEW attempt \in Nat \ {0}, NEW answer \in Answers, NEW now \in Nat,
         NEW wait \in Schedule(attempt, answer, now) \ {Never}
  PROVE  /\ After(now, wait) \in Nat
         /\ Until(answer, now) <= After(now, wait) + Second
<1>1. wait \in Nat /\ wait # Never
  BY ScheduleType
<1>. DEFINE end == now + wait * Second
<1>2. wait * Second \in Nat /\ end \in Nat
  BY <1>1, PolicyAssumption
<1>3. After(now, wait) = Iso(end)
  BY <1>1 DEF After
<1>4. /\ answer.ask \in Nat /\ answer.form \in {"none", "seconds", "date"}
      /\ Until(answer, now) \in Nat /\ RetryAfter(answer, now) \in Nat
  BY AnswerTypes
<1>5. answer.form # "none" => ~BeyondCap(answer) /\ RetryAfter(answer, now) <= wait
  <2>1. ASSUME answer.form # "none"
        PROVE  ~BeyondCap(answer) /\ RetryAfter(answer, now) <= wait
    <3>1. ~BeyondCap(answer)
      BY <2>1 DEF Schedule
    <3>2. wait \in {RetryAfter(answer, now), Greater(RetryAfter(answer, now), Floor)}
      BY <2>1, <3>1 DEF Schedule
    <3>. QED BY <1>1, <1>4, <3>1, <3>2, PolicyAssumption DEF Greater
  <2>. QED BY <2>1
<1>. HIDE DEF end
<1>6. Iso(end) \in Nat /\ end < Iso(end) + Second /\ Second \in Nat \ {0} /\ Cap \in Nat
  BY <1>2, IsoBounds, PolicyAssumption
<1>7. ASSUME NEW n \in Nat, n <= wait
      PROVE  now + n * Second <= end /\ n * Second \in Nat
  <2>1. n * Second <= wait * Second /\ n * Second \in Nat
    BY <1>1, <1>6, <1>7
  <2>. QED BY <1>2, <2>1 DEF end
<1>8. CASE answer.form = "none"
  <2>1. Until(answer, now) = 0
    BY <1>8 DEF Until
  <2>. QED BY <1>3, <1>6, <2>1
<1>9. CASE answer.form = "seconds"
  <2>1. Lesser(answer.ask, Cap) <= wait /\ Lesser(answer.ask, Cap) \in Nat
    BY <1>1, <1>4, <1>5, <1>6, <1>9 DEF RetryAfter, Lesser
  <2>2. Until(answer, now) = now + Lesser(answer.ask, Cap) * Second
    BY <1>9 DEF Until
  <2>. QED BY <1>3, <1>4, <1>2, <1>6, <1>7, <2>1, <2>2
<1>10. CASE answer.form = "date"
  <2>. DEFINE date == answer.ask * Second
              away == (date - now) \div Second
  <2>1. date \in Nat /\ away \in Int /\ Cap * Second \in Nat
    BY <1>4, <1>6
  <2>2. date - now < away * Second + Second /\ away * Second \in Int
    <3>1. \A x \in Int : /\ x \div Second \in Int
                          /\ x < (x \div Second) * Second + Second
      BY <1>6
    <3>. HIDE DEF date
    <3>. QED BY <1>6, <2>1, <3>1
  <2>3. Until(answer, now) <= date /\ Until(answer, now) <= now + Cap * Second
    <3>1. Until(answer, now) = Lesser(date, now + Cap * Second)
      BY <1>10 DEF Until
    <3>. HIDE DEF date
    <3>. QED BY <2>1, <3>1 DEF Lesser
  <2>4. RetryAfter(answer, now) = Lesser(Greater(0, away), Cap)
    BY <1>10 DEF RetryAfter
  <2>5. CASE away < 0
    <3>1. date <= now
      <4>1. away * Second <= -Second
        <5>. HIDE DEF away
        <5>. QED BY <1>6, <2>1, <2>5
      <4>. HIDE DEF date, away
      <4>. QED BY <1>6, <2>1, <2>2, <4>1
    <3>2. now <= end
      BY <1>2 DEF end
    <3>. HIDE DEF date, away
    <3>. QED BY <1>2, <1>3, <1>4, <1>6, <2>1, <2>3, <3>1, <3>2
  <2>6. CASE away >= 0 /\ away > Cap
    <3>1. Cap <= wait
      BY <1>1, <1>5, <1>6, <1>10, <2>1, <2>4, <2>6 DEF Lesser, Greater
    <3>2. now + Cap * Second <= end
      BY <1>6, <1>7, <3>1
    <3>. HIDE DEF date, away
    <3>. QED BY <1>2, <1>3, <1>4, <1>6, <2>1, <2>3, <3>2
  <2>7. CASE away >= 0 /\ away <= Cap
    <3>1. away \in Nat /\ away <= wait
      BY <1>1, <1>5, <1>6, <1>10, <2>1, <2>4, <2>7 DEF Lesser, Greater
    <3>2. now + away * Second <= end
      BY <1>7, <3>1
    <3>3. date < end + Second
      <4>. HIDE DEF date, away
      <4>. QED BY <1>2, <1>6, <2>1, <2>2, <3>2
    <3>4. CASE answer.ask = 0
      <4>1. date = 0
        BY <1>6, <3>4
      <4>. HIDE DEF date, away
      <4>. QED BY <1>3, <1>4, <1>6, <2>3, <4>1
    <3>5. CASE answer.ask # 0
      <4>. DEFINE k == answer.ask - 1
      <4>1. k \in Nat /\ date = k * Second + Second /\ k * Second \in Nat
        BY <1>4, <1>6, <3>5
      <4>2. k * Second <= end
        <5>. HIDE DEF date, away, k
        <5>. QED BY <1>2, <1>6, <3>3, <4>1
      <4>3. k * Second <= Iso(end)
        <5>. HIDE DEF k
        <5>. QED BY <1>2, <4>1, <4>2, IsoBounds
      <4>. HIDE DEF date, away, k
      <4>. QED BY <1>3, <1>4, <1>6, <2>1, <2>3, <4>1, <4>3
    <3>. QED BY <3>4, <3>5
  <2>. QED BY <1>6, <2>1, <2>5, <2>6, <2>7
<1>. QED BY <1>4, <1>8, <1>9, <1>10

LEMMA WaitCallStep ==
  ASSUME WaitInv, CallInv', NEW t \in Threads, Kinds(t), raced' = 0
  PROVE  \A u \in Threads : WaitCall(job[u])'
<1>. USE Counts
<1>0. /\ SoloInv /\ CallInv /\ raced = 0 /\ Solo
      /\ Fresh(job[t]) /\ WaitCall(job[t]) /\ \A b \in 1..Len(batches) : WaitRow(b)
      /\ \A u \in Threads \ {t} : job'[u] = job[u] /\ job[u].call = "none"
      /\ clock \in Nat /\ clock' = clock
  <2>1. SoloInv /\ CallInv /\ clock \in Nat
    BY CallTypes DEF WaitInv, SoloInv, CallInv
  <2>2. raced = 0 /\ clock' = clock
    BY <2>1, OthersStay DEF Begins, Continues
  <2>. QED BY <2>1, <2>2, SoloOthers DEF WaitInv, Solo
<1>1. \A u \in Threads \ {t} : WaitCall(job[u])'
  BY <1>0 DEF WaitCall, Reads
<1>2. ASSUME Reads(job'[t])
      PROVE  job'[t].now <= clock
  <2>1. CASE ReadNow(job'[t])
    BY <1>0, <2>1 DEF ReadNow
  <2>2. CASE ~ReadNow(job'[t])
    <3>1. Reads(job[t])
      BY <1>0, <1>2, <2>2, ReadsStep
    <3>2. ~Rests(job'[t])
      BY <1>2 DEF CallInv, Carries, Observes, Retries, Reads, Rests
    <3>3. job'[t].now = job[t].now
      BY <1>2, <2>2, <3>1, <3>2
         DEF Kinds, BeginsSubmit, BeginsRetry, BeginsObserve, BeginsDrain, BeginsAdmin,
           SubmitSends, SubmitWaits, Creates, SubmitEnds, ObserveSpends, Charges, ObserveEnds,
           RetrySends, RetryWaits, RetryRefuses, RetryEnds, DrainGoesOn, SyncReads, SyncEnds,
           Same, Reads
    <3>. QED BY <1>0, <3>1, <3>3 DEF WaitCall
  <2>. QED BY <2>1, <2>2
<1>3. ASSUME job'[t].call = "observe"
      PROVE  asked'[job'[t].batch] = AskedBy(job'[t])
  <2>1. ~Rests(job'[t]) /\ Reads(job'[t])
    BY <1>3 DEF CallInv, Carries, Observes, Rests, Reads
  <2>2. CASE BeginsObserve(t)
    <3>1. job'[t].batch \in 1..Len(asked) /\ job'[t].now = clock
      BY <1>0, <2>2 DEF BeginsObserve, ReadNow
    <3>2. asked'[job'[t].batch] = Until(job'[t].answer, clock)
      BY <1>0, <2>2, <3>1 DEF BeginsObserve
    <3>. QED BY <3>1, <3>2 DEF AskedBy
  <2>3. CASE ~BeginsObserve(t)
    <3>1. ObserveSpends(t) \/ Charges(t)
      BY <1>3, <2>1, <2>3
         DEF Rests, Kinds, BeginsSubmit, BeginsRetry, BeginsDrain, BeginsAdmin,
           SubmitSends, SubmitWaits, Creates, SubmitEnds, ObserveEnds,
           RetrySends, RetryWaits, RetryRefuses, RetryEnds, DrainGoesOn, SyncReads, SyncEnds, Same
    <3>2. asked' = asked /\ Same(t)
      BY <3>1 DEF ObserveSpends, Charges, Frozen
    <3>. QED BY <1>0, <1>3, <3>2 DEF Same, WaitCall, AskedBy
  <2>. QED BY <2>2, <2>3
<1>4. ASSUME job'[t].call \in {"retry", "drain"}, job'[t].stage \in {"charging", "updating"},
             job'[t].force = FALSE, job'[t].body.state = "deferred"
      PROVE  asked'[job'[t].batch] <= clock + Second
  <2>1. ~Rests(job'[t])
    BY <1>4 DEF Rests
  <2>2. RetrySends(t) \/ Charges(t)
    BY <1>4, <2>1
       DEF Kinds, BeginsSubmit, BeginsRetry, BeginsObserve, BeginsDrain, BeginsAdmin, ReadNow,
         SubmitSends, SubmitWaits, Creates, SubmitEnds, ObserveSpends, ObserveEnds,
         RetryWaits, RetryRefuses, RetryEnds, DrainGoesOn, SyncReads, SyncEnds, Same
  <2>3. asked' = asked /\ Same(t) /\ job'[t].body = job[t].body
    BY <2>2 DEF RetrySends, Charges, Frozen
  <2>4. CASE RetrySends(t)
    <3>. DEFINE b == job[t].batch
    <3>1. Reads(job[t]) /\ job[t].stage # "refusing" /\ job[t].force = FALSE /\ ~Early(job[t])
      BY <1>4, <2>3, <2>4 DEF RetrySends, Reads, Same
    <3>2. b \in 1..Len(batches) /\ job[t].body = batches[b] /\ job[t].now <= clock
      BY <1>0, <3>1 DEF Fresh, WaitCall
    <3>3. ~Observing(b)
      BY <1>0, <2>4 DEF Observing, RetrySends
    <3>4. asked[b] = 0 \/ (batches[b].next \in Nat /\ asked[b] <= batches[b].next + Second)
      BY <1>0, <1>4, <2>3, <3>2, <3>3 DEF WaitRow
    <3>5. ASSUME batches[b].next \in Nat PROVE batches[b].next <= job[t].now
      <4>1. batches[b].next # Never
        BY <3>5, PolicyAssumption
      <4>2. ~(batches[b].next > job[t].now)
        BY <3>1, <3>2, <4>1 DEF Early
      <4>3. job[t].now \in Nat
        BY <1>0
      <4>. QED BY <3>5, <4>2, <4>3
    <3>6. asked[b] \in Nat /\ Second \in Nat /\ clock \in Nat /\ job[t].now \in Nat
      BY <1>0, <3>2, PolicyAssumption, BoundAssumption, CallTypes DEF CallInv, Jobs
    <3>7. asked[b] <= clock + Second
      BY <3>2, <3>4, <3>5, <3>6
    <3>. QED BY <1>0, <2>3, <3>7 DEF Same
  <2>5. CASE Charges(t)
    BY <1>0, <1>4, <2>3, <2>5 DEF Charges, Same, WaitCall
  <2>. QED BY <2>2, <2>4, <2>5
<1>5. WaitCall(job[t])'
  BY <1>0, <1>2, <1>3, <1>4 DEF WaitCall, Reads, AskedBy
<1>. QED BY <1>1, <1>5

LEMMA WaitRowStep ==
  ASSUME WaitInv, CallInv', NEW t \in Threads, Kinds(t), raced' = 0
  PROVE  \A b \in 1..Len(batches') : WaitRow(b)'
<1>. DEFINE ObservingNext(b) == job'[t].call = "observe" /\ job'[t].batch = b
            RowNext(b) == batches'[b].state = "deferred" /\ asked'[b] # 0 =>
                            (batches'[b].next \in Nat /\ asked'[b] <= batches'[b].next + Second)
                              \/ ObservingNext(b)
<1>. SUFFICES \A b \in 1..Len(batches') : RowNext(b)
  BY DEF WaitRow, Observing
<1>. USE Counts
<1>0. /\ CallInv /\ WaitCall(job[t])
      /\ \A b \in 1..Len(batches) : /\ WaitRow(b)
                                    /\ Observing(b) => job[t].call = "observe" /\ job[t].batch = b
  <2>1. SoloInv /\ CallInv
    BY DEF WaitInv, SoloInv
  <2>2. raced = 0 /\ \A u \in Threads \ {t} : job[u].call = "none"
    BY <2>1, OthersStay, SoloOthers DEF Begins, Continues
  <2>. QED BY <2>1, <2>2 DEF WaitInv, Observing
<1>1. CASE BeginsObserve(t)
  <2>1. /\ batches' = batches /\ ObservingNext(job'[t].batch)
        /\ \A b \in 1..Len(batches) : b # job'[t].batch => asked'[b] = asked[b]
        /\ job[t].call # "observe"
    BY <1>0, <1>1 DEF BeginsObserve, Begins
  <2>. QED BY <1>0, <2>1 DEF WaitRow
<1>2. CASE Creates(t)
  <2>. DEFINE last == Len(batches) + 1
  <2>1. /\ Len(batches') = last /\ asked'[last] = 0
        /\ \A b \in 1..Len(batches) : batches'[b] = batches[b] /\ asked'[b] = asked[b]
    BY <1>0, <1>2, AppendProperties DEF Creates
  <2>2. job[t].call # "observe"
    BY <1>2 DEF Creates
  <2>3. RowNext(last)
    BY <2>1
  <2>4. ASSUME NEW b \in 1..Len(batches)
        PROVE  RowNext(b)
    BY <1>0, <2>1, <2>2 DEF WaitRow
  <2>5. Len(batches) \in Nat /\ 1..Len(batches') = 1..Len(batches) \cup {last}
    BY <1>0, <2>1
  <2>. HIDE DEF RowNext
  <2>. QED BY <2>3, <2>4, <2>5
<1>3. CASE RetryRefuses(t)
  <2>1. job[t].batch \in 1..Len(batches) /\ job[t].call # "observe"
    BY <1>0, <1>3 DEF RetryRefuses, Reads
  <2>2. /\ Len(batches') = Len(batches) /\ asked'[job[t].batch] = 0
        /\ \A b \in 1..Len(batches) : b # job[t].batch => /\ batches'[b] = batches[b]
                                                          /\ asked'[b] = asked[b]
    BY <1>0, <1>3, <2>1 DEF RetryRefuses
  <2>3. ASSUME NEW b \in 1..Len(batches)
        PROVE  RowNext(b)
    <3>1. CASE b = job[t].batch
      BY <2>2, <3>1
    <3>2. CASE b # job[t].batch
      BY <1>0, <2>1, <2>2, <3>2 DEF WaitRow
    <3>. QED BY <3>1, <3>2
  <2>. QED BY <2>2, <2>3
<1>4. CASE RetryEnds(t)
  <2>1. job[t].batch \in 1..Len(batches) /\ job[t].call # "observe"
    BY <1>0, <1>4 DEF RetryEnds, Reads
  <2>2. Retried(job[t].body).state = "retrying"
    BY <1>0 DEF Retried, Batches
  <2>3. /\ Len(batches') = Len(batches) /\ batches'[job[t].batch].state = "retrying"
        /\ asked' = asked
        /\ \A b \in 1..Len(batches) : b # job[t].batch => batches'[b] = batches[b]
    BY <1>0, <1>4, <2>1, <2>2 DEF RetryEnds
  <2>. QED BY <1>0, <2>1, <2>3 DEF WaitRow
<1>5. CASE ObserveEnds(t)
  <2>. DEFINE c == job[t].batch
  <2>1. c \in 1..Len(batches) /\ asked[c] = AskedBy(job[t])
    BY <1>0, <1>5 DEF ObserveEnds, Reads, WaitCall
  <2>2. PICK row \in Batches :
          /\ batches' = [batches EXCEPT ![c] = row]
          /\ row.state = "deferred" /\ job[t].body.attempt \in Nat \ {0} =>
               \E wait \in Schedule(job[t].body.attempt, job[t].answer, job[t].now) \ {Never} :
                 row.next = After(job[t].now, wait)
    BY <1>5 DEF ObserveEnds
  <2>3. /\ Len(batches') = Len(batches) /\ asked' = asked /\ batches'[c] = row
        /\ \A b \in 1..Len(batches) : b # c => batches'[b] = batches[b]
    BY <1>0, <1>5, <2>1, <2>2 DEF ObserveEnds
  <2>4. ASSUME row.state = "deferred", asked[c] # 0
        PROVE  row.next \in Nat /\ asked[c] <= row.next + Second
    <3>1. /\ job[t].body.attempt \in Nat \ {0} /\ job[t].answer \in Answers
          /\ job[t].now \in Nat
      BY <1>0 DEF Jobs, Batches
    <3>2. PICK wait \in Schedule(job[t].body.attempt, job[t].answer, job[t].now) \ {Never} :
                 row.next = After(job[t].now, wait)
      BY <2>2, <2>4, <3>1
    <3>. QED BY <2>1, <3>1, <3>2, LongEnough DEF AskedBy
  <2>. QED BY <1>0, <2>1, <2>3, <2>4 DEF WaitRow
<1>6. CASE ~BeginsObserve(t) /\ ~Creates(t) /\ ~RetryRefuses(t) /\ ~RetryEnds(t) /\ ~ObserveEnds(t)
  <2>1. batches' = batches /\ asked' = asked
    BY <1>6 DEF Kinds, BeginsSubmit, BeginsRetry, BeginsDrain, BeginsAdmin,
       SubmitSends, SubmitWaits, SubmitEnds, ObserveSpends, Charges,
       RetrySends, RetryWaits, DrainGoesOn, SyncReads, SyncEnds, Frozen
  <2>2. job[t].call = "observe" => job'[t].call = "observe" /\ job'[t].batch = job[t].batch
    <3>1. job[t].call = "observe" => ObserveSpends(t) \/ Charges(t)
      BY <1>0, <1>6
         DEF Kinds, BeginsSubmit, BeginsRetry, BeginsDrain, BeginsAdmin, Begins,
           SubmitSends, SubmitWaits, SubmitEnds, CallInv, Carries, Observes,
           RetrySends, RetryWaits, DrainGoesOn, SyncReads, SyncEnds
    <3>. QED BY <3>1 DEF ObserveSpends, Charges, Same
  <2>. QED BY <1>0, <2>1, <2>2 DEF WaitRow
<1>. QED BY <1>1, <1>2, <1>3, <1>4, <1>5, <1>6

LEMMA WaitStep ==
  ASSUME WaitInv, [Next]_vars
  PROVE  WaitInv'
<1>1. SoloInv /\ SoloInv' /\ CallInv /\ CallInv'
  BY SoloStep, CallInvStep DEF WaitInv, SoloInv
<1>2. CASE Waits
  <2>1. \A t \in Threads : WaitCall(job[t]) => WaitCall(job[t])'
    <3>1. clock \in Nat /\ clock' \in Nat /\ clock <= clock' /\ job' = job /\ asked' = asked
      BY <1>1, <1>2, CallTypes, BoundAssumption DEF Waits, Frozen, CallInv, TypeInv, TypeOK
    <3>2. \A t \in Threads :
            /\ job[t].now \in Nat
            /\ Reads(job[t]) => job[t].batch \in 1..Len(batches) /\ asked[job[t].batch] \in Nat
      BY <1>1, Counts
    <3>. QED BY <3>1, <3>2, PolicyAssumption DEF WaitCall, Reads, AskedBy
  <2>2. \A b : WaitRow(b) => WaitRow(b)'
    BY <1>2 DEF Waits, Frozen, WaitRow, Observing
  <2>3. Len(batches') = Len(batches) /\ raced' = raced
    BY <1>2 DEF Waits, Frozen
  <2>. QED BY <1>1, <2>1, <2>2, <2>3 DEF WaitInv
<1>3. ASSUME NEW t \in Threads, Kinds(t), raced' = 0
      PROVE  WaitInv'
  BY <1>1, <1>3, WaitCallStep, WaitRowStep DEF WaitInv
<1>4. CASE raced' # 0
  BY <1>1, <1>4 DEF WaitInv
<1>. QED BY <1>1, <1>2, <1>3, <1>4, StepKinds

(* A deferral's wait is kept to within a second, whatever a second is: one  *)
(* at a time, a batch the vendor asked to wait for is never sent more than  *)
(* a second before that instant, or before the end of the longest wait the  *)
(* room takes on if the vendor named a later date, unless a person forces   *)
(* it or a refused retry has given it another wait since.                   *)
THEOREM WaitCorrect == Spec => WaitIsKept
<1>1. Init => WaitInv
  <2>. SUFFICES ASSUME Init PROVE WaitInv
    OBVIOUS
  <2>1. Len(batches) = 0 /\ \A t \in Threads : job[t] = IdleJob
    BY DEF Init
  <2>. QED BY <2>1, SoloInit DEF WaitInv, WaitCall, Reads, IdleJob
<1>2. WaitInv /\ [Next]_vars => WaitInv'
  BY WaitStep
<1>3. ASSUME WaitInv, WaitInv', [Next]_vars, NEW t \in Threads,
             Sending(t), ~overlapped', ~job[t].force,
             job[t].call \in {"retry", "drain"}, job[t].body.state = "deferred"
      PROVE  clock + Second >= asked[job[t].batch]
  <2>. USE Counts
  <2>1. SoloInv /\ CallInv /\ CallInv'
    BY <1>3 DEF WaitInv, SoloInv
  <2>2. Kinds(t) /\ raced' = 0 /\ RetryEnds(t)
    BY <1>3, <2>1, WhoSends DEF ToSend
  <2>3. raced = 0
    BY <2>2 DEF RetryEnds, Continues
  <2>4. WaitCall(job[t])
    BY <1>3, <2>3 DEF WaitInv
  <2>5. job[t].force = FALSE
    <3>1. job[t].force \in BOOLEAN
      BY <2>1 DEF Jobs
    <3>. QED BY <1>3, <3>1
  <2>6. asked[job[t].batch] <= clock + Second
    BY <1>3, <2>2, <2>4, <2>5 DEF WaitCall, RetryEnds
  <2>7. clock \in Nat /\ asked[job[t].batch] \in Nat
    BY <2>1, <2>2, CallTypes DEF RetryEnds, Reads, CallInv
  <2>. QED BY <2>6, <2>7, PolicyAssumption
<1>4. WaitInv /\ WaitInv' /\ [Next]_vars =>
        [\A t \in Threads :
           (/\ Sending(t) /\ ~overlapped' /\ ~job[t].force
            /\ job[t].call \in {"retry", "drain"} /\ job[t].body.state = "deferred")
           => clock + Second >= asked[job[t].batch]]_vars
  BY <1>3
<1>. QED BY <1>1, <1>2, <1>4, PTL DEF Spec, WaitIsKept

-----------------------------------------------------------------------------
(* The budget.  A purse is covered when its tokens and what was spent come  *)
(* from a full bucket of the largest burst, from what the rate brought, and *)
(* from the fractions of a second paid for again, `drift` ticks in all.     *)

Most(burst) == \A other \in Bursts : other <= burst
Covered(purse, spent, drift) ==
  \A burst \in Bursts :
    Most(burst) => spent + purse.tokens <= burst + Rate * (purse.updated_at + drift)

(* A refill drops a fraction of less than a second, and a write follows at  *)
(* most two refills.                                                        *)
Fraction == Second - 1
Drift(w) == 2 * Fraction * w

(* What the call is about to grant. *)
Grant(j) == j.gated /\ (j.call \in {"retry", "drain"} \/ (j.call = "submit" /\ j.body.state = "proceeding"))
Held(j) == IF Grant(j) THEN j.body.cost ELSE 0

(* What a call carries to the bucket may drift by the write it comes with. *)
BudgetCall(j) ==
  /\ j.stage = "deciding" => bucket.updated_at <= j.now /\ j.now <= clock
  /\ j.stage \in {"creating", "charging", "resizing"} =>
       Covered(j.purse, granted + Held(j), Drift(writes + 1)) /\ j.purse.updated_at <= clock
  /\ j.stage = "updating" => Covered(bucket, granted + Held(j), Drift(writes))

BudgetInv ==
  /\ SoloInv
  /\ raced = 0 => /\ Covered(bucket, granted, Drift(writes)) /\ bucket.updated_at <= clock
                  /\ \A t \in Threads : BudgetCall(job[t])

LEMMA DriftGrows ==
  ASSUME NEW w \in Nat
  PROVE  /\ Fraction \in Nat /\ Drift(w) \in Nat /\ Drift(w + 1) \in Nat
         /\ Drift(w + 1) = Drift(w) + Fraction + Fraction
<1>1. Fraction \in Nat
  BY PolicyAssumption DEF Fraction
<1>2. \A f \in Nat : 2 * f * w \in Nat /\ 2 * f * (w + 1) = 2 * f * w + f + f
  OBVIOUS
<1>. QED BY <1>1, <1>2 DEF Drift

LEMMA RateGrows ==
  ASSUME NEW m \in Nat, NEW n \in Nat, m <= n
  PROVE  /\ Rate * m \in Nat /\ Rate * n \in Nat /\ (n - m) * Rate \in Nat
         /\ Rate * n = Rate * m + (n - m) * Rate
<1>1. n - m \in Nat /\ Rate \in Nat
  BY PolicyAssumption
<1>2. \A k \in Nat : Rate * k \in Nat /\ k * Rate \in Nat
  BY PolicyAssumption
<1>3. Rate * n = Rate * m + (n - m) * Rate
  BY <1>1
<1>. QED BY <1>1, <1>2, <1>3

LEMMA CoveredMore ==
  ASSUME NEW purse \in Buckets, NEW spent \in Nat, NEW drift \in Nat, NEW more \in Nat,
         drift <= more, Covered(purse, spent, drift)
  PROVE  Covered(purse, spent, more)
<1>. SUFFICES ASSUME NEW most \in Bursts, Most(most)
              PROVE  spent + purse.tokens <= most + Rate * (purse.updated_at + more)
  BY DEF Covered
<1>. DEFINE before == Rate * (purse.updated_at + drift)
            after == Rate * (purse.updated_at + more)
            gap == ((purse.updated_at + more) - (purse.updated_at + drift)) * Rate
<1>1. spent + purse.tokens <= most + before
  BY DEF Covered
<1>2. /\ purse.tokens \in Nat /\ most \in Nat
      /\ purse.updated_at + drift \in Nat /\ purse.updated_at + more \in Nat
      /\ purse.updated_at + drift <= purse.updated_at + more
  BY PolicyAssumption DEF Buckets
<1>3. before \in Nat /\ after \in Nat /\ gap \in Nat /\ after = before + gap
  BY <1>2, RateGrows
<1>. HIDE DEF before, after, gap
<1>4. spent + purse.tokens <= most + after
  BY <1>1, <1>2, <1>3
<1>. QED BY <1>4 DEF after

(* A refill brings what the rate brought, and the fraction it drops will be *)
(* paid for again.  It loses no token of a bucket that is not over full.    *)
LEMMA RefillCovered ==
  ASSUME NEW purse \in Buckets, NEW burst \in Nat, NEW now \in Nat, NEW spent \in Nat,
         NEW drift \in Nat, purse.updated_at <= now, Covered(purse, spent, drift)
  PROVE  LET full == Refill(purse, burst, now)
         IN /\ full \in Buckets /\ full.updated_at <= now
            /\ Covered(full, spent, drift + Fraction)
            /\ burst > 0 => full.tokens <= burst
            /\ burst > 0 /\ purse.tokens <= burst => purse.tokens <= full.tokens
<1>. DEFINE tokens == purse.tokens + (now - purse.updated_at) * Rate
            full == Refill(purse, burst, now)
            kept == IF burst > 0 THEN Lesser(tokens, burst) ELSE tokens
<1>1. purse.tokens \in Nat /\ purse.updated_at \in Nat
  BY DEF Buckets
<1>2. (now - purse.updated_at) * Rate \in Nat
  BY <1>1, RateGrows
<1>3. /\ Iso(now) \in Nat /\ Iso(now) <= now /\ now <= Iso(now) + Fraction
      /\ Fraction \in Nat
  BY IsoBounds, PolicyAssumption DEF Fraction
<1>4. Greater(0, now - purse.updated_at) = now - purse.updated_at
  BY <1>1 DEF Greater
<1>5. full = [tokens |-> kept, updated_at |-> Iso(now)]
  BY <1>4 DEF Refill
<1>6. /\ tokens \in Nat /\ purse.tokens <= tokens /\ kept \in Nat /\ kept <= tokens
      /\ burst > 0 => kept <= burst
      /\ burst > 0 /\ purse.tokens <= burst => purse.tokens <= kept
  BY <1>1, <1>2 DEF Lesser
<1>7. full \in Buckets /\ full.updated_at = Iso(now) /\ full.tokens = kept
  BY <1>3, <1>5, <1>6 DEF Buckets
<1>8. Covered(full, spent, drift + Fraction)
  <2>. SUFFICES ASSUME NEW most \in Bursts, Most(most)
                PROVE  spent + kept <= most + Rate * (Iso(now) + (drift + Fraction))
    BY <1>7 DEF Covered
  <2>. DEFINE m == purse.updated_at + drift
              n == now + drift
              k == Iso(now) + (drift + Fraction)
              before == Rate * m
              then == Rate * n
              after == Rate * k
              gap == (n - m) * Rate
              rest == (k - n) * Rate
  <2>1. m \in Nat /\ n \in Nat /\ k \in Nat /\ m <= n /\ n <= k /\ n - m = now - purse.updated_at
    BY <1>1, <1>3
  <2>2. tokens = purse.tokens + gap
    BY <2>1
  <2>. HIDE DEF m, n, k, tokens, kept
  <2>3. before \in Nat /\ then \in Nat /\ gap \in Nat /\ then = before + gap
    BY <2>1, RateGrows
  <2>4. after \in Nat /\ rest \in Nat /\ after = then + rest
    BY <2>1, RateGrows
  <2>5. spent + purse.tokens <= most + before
    BY DEF Covered, m
  <2>6. most \in Nat
    BY PolicyAssumption
  <2>. HIDE DEF before, then, after, gap, rest
  <2>7. spent + kept <= most + after
    BY <1>1, <1>6, <2>2, <2>3, <2>4, <2>5, <2>6
  <2>. QED BY <2>7 DEF after, k
<1>. QED BY <1>3, <1>6, <1>7, <1>8

(* Spending once leaves the cost in the books. *)
LEMMA SpendOnce ==
  ASSUME NEW purse \in Buckets, NEW burst \in Nat, NEW now \in Nat, NEW spent \in Nat,
         NEW cost \in Nat, NEW drift \in Nat,
         purse.updated_at <= now, Covered(purse, spent, drift)
  PROVE  LET once == Spend(purse, burst, now, cost)
         IN /\ once \in Buckets /\ once.updated_at <= now
            /\ Covered(once, spent, drift + Fraction)
            /\ Refill(purse, burst, now).tokens >= cost =>
                 Covered(once, spent + cost, drift + Fraction)
<1>. DEFINE full == Refill(purse, burst, now)
            once == Spend(purse, burst, now, cost)
            room == drift + Fraction
<1>1. full \in Buckets /\ full.updated_at <= now /\ Covered(full, spent, room)
  BY RefillCovered
<1>2. full.tokens \in Nat /\ full.updated_at \in Nat
  BY <1>1 DEF Buckets
<1>3. once = [full EXCEPT !.tokens = Greater(0, full.tokens - cost)]
  BY <1>1 DEF Spend, Buckets
<1>. HIDE DEF full, once, room
<1>4. once.tokens = Greater(0, full.tokens - cost) /\ once.updated_at = full.updated_at
  BY <1>1, <1>3 DEF Buckets
<1>5. /\ once.tokens \in Nat /\ once.tokens <= full.tokens
      /\ full.tokens >= cost => once.tokens = full.tokens - cost
  BY <1>2, <1>4 DEF Greater
<1>6. once \in Buckets
  BY <1>1, <1>3, <1>5 DEF Buckets, Greater
<1>7. ASSUME NEW more \in Nat, more + once.tokens <= full.tokens
      PROVE  Covered(once, spent + more, room)
  <2>. SUFFICES ASSUME NEW most \in Bursts, Most(most)
                PROVE  spent + more + once.tokens <= most + Rate * (full.updated_at + room)
    BY <1>4 DEF Covered
  <2>. DEFINE after == Rate * (full.updated_at + room)
  <2>1. spent + full.tokens <= most + after
    BY <1>1 DEF Covered
  <2>2. most \in Nat /\ after \in Nat
    <3>1. room \in Nat
      BY PolicyAssumption DEF room, Fraction
    <3>2. after \in Nat
      BY <1>2, <3>1, PolicyAssumption
    <3>. QED BY <3>2, PolicyAssumption
  <2>. HIDE DEF after
  <2>3. spent + more + once.tokens <= most + after
    BY <1>2, <1>5, <1>7, <2>1, <2>2
  <2>. QED BY <2>3 DEF after
<1>8. Covered(once, spent, room)
  <2>1. Covered(once, spent + 0, room)
    BY <1>2, <1>5, <1>7
  <2>. QED BY <2>1
<1>9. full.tokens >= cost => Covered(once, spent + cost, room)
  BY <1>2, <1>5, <1>7
<1>. QED BY <1>1, <1>4, <1>6, <1>8, <1>9 DEF once, full, room

(* A decision refills, and its spending refills again. *)
LEMMA SpendCovered ==
  ASSUME NEW purse \in Buckets, NEW burst \in Nat, NEW now \in Nat, NEW spent \in Nat,
         NEW cost \in Nat, NEW drift \in Nat,
         purse.updated_at <= now, Covered(purse, spent, drift)
  PROVE  LET full == Refill(purse, burst, now)
             left == Spend(full, burst, now, cost)
         IN /\ left.updated_at <= now /\ Covered(left, spent, drift + Fraction + Fraction)
            /\ burst > 0 /\ full.tokens >= cost =>
                 Covered(left, spent + cost, drift + Fraction + Fraction)
<1>. DEFINE full == Refill(purse, burst, now)
            left == Spend(full, burst, now, cost)
            again == Refill(full, burst, now)
            room == drift + Fraction
<1>1. /\ full \in Buckets /\ full.updated_at <= now /\ Covered(full, spent, room)
      /\ burst > 0 => full.tokens <= burst
  BY RefillCovered
<1>2. room \in Nat
  BY PolicyAssumption DEF Fraction
<1>. HIDE DEF full, room
<1>3. again \in Buckets /\ (burst > 0 => full.tokens <= again.tokens)
  BY <1>1, <1>2, RefillCovered
<1>4. /\ left \in Buckets /\ left.updated_at <= now /\ Covered(left, spent, room + Fraction)
      /\ again.tokens >= cost => Covered(left, spent + cost, room + Fraction)
  BY <1>1, <1>2, SpendOnce
<1>5. full.tokens \in Nat /\ again.tokens \in Nat
  BY <1>1, <1>3 DEF Buckets
<1>. HIDE DEF left, again
<1>6. burst > 0 /\ full.tokens >= cost => Covered(left, spent + cost, room + Fraction)
  BY <1>3, <1>4, <1>5
<1>. QED BY <1>4, <1>6 DEF left, full, room

LEMMA CoveredLess ==
  ASSUME NEW purse \in Buckets, NEW spent \in Nat, NEW less \in Nat, NEW drift \in Nat,
         less <= spent, Covered(purse, spent, drift)
  PROVE  Covered(purse, less, drift)
<1>. SUFFICES ASSUME NEW most \in Bursts, Most(most)
              PROVE  less + purse.tokens <= most + Rate * (purse.updated_at + drift)
  BY DEF Covered
<1>. DEFINE after == Rate * (purse.updated_at + drift)
<1>1. spent + purse.tokens <= most + after
  BY DEF Covered
<1>2. purse.tokens \in Nat /\ most \in Nat /\ after \in Nat
  BY PolicyAssumption DEF Buckets
<1>. HIDE DEF after
<1>3. less + purse.tokens <= most + after
  BY <1>1, <1>2
<1>. QED BY <1>3 DEF after

LEMMA PurseTypes ==
  ASSUME CallInv
  PROVE  /\ bucket \in Buckets /\ clock \in Nat /\ granted \in Nat /\ writes \in Nat
         /\ Drift(writes) \in Nat /\ Drift(writes + 1) \in Nat
         /\ bucket.updated_at \in Nat
         /\ \A t \in Threads : /\ job[t].purse \in Buckets /\ job[t].line.burst \in Nat
                               /\ job[t].now \in Nat /\ job[t].body.cost \in Nat
                               /\ Held(job[t]) \in Nat /\ job[t].purse.updated_at \in Nat
<1>1. TypeInv
  BY DEF CallInv
<1>2. /\ bucket \in Buckets /\ clock \in Nat /\ granted \in Nat /\ writes \in Nat
      /\ \A t \in Threads : job[t] \in Jobs
  BY <1>1, CallTypes DEF TypeInv, TypeOK
<1>3. ASSUME NEW t \in Threads
      PROVE  /\ job[t].purse \in Buckets /\ job[t].line.burst \in Nat
             /\ job[t].now \in Nat /\ job[t].body.cost \in Nat
  BY <1>2, BoundAssumption DEF Jobs, Connections, Batches
<1>4. \A t \in Threads : Held(job[t]) \in Nat
  BY <1>3 DEF Held
<1>. QED BY <1>2, <1>3, <1>4, DriftGrows DEF Buckets

LEMMA BudgetKinds ==
  ASSUME BudgetInv, CallInv', NEW t \in Threads, Kinds(t), raced' = 0
  PROVE  BudgetInv'
<1>. USE PurseTypes
<1>0. /\ SoloInv /\ CallInv /\ Solo /\ SoloInv'
      /\ BudgetCall(job[t]) /\ Covered(bucket, granted, Drift(writes)) /\ bucket.updated_at <= clock
      /\ \A u \in Threads \ {t} : job'[u] = job[u] /\ job[u].stage = "idle"
      /\ clock' = clock
  <2>1. SoloInv /\ CallInv
    BY DEF BudgetInv, SoloInv
  <2>2. raced = 0 /\ clock' = clock
    BY <2>1, OthersStay DEF Begins, Continues
  <2>3. SoloInv'
    BY <2>1, SoloOthers, FreshStep, EvenStep DEF SoloInv, Solo
  <2>. QED BY <2>1, <2>2, <2>3, SoloOthers DEF BudgetInv
<1>. DEFINE Books == Covered(bucket', granted', Drift(writes')) /\ bucket'.updated_at <= clock
            CallNext(j) ==
              /\ j.stage = "deciding" => bucket'.updated_at <= j.now /\ j.now <= clock
              /\ j.stage \in {"creating", "charging", "resizing"} =>
                   /\ Covered(j.purse, granted' + Held(j), Drift(writes' + 1))
                   /\ j.purse.updated_at <= clock
              /\ j.stage = "updating" => Covered(bucket', granted' + Held(j), Drift(writes'))
<1>. SUFFICES Books /\ CallNext(job'[t])
  <2>1. \A u \in Threads \ {t} : CallNext(job'[u])
    BY <1>0
  <2>2. \A u \in Threads : BudgetCall(job[u])'
    BY <1>0, <2>1 DEF BudgetCall, Held, Grant, Drift
  <2>. QED BY <1>0, <2>2 DEF BudgetInv, Covered, Most, Drift
<1>. DEFINE j == job[t]
            k == job'[t]
<1>1. CASE books' = books /\ granted' = granted
           /\ \/ k.stage \in {"idle", "draining", "syncing", "refusing"}
              \/ k.stage = "deciding" /\ k.now = clock
  BY <1>0, <1>1 DEF books
<1>2. ASSUME books' = books, granted' = granted, j.stage = "deciding",
             k.stage \in {"creating", "charging"}, k.body.cost = j.body.cost,
             \/ /\ k.purse = Spent(j)
                /\ k.gated => j.line.burst > 0 /\ Allowed(j.line, Full(j), j.body.cost)
             \/ k.purse = Full(j) /\ ~Grant(k)
             \/ /\ k.purse = Spend(bucket, j.line.burst, j.now, j.body.cost)
                /\ ~Grant(k)
      PROVE  Books /\ CallNext(k)
  <2>. DEFINE full == Full(j)
              left == Spent(j)
              once == Spend(bucket, j.line.burst, j.now, j.body.cost)
              drift == Drift(writes)
              next == Drift(writes + 1)
  <2>0. bucket' = bucket /\ writes' = writes
    BY <1>2 DEF books
  <2>1. bucket.updated_at <= j.now /\ j.now <= clock
    BY <1>0, <1>2 DEF BudgetCall
  <2>2. /\ bucket \in Buckets /\ granted \in Nat /\ Covered(bucket, granted, drift)
        /\ j.line.burst \in Nat /\ j.now \in Nat /\ j.body.cost \in Nat
        /\ Fraction \in Nat /\ drift \in Nat /\ next \in Nat /\ next = drift + Fraction + Fraction
    BY <1>0, DriftGrows
  <2>. HIDE DEF drift, next
  <2>3. full.updated_at <= j.now /\ Covered(full, granted, next)
    <3>1. full \in Buckets /\ full.updated_at <= j.now /\ Covered(full, granted, drift + Fraction)
      BY <2>1, <2>2, RefillCovered DEF Full
    <3>. QED BY <2>2, <3>1, CoveredMore
  <2>4. once.updated_at <= j.now /\ Covered(once, granted, next)
    <3>1. once \in Buckets /\ once.updated_at <= j.now /\ Covered(once, granted, drift + Fraction)
      BY <2>1, <2>2, SpendOnce
    <3>. QED BY <2>2, <3>1, CoveredMore
  <2>5. /\ left.updated_at <= j.now /\ Covered(left, granted, next)
        /\ j.line.burst > 0 /\ full.tokens >= j.body.cost => Covered(left, granted + j.body.cost, next)
    BY <2>1, <2>2, SpendCovered DEF Full, Spent
  <2>6. \A purse \in {full, left, once} : purse.updated_at <= j.now => purse.updated_at <= clock
    <3>1. \A n \in Nat : n <= j.now => n <= clock
      BY <1>0, <2>1, <2>2
    <3>2. full.updated_at \in Nat /\ left.updated_at \in Nat /\ once.updated_at \in Nat
      <4>1. full \in Buckets
        BY <2>1, <2>2, RefillCovered DEF Full
      <4>2. left \in Buckets /\ once \in Buckets
        BY <2>2, <4>1, SpendType DEF Spent
      <4>. QED BY <4>1, <4>2 DEF Buckets
    <3>. QED BY <3>1, <3>2
  <2>. HIDE DEF full, left, once
  <2>7. CASE Grant(k)
    <3>1. k.purse = left /\ j.line.burst > 0 /\ Allowed(j.line, full, j.body.cost)
      BY <1>2, <2>7 DEF Grant, left, full
    <3>2. full.tokens >= j.body.cost
      BY <1>0, <3>1 DEF Allowed
    <3>3. Held(k) = j.body.cost
      BY <1>2, <2>7 DEF Held
    <3>4. Covered(k.purse, granted' + Held(k), Drift(writes' + 1)) /\ k.purse.updated_at <= clock
      BY <1>2, <2>0, <2>5, <2>6, <3>1, <3>2, <3>3 DEF next
    <3>5. Books
      BY <1>0, <1>2, <2>0
    <3>. QED BY <1>2, <3>4, <3>5
  <2>8. CASE ~Grant(k)
    <3>1. Held(k) = 0 /\ granted + 0 = granted
      BY <1>0, <2>8 DEF Held
    <3>2. k.purse \in {full, left, once}
      BY <1>2 DEF full, left, once
    <3>3. Covered(k.purse, granted, next) /\ k.purse.updated_at <= clock
      BY <2>3, <2>4, <2>5, <2>6, <3>2
    <3>4. Covered(k.purse, granted' + Held(k), Drift(writes' + 1))
      BY <1>2, <2>0, <3>1, <3>3 DEF next
    <3>5. Books
      BY <1>0, <1>2, <2>0
    <3>. QED BY <1>2, <3>3, <3>4, <3>5
  <2>. QED BY <2>7, <2>8
<1>3. CASE BeginsSubmit(t) \/ BeginsRetry(t) \/ BeginsObserve(t) \/ BeginsDrain(t) \/ BeginsAdmin(t)
  BY <1>1, <1>3 DEF BeginsSubmit, BeginsRetry, BeginsObserve, BeginsDrain, BeginsAdmin, Frozen, ReadNow
<1>4. CASE SubmitSends(t)
  <2>1. k.gated => j.line.burst > 0
    BY <1>4 DEF SubmitSends
  <2>. QED BY <1>2, <1>4, <2>1 DEF SubmitSends, Frozen, Same
<1>5. CASE SubmitWaits(t)
  <2>1. ~Grant(k)
    BY <1>5 DEF SubmitWaits, Same, Grant
  <2>. QED BY <1>2, <1>5, <2>1 DEF SubmitWaits, Frozen, Same
<1>6. CASE ObserveSpends(t)
  <2>1. ~Grant(k)
    BY <1>6 DEF ObserveSpends, Same, Grant
  <2>. QED BY <1>2, <1>6, <2>1 DEF ObserveSpends, Frozen, Same
<1>7. CASE RetrySends(t)
  BY <1>2, <1>7 DEF RetrySends, Frozen, Same
<1>8. CASE RetryWaits(t) \/ ObserveEnds(t) \/ RetryRefuses(t) \/ DrainGoesOn(t)
  BY <1>0, <1>1, <1>8 DEF RetryWaits, ObserveEnds, RetryRefuses, DrainGoesOn, Frozen, Rests, ReadNow
<1>9. CASE Creates(t)
  <2>1. Held(k) = Held(j)
    BY <1>9 DEF Creates, Held, Grant
  <2>2. /\ bucket' = bucket /\ writes' = writes /\ granted' = granted /\ k.purse = j.purse
        /\ k.stage = "charging" /\ j.stage = "creating"
    BY <1>9 DEF Creates, books
  <2>. QED BY <1>0, <2>1, <2>2 DEF BudgetCall
<1>10. CASE Charges(t)
  <2>1. Held(k) = Held(j)
    BY <1>10 DEF Charges, Same, Held, Grant
  <2>2. /\ bucket' = j.purse /\ writes' = writes + 1 /\ granted' = granted
        /\ k.stage = "updating" /\ j.stage = "charging"
    BY <1>10 DEF Charges, WriteBucket
  <2>3. Covered(j.purse, granted + Held(j), Drift(writes + 1)) /\ j.purse.updated_at <= clock
    BY <1>0, <2>2 DEF BudgetCall
  <2>4. Covered(j.purse, granted, Drift(writes + 1))
    BY <1>0, <2>3, CoveredLess
  <2>. QED BY <2>1, <2>2, <2>3, <2>4
<1>11. ASSUME Rests(k), Covered(bucket', granted + Held(j), Drift(writes')),
              bucket'.updated_at <= clock, bucket' \in Buckets, writes' \in Nat, granted' = granted \/ granted' = granted + Held(j)
       PROVE  Books /\ CallNext(k)
  <2>1. Covered(bucket', granted', Drift(writes'))
    <3>1. granted \in Nat /\ Held(j) \in Nat
      BY <1>0
    <3>2. granted' \in Nat /\ granted + Held(j) \in Nat /\ granted' <= granted + Held(j)
      BY <1>11, <3>1
    <3>3. Drift(writes') \in Nat
      BY <1>11, DriftGrows
    <3>. QED BY <1>11, <3>2, <3>3, CoveredLess
  <2>. QED BY <1>11, <2>1 DEF Rests
<1>12. CASE SubmitEnds(t)
  <2>1. /\ j.call = "submit" /\ j.stage = "charging" /\ bucket' = j.purse /\ Rests(k)
        /\ writes' = writes + 1
    BY <1>12 DEF SubmitEnds, WriteBucket
  <2>2. granted' = granted \/ granted' = granted + Held(j)
    <3>1. granted' = granted \/ (j.gated /\ j.body.state = "proceeding" /\ granted' = granted + j.body.cost)
      BY <1>12, Zenon DEF SubmitEnds, Grants
    <3>. QED BY <2>1, <3>1, Zenon DEF Held, Grant
  <2>. QED BY <1>0, <1>11, <2>1, <2>2 DEF BudgetCall
<1>13. CASE RetryEnds(t)
  <2>1. /\ j.call \in {"retry", "drain"} /\ j.stage = "updating" /\ bucket' = bucket /\ Rests(k)
        /\ writes' = writes
    BY <1>13 DEF RetryEnds, books
  <2>2. granted' = granted \/ granted' = granted + Held(j)
    <3>1. granted' = granted \/ (j.gated /\ granted' = granted + j.body.cost)
      BY <1>13, Zenon DEF RetryEnds, Grants
    <3>. QED BY <2>1, <3>1, Zenon DEF Held, Grant
  <2>. QED BY <1>0, <1>11, <2>1, <2>2 DEF BudgetCall
<1>14. CASE SyncReads(t)
  <2>1. ~Grant(k)
    BY <1>14 DEF SyncReads, Grant
  <2>2. /\ bucket' = bucket /\ writes' = writes /\ granted' = granted /\ k.stage = "resizing"
        /\ k.purse = Refill(bucket, j.line.burst, clock)
    BY <1>14 DEF SyncReads, Frozen, books
  <2>3. Held(k) = 0 /\ granted + 0 = granted
    BY <1>0, <2>1 DEF Held
  <2>4. Covered(k.purse, granted, Drift(writes + 1)) /\ k.purse.updated_at <= clock
    <3>1. /\ k.purse \in Buckets /\ k.purse.updated_at <= clock
          /\ Covered(k.purse, granted, Drift(writes) + Fraction)
      <4>1. /\ bucket \in Buckets /\ j.line.burst \in Nat /\ clock \in Nat /\ granted \in Nat
            /\ Drift(writes) \in Nat /\ bucket.updated_at <= clock
            /\ Covered(bucket, granted, Drift(writes))
        BY <1>0
      <4>. QED BY <2>2, <4>1, RefillCovered
    <3>2. Drift(writes) + Fraction <= Drift(writes + 1) /\ Drift(writes) + Fraction \in Nat
      BY <1>0, DriftGrows
    <3>. QED BY <1>0, <3>1, <3>2, CoveredMore
  <2>. QED BY <1>0, <2>2, <2>3, <2>4
<1>15. CASE SyncEnds(t)
  <2>1. /\ j.stage = "resizing" /\ bucket' = j.purse /\ Rests(k) /\ granted' = granted
        /\ writes' = writes + 1
    BY <1>15 DEF SyncEnds, WriteBucket
  <2>. QED BY <1>0, <1>11, <2>1 DEF BudgetCall
<1>. HIDE DEF Books, CallNext
<1>. QED BY <1>3, <1>4, <1>5, <1>6, <1>7, <1>8, <1>9, <1>10, <1>12, <1>13, <1>14, <1>15 DEF Kinds

LEMMA BudgetStep ==
  ASSUME BudgetInv, [Next]_vars
  PROVE  BudgetInv'
<1>1. SoloInv /\ SoloInv' /\ CallInv /\ CallInv'
  BY SoloStep, CallInvStep DEF BudgetInv, SoloInv
<1>2. CASE Waits
  <2>1. clock \in Nat /\ clock' \in Nat /\ clock <= clock' /\ UNCHANGED <<job, raced, bucket, writes, granted>>
    BY <1>1, <1>2, PurseTypes, BoundAssumption DEF Waits, Frozen, books, CallInv, TypeInv, TypeOK
  <2>2. bucket.updated_at \in Nat /\ \A t \in Threads : job[t].now \in Nat /\ job[t].purse.updated_at \in Nat
    BY <1>1, PurseTypes
  <2>3. \A t \in Threads : BudgetCall(job[t]) => BudgetCall(job[t])'
    BY <2>1, <2>2 DEF BudgetCall, Held, Grant, Covered, Drift
  <2>4. Covered(bucket, granted, Drift(writes)) => Covered(bucket, granted, Drift(writes))'
    BY <2>1 DEF Covered, Drift
  <2>. QED BY <1>1, <2>1, <2>2, <2>3, <2>4 DEF BudgetInv
<1>3. ASSUME NEW t \in Threads, Kinds(t), raced' = 0
      PROVE  BudgetInv'
  BY <1>1, <1>3, BudgetKinds
<1>4. CASE raced' # 0
  BY <1>1, <1>4 DEF BudgetInv
<1>. QED BY <1>1, <1>2, <1>3, <1>4, StepKinds

(* The bucket stops the sending, whatever a second is: served one at a      *)
(* time, the tokens granted to sends and those left never exceed the        *)
(* largest burst, what the rate brought, and what less than two seconds for *)
(* every write of the bucket bring.                                         *)
THEOREM BudgetCorrect == Spec => []SpendsWithinBudget
<1>1. Init => BudgetInv
  <2>. SUFFICES ASSUME Init PROVE BudgetInv
    OBVIOUS
  <2>1. PICK burst \in Bursts : bucket = [tokens |-> burst, updated_at |-> 0]
    BY DEF Init
  <2>2. granted = 0 /\ clock = 0 /\ writes = 0 /\ bucket.tokens = burst /\ bucket.updated_at = 0
    BY <2>1 DEF Init
  <2>3. Covered(bucket, granted, Drift(writes))
    <3>1. Drift(0) = 0
      <4>1. Fraction \in Nat /\ \A n \in Nat : 2 * n * 0 = 0
        BY PolicyAssumption DEF Fraction
      <4>. QED BY <4>1 DEF Drift
    <3>2. Bursts \subseteq Nat /\ Rate * (0 + 0) = 0
      BY PolicyAssumption
    <3>. QED BY <2>2, <3>1, <3>2 DEF Covered, Most
  <2>4. \A t \in Threads : job[t] = IdleJob
    BY DEF Init
  <2>. QED BY <2>2, <2>3, <2>4, SoloInit DEF BudgetInv, BudgetCall, IdleJob
<1>2. BudgetInv /\ [Next]_vars => BudgetInv'
  BY BudgetStep
<1>3. ASSUME BudgetInv PROVE SpendsWithinBudget
  <2>. DEFINE drift == Drift(writes)
  <2>. SUFFICES ASSUME ~overlapped, NEW burst \in Bursts, Most(burst)
                PROVE  granted + bucket.tokens <= burst + Rate * (clock + drift)
    BY DEF SpendsWithinBudget, Most, Drift, Fraction
  <2>1. CallInv /\ raced = 0
    BY <1>3, BoundAssumption DEF BudgetInv, SoloInv, CallInv, TypeInv, TypeOK, overlapped
  <2>2. /\ granted + bucket.tokens <= burst + Rate * (bucket.updated_at + drift)
        /\ bucket.updated_at <= clock
    BY <1>3, <2>1 DEF BudgetInv, Covered
  <2>3. /\ granted \in Nat /\ bucket.tokens \in Nat /\ bucket.updated_at \in Nat /\ clock \in Nat
        /\ burst \in Nat /\ drift \in Nat
    BY <2>1, PurseTypes, PolicyAssumption DEF Buckets
  <2>. HIDE DEF drift
  <2>. DEFINE m == bucket.updated_at + drift
              n == clock + drift
              then == Rate * m
              now == Rate * n
              gap == (n - m) * Rate
  <2>4. then \in Nat /\ now \in Nat /\ gap \in Nat /\ now = then + gap
    <3>1. m \in Nat /\ n \in Nat /\ m <= n
      BY <2>2, <2>3
    <3>. HIDE DEF m, n
    <3>. QED BY <3>1, RateGrows
  <2>5. granted + bucket.tokens <= burst + then
    BY <2>2
  <2>. HIDE DEF then, now, gap
  <2>6. granted + bucket.tokens <= burst + now
    BY <2>3, <2>4, <2>5
  <2>. QED BY <2>6 DEF now
<1>. QED BY <1>1, <1>2, <1>3, PTL DEF Spec
=============================================================================
