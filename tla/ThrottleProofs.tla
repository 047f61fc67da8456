--------------------------- MODULE ThrottleProofs ---------------------------
(***************************************************************************)
(* Theorems about Throttle for every policy, set of threads and number of  *)
(* batches, calls and ticks.                                               *)
(***************************************************************************)
EXTENDS Throttle, SequenceTheorems, TLAPS

(* A call is about a batch that has a row, once it has come to the row. *)
Named(j) == \/ j.stage \in {"charging", "updating", "refusing"}
            \/ j.stage = "deciding" /\ j.call # "submit"

Fits(j) ==
  /\ Named(j) => j.batch # 0
  /\ j.stage = "creating" => j.call = "submit"
  /\ j.stage = "refusing" => j.call \in {"retry", "drain"}

CallsFit == \A t \in Threads : Fits(job[t])

TypeInv == TypeOK /\ CallsFit

-----------------------------------------------------------------------------
(* What the helpers return. *)

LEMMA InstantTypes ==
  ASSUME NEW n \in Nat
  PROVE  /\ Iso(n) \in Nat
         /\ \A wait \in Nat \cup {Never} : After(n, wait) \in Instants
<1>1. \A m \in Nat : Iso(m) \in Nat
  BY PolicyAssumption DEF Iso
<1>2. \A wait \in Nat : n + wait * Second \in Nat
  BY PolicyAssumption
<1>. QED BY <1>1, <1>2 DEF After, Instants

LEMMA RefillType ==
  ASSUME NEW purse \in Buckets, NEW burst \in Nat, NEW now \in Nat
  PROVE  Refill(purse, burst, now) \in Buckets
<1>. DEFINE gap == Greater(0, now - purse.updated_at)
            tokens == purse.tokens + gap * Rate
<1>1. gap \in Nat /\ purse.tokens \in Nat
  BY DEF Greater, Buckets
<1>2. gap * Rate \in Nat
  BY <1>1, PolicyAssumption
<1>3. tokens \in Nat /\ Iso(now) \in Nat
  BY <1>1, <1>2, InstantTypes
<1>4. (IF burst > 0 THEN Lesser(tokens, burst) ELSE tokens) \in Nat
  BY <1>3 DEF Lesser
<1>. QED BY <1>3, <1>4 DEF Refill, Buckets

LEMMA SpendType ==
  ASSUME NEW purse \in Buckets, NEW burst \in Nat, NEW now \in Nat, NEW cost \in Nat
  PROVE  Spend(purse, burst, now, cost) \in Buckets
<1>. DEFINE full == Refill(purse, burst, now)
<1>1. full \in Buckets
  BY RefillType
<1>2. Greater(0, full.tokens - cost) \in Nat
  BY <1>1 DEF Greater, Buckets
<1>3. Spend(purse, burst, now, cost) = [full EXCEPT !.tokens = Greater(0, full.tokens - cost)]
  BY <1>1 DEF Spend, Buckets
<1>. QED BY <1>1, <1>2, <1>3 DEF Buckets

LEMMA AnswerTypes ==
  ASSUME NEW answer \in Answers, NEW now \in Nat
  PROVE  /\ answer.ask \in Nat /\ answer.form \in {"none", "seconds", "date"}
         /\ RetryAfter(answer, now) \in Nat
         /\ Until(answer, now) \in Nat
<1>1. answer.ask \in Nat /\ answer.form \in {"none", "seconds", "date"}
  <2>1. CASE answer \in [kind : {"accepted", "unknown"} \cup Signals, form : {"none"}, ask : {0}]
    BY <2>1
  <2>2. CASE answer \in [kind : Signals, form : {"seconds"}, ask : Asks]
    BY <2>2, PolicyAssumption
  <2>3. CASE answer \in [kind : Signals, form : {"date"}, ask : Dates]
    BY <2>3, PolicyAssumption
  <2>. QED BY <2>1, <2>2, <2>3 DEF Answers
<1>2. /\ answer.ask * Second \in Nat /\ Cap * Second \in Nat
      /\ Lesser(answer.ask, Cap) \in Nat
  BY <1>1, PolicyAssumption DEF Lesser
<1>3. RetryAfter(answer, now) \in Nat
  <2>1. (answer.ask * Second - now) \div Second \in Int
    BY <1>2, PolicyAssumption
  <2>. QED BY <1>1, <2>1, PolicyAssumption DEF RetryAfter, Lesser, Greater
<1>4. Until(answer, now) \in Nat
  <2>1. Lesser(answer.ask, Cap) * Second \in Nat
    BY <1>2, PolicyAssumption
  <2>2. CASE answer.form = "none"
    BY <2>2 DEF Until
  <2>3. CASE answer.form = "seconds"
    <3>1. Until(answer, now) = now + Lesser(answer.ask, Cap) * Second
      BY <2>3 DEF Until
    <3>. QED BY <2>1, <3>1
  <2>4. CASE answer.form = "date"
    <3>1. Until(answer, now) = Lesser(answer.ask * Second, now + Cap * Second)
      BY <2>4 DEF Until
    <3>. QED BY <1>2, <3>1 DEF Lesser
  <2>. QED BY <1>1, <2>2, <2>3, <2>4
<1>. QED BY <1>1, <1>3, <1>4

LEMMA ScheduleType ==
  ASSUME NEW attempt \in Nat \ {0}, NEW answer \in Answers, NEW now \in Nat
  PROVE  Schedule(attempt, answer, now) \subseteq Nat \cup {Never}
<1>. DEFINE ladder == Ladder(attempt)
            half == ladder \div 2
<1>1. CASE answer.form # "none"
  <2>1. RetryAfter(answer, now) \in Nat
    BY AnswerTypes
  <2>. QED BY <1>1, <2>1, PolicyAssumption DEF Schedule, Greater
<1>2. CASE answer.form = "none"
  <2>0. ~BeyondCap(answer)
    BY <1>2 DEF BeyondCap
  <2>1. ladder \in Int
    <3>1. 2 ^ (attempt - 1) \in Int
      OBVIOUS
    <3>. QED BY <3>1, PolicyAssumption DEF Ladder, Lesser
  <2>2. CASE ladder < Floor
    BY <1>2, <2>0, <2>2, PolicyAssumption DEF Schedule
  <2>3. CASE ~(ladder < Floor)
    <3>1. ladder \in Nat
      BY <2>1, <2>3, PolicyAssumption
    <3>2. half \in Nat
      BY <3>1
    <3>3. half..(half + Greater(half, 1) - 1) \subseteq Nat
      BY <3>2 DEF Greater
    <3>. QED BY <1>2, <2>0, <2>3, <3>3 DEF Schedule
  <2>. QED BY <2>2, <2>3
<1>. QED BY <1>1, <1>2

LEMMA WaitType ==
  ASSUME NEW line \in Connections, NEW purse \in Buckets, NEW cost \in Nat
  PROVE  WaitFor(line, purse, cost) \in Nat \cup {Never}
<1>1. CASE line.paused
  BY <1>1 DEF WaitFor
<1>2. CASE ~line.paused /\ Rate = 0
  BY <1>2 DEF WaitFor
<1>3. CASE ~line.paused /\ Rate # 0
  <2>1. Rate * Second \in Nat \ {0}
    BY <1>3, PolicyAssumption
  <2>2. purse.tokens \in Nat
    BY DEF Buckets
  <2>3. (cost - purse.tokens + Rate * Second - 1) \div (Rate * Second) \in Int
    BY <2>1, <2>2
  <2>. QED BY <1>3, <2>3 DEF WaitFor, Greater
<1>. QED BY <1>1, <1>2, <1>3

LEMMA BlankTypes ==
  /\ NoAnswer \in Answers
  /\ NoBatch \in Batches
  /\ IdleJob \in Jobs
  /\ Fits(IdleJob)
<1>1. NoAnswer \in Answers
  BY DEF NoAnswer, Answers, Signals
<1>2. NoBatch \in Batches /\ NoPurse \in Buckets /\ NoLine \in Connections
  BY DEF NoBatch, Batches, States, Instants, NoPurse, Buckets, NoLine, Connections
<1>3. IdleJob \in Jobs
  BY <1>1, <1>2, BoundAssumption DEF IdleJob, Jobs, Calls, Stages
<1>4. Fits(IdleJob)
  BY DEF IdleJob, Fits, Named
<1>. QED BY <1>1, <1>2, <1>3, <1>4

LEMMA BodyTypes ==
  ASSUME NEW body \in Batches, NEW answer \in Answers, NEW now \in Nat,
         NEW wait \in Nat \cup {Never}
  PROVE  /\ Settled(body, answer) \in Batches
         /\ Deferred(body, wait, now) \in Batches
         /\ Retried(body) \in Batches
         /\ [body EXCEPT !.state = "deferred", !.next = After(now, wait)] \in Batches
<1>1. After(now, wait) \in Instants /\ Never \in Instants
  BY InstantTypes DEF Instants
<1>2. body.attempt + 1 \in Nat \ {0} /\ body.attempts + 1 \in Nat
  BY DEF Batches
<1>3. Settled(body, answer) \in Batches
  BY <1>1 DEF Settled, Batches, States
<1>4. Deferred(body, wait, now) \in Batches
  <2>1. (IF wait = Never \/ body.attempt >= MaxAttempts THEN "needs_action" ELSE "deferred") \in States
    BY DEF States
  <2>. QED BY <1>1, <1>2, <2>1 DEF Deferred, Batches
<1>5. Retried(body) \in Batches
  BY <1>1, <1>2 DEF Retried, Batches, States
<1>6. [body EXCEPT !.state = "deferred", !.next = After(now, wait)] \in Batches
  BY <1>1 DEF Batches, States
<1>. QED BY <1>3, <1>4, <1>5, <1>6

-----------------------------------------------------------------------------
(* Type correctness. *)

(* The batch a call is about and those a drain has to retry have rows. *)
Placed(j, count) == j.batch \in 0..count /\ j.todo \subseteq 1..count

LEMMA BatchCount == TypeOK => Len(batches) \in Nat /\ DOMAIN batches = 1..Len(batches)
BY DEF TypeOK

(* A thread moves on to a call that fits, the others stay where they are. *)
LEMMA CallStep ==
  ASSUME TypeInv, NEW t \in Threads, NEW next \in Jobs, NEW count \in Nat,
         job' = [job EXCEPT ![t] = next], Fits(next), Placed(next, count),
         Len(batches) <= count
  PROVE  /\ job' \in [Threads -> Jobs]
         /\ \A u \in Threads : Placed(job'[u], count)
         /\ CallsFit'
<1>1. job \in [Threads -> Jobs] /\ \A u \in Threads : Fits(job[u])
  BY DEF TypeInv, TypeOK, CallsFit
<1>2. job' \in [Threads -> Jobs]
  BY <1>1
<1>3. ASSUME NEW u \in Threads
      PROVE  Placed(job'[u], count) /\ Fits(job'[u])
  <2>1. Placed(job[u], count)
    BY BatchCount DEF TypeInv, TypeOK, Placed
  <2>. QED BY <1>1, <2>1
<1>. QED BY <1>2, <1>3 DEF CallsFit

LEMMA GoesStep ==
  ASSUME TypeInv, NEW t \in Threads, NEW next \in Jobs, Fits(next),
         Placed(next, Len(batches)), Goes(t, next), batches' = batches
  PROVE  /\ job' \in [Threads -> Jobs]
         /\ \A u \in Threads : Placed(job'[u], Len(batches'))
         /\ DOMAIN batches' = 1..Len(batches')
         /\ CallsFit'
<1>1. Len(batches) \in Nat /\ DOMAIN batches = 1..Len(batches)
  BY BatchCount DEF TypeInv
<1>2. job' = [job EXCEPT ![t] = next]
  BY DEF Goes
<1>3. /\ job' \in [Threads -> Jobs]
      /\ \A u \in Threads : Placed(job'[u], Len(batches))
      /\ CallsFit'
  <2>1. PICK count \in Nat : count = Len(batches)
    BY <1>1
  <2>2. Len(batches) <= count
    BY <1>1, <2>1
  <2>3. Placed(next, count)
    BY <2>1
  <2>4. \A u \in Threads : Placed(job'[u], count)
    BY <1>2, <2>2, <2>3, CallStep
  <2>5. job' \in [Threads -> Jobs] /\ CallsFit'
    BY <1>2, <2>2, <2>3, CallStep
  <2>. QED BY <2>1, <2>4, <2>5
<1>. QED BY <1>1, <1>3

LEMMA StartStep ==
  ASSUME TypeInv, NEW t \in Threads, NEW call \in Jobs, Fits(call),
         Placed(call, Len(batches)), Start(t, call), batches' = batches
  PROVE  /\ job' \in [Threads -> Jobs]
         /\ \A u \in Threads : Placed(job'[u], Len(batches'))
         /\ DOMAIN batches' = 1..Len(batches')
         /\ CallsFit'
         /\ calls' \in 0..MaxCalls
         /\ raced' \in 0..MaxRaced
<1>1. Len(batches) \in Nat /\ DOMAIN batches = 1..Len(batches)
  BY BatchCount DEF TypeInv
<1>2. calls' \in 0..MaxCalls /\ raced' \in 0..MaxRaced
  BY BoundAssumption DEF Start, TypeInv, TypeOK
<1>3. job' = [job EXCEPT ![t] = call]
  BY DEF Start
<1>4. /\ job' \in [Threads -> Jobs]
      /\ \A u \in Threads : Placed(job'[u], Len(batches))
      /\ CallsFit'
  <2>1. PICK count \in Nat : count = Len(batches)
    BY <1>1
  <2>2. Len(batches) <= count
    BY <1>1, <2>1
  <2>3. Placed(call, count)
    BY <2>1
  <2>4. \A u \in Threads : Placed(job'[u], count)
    BY <1>3, <2>2, <2>3, CallStep
  <2>5. job' \in [Threads -> Jobs] /\ CallsFit'
    BY <1>3, <2>2, <2>3, CallStep
  <2>. QED BY <2>1, <2>4, <2>5
<1>. QED BY <1>1, <1>2, <1>4

(* What a thread does after a call: nothing, or the rest of its drain. *)
RestOf(t) == IF job[t].call = "drain" THEN [IdleJob EXCEPT !.call = "drain",
                                              !.stage = "draining", !.todo = job[t].todo]
             ELSE IdleJob

LEMMA OverStep ==
  ASSUME TypeInv, NEW t \in Threads, Over(t), NEW count \in Nat, Len(batches) <= count
  PROVE  /\ job' \in [Threads -> Jobs]
         /\ \A u \in Threads : Placed(job'[u], count)
         /\ CallsFit'
<1>1. /\ job[t] \in Jobs /\ Placed(job[t], Len(batches)) /\ Len(batches) \in Nat
  BY BatchCount DEF TypeInv, TypeOK, Placed
<1>2. RestOf(t) \in Jobs /\ Fits(RestOf(t)) /\ Placed(RestOf(t), count)
  <2>1. Placed(IdleJob, count)
    BY DEF Placed, IdleJob
  <2>2. CASE job[t].call = "drain"
    <3>1. RestOf(t) = [IdleJob EXCEPT !.call = "drain", !.stage = "draining", !.todo = job[t].todo]
      BY <2>2 DEF RestOf
    <3>2. RestOf(t) \in Jobs
      BY <1>1, <3>1, BlankTypes DEF Jobs, Calls, Stages
    <3>3. Fits(RestOf(t)) /\ Placed(RestOf(t), count)
      BY <1>1, <2>1, <3>1 DEF Fits, Named, Placed, IdleJob
    <3>. QED BY <3>2, <3>3
  <2>3. CASE job[t].call # "drain"
    BY <2>1, <2>3, BlankTypes DEF RestOf
  <2>. QED BY <2>2, <2>3
<1>3. job' = [job EXCEPT ![t] = RestOf(t)]
  BY DEF Over, Goes, RestOf
<1>. QED BY <1>1, <1>2, <1>3, CallStep

LEMMA CounterStep ==
  ASSUME NEW counts \in Seq(Nat), NEW b \in 1..Len(counts), NEW n \in Nat
  PROVE  /\ [counts EXCEPT ![b] = n] \in Seq(Nat)
         /\ Len([counts EXCEPT ![b] = n]) = Len(counts)
         /\ counts[b] \in Nat
BY ExceptSeq

LEMMA SendTypes ==
  ASSUME TypeInv, NEW t \in Threads, NEW b \in 1..Len(batches), Send(t, b)
  PROVE  /\ in_flight' \in Seq(Nat) /\ Len(in_flight') = Len(batches)
         /\ sends' \in Seq(Nat) /\ Len(sends') = Len(batches)
         /\ granted' \in Nat /\ UNCHANGED <<asked, accepted>>
<1>1. /\ in_flight \in Seq(Nat) /\ Len(in_flight) = Len(batches)
      /\ sends \in Seq(Nat) /\ Len(sends) = Len(batches)
      /\ granted \in Nat /\ job[t] \in Jobs
  BY DEF TypeInv, TypeOK
<1>2. in_flight[b] + 1 \in Nat /\ sends[b] + 1 \in Nat
  BY <1>1
<1>3. in_flight' = [in_flight EXCEPT ![b] = in_flight[b] + 1]
      /\ sends' = [sends EXCEPT ![b] = sends[b] + 1]
  BY <1>1 DEF Send
<1>4. granted' \in Nat
  <2>1. job[t].body \in Batches
    BY <1>1 DEF Jobs
  <2>2. job[t].body.cost \in Nat
    BY <2>1 DEF Batches
  <2>3. granted' = granted \/ granted' = granted + job[t].body.cost
    BY Zenon DEF Send
  <2>4. granted \in Nat
    BY <1>1
  <2>5. granted + job[t].body.cost \in Nat
    BY <2>2, <2>4
  <2>. QED BY <2>3, <2>4, <2>5, Zenon
<1>. QED BY <1>1, <1>2, <1>3, <1>4, CounterStep DEF Send

LEMMA WriteTypes ==
  ASSUME TypeInv, NEW t \in Threads, WriteBucket(t)
  PROVE  bucket' \in Buckets /\ writes' \in Nat
BY DEF TypeInv, TypeOK, WriteBucket, Jobs

LEMMA InitType == Init => TypeInv
<1>. SUFFICES ASSUME Init PROVE TypeInv
  OBVIOUS
<1>1. PICK burst \in Bursts : /\ connection = [burst |-> burst, paused |-> FALSE]
                             /\ bucket = [tokens |-> burst, updated_at |-> 0]
  BY DEF Init
<1>2. connection \in Connections /\ bucket \in Buckets
  BY <1>1, PolicyAssumption DEF Connections, Buckets
<1>3. /\ <<>> \in Seq(Batches) /\ <<>> \in Seq(Nat) /\ Len(<<>>) = 0
  OBVIOUS
<1>4. job \in [Threads -> Jobs] /\ \A t \in Threads : job[t] = IdleJob
  BY BlankTypes DEF Init
<1>5. \A t \in Threads : job[t].batch \in 0..Len(batches) /\ job[t].todo \subseteq DOMAIN batches
  BY <1>3, <1>4 DEF Init, IdleJob
<1>6. CallsFit
  BY <1>4, BlankTypes DEF CallsFit
<1>7. /\ clock \in 0..MaxClock /\ calls \in 0..MaxCalls /\ raced \in 0..MaxRaced
      /\ granted \in Nat /\ writes \in Nat
  BY BoundAssumption DEF Init
<1>8. accepted \subseteq DOMAIN batches
  BY DEF Init
<1>. QED BY <1>2, <1>3, <1>4, <1>5, <1>6, <1>7, <1>8 DEF Init, TypeInv, TypeOK

(* Every step keeps every variable in its type and every call fitting. *)
LEMMA TypeStep ==
  ASSUME TypeInv, [Next]_vars
  PROVE  TypeInv'
<1>. USE BlankTypes
<1>0. /\ job \in [Threads -> Jobs] /\ connection \in Connections /\ bucket \in Buckets
      /\ batches \in Seq(Batches) /\ Len(batches) \in Nat /\ DOMAIN batches = 1..Len(batches)
      /\ clock \in 0..MaxClock /\ clock \in Nat
      /\ \A t \in Threads : /\ job[t] \in Jobs /\ Fits(job[t]) /\ Placed(job[t], Len(batches))
                           /\ job[t].batch \in Nat /\ job[t].now \in Nat
                           /\ job[t].body \in Batches /\ job[t].line \in Connections
                           /\ job[t].purse \in Buckets /\ job[t].answer \in Answers
                           /\ job[t].line.burst \in Nat /\ job[t].body.cost \in Nat
  <2>1. /\ job \in [Threads -> Jobs] /\ connection \in Connections /\ bucket \in Buckets
        /\ batches \in Seq(Batches) /\ Len(batches) \in Nat /\ DOMAIN batches = 1..Len(batches)
        /\ clock \in 0..MaxClock /\ clock \in Nat
    BY BatchCount, BoundAssumption DEF TypeInv, TypeOK
  <2>2. ASSUME NEW t \in Threads
        PROVE  /\ job[t] \in Jobs /\ Fits(job[t]) /\ Placed(job[t], Len(batches))
               /\ job[t].batch \in Nat /\ job[t].now \in Nat
               /\ job[t].body \in Batches /\ job[t].line \in Connections
               /\ job[t].purse \in Buckets /\ job[t].answer \in Answers
               /\ job[t].line.burst \in Nat /\ job[t].body.cost \in Nat
    <3>1. job[t] \in Jobs /\ Fits(job[t]) /\ Placed(job[t], Len(batches))
      BY <2>1 DEF TypeInv, TypeOK, CallsFit, Placed
    <3>2. /\ job[t].batch \in Nat /\ job[t].now \in Nat
          /\ job[t].body \in Batches /\ job[t].line \in Connections
          /\ job[t].purse \in Buckets /\ job[t].answer \in Answers
      BY <3>1, BoundAssumption DEF Jobs
    <3>. QED BY <3>1, <3>2 DEF Batches, Connections
  <2>. QED BY <2>1, <2>2
<1>1. CASE Tick
  <2>1. clock' \in 0..MaxClock
    BY <1>0, <1>1, BoundAssumption DEF Tick
  <2>. QED BY <1>1, <2>1 DEF Tick, TypeInv, TypeOK, CallsFit, records, books, history
<1>2. ASSUME NEW t \in Threads, NEW cost \in Costs, Submit(t, cost)
      PROVE  TypeInv'
  <2>. DEFINE call == [IdleJob EXCEPT !.call = "submit", !.stage = "deciding", !.line = connection,
                                      !.now = clock, !.body = [NoBatch EXCEPT !.cost = cost]]
  <2>1. [NoBatch EXCEPT !.cost = cost] \in Batches
    BY PolicyAssumption DEF NoBatch, Batches
  <2>2. call \in Jobs
    BY <1>0, <2>1 DEF Jobs, Calls, Stages
  <2>3. Fits(call) /\ Placed(call, Len(batches))
    BY <1>0 DEF Fits, Named, Placed, IdleJob
  <2>4. Start(t, call) /\ UNCHANGED <<clock, records, in_flight, history>>
    BY <1>2 DEF Submit
  <2>. HIDE DEF call
  <2>. QED BY <2>2, <2>3, <2>4, StartStep DEF TypeInv, TypeOK, Placed, records, books, history
<1>3. ASSUME NEW t \in Threads, SubmitDecide(t)
      PROVE  TypeInv'
  <2>. DEFINE line == job[t].line
              cost == job[t].body.cost
              purse == Refill(bucket, line.burst, job[t].now)
              go == [job[t] EXCEPT
                       !.stage = "creating", !.gated = line.burst > 0,
                       !.purse = Spend(purse, line.burst, job[t].now, cost),
                       !.body = [@ EXCEPT !.attempts = 1, !.next = Iso(job[t].now)]]
              wait(w) == [job[t] EXCEPT
                       !.stage = "creating", !.purse = purse,
                       !.body = [@ EXCEPT !.state = "deferred", !.next = After(job[t].now, w)]]
  <2>0. job[t].call = "submit" /\ UNCHANGED <<still, records, in_flight, raced, history>>
    BY <1>3 DEF SubmitDecide
  <2>1. purse \in Buckets /\ Spend(purse, line.burst, job[t].now, cost) \in Buckets
    BY <1>0, RefillType, SpendType
  <2>2. [job[t].body EXCEPT !.attempts = 1, !.next = Iso(job[t].now)] \in Batches
    BY <1>0, InstantTypes DEF Batches, Instants
  <2>3. go \in Jobs /\ Fits(go) /\ Placed(go, Len(batches))
    <3>1. go = [job[t] EXCEPT
                  !.stage = "creating", !.gated = line.burst > 0,
                  !.purse = Spend(purse, line.burst, job[t].now, cost),
                  !.body = [job[t].body EXCEPT !.attempts = 1, !.next = Iso(job[t].now)]]
      BY <1>0 DEF Jobs
    <3>2. (line.burst > 0) \in BOOLEAN
      OBVIOUS
    <3>3. go \in Jobs
      BY <1>0, <2>1, <2>2, <3>1, <3>2 DEF Jobs, Stages
    <3>4. Fits(go) /\ Placed(go, Len(batches))
      BY <1>0, <2>0, <3>1 DEF Jobs, Fits, Named, Placed
    <3>. QED BY <3>3, <3>4
  <2>4. ASSUME NEW w \in Schedule(1, NoAnswer, job[t].now)
        PROVE  wait(w) \in Jobs /\ Fits(wait(w)) /\ Placed(wait(w), Len(batches))
    <3>1. w \in Nat \cup {Never}
      BY <1>0, ScheduleType
    <3>2. [job[t].body EXCEPT !.state = "deferred", !.next = After(job[t].now, w)] \in Batches
      BY <1>0, <3>1, BodyTypes
    <3>3. wait(w) = [job[t] EXCEPT !.stage = "creating", !.purse = purse,
              !.body = [job[t].body EXCEPT !.state = "deferred", !.next = After(job[t].now, w)]]
      BY <1>0 DEF Jobs
    <3>. QED BY <1>0, <2>0, <2>1, <3>2, <3>3 DEF Jobs, Stages, Fits, Named, Placed
  <2>5. PICK next \in Jobs : Fits(next) /\ Placed(next, Len(batches)) /\ Goes(t, next)
    <3>1. Goes(t, go) \/ \E w \in Schedule(1, NoAnswer, job[t].now) : Goes(t, wait(w))
      BY <1>3 DEF SubmitDecide
    <3>. HIDE DEF go, wait
    <3>. QED BY <2>3, <2>4, <3>1
  <2>. QED BY <2>0, <2>5, GoesStep DEF TypeInv, TypeOK, Placed, still, records, books, history
<1>4. ASSUME NEW t \in Threads, SubmitCreate(t)
      PROVE  TypeInv'
  <2>. DEFINE next == [job[t] EXCEPT !.stage = "charging", !.batch = Len(batches) + 1]
  <2>1. /\ batches' = Append(batches, job[t].body) /\ in_flight' = Append(in_flight, 0)
        /\ sends' = Append(sends, 0) /\ asked' = Append(asked, 0)
        /\ job' = [job EXCEPT ![t] = next] /\ job[t].stage = "creating"
        /\ UNCHANGED <<still, connection, books, raced, granted, accepted>>
    BY <1>4 DEF SubmitCreate, Goes
  <2>2. /\ in_flight \in Seq(Nat) /\ Len(in_flight) = Len(batches)
        /\ sends \in Seq(Nat) /\ Len(sends) = Len(batches)
        /\ asked \in Seq(Nat) /\ Len(asked) = Len(batches)
    BY DEF TypeInv, TypeOK
  <2>3. /\ batches' \in Seq(Batches) /\ Len(batches') = Len(batches) + 1
        /\ in_flight' \in Seq(Nat) /\ Len(in_flight') = Len(batches')
        /\ sends' \in Seq(Nat) /\ Len(sends') = Len(batches')
        /\ asked' \in Seq(Nat) /\ Len(asked') = Len(batches')
    BY <1>0, <2>1, <2>2, AppendProperties
  <2>4. PICK count \in Nat : count = Len(batches')
    BY <1>0, <2>3
  <2>5. next \in Jobs /\ Fits(next) /\ Placed(next, count) /\ Len(batches) <= count
    <3>1. Len(batches) + 1 \in Nat \ {0} /\ count = Len(batches) + 1
      BY <1>0, <2>3, <2>4
    <3>2. next \in Jobs
      BY <1>0, <3>1 DEF Jobs, Stages
    <3>3. next.batch = count /\ next.stage = "charging" /\ next.todo = job[t].todo
      BY <1>0, <3>1 DEF Jobs
    <3>4. job[t].todo \subseteq 1..Len(batches)
      BY <1>0 DEF Placed
    <3>. HIDE DEF next
    <3>. QED BY <1>0, <3>1, <3>2, <3>3, <3>4 DEF Fits, Named, Placed
  <2>. HIDE DEF next
  <2>6. /\ job' \in [Threads -> Jobs] /\ CallsFit'
        /\ \A u \in Threads : Placed(job'[u], count)
    BY <2>1, <2>5, CallStep
  <2>7. DOMAIN batches' = 1..Len(batches') /\ accepted' \subseteq DOMAIN batches'
    BY <1>0, <2>1, <2>3 DEF TypeInv, TypeOK
  <2>. QED BY <2>1, <2>3, <2>4, <2>6, <2>7 DEF TypeInv, TypeOK, Placed, still, books
<1>5. ASSUME NEW t \in Threads, SubmitCharge(t)
      PROVE  TypeInv'
  <2>1. job[t].batch \in 1..Len(batches)
    BY <1>0, <1>5 DEF SubmitCharge, Fits, Named, Placed
  <2>2. /\ WriteBucket(t) /\ Over(t) /\ UNCHANGED <<still, connection, batches, raced>>
        /\ Send(t, job[t].batch) \/ UNCHANGED <<in_flight, history>>
    BY <1>5 DEF SubmitCharge
  <2>3. /\ in_flight' \in Seq(Nat) /\ Len(in_flight') = Len(batches)
        /\ sends' \in Seq(Nat) /\ Len(sends') = Len(batches)
        /\ granted' \in Nat /\ UNCHANGED <<asked, accepted>>
    <3>1. CASE Send(t, job[t].batch)
      BY <2>1, <3>1, SendTypes
    <3>2. CASE UNCHANGED <<in_flight, history>>
      BY <3>2 DEF TypeInv, TypeOK, history
    <3>. QED BY <2>2, <3>1, <3>2
  <2>4. PICK count \in Nat : count = Len(batches)
    BY <1>0
  <2>5. /\ job' \in [Threads -> Jobs] /\ CallsFit'
        /\ \A u \in Threads : Placed(job'[u], count)
    BY <2>2, <2>4, OverStep
  <2>. QED BY <1>0, <2>2, <2>3, <2>4, <2>5, WriteTypes DEF TypeInv, TypeOK, Placed, still
<1>6. ASSUME NEW t \in Threads, NEW b \in DOMAIN batches, NEW answer \in Answers,
             Observe(t, b, answer)
      PROVE  TypeInv'
  <2>. DEFINE call == [IdleJob EXCEPT !.call = "observe", !.stage = "deciding", !.batch = b,
                              !.body = batches[b], !.line = connection, !.now = clock,
                              !.answer = answer]
              until == Until(answer, clock)
  <2>1. b \in 1..Len(batches) /\ batches[b] \in Batches /\ b \in Nat
    BY <1>0
  <2>2. call \in Jobs /\ Fits(call) /\ Placed(call, Len(batches))
    <3>1. call \in Jobs
      BY <1>0, <2>1 DEF Jobs, Calls, Stages
    <3>2. Fits(call) /\ Placed(call, Len(batches))
      BY <1>0, <2>1 DEF Fits, Named, Placed, IdleJob
    <3>. QED BY <3>1, <3>2
  <2>3. /\ Start(t, call) /\ UNCHANGED <<clock, records, granted, sends>> /\ in_flight[b] > 0
        /\ in_flight' = [in_flight EXCEPT ![b] = @ - 1]
        /\ asked' = [asked EXCEPT ![b] = until]
        /\ accepted' = IF answer.kind = "accepted" THEN accepted \cup {b} ELSE accepted
    BY <1>6 DEF Observe
  <2>. HIDE DEF call
  <2>4. until \in Nat
    BY <1>0, AnswerTypes
  <2>. HIDE DEF until
  <2>5. /\ in_flight \in Seq(Nat) /\ Len(in_flight) = Len(batches)
        /\ asked \in Seq(Nat) /\ Len(asked) = Len(batches)
        /\ accepted \subseteq DOMAIN batches
    BY DEF TypeInv, TypeOK
  <2>6. in_flight[b] - 1 \in Nat /\ in_flight' = [in_flight EXCEPT ![b] = in_flight[b] - 1]
    BY <2>1, <2>3, <2>5
  <2>7. /\ in_flight' \in Seq(Nat) /\ Len(in_flight') = Len(batches)
        /\ asked' \in Seq(Nat) /\ Len(asked') = Len(batches)
        /\ accepted' \subseteq DOMAIN batches
    BY <2>1, <2>3, <2>4, <2>5, <2>6, CounterStep
  <2>8. batches' = batches
    BY <2>3 DEF records, books
  <2>. QED BY <1>0, <2>2, <2>3, <2>7, <2>8, StartStep DEF TypeInv, TypeOK, Placed, records, books
<1>7. ASSUME NEW t \in Threads, ObserveSpend(t)
      PROVE  TypeInv'
  <2>. DEFINE purse == Spend(bucket, job[t].line.burst, job[t].now, job[t].body.cost)
              next == [job[t] EXCEPT !.stage = "charging", !.purse = purse]
  <2>1. purse \in Buckets
    BY <1>0, SpendType
  <2>2. /\ job[t].call = "observe" /\ job[t].stage = "deciding" /\ Goes(t, next)
        /\ UNCHANGED <<still, records, in_flight, raced, history>>
    BY <1>7 DEF ObserveSpend
  <2>3. next \in Jobs /\ Fits(next) /\ Placed(next, Len(batches))
    BY <1>0, <2>1, <2>2 DEF Jobs, Stages, Fits, Named, Placed
  <2>. HIDE DEF next
  <2>. QED BY <2>2, <2>3, GoesStep DEF TypeInv, TypeOK, Placed, still, records, books, history
<1>8. ASSUME NEW t \in Threads, ObserveCharge(t) \/ RetryCharge(t)
      PROVE  TypeInv'
  <2>. DEFINE next == [job[t] EXCEPT !.stage = "updating"]
  <2>1. /\ job[t].stage = "charging" /\ WriteBucket(t) /\ Goes(t, next)
        /\ UNCHANGED <<still, connection, batches, in_flight, raced, history>>
    BY <1>8 DEF ObserveCharge, RetryCharge
  <2>2. next \in Jobs /\ Fits(next) /\ Placed(next, Len(batches))
    BY <1>0, <2>1 DEF Jobs, Stages, Fits, Named, Placed
  <2>. HIDE DEF next
  <2>. QED BY <1>0, <2>1, <2>2, GoesStep, WriteTypes DEF TypeInv, TypeOK, Placed, still, history
<1>9. ASSUME NEW t \in Threads, ObserveUpdate(t)
      PROVE  TypeInv'
  <2>. DEFINE b == job[t].batch
  <2>1. b \in 1..Len(batches)
    BY <1>0, <1>9 DEF ObserveUpdate, Fits, Named, Placed
  <2>2. PICK row \in Batches : batches' = [batches EXCEPT ![b] = row]
    <3>1. CASE batches' = [batches EXCEPT ![b] = Settled(job[t].body, job[t].answer)]
      BY <1>0, <3>1, BodyTypes
    <3>2. ASSUME NEW wait \in Schedule(job[t].body.attempt, job[t].answer, job[t].now),
                 batches' = [batches EXCEPT ![b] = Deferred(job[t].body, wait, job[t].now)]
          PROVE  \E row \in Batches : batches' = [batches EXCEPT ![b] = row]
      <4>1. job[t].body.attempt \in Nat \ {0}
        BY <1>0 DEF Batches
      <4>2. wait \in Nat \cup {Never}
        BY <1>0, <4>1, ScheduleType
      <4>. QED BY <1>0, <3>2, <4>2, BodyTypes
    <3>. QED BY <1>9, <3>1, <3>2 DEF ObserveUpdate
  <2>3. Over(t) /\ UNCHANGED <<still, connection, books, in_flight, raced, history>>
    BY <1>9 DEF ObserveUpdate
  <2>4. batches' \in Seq(Batches) /\ Len(batches') = Len(batches)
    BY <1>0, <2>1, <2>2, ExceptSeq
  <2>5. PICK count \in Nat : count = Len(batches)
    BY <1>0
  <2>6. /\ job' \in [Threads -> Jobs] /\ CallsFit'
        /\ \A u \in Threads : Placed(job'[u], count)
    BY <2>3, <2>5, OverStep
  <2>. QED BY <1>0, <2>3, <2>4, <2>5, <2>6 DEF TypeInv, TypeOK, Placed, still, books, history
<1>10. ASSUME NEW t \in Threads, NEW b \in DOMAIN batches, NEW force \in BOOLEAN,
              Retry(t, b, force)
       PROVE  TypeInv'
  <2>. DEFINE call == [RetryOf(t, b) EXCEPT !.force = force]
  <2>1. b \in 1..Len(batches) /\ batches[b] \in Batches /\ b \in Nat
    BY <1>0
  <2>2. call \in Jobs
    BY <1>0, <2>1 DEF RetryOf, Jobs, Calls, Stages
  <2>3. Fits(call) /\ Placed(call, Len(batches))
    BY <1>0, <2>1 DEF RetryOf, Fits, Named, Placed, IdleJob
  <2>4. Start(t, call) /\ UNCHANGED <<clock, records, in_flight, history>>
    BY <1>10 DEF Retry
  <2>. HIDE DEF call
  <2>. QED BY <2>2, <2>3, <2>4, StartStep DEF TypeInv, TypeOK, Placed, records, books, history
<1>11. ASSUME NEW t \in Threads, RetryDecide(t)
       PROVE  TypeInv'
  <2>. DEFINE line == job[t].line
              now == job[t].now
              body == job[t].body
              purse == Refill(bucket, line.burst, now)
              allowed == Allowed(line, purse, body.cost)
              early == body.next # Never /\ body.next > now
              wait == IF ~allowed THEN WaitFor(line, purse, body.cost)
                      ELSE Greater(1, (body.next - now) \div Second)
              go == [job[t] EXCEPT !.stage = "charging", !.gated = allowed /\ line.burst > 0,
                                   !.purse = Spend(purse, line.burst, now, body.cost)]
              refuse == [job[t] EXCEPT !.stage = "refusing",
                           !.body = [@ EXCEPT !.state = "deferred", !.next = After(now, wait)]]
  <2>0. /\ job[t].call \in {"retry", "drain"} /\ job[t].stage = "deciding"
        /\ UNCHANGED <<still, records, in_flight, raced, history>>
    BY <1>11 DEF RetryDecide
  <2>1. purse \in Buckets /\ Spend(purse, line.burst, now, body.cost) \in Buckets
    BY <1>0, RefillType, SpendType
  <2>2. go \in Jobs /\ Fits(go) /\ Placed(go, Len(batches))
    <3>1. (allowed /\ line.burst > 0) \in BOOLEAN
      BY <1>0, <2>1 DEF Allowed, Connections
    <3>. HIDE DEF allowed, purse
    <3>2. go \in Jobs
      BY <1>0, <2>1, <3>1 DEF Jobs, Stages
    <3>3. Fits(go) /\ Placed(go, Len(batches))
      BY <1>0, <2>0 DEF Jobs, Fits, Named, Placed
    <3>. QED BY <3>2, <3>3
  <2>3. ASSUME ~allowed \/ early
        PROVE  refuse \in Jobs /\ Fits(refuse) /\ Placed(refuse, Len(batches))
    <3>1. wait \in Nat \cup {Never}
      <4>1. CASE ~allowed
        BY <1>0, <2>1, <4>1, WaitType
      <4>2. CASE allowed
        <5>1. early
          BY <2>3, <4>2
        <5>2. body.next \in Nat
          BY <1>0, <5>1 DEF Batches, Instants
        <5>3. (body.next - now) \div Second \in Int
          BY <1>0, <5>2, PolicyAssumption
        <5>. QED BY <4>2, <5>3 DEF Greater
      <4>. QED BY <4>1, <4>2
    <3>. HIDE DEF wait
    <3>2. [body EXCEPT !.state = "deferred", !.next = After(now, wait)] \in Batches
      BY <1>0, <3>1, BodyTypes
    <3>3. refuse = [job[t] EXCEPT !.stage = "refusing",
                      !.body = [body EXCEPT !.state = "deferred", !.next = After(now, wait)]]
      BY <1>0 DEF Jobs
    <3>. QED BY <1>0, <2>0, <3>2, <3>3 DEF Jobs, Stages, Fits, Named, Placed
  <2>4. PICK next \in Jobs : Fits(next) /\ Placed(next, Len(batches)) /\ Goes(t, next)
    <3>1. CASE job[t].force \/ (allowed /\ ~early)
      <4>1. Goes(t, go)
        BY <1>11, <3>1, Zenon DEF RetryDecide
      <4>. HIDE DEF go
      <4>. QED BY <2>2, <4>1
    <3>2. CASE ~(job[t].force \/ (allowed /\ ~early))
      <4>1. Goes(t, refuse)
        BY <1>11, <3>2, Zenon DEF RetryDecide
      <4>2. ~allowed \/ early
        BY <3>2, Zenon
      <4>. HIDE DEF refuse, allowed, early
      <4>. QED BY <2>3, <4>1, <4>2
    <3>. HIDE DEF go, refuse, allowed, early
    <3>. QED BY <3>1, <3>2, Zenon
  <2>. QED BY <2>0, <2>4, GoesStep DEF TypeInv, TypeOK, Placed, still, records, books, history
<1>12. ASSUME NEW t \in Threads, RetryRefuse(t)
       PROVE  TypeInv'
  <2>. DEFINE b == job[t].batch
  <2>1. b \in 1..Len(batches)
    BY <1>0, <1>12 DEF RetryRefuse, Fits, Named, Placed
  <2>2. /\ batches' = [batches EXCEPT ![b] = job[t].body] /\ asked' = [asked EXCEPT ![b] = 0]
        /\ Over(t) /\ UNCHANGED <<still, connection, books, in_flight, raced, granted, sends,
                                  accepted>>
    BY <1>12 DEF RetryRefuse
  <2>3. batches' \in Seq(Batches) /\ Len(batches') = Len(batches)
    BY <1>0, <2>1, <2>2, ExceptSeq
  <2>4. asked' \in Seq(Nat) /\ Len(asked') = Len(batches)
    BY <2>1, <2>2, CounterStep DEF TypeInv, TypeOK
  <2>5. PICK count \in Nat : count = Len(batches)
    BY <1>0
  <2>6. /\ job' \in [Threads -> Jobs] /\ CallsFit'
        /\ \A u \in Threads : Placed(job'[u], count)
    BY <2>2, <2>5, OverStep
  <2>. QED BY <1>0, <2>2, <2>3, <2>4, <2>5, <2>6 DEF TypeInv, TypeOK, Placed, still, books
<1>13. ASSUME NEW t \in Threads, RetryUpdate(t)
       PROVE  TypeInv'
  <2>. DEFINE b == job[t].batch
  <2>1. b \in 1..Len(batches)
    BY <1>0, <1>13 DEF RetryUpdate, Fits, Named, Placed
  <2>2. /\ batches' = [batches EXCEPT ![b] = Retried(job[t].body)] /\ Send(t, b) /\ Over(t)
        /\ UNCHANGED <<still, connection, books, raced>>
    BY <1>13 DEF RetryUpdate
  <2>3. Retried(job[t].body) \in Batches
    BY <1>0, BodyTypes
  <2>4. batches' \in Seq(Batches) /\ Len(batches') = Len(batches)
    BY <1>0, <2>1, <2>2, <2>3, ExceptSeq
  <2>5. /\ in_flight' \in Seq(Nat) /\ Len(in_flight') = Len(batches)
        /\ sends' \in Seq(Nat) /\ Len(sends') = Len(batches)
        /\ granted' \in Nat /\ UNCHANGED <<asked, accepted>>
    BY <2>1, <2>2, SendTypes
  <2>6. PICK count \in Nat : count = Len(batches)
    BY <1>0
  <2>7. /\ job' \in [Threads -> Jobs] /\ CallsFit'
        /\ \A u \in Threads : Placed(job'[u], count)
    BY <2>2, <2>6, OverStep
  <2>. QED BY <1>0, <2>2, <2>4, <2>5, <2>6, <2>7 DEF TypeInv, TypeOK, Placed, still, books
<1>14. ASSUME NEW t \in Threads, Drain(t)
       PROVE  TypeInv'
  <2>. DEFINE call == [IdleJob EXCEPT !.call = "drain", !.stage = "draining", !.todo = DueNow]
  <2>1. DueNow \subseteq 1..Len(batches) /\ 1..Len(batches) \subseteq Nat
    BY <1>0 DEF DueNow
  <2>2. call \in Jobs /\ Fits(call) /\ Placed(call, Len(batches))
    <3>1. call \in Jobs
      BY <2>1 DEF Jobs, Calls, Stages
    <3>2. Fits(call) /\ Placed(call, Len(batches))
      BY <1>0, <2>1 DEF Fits, Named, Placed, IdleJob
    <3>. QED BY <3>1, <3>2
  <2>3. Start(t, call) /\ UNCHANGED <<clock, records, in_flight, history>>
    BY <1>14 DEF Drain
  <2>. HIDE DEF call
  <2>. QED BY <2>2, <2>3, StartStep DEF TypeInv, TypeOK, Placed, records, books, history
<1>15. ASSUME NEW t \in Threads, DrainNext(t)
       PROVE  TypeInv'
  <2>1. UNCHANGED <<still, records, in_flight, raced, history>>
    BY <1>15 DEF DrainNext
  <2>2. PICK next \in Jobs : Fits(next) /\ Placed(next, Len(batches)) /\ Goes(t, next)
    <3>1. CASE Goes(t, IdleJob)
      BY <1>0, <3>1 DEF Placed, IdleJob
    <3>2. ASSUME NEW b \in job[t].todo,
                 Goes(t, [RetryOf(t, b) EXCEPT !.call = "drain", !.todo = job[t].todo \ {b}])
          PROVE  \E next \in Jobs : Fits(next) /\ Placed(next, Len(batches)) /\ Goes(t, next)
      <4>. DEFINE next == [RetryOf(t, b) EXCEPT !.call = "drain", !.todo = job[t].todo \ {b}]
      <4>1. b \in 1..Len(batches) /\ batches[b] \in Batches /\ b \in Nat
            /\ job[t].todo \in SUBSET Nat
        BY <1>0 DEF Placed, Jobs
      <4>2. next \in Jobs
        BY <1>0, <4>1 DEF RetryOf, Jobs, Calls, Stages
      <4>3. Fits(next) /\ Placed(next, Len(batches))
        BY <1>0, <4>1 DEF RetryOf, Fits, Named, Placed, IdleJob
      <4>. HIDE DEF next
      <4>. QED BY <3>2, <4>2, <4>3 DEF next
    <3>. QED BY <1>15, <3>1, <3>2 DEF DrainNext
  <2>. QED BY <2>1, <2>2, GoesStep DEF TypeInv, TypeOK, Placed, still, records, books, history
<1>16. ASSUME NEW t \in Threads, NEW line \in Connections, Administer(t, line)
       PROVE  TypeInv'
  <2>. DEFINE call == [IdleJob EXCEPT !.call = "admin", !.stage = "syncing", !.line = line]
  <2>1. call \in Jobs
    BY DEF Jobs, Calls, Stages
  <2>2. Fits(call) /\ Placed(call, Len(batches))
    BY <1>0 DEF Fits, Named, Placed, IdleJob
  <2>3. /\ connection' = line /\ Start(t, call)
        /\ UNCHANGED <<clock, books, batches, in_flight, history>>
    BY <1>16 DEF Administer
  <2>. HIDE DEF call
  <2>. QED BY <2>1, <2>2, <2>3, StartStep DEF TypeInv, TypeOK, Placed, books, history
<1>17. ASSUME NEW t \in Threads, SyncRead(t)
       PROVE  TypeInv'
  <2>. DEFINE next == [job[t] EXCEPT !.stage = "resizing",
                                     !.purse = Refill(bucket, job[t].line.burst, clock)]
  <2>1. Refill(bucket, job[t].line.burst, clock) \in Buckets
    BY <1>0, RefillType
  <2>2. next \in Jobs /\ Fits(next) /\ Placed(next, Len(batches))
    BY <1>0, <2>1 DEF Jobs, Stages, Fits, Named, Placed
  <2>3. Goes(t, next) /\ UNCHANGED <<still, records, in_flight, raced, history>>
    BY <1>17 DEF SyncRead
  <2>. HIDE DEF next
  <2>. QED BY <2>2, <2>3, GoesStep DEF TypeInv, TypeOK, Placed, still, records, books, history
<1>18. ASSUME NEW t \in Threads, SyncWrite(t)
       PROVE  TypeInv'
  <2>1. /\ WriteBucket(t) /\ Over(t)
        /\ UNCHANGED <<still, connection, batches, in_flight, raced, history>>
    BY <1>18 DEF SyncWrite
  <2>2. PICK count \in Nat : count = Len(batches)
    BY <1>0
  <2>3. /\ job' \in [Threads -> Jobs] /\ CallsFit'
        /\ \A u \in Threads : Placed(job'[u], count)
    BY <2>1, <2>2, OverStep
  <2>. QED BY <1>0, <2>1, <2>2, <2>3, WriteTypes DEF TypeInv, TypeOK, Placed, still, history
<1>19. ASSUME NEW t \in Threads, NEW paused \in BOOLEAN, SetPaused(t, paused)
       PROVE  TypeInv'
  BY <1>0, <1>16, <1>19 DEF SetPaused, Connections
<1>20. ASSUME NEW t \in Threads, NEW burst \in Bursts, PatchConnection(t, burst)
       PROVE  TypeInv'
  <2>1. burst \in Nat
    BY PolicyAssumption
  <2>. QED BY <1>0, <1>16, <1>20, <2>1 DEF PatchConnection, Connections
<1>21. CASE UNCHANGED vars
  BY <1>21 DEF vars, records, books, history, TypeInv, TypeOK, CallsFit
<1>. QED BY <1>1, <1>2, <1>3, <1>4, <1>5, <1>6, <1>7, <1>8, <1>9, <1>10, <1>11, <1>12, <1>13,
            <1>14, <1>15, <1>17, <1>18, <1>19, <1>20, <1>21 DEF Next, Handler

LEMMA TypesHold == Spec => []TypeInv
BY InitType, TypeStep, PTL DEF Spec

(* Every variable keeps its type and every batch in progress has a row,     *)
(* whatever calls overlap.                                                  *)
THEOREM TypeCorrect == Spec => []TypeOK
<1>1. TypeInv => TypeOK
  BY DEF TypeInv
<1>. QED BY <1>1, TypesHold, PTL

-----------------------------------------------------------------------------
(* What a call carries from one step to the next. *)

Submits(j) ==
  j.call = "submit" =>
    /\ j.stage \in {"deciding", "creating", "charging"}
    /\ j.stage = "deciding" => j.body.state = "proceeding" /\ j.body.attempts = 0
    /\ j.stage # "deciding" =>
         \/ j.body.state = "proceeding" /\ j.body.attempts = 1 /\ ~j.line.paused
         \/ j.body.state = "deferred" /\ j.body.attempts = 0

Observes(j, taken) ==
  j.call = "observe" =>
    /\ j.stage \in {"deciding", "charging", "updating"}
    /\ j.answer.kind = "accepted" => j.batch \in taken

Retries(j) ==
  j.call \in {"retry", "drain"} =>
    /\ j.stage \in {"deciding", "charging", "refusing", "updating", "draining"}
    /\ j.stage = "draining" => j.call = "drain"
    /\ j.stage \in {"charging", "updating"} => j.force \/ ~j.line.paused
    /\ j.stage = "refusing" => j.body.state = "deferred"

Carries(j, taken) ==
  /\ Submits(j) /\ Observes(j, taken) /\ Retries(j)
  /\ j.call = "none" => j.stage = "idle"
  /\ j.call = "admin" => j.stage \in {"syncing", "resizing"}

CallInv ==
  /\ TypeInv
  /\ CompleteMeansAccepted
  /\ \A t \in Threads : Carries(job[t], accepted)

LEMMA IdleCarries == \A taken : Carries(IdleJob, taken)
BY DEF Carries, Submits, Observes, Retries, IdleJob

LEMMA CallTypes ==
  ASSUME TypeInv
  PROVE  /\ job \in [Threads -> Jobs] /\ connection \in Connections /\ bucket \in Buckets
         /\ batches \in Seq(Batches) /\ Len(batches) \in Nat /\ DOMAIN batches = 1..Len(batches)
         /\ clock \in Nat
         /\ \A t \in Threads : /\ job[t] \in Jobs /\ Fits(job[t]) /\ Placed(job[t], Len(batches))
                               /\ Named(job[t]) => job[t].batch \in 1..Len(batches)
<1>1. /\ job \in [Threads -> Jobs] /\ connection \in Connections /\ bucket \in Buckets
      /\ batches \in Seq(Batches) /\ Len(batches) \in Nat /\ DOMAIN batches = 1..Len(batches)
      /\ clock \in Nat
  BY BatchCount, BoundAssumption DEF TypeInv, TypeOK
<1>2. ASSUME NEW t \in Threads
      PROVE  /\ job[t] \in Jobs /\ Fits(job[t]) /\ Placed(job[t], Len(batches))
             /\ Named(job[t]) => job[t].batch \in 1..Len(batches)
  <2>1. job[t] \in Jobs /\ Fits(job[t]) /\ Placed(job[t], Len(batches))
    BY <1>1 DEF TypeInv, TypeOK, CallsFit, Placed
  <2>. QED BY <1>1, <2>1 DEF Fits, Placed
<1>. QED BY <1>1, <1>2

LEMMA CarriesStep ==
  ASSUME job \in [Threads -> Jobs], \A u \in Threads : Carries(job[u], accepted),
         NEW t \in Threads, NEW next, job' = [job EXCEPT ![t] = next],
         Carries(next, accepted'), accepted \subseteq accepted'
  PROVE  \A u \in Threads : Carries(job'[u], accepted')
<1>1. ASSUME NEW u \in Threads
      PROVE  Carries(job'[u], accepted')
  <2>1. CASE u = t
    BY <2>1
  <2>2. CASE u # t
    BY <2>2 DEF Carries, Observes
  <2>. QED BY <2>1, <2>2
<1>. QED BY <1>1

LEMMA OverCarries ==
  ASSUME job \in [Threads -> Jobs], \A u \in Threads : Carries(job[u], accepted),
         NEW t \in Threads, Over(t), accepted \subseteq accepted'
  PROVE  \A u \in Threads : Carries(job'[u], accepted')
<1>1. Carries(RestOf(t), accepted')
  <2>1. CASE job[t].call = "drain"
    BY <2>1 DEF RestOf, Carries, Submits, Observes, Retries, IdleJob
  <2>2. CASE job[t].call # "drain"
    BY <2>2, IdleCarries DEF RestOf
  <2>. QED BY <2>1, <2>2
<1>2. job' = [job EXCEPT ![t] = RestOf(t)]
  BY DEF Over, Goes, RestOf
<1>. QED BY <1>1, <1>2, CarriesStep

(* Writing a row that is not complete, or whose batch is accepted, keeps    *)
(* what complete means.                                                     *)
LEMMA RowKept ==
  ASSUME TypeInv, CompleteMeansAccepted, NEW b \in 1..Len(batches), NEW row \in Batches,
         batches' = [batches EXCEPT ![b] = row], row.state = "complete" => b \in accepted,
         accepted' = accepted
  PROVE  CompleteMeansAccepted'
<1>1. /\ DOMAIN batches = 1..Len(batches) /\ batches \in Seq(Batches)
      /\ DOMAIN batches' = 1..Len(batches)
      /\ \A c \in 1..Len(batches) : batches'[c] = IF c = b THEN row ELSE batches[c]
  BY CallTypes
<1>. QED BY <1>1 DEF CompleteMeansAccepted

LEMMA CallInit == Init => CallInv
<1>. SUFFICES ASSUME Init PROVE CallInv
  OBVIOUS
<1>1. CompleteMeansAccepted
  BY DEF Init, CompleteMeansAccepted
<1>2. \A t \in Threads : Carries(job[t], accepted)
  BY IdleCarries DEF Init
<1>. QED BY <1>1, <1>2, InitType DEF CallInv

(* Only ObserveUpdate completes a batch, for an answer that accepted it. *)
LEMMA CallInvStep ==
  ASSUME CallInv, [Next]_vars
  PROVE  CallInv'
<1>0. /\ TypeInv /\ TypeInv' /\ CompleteMeansAccepted
      /\ \A t \in Threads : Carries(job[t], accepted)
  BY TypeStep DEF CallInv
<1>. USE CallTypes, <1>0
<1>. DEFINE Goal == CompleteMeansAccepted' /\ \A t \in Threads : Carries(job'[t], accepted')
<1>. SUFFICES Goal
  BY DEF CallInv
<1>1. ASSUME UNCHANGED <<batches, accepted>>
      PROVE  CompleteMeansAccepted'
  BY <1>1 DEF CompleteMeansAccepted
<1>2. ASSUME Tick \/ UNCHANGED vars
      PROVE  Goal
  BY <1>1, <1>2 DEF Tick, vars, records, books, history
<1>3. ASSUME NEW t \in Threads, NEW cost \in Costs, Submit(t, cost)
      PROVE  Goal
  <2>. DEFINE call == [IdleJob EXCEPT !.call = "submit", !.stage = "deciding", !.line = connection,
                                      !.now = clock, !.body = [NoBatch EXCEPT !.cost = cost]]
  <2>1. UNCHANGED <<batches, accepted>> /\ job' = [job EXCEPT ![t] = call]
    BY <1>3 DEF Submit, Start, records, books, history
  <2>2. Carries(call, accepted)
    BY DEF Carries, Submits, Observes, Retries, IdleJob, NoBatch
  <2>. HIDE DEF call
  <2>. QED BY <1>1, <2>1, <2>2, CarriesStep
<1>4. ASSUME NEW t \in Threads, SubmitDecide(t)
      PROVE  Goal
  <2>1. PICK next : /\ job' = [job EXCEPT ![t] = next] /\ next.call = job[t].call
                    /\ next.stage = "creating"
                    /\ \/ /\ next.body.state = job[t].body.state /\ next.body.attempts = 1
                          /\ next.line = job[t].line /\ ~job[t].line.paused
                       \/ /\ next.body.state = "deferred"
                          /\ next.body.attempts = job[t].body.attempts
    <3>1. job[t] \in Jobs /\ job[t].body \in Batches
      BY DEF Jobs
    <3>. DEFINE line == job[t].line
                cost == job[t].body.cost
                purse == Refill(bucket, line.burst, job[t].now)
    <3>2. CASE Allowed(line, purse, cost)
      <4>. DEFINE go == [job[t] EXCEPT
                           !.stage = "creating", !.gated = line.burst > 0,
                           !.purse = Spend(purse, line.burst, job[t].now, cost),
                           !.body = [@ EXCEPT !.attempts = 1, !.next = Iso(job[t].now)]]
      <4>1. job' = [job EXCEPT ![t] = go]
        BY <1>4, <3>2 DEF SubmitDecide, Goes
      <4>2. ~job[t].line.paused
        BY <3>2, Zenon DEF Allowed
      <4>3. /\ go.call = job[t].call /\ go.stage = "creating" /\ go.line = job[t].line
            /\ go.body.state = job[t].body.state /\ go.body.attempts = 1
        BY <3>1 DEF Jobs, Batches
      <4>. HIDE DEF go
      <4>. QED BY <4>1, <4>2, <4>3
    <3>3. CASE ~Allowed(line, purse, cost)
      <4>1. PICK w : job' = [job EXCEPT ![t] = [job[t] EXCEPT
                       !.stage = "creating", !.purse = purse,
                       !.body = [@ EXCEPT !.state = "deferred", !.next = w]]]
        BY <1>4, <3>3 DEF SubmitDecide, Goes
      <4>. DEFINE wait == [job[t] EXCEPT !.stage = "creating", !.purse = purse,
                             !.body = [@ EXCEPT !.state = "deferred", !.next = w]]
      <4>2. /\ wait.call = job[t].call /\ wait.stage = "creating"
            /\ wait.body.state = "deferred" /\ wait.body.attempts = job[t].body.attempts
        BY <3>1 DEF Jobs, Batches
      <4>. HIDE DEF wait
      <4>. QED BY <4>1, <4>2 DEF wait
    <3>. HIDE DEF line, cost, purse
    <3>. QED BY <3>2, <3>3, Zenon
  <2>2. UNCHANGED <<batches, accepted>> /\ job[t].call = "submit" /\ job[t].stage = "deciding"
    BY <1>4 DEF SubmitDecide, records, books, history
  <2>3. Carries(next, accepted)
    BY <2>1, <2>2 DEF Carries, Submits, Observes, Retries
  <2>. QED BY <1>1, <2>1, <2>2, <2>3, CarriesStep
<1>5. ASSUME NEW t \in Threads, SubmitCreate(t)
      PROVE  Goal
  <2>. DEFINE next == [job[t] EXCEPT !.stage = "charging", !.batch = Len(batches) + 1]
  <2>1. /\ batches' = Append(batches, job[t].body) /\ job' = [job EXCEPT ![t] = next]
        /\ job[t].stage = "creating" /\ accepted' = accepted
    BY <1>5 DEF SubmitCreate, Goes
  <2>2. job[t] \in Jobs /\ job[t].body \in Batches /\ job[t].call = "submit"
    BY <2>1 DEF Jobs, Fits
  <2>3. job[t].body.state # "complete"
    BY <2>1, <2>2 DEF Carries, Submits
  <2>4. CompleteMeansAccepted'
    <3>1. /\ DOMAIN batches' = 1..(Len(batches) + 1)
          /\ batches'[Len(batches) + 1] = job[t].body
          /\ \A b \in 1..Len(batches) : batches'[b] = batches[b]
      BY <2>1, <2>2, AppendProperties
    <3>. QED BY <2>1, <2>3, <3>1 DEF CompleteMeansAccepted
  <2>5. Carries(next, accepted)
    BY <2>1, <2>2 DEF Jobs, Carries, Submits, Observes, Retries
  <2>. HIDE DEF next
  <2>. QED BY <2>1, <2>4, <2>5, CarriesStep
<1>6. ASSUME NEW t \in Threads, SubmitCharge(t)
      PROVE  Goal
  <2>1. UNCHANGED <<batches, accepted>> /\ Over(t)
    BY <1>6 DEF SubmitCharge, Send, history
  <2>. QED BY <1>1, <2>1, OverCarries
<1>7. ASSUME NEW t \in Threads, NEW b \in DOMAIN batches, NEW answer \in Answers,
             Observe(t, b, answer)
      PROVE  Goal
  <2>. DEFINE call == [IdleJob EXCEPT !.call = "observe", !.stage = "deciding", !.batch = b,
                              !.body = batches[b], !.line = connection, !.now = clock,
                              !.answer = answer]
  <2>1. /\ batches' = batches /\ job' = [job EXCEPT ![t] = call]
        /\ accepted' = IF answer.kind = "accepted" THEN accepted \cup {b} ELSE accepted
    BY <1>7 DEF Observe, Start, records, books
  <2>2. Carries(call, accepted')
    BY <2>1 DEF Carries, Submits, Observes, Retries, IdleJob
  <2>3. CompleteMeansAccepted'
    BY <2>1 DEF CompleteMeansAccepted
  <2>4. accepted \subseteq accepted'
    BY <2>1
  <2>. HIDE DEF call
  <2>. QED BY <2>1, <2>2, <2>3, <2>4, CarriesStep
<1>8. ASSUME NEW t \in Threads, ObserveSpend(t)
      PROVE  Goal
  <2>. DEFINE next == [job[t] EXCEPT !.stage = "charging",
              !.purse = Spend(bucket, job[t].line.burst, job[t].now, job[t].body.cost)]
  <2>1. /\ UNCHANGED <<batches, accepted>> /\ job' = [job EXCEPT ![t] = next]
        /\ job[t].call = "observe" /\ job[t] \in Jobs
    BY <1>8 DEF ObserveSpend, Goes, records, books, history
  <2>2. Carries(next, accepted)
    BY <2>1 DEF Jobs, Carries, Submits, Observes, Retries
  <2>. HIDE DEF next
  <2>. QED BY <1>1, <2>1, <2>2, CarriesStep
<1>9. ASSUME NEW t \in Threads, ObserveCharge(t) \/ RetryCharge(t)
      PROVE  Goal
  <2>. DEFINE next == [job[t] EXCEPT !.stage = "updating"]
  <2>1. /\ UNCHANGED <<batches, accepted>> /\ job' = [job EXCEPT ![t] = next]
        /\ job[t].call \in {"observe", "retry", "drain"} /\ job[t].stage = "charging"
        /\ job[t] \in Jobs
    BY <1>9 DEF ObserveCharge, RetryCharge, Goes, history
  <2>2. Carries(next, accepted)
    BY <2>1 DEF Jobs, Carries, Submits, Observes, Retries
  <2>. HIDE DEF next
  <2>. QED BY <1>1, <2>1, <2>2, CarriesStep
<1>10. ASSUME NEW t \in Threads, ObserveUpdate(t)
       PROVE  Goal
  <2>. DEFINE b == job[t].batch
              body == job[t].body
              answer == job[t].answer
  <2>1. /\ job[t].call = "observe" /\ job[t].stage = "updating" /\ job[t] \in Jobs
        /\ b \in 1..Len(batches) /\ body \in Batches /\ answer \in Answers /\ job[t].now \in Nat
    BY <1>10, BoundAssumption DEF ObserveUpdate, Named, Jobs
  <2>2. Over(t) /\ accepted' = accepted
    BY <1>10 DEF ObserveUpdate, history
  <2>3. PICK row \in Batches : /\ batches' = [batches EXCEPT ![b] = row]
                               /\ row.state = "complete" => b \in accepted
    <3>1. CASE batches' = [batches EXCEPT ![b] = Settled(body, answer)]
      <4>1. Settled(body, answer).state = "complete" => answer.kind = "accepted"
        BY <2>1 DEF Settled, Batches
      <4>2. answer.kind = "accepted" => b \in accepted
        BY <2>1 DEF Carries, Observes
      <4>3. Settled(body, answer) \in Batches
        BY <2>1, BodyTypes
      <4>. QED BY <3>1, <4>1, <4>2, <4>3
    <3>2. ASSUME NEW wait \in Schedule(body.attempt, answer, job[t].now),
                 batches' = [batches EXCEPT ![b] = Deferred(body, wait, job[t].now)]
          PROVE  \E row \in Batches : /\ batches' = [batches EXCEPT ![b] = row]
                                      /\ row.state = "complete" => b \in accepted
      <4>1. Deferred(body, wait, job[t].now) \in Batches
        <5>1. body.attempt \in Nat \ {0}
          BY <2>1 DEF Batches
        <5>. QED BY <2>1, <5>1, ScheduleType, BodyTypes
      <4>2. Deferred(body, wait, job[t].now).state # "complete"
        BY <2>1 DEF Deferred, Batches
      <4>. QED BY <3>2, <4>1, <4>2
    <3>. QED BY <1>10, <3>1, <3>2 DEF ObserveUpdate
  <2>4. CompleteMeansAccepted'
    BY <2>1, <2>2, <2>3, RowKept
  <2>. QED BY <2>2, <2>4, OverCarries
<1>11. ASSUME NEW t \in Threads, NEW b \in DOMAIN batches, NEW force \in BOOLEAN,
              Retry(t, b, force)
       PROVE  Goal
  <2>. DEFINE call == [RetryOf(t, b) EXCEPT !.force = force]
  <2>1. UNCHANGED <<batches, accepted>> /\ job' = [job EXCEPT ![t] = call]
    BY <1>11 DEF Retry, Start, records, books, history
  <2>2. call.call = "retry" /\ call.stage = "deciding"
    BY DEF RetryOf, IdleJob
  <2>. HIDE DEF call
  <2>3. Carries(call, accepted)
    BY <2>2 DEF Carries, Submits, Observes, Retries
  <2>. QED BY <1>1, <2>1, <2>3, CarriesStep
<1>12. ASSUME NEW t \in Threads, RetryDecide(t)
       PROVE  Goal
  <2>1. /\ UNCHANGED <<batches, accepted>> /\ job[t].call \in {"retry", "drain"}
        /\ job[t] \in Jobs /\ job[t].body \in Batches
    BY <1>12 DEF RetryDecide, records, books, history, Jobs
  <2>2. PICK next : /\ job' = [job EXCEPT ![t] = next] /\ next.call = job[t].call
                    /\ \/ /\ next.stage = "charging" /\ next.force = job[t].force
                          /\ next.line = job[t].line
                          /\ job[t].force \/ ~job[t].line.paused
                       \/ next.stage = "refusing" /\ next.body.state = "deferred"
    <3>. DEFINE line == job[t].line
                body == job[t].body
                purse == Refill(bucket, line.burst, job[t].now)
                allowed == Allowed(line, purse, body.cost)
                early == body.next # Never /\ body.next > job[t].now
    <3>1. CASE job[t].force \/ (allowed /\ ~early)
      <4>. DEFINE go == [job[t] EXCEPT !.stage = "charging", !.gated = allowed /\ line.burst > 0,
                           !.purse = Spend(purse, line.burst, job[t].now, body.cost)]
      <4>1. job' = [job EXCEPT ![t] = go]
        BY <1>12, <3>1, Zenon DEF RetryDecide, Goes
      <4>2. job[t].force \/ ~job[t].line.paused
        BY <3>1, Zenon DEF Allowed
      <4>3. /\ go.call = job[t].call /\ go.stage = "charging" /\ go.force = job[t].force
            /\ go.line = job[t].line
        BY <2>1 DEF Jobs
      <4>. HIDE DEF go
      <4>. QED BY <4>1, <4>2, <4>3
    <3>2. CASE ~(job[t].force \/ (allowed /\ ~early))
      <4>1. PICK w : job' = [job EXCEPT ![t] = [job[t] EXCEPT !.stage = "refusing",
                        !.body = [@ EXCEPT !.state = "deferred", !.next = w]]]
        BY <1>12, <3>2, Zenon DEF RetryDecide, Goes
      <4>. DEFINE refuse == [job[t] EXCEPT !.stage = "refusing",
                               !.body = [@ EXCEPT !.state = "deferred", !.next = w]]
      <4>2. /\ refuse.call = job[t].call /\ refuse.stage = "refusing"
            /\ refuse.body.state = "deferred"
        BY <2>1 DEF Jobs, Batches
      <4>. HIDE DEF refuse
      <4>. QED BY <4>1, <4>2 DEF refuse
    <3>. HIDE DEF line, body, purse, allowed, early
    <3>. QED BY <3>1, <3>2, Zenon
  <2>3. Carries(next, accepted)
    <3>1. CASE next.stage = "charging"
      <4>1. next.force \/ ~next.line.paused
        BY <2>2, <3>1, Zenon
      <4>. QED BY <2>1, <2>2, <3>1, <4>1 DEF Carries, Submits, Observes, Retries
    <3>2. CASE next.stage = "refusing"
      BY <2>1, <2>2, <3>2 DEF Carries, Submits, Observes, Retries
    <3>. QED BY <2>2, <3>1, <3>2
  <2>. QED BY <1>1, <2>1, <2>2, <2>3, CarriesStep
<1>13. ASSUME NEW t \in Threads, RetryRefuse(t)
       PROVE  Goal
  <2>1. /\ batches' = [batches EXCEPT ![job[t].batch] = job[t].body]
        /\ Over(t) /\ accepted' = accepted /\ job[t].stage = "refusing"
    BY <1>13 DEF RetryRefuse
  <2>2. /\ job[t].batch \in 1..Len(batches) /\ job[t].body \in Batches
        /\ job[t].call \in {"retry", "drain"}
    BY <2>1 DEF Named, Jobs, Fits
  <2>3. job[t].body.state # "complete"
    BY <2>1, <2>2 DEF Carries, Retries
  <2>4. CompleteMeansAccepted'
    BY <2>1, <2>2, <2>3, RowKept
  <2>. QED BY <2>1, <2>4, OverCarries
<1>14. ASSUME NEW t \in Threads, RetryUpdate(t)
       PROVE  Goal
  <2>1. /\ batches' = [batches EXCEPT ![job[t].batch] = Retried(job[t].body)]
        /\ Over(t) /\ accepted' = accepted /\ job[t].stage = "updating"
    BY <1>14 DEF RetryUpdate, Send
  <2>2. job[t].batch \in 1..Len(batches) /\ job[t].body \in Batches
    BY <2>1 DEF Named, Jobs
  <2>3. Retried(job[t].body) \in Batches /\ Retried(job[t].body).state # "complete"
    <3>1. Retried(job[t].body).state = "retrying"
      BY <2>2 DEF Retried, Batches
    <3>2. 0 \in Nat /\ NoAnswer \in Answers
      BY BlankTypes
    <3>. QED BY <2>2, <3>1, <3>2, BodyTypes
  <2>4. CompleteMeansAccepted'
    BY <2>1, <2>2, <2>3, RowKept
  <2>. QED BY <2>1, <2>4, OverCarries
<1>15. ASSUME NEW t \in Threads, Drain(t)
       PROVE  Goal
  <2>. DEFINE call == [IdleJob EXCEPT !.call = "drain", !.stage = "draining", !.todo = DueNow]
  <2>1. UNCHANGED <<batches, accepted>> /\ job' = [job EXCEPT ![t] = call]
    BY <1>15 DEF Drain, Start, records, books, history
  <2>2. Carries(call, accepted)
    BY DEF Carries, Submits, Observes, Retries, IdleJob
  <2>. HIDE DEF call
  <2>. QED BY <1>1, <2>1, <2>2, CarriesStep
<1>16. ASSUME NEW t \in Threads, DrainNext(t)
       PROVE  Goal
  <2>1. UNCHANGED <<batches, accepted>>
    BY <1>16 DEF DrainNext, records, books, history
  <2>2. PICK next : job' = [job EXCEPT ![t] = next] /\ Carries(next, accepted)
    <3>1. CASE Goes(t, IdleJob)
      BY <3>1, IdleCarries DEF Goes
    <3>2. ASSUME NEW b, Goes(t, [RetryOf(t, b) EXCEPT !.call = "drain", !.todo = job[t].todo \ {b}])
          PROVE  \E next : job' = [job EXCEPT ![t] = next] /\ Carries(next, accepted)
      <4>. DEFINE next == [RetryOf(t, b) EXCEPT !.call = "drain", !.todo = job[t].todo \ {b}]
      <4>1. job' = [job EXCEPT ![t] = next]
        BY <3>2 DEF Goes
      <4>2. next.call = "drain" /\ next.stage = "deciding"
        BY DEF RetryOf, IdleJob
      <4>. HIDE DEF next
      <4>3. Carries(next, accepted)
        BY <4>2 DEF Carries, Submits, Observes, Retries
      <4>. QED BY <4>1, <4>3
    <3>. QED BY <1>16, <3>1, <3>2 DEF DrainNext
  <2>. QED BY <1>1, <2>1, <2>2, CarriesStep
<1>17. ASSUME NEW t \in Threads, NEW line, Administer(t, line)
       PROVE  Goal
  <2>. DEFINE call == [IdleJob EXCEPT !.call = "admin", !.stage = "syncing", !.line = line]
  <2>1. UNCHANGED <<batches, accepted>> /\ job' = [job EXCEPT ![t] = call]
    BY <1>17 DEF Administer, Start, history
  <2>2. Carries(call, accepted)
    BY DEF Carries, Submits, Observes, Retries, IdleJob
  <2>. HIDE DEF call
  <2>. QED BY <1>1, <2>1, <2>2, CarriesStep
<1>18. ASSUME NEW t \in Threads, SyncRead(t)
       PROVE  Goal
  <2>1. /\ UNCHANGED <<batches, accepted>> /\ job[t].stage = "syncing" /\ job[t] \in Jobs
        /\ job' = [job EXCEPT ![t] = [job[t] EXCEPT !.stage = "resizing",
                                  !.purse = Refill(bucket, job[t].line.burst, clock)]]
    BY <1>18 DEF SyncRead, Goes, records, books, history
  <2>. DEFINE next == [job[t] EXCEPT !.stage = "resizing",
                                     !.purse = Refill(bucket, job[t].line.burst, clock)]
  <2>2. Carries(next, accepted)
    BY <2>1 DEF Jobs, Calls, Carries, Submits, Observes, Retries
  <2>. HIDE DEF next
  <2>. QED BY <1>1, <2>1, <2>2, CarriesStep DEF next
<1>19. ASSUME NEW t \in Threads, SyncWrite(t)
       PROVE  Goal
  <2>1. UNCHANGED <<batches, accepted>> /\ Over(t)
    BY <1>19 DEF SyncWrite, history
  <2>. QED BY <1>1, <2>1, OverCarries
<1>. HIDE DEF Goal
<1>. QED BY <1>2, <1>3, <1>4, <1>5, <1>6, <1>7, <1>8, <1>9, <1>10, <1>11, <1>12, <1>13, <1>14,
            <1>15, <1>16, <1>17, <1>18, <1>19 DEF Next, Handler, SetPaused, PatchConnection

LEMMA CallsHold == Spec => []CallInv
BY CallInit, CallInvStep, PTL DEF Spec

(* A batch is complete only when the vendor accepted it, whatever calls     *)
(* overlap and however late an answer is reported.                          *)
THEOREM AcceptedCorrect == Spec => []CompleteMeansAccepted
<1>1. CallInv => CompleteMeansAccepted
  BY DEF CallInv
<1>. QED BY <1>1, CallsHold, PTL
=============================================================================
