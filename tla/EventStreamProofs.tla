------------------------- MODULE EventStreamProofs -------------------------
(***************************************************************************)
(* Theorems about EventStream for every set of threads, list of            *)
(* subscriptions, ladder of retries and number of events and calls.        *)
(***************************************************************************)
EXTENDS EventStream, SequenceTheorems, FiniteSetTheorems, TLAPS

(* What a call is about, by its stage. *)
Sending == {"posting", "storing", "folding", "folded", "counting", "counted", "requiring",
            "confirming"}

Fits(call) ==
  /\ call.stage \in Sending => call.sub \in Subs
  /\ call.stage = "storing" /\ call.answer \in Answers => call.attempts >= 1
  /\ call.stage = "subscribing" <=> call.call = "subscribe"

CallsFit == \A t \in Threads : Fits(job[t])

(* At most one call creates a subscription, and there is room for it. *)
OneSubscriber ==
  /\ \A t \in Threads : job[t].call = "subscribe" => Len(subs) + 1 \in Subs
  /\ \A t, u \in Threads : job[t].call = "subscribe" /\ job[u].call = "subscribe" => t = u

(* The type invariant without the calls. *)
DataOK ==
  /\ hooks \in [Hooks -> HookRows]
  /\ subs \in Seq(SubRows) /\ DOMAIN subs \subseteq Subs
  /\ events \in Seq(Events)
  /\ rows \in Seq(Rows)
  /\ \A r \in DOMAIN rows : rows[r].state = "retrying" => rows[r].attempts \in 1..MaxRetries
  /\ calls \in 0..MaxCalls
  /\ posts \in [Subs -> Nat]
  /\ steady \in Seq(SUBSET Subs)
  /\ proven \in [Hooks -> Nat]
  /\ crashes \in 0..MaxMishaps
  /\ raced \in 0..MaxMishaps

TypeInv == DataOK /\ job \in [Threads -> Jobs] /\ CallsFit /\ OneSubscriber

-----------------------------------------------------------------------------
(* The constants, and the types of the records. *)

LEMMA HooksOf ==
  /\ Subs = 1..Len(HookOf) /\ Len(HookOf) \in Nat
  /\ \A s \in Subs : HookOf[s] \in Hooks
BY HookAssumption DEF Subs, Hooks

LEMMA RowTypes == NewHook \in HookRows /\ NewSub \in SubRows
BY DEF NewHook, NewSub, HookRows, SubRows

LEMMA ElementType ==
  ASSUME NEW S, NEW seq \in Seq(S), NEW k \in DOMAIN seq
  PROVE  seq[k] \in S /\ k \in Nat
OBVIOUS

LEMMA UpdateType ==
  ASSUME NEW S, NEW seq \in Seq(S), NEW k, NEW e \in S
  PROVE  /\ [seq EXCEPT ![k] = e] \in Seq(S)
         /\ DOMAIN [seq EXCEPT ![k] = e] = DOMAIN seq
         /\ Len([seq EXCEPT ![k] = e]) = Len(seq)
<1>. DEFINE next == [seq EXCEPT ![k] = e]
<1>1. DOMAIN seq = 1..Len(seq) /\ DOMAIN next = 1..Len(seq) /\ Len(seq) \in Nat
  OBVIOUS
<1>2. ASSUME NEW n \in 1..Len(seq)
      PROVE  next[n] \in S
  <2>1. next[n] = IF n = k THEN e ELSE seq[n]
    BY <1>1
  <2>. QED BY <1>1, <2>1
<1>3. next = [n \in 1..Len(seq) |-> next[n]]
  BY <1>1
<1>4. next \in [1..Len(seq) -> S]
  <2>. HIDE DEF next
  <2>. QED BY <1>2, <1>3
<1>5. next \in Seq(S) /\ Len(next) = Len(seq)
  <2>. HIDE DEF next
  <2>1. next \in Seq(S)
    BY <1>1, <1>4, SeqDef
  <2>2. Len(next) \in Nat /\ DOMAIN next = 1..Len(next)
    BY <2>1
  <2>. QED BY <1>1, <2>1, <2>2
<1>. QED BY <1>1, <1>5

LEMMA KeptFinite ==
  ASSUME DataOK, NEW S \in SUBSET DOMAIN subs
  PROVE  IsFiniteSet(S) /\ Cardinality(S) \in Nat
<1>1. IsFiniteSet(DOMAIN subs)
  <2>1. DOMAIN subs = 1..Len(subs) /\ Len(subs) \in Nat
    BY DEF DataOK
  <2>. QED BY <2>1, FS_Interval
<1>. QED BY <1>1, FS_Subset, FS_CardinalityType

LEMMA IdleType == IdleJob \in Jobs /\ Fits(IdleJob) /\ IdleJob.call # "subscribe"
<1>1. (CHOOSE h \in Hooks : TRUE) \in Hooks
  BY HookAssumption
<1>. QED BY <1>1, RowTypes DEF IdleJob, Jobs, Calls, Stages, Answers, Fits, Sending

(* A step of a call that creates no subscription, with the rows it writes.  *)
LEMMA CallStep ==
  ASSUME TypeInv, NEW t \in Threads, NEW next \in Jobs, Fits(next), next.call # "subscribe",
         job' = [job EXCEPT ![t] = next], DataOK', Len(subs') = Len(subs)
  PROVE  TypeInv'
<1>1. job' \in [Threads -> Jobs]
  BY DEF TypeInv
<1>2. \A u \in Threads : job'[u] = IF u = t THEN next ELSE job[u]
  BY DEF TypeInv
<1>3. CallsFit'
  BY <1>2 DEF TypeInv, CallsFit
<1>4. OneSubscriber'
  BY <1>2 DEF TypeInv, OneSubscriber
<1>. QED BY <1>1, <1>3, <1>4 DEF TypeInv

(* A step that only moves the call on. *)
LEMMA GoesStep ==
  ASSUME TypeInv, NEW t \in Threads, NEW next \in Jobs, Fits(next), next.call # "subscribe",
         Goes(t, next), UNCHANGED <<records, history>>
  PROVE  TypeInv'
<1>1. DataOK' /\ Len(subs') = Len(subs)
  BY DEF TypeInv, DataOK, Goes, records, history
<1>. QED BY <1>1, CallStep DEF Goes

LEMMA OverStep ==
  ASSUME TypeInv, NEW t \in Threads, Over(t), UNCHANGED <<records, history>>
  PROVE  TypeInv'
BY IdleType, GoesStep DEF Over

(* The bounds on the calls are kept. *)
LEMMA CountStep ==
  ASSUME TypeInv, NEW t \in Threads, NEW call, Start(t, call)
  PROVE  calls' \in 0..MaxCalls /\ raced' \in 0..MaxMishaps
BY BoundAssumption DEF TypeInv, DataOK, Start

LEMMA StartStep ==
  ASSUME TypeInv, NEW t \in Threads, NEW call \in Jobs, Fits(call), call.call # "subscribe",
         Start(t, call), UNCHANGED <<records, history>>
  PROVE  TypeInv'
<1>1. DataOK' /\ Len(subs') = Len(subs)
  BY CountStep DEF TypeInv, DataOK, records, history
<1>. QED BY <1>1, CallStep DEF Start

LEMMA OffPathType ==
  ASSUME DataOK, NEW gone, OffPath(gone)
  PROVE  /\ steady' \in Seq(SUBSET Subs)
         /\ DOMAIN steady' = DOMAIN steady
         /\ \A e \in DOMAIN steady : steady'[e] = steady[e] \ gone
<1>1. DOMAIN steady = 1..Len(steady) /\ Len(steady) \in Nat
      /\ steady' = [e \in 1..Len(steady) |-> steady[e] \ gone]
  BY DEF DataOK, OffPath
<1>2. \A e \in 1..Len(steady) : steady[e] \ gone \in SUBSET Subs
  BY <1>1 DEF DataOK
<1>3. steady' \in [1..Len(steady) -> SUBSET Subs]
  BY <1>1, <1>2
<1>. QED BY <1>1, <1>3, SeqDef

LEMMA InitType == Init => TypeInv
<1>. SUFFICES ASSUME Init PROVE TypeInv
  OBVIOUS
<1>1. PICK n \in 0..Len(HookOf) :
        /\ subs = [s \in 1..n |-> NewSub]
        /\ hooks = [h \in Hooks |->
             [NewHook EXCEPT !.subscriptions = Cardinality({s \in 1..n : HookOf[s] = h})]]
  BY DEF Init
<1>2. subs \in Seq(SubRows) /\ DOMAIN subs \subseteq Subs
  <2>1. n \in Nat /\ 1..n \subseteq Subs
    BY HooksOf
  <2>. QED BY <1>1, <2>1, RowTypes, SeqDef
<1>3. hooks \in [Hooks -> HookRows]
  <2>1. ASSUME NEW h \in Hooks
        PROVE  Cardinality({s \in 1..n : HookOf[s] = h}) \in Nat
    <3>1. IsFiniteSet(1..n)
      BY FS_Interval, HooksOf
    <3>2. {s \in 1..n : HookOf[s] = h} \subseteq 1..n
      OBVIOUS
    <3>. QED BY <3>1, <3>2, FS_Subset, FS_CardinalityType
  <2>. QED BY <1>1, <2>1, RowTypes DEF HookRows
<1>4. /\ events = <<>> /\ rows = <<>> /\ steady = <<>>
      /\ <<>> \in Seq(Events) /\ <<>> \in Seq(Rows) /\ <<>> \in Seq(SUBSET Subs)
      /\ DOMAIN rows = {}
  BY DEF Init
<1>5. /\ posts \in [Subs -> Nat] /\ proven \in [Hooks -> Nat]
      /\ calls = 0 /\ crashes = 0 /\ raced = 0
  BY DEF Init
<1>6. 0 \in 0..MaxCalls /\ 0 \in 0..MaxMishaps
  BY BoundAssumption
<1>7. DataOK
  BY <1>2, <1>3, <1>4, <1>5, <1>6 DEF DataOK
<1>8. job \in [Threads -> Jobs] /\ CallsFit /\ OneSubscriber
  BY IdleType DEF Init, CallsFit, OneSubscriber
<1>. QED BY <1>7, <1>8 DEF TypeInv

-----------------------------------------------------------------------------
(* Type correctness. *)

LEMMA SubStateType ==
  ASSUME DataOK, NEW s \in DOMAIN subs, NEW state \in {"live", "paused", "gone"}
  PROVE  /\ [subs EXCEPT ![s].state = state] \in Seq(SubRows)
         /\ DOMAIN [subs EXCEPT ![s].state = state] = DOMAIN subs
         /\ Len([subs EXCEPT ![s].state = state]) = Len(subs)
<1>1. subs \in Seq(SubRows) /\ subs[s] \in SubRows
  BY ElementType DEF DataOK
<1>2. [subs[s] EXCEPT !.state = state] \in SubRows
  BY <1>1 DEF SubRows
<1>3. [subs EXCEPT ![s].state = state] = [subs EXCEPT ![s] = [subs[s] EXCEPT !.state = state]]
  BY <1>1
<1>. QED BY <1>1, <1>2, <1>3, UpdateType

LEMMA FoldedType ==
  ASSUME NEW row \in SubRows, NEW base \in SubRows, NEW answer
  PROVE  Folded(row, base, answer) \in SubRows /\ Folded(row, base, answer).state = row.state
<1>1. /\ base.skipped + 1 \in Nat /\ base.filtered + 1 \in Nat
      /\ base.deliveries + 1 \in Nat /\ base.failures + 1 \in Nat
      /\ row.filtered \in Nat /\ row.failures \in Nat
  BY DEF SubRows
<1>2. CASE answer \in Withheld
  <2>. DEFINE filtered == IF answer = "excluded" THEN base.filtered + 1 ELSE row.filtered
  <2>1. filtered \in Nat
    BY <1>1
  <2>2. Folded(row, base, answer) =
          [row EXCEPT !.skipped = base.skipped + 1, !.filtered = filtered]
    BY <1>2 DEF Folded, SubRows
  <2>. QED BY <1>1, <2>1, <2>2 DEF SubRows
<1>3. CASE answer \notin Withheld
  <2>. DEFINE failures == IF answer = "ok" THEN row.failures ELSE base.failures + 1
  <2>1. failures \in Nat
    BY <1>1
  <2>2. Folded(row, base, answer) =
          [row EXCEPT !.deliveries = base.deliveries + 1, !.failures = failures]
    BY <1>3 DEF Folded, SubRows
  <2>. QED BY <1>1, <2>1, <2>2 DEF SubRows
<1>. QED BY <1>2, <1>3

LEMMA StateAfterType ==
  ASSUME NEW answer \in Answers \cup Withheld, NEW attempt \in Nat
  PROVE  /\ StateAfter(answer, attempt) \in States
         /\ StateAfter(answer, attempt) = "skipped" <=> answer \in Withheld
         /\ StateAfter(answer, attempt) = "retrying" => answer \in Answers /\ attempt <= MaxRetries
BY DEF StateAfter, States, Answers, Withheld

LEMMA ThroughType ==
  ASSUME NEW t \in Threads, job[t] \in Jobs, job[t].call # "subscribe", NEW s
  PROVE  /\ Through(t, s) \in Jobs /\ Fits(Through(t, s))
         /\ Through(t, s).call # "subscribe" /\ Through(t, s).stage = "fanning"
<1>1. job[t].todo \ {s} \in SUBSET Subs /\ "fanning" \in Stages
  BY DEF Jobs, Stages
<1>2. Through(t, s) \in Jobs
  BY <1>1 DEF Through, Jobs
<1>. QED BY <1>2 DEF Through, Jobs, Fits, Sending

(* Where a call is after the counters of a subscription were written. *)
LEMMA AfterFoldType ==
  ASSUME NEW t \in Threads, job[t] \in Jobs, Fits(job[t]), job[t].stage = "folded", AfterFold(t)
  PROVE  \E next \in Jobs : Goes(t, next) /\ Fits(next) /\ next.call # "subscribe"
<1>1. job[t].sub \in Subs /\ job[t].call # "subscribe"
  BY DEF Fits, Sending
<1>2. CASE Counted(t) /\ Goes(t, [job[t] EXCEPT !.stage = "counting"])
  <2>. DEFINE next == [job[t] EXCEPT !.stage = "counting"]
  <2>1. next \in Jobs /\ Fits(next) /\ next.call # "subscribe"
    BY <1>1 DEF Jobs, Stages, Fits, Sending
  <2>. QED BY <1>2, <2>1
<1>3. CASE Goes(t, [Through(t, job[t].sub) EXCEPT !.left = @ + 1])
  <2>. DEFINE next == [Through(t, job[t].sub) EXCEPT !.left = @ + 1]
  <2>1. Through(t, job[t].sub) \in Jobs /\ Fits(Through(t, job[t].sub))
        /\ Through(t, job[t].sub).call # "subscribe"
    BY <1>1, ThroughType
  <2>2. next \in Jobs /\ Fits(next) /\ next.call # "subscribe"
    BY <2>1 DEF Jobs, Stages, Fits, Sending
  <2>. QED BY <1>3, <2>2
<1>4. CASE Goes(t, [job[t] EXCEPT !.stage = "confirming"])
  <2>. DEFINE next == [job[t] EXCEPT !.stage = "confirming"]
  <2>1. next \in Jobs /\ Fits(next) /\ next.call # "subscribe"
    BY <1>1 DEF Jobs, Stages, Fits, Sending
  <2>. QED BY <1>4, <2>1
<1>5. CASE Over(t)
  BY <1>5, IdleType DEF Over
<1>. QED BY <1>2, <1>3, <1>4, <1>5 DEF AfterFold

LEMMA RecountOverType ==
  ASSUME NEW t \in Threads, job[t] \in Jobs, Fits(job[t]),
         job[t].stage \in {"recounting", "recounted"}, RecountOver(t)
  PROVE  \E next \in Jobs : Goes(t, next) /\ Fits(next) /\ next.call # "subscribe"
<1>1. CASE job[t].call = "retire"
  <2>. DEFINE next == [job[t] EXCEPT !.stage = "retiring"]
  <2>1. next \in Jobs /\ Fits(next) /\ next.call # "subscribe"
    BY <1>1 DEF Jobs, Stages, Fits, Sending
  <2>. QED BY <1>1, <2>1 DEF RecountOver
<1>2. CASE job[t].call # "retire"
  BY <1>2, IdleType DEF RecountOver, Over
<1>. QED BY <1>1, <1>2

(* The step of each action. *)

LEMMA RecordEventType ==
  ASSUME TypeInv, NEW t \in Threads, NEW interest \in Interests, RecordEvent(t, interest)
  PROVE  TypeInv'
<1>. DEFINE call == [IdleJob EXCEPT !.call = "event", !.stage = "listing",
                                    !.event = Len(events) + 1]
            event == [interest |-> interest, deliveries |-> 0, skipped |-> 0, updated |-> FALSE]
<1>0. DataOK
  BY DEF TypeInv
<1>1. call \in Jobs /\ Fits(call) /\ call.call # "subscribe"
  <2>1. Len(events) + 1 \in Nat
    BY <1>0 DEF DataOK
  <2>. QED BY <2>1, IdleType DEF Jobs, Calls, Stages, Fits, Sending
<1>2. events' \in Seq(Events)
  <2>1. event \in Events
    BY DEF Events
  <2>2. events' = Append(events, event) /\ events \in Seq(Events)
    BY <1>0 DEF RecordEvent, DataOK
  <2>. HIDE DEF event
  <2>. QED BY <2>1, <2>2
<1>3. steady' \in Seq(SUBSET Subs)
  <2>1. Steadily(interest) \in SUBSET Subs
    BY <1>0 DEF Steadily, Live, DataOK
  <2>2. steady' = Append(steady, Steadily(interest)) /\ steady \in Seq(SUBSET Subs)
    BY <1>0 DEF RecordEvent, DataOK
  <2>. QED BY <2>1, <2>2
<1>4. Start(t, call) /\ UNCHANGED <<hooks, subs, rows, posts, proven, crashes>>
  BY DEF RecordEvent
<1>5. DataOK'
  <2>1. calls' \in 0..MaxCalls /\ raced' \in 0..MaxMishaps
    BY <1>4, CountStep
  <2>. QED BY <1>0, <1>2, <1>3, <1>4, <2>1 DEF DataOK
<1>6. job' = [job EXCEPT ![t] = call]
  BY <1>4 DEF Start
<1>. HIDE DEF call
<1>. QED BY <1>1, <1>4, <1>5, <1>6, CallStep

LEMMA ListType ==
  ASSUME TypeInv, NEW t \in Threads, List(t)
  PROVE  TypeInv'
<1>. DEFINE todo == {s \in Kept : events[job[t].event].interest[s] # "other"}
            next == [job[t] EXCEPT !.stage = "fanning", !.todo = todo, !.off = Kept \ Live]
<1>1. todo \in SUBSET Subs /\ Kept \ Live \in SUBSET Subs
  BY DEF Kept, TypeInv, DataOK
<1>2. job[t] \in Jobs /\ job[t].stage = "listing" /\ Fits(job[t])
  BY DEF List, TypeInv, CallsFit
<1>3. next \in Jobs /\ Fits(next) /\ next.call # "subscribe"
  <2>. HIDE DEF todo
  <2>. QED BY <1>1, <1>2 DEF Jobs, Stages, Fits, Sending
<1>. QED BY <1>3, GoesStep DEF List

LEMMA FanType ==
  ASSUME TypeInv, NEW t \in Threads, NEW s \in job[t].todo, Fan(t, s)
  PROVE  TypeInv'
<1>. DEFINE h == HookOf[s]
<1>1. /\ job[t] \in Jobs /\ job[t].stage = "fanning" /\ Fits(job[t]) /\ s \in Subs /\ s \in Nat
      /\ UNCHANGED <<records, history>>
  <2>1. job[t] \in Jobs /\ Fits(job[t]) /\ job[t].todo \subseteq Subs
    BY DEF TypeInv, CallsFit, Jobs
  <2>2. s \in Subs /\ s \in Nat
    BY <2>1, HooksOf
  <2>. QED BY <2>1, <2>2 DEF Fan
<1>2. job[t].call # "subscribe" /\ h \in Hooks /\ hooks[h] \in HookRows
  BY <1>1, HooksOf DEF Fits, TypeInv, DataOK
<1>3. CASE Over(t)
  BY <1>1, <1>3, OverStep
<1>4. ASSUME NEW reason \in Reason(t, s),
             Goes(t, [job[t] EXCEPT !.stage = "storing", !.sub = s, !.answer = reason])
      PROVE  TypeInv'
  <2>. DEFINE next == [job[t] EXCEPT !.stage = "storing", !.sub = s, !.answer = reason]
  <2>1. reason \in Withheld
    BY DEF Reason, Withheld
  <2>2. next \in Jobs /\ Fits(next) /\ next.call # "subscribe"
    BY <1>1, <1>2, <2>1 DEF Jobs, Stages, Fits, Sending, Answers, Withheld
  <2>. QED BY <1>1, <1>4, <2>2, GoesStep
<1>5. CASE Goes(t, Through(t, s))
  BY <1>1, <1>2, <1>5, ThroughType, GoesStep
<1>6. CASE Goes(t, [job[t] EXCEPT !.stage = "posting", !.sub = s, !.line = hooks[h],
                                  !.attempts = 0, !.seen = @ \cup {h}])
  <2>. DEFINE next == [job[t] EXCEPT !.stage = "posting", !.sub = s, !.line = hooks[h],
                                     !.attempts = 0, !.seen = @ \cup {h}]
  <2>1. job[t].seen \cup {h} \in SUBSET Hooks
    BY <1>1, <1>2 DEF Jobs
  <2>2. next \in Jobs /\ Fits(next) /\ next.call # "subscribe"
    BY <1>1, <1>2, <2>1 DEF Jobs, Stages, Fits, Sending
  <2>. QED BY <1>1, <1>6, <2>2, GoesStep
<1>. QED BY <1>3, <1>4, <1>5, <1>6 DEF Fan

LEMMA FanOverType ==
  ASSUME TypeInv, NEW t \in Threads, FanOver(t)
  PROVE  TypeInv'
<1>. DEFINE e == job[t].event
            row == [events[e] EXCEPT !.deliveries = job[t].taken, !.skipped = job[t].left,
                                     !.updated = TRUE]
<1>1. events \in Seq(Events) /\ job[t] \in Jobs
  BY DEF TypeInv, DataOK
<1>2. events' = [events EXCEPT ![e] = row]
  BY DEF FanOver
<1>3. events' \in Seq(Events)
  <2>1. CASE e \in DOMAIN events
    <3>1. events[e] \in Events
      BY <1>1, <2>1, ElementType
    <3>2. row \in Events
      BY <1>1, <3>1 DEF Events, Jobs
    <3>. HIDE DEF row
    <3>. QED BY <1>1, <1>2, <3>2, UpdateType
  <2>2. CASE e \notin DOMAIN events
    <3>1. events = [k \in 1..Len(events) |-> events[k]]
      BY <1>1
    <3>2. events' = events
      BY <1>2, <2>2, <3>1
    <3>. QED BY <1>1, <3>2
  <2>. QED BY <2>1, <2>2
<1>4. /\ job' = [job EXCEPT ![t] = IdleJob]
      /\ UNCHANGED <<calls, raced, hooks, subs, rows, history>>
  BY DEF FanOver, Over, Goes
<1>5. DataOK' /\ Len(subs') = Len(subs)
  BY <1>3, <1>4 DEF TypeInv, DataOK, history
<1>. QED BY <1>4, <1>5, IdleType, CallStep

LEMMA PostType ==
  ASSUME TypeInv, NEW t \in Threads, NEW answer \in Answers, Post(t, answer)
  PROVE  TypeInv'
<1>. DEFINE attempts == IF job[t].attempts > MaxRetries THEN job[t].attempts
                        ELSE job[t].attempts + 1
            next == [job[t] EXCEPT !.stage = "storing", !.answer = answer, !.attempts = attempts]
<1>1. job[t] \in Jobs /\ job[t].stage = "posting" /\ Fits(job[t])
  BY DEF Post, TypeInv, CallsFit
<1>2. attempts \in Nat /\ attempts >= 1
  BY <1>1, BoundAssumption DEF Jobs
<1>3. next \in Jobs /\ Fits(next) /\ next.call # "subscribe"
  <2>. HIDE DEF attempts
  <2>. QED BY <1>1, <1>2 DEF Jobs, Stages, Fits, Sending
<1>4. /\ job' = [job EXCEPT ![t] = next]
      /\ UNCHANGED <<calls, raced, records, steady, crashes>>
  BY DEF Post, Goes
<1>5. posts' \in [Subs -> Nat]
  <2>1. posts \in [Subs -> Nat] /\ posts' = [posts EXCEPT ![job[t].sub] = @ + 1]
    BY DEF Post, TypeInv, DataOK
  <2>2. job[t].sub \in Subs
    BY <1>1 DEF Fits, Sending
  <2>. QED BY <2>1, <2>2
<1>6. proven' \in [Hooks -> Nat]
  BY <1>1 DEF Post, TypeInv, DataOK, Jobs, HookRows
<1>7. DataOK' /\ Len(subs') = Len(subs)
  BY <1>4, <1>5, <1>6 DEF TypeInv, DataOK, records
<1>. HIDE DEF next
<1>. QED BY <1>3, <1>4, <1>7, CallStep

LEMMA StoreDeliveryType ==
  ASSUME TypeInv, NEW t \in Threads, StoreDelivery(t)
  PROVE  TypeInv'
<1>. DEFINE next == [job[t] EXCEPT !.stage = "folding"]
            body == [event |-> job[t].event, sub |-> job[t].sub, attempts |-> job[t].attempts,
                     state |-> StateAfter(job[t].answer, job[t].attempts)]
<1>1. /\ job[t] \in Jobs /\ job[t].stage = "storing" /\ Fits(job[t])
      /\ job[t].attempts \in Nat /\ job[t].answer \in Answers \cup Withheld
      /\ job[t].event \in Nat /\ job[t].sub \in Subs
  BY DEF StoreDelivery, TypeInv, CallsFit, Jobs, Fits, Sending
<1>2. body \in Rows /\ body.state = "retrying" => body.attempts \in 1..MaxRetries
  <2>1. body.state \in States /\ body.state = "retrying" =>
          job[t].answer \in Answers /\ job[t].attempts <= MaxRetries
    BY <1>1, StateAfterType
  <2>2. job[t].answer \in Answers => job[t].attempts >= 1
    BY <1>1 DEF Fits
  <2>3. MaxRetries \in Nat
    BY BoundAssumption
  <2>. QED BY <1>1, <2>1, <2>2, <2>3 DEF Rows
<1>. HIDE DEF body
<1>3. /\ rows \in Seq(Rows)
      /\ \A r \in DOMAIN rows : rows[r].state = "retrying" => rows[r].attempts \in 1..MaxRetries
      /\ rows' = IF job[t].call = "retry" THEN [rows EXCEPT ![job[t].row] = body]
                 ELSE Append(rows, body)
  BY DEF StoreDelivery, TypeInv, DataOK, body
<1>4. body \in Rows
  BY <1>1, StateAfterType DEF body, Rows
<1>5. /\ rows' \in Seq(Rows)
      /\ \A r \in DOMAIN rows' : rows'[r] = body \/ (r \in DOMAIN rows /\ rows'[r] = rows[r])
  <2>1. CASE job[t].call = "retry"
    BY <1>3, <1>4, <2>1, UpdateType
  <2>2. CASE job[t].call # "retry"
    BY <1>3, <1>4, <2>2
  <2>. QED BY <2>1, <2>2
<1>6. /\ job' = [job EXCEPT ![t] = next]
      /\ UNCHANGED <<calls, raced, hooks, subs, events, history>>
  BY DEF StoreDelivery, Goes
<1>7. DataOK' /\ Len(subs') = Len(subs)
  BY <1>2, <1>3, <1>5, <1>6 DEF TypeInv, DataOK, history
<1>8. next \in Jobs /\ Fits(next) /\ next.call # "subscribe"
  BY <1>1 DEF Jobs, Stages, Fits, Sending
<1>. HIDE DEF next
<1>. QED BY <1>6, <1>7, <1>8, CallStep

LEMMA FoldReadType ==
  ASSUME TypeInv, NEW t \in Threads, FoldRead(t)
  PROVE  TypeInv'
<1>. DEFINE s == job[t].sub
            next == [job[t] EXCEPT !.stage = "folded", !.base = subs[s]]
<1>1. job[t] \in Jobs /\ job[t].stage = "folding" /\ Fits(job[t]) /\ UNCHANGED <<records, history>>
  BY DEF FoldRead, TypeInv, CallsFit
<1>2. CASE Over(t)
  BY <1>1, <1>2, OverStep
<1>3. CASE s \in Kept /\ Goes(t, next)
  <2>1. subs[s] \in SubRows
    BY <1>3, ElementType DEF Kept, TypeInv, DataOK
  <2>2. next \in Jobs /\ Fits(next) /\ next.call # "subscribe"
    BY <1>1, <2>1 DEF Jobs, Stages, Fits, Sending
  <2>. QED BY <1>1, <1>3, <2>2, GoesStep
<1>. QED BY <1>2, <1>3 DEF FoldRead

LEMMA FoldWriteType ==
  ASSUME TypeInv, NEW t \in Threads, FoldWrite(t)
  PROVE  TypeInv'
<1>. DEFINE s == job[t].sub
            row == Folded(subs[s], job[t].base, job[t].answer)
<1>1. /\ job[t] \in Jobs /\ job[t].stage = "folded" /\ Fits(job[t]) /\ job[t].base \in SubRows
      /\ UNCHANGED <<hooks, events, rows, history>>
  BY DEF FoldWrite, TypeInv, CallsFit, Jobs
<1>2. CASE Over(t) /\ UNCHANGED subs
  BY <1>1, <1>2, OverStep DEF records
<1>3. CASE s \in Kept /\ subs' = [subs EXCEPT ![s] = row] /\ AfterFold(t)
  <2>1. subs \in Seq(SubRows) /\ subs[s] \in SubRows
    BY <1>3, ElementType DEF Kept, TypeInv, DataOK
  <2>2. row \in SubRows
    BY <1>1, <2>1, FoldedType
  <2>3. subs' \in Seq(SubRows) /\ DOMAIN subs' = DOMAIN subs /\ Len(subs') = Len(subs)
    <3>1. \A e \in SubRows : /\ [subs EXCEPT ![s] = e] \in Seq(SubRows)
                             /\ DOMAIN [subs EXCEPT ![s] = e] = DOMAIN subs
                             /\ Len([subs EXCEPT ![s] = e]) = Len(subs)
      BY <2>1, UpdateType
    <3>. QED BY <1>3, <2>2, <3>1
  <2>4. PICK next \in Jobs : Goes(t, next) /\ Fits(next) /\ next.call # "subscribe"
    BY <1>1, <1>3, AfterFoldType
  <2>5. DataOK'
    BY <1>1, <2>3, <2>4 DEF TypeInv, DataOK, Goes, history
  <2>. QED BY <2>3, <2>4, <2>5, CallStep DEF Goes
<1>. QED BY <1>2, <1>3 DEF FoldWrite

LEMMA CountReadType ==
  ASSUME TypeInv, NEW t \in Threads, CountRead(t)
  PROVE  TypeInv'
<1>. DEFINE h == HookOf[job[t].sub]
            next == [job[t] EXCEPT !.stage = "counted", !.line = hooks[h]]
<1>1. /\ job[t] \in Jobs /\ job[t].stage = "counting" /\ Fits(job[t])
      /\ UNCHANGED <<records, history>>
  BY DEF CountRead, TypeInv, CallsFit
<1>2. CASE Over(t)
  BY <1>1, <1>2, OverStep
<1>3. CASE Goes(t, next)
  <2>1. hooks[h] \in HookRows
    BY <1>1, HooksOf DEF Fits, Sending, TypeInv, DataOK
  <2>2. next \in Jobs /\ Fits(next) /\ next.call # "subscribe"
    BY <1>1, <2>1 DEF Jobs, Stages, Fits, Sending
  <2>. QED BY <1>1, <1>3, <2>2, GoesStep
<1>. QED BY <1>2, <1>3 DEF CountRead

LEMMA CountWriteType ==
  ASSUME TypeInv, NEW t \in Threads, CountWrite(t)
  PROVE  TypeInv'
<1>. DEFINE h == HookOf[job[t].sub]
            failed == IF job[t].answer = "ok" THEN 0 ELSE 1
            next == [Through(t, job[t].sub) EXCEPT !.taken = @ + 1]
<1>1. /\ job[t] \in Jobs /\ job[t].stage = "counted" /\ Fits(job[t]) /\ job[t].line \in HookRows
      /\ UNCHANGED <<subs, events, rows, history>>
  BY DEF CountWrite, TypeInv, CallsFit, Jobs
<1>2. CASE Over(t) /\ UNCHANGED hooks
  BY <1>1, <1>2, OverStep DEF records
<1>3. CASE /\ hooks' = [hooks EXCEPT ![h].deliveries = job[t].line.deliveries + 1,
                                     ![h].failures = job[t].line.failures + failed]
           /\ Goes(t, next)
  <2>1. job[t].line.deliveries + 1 \in Nat /\ job[t].line.failures + failed \in Nat
    BY <1>1 DEF HookRows
  <2>2. hooks' \in [Hooks -> HookRows]
    <3>1. hooks \in [Hooks -> HookRows] /\ h \in Hooks
      BY <1>1, HooksOf DEF Fits, Sending, TypeInv, DataOK
    <3>. HIDE DEF failed, h
    <3>2. [hooks[h] EXCEPT !.deliveries = job[t].line.deliveries + 1,
                           !.failures = job[t].line.failures + failed] \in HookRows
      BY <2>1, <3>1 DEF HookRows
    <3>3. hooks' = [hooks EXCEPT ![h] =
            [hooks[h] EXCEPT !.deliveries = job[t].line.deliveries + 1,
                             !.failures = job[t].line.failures + failed]]
      BY <1>3, <3>1 DEF HookRows
    <3>. QED BY <3>1, <3>2, <3>3
  <2>3. Through(t, job[t].sub) \in Jobs /\ Fits(Through(t, job[t].sub))
        /\ Through(t, job[t].sub).call # "subscribe"
    BY <1>1, ThroughType DEF Fits
  <2>4. next \in Jobs /\ Fits(next) /\ next.call # "subscribe"
    BY <2>3 DEF Jobs, Stages, Fits, Sending
  <2>5. DataOK'
    BY <1>1, <1>3, <2>2 DEF TypeInv, DataOK, Goes, history
  <2>. QED BY <1>1, <1>3, <2>4, <2>5, CallStep DEF Goes
<1>. QED BY <1>2, <1>3 DEF CountWrite

LEMMA RetryType ==
  ASSUME TypeInv, NEW t \in Threads, NEW r \in DOMAIN rows, Retry(t, r)
  PROVE  TypeInv'
<1>. DEFINE call == [IdleJob EXCEPT !.call = "retry", !.stage = "requiring", !.row = r,
                                    !.event = rows[r].event, !.sub = rows[r].sub,
                                    !.attempts = rows[r].attempts]
<1>1. rows[r] \in Rows /\ r \in Nat
  BY ElementType DEF TypeInv, DataOK
<1>2. rows[r].sub \in Subs /\ rows[r].sub \in Nat
  BY <1>1, HooksOf DEF Rows
<1>3. call \in Jobs /\ Fits(call) /\ call.call # "subscribe"
  BY <1>1, <1>2, IdleType DEF Rows, Jobs, Calls, Stages, Fits, Sending
<1>. QED BY <1>3, StartStep DEF Retry

LEMMA RetryRequireType ==
  ASSUME TypeInv, NEW t \in Threads, RetryRequire(t)
  PROVE  TypeInv'
<1>. DEFINE h == HookOf[job[t].sub]
            next == [job[t] EXCEPT !.stage = "posting", !.line = hooks[h]]
<1>1. /\ job[t] \in Jobs /\ job[t].stage = "requiring" /\ Fits(job[t])
      /\ UNCHANGED <<records, history>>
  BY DEF RetryRequire, TypeInv, CallsFit
<1>2. CASE Over(t)
  BY <1>1, <1>2, OverStep
<1>3. CASE Goes(t, next)
  <2>1. hooks[h] \in HookRows
    BY <1>1, HooksOf DEF Fits, Sending, TypeInv, DataOK
  <2>2. next \in Jobs /\ Fits(next) /\ next.call # "subscribe"
    BY <1>1, <2>1 DEF Jobs, Stages, Fits, Sending
  <2>. QED BY <1>1, <1>3, <2>2, GoesStep
<1>. QED BY <1>2, <1>3 DEF RetryRequire

(* A call that ends with a write to the webhooks. *)
LEMMA HooksOverType ==
  ASSUME TypeInv, NEW t \in Threads, Over(t), UNCHANGED <<subs, events, rows, history>>,
         hooks' \in [Hooks -> HookRows]
  PROVE  TypeInv'
<1>1. DataOK' /\ Len(subs') = Len(subs) /\ job' = [job EXCEPT ![t] = IdleJob]
  BY DEF Over, Goes, TypeInv, DataOK, history
<1>. QED BY <1>1, IdleType, CallStep

LEMMA ConfirmRotationType ==
  ASSUME TypeInv, NEW t \in Threads, ConfirmRotation(t)
  PROVE  TypeInv'
<1>. DEFINE h == HookOf[job[t].sub]
            row == [hooks[h] EXCEPT !.confirmed = TRUE]
<1>1. job[t].sub \in Subs /\ hooks \in [Hooks -> HookRows]
  BY DEF ConfirmRotation, TypeInv, DataOK, CallsFit, Fits, Sending
<1>2. h \in Hooks /\ hooks[h] \in HookRows
  BY <1>1, HooksOf
<1>3. hooks' = hooks \/ hooks' = [hooks EXCEPT ![h] = row]
  BY <1>1, <1>2 DEF ConfirmRotation
<1>4. row \in HookRows
  BY <1>2 DEF HookRows
<1>5. hooks' \in [Hooks -> HookRows]
  BY <1>1, <1>3, <1>4
<1>. QED BY <1>5, HooksOverType DEF ConfirmRotation

LEMMA RotateWriteType ==
  ASSUME TypeInv, NEW t \in Threads, RotateWrite(t)
  PROVE  TypeInv'
<1>. DEFINE h == job[t].hook
<1>1. hooks \in [Hooks -> HookRows] /\ h \in Hooks /\ job[t].line.secret \in Nat
  BY DEF TypeInv, DataOK, Jobs, HookRows
<1>2. hooks[h] \in HookRows /\ hooks[h].secret + 1 \in Nat
  BY <1>1 DEF HookRows
<1>3. hooks' \in [Hooks -> HookRows]
  <2>1. [hooks[h] EXCEPT !.secret = @ + 1, !.previous = job[t].line.secret,
                         !.confirmed = FALSE] \in HookRows
    BY <1>1, <1>2 DEF HookRows
  <2>2. hooks' = hooks \/ hooks' = [hooks EXCEPT ![h] =
          [hooks[h] EXCEPT !.secret = @ + 1, !.previous = job[t].line.secret,
                           !.confirmed = FALSE]]
    BY <1>1, <1>2 DEF RotateWrite, HookRows
  <2>. QED BY <1>1, <2>1, <2>2
<1>. QED BY <1>3, HooksOverType DEF RotateWrite

LEMMA RotateType ==
  ASSUME TypeInv, NEW t \in Threads, NEW h \in Hooks, Rotate(t, h)
  PROVE  TypeInv'
<1>. DEFINE call == [IdleJob EXCEPT !.call = "rotate", !.stage = "rotating", !.hook = h,
                                    !.line = hooks[h]]
<1>1. call \in Jobs /\ Fits(call) /\ call.call # "subscribe"
  BY IdleType DEF TypeInv, DataOK, Jobs, Calls, Stages, Fits, Sending
<1>. QED BY <1>1, StartStep DEF Rotate

LEMMA RetireType ==
  ASSUME TypeInv, NEW t \in Threads, NEW h \in Hooks, Retire(t, h)
  PROVE  TypeInv'
<1>. DEFINE todo == Kept \cap Under(h)
            call == [IdleJob EXCEPT !.call = "retire", !.stage = "retiring", !.hook = h,
                                    !.todo = todo]
<1>1. todo \in SUBSET Subs
  BY DEF Under
<1>2. call \in Jobs /\ Fits(call) /\ call.call # "subscribe"
  <2>. HIDE DEF todo
  <2>. QED BY <1>1, IdleType DEF Jobs, Calls, Stages, Fits, Sending
<1>. QED BY <1>2, StartStep DEF Retire

LEMMA PauseWebhookType ==
  ASSUME TypeInv, NEW t \in Threads, NEW h \in Hooks, NEW state \in {"live", "paused"},
         PauseWebhook(t, h, state)
  PROVE  TypeInv'
<1>1. hooks' \in [Hooks -> HookRows]
  BY DEF PauseWebhook, TypeInv, DataOK, HookRows
<1>2. steady' \in Seq(SUBSET Subs)
  BY OffPathType DEF PauseWebhook, TypeInv
<1>3. Start(t, IdleJob) /\ UNCHANGED <<subs, events, rows, posts, proven, crashes>>
  BY DEF PauseWebhook
<1>4. DataOK' /\ Len(subs') = Len(subs)
  BY <1>1, <1>2, <1>3, CountStep DEF TypeInv, DataOK
<1>. QED BY <1>3, <1>4, IdleType, CallStep DEF Start

LEMMA RecountsType ==
  ASSUME NEW t \in Threads, NEW s \in Subs
  PROVE  /\ Recounts(t, "edit", s) \in Jobs /\ Fits(Recounts(t, "edit", s))
         /\ Recounts(t, "edit", s).call # "subscribe"
BY HooksOf, IdleType DEF Recounts, Jobs, Calls, Stages, Fits, Sending

(* An edit of a subscription that is there. *)
LEMMA EditType ==
  ASSUME TypeInv, NEW t \in Threads, NEW s \in DOMAIN subs,
         NEW state \in {"live", "paused", "gone"},
         Start(t, Recounts(t, "edit", s)), subs' = [subs EXCEPT ![s].state = state],
         OffPath({s}), UNCHANGED <<hooks, events, rows, posts, proven, crashes>>
  PROVE  TypeInv'
<1>1. DataOK /\ s \in Subs
  BY DEF TypeInv, DataOK
<1>2. subs' \in Seq(SubRows) /\ DOMAIN subs' = DOMAIN subs /\ Len(subs') = Len(subs)
  BY <1>1, SubStateType
<1>3. steady' \in Seq(SUBSET Subs)
  BY <1>1, OffPathType
<1>4. DataOK'
  BY <1>1, <1>2, <1>3, CountStep DEF DataOK
<1>. QED BY <1>1, <1>2, <1>4, RecountsType, CallStep DEF Start

LEMMA PauseSubscriptionType ==
  ASSUME TypeInv, NEW t \in Threads, NEW s \in DOMAIN subs, NEW state \in {"live", "paused"},
         PauseSubscription(t, s, state)
  PROVE  TypeInv'
BY EditType DEF PauseSubscription

LEMMA UnsubscribeType ==
  ASSUME TypeInv, NEW t \in Threads, NEW s \in DOMAIN subs, Unsubscribe(t, s)
  PROVE  TypeInv'
BY EditType DEF Unsubscribe

LEMMA RecountType ==
  ASSUME TypeInv, NEW t \in Threads, Recount(t)
  PROVE  TypeInv'
<1>. DEFINE h == job[t].hook
            next == [job[t] EXCEPT !.stage = "recounted", !.count = Cardinality(Live \cap Under(h))]
<1>1. /\ job[t] \in Jobs /\ job[t].stage = "recounting" /\ Fits(job[t])
      /\ UNCHANGED <<records, history>>
  BY DEF Recount, TypeInv, CallsFit
<1>2. CASE RecountOver(t)
  BY <1>1, <1>2, RecountOverType, GoesStep
<1>3. CASE Goes(t, next)
  <2>1. Live \cap Under(h) \in SUBSET DOMAIN subs
    BY DEF Live
  <2>2. Cardinality(Live \cap Under(h)) \in Nat
    BY <2>1, KeptFinite DEF TypeInv
  <2>3. next \in Jobs /\ Fits(next) /\ next.call # "subscribe"
    BY <1>1, <2>2 DEF Jobs, Stages, Fits, Sending
  <2>. QED BY <1>1, <1>3, <2>3, GoesStep
<1>. QED BY <1>2, <1>3 DEF Recount

LEMMA RecountWriteType ==
  ASSUME TypeInv, NEW t \in Threads, RecountWrite(t)
  PROVE  TypeInv'
<1>. DEFINE h == job[t].hook
<1>1. /\ job[t] \in Jobs /\ job[t].stage = "recounted" /\ Fits(job[t])
      /\ UNCHANGED <<subs, events, rows, history>>
  BY DEF RecountWrite, TypeInv, CallsFit
<1>2. CASE Over(t) /\ UNCHANGED hooks
  BY <1>1, <1>2, OverStep DEF records
<1>3. CASE hooks' = [hooks EXCEPT ![h].subscriptions = job[t].count] /\ RecountOver(t)
  <2>1. hooks' \in [Hooks -> HookRows]
    <3>1. hooks \in [Hooks -> HookRows] /\ h \in Hooks /\ job[t].count \in Nat
      BY <1>1 DEF TypeInv, DataOK, Jobs
    <3>2. [hooks[h] EXCEPT !.subscriptions = job[t].count] \in HookRows
      BY <3>1 DEF HookRows
    <3>. QED BY <1>3, <3>1, <3>2
  <2>2. PICK next \in Jobs : Goes(t, next) /\ Fits(next) /\ next.call # "subscribe"
    BY <1>1, <1>3, RecountOverType
  <2>3. DataOK' /\ Len(subs') = Len(subs)
    BY <1>1, <2>1, <2>2 DEF TypeInv, DataOK, Goes, history
  <2>. QED BY <2>2, <2>3, CallStep DEF Goes
<1>. QED BY <1>2, <1>3 DEF RecountWrite

LEMMA SubscribeType ==
  ASSUME TypeInv, NEW t \in Threads, Subscribe(t)
  PROVE  TypeInv'
<1>. DEFINE h == HookOf[Len(subs) + 1]
            call == [IdleJob EXCEPT !.call = "subscribe", !.stage = "subscribing", !.hook = h]
<1>1. /\ Len(subs) + 1 \in Subs /\ h \in Hooks /\ \A u \in Threads : job[u].call # "subscribe"
      /\ Start(t, call) /\ UNCHANGED <<records, history>>
  BY HooksOf DEF Subscribe
<1>2. call \in Jobs /\ Fits(call)
  BY <1>1, IdleType DEF Jobs, Calls, Stages, Fits, Sending
<1>. HIDE DEF call
<1>3. DataOK'
  BY <1>1, CountStep DEF TypeInv, DataOK, records, history
<1>4. /\ job' \in [Threads -> Jobs]
      /\ \A u \in Threads : job'[u] = IF u = t THEN call ELSE job[u]
  BY <1>1, <1>2 DEF Start, TypeInv
<1>5. CallsFit' /\ OneSubscriber'
  BY <1>1, <1>2, <1>4 DEF TypeInv, CallsFit, OneSubscriber, records
<1>. QED BY <1>3, <1>4, <1>5 DEF TypeInv

LEMMA SubscribeWriteType ==
  ASSUME TypeInv, NEW t \in Threads, SubscribeWrite(t)
  PROVE  TypeInv'
<1>. DEFINE next == [job[t] EXCEPT !.call = "edit", !.stage = "recounting"]
<1>1. /\ job[t] \in Jobs /\ job[t].stage = "subscribing" /\ Fits(job[t])
      /\ subs' = Append(subs, NewSub) /\ Goes(t, next)
      /\ UNCHANGED <<hooks, events, rows, history>>
  BY DEF SubscribeWrite, TypeInv, CallsFit
<1>2. next \in Jobs /\ Fits(next) /\ next.call # "subscribe"
  BY <1>1 DEF Jobs, Calls, Stages, Fits, Sending
<1>3. job[t].call = "subscribe" /\ Len(subs) + 1 \in Subs
  BY <1>1 DEF Fits, TypeInv, OneSubscriber
<1>4. subs' \in Seq(SubRows) /\ DOMAIN subs' \subseteq Subs
  <2>1. subs \in Seq(SubRows) /\ DOMAIN subs \subseteq Subs
    BY DEF TypeInv, DataOK
  <2>. QED BY <1>1, <1>3, <2>1, RowTypes
<1>5. DataOK'
  BY <1>1, <1>4 DEF TypeInv, DataOK, Goes, history
<1>. HIDE DEF next
<1>6. /\ job' \in [Threads -> Jobs]
      /\ \A u \in Threads : job'[u] = IF u = t THEN next ELSE job[u]
  BY <1>1, <1>2 DEF Goes, TypeInv
<1>7. CallsFit'
  BY <1>2, <1>6 DEF TypeInv, CallsFit
<1>8. \A u \in Threads : job'[u].call # "subscribe"
  BY <1>2, <1>3, <1>6 DEF TypeInv, OneSubscriber
<1>. QED BY <1>5, <1>6, <1>7, <1>8 DEF TypeInv, OneSubscriber

LEMMA RetireNextType ==
  ASSUME TypeInv, NEW t \in Threads, NEW s \in job[t].todo, RetireNext(t, s)
  PROVE  TypeInv'
<1>. DEFINE next == [job[t] EXCEPT !.stage = "recounting", !.todo = @ \ {s}]
<1>1. /\ job[t] \in Jobs /\ job[t].stage = "retiring" /\ Fits(job[t])
      /\ UNCHANGED <<hooks, events, rows, posts, proven, crashes>>
  BY DEF RetireNext, TypeInv, CallsFit
<1>2. CASE Over(t) /\ UNCHANGED <<subs, steady>>
  BY <1>1, <1>2, OverStep DEF records, history
<1>3. CASE s \in Kept /\ subs' = [subs EXCEPT ![s].state = "gone"] /\ OffPath({s}) /\ Goes(t, next)
  <2>1. DataOK /\ s \in DOMAIN subs
    BY <1>3 DEF TypeInv, Kept
  <2>2. subs' \in Seq(SubRows) /\ DOMAIN subs' = DOMAIN subs /\ Len(subs') = Len(subs)
    BY <1>3, <2>1, SubStateType
  <2>3. steady' \in Seq(SUBSET Subs)
    BY <1>3, <2>1, OffPathType
  <2>4. DataOK'
    BY <1>1, <1>3, <2>1, <2>2, <2>3 DEF DataOK, Goes
  <2>5. next \in Jobs /\ Fits(next) /\ next.call # "subscribe"
    <3>1. job[t].todo \ {s} \in SUBSET Subs
      BY <1>1 DEF Jobs
    <3>. QED BY <1>1, <3>1 DEF Jobs, Stages, Fits, Sending
  <2>. QED BY <1>3, <2>2, <2>4, <2>5, CallStep DEF Goes
<1>. QED BY <1>2, <1>3 DEF RetireNext

LEMMA RetireHookType ==
  ASSUME TypeInv, NEW t \in Threads, RetireHook(t)
  PROVE  TypeInv'
<1>1. hooks' \in [Hooks -> HookRows]
  BY DEF RetireHook, TypeInv, DataOK, HookRows
<1>2. steady' \in Seq(SUBSET Subs)
  BY OffPathType DEF RetireHook, TypeInv
<1>3. Over(t) /\ UNCHANGED <<subs, events, rows, posts, proven, crashes>>
  BY DEF RetireHook
<1>4. DataOK' /\ Len(subs') = Len(subs)
  BY <1>1, <1>2, <1>3 DEF TypeInv, DataOK, Over, Goes
<1>. QED BY <1>3, <1>4, IdleType, CallStep DEF Over, Goes

LEMMA CrashType ==
  ASSUME TypeInv, Crash
  PROVE  TypeInv'
<1>1. DataOK'
  BY BoundAssumption DEF Crash, TypeInv, DataOK, records
<1>2. /\ job' \in [Threads -> Jobs]
      /\ \A u \in Threads : job'[u] = IdleJob
  BY IdleType DEF Crash
<1>3. CallsFit' /\ OneSubscriber'
  BY <1>2, IdleType DEF CallsFit, OneSubscriber
<1>. QED BY <1>1, <1>2, <1>3 DEF TypeInv

LEMMA TypeStep ==
  ASSUME TypeInv, [Next]_vars
  PROVE  TypeInv'
<1>1. CASE UNCHANGED vars
  BY <1>1 DEF TypeInv, DataOK, CallsFit, OneSubscriber, vars, records, history
<1>2. ASSUME NEW t \in Threads, Handler(t)
      PROVE  TypeInv'
  BY <1>2, ListType, FanType, FanOverType, PostType, StoreDeliveryType, FoldReadType,
     FoldWriteType, CountReadType, CountWriteType, RetryRequireType, ConfirmRotationType,
     RotateWriteType, RecountType, RecountWriteType, SubscribeWriteType, RetireNextType,
     RetireHookType DEF Handler
<1>. QED
  BY <1>1, <1>2, RecordEventType, RetryType, RotateType, RetireType, PauseWebhookType,
     PauseSubscriptionType, UnsubscribeType, SubscribeType, CrashType DEF Next

(* In every run every variable holds a value of its type; a delivery that   *)
(* is to be retried has made at least one attempt and at most as many as    *)
(* the ladder has rungs.                                                    *)
THEOREM TypeCorrect == Spec => []TypeOK
<1>1. TypeInv /\ [Next]_vars => TypeInv'
  BY TypeStep
<1>2. TypeInv => TypeOK
  BY DEF TypeInv, DataOK, TypeOK
<1>. QED BY InitType, <1>1, <1>2, PTL DEF Spec

-----------------------------------------------------------------------------
(* Once per webhook.  A call that fans an event out is the only one to add  *)
(* rows of it, and its `seen` are the webhooks with such a row, but for the *)
(* one whose POST is under way.                                             *)

SentIn(held, e, h) ==
  {r \in DOMAIN held : held[r].event = e /\ HookOf[held[r].sub] = h /\ held[r].state # "skipped"}

(* A POST is made, and its row is not written. *)
UnderWay(call) == call.stage = "posting" \/ (call.stage = "storing" /\ call.answer \in Answers)

(* The subscription of the call was dealt with, and is still in `todo`. *)
Settling == {"storing", "folding", "folded", "counting", "counted"}

FansOut(call, held, recorded, path) ==
  LET e == call.event
      hook == HookOf[call.sub]
  IN /\ e \in DOMAIN recorded /\ ~recorded[e].updated
     /\ \A h \in Hooks :
          h \in call.seen <=> (SentIn(held, e, h) # {} \/ (UnderWay(call) /\ h = hook))
     /\ UnderWay(call) => SentIn(held, e, hook) = {}
     /\ call.stage # "listing" =>
          \A s \in path[e] : s \notin call.off /\ (s \in call.todo \/ HookOf[s] \in call.seen)
     /\ call.stage \in Settling => (call.sub \in path[e] => hook \in call.seen)

(* A retry writes over a row of the same event and subscription. *)
Retries(call, held) ==
  /\ call.row \in DOMAIN held
  /\ held[call.row].event = call.event /\ held[call.row].sub = call.sub
  /\ held[call.row].state # "skipped"
  /\ call.stage = "storing" => call.answer \in Answers

(* The stages of the two calls that make POSTs. *)
Placed(call) ==
  /\ call.stage \in {"listing", "fanning", "counting", "counted"} => call.call = "event"
  /\ call.stage \in {"posting", "storing", "folding", "folded"} => call.call \in {"event", "retry"}
  /\ call.stage \in {"requiring", "confirming"} => call.call = "retry"
  /\ call.call = "event" => call.stage \in {"listing", "fanning", "posting"} \cup Settling
  /\ call.call = "retry" => call.stage \in {"requiring", "confirming", "posting", "storing",
                                            "folding", "folded"}

Good(call, held, recorded, path) ==
  /\ Placed(call)
  /\ call.call = "event" => FansOut(call, held, recorded, path)
  /\ call.call = "retry" => Retries(call, held)

EventsNamed ==
  /\ DOMAIN steady = DOMAIN events
  /\ \A r \in DOMAIN rows : rows[r].event \in DOMAIN events

(* A subscription on the path of an event is live, as its webhook is. *)
OnPath ==
  \A e \in DOMAIN events : \A s \in steady[e] :
    /\ s \in DOMAIN subs /\ subs[s].state = "live"
    /\ hooks[HookOf[s]].state = "live"
    /\ events[e].interest[s] = "match"

SentOnce ==
  \A e \in DOMAIN events, h \in Hooks : \A q, r \in SentIn(rows, e, h) : q = r

SentToAll ==
  \A e \in DOMAIN events : events[e].updated =>
    \A s \in steady[e] : SentIn(rows, e, HookOf[s]) # {}

OneFanOut ==
  \A t, u \in Threads :
    job[t].call = "event" /\ job[u].call = "event" /\ job[t].event = job[u].event => t = u

SentInv ==
  /\ TypeInv /\ EventsNamed /\ OnPath /\ SentOnce /\ SentToAll /\ OneFanOut
  /\ \A t \in Threads : Good(job[t], rows, events, steady)

LEMMA IdleCall == IdleJob.call = "edit"
BY DEF IdleJob

LEMMA IdleGood == \A held, recorded, path : Good(IdleJob, held, recorded, path)
BY DEF Good, Placed, IdleJob

(* Subscriptions may leave the path under a call. *)
Shrinks(path, next) ==
  DOMAIN next = DOMAIN path /\ \A e \in DOMAIN path : next[e] \subseteq path[e]

LEMMA GoodShrinks ==
  ASSUME NEW call, NEW held, NEW recorded, NEW path, NEW next,
         Good(call, held, recorded, path), DOMAIN path = DOMAIN recorded, Shrinks(path, next)
  PROVE  Good(call, held, recorded, next)
<1>1. CASE call.call = "event"
  <2>1. call.event \in DOMAIN path /\ next[call.event] \subseteq path[call.event]
    BY <1>1 DEF Good, FansOut, Shrinks
  <2>. QED BY <1>1, <2>1 DEF Good, FansOut
<1>2. CASE call.call # "event"
  BY <1>2 DEF Good
<1>. QED BY <1>1, <1>2

(* A step of a call that writes no event and no delivery. *)
LEMMA QuietStep ==
  ASSUME SentInv, TypeInv', UNCHANGED <<events, rows>>, Shrinks(steady, steady'), OnPath',
         NEW t \in Threads, NEW next, job' = [job EXCEPT ![t] = next],
         Good(next, rows, events, steady'),
         next.call = "event" => job[t].call = "event" /\ next.event = job[t].event
  PROVE  SentInv'
<1>1. EventsNamed'
  BY DEF SentInv, EventsNamed, Shrinks
<1>2. SentOnce'
  BY DEF SentInv, SentOnce
<1>3. SentToAll'
  BY DEF SentInv, SentToAll, EventsNamed, Shrinks
<1>4. \A u \in Threads : job'[u] = IF u = t THEN next ELSE job[u]
  BY DEF SentInv, TypeInv
<1>5. OneFanOut'
  BY <1>4 DEF SentInv, OneFanOut
<1>6. ASSUME NEW u \in Threads
      PROVE  Good(job'[u], rows', events', steady')
  <2>1. Good(job[u], rows, events, steady')
    BY GoodShrinks DEF SentInv, EventsNamed
  <2>. QED BY <1>4, <2>1
<1>. QED BY <1>1, <1>2, <1>3, <1>5, <1>6 DEF SentInv

LEMMA InitSent == Init => SentInv
<1>. SUFFICES ASSUME Init PROVE SentInv
  OBVIOUS
<1>1. TypeInv
  BY InitType
<1>2. events = <<>> /\ rows = <<>> /\ steady = <<>>
  BY DEF Init
<1>3. EventsNamed /\ OnPath /\ SentOnce /\ SentToAll
  BY <1>2 DEF EventsNamed, OnPath, SentOnce, SentToAll
<1>4. \A t \in Threads : job[t] = IdleJob
  BY DEF Init
<1>5. OneFanOut
  BY <1>4, IdleCall DEF OneFanOut
<1>. QED BY <1>1, <1>3, <1>4, <1>5, IdleGood DEF SentInv

(* Nobody leaves the path. *)
LEMMA SamePath ==
  ASSUME SentInv, UNCHANGED <<events, steady>>,
         DOMAIN subs \subseteq DOMAIN subs',
         \A s \in DOMAIN subs : subs'[s].state = subs[s].state,
         \A h \in Hooks : hooks'[h].state = hooks[h].state
  PROVE  Shrinks(steady, steady') /\ OnPath'
<1>1. Shrinks(steady, steady')
  BY DEF Shrinks
<1>2. \A s \in DOMAIN subs : HookOf[s] \in Hooks
  BY HooksOf DEF SentInv, TypeInv, DataOK
<1>. QED BY <1>1, <1>2 DEF SentInv, OnPath

(* A step that only moves a call on, or ends it. *)
LEMMA QuietGoes ==
  ASSUME SentInv, TypeInv', UNCHANGED <<records, steady>>,
         NEW t \in Threads, NEW next, job' = [job EXCEPT ![t] = next],
         Good(next, rows, events, steady),
         next.call = "event" => job[t].call = "event" /\ next.event = job[t].event
  PROVE  SentInv'
<1>1. Shrinks(steady, steady') /\ OnPath'
  BY SamePath DEF records
<1>. QED BY <1>1, QuietStep DEF records

LEMMA QuietOver ==
  ASSUME SentInv, TypeInv', UNCHANGED <<records, steady>>, NEW t \in Threads, Over(t)
  PROVE  SentInv'
BY QuietGoes, IdleGood DEF Over, Goes, IdleJob

(* A call that makes no POST. *)
LEMMA PlainGood ==
  ASSUME NEW call, call.call \notin {"event", "retry"},
         call.stage \in {"idle", "rotating", "recounting", "recounted", "subscribing", "retiring"}
  PROVE  Good(call, rows, events, steady)
BY DEF Good, Placed

(* The webhooks change in their counters and secrets only. *)
LEMMA HooksChange ==
  ASSUME TypeInv, NEW h \in Hooks, NEW row, row.state = hooks[h].state,
         hooks' = [hooks EXCEPT ![h] = row]
  PROVE  \A g \in Hooks : hooks'[g].state = hooks[g].state
BY DEF TypeInv, DataOK

-----------------------------------------------------------------------------
(* The step of each action. *)

LEMMA RecordEventSent ==
  ASSUME SentInv, TypeInv', NEW t \in Threads, NEW interest \in Interests,
         RecordEvent(t, interest)
  PROVE  SentInv'
<1>. DEFINE e == Len(events) + 1
            event == [interest |-> interest, deliveries |-> 0, skipped |-> 0, updated |-> FALSE]
            call == [IdleJob EXCEPT !.call = "event", !.stage = "listing", !.event = e]
            on == Steadily(interest)
<1>1. /\ events \in Seq(Events) /\ steady \in Seq(SUBSET Subs) /\ Len(events) = Len(steady)
      /\ DOMAIN events = 1..Len(events) /\ DOMAIN steady = DOMAIN events /\ Len(events) \in Nat
      /\ \A r \in DOMAIN rows : rows[r].event \in DOMAIN events
  <2>1. /\ events \in Seq(Events) /\ steady \in Seq(SUBSET Subs) /\ DOMAIN steady = DOMAIN events
        /\ \A r \in DOMAIN rows : rows[r].event \in DOMAIN events
    BY DEF SentInv, TypeInv, DataOK, EventsNamed
  <2>2. /\ DOMAIN events = 1..Len(events) /\ DOMAIN steady = 1..Len(steady)
        /\ Len(events) \in Nat /\ Len(steady) \in Nat
    BY <2>1
  <2>. QED BY <2>1, <2>2
<1>2. /\ events' = Append(events, event) /\ steady' = Append(steady, on)
      /\ UNCHANGED <<hooks, subs, rows>> /\ job' = [job EXCEPT ![t] = call]
      /\ on \in SUBSET Subs /\ event \in Events
  BY DEF RecordEvent, Start, Steadily, Live, Events, SentInv, TypeInv, DataOK
<1>. HIDE DEF event, on
<1>3. /\ DOMAIN events' = DOMAIN events \cup {e} /\ DOMAIN steady' = DOMAIN events'
      /\ e \notin DOMAIN events /\ events'[e] = event /\ steady'[e] = on
      /\ \A d \in DOMAIN events : events'[d] = events[d] /\ steady'[d] = steady[d]
  BY <1>1, <1>2
<1>. HIDE DEF e
<1>4. EventsNamed'
  BY <1>1, <1>2, <1>3 DEF EventsNamed
<1>5. OnPath'
  <2>1. \A s \in on : /\ s \in DOMAIN subs /\ subs[s].state = "live"
                      /\ hooks[HookOf[s]].state = "live" /\ event.interest[s] = "match"
    BY DEF on, event, Steadily, Live
  <2>. QED BY <1>2, <1>3, <2>1 DEF SentInv, OnPath
<1>6. \A h : SentIn(rows, e, h) = {}
  BY <1>1, <1>3 DEF SentIn
<1>7. SentOnce' /\ SentToAll'
  BY <1>2, <1>3, <1>6 DEF SentInv, SentOnce, SentToAll, event
<1>8. \A u \in Threads : job'[u] = IF u = t THEN call ELSE job[u]
  BY <1>2 DEF SentInv, TypeInv
<1>9. call.call = "event" /\ call.stage = "listing" /\ call.event = e /\ call.seen = {}
  BY DEF IdleJob
<1>. HIDE DEF call
<1>10. \A u \in Threads : job[u].call = "event" => job[u].event \in DOMAIN events
  BY DEF SentInv, Good, FansOut
<1>11. OneFanOut'
  BY <1>3, <1>8, <1>9, <1>10 DEF SentInv, OneFanOut
<1>12. ASSUME NEW u \in Threads
       PROVE  Good(job'[u], rows', events', steady')
  <2>1. CASE u = t
    <3>1. Placed(call) /\ ~UnderWay(call)
      BY <1>9 DEF Placed, UnderWay, Settling
    <3>2. FansOut(call, rows', events', steady')
      BY <1>2, <1>3, <1>6, <1>9, <3>1 DEF FansOut, Settling, event
    <3>. QED BY <1>8, <1>9, <2>1, <3>1, <3>2 DEF Good
  <2>2. CASE u # t
    <3>1. Good(job[u], rows, events, steady) /\ job'[u] = job[u]
      BY <1>8, <2>2 DEF SentInv
    <3>2. job[u].call = "event" => FansOut(job[u], rows', events', steady')
      BY <1>2, <1>3, <1>10, <3>1 DEF Good, FansOut
    <3>. QED BY <1>2, <3>1, <3>2 DEF Good
  <2>. QED BY <2>1, <2>2
<1>. QED BY <1>4, <1>5, <1>7, <1>11, <1>12 DEF SentInv

LEMMA ListSent ==
  ASSUME SentInv, TypeInv', NEW t \in Threads, List(t)
  PROVE  SentInv'
<1>. DEFINE e == job[t].event
            todo == {s \in Kept : events[e].interest[s] # "other"}
            off == Kept \ Live
            next == [job[t] EXCEPT !.stage = "fanning", !.todo = todo, !.off = off]
<1>1. /\ job[t] \in Jobs /\ job[t].stage = "listing" /\ Good(job[t], rows, events, steady)
      /\ UNCHANGED <<records, history>> /\ job' = [job EXCEPT ![t] = next]
  BY DEF SentInv, TypeInv, List, Goes
<1>2. job[t].call = "event" /\ FansOut(job[t], rows, events, steady)
  BY <1>1 DEF Good, Placed
<1>3. \A s \in steady[e] : s \notin off /\ s \in todo
  <2>1. e \in DOMAIN events
    BY <1>2 DEF FansOut
  <2>. QED BY <2>1 DEF SentInv, OnPath, Kept, Live
<1>. HIDE DEF todo, off
<1>4. /\ next.call = "event" /\ next.event = e /\ next.stage = "fanning" /\ next.todo = todo
      /\ next.off = off /\ next.seen = job[t].seen
  BY <1>1, <1>2 DEF Jobs
<1>. HIDE DEF next
<1>5. ~UnderWay(job[t]) /\ ~UnderWay(next) /\ Placed(next)
  BY <1>1, <1>4 DEF UnderWay, Placed
<1>6. FansOut(next, rows, events, steady)
  BY <1>2, <1>3, <1>4, <1>5 DEF FansOut, Settling
<1>. QED BY <1>1, <1>2, <1>4, <1>5, <1>6, QuietGoes DEF Good, history

(* What the invariant reads of a call. *)
SameCall(call, next) ==
  /\ next.call = call.call /\ next.stage = call.stage /\ next.event = call.event
  /\ next.todo = call.todo /\ next.off = call.off /\ next.seen = call.seen
  /\ next.sub = call.sub /\ next.row = call.row /\ next.answer = call.answer

LEMMA SameGood ==
  ASSUME NEW call, NEW next, SameCall(call, next), Good(call, rows, events, steady)
  PROVE  Good(next, rows, events, steady)
<1>1. Placed(next)
  BY DEF Good, Placed, SameCall
<1>2. next.call = "event" => FansOut(next, rows, events, steady)
  BY DEF Good, FansOut, SameCall, UnderWay
<1>3. next.call = "retry" => Retries(next, rows)
  BY DEF Good, Retries, SameCall
<1>. QED BY <1>1, <1>2, <1>3 DEF Good

(* A candidate is done with: it is off the path, or its webhook was sent to. *)
LEMMA ThroughGood ==
  ASSUME NEW t \in Threads, job[t] \in Jobs, Good(job[t], rows, events, steady), NEW s,
         job[t].call = "event", job[t].stage # "listing", ~UnderWay(job[t]),
         s \in steady[job[t].event] => HookOf[s] \in job[t].seen
  PROVE  /\ Good(Through(t, s), rows, events, steady)
         /\ Through(t, s).call = "event" /\ Through(t, s).event = job[t].event
<1>. DEFINE next == Through(t, s)
<1>1. /\ next.call = "event" /\ next.event = job[t].event /\ next.stage = "fanning"
      /\ next.todo = job[t].todo \ {s} /\ next.off = job[t].off /\ next.seen = job[t].seen
  BY DEF Through, Jobs
<1>. HIDE DEF next
<1>2. Placed(next) /\ ~UnderWay(next)
  BY <1>1 DEF Placed, UnderWay
<1>3. FansOut(job[t], rows, events, steady)
  BY DEF Good
<1>4. FansOut(next, rows, events, steady)
  BY <1>1, <1>2, <1>3 DEF FansOut, Settling
<1>5. Good(next, rows, events, steady)
  BY <1>1, <1>2, <1>4 DEF Good
<1>. QED BY <1>1, <1>5 DEF next

LEMMA FanSent ==
  ASSUME SentInv, TypeInv', NEW t \in Threads, NEW s \in job[t].todo, Fan(t, s)
  PROVE  SentInv'
<1>. DEFINE e == job[t].event
            h == HookOf[s]
<1>1. /\ job[t] \in Jobs /\ job[t].stage = "fanning" /\ Good(job[t], rows, events, steady)
      /\ UNCHANGED <<records, steady>>
  BY DEF SentInv, TypeInv, Fan, history
<1>2. job[t].call = "event" /\ FansOut(job[t], rows, events, steady) /\ ~UnderWay(job[t])
  BY <1>1 DEF Good, Placed, UnderWay
<1>3. s \in Subs /\ h \in Hooks /\ s \in Nat
  BY <1>1, HooksOf DEF Jobs
<1>4. CASE Over(t)
  BY <1>1, <1>4, QuietOver
<1>5. ASSUME NEW reason \in Reason(t, s),
             Goes(t, [job[t] EXCEPT !.stage = "storing", !.sub = s, !.answer = reason])
      PROVE  SentInv'
  <2>. DEFINE next == [job[t] EXCEPT !.stage = "storing", !.sub = s, !.answer = reason]
  <2>1. s \notin steady[e]
    <3>1. e \in DOMAIN events /\ \A r \in steady[e] : r \notin job[t].off
      BY <1>1, <1>2 DEF FansOut
    <3>2. s \in steady[e] => /\ hooks[h].state = "live" /\ events[e].interest[s] = "match"
                             /\ s \notin job[t].off
      BY <3>1 DEF SentInv, OnPath
    <3>. QED BY <3>2 DEF Reason
  <2>2. reason \notin Answers
    BY DEF Reason, Answers
  <2>3. /\ next.call = "event" /\ next.event = e /\ next.stage = "storing" /\ next.sub = s
        /\ next.answer = reason /\ next.todo = job[t].todo /\ next.off = job[t].off
        /\ next.seen = job[t].seen
    BY <1>1, <1>2 DEF Jobs
  <2>4. job' = [job EXCEPT ![t] = next]
    BY <1>5 DEF Goes
  <2>. HIDE DEF next
  <2>5. Placed(next) /\ ~UnderWay(next)
    BY <2>2, <2>3 DEF Placed, UnderWay, Settling
  <2>6. FansOut(next, rows, events, steady)
    BY <1>1, <1>2, <2>1, <2>3, <2>5 DEF FansOut
  <2>. QED BY <1>1, <1>2, <2>3, <2>4, <2>5, <2>6, QuietGoes DEF Good
<1>6. CASE Repeats(t, s) /\ Goes(t, Through(t, s))
  <2>1. /\ Good(Through(t, s), rows, events, steady)
        /\ Through(t, s).call = "event" /\ Through(t, s).event = job[t].event
    BY <1>1, <1>2, <1>6, ThroughGood DEF Repeats
  <2>. QED BY <1>1, <1>2, <1>6, <2>1, QuietGoes DEF Goes
<1>7. CASE ~Repeats(t, s) /\ Goes(t, [job[t] EXCEPT !.stage = "posting", !.sub = s,
                            !.line = hooks[h], !.attempts = 0, !.seen = @ \cup {h}])
  <2>. DEFINE next == [job[t] EXCEPT !.stage = "posting", !.sub = s, !.line = hooks[h],
                                     !.attempts = 0, !.seen = @ \cup {h}]
  <2>1. SentIn(rows, e, h) = {}
    BY <1>2, <1>3, <1>7 DEF FansOut, Repeats
  <2>2. /\ next.call = "event" /\ next.event = e /\ next.stage = "posting" /\ next.sub = s
        /\ next.todo = job[t].todo /\ next.off = job[t].off
        /\ next.seen = job[t].seen \cup {h}
    BY <1>1, <1>2 DEF Jobs
  <2>3. job' = [job EXCEPT ![t] = next]
    BY <1>7 DEF Goes
  <2>. HIDE DEF next
  <2>4. Placed(next) /\ UnderWay(next)
    BY <2>2 DEF Placed, UnderWay
  <2>5. FansOut(next, rows, events, steady)
    BY <1>1, <1>2, <2>1, <2>2, <2>4 DEF FansOut, Settling
  <2>. QED BY <1>1, <1>2, <2>2, <2>3, <2>4, <2>5, QuietGoes DEF Good
<1>. QED BY <1>4, <1>5, <1>6, <1>7 DEF Fan

LEMMA FanOverSent ==
  ASSUME SentInv, TypeInv', NEW t \in Threads, FanOver(t)
  PROVE  SentInv'
<1>. DEFINE e == job[t].event
            row == [events[e] EXCEPT !.deliveries = job[t].taken, !.skipped = job[t].left,
                                     !.updated = TRUE]
<1>1. /\ job[t] \in Jobs /\ job[t].stage = "fanning" /\ Good(job[t], rows, events, steady)
      /\ job[t].todo = {} /\ UNCHANGED <<hooks, subs, rows, steady>>
      /\ events' = [events EXCEPT ![e] = row] /\ job' = [job EXCEPT ![t] = IdleJob]
      /\ events \in Seq(Events)
  BY DEF SentInv, TypeInv, DataOK, FanOver, Over, Goes, history
<1>2. job[t].call = "event" /\ FansOut(job[t], rows, events, steady) /\ ~UnderWay(job[t])
  BY <1>1 DEF Good, Placed, UnderWay
<1>3. e \in DOMAIN events /\ events[e] \in Events
  BY <1>1, <1>2, ElementType DEF FansOut
<1>4. /\ DOMAIN events' = DOMAIN events /\ events'[e] = row
      /\ \A d \in DOMAIN events : d # e => events'[d] = events[d]
      /\ row.interest = events[e].interest
  BY <1>1, <1>3 DEF Events
<1>. HIDE DEF row
<1>5. EventsNamed' /\ OnPath'
  BY <1>1, <1>3, <1>4 DEF SentInv, EventsNamed, OnPath
<1>6. SentOnce'
  BY <1>1, <1>4 DEF SentInv, SentOnce
<1>7. SentToAll'
  <2>1. \A s \in steady[e] : SentIn(rows, e, HookOf[s]) # {}
    <3>1. steady[e] \subseteq Subs
      <4>1. steady \in Seq(SUBSET Subs) /\ e \in DOMAIN steady
        BY <1>3 DEF SentInv, EventsNamed, TypeInv, DataOK
      <4>. QED BY <4>1, ElementType
    <3>. QED BY <1>1, <1>2, <3>1, HooksOf DEF FansOut
  <2>. QED BY <1>1, <1>4, <2>1 DEF SentInv, SentToAll
<1>8. \A u \in Threads : job'[u] = IF u = t THEN IdleJob ELSE job[u]
  BY <1>1 DEF SentInv, TypeInv
<1>9. OneFanOut'
  BY <1>8, IdleCall DEF SentInv, OneFanOut
<1>10. ASSUME NEW u \in Threads
       PROVE  Good(job'[u], rows', events', steady')
  <2>1. CASE u = t
    BY <1>8, <2>1, IdleGood
  <2>2. CASE u # t
    <3>1. Good(job[u], rows, events, steady) /\ job'[u] = job[u]
      BY <1>8, <2>2 DEF SentInv
    <3>2. job[u].call = "event" => job[u].event # e
      BY <1>2, <2>2 DEF SentInv, OneFanOut
    <3>3. job[u].call = "event" => FansOut(job[u], rows', events', steady')
      BY <1>1, <1>4, <3>1, <3>2 DEF Good, FansOut
    <3>. QED BY <1>1, <3>1, <3>3 DEF Good
  <2>. QED BY <2>1, <2>2
<1>. QED BY <1>5, <1>6, <1>7, <1>9, <1>10 DEF SentInv

LEMMA PostSent ==
  ASSUME SentInv, TypeInv', NEW t \in Threads, NEW answer \in Answers, Post(t, answer)
  PROVE  SentInv'
<1>. DEFINE attempts == IF job[t].attempts > MaxRetries THEN job[t].attempts
                        ELSE job[t].attempts + 1
            next == [job[t] EXCEPT !.stage = "storing", !.answer = answer, !.attempts = attempts]
<1>1. /\ job[t] \in Jobs /\ job[t].stage = "posting" /\ Good(job[t], rows, events, steady)
      /\ UNCHANGED <<records, steady>> /\ job' = [job EXCEPT ![t] = next]
      /\ job[t].sub \in Subs
  BY DEF SentInv, TypeInv, CallsFit, Fits, Sending, Post, Goes
<1>2. /\ next.call = job[t].call /\ next.event = job[t].event /\ next.stage = "storing"
      /\ next.sub = job[t].sub /\ next.answer = answer /\ next.row = job[t].row
      /\ next.todo = job[t].todo /\ next.off = job[t].off /\ next.seen = job[t].seen
  BY <1>1 DEF Jobs
<1>. HIDE DEF next
<1>3. Placed(next) /\ UnderWay(next) /\ UnderWay(job[t])
  BY <1>1, <1>2 DEF Good, Placed, UnderWay, Settling
<1>4. next.call = "event" => FansOut(next, rows, events, steady)
  BY <1>1, <1>2, <1>3, HooksOf DEF Good, FansOut
<1>5. next.call = "retry" => Retries(next, rows)
  BY <1>1, <1>2 DEF Good, Retries
<1>. QED BY <1>1, <1>2, <1>3, <1>4, <1>5, QuietGoes DEF Good

(* Rows are added, and written over without a change of event and           *)
(* subscription and never from or to a skip.                                *)
Extends(held, next) ==
  /\ DOMAIN held \subseteq DOMAIN next
  /\ \A r \in DOMAIN held : /\ next[r].event = held[r].event /\ next[r].sub = held[r].sub
                            /\ next[r].state = "skipped" <=> held[r].state = "skipped"

LEMMA RetriesExtends ==
  ASSUME NEW call, NEW held, NEW next, Retries(call, held), Extends(held, next)
  PROVE  Retries(call, next)
BY DEF Retries, Extends

LEMMA AppendExtends ==
  ASSUME NEW held \in Seq(Rows), NEW body \in Rows
  PROVE  /\ Extends(held, Append(held, body))
         /\ DOMAIN Append(held, body) = DOMAIN held \cup {Len(held) + 1}
         /\ Len(held) + 1 \notin DOMAIN held
         /\ \A e, h : SentIn(Append(held, body), e, h) =
              IF body.event = e /\ HookOf[body.sub] = h /\ body.state # "skipped"
              THEN SentIn(held, e, h) \cup {Len(held) + 1} ELSE SentIn(held, e, h)
<1>. DEFINE next == Append(held, body)
            k == Len(held) + 1
<1>1. /\ DOMAIN next = DOMAIN held \cup {k} /\ k \notin DOMAIN held /\ next[k] = body
      /\ \A r \in DOMAIN held : next[r] = held[r]
  OBVIOUS
<1>. HIDE DEF next, k
<1>2. Extends(held, next)
  BY <1>1 DEF Extends
<1>3. ASSUME NEW e, NEW h
      PROVE  SentIn(next, e, h) =
               IF body.event = e /\ HookOf[body.sub] = h /\ body.state # "skipped"
               THEN SentIn(held, e, h) \cup {k} ELSE SentIn(held, e, h)
  BY <1>1 DEF SentIn
<1>. QED BY <1>1, <1>2, <1>3 DEF next, k

LEMMA OverwriteExtends ==
  ASSUME NEW held \in Seq(Rows), NEW k \in DOMAIN held, NEW body \in Rows,
         body.event = held[k].event, body.sub = held[k].sub,
         body.state = "skipped" <=> held[k].state = "skipped"
  PROVE  /\ Extends(held, [held EXCEPT ![k] = body])
         /\ DOMAIN [held EXCEPT ![k] = body] = DOMAIN held
         /\ \A e, h : SentIn([held EXCEPT ![k] = body], e, h) = SentIn(held, e, h)
<1>. DEFINE next == [held EXCEPT ![k] = body]
<1>1. /\ DOMAIN next = DOMAIN held
      /\ \A r \in DOMAIN held : next[r] = IF r = k THEN body ELSE held[r]
  OBVIOUS
<1>. HIDE DEF next
<1>2. Extends(held, next)
  BY <1>1 DEF Extends
<1>3. ASSUME NEW e, NEW h
      PROVE  SentIn(next, e, h) = SentIn(held, e, h)
  BY <1>1 DEF SentIn
<1>. QED BY <1>1, <1>2, <1>3 DEF next

(* The row of a POST, or of a skip, is written. *)
LEMMA StoreDeliverySent ==
  ASSUME SentInv, TypeInv', NEW t \in Threads, StoreDelivery(t)
  PROVE  SentInv'
<1>. DEFINE e == job[t].event
            hook == HookOf[job[t].sub]
            next == [job[t] EXCEPT !.stage = "folding"]
            body == [event |-> job[t].event, sub |-> job[t].sub, attempts |-> job[t].attempts,
                     state |-> StateAfter(job[t].answer, job[t].attempts)]
<1>1. /\ job[t] \in Jobs /\ job[t].stage = "storing" /\ Good(job[t], rows, events, steady)
      /\ job[t].sub \in Subs /\ hook \in Hooks
      /\ UNCHANGED <<hooks, subs, events, steady>> /\ job' = [job EXCEPT ![t] = next]
      /\ rows' = IF job[t].call = "retry" THEN [rows EXCEPT ![job[t].row] = body]
                 ELSE Append(rows, body)
      /\ rows \in Seq(Rows)
  BY HooksOf DEF SentInv, TypeInv, DataOK, CallsFit, Fits, Sending, StoreDelivery, Goes, history
<1>2. /\ body.event = e /\ body.sub = job[t].sub /\ body \in Rows
      /\ body.state = "skipped" <=> job[t].answer \notin Answers
  <2>1. job[t].answer \in Answers \cup Withheld /\ job[t].attempts \in Nat /\ e \in Nat
    BY <1>1 DEF Jobs
  <2>2. Answers \cap Withheld = {}
    BY DEF Answers, Withheld
  <2>. QED BY <1>1, <2>1, <2>2, StateAfterType DEF Rows
<1>. HIDE DEF body
<1>3. /\ next.call = job[t].call /\ next.event = e /\ next.stage = "folding"
      /\ next.sub = job[t].sub /\ next.row = job[t].row
      /\ next.todo = job[t].todo /\ next.off = job[t].off /\ next.seen = job[t].seen
  BY <1>1 DEF Jobs
<1>. HIDE DEF next
<1>4. Placed(next) /\ ~UnderWay(next)
  BY <1>1, <1>3 DEF Good, Placed, UnderWay, Settling
<1>5. job[t].call \in {"event", "retry"}
  BY <1>1 DEF Good, Placed
<1>6. \A u \in Threads : job'[u] = IF u = t THEN next ELSE job[u]
  BY <1>1 DEF SentInv, TypeInv
<1>7. OneFanOut'
  BY <1>3, <1>6 DEF SentInv, OneFanOut
<1>8. OnPath'
  BY <1>1 DEF SentInv, OnPath
<1>9. CASE job[t].call = "event"
  <2>. DEFINE k == Len(rows) + 1
              sent == body.state # "skipped"
  <2>1. rows' = Append(rows, body) /\ k = Len(rows) + 1
    BY <1>1, <1>9
  <2>. HIDE DEF k
  <2>0. /\ Extends(rows, Append(rows, body))
        /\ DOMAIN Append(rows, body) = DOMAIN rows \cup {Len(rows) + 1}
        /\ Len(rows) + 1 \notin DOMAIN rows
        /\ \A d, h : SentIn(Append(rows, body), d, h) =
             IF body.event = d /\ HookOf[body.sub] = h /\ body.state # "skipped"
             THEN SentIn(rows, d, h) \cup {Len(rows) + 1} ELSE SentIn(rows, d, h)
    BY <1>1, <1>2, AppendExtends
  <2>2. /\ Extends(rows, rows') /\ DOMAIN rows' = DOMAIN rows \cup {k} /\ k \notin DOMAIN rows
        /\ \A d, h : SentIn(rows', d, h) =
             IF e = d /\ hook = h /\ sent THEN SentIn(rows, d, h) \cup {k} ELSE SentIn(rows, d, h)
    BY <1>2, <2>0, <2>1
  <2>3. FansOut(job[t], rows, events, steady)
    BY <1>1, <1>9 DEF Good
  <2>4. sent <=> UnderWay(job[t])
    BY <1>1, <1>2 DEF UnderWay
  <2>. HIDE DEF sent
  <2>5. sent => SentIn(rows, e, hook) = {}
    BY <2>3, <2>4 DEF FansOut
  <2>6. EventsNamed'
    <3>1. e \in DOMAIN events
      BY <2>3 DEF FansOut
    <3>. QED BY <1>1, <1>2, <2>2, <3>1 DEF SentInv, EventsNamed, Extends
  <2>7. SentOnce'
    <3>1. ASSUME NEW d \in DOMAIN events, NEW h \in Hooks, NEW p \in SentIn(rows', d, h),
                 NEW q \in SentIn(rows', d, h)
          PROVE  p = q
      <4>1. CASE e = d /\ hook = h /\ sent
        BY <2>2, <2>5, <4>1
      <4>2. CASE ~(e = d /\ hook = h /\ sent)
        <5>1. SentIn(rows', d, h) = SentIn(rows, d, h)
          BY <2>2, <4>2
        <5>. QED BY <5>1 DEF SentInv, SentOnce
      <4>. QED BY <4>1, <4>2
    <3>. QED BY <1>1, <3>1 DEF SentOnce
  <2>8. SentToAll'
    <3>1. \A d, h : SentIn(rows, d, h) # {} => SentIn(rows', d, h) # {}
      BY <2>2
    <3>. QED BY <1>1, <3>1 DEF SentInv, SentToAll
  <2>9. ASSUME NEW u \in Threads
        PROVE  Good(job'[u], rows', events', steady')
    <3>1. CASE u = t
      <4>1. /\ e \in DOMAIN events /\ ~events[e].updated
            /\ \A h \in Hooks : h \in job[t].seen
                 <=> (SentIn(rows, e, h) # {} \/ (sent /\ h = hook))
            /\ \A s \in steady[e] : s \notin job[t].off
                 /\ (s \in job[t].todo \/ HookOf[s] \in job[t].seen)
            /\ job[t].sub \in steady[e] => hook \in job[t].seen
        BY <1>1, <2>3, <2>4 DEF FansOut, Settling
      <4>2. \A h \in Hooks : h \in job[t].seen <=> SentIn(rows', e, h) # {}
        BY <2>2, <4>1
      <4>3. FansOut(next, rows', events', steady')
        BY <1>1, <1>3, <1>4, <4>1, <4>2 DEF FansOut
      <4>. QED BY <1>3, <1>4, <1>6, <1>9, <3>1, <4>3 DEF Good
    <3>2. CASE u # t
      <4>1. Good(job[u], rows, events, steady) /\ job'[u] = job[u]
        BY <1>6, <3>2 DEF SentInv
      <4>2. job[u].call = "event" => job[u].event # e
        BY <1>9, <3>2 DEF SentInv, OneFanOut
      <4>3. job[u].call = "event" => FansOut(job[u], rows', events', steady')
        BY <1>1, <2>2, <4>1, <4>2 DEF Good, FansOut
      <4>. QED BY <2>2, <4>1, <4>3, RetriesExtends DEF Good
    <3>. QED BY <3>1, <3>2
  <2>. QED BY <1>7, <1>8, <2>6, <2>7, <2>8, <2>9 DEF SentInv
<1>10. CASE job[t].call = "retry"
  <2>1. Retries(job[t], rows)
    BY <1>1, <1>10 DEF Good
  <2>2. /\ Extends(rows, rows') /\ DOMAIN rows' = DOMAIN rows
        /\ \A d, h : SentIn(rows', d, h) = SentIn(rows, d, h)
    <3>1. /\ job[t].row \in DOMAIN rows /\ body.event = rows[job[t].row].event
          /\ body.sub = rows[job[t].row].sub
          /\ body.state = "skipped" <=> rows[job[t].row].state = "skipped"
      BY <1>1, <1>2, <2>1 DEF Retries
    <3>2. rows' = [rows EXCEPT ![job[t].row] = body]
      BY <1>1, <1>10
    <3>3. rows \in Seq(Rows)
      BY <1>1
    <3>4. /\ Extends(rows, [rows EXCEPT ![job[t].row] = body])
          /\ DOMAIN [rows EXCEPT ![job[t].row] = body] = DOMAIN rows
          /\ \A d, h : SentIn([rows EXCEPT ![job[t].row] = body], d, h) = SentIn(rows, d, h)
      <4>1. ASSUME NEW k \in DOMAIN rows, NEW row \in Rows, row.event = rows[k].event,
                   row.sub = rows[k].sub, row.state = "skipped" <=> rows[k].state = "skipped"
            PROVE  /\ Extends(rows, [rows EXCEPT ![k] = row])
                   /\ DOMAIN [rows EXCEPT ![k] = row] = DOMAIN rows
                   /\ \A d, h : SentIn([rows EXCEPT ![k] = row], d, h) = SentIn(rows, d, h)
        BY <3>3, <4>1, OverwriteExtends
      <4>. QED BY <1>2, <3>1, <4>1
    <3>. QED BY <3>2, <3>4
  <2>3. EventsNamed' /\ SentOnce' /\ SentToAll'
    <3>1. EventsNamed'
      BY <1>1, <2>2 DEF SentInv, EventsNamed, Extends
    <3>2. SentOnce'
      <4>1. ASSUME NEW d \in DOMAIN events, NEW h \in Hooks
            PROVE  \A p, q \in SentIn(rows', d, h) : p = q
        <5>1. SentIn(rows', d, h) = SentIn(rows, d, h)
          BY <2>2
        <5>. QED BY <5>1 DEF SentInv, SentOnce
      <4>. QED BY <1>1, <4>1 DEF SentOnce
    <3>3. SentToAll'
      BY <1>1, <2>2 DEF SentInv, SentToAll
    <3>. QED BY <3>1, <3>2, <3>3
  <2>4. ASSUME NEW u \in Threads
        PROVE  Good(job'[u], rows', events', steady')
    <3>1. CASE u = t
      <4>1. Retries(next, rows)
        BY <1>3, <2>1 DEF Retries
      <4>. QED BY <1>3, <1>4, <1>6, <1>10, <2>2, <3>1, <4>1, RetriesExtends DEF Good
    <3>2. CASE u # t
      <4>1. Good(job[u], rows, events, steady) /\ job'[u] = job[u]
        BY <1>6, <3>2 DEF SentInv
      <4>2. job[u].call = "event" => FansOut(job[u], rows', events', steady')
        BY <1>1, <2>2, <4>1 DEF Good, FansOut
      <4>. QED BY <2>2, <4>1, <4>2, RetriesExtends DEF Good
    <3>. QED BY <3>1, <3>2
  <2>. QED BY <1>7, <1>8, <2>3, <2>4 DEF SentInv
<1>. QED BY <1>5, <1>9, <1>10

LEMMA FoldReadSent ==
  ASSUME SentInv, TypeInv', NEW t \in Threads, FoldRead(t)
  PROVE  SentInv'
<1>. DEFINE next == [job[t] EXCEPT !.stage = "folded", !.base = subs[job[t].sub]]
<1>1. /\ job[t] \in Jobs /\ job[t].stage = "folding" /\ Good(job[t], rows, events, steady)
      /\ UNCHANGED <<records, steady>>
  BY DEF SentInv, TypeInv, FoldRead, history
<1>2. CASE Over(t)
  BY <1>1, <1>2, QuietOver
<1>3. CASE Goes(t, next)
  <2>1. /\ next.call = job[t].call /\ next.event = job[t].event /\ next.stage = "folded"
        /\ next.sub = job[t].sub /\ next.row = job[t].row
        /\ next.todo = job[t].todo /\ next.off = job[t].off /\ next.seen = job[t].seen
    BY <1>1 DEF Jobs
  <2>2. job' = [job EXCEPT ![t] = next]
    BY <1>3 DEF Goes
  <2>. HIDE DEF next
  <2>3. Placed(next) /\ ~UnderWay(next) /\ ~UnderWay(job[t])
    BY <1>1, <2>1 DEF Good, Placed, UnderWay, Settling
  <2>4. next.call = "event" => FansOut(next, rows, events, steady)
    BY <1>1, <2>1, <2>3 DEF Good, FansOut, Settling
  <2>5. next.call = "retry" => Retries(next, rows)
    BY <1>1, <2>1 DEF Good, Retries
  <2>. QED BY <1>1, <2>1, <2>2, <2>3, <2>4, <2>5, QuietGoes DEF Good
<1>. QED BY <1>2, <1>3 DEF FoldRead

(* After the counters of the subscription. *)
LEMMA AfterFoldGood ==
  ASSUME SentInv, NEW t \in Threads, job[t].stage = "folded", AfterFold(t)
  PROVE  \E next : /\ job' = [job EXCEPT ![t] = next] /\ Good(next, rows, events, steady)
                   /\ next.call = "event" => job[t].call = "event" /\ next.event = job[t].event
<1>1. job[t] \in Jobs /\ Good(job[t], rows, events, steady)
  BY DEF SentInv, TypeInv
<1>2. /\ job[t].call \in {"event", "retry"} /\ ~UnderWay(job[t])
      /\ job[t].call = "event" => /\ FansOut(job[t], rows, events, steady)
                                  /\ job[t].sub \in steady[job[t].event] =>
                                       HookOf[job[t].sub] \in job[t].seen
  BY <1>1 DEF Good, Placed, UnderWay, FansOut, Settling
<1>3. CASE Counted(t) /\ Goes(t, [job[t] EXCEPT !.stage = "counting"])
  <2>. DEFINE next == [job[t] EXCEPT !.stage = "counting"]
  <2>1. job[t].call = "event"
    BY <1>3 DEF Counted
  <2>2. /\ next.call = "event" /\ next.event = job[t].event /\ next.stage = "counting"
        /\ next.sub = job[t].sub /\ next.todo = job[t].todo /\ next.off = job[t].off
        /\ next.seen = job[t].seen
    BY <1>1, <2>1 DEF Jobs
  <2>3. job' = [job EXCEPT ![t] = next]
    BY <1>3 DEF Goes
  <2>. HIDE DEF next
  <2>4. Placed(next) /\ ~UnderWay(next)
    BY <2>2 DEF Placed, UnderWay, Settling
  <2>5. FansOut(next, rows, events, steady)
    BY <1>2, <2>1, <2>2, <2>4 DEF FansOut
  <2>. QED BY <2>1, <2>2, <2>3, <2>4, <2>5 DEF Good
<1>4. CASE job[t].call = "event" /\ Goes(t, [Through(t, job[t].sub) EXCEPT !.left = @ + 1])
  <2>. DEFINE line == Through(t, job[t].sub)
              next == [line EXCEPT !.left = @ + 1]
  <2>1. Good(line, rows, events, steady) /\ line.call = "event" /\ line.event = job[t].event
    BY <1>1, <1>2, <1>4, ThroughGood
  <2>2. SameCall(line, next)
    BY <1>1 DEF SameCall, Through, Jobs
  <2>3. job' = [job EXCEPT ![t] = next]
    BY <1>4 DEF Goes
  <2>. HIDE DEF line, next
  <2>4. Good(next, rows, events, steady)
    BY <2>1, <2>2, SameGood
  <2>. QED BY <1>4, <2>1, <2>2, <2>3, <2>4 DEF SameCall
<1>5. CASE job[t].call = "retry" /\ Goes(t, [job[t] EXCEPT !.stage = "confirming"])
  <2>. DEFINE next == [job[t] EXCEPT !.stage = "confirming"]
  <2>1. /\ next.call = "retry" /\ next.event = job[t].event /\ next.stage = "confirming"
        /\ next.sub = job[t].sub /\ next.row = job[t].row
    BY <1>1, <1>5 DEF Jobs
  <2>2. job' = [job EXCEPT ![t] = next]
    BY <1>5 DEF Goes
  <2>. HIDE DEF next
  <2>3. Good(next, rows, events, steady)
    BY <1>1, <1>5, <2>1 DEF Good, Placed, Retries, Settling
  <2>. QED BY <2>1, <2>2, <2>3
<1>6. CASE Over(t)
  BY <1>6, IdleGood, IdleCall DEF Over, Goes
<1>. QED BY <1>3, <1>4, <1>5, <1>6 DEF AfterFold

LEMMA FoldWriteSent ==
  ASSUME SentInv, TypeInv', NEW t \in Threads, FoldWrite(t)
  PROVE  SentInv'
<1>. DEFINE s == job[t].sub
            row == Folded(subs[s], job[t].base, job[t].answer)
<1>1. /\ job[t] \in Jobs /\ job[t].stage = "folded" /\ job[t].base \in SubRows
      /\ UNCHANGED <<hooks, events, rows, steady>>
  BY DEF SentInv, TypeInv, FoldWrite, history, Jobs
<1>2. CASE Over(t) /\ UNCHANGED subs
  BY <1>1, <1>2, QuietOver DEF records
<1>3. CASE s \in Kept /\ subs' = [subs EXCEPT ![s] = row] /\ AfterFold(t)
  <2>1. subs \in Seq(SubRows) /\ s \in DOMAIN subs
    BY <1>3 DEF Kept, SentInv, TypeInv, DataOK
  <2>2. subs[s] \in SubRows
    BY <2>1, ElementType
  <2>3. row.state = subs[s].state
    BY <1>1, <2>2, FoldedType
  <2>. HIDE DEF row
  <2>4. DOMAIN subs' = DOMAIN subs /\ \A r \in DOMAIN subs : subs'[r].state = subs[r].state
    BY <1>3, <2>1, <2>3
  <2>5. Shrinks(steady, steady') /\ OnPath'
    BY <1>1, <2>4, SamePath
  <2>6. PICK next : /\ job' = [job EXCEPT ![t] = next] /\ Good(next, rows, events, steady)
                    /\ next.call = "event" => job[t].call = "event" /\ next.event = job[t].event
    BY <1>1, <1>3, AfterFoldGood
  <2>. QED BY <1>1, <2>5, <2>6, QuietStep
<1>. QED BY <1>2, <1>3 DEF FoldWrite

LEMMA CountReadSent ==
  ASSUME SentInv, TypeInv', NEW t \in Threads, CountRead(t)
  PROVE  SentInv'
<1>. DEFINE next == [job[t] EXCEPT !.stage = "counted", !.line = hooks[HookOf[job[t].sub]]]
<1>1. /\ job[t] \in Jobs /\ job[t].stage = "counting" /\ Good(job[t], rows, events, steady)
      /\ UNCHANGED <<records, steady>>
  BY DEF SentInv, TypeInv, CountRead, history
<1>2. CASE Over(t)
  BY <1>1, <1>2, QuietOver
<1>3. CASE Goes(t, next)
  <2>1. job[t].call = "event" /\ FansOut(job[t], rows, events, steady) /\ ~UnderWay(job[t])
    BY <1>1 DEF Good, Placed, UnderWay
  <2>2. /\ next.call = "event" /\ next.event = job[t].event /\ next.stage = "counted"
        /\ next.sub = job[t].sub /\ next.todo = job[t].todo /\ next.off = job[t].off
        /\ next.seen = job[t].seen
    BY <1>1, <2>1 DEF Jobs
  <2>3. job' = [job EXCEPT ![t] = next]
    BY <1>3 DEF Goes
  <2>. HIDE DEF next
  <2>4. Placed(next) /\ ~UnderWay(next)
    BY <2>2 DEF Placed, UnderWay, Settling
  <2>5. FansOut(next, rows, events, steady)
    BY <1>1, <2>1, <2>2, <2>4 DEF FansOut, Settling
  <2>. QED BY <1>1, <2>1, <2>2, <2>3, <2>4, <2>5, QuietGoes DEF Good
<1>. QED BY <1>2, <1>3 DEF CountRead

(* A step that writes a webhook and leaves its state as it was. *)
LEMMA HooksStep ==
  ASSUME SentInv, TypeInv', UNCHANGED <<subs, events, rows, steady>>,
         \A h \in Hooks : hooks'[h].state = hooks[h].state,
         NEW t \in Threads, NEW next, job' = [job EXCEPT ![t] = next],
         Good(next, rows, events, steady),
         next.call = "event" => job[t].call = "event" /\ next.event = job[t].event
  PROVE  SentInv'
<1>1. Shrinks(steady, steady') /\ OnPath'
  BY SamePath
<1>. QED BY <1>1, QuietStep

LEMMA CountWriteSent ==
  ASSUME SentInv, TypeInv', NEW t \in Threads, CountWrite(t)
  PROVE  SentInv'
<1>. DEFINE h == HookOf[job[t].sub]
            failed == IF job[t].answer = "ok" THEN 0 ELSE 1
            line == Through(t, job[t].sub)
            next == [line EXCEPT !.taken = @ + 1]
<1>1. /\ job[t] \in Jobs /\ job[t].stage = "counted" /\ Good(job[t], rows, events, steady)
      /\ UNCHANGED <<subs, events, rows, steady>>
  BY DEF SentInv, TypeInv, CountWrite, history
<1>2. CASE Over(t) /\ UNCHANGED hooks
  BY <1>1, <1>2, QuietOver DEF records
<1>3. CASE /\ hooks' = [hooks EXCEPT ![h].deliveries = job[t].line.deliveries + 1,
                                     ![h].failures = job[t].line.failures + failed]
           /\ Goes(t, next)
  <2>1. /\ job[t].call = "event" /\ ~UnderWay(job[t])
        /\ job[t].sub \in steady[job[t].event] => h \in job[t].seen
    BY <1>1 DEF Good, Placed, UnderWay, FansOut, Settling
  <2>2. Good(line, rows, events, steady) /\ line.call = "event" /\ line.event = job[t].event
    BY <1>1, <2>1, ThroughGood
  <2>3. SameCall(line, next)
    BY <1>1 DEF SameCall, Through, Jobs
  <2>4. job' = [job EXCEPT ![t] = next]
    BY <1>3 DEF Goes
  <2>5. \A g \in Hooks : hooks'[g].state = hooks[g].state
    <3>1. hooks \in [Hooks -> HookRows]
      BY DEF SentInv, TypeInv, DataOK
    <3>. HIDE DEF failed, h
    <3>. QED BY <1>3, <3>1 DEF HookRows
  <2>. HIDE DEF line, next
  <2>6. Good(next, rows, events, steady)
    BY <2>2, <2>3, SameGood
  <2>. QED BY <1>1, <2>1, <2>2, <2>3, <2>4, <2>5, <2>6, HooksStep DEF SameCall
<1>. QED BY <1>2, <1>3 DEF CountWrite

LEMMA RetrySent ==
  ASSUME SentInv, TypeInv', NEW t \in Threads, NEW r \in DOMAIN rows, Retry(t, r)
  PROVE  SentInv'
<1>. DEFINE call == [IdleJob EXCEPT !.call = "retry", !.stage = "requiring", !.row = r,
                                    !.event = rows[r].event, !.sub = rows[r].sub,
                                    !.attempts = rows[r].attempts]
<1>1. /\ rows[r].state = "retrying" /\ job' = [job EXCEPT ![t] = call]
      /\ UNCHANGED <<records, steady>>
  BY DEF Retry, Start, history
<1>2. /\ call.call = "retry" /\ call.stage = "requiring" /\ call.row = r
      /\ call.event = rows[r].event /\ call.sub = rows[r].sub
  BY DEF IdleJob
<1>. HIDE DEF call
<1>3. Good(call, rows, events, steady)
  BY <1>1, <1>2 DEF Good, Placed, Retries, Settling
<1>. QED BY <1>1, <1>2, <1>3, QuietGoes

LEMMA RetryRequireSent ==
  ASSUME SentInv, TypeInv', NEW t \in Threads, RetryRequire(t)
  PROVE  SentInv'
<1>. DEFINE next == [job[t] EXCEPT !.stage = "posting", !.line = hooks[HookOf[job[t].sub]]]
<1>1. /\ job[t] \in Jobs /\ job[t].stage = "requiring" /\ Good(job[t], rows, events, steady)
      /\ UNCHANGED <<records, steady>>
  BY DEF SentInv, TypeInv, RetryRequire, history
<1>2. CASE Over(t)
  BY <1>1, <1>2, QuietOver
<1>3. CASE Goes(t, next)
  <2>1. job[t].call = "retry" /\ Retries(job[t], rows)
    BY <1>1 DEF Good, Placed
  <2>2. /\ next.call = "retry" /\ next.event = job[t].event /\ next.stage = "posting"
        /\ next.sub = job[t].sub /\ next.row = job[t].row
    BY <1>1, <2>1 DEF Jobs
  <2>3. job' = [job EXCEPT ![t] = next]
    BY <1>3 DEF Goes
  <2>. HIDE DEF next
  <2>4. Good(next, rows, events, steady)
    BY <2>1, <2>2 DEF Good, Placed, Retries
  <2>. QED BY <1>1, <2>2, <2>3, <2>4, QuietGoes
<1>. QED BY <1>2, <1>3 DEF RetryRequire

LEMMA ConfirmRotationSent ==
  ASSUME SentInv, TypeInv', NEW t \in Threads, ConfirmRotation(t)
  PROVE  SentInv'
<1>1. /\ job' = [job EXCEPT ![t] = IdleJob] /\ UNCHANGED <<subs, events, rows, steady>>
      /\ hooks \in [Hooks -> HookRows]
  BY DEF ConfirmRotation, Over, Goes, history, SentInv, TypeInv, DataOK
<1>2. \A h \in Hooks : hooks'[h].state = hooks[h].state
  BY <1>1 DEF ConfirmRotation, HookRows
<1>. QED BY <1>1, <1>2, IdleGood, IdleCall, HooksStep

LEMMA RotateSent ==
  ASSUME SentInv, TypeInv', NEW t \in Threads, NEW h \in Hooks, Rotate(t, h)
  PROVE  SentInv'
<1>. DEFINE call == [IdleJob EXCEPT !.call = "rotate", !.stage = "rotating", !.hook = h,
                                    !.line = hooks[h]]
<1>1. job' = [job EXCEPT ![t] = call] /\ UNCHANGED <<records, steady>>
  BY DEF Rotate, Start, history
<1>2. call.call = "rotate" /\ call.stage = "rotating"
  BY DEF IdleJob
<1>. HIDE DEF call
<1>. QED BY <1>1, <1>2, PlainGood, QuietGoes

LEMMA RotateWriteSent ==
  ASSUME SentInv, TypeInv', NEW t \in Threads, RotateWrite(t)
  PROVE  SentInv'
<1>1. /\ job' = [job EXCEPT ![t] = IdleJob] /\ UNCHANGED <<subs, events, rows, steady>>
      /\ hooks \in [Hooks -> HookRows]
  BY DEF RotateWrite, Over, Goes, history, SentInv, TypeInv, DataOK
<1>2. \A h \in Hooks : hooks'[h].state = hooks[h].state
  BY <1>1 DEF RotateWrite, HookRows
<1>. QED BY <1>1, <1>2, IdleGood, IdleCall, HooksStep

(* The path of every event loses the subscriptions that leave it. *)
LEMMA LeavePath ==
  ASSUME SentInv, NEW gone, OffPath(gone), events' = events, DOMAIN subs' = DOMAIN subs,
         \A s \in DOMAIN subs \ gone :
           subs'[s].state = subs[s].state /\ hooks'[HookOf[s]].state = hooks[HookOf[s]].state
  PROVE  Shrinks(steady, steady') /\ OnPath'
<1>1. /\ DOMAIN steady' = DOMAIN steady /\ DOMAIN steady = DOMAIN events
      /\ \A e \in DOMAIN steady : steady'[e] = steady[e] \ gone
  BY OffPathType DEF SentInv, TypeInv, EventsNamed
<1>2. Shrinks(steady, steady')
  BY <1>1 DEF Shrinks
<1>3. OnPath'
  BY <1>1 DEF SentInv, OnPath
<1>. QED BY <1>2, <1>3

LEMMA PauseWebhookSent ==
  ASSUME SentInv, TypeInv', NEW t \in Threads, NEW h \in Hooks, NEW state \in {"live", "paused"},
         PauseWebhook(t, h, state)
  PROVE  SentInv'
<1>1. /\ job' = [job EXCEPT ![t] = IdleJob] /\ UNCHANGED <<subs, events, rows>>
      /\ OffPath(Under(h)) /\ hooks' = [hooks EXCEPT ![h].state = state]
      /\ hooks \in [Hooks -> HookRows] /\ DOMAIN subs \subseteq Subs
  BY DEF PauseWebhook, Start, SentInv, TypeInv, DataOK
<1>2. \A s \in DOMAIN subs \ Under(h) : hooks'[HookOf[s]].state = hooks[HookOf[s]].state
  BY <1>1, HooksOf DEF Under
<1>3. Shrinks(steady, steady') /\ OnPath'
  BY <1>1, <1>2, LeavePath
<1>. QED BY <1>1, <1>3, IdleGood, IdleCall, QuietStep

(* A subscription is paused, taken up again or removed, by a call that      *)
(* makes no POST.                                                           *)
LEMMA EditSent ==
  ASSUME SentInv, TypeInv', NEW t \in Threads, NEW s \in DOMAIN subs, NEW state,
         NEW next, job' = [job EXCEPT ![t] = next], next.call \notin {"event", "retry"},
         next.stage = "recounting", subs' = [subs EXCEPT ![s].state = state], OffPath({s}),
         UNCHANGED <<hooks, events, rows>>
  PROVE  SentInv'
<1>1. subs \in Seq(SubRows)
  BY DEF SentInv, TypeInv, DataOK
<1>2. DOMAIN subs' = DOMAIN subs /\ \A r \in DOMAIN subs \ {s} : subs'[r].state = subs[r].state
  BY <1>1
<1>3. Shrinks(steady, steady') /\ OnPath'
  BY <1>2, LeavePath
<1>4. Good(next, rows, events, steady')
  BY DEF Good, Placed, Settling
<1>. QED BY <1>3, <1>4, QuietStep

LEMMA SubscriptionSent ==
  ASSUME SentInv, TypeInv', NEW t \in Threads, NEW s \in DOMAIN subs,
         NEW state \in {"live", "paused"}, PauseSubscription(t, s, state) \/ Unsubscribe(t, s)
  PROVE  SentInv'
<1>. DEFINE next == Recounts(t, "edit", s)
<1>1. next.call = "edit" /\ next.stage = "recounting"
  BY DEF Recounts, IdleJob
<1>2. PICK to : /\ subs' = [subs EXCEPT ![s].state = to] /\ OffPath({s})
                /\ UNCHANGED <<hooks, events, rows>> /\ job' = [job EXCEPT ![t] = next]
  BY DEF PauseSubscription, Unsubscribe, Start
<1>. HIDE DEF next
<1>. QED BY <1>1, <1>2, EditSent

LEMMA RecountOverGood ==
  ASSUME SentInv, NEW t \in Threads, job[t].stage \in {"recounting", "recounted"}, RecountOver(t)
  PROVE  \E next : /\ job' = [job EXCEPT ![t] = next] /\ Good(next, rows, events, steady)
                   /\ next.call # "event"
<1>1. CASE job[t].call = "retire"
  <2>. DEFINE next == [job[t] EXCEPT !.stage = "retiring"]
  <2>1. job[t] \in Jobs
    BY DEF SentInv, TypeInv
  <2>2. next.call = "retire" /\ next.stage = "retiring"
    BY <1>1, <2>1 DEF Jobs
  <2>3. job' = [job EXCEPT ![t] = next]
    BY <1>1 DEF RecountOver, Goes
  <2>. HIDE DEF next
  <2>. QED BY <2>2, <2>3, PlainGood
<1>2. CASE job[t].call # "retire"
  BY <1>2, IdleGood, IdleCall DEF RecountOver, Over, Goes
<1>. QED BY <1>1, <1>2

LEMMA RecountSent ==
  ASSUME SentInv, TypeInv', NEW t \in Threads, Recount(t)
  PROVE  SentInv'
<1>. DEFINE next == [job[t] EXCEPT !.stage = "recounted",
                                   !.count = Cardinality(Live \cap Under(job[t].hook))]
<1>1. /\ job[t] \in Jobs /\ job[t].stage = "recounting" /\ Good(job[t], rows, events, steady)
      /\ UNCHANGED <<records, steady>>
  BY DEF SentInv, TypeInv, Recount, history
<1>2. CASE RecountOver(t)
  BY <1>1, <1>2, RecountOverGood, QuietGoes
<1>3. CASE Goes(t, next)
  <2>1. job[t].call \notin {"event", "retry"}
    BY <1>1 DEF Good, Placed, Settling
  <2>2. next.call = job[t].call /\ next.stage = "recounted"
    BY <1>1 DEF Jobs
  <2>3. job' = [job EXCEPT ![t] = next]
    BY <1>3 DEF Goes
  <2>. HIDE DEF next
  <2>. QED BY <1>1, <2>1, <2>2, <2>3, PlainGood, QuietGoes
<1>. QED BY <1>2, <1>3 DEF Recount

LEMMA RecountWriteSent ==
  ASSUME SentInv, TypeInv', NEW t \in Threads, RecountWrite(t)
  PROVE  SentInv'
<1>. DEFINE h == job[t].hook
<1>1. /\ job[t] \in Jobs /\ job[t].stage = "recounted" /\ UNCHANGED <<subs, events, rows, steady>>
      /\ hooks \in [Hooks -> HookRows]
  BY DEF SentInv, TypeInv, DataOK, RecountWrite, history
<1>2. CASE Over(t) /\ UNCHANGED hooks
  BY <1>1, <1>2, QuietOver DEF records
<1>3. CASE hooks' = [hooks EXCEPT ![h].subscriptions = job[t].count] /\ RecountOver(t)
  <2>1. \A g \in Hooks : hooks'[g].state = hooks[g].state
    BY <1>1, <1>3 DEF HookRows
  <2>. QED BY <1>1, <1>3, <2>1, RecountOverGood, HooksStep
<1>. QED BY <1>2, <1>3 DEF RecountWrite

LEMMA SubscribeSent ==
  ASSUME SentInv, TypeInv', NEW t \in Threads, Subscribe(t)
  PROVE  SentInv'
<1>. DEFINE call == [IdleJob EXCEPT !.call = "subscribe", !.stage = "subscribing",
                                    !.hook = HookOf[Len(subs) + 1]]
<1>1. job' = [job EXCEPT ![t] = call] /\ UNCHANGED <<records, steady>>
  BY DEF Subscribe, Start, history
<1>2. call.call = "subscribe" /\ call.stage = "subscribing"
  BY DEF IdleJob
<1>. HIDE DEF call
<1>. QED BY <1>1, <1>2, PlainGood, QuietGoes

LEMMA SubscribeWriteSent ==
  ASSUME SentInv, TypeInv', NEW t \in Threads, SubscribeWrite(t)
  PROVE  SentInv'
<1>. DEFINE next == [job[t] EXCEPT !.call = "edit", !.stage = "recounting"]
<1>1. /\ job[t] \in Jobs /\ subs' = Append(subs, NewSub) /\ job' = [job EXCEPT ![t] = next]
      /\ UNCHANGED <<hooks, events, rows, steady>> /\ subs \in Seq(SubRows)
  BY DEF SentInv, TypeInv, DataOK, SubscribeWrite, Goes, history
<1>2. next.call = "edit" /\ next.stage = "recounting"
  BY <1>1 DEF Jobs
<1>. HIDE DEF next
<1>3. DOMAIN subs \subseteq DOMAIN subs' /\ \A s \in DOMAIN subs : subs'[s].state = subs[s].state
  BY <1>1
<1>4. Shrinks(steady, steady') /\ OnPath'
  BY <1>1, <1>3, SamePath
<1>5. Good(next, rows, events, steady')
  BY <1>1, <1>2, PlainGood
<1>. QED BY <1>1, <1>2, <1>4, <1>5, QuietStep

LEMMA RetireSent ==
  ASSUME SentInv, TypeInv', NEW t \in Threads, NEW h \in Hooks, Retire(t, h)
  PROVE  SentInv'
<1>. DEFINE call == [IdleJob EXCEPT !.call = "retire", !.stage = "retiring", !.hook = h,
                                    !.todo = Kept \cap Under(h)]
<1>1. job' = [job EXCEPT ![t] = call] /\ UNCHANGED <<records, steady>>
  BY DEF Retire, Start, history
<1>2. call.call = "retire" /\ call.stage = "retiring"
  BY DEF IdleJob
<1>. HIDE DEF call
<1>. QED BY <1>1, <1>2, PlainGood, QuietGoes

LEMMA RetireNextSent ==
  ASSUME SentInv, TypeInv', NEW t \in Threads, NEW s \in job[t].todo, RetireNext(t, s)
  PROVE  SentInv'
<1>. DEFINE next == [job[t] EXCEPT !.stage = "recounting", !.todo = @ \ {s}]
<1>1. /\ job[t] \in Jobs /\ job[t].stage = "retiring"
      /\ Good(job[t], rows, events, steady) /\ UNCHANGED <<hooks, events, rows>>
  BY DEF SentInv, TypeInv, RetireNext
<1>2. CASE Over(t) /\ UNCHANGED <<subs, steady>>
  BY <1>1, <1>2, QuietOver DEF records
<1>3. CASE s \in Kept /\ subs' = [subs EXCEPT ![s].state = "gone"] /\ OffPath({s}) /\ Goes(t, next)
  <2>1. job[t].call \notin {"event", "retry"}
    BY <1>1 DEF Good, Placed, Settling
  <2>2. next.call = job[t].call /\ next.stage = "recounting" /\ job' = [job EXCEPT ![t] = next]
    BY <1>1, <1>3 DEF Jobs, Goes
  <2>. HIDE DEF next
  <2>3. s \in DOMAIN subs
    BY <1>3 DEF Kept
  <2>. QED BY <1>1, <1>3, <2>1, <2>2, <2>3, EditSent
<1>. QED BY <1>2, <1>3 DEF RetireNext

LEMMA RetireHookSent ==
  ASSUME SentInv, TypeInv', NEW t \in Threads, RetireHook(t)
  PROVE  SentInv'
<1>. DEFINE h == job[t].hook
<1>1. /\ job' = [job EXCEPT ![t] = IdleJob] /\ UNCHANGED <<subs, events, rows>>
      /\ OffPath(Under(h)) /\ hooks' = [hooks EXCEPT ![h].state = "retired"]
      /\ hooks \in [Hooks -> HookRows] /\ DOMAIN subs \subseteq Subs
  BY DEF RetireHook, Over, Goes, SentInv, TypeInv, DataOK
<1>. HIDE DEF h
<1>2. \A s \in DOMAIN subs \ Under(h) : hooks'[HookOf[s]].state = hooks[HookOf[s]].state
  BY <1>1, HooksOf DEF Under
<1>3. Shrinks(steady, steady') /\ OnPath'
  BY <1>1, <1>2, LeavePath
<1>. QED BY <1>1, <1>3, IdleGood, IdleCall, QuietStep

LEMMA CrashSent ==
  ASSUME SentInv, TypeInv', Crash
  PROVE  SentInv'
<1>1. /\ UNCHANGED <<records, steady>> /\ \A u \in Threads : job'[u] = IdleJob
  BY DEF Crash
<1>2. EventsNamed' /\ OnPath' /\ SentOnce' /\ SentToAll'
  BY <1>1 DEF SentInv, EventsNamed, OnPath, SentOnce, SentToAll, records
<1>3. OneFanOut'
  BY <1>1, IdleCall DEF OneFanOut
<1>. QED BY <1>1, <1>2, <1>3, IdleGood DEF SentInv

LEMMA SentStep ==
  ASSUME SentInv, [Next]_vars
  PROVE  SentInv'
<1>0. TypeInv'
  BY TypeStep DEF SentInv
<1>1. CASE UNCHANGED vars
  BY <1>0, <1>1 DEF SentInv, EventsNamed, OnPath, SentOnce, SentToAll, OneFanOut, vars, records,
     history
<1>2. ASSUME NEW t \in Threads, Handler(t)
      PROVE  SentInv'
  BY <1>0, <1>2, ListSent, FanSent, FanOverSent, PostSent, StoreDeliverySent, FoldReadSent,
     FoldWriteSent, CountReadSent, CountWriteSent, RetryRequireSent, ConfirmRotationSent,
     RotateWriteSent, RecountSent, RecountWriteSent, SubscribeWriteSent, RetireNextSent,
     RetireHookSent DEF Handler
<1>. QED
  BY <1>0, <1>1, <1>2, RecordEventSent, RetrySent, RotateSent, RetireSent, PauseWebhookSent,
     SubscriptionSent, SubscribeSent, CrashSent DEF Next

LEMMA SentMeans == SentInv => SentOncePerWebhook
<1>. SUFFICES ASSUME SentInv, NEW e \in DOMAIN events, NEW h \in Hooks
              PROVE  /\ Cardinality(Sent(e, h)) <= 1
                     /\ (events[e].updated /\ steady[e] \cap Under(h) # {}) => Sent(e, h) # {}
  BY DEF SentOncePerWebhook
<1>1. Sent(e, h) = SentIn(rows, e, h)
  BY DEF Sent, SentIn
<1>2. \A q, r \in Sent(e, h) : q = r
  BY <1>1 DEF SentInv, SentOnce
<1>3. Cardinality(Sent(e, h)) <= 1
  <2>1. CASE Sent(e, h) = {}
    BY <2>1, FS_EmptySet
  <2>2. CASE Sent(e, h) # {}
    <3>1. PICK r : r \in Sent(e, h)
      BY <2>2
    <3>2. Sent(e, h) = {r}
      BY <1>2, <3>1
    <3>3. Cardinality({r}) = 1
      BY FS_Singleton
    <3>. QED BY <3>2, <3>3
  <2>. QED BY <2>1, <2>2
<1>4. ASSUME events[e].updated, steady[e] \cap Under(h) # {}
      PROVE  Sent(e, h) # {}
  <2>1. PICK s \in steady[e] : HookOf[s] = h
    BY <1>4 DEF Under
  <2>. QED BY <1>1, <1>4, <2>1 DEF SentInv, SentToAll
<1>. QED BY <1>3, <1>4

(* Whatever overlaps and whenever the process dies: an event goes to a      *)
(* webhook once, and a fan-out that went through reached every webhook with *)
(* a subscription that was on the path all the time.                        *)
THEOREM SentCorrect == Spec => []SentOncePerWebhook
<1>1. SentInv /\ [Next]_vars => SentInv'
  BY SentStep
<1>. QED BY InitSent, <1>1, SentMeans, PTL DEF Spec
-----------------------------------------------------------------------------
(* Counters.  What is counted, and what the calls have yet to count.  Most  *)
(* steps leave both alone.                                                  *)

(* A call that has nothing to count. *)
Aside(call) ==
  /\ call.stage \notin {"folding", "folded", "counting", "counted"}
  /\ call.stage = "storing" => call.answer \in Withheld

KeepsTotals ==
  /\ UNCHANGED <<rows, posts>>
  /\ DOMAIN subs \subseteq DOMAIN subs'
  /\ \A s \in DOMAIN subs : /\ subs'[s].deliveries = subs[s].deliveries
                            /\ subs'[s].skipped = subs[s].skipped
  /\ \A s \in DOMAIN subs' \ DOMAIN subs : subs'[s].deliveries = 0 /\ subs'[s].skipped = 0
  /\ \A h \in Hooks : hooks'[h].deliveries = hooks[h].deliveries

Plain(t) ==
  /\ job' = [job EXCEPT ![t] = job'[t]]
  /\ Aside(job[t]) /\ Aside(job'[t])
  /\ KeepsTotals

Counting(t) ==
  \/ \E answer \in Answers : Post(t, answer)
  \/ StoreDelivery(t) \/ FoldRead(t) \/ FoldWrite(t) \/ CountRead(t) \/ CountWrite(t)

LEMMA NextJob ==
  ASSUME TypeInv, NEW t \in Threads, NEW next, job' = [job EXCEPT ![t] = next]
  PROVE  /\ job'[t] = next /\ \A u \in Threads \ {t} : job'[u] = job[u]
         /\ job' = [job EXCEPT ![t] = job'[t]]
BY DEF TypeInv

LEMMA IdleAside == Aside(IdleJob)
BY DEF Aside, IdleJob

LEMMA HookFields ==
  ASSUME TypeInv, NEW h \in Hooks
  PROVE  hooks \in [Hooks -> HookRows] /\ hooks[h] \in HookRows
BY DEF TypeInv, DataOK

LEMMA RecordsKept ==
  ASSUME TypeInv, UNCHANGED <<hooks, subs, rows, posts>>
  PROVE  KeepsTotals
BY DEF KeepsTotals

LEMMA HooksKept ==
  ASSUME TypeInv, UNCHANGED <<subs, rows, posts>>, NEW h \in Hooks, NEW row,
         hooks' = [hooks EXCEPT ![h] = row], row.deliveries = hooks[h].deliveries
  PROVE  KeepsTotals
<1>1. hooks \in [Hooks -> HookRows]
  BY HookFields
<1>. QED BY <1>1 DEF KeepsTotals

(* The state of a subscription is written. *)
LEMMA StateKept ==
  ASSUME TypeInv, UNCHANGED <<hooks, rows, posts>>, NEW s \in DOMAIN subs, NEW state,
         subs' = [subs EXCEPT ![s].state = state]
  PROVE  KeepsTotals
<1>1. subs \in Seq(SubRows)
  BY DEF TypeInv, DataOK
<1>2. \A r \in DOMAIN subs : subs[r] \in SubRows
  BY <1>1, ElementType
<1>3. DOMAIN subs' = DOMAIN subs
  BY <1>1
<1>4. subs' = [subs EXCEPT ![s] = [subs[s] EXCEPT !.state = state]]
  BY <1>1
<1>5. /\ [subs[s] EXCEPT !.state = state].deliveries = subs[s].deliveries
      /\ [subs[s] EXCEPT !.state = state].skipped = subs[s].skipped
  BY <1>2 DEF SubRows
<1>6. \A r \in DOMAIN subs : subs'[r] = IF r = s THEN [subs[s] EXCEPT !.state = state] ELSE subs[r]
  BY <1>4
<1>. QED BY <1>3, <1>5, <1>6 DEF KeepsTotals

LEMMA PlainGoes ==
  ASSUME TypeInv, NEW t \in Threads, NEW next, Goes(t, next), Aside(job[t]), Aside(next),
         KeepsTotals
  PROVE  Plain(t)
BY NextJob DEF Plain, Goes

LEMMA PlainOver ==
  ASSUME TypeInv, NEW t \in Threads, Over(t), Aside(job[t]), KeepsTotals
  PROVE  Plain(t)
BY PlainGoes, IdleAside DEF Over

LEMMA PlainFan ==
  ASSUME TypeInv, NEW t \in Threads, NEW s \in job[t].todo, Fan(t, s)
  PROVE  Plain(t)
<1>1. job[t] \in Jobs /\ Aside(job[t]) /\ KeepsTotals
  BY RecordsKept DEF TypeInv, Fan, Aside, records, history
<1>2. CASE Over(t)
  BY <1>1, <1>2, PlainOver
<1>3. ASSUME NEW reason \in Reason(t, s),
             Goes(t, [job[t] EXCEPT !.stage = "storing", !.sub = s, !.answer = reason])
      PROVE  Plain(t)
  <2>1. reason \in Withheld
    BY DEF Reason, Withheld
  <2>. DEFINE next == [job[t] EXCEPT !.stage = "storing", !.sub = s, !.answer = reason]
  <2>2. next.stage = "storing" /\ next.answer = reason
    BY <1>1 DEF Jobs
  <2>3. Aside(next)
    <3>. HIDE DEF next
    <3>. QED BY <2>1, <2>2 DEF Aside
  <2>. QED BY <1>1, <1>3, <2>3, PlainGoes
<1>4. CASE Goes(t, Through(t, s))
  <2>1. Through(t, s).stage = "fanning"
    BY <1>1 DEF Through, Jobs
  <2>2. Aside(Through(t, s))
    BY <2>1 DEF Aside
  <2>. QED BY <1>1, <1>4, <2>2, PlainGoes
<1>5. CASE Goes(t, [job[t] EXCEPT !.stage = "posting", !.sub = s, !.line = hooks[HookOf[s]],
                                  !.attempts = 0, !.seen = @ \cup {HookOf[s]}])
  <2>. DEFINE next == [job[t] EXCEPT !.stage = "posting", !.sub = s, !.line = hooks[HookOf[s]],
                                     !.attempts = 0, !.seen = @ \cup {HookOf[s]}]
  <2>1. next.stage = "posting"
    BY <1>1 DEF Jobs
  <2>2. Aside(next)
    <3>. HIDE DEF next
    <3>. QED BY <2>1 DEF Aside
  <2>. QED BY <1>1, <1>5, <2>2, PlainGoes
<1>. QED BY <1>2, <1>3, <1>4, <1>5 DEF Fan

LEMMA PlainRetire ==
  ASSUME TypeInv, NEW t \in Threads, NEW s \in job[t].todo, RetireNext(t, s)
  PROVE  Plain(t)
<1>1. job[t] \in Jobs /\ Aside(job[t]) /\ UNCHANGED <<hooks, rows, posts>>
  BY DEF TypeInv, RetireNext, Aside
<1>2. CASE Over(t) /\ UNCHANGED subs
  BY <1>1, <1>2, PlainOver, RecordsKept
<1>3. CASE /\ s \in Kept /\ subs' = [subs EXCEPT ![s].state = "gone"]
           /\ Goes(t, [job[t] EXCEPT !.stage = "recounting", !.todo = @ \ {s}])
  <2>1. KeepsTotals
    BY <1>1, <1>3, StateKept DEF Kept
  <2>2. [job[t] EXCEPT !.stage = "recounting", !.todo = @ \ {s}].stage = "recounting"
    BY <1>1 DEF Jobs
  <2>3. Aside([job[t] EXCEPT !.stage = "recounting", !.todo = @ \ {s}])
    BY <2>2 DEF Aside
  <2>. QED BY <1>1, <1>3, <2>1, <2>3, PlainGoes
<1>. QED BY <1>2, <1>3 DEF RetireNext

(* A call at a webhook or at a subscription of its own. *)
LEMMA PlainEdits ==
  ASSUME TypeInv, NEW t \in Threads,
         ConfirmRotation(t) \/ RotateWrite(t) \/ SubscribeWrite(t) \/ RetireHook(t)
  PROVE  Plain(t)
<1>. DEFINE h == job[t].hook
            g == HookOf[job[t].sub]
<1>1. job[t] \in Jobs /\ Aside(job[t]) /\ UNCHANGED <<rows, posts>> /\ h \in Hooks
  BY DEF TypeInv, ConfirmRotation, RotateWrite, SubscribeWrite, RetireHook, Aside, history, Jobs
<1>2. CASE ConfirmRotation(t)
  <2>1. g \in Hooks /\ hooks[g] \in HookRows
    BY <1>2, HooksOf, HookFields DEF ConfirmRotation, TypeInv, CallsFit, Fits, Sending
  <2>2. \/ UNCHANGED hooks
        \/ hooks' = [hooks EXCEPT ![g] = [hooks[g] EXCEPT !.confirmed = TRUE]]
    BY <1>2, <2>1, HookFields DEF ConfirmRotation
  <2>3. [hooks[g] EXCEPT !.confirmed = TRUE].deliveries = hooks[g].deliveries
    BY <2>1 DEF HookRows
  <2>4. KeepsTotals
    BY <1>1, <1>2, <2>1, <2>2, <2>3, HooksKept, RecordsKept DEF ConfirmRotation
  <2>. QED BY <1>1, <1>2, <2>4, PlainOver DEF ConfirmRotation
<1>3. CASE RotateWrite(t)
  <2>. DEFINE row == [hooks[h] EXCEPT !.secret = @ + 1, !.previous = job[t].line.secret,
                                      !.confirmed = FALSE]
  <2>1. hooks[h] \in HookRows
    BY <1>1, HookFields
  <2>2. UNCHANGED hooks \/ hooks' = [hooks EXCEPT ![h] = row]
    BY <1>1, <1>3, HookFields DEF RotateWrite
  <2>3. row.deliveries = hooks[h].deliveries
    BY <2>1 DEF HookRows
  <2>4. KeepsTotals
    BY <1>1, <1>3, <2>2, <2>3, HooksKept, RecordsKept DEF RotateWrite
  <2>. QED BY <1>1, <1>3, <2>4, PlainOver DEF RotateWrite
<1>4. CASE SubscribeWrite(t)
  <2>1. subs \in Seq(SubRows) /\ subs' = Append(subs, NewSub) /\ UNCHANGED hooks
    BY <1>4 DEF SubscribeWrite, TypeInv, DataOK
  <2>2. NewSub.deliveries = 0 /\ NewSub.skipped = 0
    BY DEF NewSub
  <2>3. KeepsTotals
    <3>1. /\ DOMAIN subs = 1..Len(subs) /\ DOMAIN subs' = 1..(Len(subs) + 1) /\ Len(subs) \in Nat
          /\ \A s \in 1..Len(subs) : subs'[s] = subs[s]
          /\ subs'[Len(subs) + 1] = NewSub
      BY <2>1, RowTypes
    <3>2. \A s \in DOMAIN subs' \ DOMAIN subs : s = Len(subs) + 1
      BY <3>1
    <3>. QED BY <1>1, <2>1, <2>2, <3>1, <3>2 DEF KeepsTotals
  <2>. DEFINE next == [job[t] EXCEPT !.call = "edit", !.stage = "recounting"]
  <2>4. next.stage = "recounting"
    BY <1>1 DEF Jobs
  <2>5. Aside(next)
    <3>. HIDE DEF next
    <3>. QED BY <2>4 DEF Aside
  <2>. QED BY <1>1, <1>4, <2>3, <2>5, PlainGoes DEF SubscribeWrite
<1>5. CASE RetireHook(t)
  <2>1. hooks[h] \in HookRows
    BY <1>1, HookFields
  <2>2. hooks' = [hooks EXCEPT ![h] = [hooks[h] EXCEPT !.state = "retired"]]
    BY <1>1, <1>5, HookFields DEF RetireHook
  <2>3. [hooks[h] EXCEPT !.state = "retired"].deliveries = hooks[h].deliveries
    BY <2>1 DEF HookRows
  <2>4. KeepsTotals
    BY <1>1, <1>5, <2>2, <2>3, HooksKept DEF RetireHook
  <2>. QED BY <1>1, <1>5, <2>4, PlainOver DEF RetireHook
<1>. QED BY <1>2, <1>3, <1>4, <1>5

LEMMA PlainRecount ==
  ASSUME TypeInv, NEW t \in Threads, Recount(t) \/ RecountWrite(t)
  PROVE  Plain(t)
<1>. DEFINE h == job[t].hook
<1>1. job[t] \in Jobs /\ Aside(job[t]) /\ UNCHANGED <<subs, rows, posts>> /\ h \in Hooks
  BY DEF TypeInv, Recount, RecountWrite, Aside, records, history, Jobs
<1>2. ASSUME RecountOver(t), KeepsTotals
      PROVE  Plain(t)
  <2>1. CASE Over(t)
    BY <1>1, <1>2, <2>1, PlainOver
  <2>2. CASE Goes(t, [job[t] EXCEPT !.stage = "retiring"])
    <3>1. [job[t] EXCEPT !.stage = "retiring"].stage = "retiring"
      BY <1>1 DEF Jobs
    <3>2. Aside([job[t] EXCEPT !.stage = "retiring"])
      BY <3>1 DEF Aside
    <3>. QED BY <1>1, <1>2, <2>2, <3>2, PlainGoes
  <2>. QED BY <1>2, <2>1, <2>2 DEF RecountOver
<1>3. CASE Recount(t)
  <2>1. KeepsTotals
    BY <1>1, <1>3, RecordsKept DEF Recount, records
  <2>. DEFINE next == [job[t] EXCEPT !.stage = "recounted",
                                     !.count = Cardinality(Live \cap Under(h))]
  <2>2. next.stage = "recounted"
    BY <1>1 DEF Jobs
  <2>3. Aside(next)
    <3>. HIDE DEF next
    <3>. QED BY <2>2 DEF Aside
  <2>4. CASE Goes(t, next)
    BY <1>1, <2>1, <2>3, <2>4, PlainGoes
  <2>. QED BY <1>2, <1>3, <2>1, <2>4 DEF Recount
<1>4. CASE RecountWrite(t)
  <2>1. CASE Over(t) /\ UNCHANGED hooks
    BY <1>1, <2>1, PlainOver, RecordsKept
  <2>2. CASE hooks' = [hooks EXCEPT ![h].subscriptions = job[t].count] /\ RecountOver(t)
    <3>1. hooks[h] \in HookRows
      BY <1>1, HookFields
    <3>2. hooks' = [hooks EXCEPT ![h] = [hooks[h] EXCEPT !.subscriptions = job[t].count]]
      BY <1>1, <2>2, HookFields
    <3>3. [hooks[h] EXCEPT !.subscriptions = job[t].count].deliveries = hooks[h].deliveries
      BY <3>1 DEF HookRows
    <3>4. KeepsTotals
      BY <1>1, <3>2, <3>3, HooksKept
    <3>. QED BY <1>2, <2>2, <3>4
  <2>. QED BY <1>4, <2>1, <2>2 DEF RecountWrite
<1>. QED BY <1>3, <1>4

LEMMA PlainHandler ==
  ASSUME TypeInv, NEW t \in Threads, Handler(t), ~Counting(t)
  PROVE  Plain(t)
<1>1. job[t] \in Jobs
  BY DEF TypeInv
<1>2. CASE List(t)
  <2>1. Aside(job[t]) /\ KeepsTotals
    BY <1>2, RecordsKept DEF List, Aside, records, history
  <2>. DEFINE next == [job[t] EXCEPT !.stage = "fanning",
                 !.todo = {s \in Kept : events[job[t].event].interest[s] # "other"},
                 !.off = Kept \ Live]
  <2>2. next.stage = "fanning"
    BY <1>1 DEF Jobs
  <2>3. Aside(next)
    <3>. HIDE DEF next
    <3>. QED BY <2>2 DEF Aside
  <2>. QED BY <1>2, <2>1, <2>3, PlainGoes DEF List
<1>3. CASE FanOver(t)
  <2>1. Aside(job[t]) /\ KeepsTotals
    BY <1>3, RecordsKept DEF FanOver, Aside, history
  <2>. QED BY <1>3, <2>1, PlainOver DEF FanOver
<1>4. CASE RetryRequire(t)
  <2>1. Aside(job[t]) /\ KeepsTotals
    BY <1>4, RecordsKept DEF RetryRequire, Aside, records, history
  <2>. DEFINE next == [job[t] EXCEPT !.stage = "posting", !.line = hooks[HookOf[job[t].sub]]]
  <2>2. next.stage = "posting"
    BY <1>1 DEF Jobs
  <2>3. Aside(next)
    <3>. HIDE DEF next
    <3>. QED BY <2>2 DEF Aside
  <2>4. CASE Over(t)
    BY <2>1, <2>4, PlainOver
  <2>5. CASE Goes(t, next)
    BY <2>1, <2>3, <2>5, PlainGoes
  <2>. QED BY <1>4, <2>4, <2>5 DEF RetryRequire
<1>. QED
  BY <1>2, <1>3, <1>4, PlainFan, PlainRetire, PlainEdits, PlainRecount DEF Handler, Counting

LEMMA PlainBegins ==
  ASSUME TypeInv, NEW t \in Threads, NEW call, Start(t, call),
         call.stage \in {"idle", "listing", "requiring", "rotating", "recounting", "subscribing",
                         "retiring"},
         KeepsTotals
  PROVE  Plain(t)
<1>1. Aside(job[t]) /\ Aside(call)
  BY DEF Start, Aside
<1>. QED BY <1>1, NextJob DEF Start, Plain

Begins(t) ==
  \/ \E interest \in Interests : RecordEvent(t, interest)
  \/ \E r \in DOMAIN rows : Retry(t, r)
  \/ \E h \in Hooks : Rotate(t, h) \/ Retire(t, h)
  \/ \E h \in Hooks, state \in {"live", "paused"} : PauseWebhook(t, h, state)
  \/ \E s \in DOMAIN subs, state \in {"live", "paused"} : PauseSubscription(t, s, state)
  \/ \E s \in DOMAIN subs : Unsubscribe(t, s)
  \/ Subscribe(t)

LEMMA NextCases ==
  ASSUME [Next]_vars
  PROVE  UNCHANGED vars \/ Crash \/ \E t \in Threads : Begins(t) \/ Handler(t)
BY Zenon DEF Next, Begins

(* A call never starts in the middle of a count. *)
LEMMA PlainStart ==
  ASSUME TypeInv, NEW t \in Threads, Begins(t)
  PROVE  Plain(t)
<1>. DEFINE places == {"idle", "listing", "requiring", "rotating", "recounting", "subscribing",
                       "retiring"}
<1>1. ASSUME NEW interest \in Interests, RecordEvent(t, interest)
      PROVE  Plain(t)
  <2>1. KeepsTotals
    BY <1>1, RecordsKept DEF RecordEvent
  <2>2. [IdleJob EXCEPT !.call = "event", !.stage = "listing", !.event = Len(events) + 1].stage
          \in places
    BY DEF IdleJob
  <2>. QED BY <1>1, <2>1, <2>2, PlainBegins DEF RecordEvent
<1>2. ASSUME NEW r \in DOMAIN rows, Retry(t, r)
      PROVE  Plain(t)
  <2>1. KeepsTotals
    BY <1>2, RecordsKept DEF Retry, records, history
  <2>2. [IdleJob EXCEPT !.call = "retry", !.stage = "requiring", !.row = r,
              !.event = rows[r].event, !.sub = rows[r].sub,
              !.attempts = rows[r].attempts].stage \in places
    BY DEF IdleJob
  <2>. QED BY <1>2, <2>1, <2>2, PlainBegins DEF Retry
<1>3. ASSUME NEW h \in Hooks, Rotate(t, h)
      PROVE  Plain(t)
  <2>1. KeepsTotals
    BY <1>3, RecordsKept DEF Rotate, records, history
  <2>2. [IdleJob EXCEPT !.call = "rotate", !.stage = "rotating", !.hook = h,
                        !.line = hooks[h]].stage \in places
    BY DEF IdleJob
  <2>. QED BY <1>3, <2>1, <2>2, PlainBegins DEF Rotate
<1>4. ASSUME NEW h \in Hooks, Retire(t, h)
      PROVE  Plain(t)
  <2>1. KeepsTotals
    BY <1>4, RecordsKept DEF Retire, records, history
  <2>2. [IdleJob EXCEPT !.call = "retire", !.stage = "retiring", !.hook = h,
                        !.todo = Kept \cap Under(h)].stage \in places
    BY DEF IdleJob
  <2>. QED BY <1>4, <2>1, <2>2, PlainBegins DEF Retire
<1>5. ASSUME NEW h \in Hooks, NEW state \in {"live", "paused"}, PauseWebhook(t, h, state)
      PROVE  Plain(t)
  <2>1. hooks[h] \in HookRows
    BY HookFields
  <2>2. hooks' = [hooks EXCEPT ![h] = [hooks[h] EXCEPT !.state = state]]
    BY <1>5, HookFields DEF PauseWebhook
  <2>3. [hooks[h] EXCEPT !.state = state].deliveries = hooks[h].deliveries
    BY <2>1 DEF HookRows
  <2>4. KeepsTotals
    BY <1>5, <2>2, <2>3, HooksKept DEF PauseWebhook
  <2>5. IdleJob.stage \in places
    BY DEF IdleJob
  <2>. QED BY <1>5, <2>4, <2>5, PlainBegins DEF PauseWebhook
<1>6. ASSUME NEW s \in DOMAIN subs, NEW state, Start(t, Recounts(t, "edit", s)),
             subs' = [subs EXCEPT ![s].state = state], UNCHANGED <<hooks, rows, posts>>
      PROVE  Plain(t)
  <2>1. KeepsTotals
    BY <1>6, StateKept
  <2>2. Recounts(t, "edit", s).stage \in places
    BY DEF Recounts, IdleJob
  <2>. QED BY <1>6, <2>1, <2>2, PlainBegins
<1>7. CASE Subscribe(t)
  <2>1. KeepsTotals
    BY <1>7, RecordsKept DEF Subscribe, records, history
  <2>2. [IdleJob EXCEPT !.call = "subscribe", !.stage = "subscribing",
                        !.hook = HookOf[Len(subs) + 1]].stage \in places
    BY DEF IdleJob
  <2>. QED BY <1>7, <2>1, <2>2, PlainBegins DEF Subscribe
<1>8. ASSUME NEW s \in DOMAIN subs, NEW state \in {"live", "paused"},
             PauseSubscription(t, s, state)
      PROVE  Plain(t)
  BY <1>6, <1>8 DEF PauseSubscription
<1>9. ASSUME NEW s \in DOMAIN subs, Unsubscribe(t, s)
      PROVE  Plain(t)
  BY <1>6, <1>9 DEF Unsubscribe
<1>. QED BY <1>1, <1>2, <1>3, <1>4, <1>5, <1>7, <1>8, <1>9 DEF Begins

-----------------------------------------------------------------------------
(* The tallies: POSTs of a subscription and of a webhook that a call has    *)
(* made and not yet counted, and skips it has stored and not yet counted.   *)

Serving == {t \in Threads : job[t].stage # "idle"}

Uncounted(s) ==
  {t \in Serving : /\ job[t].stage \in {"storing", "folding", "folded"}
                   /\ job[t].answer \in Answers /\ job[t].sub = s}
Unskipped(s) ==
  {t \in Serving : /\ job[t].stage \in {"folding", "folded"}
                   /\ job[t].answer \in Withheld /\ job[t].sub = s}
Untold(h) ==
  {t \in Serving : /\ job[t].stage \in {"folding", "folded", "counting", "counted"}
                   /\ job[t].call = "event" /\ job[t].answer \in Answers
                   /\ HookOf[job[t].sub] = h}

SentTo(h) == {r \in DOMAIN rows : HookOf[rows[r].sub] = h /\ rows[r].state # "skipped"}

(* What the counters may show by now. *)
CountedFor(s) == posts[s] - Cardinality(Uncounted(s))
SkipsFor(s) == Cardinality(SkippedFor(s)) - Cardinality(Unskipped(s))
CountedTo(h) == Cardinality(SentTo(h)) - Cardinality(Untold(h))

LEMMA SameBut ==
  ASSUME NEW A, NEW B, NEW x, x \notin A, x \notin B, A \ {x} = B \ {x}
  PROVE  A = B
OBVIOUS

(* One element more, or one less, or neither. *)
LEMMA Tally ==
  ASSUME NEW A, NEW B, NEW x, IsFiniteSet(A), A \ {x} = B \ {x}
  PROVE  /\ IsFiniteSet(B) /\ Cardinality(A) \in Nat /\ Cardinality(B) \in Nat
         /\ (x \in A <=> x \in B) => Cardinality(B) = Cardinality(A)
         /\ x \in A /\ x \notin B => Cardinality(B) = Cardinality(A) - 1
         /\ x \notin A /\ x \in B => Cardinality(B) = Cardinality(A) + 1
<1>1. CASE x \in A /\ x \in B
  <2>1. A = B
    BY <1>1
  <2>. QED BY <1>1, <2>1, FS_CardinalityType
<1>2. CASE x \notin A /\ x \notin B
  <2>1. A = B
    BY <1>2
  <2>. QED BY <1>2, <2>1, FS_CardinalityType
<1>3. CASE x \in A /\ x \notin B
  <2>1. B = A \ {x}
    BY <1>3
  <2>2. IsFiniteSet(B) /\ Cardinality(B) = Cardinality(A) - 1
    BY <1>3, <2>1, FS_RemoveElement
  <2>. QED BY <1>3, <2>2, FS_CardinalityType
<1>4. CASE x \notin A /\ x \in B
  <2>1. B = A \cup {x}
    BY <1>4
  <2>2. IsFiniteSet(B) /\ Cardinality(B) = Cardinality(A) + 1
    BY <1>4, <2>1, FS_AddElement
  <2>. QED BY <1>4, <2>2, FS_CardinalityType
<1>. QED BY <1>1, <1>2, <1>3, <1>4

LEMMA Countable ==
  ASSUME TypeInv, IsFiniteSet(Serving), NEW x
  PROVE  /\ IsFiniteSet(Uncounted(x)) /\ Cardinality(Uncounted(x)) \in Nat
         /\ IsFiniteSet(Unskipped(x)) /\ Cardinality(Unskipped(x)) \in Nat
         /\ IsFiniteSet(Untold(x)) /\ Cardinality(Untold(x)) \in Nat
         /\ IsFiniteSet(SentTo(x)) /\ Cardinality(SentTo(x)) \in Nat
         /\ IsFiniteSet(SkippedFor(x)) /\ Cardinality(SkippedFor(x)) \in Nat
<1>1. Uncounted(x) \in SUBSET Serving /\ Unskipped(x) \in SUBSET Serving
      /\ Untold(x) \in SUBSET Serving
  BY DEF Uncounted, Unskipped, Untold
<1>2. IsFiniteSet(DOMAIN rows)
  <2>1. DOMAIN rows = 1..Len(rows) /\ Len(rows) \in Nat
    BY DEF TypeInv, DataOK
  <2>. QED BY <2>1, FS_Interval
<1>3. SentTo(x) \in SUBSET DOMAIN rows /\ SkippedFor(x) \in SUBSET DOMAIN rows
  BY DEF SentTo, SkippedFor
<1>. QED BY <1>1, <1>2, <1>3, FS_Subset, FS_CardinalityType

(* A step of one call moves the tallies by its own part. *)
LEMMA OneMoves ==
  ASSUME TypeInv, IsFiniteSet(Serving), NEW t \in Threads, job' = [job EXCEPT ![t] = job'[t]],
         NEW x
  PROVE  /\ IsFiniteSet(Serving') /\ Serving' \ {t} = Serving \ {t}
         /\ Uncounted(x)' \ {t} = Uncounted(x) \ {t}
         /\ Unskipped(x)' \ {t} = Unskipped(x) \ {t}
         /\ Untold(x)' \ {t} = Untold(x) \ {t}
<1>1. \A u \in Threads \ {t} : job'[u] = job[u]
  BY DEF TypeInv
<1>2. Serving' \ {t} = Serving \ {t}
  BY <1>1 DEF Serving
<1>3. IsFiniteSet(Serving')
  BY <1>2, Tally
<1>. QED BY <1>1, <1>2, <1>3 DEF Serving, Uncounted, Unskipped, Untold

(* What was made and not counted does not change. *)
Level ==
  /\ \A s \in Subs : CountedFor(s)' = CountedFor(s) /\ SkipsFor(s)' = SkipsFor(s)
  /\ \A h \in Hooks : CountedTo(h)' = CountedTo(h)

Grows ==
  /\ \A s \in Subs : CountedFor(s)' \in Int /\ CountedFor(s) <= CountedFor(s)'
  /\ \A h \in Hooks : CountedTo(h)' \in Int /\ CountedTo(h) <= CountedTo(h)'

LEMMA TallyTypes ==
  ASSUME TypeInv, IsFiniteSet(Serving)
  PROVE  /\ \A s \in Subs : CountedFor(s) \in Int /\ SkipsFor(s) \in Int /\ posts[s] \in Nat
         /\ \A h \in Hooks : CountedTo(h) \in Int
<1>1. \A s \in Subs : posts[s] \in Nat
  BY DEF TypeInv, DataOK
<1>. QED BY <1>1, Countable DEF CountedFor, SkipsFor, CountedTo

LEMMA LevelGrows ==
  ASSUME TypeInv, IsFiniteSet(Serving), Level
  PROVE  Grows
BY TallyTypes DEF Level, Grows

LEMMA PlainLevel ==
  ASSUME TypeInv, IsFiniteSet(Serving), NEW t \in Threads, Plain(t)
  PROVE  Level
<1>1. /\ job' = [job EXCEPT ![t] = job'[t]] /\ Aside(job[t]) /\ Aside(job'[t])
      /\ UNCHANGED <<rows, posts>>
  BY DEF Plain, KeepsTotals
<1>2. Answers \cap Withheld = {}
  BY DEF Answers, Withheld
<1>3. ASSUME NEW x
      PROVE  /\ t \notin Uncounted(x) /\ t \notin Uncounted(x)'
             /\ t \notin Unskipped(x) /\ t \notin Unskipped(x)'
             /\ t \notin Untold(x) /\ t \notin Untold(x)'
  BY <1>1, <1>2 DEF Aside, Uncounted, Unskipped, Untold
<1>4. ASSUME NEW x
      PROVE  /\ Uncounted(x)' = Uncounted(x) /\ Unskipped(x)' = Unskipped(x)
             /\ Untold(x)' = Untold(x)
  BY <1>1, <1>3, OneMoves
<1>5. \A x : SentTo(x)' = SentTo(x) /\ SkippedFor(x)' = SkippedFor(x)
  BY <1>1 DEF SentTo, SkippedFor
<1>. QED BY <1>1, <1>4, <1>5 DEF Level, CountedFor, SkipsFor, CountedTo

LEMMA PostMove ==
  ASSUME TypeInv, NEW t \in Threads, NEW answer \in Answers, Post(t, answer)
  PROVE  /\ job' = [job EXCEPT ![t] = job'[t]]
         /\ job[t].stage = "posting" /\ job[t].sub \in Subs
         /\ job'[t].stage = "storing" /\ job'[t].answer = answer /\ job'[t].sub = job[t].sub
         /\ UNCHANGED <<hooks, subs, rows>>
         /\ posts' = [posts EXCEPT ![job[t].sub] = @ + 1]
<1>. DEFINE attempts == IF job[t].attempts > MaxRetries THEN job[t].attempts
                        ELSE job[t].attempts + 1
            next == [job[t] EXCEPT !.stage = "storing", !.answer = answer, !.attempts = attempts]
<1>1. /\ job[t] \in Jobs /\ job[t].stage = "posting" /\ job[t].sub \in Subs
      /\ job' = [job EXCEPT ![t] = next]
  BY DEF TypeInv, CallsFit, Fits, Sending, Post, Goes
<1>2. next.stage = "storing" /\ next.answer = answer /\ next.sub = job[t].sub
  BY <1>1 DEF Jobs
<1>. HIDE DEF next
<1>. QED BY <1>1, <1>2, NextJob DEF Post, records

LEMMA PostLevel ==
  ASSUME TypeInv, IsFiniteSet(Serving), NEW t \in Threads, NEW answer \in Answers,
         Post(t, answer)
  PROVE  Level
<1>. DEFINE s == job[t].sub
<1>1. /\ job' = [job EXCEPT ![t] = job'[t]] /\ job[t].stage = "posting" /\ s \in Subs
      /\ job'[t].stage = "storing" /\ job'[t].answer = answer /\ job'[t].sub = s
      /\ UNCHANGED rows /\ posts' = [posts EXCEPT ![s] = @ + 1]
  BY PostMove
<1>2. answer \notin Withheld
  BY DEF Answers, Withheld
<1>3. \A x : /\ t \notin Uncounted(x) /\ (t \in Uncounted(x)' <=> x = s)
             /\ t \notin Unskipped(x) /\ t \notin Unskipped(x)'
             /\ t \notin Untold(x) /\ t \notin Untold(x)'
  BY <1>1, <1>2 DEF Serving, Uncounted, Unskipped, Untold
<1>4. \A x : /\ Uncounted(x)' \ {t} = Uncounted(x) \ {t}
             /\ Unskipped(x)' = Unskipped(x) /\ Untold(x)' = Untold(x)
  BY <1>1, <1>3, OneMoves
<1>5. \A x : SentTo(x)' = SentTo(x) /\ SkippedFor(x)' = SkippedFor(x)
  BY <1>1 DEF SentTo, SkippedFor
<1>6. ASSUME NEW x \in Subs
      PROVE  CountedFor(x)' = CountedFor(x)
  <2>1. /\ x = s => Cardinality(Uncounted(x)') = Cardinality(Uncounted(x)) + 1
        /\ x # s => Cardinality(Uncounted(x)') = Cardinality(Uncounted(x))
        /\ Cardinality(Uncounted(x)) \in Nat
    BY <1>3, <1>4, Countable, Tally
  <2>2. /\ posts \in [Subs -> Nat] /\ posts[x] \in Nat
    BY DEF TypeInv, DataOK
  <2>3. (x = s => posts'[x] = posts[x] + 1) /\ (x # s => posts'[x] = posts[x])
    BY <1>1, <2>2
  <2>. QED BY <2>1, <2>2, <2>3 DEF CountedFor
<1>. QED BY <1>4, <1>5, <1>6 DEF Level, SkipsFor, CountedTo

LEMMA StoreMove ==
  ASSUME SentInv, NEW t \in Threads, StoreDelivery(t)
  PROVE  /\ job' = [job EXCEPT ![t] = job'[t]]
         /\ job[t].stage = "storing" /\ job[t].sub \in Subs
         /\ job'[t].stage = "folding" /\ job'[t].call = job[t].call
         /\ job'[t].answer = job[t].answer /\ job'[t].sub = job[t].sub
         /\ job[t].answer \in Answers \cup Withheld /\ job[t].call \in {"event", "retry"}
         /\ UNCHANGED <<hooks, subs, posts>>
         /\ job[t].call = "event" =>
              /\ Len(rows') = Len(rows) + 1 /\ DOMAIN rows' = 1..(Len(rows) + 1)
              /\ DOMAIN rows = 1..Len(rows) /\ Len(rows) \in Nat
              /\ \A r \in DOMAIN rows : rows'[r] = rows[r]
              /\ rows'[Len(rows) + 1].sub = job[t].sub
              /\ rows'[Len(rows) + 1].state = "skipped" <=> job[t].answer \in Withheld
         /\ job[t].call = "retry" =>
              /\ job[t].answer \in Answers
              /\ DOMAIN rows' = DOMAIN rows
              /\ \A r \in DOMAIN rows : /\ rows'[r].sub = rows[r].sub
                                        /\ rows'[r].state = "skipped" <=> rows[r].state = "skipped"
<1>. DEFINE next == [job[t] EXCEPT !.stage = "folding"]
            body == [event |-> job[t].event, sub |-> job[t].sub, attempts |-> job[t].attempts,
                     state |-> StateAfter(job[t].answer, job[t].attempts)]
<1>1. /\ job[t] \in Jobs /\ job[t].stage = "storing" /\ Good(job[t], rows, events, steady)
      /\ job[t].sub \in Subs
      /\ UNCHANGED <<hooks, subs, posts>> /\ job' = [job EXCEPT ![t] = next]
      /\ rows' = IF job[t].call = "retry" THEN [rows EXCEPT ![job[t].row] = body]
                 ELSE Append(rows, body)
      /\ rows \in Seq(Rows)
  BY DEF SentInv, TypeInv, DataOK, CallsFit, Fits, Sending, StoreDelivery, Goes, history
<1>2. /\ next.call = job[t].call /\ next.stage = "folding" /\ next.sub = job[t].sub
      /\ next.answer = job[t].answer
  BY <1>1 DEF Jobs
<1>3. /\ job[t].answer \in Answers \cup Withheld /\ job[t].call \in {"event", "retry"}
      /\ job[t].attempts \in Nat
  BY <1>1 DEF Jobs, Good, Placed
<1>4. body.sub = job[t].sub /\ (body.state = "skipped" <=> job[t].answer \in Withheld)
  BY <1>3, StateAfterType
<1>. HIDE DEF next, body
<1>5. job' = [job EXCEPT ![t] = job'[t]] /\ job'[t] = next
  BY <1>1, NextJob DEF SentInv
<1>6. ASSUME job[t].call = "event"
      PROVE  /\ Len(rows') = Len(rows) + 1 /\ DOMAIN rows' = 1..(Len(rows) + 1)
             /\ DOMAIN rows = 1..Len(rows) /\ Len(rows) \in Nat
             /\ \A r \in DOMAIN rows : rows'[r] = rows[r]
             /\ rows'[Len(rows) + 1] = body
  <2>1. rows' = Append(rows, body)
    BY <1>1, <1>6
  <2>. QED BY <1>1, <2>1
<1>7. ASSUME job[t].call = "retry"
      PROVE  /\ job[t].answer \in Answers
             /\ DOMAIN rows' = DOMAIN rows
             /\ \A r \in DOMAIN rows : /\ rows'[r].sub = rows[r].sub
                                       /\ rows'[r].state = "skipped" <=> rows[r].state = "skipped"
  <2>1. /\ job[t].row \in DOMAIN rows /\ rows[job[t].row].sub = job[t].sub
        /\ rows[job[t].row].state # "skipped" /\ job[t].answer \in Answers
    BY <1>1, <1>7 DEF Good, Retries
  <2>2. job[t].answer \notin Withheld
    BY <2>1 DEF Answers, Withheld
  <2>3. rows' = [rows EXCEPT ![job[t].row] = body]
    BY <1>1, <1>7
  <2>. QED BY <1>1, <1>4, <2>1, <2>2, <2>3
<1>. QED BY <1>1, <1>2, <1>3, <1>4, <1>5, <1>6, <1>7

LEMMA StoreLevel ==
  ASSUME SentInv, IsFiniteSet(Serving), NEW t \in Threads, StoreDelivery(t)
  PROVE  Level
<1>. DEFINE s == job[t].sub
            c == job[t]
            sent == c.answer \in Answers
<1>0. TypeInv
  BY DEF SentInv
<1>1. /\ job' = [job EXCEPT ![t] = job'[t]]
      /\ c.stage = "storing" /\ s \in Subs
      /\ job'[t].stage = "folding" /\ job'[t].call = c.call
      /\ job'[t].answer = c.answer /\ job'[t].sub = s
      /\ c.answer \in Answers \cup Withheld /\ c.call \in {"event", "retry"}
      /\ UNCHANGED posts
  BY StoreMove
<1>2. (c.answer \in Withheld <=> ~sent) /\ (c.call = "retry" => sent)
  BY <1>1, StoreMove DEF Answers, Withheld
<1>3. \A x : /\ (t \in Uncounted(x)' <=> t \in Uncounted(x))
             /\ t \notin Unskipped(x) /\ (t \in Unskipped(x)' <=> ~sent /\ x = s)
             /\ t \notin Untold(x) /\ (t \in Untold(x)' <=> c.call = "event" /\ sent /\ HookOf[s] = x)
  BY <1>1, <1>2 DEF Serving, Uncounted, Unskipped, Untold
<1>4. \A x : /\ Uncounted(x)' \ {t} = Uncounted(x) \ {t}
             /\ Unskipped(x)' \ {t} = Unskipped(x) \ {t} /\ Untold(x)' \ {t} = Untold(x) \ {t}
  BY <1>0, <1>1, OneMoves
<1>5. \A x : Uncounted(x)' = Uncounted(x)
  BY <1>3, <1>4
<1>6. CASE c.call = "retry"
  <2>1. /\ DOMAIN rows' = DOMAIN rows
        /\ \A r \in DOMAIN rows : /\ rows'[r].sub = rows[r].sub
                                  /\ rows'[r].state = "skipped" <=> rows[r].state = "skipped"
    BY <1>6, StoreMove
  <2>2. \A x : SentTo(x)' = SentTo(x) /\ SkippedFor(x)' = SkippedFor(x)
    BY <2>1 DEF SentTo, SkippedFor
  <2>3. \A x : Unskipped(x)' = Unskipped(x) /\ Untold(x)' = Untold(x)
    BY <1>2, <1>3, <1>4, <1>6
  <2>. QED BY <1>1, <1>5, <2>2, <2>3 DEF Level, CountedFor, SkipsFor, CountedTo
<1>7. CASE c.call = "event"
  <2>. DEFINE new == Len(rows) + 1
  <2>1. /\ DOMAIN rows' = 1..new /\ DOMAIN rows = 1..Len(rows) /\ Len(rows) \in Nat
        /\ \A r \in DOMAIN rows : rows'[r] = rows[r]
        /\ rows'[new].sub = s /\ (rows'[new].state = "skipped" <=> ~sent)
    BY <1>2, <1>7, StoreMove
  <2>2. DOMAIN rows' = DOMAIN rows \cup {new} /\ new \notin DOMAIN rows
    BY <2>1
  <2>. HIDE DEF new, c, s
  <2>3. \A x : /\ new \notin SentTo(x) /\ (new \in SentTo(x)' <=> sent /\ HookOf[s] = x)
               /\ SentTo(x)' \ {new} = SentTo(x) \ {new}
               /\ new \notin SkippedFor(x) /\ (new \in SkippedFor(x)' <=> ~sent /\ x = s)
               /\ SkippedFor(x)' \ {new} = SkippedFor(x) \ {new}
    BY <2>1, <2>2 DEF SentTo, SkippedFor
  <2>4. ASSUME NEW x
        PROVE  SkipsFor(x)' = SkipsFor(x)
    <3>1. CASE ~sent /\ x = s
      <4>1. Cardinality(Unskipped(x)') = Cardinality(Unskipped(x)) + 1
            /\ Cardinality(Unskipped(x)) \in Nat
        BY <1>0, <1>3, <1>4, <3>1, Countable, Tally
      <4>2. Cardinality(SkippedFor(x)') = Cardinality(SkippedFor(x)) + 1
            /\ Cardinality(SkippedFor(x)) \in Nat
        BY <1>0, <2>3, <3>1, Countable, Tally
      <4>. QED BY <4>1, <4>2 DEF SkipsFor
    <3>2. CASE ~(~sent /\ x = s)
      <4>1. Unskipped(x)' = Unskipped(x)
        BY <1>3, <1>4, <3>2
      <4>2. /\ new \notin SkippedFor(x) /\ new \notin SkippedFor(x)'
            /\ SkippedFor(x)' \ {new} = SkippedFor(x) \ {new}
        BY <2>3, <3>2
      <4>3. SkippedFor(x)' = SkippedFor(x)
        BY <4>2, SameBut
      <4>. QED BY <4>1, <4>3 DEF SkipsFor
    <3>. QED BY <3>1, <3>2
  <2>5. ASSUME NEW x
        PROVE  CountedTo(x)' = CountedTo(x)
    <3>1. CASE sent /\ HookOf[s] = x
      <4>1. Cardinality(Untold(x)') = Cardinality(Untold(x)) + 1
            /\ Cardinality(Untold(x)) \in Nat
        BY <1>0, <1>3, <1>4, <1>7, <3>1, Countable, Tally
      <4>2. Cardinality(SentTo(x)') = Cardinality(SentTo(x)) + 1
            /\ Cardinality(SentTo(x)) \in Nat
        BY <1>0, <2>3, <3>1, Countable, Tally
      <4>. QED BY <4>1, <4>2 DEF CountedTo
    <3>2. CASE ~(sent /\ HookOf[s] = x)
      <4>1. Untold(x)' = Untold(x)
        BY <1>3, <1>4, <3>2
      <4>2. new \notin SentTo(x) /\ new \notin SentTo(x)' /\ SentTo(x)' \ {new} = SentTo(x) \ {new}
        BY <2>3, <3>2
      <4>3. SentTo(x)' = SentTo(x)
        BY <4>2, SameBut
      <4>. QED BY <4>1, <4>3 DEF CountedTo
    <3>. QED BY <3>1, <3>2
  <2>6. \A x \in Subs : CountedFor(x)' = CountedFor(x)
    BY <1>1, <1>5 DEF CountedFor
  <2>. QED BY <2>4, <2>5, <2>6 DEF Level
<1>. QED BY <1>1, <1>6, <1>7

-----------------------------------------------------------------------------
(* What the steps that count do. *)

(* The call goes on with the same subscription. *)
Follows(call, next) ==
  /\ next.call = call.call /\ next.event = call.event /\ next.sub = call.sub
  /\ next.todo = call.todo /\ next.answer = call.answer

(* The call goes on to the next candidate. *)
GoesOn(call, next) ==
  /\ next.call = "event" /\ next.stage = "fanning" /\ next.event = call.event
  /\ next.todo = call.todo \ {call.sub}

LEMMA IdleStage == IdleJob.stage = "idle" /\ IdleJob.call = "edit" /\ IdleJob.todo = {}
BY DEF IdleJob

LEMMA OverMove ==
  ASSUME TypeInv, NEW t \in Threads, Over(t)
  PROVE  job' = [job EXCEPT ![t] = job'[t]] /\ job'[t] = IdleJob
BY NextJob DEF Over, Goes

LEMMA FoldReadMove ==
  ASSUME SentInv, NEW t \in Threads, FoldRead(t)
  PROVE  /\ job' = [job EXCEPT ![t] = job'[t]] /\ UNCHANGED <<records, history>>
         /\ job[t].stage = "folding" /\ job[t].sub \in Subs /\ job[t].call \in {"event", "retry"}
         /\ \/ job[t].sub \notin Kept /\ job'[t] = IdleJob
            \/ /\ job[t].sub \in Kept
               /\ job'[t].stage = "folded" /\ job'[t].base = subs[job[t].sub]
               /\ Follows(job[t], job'[t])
<1>. DEFINE s == job[t].sub
            next == [job[t] EXCEPT !.stage = "folded", !.base = subs[s]]
<1>0. TypeInv
  BY DEF SentInv
<1>1. /\ job[t] \in Jobs /\ job[t].stage = "folding" /\ s \in Subs
      /\ job[t].call \in {"event", "retry"}
  BY DEF SentInv, TypeInv, CallsFit, Fits, Sending, Good, Placed, FoldRead
<1>2. next.stage = "folded" /\ next.base = subs[s] /\ Follows(job[t], next)
  BY <1>1 DEF Jobs, Follows
<1>3. CASE Goes(t, next)
  <2>. HIDE DEF next
  <2>1. job' = [job EXCEPT ![t] = job'[t]] /\ job'[t] = next
    BY <1>0, <1>3, NextJob DEF Goes
  <2>2. s \in Kept \/ Over(t)
    BY DEF FoldRead
  <2>3. CASE s \in Kept
    BY <1>1, <1>2, <2>1, <2>3 DEF FoldRead
  <2>4. CASE s \notin Kept
    BY <1>0, <1>1, <2>2, <2>4, OverMove DEF FoldRead
  <2>. QED BY <2>3, <2>4
<1>4. CASE s \notin Kept /\ Over(t)
  BY <1>0, <1>1, <1>4, OverMove DEF FoldRead
<1>5. (s \notin Kept /\ Over(t)) \/ Goes(t, next)
  BY DEF FoldRead
<1>. QED BY <1>3, <1>4, <1>5

LEMMA FoldedFields ==
  ASSUME NEW row \in SubRows, NEW base \in SubRows, NEW answer
  PROVE  /\ Folded(row, base, answer).state = row.state
         /\ answer \in Withheld =>
              /\ Folded(row, base, answer).skipped = base.skipped + 1
              /\ Folded(row, base, answer).deliveries = row.deliveries
         /\ answer \notin Withheld =>
              /\ Folded(row, base, answer).deliveries = base.deliveries + 1
              /\ Folded(row, base, answer).skipped = row.skipped
<1>1. CASE answer \in Withheld
  <2>. DEFINE filtered == IF answer = "excluded" THEN base.filtered + 1 ELSE row.filtered
              next == [row EXCEPT !.skipped = base.skipped + 1, !.filtered = filtered]
  <2>1. next.state = row.state /\ next.skipped = base.skipped + 1
        /\ next.deliveries = row.deliveries
    BY DEF SubRows
  <2>2. Folded(row, base, answer) = next
    BY <1>1 DEF Folded, SubRows
  <2>. QED BY <1>1, <2>1, <2>2
<1>2. CASE answer \notin Withheld
  <2>. DEFINE failures == IF answer = "ok" THEN row.failures ELSE base.failures + 1
              next == [row EXCEPT !.deliveries = base.deliveries + 1, !.failures = failures]
  <2>1. next.state = row.state /\ next.deliveries = base.deliveries + 1
        /\ next.skipped = row.skipped
    BY DEF SubRows
  <2>2. Folded(row, base, answer) = next
    BY <1>2 DEF Folded, SubRows
  <2>. QED BY <1>2, <2>1, <2>2
<1>. QED BY <1>1, <1>2

(* Where a call is after the counters of the subscription. *)
AfterCount(t) ==
  \/ Counted(t) /\ job'[t].stage = "counting" /\ Follows(job[t], job'[t])
  \/ ~Counted(t) /\ job[t].call = "event" /\ GoesOn(job[t], job'[t])
  \/ /\ ~Counted(t) /\ job[t].call = "retry" /\ Confirms(t)
     /\ job'[t].stage = "confirming" /\ Follows(job[t], job'[t])
  \/ ~Counted(t) /\ job[t].call = "retry" /\ job'[t] = IdleJob

LEMMA AfterFoldMove ==
  ASSUME TypeInv, NEW t \in Threads, AfterFold(t)
  PROVE  job' = [job EXCEPT ![t] = job'[t]] /\ AfterCount(t)
<1>1. job[t] \in Jobs
  BY DEF TypeInv
<1>2. CASE Counted(t) /\ Goes(t, [job[t] EXCEPT !.stage = "counting"])
  <2>. DEFINE next == [job[t] EXCEPT !.stage = "counting"]
  <2>1. next.stage = "counting" /\ Follows(job[t], next)
    BY <1>1 DEF Jobs, Follows
  <2>2. job' = [job EXCEPT ![t] = next]
    BY <1>2 DEF Goes
  <2>. HIDE DEF next
  <2>3. job' = [job EXCEPT ![t] = job'[t]] /\ job'[t] = next
    BY <2>2, NextJob
  <2>. QED BY <1>2, <2>1, <2>3 DEF AfterCount
<1>3. CASE /\ ~Counted(t) /\ job[t].call = "event"
           /\ Goes(t, [Through(t, job[t].sub) EXCEPT !.left = @ + 1])
  <2>. DEFINE next == [Through(t, job[t].sub) EXCEPT !.left = @ + 1]
  <2>1. GoesOn(job[t], next)
    BY <1>1, <1>3 DEF Through, Jobs, GoesOn
  <2>2. job' = [job EXCEPT ![t] = next]
    BY <1>3 DEF Goes
  <2>. HIDE DEF next
  <2>3. job' = [job EXCEPT ![t] = job'[t]] /\ job'[t] = next
    BY <2>2, NextJob
  <2>. QED BY <1>3, <2>1, <2>3 DEF AfterCount
<1>4. CASE /\ ~Counted(t) /\ job[t].call = "retry" /\ Confirms(t)
           /\ Goes(t, [job[t] EXCEPT !.stage = "confirming"])
  <2>. DEFINE next == [job[t] EXCEPT !.stage = "confirming"]
  <2>1. next.stage = "confirming" /\ Follows(job[t], next)
    BY <1>1 DEF Jobs, Follows
  <2>2. job' = [job EXCEPT ![t] = next]
    BY <1>4 DEF Goes
  <2>. HIDE DEF next
  <2>3. job' = [job EXCEPT ![t] = job'[t]] /\ job'[t] = next
    BY <2>2, NextJob
  <2>. QED BY <1>4, <2>1, <2>3 DEF AfterCount
<1>5. CASE ~Counted(t) /\ job[t].call = "retry" /\ Over(t)
  BY <1>5, OverMove DEF AfterCount
<1>. QED BY <1>2, <1>3, <1>4, <1>5 DEF AfterFold

LEMMA FoldWriteMove ==
  ASSUME SentInv, NEW t \in Threads, FoldWrite(t)
  PROVE  /\ job' = [job EXCEPT ![t] = job'[t]] /\ UNCHANGED <<hooks, events, rows, history>>
         /\ job[t].stage = "folded" /\ job[t].sub \in Subs /\ job[t].call \in {"event", "retry"}
         /\ job[t].answer \in Answers \cup Withheld
         /\ \/ job[t].sub \notin Kept /\ job'[t] = IdleJob /\ UNCHANGED subs
            \/ /\ job[t].sub \in Kept /\ DOMAIN subs' = DOMAIN subs
               /\ \A s \in DOMAIN subs : /\ subs'[s].state = subs[s].state
                                         /\ s # job[t].sub => subs'[s] = subs[s]
               /\ job[t].answer \in Withheld =>
                    /\ subs'[job[t].sub].skipped = job[t].base.skipped + 1
                    /\ subs'[job[t].sub].deliveries = subs[job[t].sub].deliveries
               /\ job[t].answer \in Answers =>
                    /\ subs'[job[t].sub].deliveries = job[t].base.deliveries + 1
                    /\ subs'[job[t].sub].skipped = subs[job[t].sub].skipped
               /\ AfterCount(t)
<1>. DEFINE s == job[t].sub
            row == Folded(subs[s], job[t].base, job[t].answer)
<1>0. TypeInv
  BY DEF SentInv
<1>1. /\ job[t] \in Jobs /\ job[t].stage = "folded" /\ s \in Subs /\ job[t].base \in SubRows
      /\ job[t].call \in {"event", "retry"} /\ job[t].answer \in Answers \cup Withheld
      /\ UNCHANGED <<hooks, events, rows, history>>
  BY DEF SentInv, TypeInv, CallsFit, Fits, Sending, Good, Placed, FoldWrite, Jobs
<1>2. CASE s \notin Kept /\ Over(t) /\ UNCHANGED subs
  BY <1>0, <1>1, <1>2, OverMove
<1>3. CASE s \in Kept /\ subs' = [subs EXCEPT ![s] = row] /\ AfterFold(t)
  <2>1. subs \in Seq(SubRows) /\ s \in DOMAIN subs
    BY <1>3 DEF Kept, SentInv, TypeInv, DataOK
  <2>2. subs[s] \in SubRows
    BY <2>1, ElementType
  <2>3. /\ row.state = subs[s].state
        /\ job[t].answer \in Withheld => /\ row.skipped = job[t].base.skipped + 1
                                         /\ row.deliveries = subs[s].deliveries
        /\ job[t].answer \notin Withheld => /\ row.deliveries = job[t].base.deliveries + 1
                                            /\ row.skipped = subs[s].skipped
    BY <1>1, <2>2, FoldedFields
  <2>. HIDE DEF row
  <2>4. /\ DOMAIN subs' = DOMAIN subs /\ subs'[s] = row
        /\ \A r \in DOMAIN subs : r # s => subs'[r] = subs[r]
    BY <1>3, <2>1
  <2>5. job[t].answer \in Answers => job[t].answer \notin Withheld
    BY DEF Answers, Withheld
  <2>6. job' = [job EXCEPT ![t] = job'[t]] /\ AfterCount(t)
    BY <1>0, <1>3, AfterFoldMove
  <2>. QED BY <1>1, <1>3, <2>3, <2>4, <2>5, <2>6
<1>. QED BY <1>2, <1>3 DEF FoldWrite

LEMMA CountReadMove ==
  ASSUME SentInv, NEW t \in Threads, CountRead(t)
  PROVE  /\ job' = [job EXCEPT ![t] = job'[t]] /\ UNCHANGED <<records, history>>
         /\ job[t].stage = "counting" /\ job[t].sub \in Subs /\ job[t].call = "event"
         /\ \/ hooks[HookOf[job[t].sub]].state = "retired" /\ job'[t] = IdleJob
            \/ /\ hooks[HookOf[job[t].sub]].state # "retired"
               /\ job'[t].stage = "counted" /\ job'[t].line = hooks[HookOf[job[t].sub]]
               /\ Follows(job[t], job'[t])
<1>. DEFINE h == HookOf[job[t].sub]
            next == [job[t] EXCEPT !.stage = "counted", !.line = hooks[h]]
<1>0. TypeInv
  BY DEF SentInv
<1>1. /\ job[t] \in Jobs /\ job[t].stage = "counting" /\ job[t].sub \in Subs
      /\ job[t].call = "event" /\ UNCHANGED <<records, history>>
  BY DEF SentInv, TypeInv, CallsFit, Fits, Sending, Good, Placed, CountRead
<1>2. next.stage = "counted" /\ next.line = hooks[h] /\ Follows(job[t], next)
  BY <1>1 DEF Jobs, Follows
<1>3. CASE hooks[h].state # "retired" /\ Goes(t, next)
  <2>. HIDE DEF next
  <2>1. job' = [job EXCEPT ![t] = job'[t]] /\ job'[t] = next
    BY <1>0, <1>3, NextJob DEF Goes
  <2>. QED BY <1>1, <1>2, <1>3, <2>1
<1>4. CASE hooks[h].state = "retired" /\ Over(t)
  BY <1>0, <1>1, <1>4, OverMove
<1>. QED BY <1>3, <1>4 DEF CountRead

LEMMA CountWriteMove ==
  ASSUME SentInv, NEW t \in Threads, CountWrite(t)
  PROVE  /\ job' = [job EXCEPT ![t] = job'[t]] /\ UNCHANGED <<subs, events, rows, history>>
         /\ job[t].stage = "counted" /\ job[t].sub \in Subs /\ job[t].call = "event"
         /\ \/ /\ hooks[HookOf[job[t].sub]].state = "retired" /\ job'[t] = IdleJob
               /\ UNCHANGED hooks
            \/ /\ hooks[HookOf[job[t].sub]].state # "retired"
               /\ \A g \in Hooks :
                    /\ hooks'[g].state = hooks[g].state /\ hooks'[g].secret = hooks[g].secret
                    /\ hooks'[g].confirmed = hooks[g].confirmed
                    /\ hooks'[g].subscriptions = hooks[g].subscriptions
                    /\ g # HookOf[job[t].sub] => hooks'[g].deliveries = hooks[g].deliveries
               /\ hooks'[HookOf[job[t].sub]].deliveries = job[t].line.deliveries + 1
               /\ GoesOn(job[t], job'[t])
<1>. DEFINE h == HookOf[job[t].sub]
            failed == IF job[t].answer = "ok" THEN 0 ELSE 1
            row == [hooks[h] EXCEPT !.deliveries = job[t].line.deliveries + 1,
                                    !.failures = job[t].line.failures + failed]
            next == [Through(t, job[t].sub) EXCEPT !.taken = @ + 1]
<1>0. TypeInv
  BY DEF SentInv
<1>1. /\ job[t] \in Jobs /\ job[t].stage = "counted" /\ job[t].sub \in Subs /\ h \in Hooks
      /\ job[t].call = "event" /\ UNCHANGED <<subs, events, rows, history>>
  BY HooksOf DEF SentInv, TypeInv, CallsFit, Fits, Sending, Good, Placed, CountWrite
<1>2. CASE hooks[h].state = "retired" /\ Over(t) /\ UNCHANGED hooks
  BY <1>0, <1>1, <1>2, OverMove
<1>3. CASE /\ hooks[h].state # "retired" /\ Goes(t, next)
           /\ hooks' = [hooks EXCEPT ![h].deliveries = job[t].line.deliveries + 1,
                                     ![h].failures = job[t].line.failures + failed]
  <2>1. hooks \in [Hooks -> HookRows] /\ hooks[h] \in HookRows
    BY <1>0, <1>1, HookFields
  <2>2. hooks' = [hooks EXCEPT ![h] = row]
    BY <1>3, <2>1
  <2>3. /\ row.state = hooks[h].state /\ row.secret = hooks[h].secret
        /\ row.confirmed = hooks[h].confirmed /\ row.subscriptions = hooks[h].subscriptions
        /\ row.deliveries = job[t].line.deliveries + 1
    BY <2>1 DEF HookRows
  <2>. HIDE DEF row
  <2>4. hooks'[h] = row /\ \A g \in Hooks : g # h => hooks'[g] = hooks[g]
    BY <1>1, <2>1, <2>2
  <2>5. GoesOn(job[t], next)
    BY <1>1 DEF Through, Jobs, GoesOn
  <2>. HIDE DEF next
  <2>6. job' = [job EXCEPT ![t] = job'[t]] /\ job'[t] = next
    BY <1>0, <1>3, NextJob DEF Goes
  <2>7. ASSUME NEW g \in Hooks
        PROVE  /\ hooks'[g].state = hooks[g].state /\ hooks'[g].secret = hooks[g].secret
               /\ hooks'[g].confirmed = hooks[g].confirmed
               /\ hooks'[g].subscriptions = hooks[g].subscriptions
               /\ g # h => hooks'[g].deliveries = hooks[g].deliveries
    <3>1. CASE g = h
      BY <2>3, <2>4, <3>1
    <3>2. CASE g # h
      BY <2>4, <3>2
    <3>. QED BY <3>1, <3>2
  <2>. QED BY <1>1, <1>3, <2>3, <2>4, <2>5, <2>6, <2>7
<1>. QED BY <1>2, <1>3 DEF CountWrite

(* A step of one call that makes no POST and writes no row moves the tallies *)
(* by what the call has left to count.                                       *)
LEMMA PartMoves ==
  ASSUME TypeInv, IsFiniteSet(Serving), NEW t \in Threads, job' = [job EXCEPT ![t] = job'[t]],
         UNCHANGED <<rows, posts>>
  PROVE  /\ \A x \in Subs :
              /\ (t \in Uncounted(x)' <=> t \in Uncounted(x)) => CountedFor(x)' = CountedFor(x)
              /\ t \in Uncounted(x) /\ t \notin Uncounted(x)'
                   => CountedFor(x)' = CountedFor(x) + 1
              /\ (t \in Unskipped(x)' <=> t \in Unskipped(x)) => SkipsFor(x)' = SkipsFor(x)
              /\ t \in Unskipped(x) /\ t \notin Unskipped(x)' => SkipsFor(x)' = SkipsFor(x) + 1
         /\ \A h \in Hooks :
              /\ (t \in Untold(h)' <=> t \in Untold(h)) => CountedTo(h)' = CountedTo(h)
              /\ t \in Untold(h) /\ t \notin Untold(h)' => CountedTo(h)' = CountedTo(h) + 1
<1>1. \A x : SentTo(x)' = SentTo(x) /\ SkippedFor(x)' = SkippedFor(x)
  BY DEF SentTo, SkippedFor
<1>2. ASSUME NEW x \in Subs
      PROVE  /\ (t \in Uncounted(x)' <=> t \in Uncounted(x)) => CountedFor(x)' = CountedFor(x)
             /\ t \in Uncounted(x) /\ t \notin Uncounted(x)'
                  => CountedFor(x)' = CountedFor(x) + 1
  <2>1. posts[x] \in Nat /\ posts'[x] = posts[x]
    BY DEF TypeInv, DataOK
  <2>2. /\ (t \in Uncounted(x)' <=> t \in Uncounted(x))
             => Cardinality(Uncounted(x)') = Cardinality(Uncounted(x))
        /\ t \in Uncounted(x) /\ t \notin Uncounted(x)'
             => Cardinality(Uncounted(x)') = Cardinality(Uncounted(x)) - 1
        /\ Cardinality(Uncounted(x)) \in Nat
    BY OneMoves, Countable, Tally
  <2>. QED BY <2>1, <2>2 DEF CountedFor
<1>3. ASSUME NEW x \in Subs
      PROVE  /\ (t \in Unskipped(x)' <=> t \in Unskipped(x)) => SkipsFor(x)' = SkipsFor(x)
             /\ t \in Unskipped(x) /\ t \notin Unskipped(x)' => SkipsFor(x)' = SkipsFor(x) + 1
  <2>1. Cardinality(SkippedFor(x)) \in Nat
    BY Countable
  <2>2. /\ (t \in Unskipped(x)' <=> t \in Unskipped(x))
             => Cardinality(Unskipped(x)') = Cardinality(Unskipped(x))
        /\ t \in Unskipped(x) /\ t \notin Unskipped(x)'
             => Cardinality(Unskipped(x)') = Cardinality(Unskipped(x)) - 1
        /\ Cardinality(Unskipped(x)) \in Nat
    BY OneMoves, Countable, Tally
  <2>. QED BY <1>1, <2>1, <2>2 DEF SkipsFor
<1>4. ASSUME NEW h \in Hooks
      PROVE  /\ (t \in Untold(h)' <=> t \in Untold(h)) => CountedTo(h)' = CountedTo(h)
             /\ t \in Untold(h) /\ t \notin Untold(h)' => CountedTo(h)' = CountedTo(h) + 1
  <2>1. Cardinality(SentTo(h)) \in Nat
    BY Countable
  <2>2. /\ (t \in Untold(h)' <=> t \in Untold(h))
             => Cardinality(Untold(h)') = Cardinality(Untold(h))
        /\ t \in Untold(h) /\ t \notin Untold(h)'
             => Cardinality(Untold(h)') = Cardinality(Untold(h)) - 1
        /\ Cardinality(Untold(h)) \in Nat
    BY OneMoves, Countable, Tally
  <2>. QED BY <1>1, <2>1, <2>2 DEF CountedTo
<1>. QED BY <1>2, <1>3, <1>4

(* A call that ends while it counts leaves something uncounted. *)
LEMMA DropTally ==
  ASSUME TypeInv, IsFiniteSet(Serving), NEW t \in Threads, job' = [job EXCEPT ![t] = job'[t]],
         UNCHANGED <<rows, posts>>, job'[t] = IdleJob
  PROVE  /\ Grows
         /\ \A x \in Subs : x # job[t].sub =>
              CountedFor(x)' = CountedFor(x) /\ SkipsFor(x)' = SkipsFor(x)
         /\ job[t].call # "event" => \A h \in Hooks : CountedTo(h)' = CountedTo(h)
<1>1. \A x : t \notin Uncounted(x)' /\ t \notin Unskipped(x)' /\ t \notin Untold(x)'
  BY IdleStage DEF Uncounted, Unskipped, Untold
<1>2. /\ \A x : x # job[t].sub => t \notin Uncounted(x) /\ t \notin Unskipped(x)
      /\ job[t].call # "event" => \A h : t \notin Untold(h)
  BY DEF Uncounted, Unskipped, Untold
<1>3. Grows
  <2>1. ASSUME NEW x \in Subs
        PROVE  CountedFor(x)' \in Int /\ CountedFor(x) <= CountedFor(x)'
    <3>1. CountedFor(x)' = CountedFor(x) \/ CountedFor(x)' = CountedFor(x) + 1
      BY <1>1, PartMoves
    <3>. QED BY <3>1, TallyTypes
  <2>2. ASSUME NEW h \in Hooks
        PROVE  CountedTo(h)' \in Int /\ CountedTo(h) <= CountedTo(h)'
    <3>1. CountedTo(h)' = CountedTo(h) \/ CountedTo(h)' = CountedTo(h) + 1
      BY <1>1, PartMoves
    <3>. QED BY <3>1, TallyTypes
  <2>. QED BY <2>1, <2>2 DEF Grows
<1>. QED BY <1>1, <1>2, <1>3, PartMoves

LEMMA FoldReadLevel ==
  ASSUME SentInv, IsFiniteSet(Serving), NEW t \in Threads, FoldRead(t), job[t].sub \in Kept
  PROVE  Level
<1>1. /\ job' = [job EXCEPT ![t] = job'[t]] /\ UNCHANGED <<rows, posts>>
      /\ job[t].stage = "folding" /\ job'[t].stage = "folded" /\ Follows(job[t], job'[t])
  BY FoldReadMove DEF records, history
<1>2. \A x : /\ t \in Uncounted(x)' <=> t \in Uncounted(x)
             /\ t \in Unskipped(x)' <=> t \in Unskipped(x)
             /\ t \in Untold(x)' <=> t \in Untold(x)
  BY <1>1 DEF Serving, Uncounted, Unskipped, Untold, Follows
<1>. QED BY <1>1, <1>2, PartMoves DEF Level, SentInv

LEMMA FoldWriteTally ==
  ASSUME SentInv, IsFiniteSet(Serving), NEW t \in Threads, FoldWrite(t), job[t].sub \in Kept
  PROVE  /\ \A x \in Subs :
              /\ x # job[t].sub => CountedFor(x)' = CountedFor(x) /\ SkipsFor(x)' = SkipsFor(x)
              /\ x = job[t].sub /\ job[t].answer \in Answers =>
                   CountedFor(x)' = CountedFor(x) + 1 /\ SkipsFor(x)' = SkipsFor(x)
              /\ x = job[t].sub /\ job[t].answer \in Withheld =>
                   SkipsFor(x)' = SkipsFor(x) + 1 /\ CountedFor(x)' = CountedFor(x)
         /\ \A h \in Hooks : CountedTo(h)' = CountedTo(h)
<1>. DEFINE s == job[t].sub
            c == job[t]
<1>1. /\ job' = [job EXCEPT ![t] = job'[t]] /\ UNCHANGED <<rows, posts>>
      /\ c.stage = "folded" /\ s \in Subs /\ c.answer \in Answers \cup Withheld
      /\ AfterCount(t)
  BY FoldWriteMove DEF history
<1>2. c.answer \in Answers => c.answer \notin Withheld
  BY DEF Answers, Withheld
<1>3. job'[t].stage \notin {"storing", "folding", "folded"}
  BY <1>1, IdleStage DEF AfterCount, GoesOn
<1>4. \/ /\ Counted(t) /\ job'[t].stage = "counting" /\ Follows(c, job'[t])
      \/ /\ ~Counted(t) /\ job'[t].stage \notin {"counting", "counted"}
  BY <1>1, IdleStage DEF AfterCount, GoesOn
<1>5. \A x : /\ t \notin Uncounted(x)' /\ t \notin Unskipped(x)'
             /\ t \in Uncounted(x) <=> (c.answer \in Answers /\ x = s)
             /\ t \in Unskipped(x) <=> (c.answer \in Withheld /\ x = s)
  BY <1>1, <1>3 DEF Serving, Uncounted, Unskipped
<1>6. \A x : t \in Untold(x)' <=> t \in Untold(x)
  <2>1. CASE Counted(t) /\ job'[t].stage = "counting" /\ Follows(c, job'[t])
    BY <1>1, <2>1 DEF Serving, Untold, Follows
  <2>2. CASE ~Counted(t) /\ job'[t].stage \notin {"counting", "counted"}
    <3>1. \A x : t \notin Untold(x)'
      BY <1>3, <2>2 DEF Untold
    <3>2. \A x : t \notin Untold(x)
      BY <1>2, <2>2 DEF Untold, Counted
    <3>. QED BY <3>1, <3>2
  <2>. QED BY <1>4, <2>1, <2>2
<1>7. TypeInv
  BY DEF SentInv
<1>8. /\ \A x \in Subs :
           /\ (t \in Uncounted(x)' <=> t \in Uncounted(x)) => CountedFor(x)' = CountedFor(x)
           /\ t \in Uncounted(x) /\ t \notin Uncounted(x)' => CountedFor(x)' = CountedFor(x) + 1
           /\ (t \in Unskipped(x)' <=> t \in Unskipped(x)) => SkipsFor(x)' = SkipsFor(x)
           /\ t \in Unskipped(x) /\ t \notin Unskipped(x)' => SkipsFor(x)' = SkipsFor(x) + 1
      /\ \A h \in Hooks :
           (t \in Untold(h)' <=> t \in Untold(h)) => CountedTo(h)' = CountedTo(h)
  BY <1>1, <1>7, PartMoves
<1>9. \A h \in Hooks : CountedTo(h)' = CountedTo(h)
  BY <1>6, <1>8
<1>10. ASSUME NEW x \in Subs
       PROVE  /\ x # s => CountedFor(x)' = CountedFor(x) /\ SkipsFor(x)' = SkipsFor(x)
              /\ x = s /\ c.answer \in Answers =>
                   CountedFor(x)' = CountedFor(x) + 1 /\ SkipsFor(x)' = SkipsFor(x)
              /\ x = s /\ c.answer \in Withheld =>
                   SkipsFor(x)' = SkipsFor(x) + 1 /\ CountedFor(x)' = CountedFor(x)
  BY <1>2, <1>5, <1>8
<1>. QED BY <1>1, <1>9, <1>10

LEMMA CountReadLevel ==
  ASSUME SentInv, IsFiniteSet(Serving), NEW t \in Threads, CountRead(t),
         hooks[HookOf[job[t].sub]].state # "retired"
  PROVE  Level
<1>1. /\ job' = [job EXCEPT ![t] = job'[t]] /\ UNCHANGED <<rows, posts>>
      /\ job[t].stage = "counting" /\ job'[t].stage = "counted" /\ Follows(job[t], job'[t])
  BY CountReadMove DEF records, history
<1>2. \A x : /\ t \in Uncounted(x)' <=> t \in Uncounted(x)
             /\ t \in Unskipped(x)' <=> t \in Unskipped(x)
             /\ t \in Untold(x)' <=> t \in Untold(x)
  BY <1>1 DEF Serving, Uncounted, Unskipped, Untold, Follows
<1>. QED BY <1>1, <1>2, PartMoves DEF Level, SentInv

LEMMA CountWriteTally ==
  ASSUME SentInv, IsFiniteSet(Serving), NEW t \in Threads, CountWrite(t),
         hooks[HookOf[job[t].sub]].state # "retired", job[t].answer \in Answers
  PROVE  /\ \A x \in Subs : CountedFor(x)' = CountedFor(x) /\ SkipsFor(x)' = SkipsFor(x)
         /\ \A h \in Hooks :
              /\ h = HookOf[job[t].sub] => CountedTo(h)' = CountedTo(h) + 1
              /\ h # HookOf[job[t].sub] => CountedTo(h)' = CountedTo(h)
<1>1. /\ job' = [job EXCEPT ![t] = job'[t]] /\ UNCHANGED <<rows, posts>>
      /\ job[t].stage = "counted" /\ job[t].call = "event" /\ job[t].sub \in Subs
      /\ job'[t].stage = "fanning"
  BY CountWriteMove DEF history, GoesOn
<1>2. \A x : /\ t \notin Uncounted(x)' /\ t \notin Uncounted(x)
             /\ t \notin Unskipped(x)' /\ t \notin Unskipped(x)
             /\ t \notin Untold(x)' /\ (t \in Untold(x) <=> x = HookOf[job[t].sub])
  BY <1>1 DEF Serving, Uncounted, Unskipped, Untold
<1>3. HookOf[job[t].sub] \in Hooks
  BY <1>1, HooksOf
<1>4. TypeInv
  BY DEF SentInv
<1>5. /\ \A x \in Subs : CountedFor(x)' = CountedFor(x) /\ SkipsFor(x)' = SkipsFor(x)
      /\ \A h \in Hooks :
           /\ (t \in Untold(h)' <=> t \in Untold(h)) => CountedTo(h)' = CountedTo(h)
           /\ t \in Untold(h) /\ t \notin Untold(h)' => CountedTo(h)' = CountedTo(h) + 1
  BY <1>1, <1>2, <1>4, PartMoves
<1>. QED BY <1>2, <1>3, <1>5

(* A crash leaves nothing to count: what was not counted never is. *)
LEMMA CrashTally ==
  ASSUME TypeInv, IsFiniteSet(Serving), Crash
  PROVE  Grows /\ IsFiniteSet(Serving')
<1>1. Serving' = {}
  BY IdleStage DEF Crash, Serving
<1>2. \A x : Uncounted(x)' = {} /\ Untold(x)' = {}
  BY <1>1 DEF Uncounted, Untold
<1>3. \A x : SentTo(x)' = SentTo(x)
  BY DEF SentTo, Crash, records
<1>4. UNCHANGED posts
  BY DEF Crash
<1>5. Cardinality({}) = 0 /\ IsFiniteSet({})
  BY FS_EmptySet
<1>6. \A x \in Subs : posts[x] \in Nat
  BY DEF TypeInv, DataOK
<1>7. ASSUME NEW x \in Subs
      PROVE  CountedFor(x)' \in Int /\ CountedFor(x) <= CountedFor(x)'
  <2>1. Cardinality(Uncounted(x)') = 0 /\ Cardinality(Uncounted(x)) \in Nat
    BY <1>2, <1>5, Countable
  <2>. QED BY <1>4, <1>6, <2>1 DEF CountedFor
<1>8. ASSUME NEW h \in Hooks
      PROVE  CountedTo(h)' \in Int /\ CountedTo(h) <= CountedTo(h)'
  <2>1. /\ Cardinality(Untold(h)') = 0 /\ Cardinality(Untold(h)) \in Nat
        /\ Cardinality(SentTo(h)) \in Nat
    BY <1>2, <1>5, Countable
  <2>. QED BY <1>3, <2>1 DEF CountedTo
<1>. QED BY <1>1, <1>5, <1>7, <1>8 DEF Grows

-----------------------------------------------------------------------------
(* The counters never tell of more than was sent: what they show, and what  *)
(* a call has read of them and will write, is at most what was counted.     *)

Fresh(t) ==
  /\ job[t].stage = "folded" /\ job[t].answer \in Answers =>
       \A s \in Subs : s = job[t].sub => job[t].base.deliveries <= CountedFor(s)
  /\ job[t].stage \in {"counting", "counted"} => job[t].answer \in Answers
  /\ job[t].stage = "counted" =>
       \A h \in Hooks : h = HookOf[job[t].sub] => job[t].line.deliveries <= CountedTo(h)

TallyInv ==
  /\ SentInv /\ IsFiniteSet(Serving)
  /\ \A s \in Subs : 0 <= CountedFor(s)
  /\ \A s \in DOMAIN subs : subs[s].deliveries <= CountedFor(s)
  /\ \A h \in Hooks : hooks[h].deliveries <= CountedTo(h)
  /\ \A t \in Threads : Fresh(t)

LEMMA CountTypes ==
  ASSUME TypeInv
  PROVE  /\ \A s \in DOMAIN subs : s \in Subs /\ subs[s].deliveries \in Nat /\ subs[s].skipped \in Nat
         /\ \A h \in Hooks : hooks[h].deliveries \in Nat
         /\ \A t \in Threads : /\ job[t].base.deliveries \in Nat /\ job[t].line.deliveries \in Nat
                               /\ job[t].stage \in Sending => job[t].sub \in Subs
<1>1. \A s \in DOMAIN subs : s \in Subs /\ subs[s] \in SubRows
  BY ElementType DEF TypeInv, DataOK
<1>2. \A h \in Hooks : hooks[h] \in HookRows
  BY HookFields
<1>3. \A t \in Threads : job[t].base \in SubRows /\ job[t].line \in HookRows
  BY DEF TypeInv, Jobs
<1>4. \A t \in Threads : job[t].stage \in Sending => job[t].sub \in Subs
  BY DEF TypeInv, CallsFit, Fits
<1>. QED BY <1>1, <1>2, <1>3, <1>4 DEF SubRows, HookRows

(* What a call has read stays true while others count. *)
LEMMA FreshStays ==
  ASSUME TallyInv, Grows, NEW u \in Threads, job'[u] = job[u]
  PROVE  Fresh(u)'
<1>1. /\ Fresh(u) /\ job[u].base.deliveries \in Nat /\ job[u].line.deliveries \in Nat
      /\ \A x \in Subs : CountedFor(x) \in Int
      /\ \A h \in Hooks : CountedTo(h) \in Int
  BY CountTypes, TallyTypes DEF TallyInv, SentInv
<1>2. ASSUME job[u].stage = "folded", job[u].answer \in Answers, NEW s \in Subs, s = job[u].sub
      PROVE  job[u].base.deliveries <= CountedFor(s)'
  BY <1>1, <1>2 DEF Fresh, Grows
<1>3. ASSUME job[u].stage = "counted", NEW h \in Hooks, h = HookOf[job[u].sub]
      PROVE  job[u].line.deliveries <= CountedTo(h)'
  BY <1>1, <1>3 DEF Fresh, Grows
<1>. QED BY <1>1, <1>2, <1>3 DEF Fresh

(* A step that counts nothing. *)
KeepsCounters ==
  /\ DOMAIN subs \subseteq DOMAIN subs'
  /\ \A s \in DOMAIN subs : subs'[s].deliveries = subs[s].deliveries
  /\ \A s \in DOMAIN subs' \ DOMAIN subs : s \in Subs /\ subs'[s].deliveries = 0
  /\ \A h \in Hooks : hooks'[h].deliveries = hooks[h].deliveries

LEMMA TallyKeeps ==
  ASSUME TallyInv, SentInv', IsFiniteSet(Serving'), Grows, KeepsCounters,
         \A u \in Threads : Fresh(u)'
  PROVE  TallyInv'
<1>1. /\ \A s \in DOMAIN subs : s \in Subs /\ subs[s].deliveries \in Nat
      /\ \A h \in Hooks : hooks[h].deliveries \in Nat
      /\ \A x \in Subs : CountedFor(x) \in Int
      /\ \A h \in Hooks : CountedTo(h) \in Int
  BY CountTypes, TallyTypes DEF TallyInv, SentInv
<1>2. ASSUME NEW s \in Subs
      PROVE  0 <= CountedFor(s)'
  BY <1>1 DEF TallyInv, Grows
<1>3. ASSUME NEW s \in DOMAIN subs'
      PROVE  subs'[s].deliveries <= CountedFor(s)'
  <2>1. CASE s \in DOMAIN subs
    BY <1>1, <2>1 DEF TallyInv, Grows, KeepsCounters
  <2>2. CASE s \notin DOMAIN subs
    BY <1>2, <2>2 DEF KeepsCounters
  <2>. QED BY <2>1, <2>2
<1>4. ASSUME NEW h \in Hooks
      PROVE  hooks'[h].deliveries <= CountedTo(h)'
  BY <1>1 DEF TallyInv, Grows, KeepsCounters
<1>. QED BY <1>2, <1>3, <1>4 DEF TallyInv

LEMMA FreshPlain ==
  ASSUME NEW t, job'[t].stage \notin {"folded", "counting", "counted"}
  PROVE  Fresh(t)'
BY DEF Fresh

LEMMA OthersStay ==
  ASSUME TallyInv, Grows, NEW t \in Threads, job' = [job EXCEPT ![t] = job'[t]], Fresh(t)'
  PROVE  (\A u \in Threads : Fresh(u)') /\ IsFiniteSet(Serving')
<1>1. TypeInv
  BY DEF TallyInv, SentInv
<1>2. \A u \in Threads \ {t} : job'[u] = job[u]
  BY <1>1 DEF TypeInv
<1>3. IsFiniteSet(Serving')
  BY <1>1, OneMoves DEF TallyInv
<1>. QED BY <1>2, <1>3, FreshStays

LEMMA PlainTally ==
  ASSUME TallyInv, SentInv', TypeInv', NEW t \in Threads, Plain(t)
  PROVE  TallyInv'
<1>1. TypeInv /\ IsFiniteSet(Serving)
  BY DEF TallyInv, SentInv
<1>2. Level /\ Grows
  BY <1>1, PlainLevel, LevelGrows
<1>3. Fresh(t)'
  BY FreshPlain DEF Plain, Aside
<1>4. (\A u \in Threads : Fresh(u)') /\ IsFiniteSet(Serving')
  BY <1>2, <1>3, OthersStay DEF Plain
<1>5. DOMAIN subs' \subseteq Subs
  BY DEF TypeInv, DataOK
<1>6. KeepsCounters
  BY <1>5 DEF KeepsCounters, Plain, KeepsTotals
<1>. QED BY <1>2, <1>4, <1>6, TallyKeeps

LEMMA SameCounters ==
  ASSUME UNCHANGED <<hooks, subs>>
  PROVE  KeepsCounters
BY DEF KeepsCounters

LEMMA PostTally ==
  ASSUME TallyInv, SentInv', NEW t \in Threads, NEW answer \in Answers, Post(t, answer)
  PROVE  TallyInv'
<1>1. TypeInv /\ IsFiniteSet(Serving)
  BY DEF TallyInv, SentInv
<1>2. Grows
  BY <1>1, PostLevel, LevelGrows
<1>3. /\ job' = [job EXCEPT ![t] = job'[t]] /\ job'[t].stage = "storing"
      /\ UNCHANGED <<hooks, subs>>
  BY <1>1, PostMove
<1>4. Fresh(t)'
  BY <1>3, FreshPlain
<1>. QED BY <1>2, <1>3, <1>4, OthersStay, SameCounters, TallyKeeps

LEMMA StoreTally ==
  ASSUME TallyInv, SentInv', NEW t \in Threads, StoreDelivery(t)
  PROVE  TallyInv'
<1>1. SentInv /\ TypeInv /\ IsFiniteSet(Serving)
  BY DEF TallyInv, SentInv
<1>2. Grows
  BY <1>1, StoreLevel, LevelGrows
<1>3. /\ job' = [job EXCEPT ![t] = job'[t]] /\ job'[t].stage = "folding"
      /\ UNCHANGED <<hooks, subs>>
  BY <1>1, StoreMove
<1>4. Fresh(t)'
  BY <1>3, FreshPlain
<1>. QED BY <1>2, <1>3, <1>4, OthersStay, SameCounters, TallyKeeps

LEMMA FoldReadTally ==
  ASSUME TallyInv, SentInv', NEW t \in Threads, FoldRead(t)
  PROVE  TallyInv'
<1>1. SentInv /\ TypeInv /\ IsFiniteSet(Serving)
  BY DEF TallyInv, SentInv
<1>2. /\ job' = [job EXCEPT ![t] = job'[t]] /\ UNCHANGED <<hooks, subs, rows, posts>>
  BY <1>1, FoldReadMove DEF records, history
<1>3. CASE job[t].sub \notin Kept /\ job'[t] = IdleJob
  <2>1. Grows
    BY <1>1, <1>2, <1>3, DropTally
  <2>2. Fresh(t)'
    BY <1>3, FreshPlain, IdleStage
  <2>. QED BY <1>2, <2>1, <2>2, OthersStay, SameCounters, TallyKeeps
<1>4. CASE /\ job[t].sub \in Kept /\ job'[t].stage = "folded"
           /\ job'[t].base = subs[job[t].sub] /\ Follows(job[t], job'[t])
  <2>1. Level /\ Grows
    BY <1>1, <1>4, FoldReadLevel, LevelGrows
  <2>2. job[t].sub \in DOMAIN subs /\ job'[t].sub = job[t].sub
    BY <1>4 DEF Kept, Follows
  <2>3. ASSUME NEW s \in Subs, s = job'[t].sub
        PROVE  job'[t].base.deliveries <= CountedFor(s)'
    BY <1>4, <2>1, <2>2, <2>3 DEF TallyInv, Level
  <2>4. Fresh(t)'
    BY <1>4, <2>3 DEF Fresh
  <2>. QED BY <1>2, <2>1, <2>4, OthersStay, SameCounters, TallyKeeps
<1>. QED BY <1>1, <1>3, <1>4, FoldReadMove

LEMMA FoldWriteCounts ==
  ASSUME TallyInv, SentInv', NEW t \in Threads, FoldWrite(t)
  PROVE  TallyInv'
<1>. DEFINE s == job[t].sub
<1>1. SentInv /\ TypeInv /\ IsFiniteSet(Serving)
  BY DEF TallyInv, SentInv
<1>2. /\ job' = [job EXCEPT ![t] = job'[t]] /\ UNCHANGED <<hooks, rows, posts>>
      /\ job[t].stage = "folded" /\ s \in Subs /\ job[t].answer \in Answers \cup Withheld
  BY <1>1, FoldWriteMove DEF history
<1>3. CASE s \notin Kept /\ job'[t] = IdleJob /\ UNCHANGED subs
  <2>1. Grows
    BY <1>1, <1>2, <1>3, DropTally
  <2>2. Fresh(t)'
    BY <1>3, FreshPlain, IdleStage
  <2>. QED BY <1>2, <1>3, <2>1, <2>2, OthersStay, SameCounters, TallyKeeps
<1>4. CASE s \in Kept
  <2>0. /\ DOMAIN subs' = DOMAIN subs /\ s \in DOMAIN subs
        /\ \A r \in DOMAIN subs : r # s => subs'[r] = subs[r]
        /\ job[t].answer \in Withheld => subs'[s].deliveries = subs[s].deliveries
        /\ job[t].answer \in Answers => subs'[s].deliveries = job[t].base.deliveries + 1
        /\ AfterCount(t)
    BY <1>1, <1>4, FoldWriteMove DEF Kept
  <2>1. /\ \A x \in Subs :
             /\ x # s => CountedFor(x)' = CountedFor(x)
             /\ x = s /\ job[t].answer \in Answers => CountedFor(x)' = CountedFor(x) + 1
             /\ x = s /\ job[t].answer \in Withheld => CountedFor(x)' = CountedFor(x)
        /\ \A h \in Hooks : CountedTo(h)' = CountedTo(h)
    BY <1>1, <1>4, FoldWriteTally
  <2>2. (\A x \in Subs : CountedFor(x) \in Int) /\ (\A h \in Hooks : CountedTo(h) \in Int)
    BY <1>1, TallyTypes
  <2>3. Grows
    BY <1>2, <2>1, <2>2 DEF Grows
  <2>4. Fresh(t)'
    <3>1. job'[t].stage \notin {"folded", "counted"}
      BY <2>0, IdleStage DEF AfterCount, GoesOn
    <3>2. job'[t].stage = "counting" => job'[t].answer \in Answers
      <4>1. job[t].answer \notin Withheld => job[t].answer \in Answers
        BY <1>2
      <4>2. job'[t].stage = "counting" =>
              job[t].answer \notin Withheld /\ job'[t].answer = job[t].answer
        BY <2>0, IdleStage DEF AfterCount, GoesOn, Counted, Follows
      <4>. QED BY <4>1, <4>2
    <3>. QED BY <3>1, <3>2 DEF Fresh
  <2>5. (\A u \in Threads : Fresh(u)') /\ IsFiniteSet(Serving')
    BY <1>2, <2>3, <2>4, OthersStay
  <2>6. \A x \in Subs : 0 <= CountedFor(x)'
    BY <2>2, <2>3 DEF Grows, TallyInv
  <2>7. ASSUME NEW x \in DOMAIN subs'
        PROVE  subs'[x].deliveries <= CountedFor(x)'
    <3>1. x \in Subs /\ x \in DOMAIN subs /\ subs[x].deliveries <= CountedFor(x)
      BY <1>1, <2>0, CountTypes DEF TallyInv
    <3>2. CASE x # s
      BY <2>0, <2>1, <3>1, <3>2
    <3>3. CASE x = s /\ job[t].answer \in Withheld
      BY <2>0, <2>1, <3>1, <3>3
    <3>4. CASE x = s /\ job[t].answer \in Answers
      <4>1. job[t].base.deliveries <= CountedFor(x) /\ job[t].base.deliveries \in Nat
        BY <1>1, <1>2, <3>1, <3>4, CountTypes DEF TallyInv, Fresh
      <4>2. /\ CountedFor(x) \in Int /\ CountedFor(x)' = CountedFor(x) + 1
            /\ subs'[x].deliveries = job[t].base.deliveries + 1
        BY <2>0, <2>1, <2>2, <3>1, <3>4
      <4>. QED BY <4>1, <4>2
    <3>. QED BY <1>2, <3>2, <3>3, <3>4
  <2>. QED BY <1>2, <2>1, <2>5, <2>6, <2>7 DEF TallyInv
<1>. QED BY <1>1, <1>3, <1>4, FoldWriteMove

LEMMA CountReadTally ==
  ASSUME TallyInv, SentInv', NEW t \in Threads, CountRead(t)
  PROVE  TallyInv'
<1>. DEFINE g == HookOf[job[t].sub]
<1>1. SentInv /\ TypeInv /\ IsFiniteSet(Serving)
  BY DEF TallyInv, SentInv
<1>2. /\ job' = [job EXCEPT ![t] = job'[t]] /\ UNCHANGED <<hooks, subs, rows, posts>>
      /\ job[t].stage = "counting" /\ g \in Hooks
  BY <1>1, CountReadMove, HooksOf DEF records, history
<1>3. CASE hooks[g].state = "retired" /\ job'[t] = IdleJob
  <2>1. Grows
    BY <1>1, <1>2, <1>3, DropTally
  <2>2. Fresh(t)'
    BY <1>3, FreshPlain, IdleStage
  <2>. QED BY <1>2, <2>1, <2>2, OthersStay, SameCounters, TallyKeeps
<1>4. CASE /\ hooks[g].state # "retired" /\ job'[t].stage = "counted"
           /\ job'[t].line = hooks[g] /\ Follows(job[t], job'[t])
  <2>1. Level /\ Grows
    BY <1>1, <1>4, CountReadLevel, LevelGrows
  <2>2. job'[t].sub = job[t].sub /\ job'[t].answer = job[t].answer /\ job[t].answer \in Answers
    BY <1>2, <1>4 DEF Follows, TallyInv, Fresh
  <2>3. ASSUME NEW h \in Hooks, h = HookOf[job'[t].sub]
        PROVE  job'[t].line.deliveries <= CountedTo(h)'
    BY <1>4, <2>1, <2>2, <2>3 DEF TallyInv, Level
  <2>4. Fresh(t)'
    BY <1>4, <2>2, <2>3 DEF Fresh
  <2>. QED BY <1>2, <2>1, <2>4, OthersStay, SameCounters, TallyKeeps
<1>. QED BY <1>1, <1>3, <1>4, CountReadMove

LEMMA CountWriteCounts ==
  ASSUME TallyInv, SentInv', NEW t \in Threads, CountWrite(t)
  PROVE  TallyInv'
<1>. DEFINE g == HookOf[job[t].sub]
<1>1. SentInv /\ TypeInv /\ IsFiniteSet(Serving)
  BY DEF TallyInv, SentInv
<1>2. /\ job' = [job EXCEPT ![t] = job'[t]] /\ UNCHANGED <<subs, rows, posts>>
      /\ job[t].stage = "counted" /\ g \in Hooks
  BY <1>1, CountWriteMove, HooksOf DEF history
<1>3. CASE hooks[g].state = "retired" /\ job'[t] = IdleJob /\ UNCHANGED hooks
  <2>1. Grows
    BY <1>1, <1>2, <1>3, DropTally
  <2>2. Fresh(t)'
    BY <1>3, FreshPlain, IdleStage
  <2>. QED BY <1>2, <1>3, <2>1, <2>2, OthersStay, SameCounters, TallyKeeps
<1>4. CASE hooks[g].state # "retired"
  <2>0. /\ \A h \in Hooks : h # g => hooks'[h].deliveries = hooks[h].deliveries
        /\ hooks'[g].deliveries = job[t].line.deliveries + 1
        /\ job'[t].stage = "fanning" /\ job[t].answer \in Answers
    BY <1>1, <1>2, <1>4, CountWriteMove DEF GoesOn, TallyInv, Fresh
  <2>1. /\ \A x \in Subs : CountedFor(x)' = CountedFor(x)
        /\ \A h \in Hooks : /\ h = g => CountedTo(h)' = CountedTo(h) + 1
                            /\ h # g => CountedTo(h)' = CountedTo(h)
    BY <1>1, <1>4, <2>0, CountWriteTally
  <2>2. (\A x \in Subs : CountedFor(x) \in Int) /\ (\A h \in Hooks : CountedTo(h) \in Int)
    BY <1>1, TallyTypes
  <2>3. Grows
    BY <2>1, <2>2 DEF Grows
  <2>4. Fresh(t)'
    BY <2>0, FreshPlain
  <2>5. (\A u \in Threads : Fresh(u)') /\ IsFiniteSet(Serving')
    BY <1>2, <2>3, <2>4, OthersStay
  <2>6. \A x \in Subs : 0 <= CountedFor(x)'
    BY <2>1 DEF TallyInv
  <2>7. \A x \in DOMAIN subs' : subs'[x].deliveries <= CountedFor(x)'
    BY <1>1, <1>2, <2>1, CountTypes DEF TallyInv
  <2>8. ASSUME NEW h \in Hooks
        PROVE  hooks'[h].deliveries <= CountedTo(h)'
    <3>1. CASE h # g
      BY <2>0, <2>1, <3>1 DEF TallyInv
    <3>2. CASE h = g
      <4>1. job[t].line.deliveries <= CountedTo(h) /\ job[t].line.deliveries \in Nat
        BY <1>1, <1>2, <3>2, CountTypes DEF TallyInv, Fresh
      <4>2. /\ CountedTo(h) \in Int /\ CountedTo(h)' = CountedTo(h) + 1
            /\ hooks'[h].deliveries = job[t].line.deliveries + 1
        BY <2>0, <2>1, <2>2, <3>2
      <4>. QED BY <4>1, <4>2
    <3>. QED BY <3>1, <3>2
  <2>. QED BY <2>5, <2>6, <2>7, <2>8 DEF TallyInv
<1>. QED BY <1>1, <1>3, <1>4, CountWriteMove

LEMMA TallyStep ==
  ASSUME TallyInv, [Next]_vars
  PROVE  TallyInv'
<1>1. SentInv /\ TypeInv /\ SentInv' /\ TypeInv' /\ IsFiniteSet(Serving)
  <2>1. SentInv /\ IsFiniteSet(Serving)
    BY DEF TallyInv
  <2>2. SentInv'
    BY <2>1, SentStep
  <2>. QED BY <2>1, <2>2 DEF SentInv
<1>2. CASE UNCHANGED vars
  BY <1>1, <1>2 DEF TallyInv, Fresh, CountedFor, CountedTo, Serving, Uncounted, Untold, SentTo,
     vars, records, history
<1>3. CASE Crash
  <2>1. Grows /\ IsFiniteSet(Serving')
    BY <1>1, <1>3, CrashTally
  <2>2. \A u \in Threads : Fresh(u)'
    BY <1>3, IdleStage, FreshPlain DEF Crash
  <2>3. UNCHANGED <<hooks, subs>>
    BY <1>3 DEF Crash, records
  <2>. QED BY <1>1, <2>1, <2>2, <2>3, SameCounters, TallyKeeps
<1>4. ASSUME NEW t \in Threads, Begins(t)
      PROVE  TallyInv'
  BY <1>1, <1>4, PlainStart, PlainTally
<1>5. ASSUME NEW t \in Threads, Handler(t)
      PROVE  TallyInv'
  <2>1. CASE Counting(t)
    BY <1>1, <2>1, PostTally, StoreTally, FoldReadTally, FoldWriteCounts, CountReadTally,
       CountWriteCounts DEF Counting
  <2>2. CASE ~Counting(t)
    BY <1>1, <1>5, <2>2, PlainHandler, PlainTally
  <2>. QED BY <2>1, <2>2
<1>. QED BY <1>2, <1>3, <1>4, <1>5, NextCases

LEMMA InitTally == Init => TallyInv
<1>. SUFFICES ASSUME Init
              PROVE  TallyInv
  OBVIOUS
<1>1. SentInv /\ TypeInv
  BY InitSent DEF SentInv
<1>2. Serving = {}
  BY IdleStage DEF Init, Serving
<1>3. IsFiniteSet(Serving) /\ Cardinality({}) = 0
  BY <1>2, FS_EmptySet
<1>4. \A x : Uncounted(x) = {} /\ Untold(x) = {} /\ SentTo(x) = {}
  BY <1>2 DEF Uncounted, Untold, SentTo, Init
<1>5. /\ \A s \in Subs : CountedFor(s) = 0
      /\ \A h \in Hooks : CountedTo(h) = 0
  <2>1. \A s \in Subs : posts[s] = 0
    BY DEF Init
  <2>2. \A x : /\ Cardinality(Uncounted(x)) = 0 /\ Cardinality(Untold(x)) = 0
               /\ Cardinality(SentTo(x)) = 0
    BY <1>3, <1>4, <1>2
  <2>. QED BY <2>1, <2>2 DEF CountedFor, CountedTo
<1>6. /\ \A s \in DOMAIN subs : s \in Subs /\ subs[s].deliveries = 0
  BY <1>1 DEF Init, NewSub, TypeInv, DataOK
<1>7. \A h \in Hooks : hooks[h].deliveries = 0
  BY DEF Init, NewHook
<1>8. \A t \in Threads : Fresh(t)
  BY IdleStage DEF Init, Fresh
<1>. QED BY <1>1, <1>3, <1>5, <1>6, <1>7, <1>8 DEF TallyInv

-----------------------------------------------------------------------------
(* Served one at a time.  What the other steps do, in the terms of the      *)
(* invariants below: the secrets and what they signed, who is retired or    *)
(* gone, and the count of live subscriptions.                               *)

SameSigning ==
  /\ UNCHANGED proven
  /\ \A h \in Hooks : /\ hooks'[h].secret = hooks[h].secret
                      /\ hooks'[h].confirmed = hooks[h].confirmed

SameStates ==
  /\ Kept' = Kept /\ DOMAIN subs' = DOMAIN subs
  /\ \A h \in Hooks : hooks'[h].state = "retired" <=> hooks[h].state = "retired"

SameLive ==
  /\ Live' = Live
  /\ \A h \in Hooks : hooks'[h].subscriptions = hooks[h].subscriptions

SameAll == SameSigning /\ SameStates /\ SameLive

LEMMA AllSame ==
  ASSUME UNCHANGED <<hooks, subs, proven>>
  PROVE  SameAll
BY DEF SameAll, SameSigning, SameStates, SameLive, Kept, Live

LEMMA HookWritten ==
  ASSUME TypeInv, NEW h \in Hooks, NEW row, hooks' = [hooks EXCEPT ![h] = row]
  PROVE  hooks'[h] = row /\ \A g \in Hooks : g # h => hooks'[g] = hooks[g]
BY HookFields

LEMMA StateWritten ==
  ASSUME TypeInv, NEW s \in DOMAIN subs, NEW state,
         subs' = [subs EXCEPT ![s].state = state]
  PROVE  /\ DOMAIN subs' = DOMAIN subs /\ subs'[s].state = state
         /\ \A r \in DOMAIN subs : r # s => subs'[r] = subs[r]
         /\ \A r \in DOMAIN subs : /\ subs'[r].deliveries = subs[r].deliveries
                                   /\ subs'[r].skipped = subs[r].skipped
<1>. DEFINE row == [subs[s] EXCEPT !.state = state]
<1>1. subs \in Seq(SubRows) /\ subs[s] \in SubRows
  BY ElementType DEF TypeInv, DataOK
<1>2. subs' = [subs EXCEPT ![s] = row]
  BY <1>1
<1>3. row.state = state /\ row.deliveries = subs[s].deliveries /\ row.skipped = subs[s].skipped
  BY <1>1 DEF SubRows
<1>. HIDE DEF row
<1>4. /\ DOMAIN subs' = DOMAIN subs /\ subs'[s] = row
      /\ \A r \in DOMAIN subs : r # s => subs'[r] = subs[r]
  BY <1>1, <1>2
<1>. QED BY <1>3, <1>4

(* The call keeps its place. *)
Retains(call, next) ==
  next.call = call.call /\ next.hook = call.hook /\ next.todo = call.todo

LEMMA ListMove ==
  ASSUME SentInv, NEW t \in Threads, List(t)
  PROVE  /\ job' = [job EXCEPT ![t] = job'[t]] /\ UNCHANGED <<records, history>>
         /\ job[t].stage = "listing" /\ job[t].call = "event"
         /\ job'[t].stage = "fanning" /\ job'[t].call = "event"
         /\ job'[t].event = job[t].event /\ job'[t].todo \subseteq Kept
<1>. DEFINE todo == {s \in Kept : events[job[t].event].interest[s] # "other"}
            next == [job[t] EXCEPT !.stage = "fanning", !.todo = todo, !.off = Kept \ Live]
<1>1. /\ job[t] \in Jobs /\ job[t].stage = "listing" /\ job[t].call = "event"
      /\ TypeInv /\ UNCHANGED <<records, history>>
  BY DEF SentInv, TypeInv, Good, Placed, List
<1>2. next.stage = "fanning" /\ next.call = "event" /\ next.event = job[t].event /\ next.todo = todo
  BY <1>1 DEF Jobs
<1>3. todo \subseteq Kept /\ job' = [job EXCEPT ![t] = next]
  BY DEF List, Goes
<1>. HIDE DEF next, todo
<1>4. job' = [job EXCEPT ![t] = job'[t]] /\ job'[t] = next
  BY <1>1, <1>3, NextJob
<1>. QED BY <1>1, <1>2, <1>3, <1>4

LEMMA FanOverMove ==
  ASSUME SentInv, NEW t \in Threads, FanOver(t)
  PROVE  /\ job' = [job EXCEPT ![t] = job'[t]] /\ UNCHANGED <<hooks, subs, rows, history>>
         /\ job[t].stage = "fanning" /\ job[t].call = "event" /\ job'[t] = IdleJob
         /\ DOMAIN events' = DOMAIN events /\ job[t].event \in DOMAIN events
         /\ \A e \in DOMAIN events : e # job[t].event => events'[e] = events[e]
         /\ events'[job[t].event].updated
<1>. DEFINE e == job[t].event
            row == [events[e] EXCEPT !.deliveries = job[t].taken, !.skipped = job[t].left,
                                     !.updated = TRUE]
<1>1. /\ job[t].stage = "fanning" /\ job[t].call = "event" /\ e \in DOMAIN events
      /\ TypeInv /\ UNCHANGED <<hooks, subs, rows, history>> /\ events \in Seq(Events)
  BY DEF SentInv, TypeInv, DataOK, Good, Placed, FansOut, FanOver
<1>2. events[e] \in Events
  BY <1>1, ElementType
<1>3. row.updated
  BY <1>2 DEF Events
<1>4. events' = [events EXCEPT ![e] = row]
  BY DEF FanOver
<1>. HIDE DEF row
<1>5. /\ DOMAIN events' = DOMAIN events /\ events'[e] = row
      /\ \A d \in DOMAIN events : d # e => events'[d] = events[d]
  BY <1>1, <1>4
<1>6. events'[e].updated
  BY <1>3, <1>5, Zenon
<1>. QED BY <1>1, <1>5, <1>6, OverMove DEF FanOver

LEMMA FanMove ==
  ASSUME SentInv, NEW t \in Threads, NEW s \in job[t].todo, Fan(t, s)
  PROVE  /\ job' = [job EXCEPT ![t] = job'[t]] /\ UNCHANGED <<records, history>>
         /\ job[t].stage = "fanning" /\ job[t].call = "event" /\ s \in Subs
         /\ \/ hooks[HookOf[s]].state = "retired" /\ job'[t] = IdleJob
            \/ /\ job'[t].call = "event" /\ job'[t].event = job[t].event
               /\ \/ /\ job'[t].stage = "storing" /\ job'[t].sub = s
                     /\ job'[t].answer \in Withheld /\ job'[t].todo = job[t].todo
                  \/ job'[t].stage = "fanning" /\ job'[t].todo = job[t].todo \ {s}
                  \/ /\ job'[t].stage = "posting" /\ job'[t].sub = s
                     /\ job'[t].line = hooks[HookOf[s]] /\ job'[t].todo = job[t].todo
<1>. DEFINE h == HookOf[s]
<1>1. /\ job[t] \in Jobs /\ job[t].stage = "fanning" /\ job[t].call = "event" /\ s \in Subs
      /\ TypeInv /\ UNCHANGED <<records, history>>
  BY DEF SentInv, TypeInv, Good, Placed, Fan, Jobs
<1>2. CASE hooks[h].state = "retired" /\ Over(t)
  BY <1>1, <1>2, OverMove
<1>3. ASSUME NEW reason \in Reason(t, s),
             Goes(t, [job[t] EXCEPT !.stage = "storing", !.sub = s, !.answer = reason])
      PROVE  /\ job' = [job EXCEPT ![t] = job'[t]]
             /\ job'[t].call = "event" /\ job'[t].event = job[t].event
             /\ job'[t].stage = "storing" /\ job'[t].sub = s
             /\ job'[t].answer \in Withheld /\ job'[t].todo = job[t].todo
  <2>. DEFINE next == [job[t] EXCEPT !.stage = "storing", !.sub = s, !.answer = reason]
  <2>1. reason \in Withheld
    BY DEF Reason, Withheld
  <2>2. /\ next.stage = "storing" /\ next.sub = s /\ next.answer = reason
        /\ next.call = "event" /\ next.event = job[t].event /\ next.todo = job[t].todo
    BY <1>1 DEF Jobs
  <2>3. job' = [job EXCEPT ![t] = next]
    BY <1>3 DEF Goes
  <2>. HIDE DEF next
  <2>4. job' = [job EXCEPT ![t] = job'[t]] /\ job'[t] = next
    BY <1>1, <2>3, NextJob
  <2>. QED BY <2>1, <2>2, <2>4
<1>4. CASE Goes(t, Through(t, s))
  <2>1. /\ Through(t, s).stage = "fanning" /\ Through(t, s).call = "event"
        /\ Through(t, s).event = job[t].event /\ Through(t, s).todo = job[t].todo \ {s}
    BY <1>1 DEF Through, Jobs
  <2>2. job' = [job EXCEPT ![t] = job'[t]] /\ job'[t] = Through(t, s)
    BY <1>1, <1>4, NextJob DEF Goes
  <2>. QED BY <1>1, <2>1, <2>2
<1>5. CASE Goes(t, [job[t] EXCEPT !.stage = "posting", !.sub = s, !.line = hooks[h],
                                  !.attempts = 0, !.seen = @ \cup {h}])
  <2>. DEFINE next == [job[t] EXCEPT !.stage = "posting", !.sub = s, !.line = hooks[h],
                                     !.attempts = 0, !.seen = @ \cup {h}]
  <2>1. /\ next.stage = "posting" /\ next.sub = s /\ next.line = hooks[h]
        /\ next.call = "event" /\ next.event = job[t].event /\ next.todo = job[t].todo
    BY <1>1 DEF Jobs
  <2>2. job' = [job EXCEPT ![t] = next]
    BY <1>5 DEF Goes
  <2>. HIDE DEF next
  <2>3. job' = [job EXCEPT ![t] = job'[t]] /\ job'[t] = next
    BY <1>1, <2>2, NextJob
  <2>. QED BY <1>1, <2>1, <2>3
<1>. QED BY <1>1, <1>2, <1>3, <1>4, <1>5 DEF Fan

LEMMA RetryRequireMove ==
  ASSUME SentInv, NEW t \in Threads, RetryRequire(t)
  PROVE  /\ job' = [job EXCEPT ![t] = job'[t]] /\ UNCHANGED <<records, history>>
         /\ job[t].stage = "requiring" /\ job[t].call = "retry"
         /\ \/ job'[t] = IdleJob
            \/ /\ job'[t].stage = "posting" /\ Follows(job[t], job'[t])
               /\ job'[t].line = hooks[HookOf[job[t].sub]]
<1>. DEFINE next == [job[t] EXCEPT !.stage = "posting", !.line = hooks[HookOf[job[t].sub]]]
<1>1. /\ job[t] \in Jobs /\ job[t].stage = "requiring" /\ job[t].call = "retry"
      /\ TypeInv /\ UNCHANGED <<records, history>>
  BY DEF SentInv, TypeInv, Good, Placed, RetryRequire
<1>2. CASE Over(t)
  BY <1>1, <1>2, OverMove
<1>3. CASE Goes(t, next)
  <2>1. /\ next.stage = "posting" /\ next.line = hooks[HookOf[job[t].sub]]
        /\ Follows(job[t], next)
    BY <1>1 DEF Jobs, Follows
  <2>2. job' = [job EXCEPT ![t] = next]
    BY <1>3 DEF Goes
  <2>. HIDE DEF next
  <2>3. job' = [job EXCEPT ![t] = job'[t]] /\ job'[t] = next
    BY <1>1, <2>2, NextJob
  <2>. QED BY <1>1, <2>1, <2>3
<1>. QED BY <1>2, <1>3 DEF RetryRequire

LEMMA ConfirmMove ==
  ASSUME SentInv, NEW t \in Threads, ConfirmRotation(t)
  PROVE  /\ job' = [job EXCEPT ![t] = job'[t]] /\ UNCHANGED <<subs, events, rows, history>>
         /\ job[t].stage = "confirming" /\ job'[t] = IdleJob /\ SameStates /\ SameLive
         /\ \A h \in Hooks :
              /\ hooks'[h].secret = hooks[h].secret
              /\ h # HookOf[job[t].sub] => hooks'[h].confirmed = hooks[h].confirmed
<1>. DEFINE g == HookOf[job[t].sub]
            row == [hooks[g] EXCEPT !.confirmed = TRUE]
<1>1. /\ TypeInv /\ g \in Hooks /\ job[t].stage = "confirming"
      /\ UNCHANGED <<subs, events, rows, history>> /\ Over(t)
  BY HooksOf DEF SentInv, TypeInv, CallsFit, Fits, Sending, ConfirmRotation
<1>2. job' = [job EXCEPT ![t] = job'[t]] /\ job'[t] = IdleJob
  BY <1>1, OverMove
<1>3. CASE UNCHANGED hooks
  BY <1>1, <1>2, <1>3, AllSame DEF SameAll, history
<1>4. CASE hooks' = [hooks EXCEPT ![g] = row]
  <2>1. hooks[g] \in HookRows
    BY <1>1, HookFields
  <2>2. /\ row.secret = hooks[g].secret /\ row.state = hooks[g].state
        /\ row.subscriptions = hooks[g].subscriptions
    BY <2>1 DEF HookRows
  <2>. HIDE DEF row
  <2>3. hooks'[g] = row /\ \A h \in Hooks : h # g => hooks'[h] = hooks[h]
    BY <1>1, <1>4, HookWritten
  <2>4. SameStates /\ SameLive
    BY <1>1, <2>2, <2>3 DEF SameStates, SameLive, Kept, Live
  <2>. QED BY <1>1, <1>2, <2>2, <2>3, <2>4
<1>5. UNCHANGED hooks \/ hooks' = [hooks EXCEPT ![g] = row]
  BY <1>1, HookFields DEF ConfirmRotation
<1>. QED BY <1>3, <1>4, <1>5

LEMMA RotateWriteMove ==
  ASSUME SentInv, NEW t \in Threads, RotateWrite(t)
  PROVE  /\ job' = [job EXCEPT ![t] = job'[t]] /\ UNCHANGED <<subs, events, rows, history>>
         /\ job[t].stage = "rotating" /\ job'[t] = IdleJob /\ SameStates /\ SameLive
         /\ \A h \in Hooks : hooks'[h] = hooks[h] \/ hooks'[h].confirmed = FALSE
<1>. DEFINE g == job[t].hook
            row == [hooks[g] EXCEPT !.secret = @ + 1, !.previous = job[t].line.secret,
                                    !.confirmed = FALSE]
<1>1. /\ TypeInv /\ g \in Hooks /\ job[t].stage = "rotating"
      /\ UNCHANGED <<subs, events, rows, history>> /\ Over(t)
  BY DEF SentInv, TypeInv, RotateWrite, Jobs
<1>2. job' = [job EXCEPT ![t] = job'[t]] /\ job'[t] = IdleJob
  BY <1>1, OverMove
<1>3. CASE UNCHANGED hooks
  BY <1>1, <1>2, <1>3, AllSame DEF SameAll, history
<1>4. CASE hooks' = [hooks EXCEPT ![g] = row]
  <2>1. hooks[g] \in HookRows
    BY <1>1, HookFields
  <2>2. /\ row.confirmed = FALSE /\ row.state = hooks[g].state
        /\ row.subscriptions = hooks[g].subscriptions
    BY <2>1 DEF HookRows
  <2>. HIDE DEF row
  <2>3. hooks'[g] = row /\ \A h \in Hooks : h # g => hooks'[h] = hooks[h]
    BY <1>1, <1>4, HookWritten
  <2>4. SameStates /\ SameLive
    BY <1>1, <2>2, <2>3 DEF SameStates, SameLive, Kept, Live
  <2>. QED BY <1>1, <1>2, <2>2, <2>3, <2>4
<1>5. UNCHANGED hooks \/ hooks' = [hooks EXCEPT ![g] = row]
  BY <1>1, HookFields DEF RotateWrite
<1>. QED BY <1>3, <1>4, <1>5

RecountDone(t) ==
  \/ job[t].call = "retire" /\ job'[t].stage = "retiring" /\ Retains(job[t], job'[t])
  \/ job[t].call # "retire" /\ job'[t] = IdleJob

LEMMA RecountOverMove ==
  ASSUME TypeInv, NEW t \in Threads, RecountOver(t)
  PROVE  job' = [job EXCEPT ![t] = job'[t]] /\ RecountDone(t)
<1>. DEFINE next == [job[t] EXCEPT !.stage = "retiring"]
<1>1. CASE job[t].call = "retire"
  <2>1. next.stage = "retiring" /\ Retains(job[t], next)
    BY DEF TypeInv, Jobs, Retains
  <2>2. job' = [job EXCEPT ![t] = next]
    BY <1>1 DEF RecountOver, Goes
  <2>. HIDE DEF next
  <2>3. job' = [job EXCEPT ![t] = job'[t]] /\ job'[t] = next
    BY <2>2, NextJob
  <2>. QED BY <1>1, <2>1, <2>3 DEF RecountDone
<1>2. CASE job[t].call # "retire"
  <2>1. Over(t)
    BY <1>2 DEF RecountOver
  <2>. QED BY <1>2, <2>1, OverMove DEF RecountDone
<1>. QED BY <1>1, <1>2

LEMMA RecountMove ==
  ASSUME TypeInv, NEW t \in Threads, Recount(t)
  PROVE  /\ job' = [job EXCEPT ![t] = job'[t]] /\ UNCHANGED <<records, history>>
         /\ job[t].stage = "recounting" /\ job[t].hook \in Hooks
         /\ \/ hooks[job[t].hook].state = "retired" /\ RecountDone(t)
            \/ /\ job'[t].stage = "recounted" /\ Retains(job[t], job'[t])
               /\ job'[t].count = Cardinality(Live \cap Under(job[t].hook))
<1>. DEFINE count == Cardinality(Live \cap Under(job[t].hook))
            next == [job[t] EXCEPT !.stage = "recounted", !.count = count]
<1>1. /\ job[t] \in Jobs /\ job[t].stage = "recounting" /\ job[t].hook \in Hooks
      /\ UNCHANGED <<records, history>>
  BY DEF TypeInv, Recount, Jobs
<1>2. CASE hooks[job[t].hook].state = "retired" /\ RecountOver(t)
  BY <1>1, <1>2, RecountOverMove
<1>3. CASE Goes(t, next)
  <2>1. next.stage = "recounted" /\ Retains(job[t], next) /\ next.count = count
    BY <1>1 DEF Jobs, Retains
  <2>2. job' = [job EXCEPT ![t] = next]
    BY <1>3 DEF Goes
  <2>. HIDE DEF next
  <2>3. job' = [job EXCEPT ![t] = job'[t]] /\ job'[t] = next
    BY <2>2, NextJob
  <2>. QED BY <1>1, <2>1, <2>3
<1>. QED BY <1>2, <1>3 DEF Recount

LEMMA RecountWriteMove ==
  ASSUME TypeInv, NEW t \in Threads, RecountWrite(t)
  PROVE  /\ job' = [job EXCEPT ![t] = job'[t]] /\ UNCHANGED <<subs, events, rows, history>>
         /\ job[t].stage = "recounted" /\ job[t].hook \in Hooks /\ SameStates /\ SameSigning
         /\ \/ /\ hooks[job[t].hook].state = "retired" /\ UNCHANGED hooks /\ job'[t] = IdleJob
            \/ /\ hooks'[job[t].hook].subscriptions = job[t].count
               /\ \A h \in Hooks : h # job[t].hook =>
                    hooks'[h].subscriptions = hooks[h].subscriptions
               /\ RecountDone(t)
<1>. DEFINE h == job[t].hook
            row == [hooks[h] EXCEPT !.subscriptions = job[t].count]
<1>1. /\ job[t].stage = "recounted" /\ h \in Hooks /\ UNCHANGED <<subs, events, rows, history>>
  BY DEF TypeInv, RecountWrite, Jobs
<1>2. CASE hooks[h].state = "retired" /\ Over(t) /\ UNCHANGED hooks
  BY <1>1, <1>2, OverMove, AllSame DEF SameAll, history
<1>3. CASE hooks' = [hooks EXCEPT ![h].subscriptions = job[t].count] /\ RecountOver(t)
  <2>1. hooks[h] \in HookRows /\ hooks' = [hooks EXCEPT ![h] = row]
    BY <1>1, <1>3, HookFields
  <2>2. /\ row.confirmed = hooks[h].confirmed /\ row.state = hooks[h].state
        /\ row.secret = hooks[h].secret /\ row.subscriptions = job[t].count
    BY <2>1 DEF HookRows
  <2>. HIDE DEF row
  <2>3. hooks'[h] = row /\ \A g \in Hooks : g # h => hooks'[g] = hooks[g]
    BY <1>1, <2>1, HookWritten
  <2>4. SameStates
    BY <1>1, <2>2, <2>3 DEF SameStates, Kept
  <2>5. SameSigning
    BY <1>1, <2>2, <2>3 DEF SameSigning, history
  <2>. QED BY <1>1, <1>3, <2>2, <2>3, <2>4, <2>5, RecountOverMove
<1>. QED BY <1>2, <1>3 DEF RecountWrite

LEMMA SubscribeWriteMove ==
  ASSUME TypeInv, NEW t \in Threads, SubscribeWrite(t)
  PROVE  /\ job' = [job EXCEPT ![t] = job'[t]] /\ UNCHANGED <<hooks, events, rows, history>>
         /\ job[t].stage = "subscribing" /\ job'[t].stage = "recounting"
         /\ job'[t].call = "edit" /\ job'[t].hook = job[t].hook
         /\ Len(subs) + 1 \in Subs /\ Len(subs) + 1 \notin DOMAIN subs
         /\ DOMAIN subs' = DOMAIN subs \cup {Len(subs) + 1}
         /\ Kept' = Kept \cup {Len(subs) + 1} /\ Live' = Live \cup {Len(subs) + 1}
<1>. DEFINE next == [job[t] EXCEPT !.call = "edit", !.stage = "recounting"]
            s == Len(subs) + 1
<1>1. /\ job[t] \in Jobs /\ job[t].stage = "subscribing" /\ UNCHANGED <<hooks, events, rows, history>>
      /\ subs \in Seq(SubRows) /\ s \in Subs
  BY DEF TypeInv, DataOK, SubscribeWrite, CallsFit, Fits, OneSubscriber
<1>2. next.stage = "recounting" /\ next.call = "edit" /\ next.hook = job[t].hook
  BY <1>1 DEF Jobs
<1>3. job' = [job EXCEPT ![t] = next]
  BY DEF SubscribeWrite, Goes
<1>. HIDE DEF next
<1>4. job' = [job EXCEPT ![t] = job'[t]] /\ job'[t] = next
  BY <1>3, NextJob
<1>5. /\ DOMAIN subs = 1..Len(subs) /\ DOMAIN subs' = 1..(Len(subs) + 1) /\ Len(subs) \in Nat
      /\ \A r \in 1..Len(subs) : subs'[r] = subs[r]
      /\ subs'[s] = NewSub
  BY <1>1, RowTypes DEF SubscribeWrite
<1>6. NewSub.state = "live"
  BY DEF NewSub
<1>. HIDE DEF s
<1>7. DOMAIN subs' = DOMAIN subs \cup {s} /\ s \notin DOMAIN subs
  BY <1>5 DEF s
<1>8. Kept' = Kept \cup {s} /\ Live' = Live \cup {s}
  BY <1>5, <1>6, <1>7 DEF Kept, Live
<1>. QED BY <1>1, <1>2, <1>4, <1>7, <1>8 DEF s

(* The subscription leaves the records. *)
Leaves(s) ==
  /\ s \in Kept /\ DOMAIN subs' = DOMAIN subs
  /\ Kept' = Kept \ {s} /\ Live' = Live \ {s}

LEMMA GoneMove ==
  ASSUME TypeInv, NEW s \in Kept, subs' = [subs EXCEPT ![s].state = "gone"]
  PROVE  Leaves(s)
<1>1. s \in DOMAIN subs
  BY DEF Kept
<1>2. /\ DOMAIN subs' = DOMAIN subs /\ subs'[s].state = "gone"
      /\ \A r \in DOMAIN subs : r # s => subs'[r] = subs[r]
  BY <1>1, StateWritten
<1>. QED BY <1>1, <1>2 DEF Leaves, Kept, Live

LEMMA RetireNextMove ==
  ASSUME TypeInv, NEW t \in Threads, NEW s \in job[t].todo, RetireNext(t, s)
  PROVE  /\ job' = [job EXCEPT ![t] = job'[t]] /\ job[t].stage = "retiring"
         /\ UNCHANGED <<hooks, events, rows, posts, proven, crashes>>
         /\ \/ s \notin Kept /\ job'[t] = IdleJob /\ UNCHANGED subs
            \/ /\ Leaves(s) /\ job'[t].stage = "recounting"
               /\ job'[t].call = job[t].call /\ job'[t].hook = job[t].hook
               /\ job'[t].todo = job[t].todo \ {s}
<1>. DEFINE next == [job[t] EXCEPT !.stage = "recounting", !.todo = @ \ {s}]
<1>1. /\ job[t] \in Jobs /\ job[t].stage = "retiring"
      /\ UNCHANGED <<hooks, events, rows, posts, proven, crashes>>
  BY DEF TypeInv, RetireNext
<1>2. CASE s \notin Kept /\ Over(t) /\ UNCHANGED subs
  BY <1>1, <1>2, OverMove
<1>3. CASE s \in Kept /\ subs' = [subs EXCEPT ![s].state = "gone"] /\ Goes(t, next)
  <2>1. /\ next.stage = "recounting" /\ next.call = job[t].call /\ next.hook = job[t].hook
        /\ next.todo = job[t].todo \ {s}
    BY <1>1 DEF Jobs
  <2>2. job' = [job EXCEPT ![t] = next]
    BY <1>3 DEF Goes
  <2>. HIDE DEF next
  <2>3. job' = [job EXCEPT ![t] = job'[t]] /\ job'[t] = next
    BY <2>2, NextJob
  <2>4. Leaves(s)
    BY <1>3, GoneMove
  <2>. QED BY <1>1, <2>1, <2>3, <2>4
<1>. QED BY <1>2, <1>3 DEF RetireNext

LEMMA RetireHookMove ==
  ASSUME TypeInv, NEW t \in Threads, RetireHook(t)
  PROVE  /\ job' = [job EXCEPT ![t] = job'[t]] /\ UNCHANGED <<subs, events, rows, posts, proven>>
         /\ UNCHANGED crashes
         /\ job[t].stage = "retiring" /\ job[t].todo = {} /\ job'[t] = IdleJob
         /\ SameSigning /\ SameLive
         /\ \A h \in Hooks : h # job[t].hook => hooks'[h] = hooks[h]
<1>. DEFINE h == job[t].hook
            row == [hooks[h] EXCEPT !.state = "retired"]
<1>1. /\ job[t].stage = "retiring" /\ job[t].todo = {} /\ h \in Hooks
      /\ UNCHANGED <<subs, events, rows, posts, proven, crashes>> /\ Over(t)
  BY DEF TypeInv, RetireHook, Jobs
<1>2. hooks[h] \in HookRows /\ hooks' = [hooks EXCEPT ![h] = row]
  BY <1>1, HookFields DEF RetireHook
<1>3. /\ row.confirmed = hooks[h].confirmed /\ row.secret = hooks[h].secret
      /\ row.subscriptions = hooks[h].subscriptions
  BY <1>2 DEF HookRows
<1>. HIDE DEF row
<1>4. hooks'[h] = row /\ \A g \in Hooks : g # h => hooks'[g] = hooks[g]
  BY <1>1, <1>2, HookWritten
<1>5. SameSigning /\ SameLive
  BY <1>1, <1>3, <1>4 DEF SameSigning, SameLive, Live
<1>. QED BY <1>1, <1>4, <1>5, OverMove

LEMMA PostSigns ==
  ASSUME SentInv, NEW t \in Threads, NEW answer \in Answers, Post(t, answer)
  PROVE  /\ job' = [job EXCEPT ![t] = job'[t]] /\ UNCHANGED <<records, crashes>>
         /\ job[t].stage = "posting" /\ job[t].sub \in Subs /\ job'[t].stage = "storing"
         /\ job'[t].call = job[t].call /\ job'[t].event = job[t].event
         /\ job'[t].sub = job[t].sub /\ job'[t].todo = job[t].todo /\ job'[t].answer = answer
         /\ answer = "ok" => proven' = [proven EXCEPT ![HookOf[job[t].sub]] = job[t].line.secret]
         /\ answer # "ok" => UNCHANGED proven
<1>. DEFINE attempts == IF job[t].attempts > MaxRetries THEN job[t].attempts
                        ELSE job[t].attempts + 1
            next == [job[t] EXCEPT !.stage = "storing", !.answer = answer, !.attempts = attempts]
<1>1. /\ job[t] \in Jobs /\ TypeInv /\ job' = [job EXCEPT ![t] = next]
      /\ job[t].stage = "posting" /\ job[t].sub \in Subs /\ UNCHANGED <<records, crashes>>
  BY DEF SentInv, TypeInv, CallsFit, Fits, Sending, Post, Goes
<1>2. /\ next.stage = "storing" /\ next.answer = answer /\ next.sub = job[t].sub
      /\ next.call = job[t].call /\ next.event = job[t].event /\ next.todo = job[t].todo
  BY <1>1 DEF Jobs
<1>. HIDE DEF next
<1>3. job' = [job EXCEPT ![t] = job'[t]] /\ job'[t] = next
  BY <1>1, NextJob
<1>. QED BY <1>1, <1>2, <1>3 DEF Post

LEMMA StoreFollows ==
  ASSUME SentInv, NEW t \in Threads, StoreDelivery(t)
  PROVE  /\ job' = [job EXCEPT ![t] = job'[t]] /\ UNCHANGED <<hooks, subs, events, history>>
         /\ job[t].stage = "storing" /\ job'[t].stage = "folding" /\ Follows(job[t], job'[t])
<1>. DEFINE next == [job[t] EXCEPT !.stage = "folding"]
<1>1. /\ job[t] \in Jobs /\ TypeInv /\ job' = [job EXCEPT ![t] = next]
      /\ job[t].stage = "storing" /\ UNCHANGED <<hooks, subs, events, history>>
  BY DEF SentInv, TypeInv, StoreDelivery, Goes
<1>2. next.stage = "folding" /\ Follows(job[t], next)
  BY <1>1 DEF Jobs, Follows
<1>. HIDE DEF next
<1>3. job' = [job EXCEPT ![t] = job'[t]] /\ job'[t] = next
  BY <1>1, NextJob
<1>. QED BY <1>1, <1>2, <1>3

LEMMA StartMove ==
  ASSUME TypeInv, NEW t \in Threads, NEW call, Start(t, call)
  PROVE  job' = [job EXCEPT ![t] = job'[t]] /\ job'[t] = call /\ job[t].stage = "idle"
<1>1. job' = [job EXCEPT ![t] = call]
  BY DEF Start
<1>. QED BY <1>1, NextJob DEF Start

LEMMA RecordEventMove ==
  ASSUME TypeInv, NEW t \in Threads, NEW interest \in Interests, RecordEvent(t, interest)
  PROVE  /\ job' = [job EXCEPT ![t] = job'[t]] /\ UNCHANGED <<hooks, subs, rows, posts, proven>>
         /\ job'[t].stage = "listing" /\ job'[t].call = "event" /\ job'[t].todo = {}
         /\ job'[t].event = Len(events) + 1
         /\ DOMAIN events' = DOMAIN events \cup {Len(events) + 1}
         /\ \A e \in DOMAIN events : events'[e] = events[e]
<1>. DEFINE call == [IdleJob EXCEPT !.call = "event", !.stage = "listing", !.event = Len(events) + 1]
            row == [interest |-> interest, deliveries |-> 0, skipped |-> 0, updated |-> FALSE]
<1>1. call.stage = "listing" /\ call.call = "event" /\ call.todo = {} /\ call.event = Len(events) + 1
  BY DEF IdleJob
<1>2. Start(t, call) /\ UNCHANGED <<hooks, subs, rows, posts, proven>>
      /\ events' = Append(events, row)
  BY DEF RecordEvent
<1>. HIDE DEF call, row
<1>3. events \in Seq(Events)
  BY DEF TypeInv, DataOK
<1>4. /\ DOMAIN events = 1..Len(events) /\ DOMAIN events' = 1..(Len(events) + 1)
      /\ Len(events) \in Nat /\ \A e \in 1..Len(events) : events'[e] = events[e]
  BY <1>2, <1>3
<1>5. DOMAIN events' = DOMAIN events \cup {Len(events) + 1}
  BY <1>4
<1>. QED BY <1>1, <1>2, <1>4, <1>5, StartMove

LEMMA RetryMove ==
  ASSUME TypeInv, NEW t \in Threads, NEW r \in DOMAIN rows, Retry(t, r)
  PROVE  /\ job' = [job EXCEPT ![t] = job'[t]] /\ UNCHANGED <<records, history>>
         /\ job'[t].stage = "requiring" /\ job'[t].call = "retry" /\ job'[t].sub = rows[r].sub
<1>. DEFINE call == [IdleJob EXCEPT !.call = "retry", !.stage = "requiring", !.row = r,
                              !.event = rows[r].event, !.sub = rows[r].sub,
                              !.attempts = rows[r].attempts]
<1>1. call.stage = "requiring" /\ call.call = "retry" /\ call.sub = rows[r].sub
  BY DEF IdleJob
<1>2. Start(t, call) /\ UNCHANGED <<records, history>>
  BY DEF Retry
<1>. HIDE DEF call
<1>. QED BY <1>1, <1>2, StartMove

LEMMA RotateMove ==
  ASSUME TypeInv, NEW t \in Threads, NEW h \in Hooks, Rotate(t, h)
  PROVE  /\ job' = [job EXCEPT ![t] = job'[t]] /\ UNCHANGED <<records, history>>
         /\ job'[t].stage = "rotating" /\ job'[t].call = "rotate"
<1>. DEFINE call == [IdleJob EXCEPT !.call = "rotate", !.stage = "rotating", !.hook = h,
                                    !.line = hooks[h]]
<1>1. call.stage = "rotating" /\ call.call = "rotate"
  BY DEF IdleJob
<1>2. Start(t, call) /\ UNCHANGED <<records, history>>
  BY DEF Rotate
<1>. HIDE DEF call
<1>. QED BY <1>1, <1>2, StartMove

LEMMA RetireMove ==
  ASSUME TypeInv, NEW t \in Threads, NEW h \in Hooks, Retire(t, h)
  PROVE  /\ job' = [job EXCEPT ![t] = job'[t]] /\ UNCHANGED <<records, history>>
         /\ job'[t].stage = "retiring" /\ job'[t].call = "retire" /\ job'[t].hook = h
         /\ job'[t].todo = Kept \cap Under(h) /\ hooks[h].state # "retired"
<1>. DEFINE call == [IdleJob EXCEPT !.call = "retire", !.stage = "retiring", !.hook = h,
                                    !.todo = Kept \cap Under(h)]
<1>1. /\ call.stage = "retiring" /\ call.call = "retire" /\ call.hook = h
      /\ call.todo = Kept \cap Under(h)
  BY DEF IdleJob
<1>2. Start(t, call) /\ UNCHANGED <<records, history>> /\ hooks[h].state # "retired"
  BY DEF Retire
<1>. HIDE DEF call
<1>. QED BY <1>1, <1>2, StartMove

LEMMA PauseWebhookMove ==
  ASSUME TypeInv, NEW t \in Threads, NEW h \in Hooks, NEW state \in {"live", "paused"},
         PauseWebhook(t, h, state)
  PROVE  /\ job' = [job EXCEPT ![t] = job'[t]] /\ UNCHANGED <<subs, events, rows, posts, proven>>
         /\ job'[t] = IdleJob /\ SameAll
<1>. DEFINE row == [hooks[h] EXCEPT !.state = state]
<1>1. hooks[h] \in HookRows /\ hooks' = [hooks EXCEPT ![h] = row]
  BY HookFields DEF PauseWebhook
<1>2. /\ row.confirmed = hooks[h].confirmed /\ row.secret = hooks[h].secret
      /\ row.subscriptions = hooks[h].subscriptions /\ row.state = state
  BY <1>1 DEF HookRows
<1>. HIDE DEF row
<1>3. hooks'[h] = row /\ \A g \in Hooks : g # h => hooks'[g] = hooks[g]
  BY <1>1, HookWritten
<1>4. hooks[h].state # "retired" /\ UNCHANGED <<subs, events, rows, posts, proven>>
      /\ Start(t, IdleJob)
  BY DEF PauseWebhook
<1>5. SameSigning
  BY <1>2, <1>3, <1>4 DEF SameSigning
<1>6. SameStates
  BY <1>2, <1>3, <1>4 DEF SameStates, Kept
<1>7. SameLive
  BY <1>2, <1>3, <1>4 DEF SameLive, Live
<1>. QED BY <1>4, <1>5, <1>6, <1>7, StartMove DEF SameAll

(* The update of a subscription, or its end. *)
LEMMA EditMove ==
  ASSUME TypeInv, NEW t \in Threads, NEW s \in DOMAIN subs,
         Unsubscribe(t, s) \/ \E state \in {"live", "paused"} : PauseSubscription(t, s, state)
  PROVE  /\ job' = [job EXCEPT ![t] = job'[t]] /\ UNCHANGED <<hooks, events, rows, posts, proven>>
         /\ job'[t].stage = "recounting" /\ job'[t].call = "edit" /\ job'[t].hook = HookOf[s]
         /\ s \in Kept /\ DOMAIN subs' = DOMAIN subs
         /\ Kept' \subseteq Kept /\ Live' \ {s} = Live \ {s}
<1>1. /\ Start(t, Recounts(t, "edit", s)) /\ UNCHANGED <<hooks, events, rows, posts, proven>>
      /\ s \in Kept
  BY DEF Unsubscribe, PauseSubscription, Kept
<1>2. PICK state : subs' = [subs EXCEPT ![s].state = state]
  BY DEF Unsubscribe, PauseSubscription
<1>3. /\ DOMAIN subs' = DOMAIN subs
      /\ \A r \in DOMAIN subs : r # s => subs'[r] = subs[r]
  BY <1>2, StateWritten
<1>4. Kept' \subseteq Kept /\ Live' \ {s} = Live \ {s}
  BY <1>1, <1>3 DEF Kept, Live
<1>5. /\ Recounts(t, "edit", s).stage = "recounting" /\ Recounts(t, "edit", s).call = "edit"
      /\ Recounts(t, "edit", s).hook = HookOf[s]
  BY DEF Recounts, IdleJob
<1>. QED BY <1>1, <1>3, <1>4, <1>5, StartMove

LEMMA SubscribeMove ==
  ASSUME TypeInv, NEW t \in Threads, Subscribe(t)
  PROVE  /\ job' = [job EXCEPT ![t] = job'[t]] /\ UNCHANGED <<records, history>>
         /\ job'[t].stage = "subscribing" /\ job'[t].call = "subscribe"
         /\ job'[t].hook = HookOf[Len(subs) + 1]
         /\ hooks[HookOf[Len(subs) + 1]].state # "retired"
<1>. DEFINE call == [IdleJob EXCEPT !.call = "subscribe", !.stage = "subscribing",
                                    !.hook = HookOf[Len(subs) + 1]]
<1>1. /\ call.stage = "subscribing" /\ call.call = "subscribe"
      /\ call.hook = HookOf[Len(subs) + 1]
  BY DEF IdleJob
<1>2. /\ Start(t, call) /\ UNCHANGED <<records, history>>
      /\ hooks[HookOf[Len(subs) + 1]].state # "retired"
  BY DEF Subscribe
<1>. HIDE DEF call
<1>. QED BY <1>1, <1>2, StartMove

(* One call at a time, while nothing overlapped and nothing crashed. *)
Alone == \A t, u \in Serving : t = u

LEMMA HandlerTurn ==
  ASSUME SentInv, NEW t \in Threads, Handler(t)
  PROVE  /\ job' = [job EXCEPT ![t] = job'[t]] /\ UNCHANGED <<raced, crashes>>
         /\ job[t].stage # "idle"
<1>1. TypeInv
  BY DEF SentInv
<1>2. CASE \E answer \in Answers : Post(t, answer)
  BY <1>2, PostSigns DEF Post, Goes
<1>3. CASE StoreDelivery(t) \/ FoldRead(t) \/ CountRead(t)
  BY <1>3, StoreFollows, FoldReadMove, CountReadMove
     DEF StoreDelivery, FoldRead, CountRead, Over, Goes, history
<1>4. CASE FoldWrite(t) \/ CountWrite(t)
  BY <1>4, FoldWriteMove, CountWriteMove DEF FoldWrite, CountWrite, AfterFold, Over, Goes, history
<1>5. CASE List(t) \/ FanOver(t) \/ RetryRequire(t)
  BY <1>5, ListMove, FanOverMove, RetryRequireMove DEF List, FanOver, RetryRequire, Over, Goes, history
<1>6. CASE \E s \in job[t].todo : Fan(t, s)
  BY <1>6, FanMove DEF Fan, Over, Goes, history
<1>7. CASE \E s \in job[t].todo : RetireNext(t, s)
  BY <1>1, <1>7, RetireNextMove DEF RetireNext, Over, Goes
<1>8. CASE ConfirmRotation(t) \/ RotateWrite(t)
  BY <1>8, ConfirmMove, RotateWriteMove DEF ConfirmRotation, RotateWrite, Over, Goes, history
<1>9. CASE Recount(t) \/ RecountWrite(t)
  BY <1>1, <1>9, RecountMove, RecountWriteMove
     DEF Recount, RecountWrite, RecountOver, Over, Goes, history
<1>10. CASE SubscribeWrite(t) \/ RetireHook(t)
  BY <1>1, <1>10, SubscribeWriteMove, RetireHookMove
     DEF SubscribeWrite, RetireHook, Over, Goes, history
<1>. QED
  BY <1>2, <1>3, <1>4, <1>5, <1>6, <1>7, <1>8, <1>9, <1>10, Zenon DEF Handler

LEMMA BeginsTurn ==
  ASSUME TypeInv, NEW t \in Threads, Begins(t)
  PROVE  /\ \E call : Start(t, call)
         /\ UNCHANGED crashes
<1>1. CASE \E interest \in Interests : RecordEvent(t, interest)
  BY <1>1, Zenon DEF RecordEvent
<1>2. CASE \E r \in DOMAIN rows : Retry(t, r)
  BY <1>2, Zenon DEF Retry, history
<1>3. CASE \E h \in Hooks : Rotate(t, h) \/ Retire(t, h)
  BY <1>3, Zenon DEF Rotate, Retire, history
<1>4. CASE \E h \in Hooks, state \in {"live", "paused"} : PauseWebhook(t, h, state)
  BY <1>4, Zenon DEF PauseWebhook
<1>5. CASE \E s \in DOMAIN subs, state \in {"live", "paused"} : PauseSubscription(t, s, state)
  BY <1>5, Zenon DEF PauseSubscription
<1>6. CASE \E s \in DOMAIN subs : Unsubscribe(t, s)
  BY <1>6, Zenon DEF Unsubscribe
<1>7. CASE Subscribe(t)
  BY <1>7, Zenon DEF Subscribe, history
<1>. QED BY <1>1, <1>2, <1>3, <1>4, <1>5, <1>6, <1>7, Zenon DEF Begins

(* A step after which nothing was disturbed was one of the only call. *)
LEMMA Turn ==
  ASSUME SentInv, ~disturbed => Alone, ~disturbed', NEW t \in Threads, Begins(t) \/ Handler(t)
  PROVE  /\ ~disturbed /\ job' = [job EXCEPT ![t] = job'[t]]
         /\ \A u \in Threads \ {t} : job[u].stage = "idle" /\ job'[u] = job[u]
         /\ Alone'
<1>1. TypeInv /\ raced \in Nat /\ crashes \in Nat
  BY BoundAssumption DEF SentInv, TypeInv, DataOK
<1>2. /\ ~disturbed /\ job' = [job EXCEPT ![t] = job'[t]]
      /\ \A u \in Threads \ {t} : job[u].stage = "idle"
  <2>1. CASE Begins(t)
    <3>1. PICK call : Start(t, call) /\ UNCHANGED crashes
      BY <1>1, <2>1, BeginsTurn
    <3>2. raced' = IF Busy(t) THEN raced + 1 ELSE raced
      BY <3>1 DEF Start
    <3>3. ~Busy(t) /\ ~disturbed
      BY <1>1, <3>1, <3>2 DEF disturbed
    <3>4. job' = [job EXCEPT ![t] = job'[t]]
      BY <1>1, <3>1, StartMove
    <3>. QED BY <3>3, <3>4 DEF Busy
  <2>2. CASE Handler(t)
    <3>1. UNCHANGED <<raced, crashes>> /\ job' = [job EXCEPT ![t] = job'[t]] /\ job[t].stage # "idle"
      BY <2>2, HandlerTurn
    <3>2. ~disturbed /\ Alone
      BY <3>1 DEF disturbed
    <3>. QED BY <3>1, <3>2 DEF Alone, Serving
  <2>. QED BY <2>1, <2>2
<1>3. \A u \in Threads \ {t} : job'[u] = job[u]
  BY <1>1, <1>2 DEF TypeInv
<1>4. Alone'
  BY <1>2, <1>3 DEF Alone, Serving
<1>. QED BY <1>2, <1>3, <1>4

-----------------------------------------------------------------------------
(* The overlap of a rotation.  What a call posts is signed with the secret  *)
(* of its webhook, so an accepted delivery proves that secret until it is   *)
(* rotated, which no other call does meanwhile.                             *)

Signs(t) ==
  /\ job[t].stage = "posting" =>
       \A h \in Hooks : h = HookOf[job[t].sub] => job[t].line.secret = hooks[h].secret
  /\ job[t].stage \in {"storing", "folding", "folded", "confirming"} /\ job[t].answer = "ok" =>
       \A h \in Hooks : h = HookOf[job[t].sub] => proven[h] = hooks[h].secret
  /\ job[t].stage = "confirming" => job[t].answer = "ok"

Proven == \A h \in Hooks : hooks[h].confirmed => proven[h] = hooks[h].secret

SignedInv ==
  /\ SentInv
  /\ ~disturbed => Alone /\ Proven /\ \A t \in Threads : Signs(t)

LEMMA IdleSigns ==
  ASSUME NEW t, job'[t].stage \notin {"posting", "storing", "folding", "folded", "confirming"}
  PROVE  Signs(t)'
BY DEF Signs

LEMMA SameProven ==
  ASSUME Proven, SameSigning
  PROVE  Proven'
<1>. SUFFICES ASSUME NEW h \in Hooks, hooks'[h].confirmed
              PROVE  proven'[h] = hooks'[h].secret
  BY DEF Proven
<1>1. hooks[h].confirmed
  BY Zenon DEF SameSigning
<1>. QED BY <1>1 DEF Proven, SameSigning

LEMMA RecordsSigning ==
  ASSUME UNCHANGED <<hooks, proven>>
  PROVE  SameSigning
BY DEF SameSigning

(* The fan-out, the retry and the steps of one attempt. *)
LEMMA SendingSigns ==
  ASSUME SentInv, NEW t \in Threads, Signs(t), Proven,
         \/ \E s \in job[t].todo : Fan(t, s)
         \/ RetryRequire(t) \/ StoreDelivery(t) \/ FoldRead(t) \/ FoldWrite(t)
  PROVE  Signs(t)' /\ Proven'
<1>1. UNCHANGED <<hooks, proven>>
  BY FanMove, RetryRequireMove, StoreFollows, FoldReadMove, FoldWriteMove DEF records, history
<1>2. Proven'
  BY <1>1, RecordsSigning, SameProven
<1>3. "ok" \notin Withheld
  BY DEF Withheld
<1>4. CASE \E s \in job[t].todo : Fan(t, s)
  <2>1. PICK s \in job[t].todo : Fan(t, s)
    BY <1>4
  <2>2. CASE job'[t].stage \in {"idle", "fanning"}
    BY <1>2, <2>2, IdleSigns
  <2>3. CASE job'[t].stage = "storing" /\ job'[t].answer \in Withheld
    BY <1>2, <1>3, <2>3 DEF Signs
  <2>4. CASE job'[t].stage = "posting" /\ job'[t].sub = s /\ job'[t].line = hooks[HookOf[s]]
    BY <1>1, <1>2, <2>4 DEF Signs
  <2>. QED BY <1>2, <2>1, <2>2, <2>3, <2>4, FanMove, IdleStage
<1>5. CASE RetryRequire(t)
  <2>1. \/ job'[t].stage = "idle"
        \/ /\ job'[t].stage = "posting" /\ job'[t].sub = job[t].sub
           /\ job'[t].line = hooks[HookOf[job[t].sub]]
    BY <1>5, RetryRequireMove, IdleStage DEF Follows
  <2>. QED BY <1>1, <1>2, <2>1 DEF Signs
<1>6. CASE StoreDelivery(t) \/ FoldRead(t)
  <2>1. /\ job[t].stage \in {"storing", "folding"}
        /\ \/ job'[t].stage = "idle"
           \/ /\ job'[t].stage \in {"folding", "folded"}
              /\ job'[t].sub = job[t].sub /\ job'[t].answer = job[t].answer
    BY <1>6, StoreFollows, FoldReadMove, IdleStage DEF Follows
  <2>. QED BY <1>1, <1>2, <2>1 DEF Signs
<1>7. CASE FoldWrite(t)
  <2>1. job[t].stage = "folded" /\ (job'[t] = IdleJob \/ AfterCount(t))
    BY <1>7, FoldWriteMove
  <2>2. \/ job'[t].stage \in {"idle", "counting", "fanning"}
        \/ /\ job'[t].stage = "confirming" /\ job[t].answer = "ok"
           /\ job'[t].sub = job[t].sub /\ job'[t].answer = job[t].answer
    BY <2>1, IdleStage DEF AfterCount, GoesOn, Confirms, Follows
  <2>. QED BY <1>1, <1>2, <2>1, <2>2 DEF Signs
<1>. QED BY <1>4, <1>5, <1>6, <1>7

LEMMA PostProves ==
  ASSUME SentInv, NEW t \in Threads, NEW answer \in Answers, Post(t, answer), Signs(t), Proven
  PROVE  Signs(t)' /\ Proven'
<1>. DEFINE g == HookOf[job[t].sub]
<1>1. /\ UNCHANGED hooks /\ job[t].stage = "posting" /\ job'[t].stage = "storing"
      /\ job'[t].sub = job[t].sub /\ job'[t].answer = answer
      /\ answer = "ok" => proven' = [proven EXCEPT ![g] = job[t].line.secret]
      /\ answer # "ok" => UNCHANGED proven
      /\ g \in Hooks
  BY PostSigns, HooksOf DEF records
<1>2. proven \in [Hooks -> Nat] /\ job[t].line.secret = hooks[g].secret
  BY <1>1 DEF SentInv, TypeInv, DataOK, Signs
<1>3. CASE answer = "ok"
  <2>1. proven'[g] = hooks[g].secret /\ \A h \in Hooks : h # g => proven'[h] = proven[h]
    BY <1>1, <1>2, <1>3
  <2>2. Proven'
    <3>. SUFFICES ASSUME NEW h \in Hooks, hooks'[h].confirmed
                  PROVE  proven'[h] = hooks'[h].secret
      BY DEF Proven
    <3>1. hooks[h].confirmed
      BY <1>1
    <3>. QED BY <1>1, <2>1, <3>1 DEF Proven
  <2>3. Signs(t)'
    BY <1>1, <2>1 DEF Signs
  <2>. QED BY <2>2, <2>3
<1>4. CASE answer # "ok"
  BY <1>1, <1>4, RecordsSigning, SameProven DEF Signs
<1>. QED BY <1>3, <1>4

LEMMA ConfirmProves ==
  ASSUME SentInv, NEW t \in Threads, ConfirmRotation(t), Signs(t), Proven
  PROVE  Signs(t)' /\ Proven'
<1>1. /\ job[t].stage = "confirming" /\ job'[t] = IdleJob /\ UNCHANGED proven
      /\ \A h \in Hooks :
           /\ hooks'[h].secret = hooks[h].secret
           /\ h # HookOf[job[t].sub] => hooks'[h].confirmed = hooks[h].confirmed
  BY ConfirmMove DEF history
<1>2. ASSUME NEW h \in Hooks, hooks'[h].confirmed
      PROVE  proven'[h] = hooks'[h].secret
  <2>1. CASE h = HookOf[job[t].sub]
    BY <1>1, <2>1 DEF Signs
  <2>2. CASE h # HookOf[job[t].sub]
    <3>1. hooks[h].confirmed
      BY <1>1, <1>2, <2>2, Zenon
    <3>. QED BY <1>1, <3>1 DEF Proven
  <2>. QED BY <2>1, <2>2
<1>. QED BY <1>1, <1>2, IdleStage, IdleSigns DEF Proven

LEMMA RotateProves ==
  ASSUME SentInv, NEW t \in Threads, RotateWrite(t), Proven
  PROVE  Signs(t)' /\ Proven'
<1>1. /\ job'[t] = IdleJob /\ UNCHANGED proven
      /\ \A h \in Hooks : hooks'[h] = hooks[h] \/ hooks'[h].confirmed = FALSE
  BY RotateWriteMove DEF history
<1>2. ASSUME NEW h \in Hooks, hooks'[h].confirmed
      PROVE  proven'[h] = hooks'[h].secret
  <2>1. hooks'[h] = hooks[h]
    BY <1>1, <1>2, Zenon
  <2>2. hooks[h].confirmed
    BY <1>2, <2>1
  <2>. QED BY <1>1, <2>1, <2>2 DEF Proven
<1>. QED BY <1>1, <1>2, IdleStage, IdleSigns DEF Proven

(* Every other step leaves the secrets alone and posts nothing. *)
LEMMA OtherSigns ==
  ASSUME SentInv, NEW t \in Threads,
         \/ List(t) \/ FanOver(t) \/ CountRead(t) \/ CountWrite(t)
         \/ Recount(t) \/ RecountWrite(t) \/ SubscribeWrite(t) \/ RetireHook(t)
         \/ \E s \in job[t].todo : RetireNext(t, s)
         \/ Begins(t)
  PROVE  /\ SameSigning
         /\ job'[t].stage \notin {"posting", "storing", "folding", "folded", "confirming"}
<1>0. TypeInv
  BY DEF SentInv
<1>1. CASE List(t) \/ FanOver(t) \/ CountRead(t)
  BY <1>1, ListMove, FanOverMove, CountReadMove, IdleStage, RecordsSigning DEF records, history
<1>2. CASE CountWrite(t)
  <2>1. job'[t].stage \in {"idle", "fanning"}
    BY <1>2, CountWriteMove, IdleStage DEF GoesOn
  <2>. QED BY <1>2, <2>1, CountWriteMove DEF SameSigning, history
<1>3. CASE Recount(t) \/ RecountWrite(t)
  <2>1. job'[t].stage \in {"idle", "retiring", "recounted"}
    BY <1>0, <1>3, RecountMove, RecountWriteMove, IdleStage DEF RecountDone
  <2>2. SameSigning
    BY <1>0, <1>3, RecountMove, RecountWriteMove, RecordsSigning DEF records, history
  <2>. QED BY <2>1, <2>2
<1>4. CASE SubscribeWrite(t) \/ RetireHook(t)
  BY <1>0, <1>4, SubscribeWriteMove, RetireHookMove, IdleStage, RecordsSigning DEF history
<1>5. CASE \E s \in job[t].todo : RetireNext(t, s)
  BY <1>0, <1>5, RetireNextMove, IdleStage, RecordsSigning
<1>6. CASE Begins(t)
  <2>1. CASE \E interest \in Interests : RecordEvent(t, interest)
    BY <1>0, <2>1, RecordEventMove, RecordsSigning
  <2>2. CASE \E r \in DOMAIN rows : Retry(t, r)
    BY <1>0, <2>2, RetryMove, RecordsSigning DEF records, history
  <2>3. CASE \E h \in Hooks : Rotate(t, h) \/ Retire(t, h)
    BY <1>0, <2>3, RotateMove, RetireMove, RecordsSigning DEF records, history
  <2>4. CASE \E h \in Hooks, state \in {"live", "paused"} : PauseWebhook(t, h, state)
    BY <1>0, <2>4, PauseWebhookMove, IdleStage DEF SameAll
  <2>5. CASE \E s \in DOMAIN subs, state \in {"live", "paused"} : PauseSubscription(t, s, state)
    BY <1>0, <2>5, EditMove, RecordsSigning
  <2>6. CASE \E s \in DOMAIN subs : Unsubscribe(t, s)
    BY <1>0, <2>6, EditMove, RecordsSigning
  <2>7. CASE Subscribe(t)
    BY <1>0, <2>7, SubscribeMove, RecordsSigning DEF records, history
  <2>. QED BY <1>6, <2>1, <2>2, <2>3, <2>4, <2>5, <2>6, <2>7, Zenon DEF Begins
<1>. QED BY <1>1, <1>2, <1>3, <1>4, <1>5, <1>6

LEMMA SignedStep ==
  ASSUME SignedInv, [Next]_vars
  PROVE  SignedInv'
<1>1. SentInv /\ SentInv'
  BY SentStep DEF SignedInv
<1>2. SUFFICES ASSUME ~disturbed'
               PROVE  (Alone /\ Proven /\ \A t \in Threads : Signs(t))'
  BY <1>1 DEF SignedInv
<1>3. CASE UNCHANGED vars
  BY <1>2, <1>3 DEF SignedInv, disturbed, Alone, Serving, Proven, Signs, vars, records, history
<1>4. CASE Crash
  <2>1. crashes' = crashes + 1 /\ crashes \in Nat
    BY <1>1, <1>4, BoundAssumption DEF Crash, SentInv, TypeInv, DataOK
  <2>. QED BY <1>2, <2>1 DEF disturbed
<1>5. ASSUME NEW t \in Threads, Begins(t) \/ Handler(t)
      PROVE  (Alone /\ Proven /\ \A u \in Threads : Signs(u))'
  <2>1. /\ ~disturbed /\ Alone'
        /\ \A u \in Threads \ {t} : job[u].stage = "idle" /\ job'[u] = job[u]
    BY <1>1, <1>2, <1>5, Turn DEF SignedInv
  <2>2. Proven /\ Signs(t)
    BY <2>1 DEF SignedInv
  <2>3. \A u \in Threads \ {t} : Signs(u)'
    BY <2>1, IdleSigns
  <2>4. ASSUME SameSigning,
               job'[t].stage \notin {"posting", "storing", "folding", "folded", "confirming"}
        PROVE  Proven' /\ Signs(t)'
    BY <2>2, <2>4, SameProven, IdleSigns
  <2>5. CASE Begins(t)
    BY <1>1, <2>1, <2>3, <2>4, <2>5, OtherSigns
  <2>6. CASE Handler(t)
    <3>1. Proven' /\ Signs(t)'
      BY <1>1, <2>2, <2>4, <2>6, OtherSigns, SendingSigns, PostProves, ConfirmProves, RotateProves
         DEF Handler
    <3>. QED BY <2>1, <2>3, <3>1
  <2>. QED BY <1>5, <2>5, <2>6
<1>. QED BY <1>3, <1>4, <1>5, NextCases

LEMMA InitAlone == Init => Alone /\ Serving = {}
BY IdleStage DEF Init, Alone, Serving

(* Of calls served one at a time, the overlap ends after a delivery that    *)
(* the new secret signed was accepted.                                      *)
THEOREM OverlapCorrect == Spec => []OverlapEndsWithDelivery
<1>1. Init => SignedInv
  <2>. SUFFICES ASSUME Init
                PROVE  SignedInv
    OBVIOUS
  <2>1. Proven
    BY Zenon DEF Init, NewHook, Proven
  <2>2. \A t \in Threads : Signs(t)
    BY IdleStage DEF Init, Signs
  <2>. QED BY <2>1, <2>2, InitSent, InitAlone DEF SignedInv
<1>2. SignedInv /\ [Next]_vars => SignedInv'
  BY SignedStep
<1>3. SignedInv => OverlapEndsWithDelivery
  BY DEF SignedInv, OverlapEndsWithDelivery, Proven
<1>. QED BY <1>1, <1>2, <1>3, PTL DEF Spec

-----------------------------------------------------------------------------
(* The order of the records.  A webhook is retired after its subscriptions, *)
(* and no subscription is made under one that is retired; so the fan-out of *)
(* a call served alone meets no webhook that would end it.                  *)

Orderly(t) ==
  /\ job[t].stage # "idle" /\ job[t].call = "event" =>
       job[t].todo \subseteq Kept /\ (job[t].stage \in Sending => job[t].sub \in Kept)
  /\ job[t].stage \in Sending => job[t].sub \in DOMAIN subs
  /\ job[t].stage = "subscribing" =>
       /\ job[t].hook = HookOf[Len(subs) + 1]
       /\ hooks[HookOf[Len(subs) + 1]].state # "retired"
  /\ job[t].stage \in {"recounting", "recounted", "retiring"} =>
       hooks[job[t].hook].state # "retired"
  /\ job[t].stage = "retiring" => job[t].call = "retire"
  /\ job[t].stage \in {"recounting", "recounted", "retiring"} /\ job[t].call = "retire" =>
       job[t].todo = Kept \cap Under(job[t].hook)

NoOrphan == \A s \in Kept : hooks[HookOf[s]].state # "retired"

RowsNamed == \A r \in DOMAIN rows : rows[r].sub \in DOMAIN subs

(* An event is accounted for, or its fan-out is under way. *)
AllOut ==
  \A e \in DOMAIN events :
    events[e].updated \/ \E t \in Serving : job[t].call = "event" /\ job[t].event = e

Records == NoOrphan /\ RowsNamed

OrderInv ==
  /\ SentInv
  /\ ~disturbed => Alone /\ Records /\ AllOut /\ \A t \in Threads : Orderly(t)

LEMMA IdleOrderly ==
  ASSUME NEW t, job'[t].stage = "idle"
  PROVE  Orderly(t)'
BY DEF Orderly, Sending

LEMMA SameRecords ==
  ASSUME Records, SameStates, UNCHANGED rows, TypeInv
  PROVE  Records'
<1>1. \A s \in Kept : HookOf[s] \in Hooks
  BY HooksOf DEF Kept, TypeInv, DataOK
<1>2. NoOrphan'
  BY <1>1 DEF Records, NoOrphan, SameStates
<1>3. RowsNamed'
  BY DEF Records, RowsNamed, SameStates
<1>. QED BY <1>2, <1>3 DEF Records

LEMMA RecordsStates ==
  ASSUME UNCHANGED <<hooks, subs>>
  PROVE  SameStates
BY AllSame DEF SameStates, Kept

(* A call about one event, or about one row, goes on. *)
LEMMA FollowsOrderly ==
  ASSUME NEW t, Orderly(t), SameStates, job[t].stage \in Sending, job'[t].stage \in Sending,
         job'[t].call = job[t].call, job'[t].sub = job[t].sub, job'[t].todo = job[t].todo
  PROVE  Orderly(t)'
<1>1. job[t].stage # "idle"
  BY DEF Sending
<1>2. job'[t].stage \notin {"subscribing", "recounting", "recounted", "retiring"}
  BY DEF Sending
<1>. QED BY <1>1, <1>2 DEF Orderly, SameStates

LEMMA GoesOnOrderly ==
  ASSUME NEW t, Orderly(t), SameStates, job[t].stage # "idle", job[t].call = "event",
         GoesOn(job[t], job'[t])
  PROVE  Orderly(t)'
<1>1. /\ job'[t].stage = "fanning" /\ job'[t].todo \subseteq job[t].todo
  BY DEF GoesOn
<1>. QED BY <1>1 DEF Orderly, SameStates, Sending

(* Where an event call is after a step. *)
Carries(t) ==
  job'[t].stage # "idle" /\ job'[t].call = "event" /\ job'[t].event = job[t].event

LEMMA FanOrderly ==
  ASSUME SentInv, NEW t \in Threads, Orderly(t), Records, NEW s \in job[t].todo, Fan(t, s)
  PROVE  Orderly(t)' /\ SameStates /\ Carries(t) /\ UNCHANGED <<rows, events>>
<1>1. /\ UNCHANGED <<hooks, subs, rows, events>>
      /\ job[t].stage = "fanning" /\ job[t].call = "event"
      /\ \/ hooks[HookOf[s]].state = "retired"
         \/ /\ job'[t].call = "event" /\ job'[t].event = job[t].event
            /\ \/ job'[t].stage \in {"storing", "posting"} /\ job'[t].sub = s
                  /\ job'[t].todo = job[t].todo
               \/ job'[t].stage = "fanning" /\ job'[t].todo = job[t].todo \ {s}
  BY FanMove DEF records, history
<1>2. s \in Kept /\ job[t].todo \subseteq Kept
  BY <1>1 DEF Orderly
<1>3. hooks[HookOf[s]].state # "retired"
  BY <1>2 DEF Records, NoOrphan
<1>4. SameStates
  BY <1>1, RecordsStates
<1>5. s \in DOMAIN subs
  BY <1>2 DEF Kept
<1>6. ASSUME job'[t].stage \in {"storing", "posting"}, job'[t].sub = s,
             job'[t].todo = job[t].todo
      PROVE  Orderly(t)'
  BY <1>2, <1>4, <1>5, <1>6 DEF Orderly, SameStates
<1>7. ASSUME job'[t].stage = "fanning", job'[t].todo = job[t].todo \ {s}
      PROVE  Orderly(t)'
  BY <1>2, <1>4, <1>7 DEF Orderly, SameStates, Sending
<1>8. Carries(t)
  BY <1>1, <1>3 DEF Carries
<1>. QED BY <1>1, <1>3, <1>4, <1>6, <1>7, <1>8

LEMMA ListOrderly ==
  ASSUME SentInv, NEW t \in Threads, List(t)
  PROVE  Orderly(t)' /\ SameStates /\ Carries(t) /\ UNCHANGED <<rows, events>>
<1>1. /\ UNCHANGED <<hooks, subs, rows, events>>
      /\ job'[t].stage = "fanning" /\ job'[t].call = "event"
      /\ job'[t].event = job[t].event /\ job'[t].todo \subseteq Kept
  BY ListMove DEF records, history
<1>2. SameStates
  BY <1>1, RecordsStates
<1>. QED BY <1>1, <1>2 DEF Orderly, SameStates, Sending, Carries

(* The steps of one attempt. *)
LEMMA AttemptOrderly ==
  ASSUME SentInv, NEW t \in Threads, Orderly(t),
         \/ \E answer \in Answers : Post(t, answer)
         \/ StoreDelivery(t) \/ FoldRead(t) \/ RetryRequire(t)
  PROVE  /\ Orderly(t)' /\ SameStates /\ UNCHANGED events
         /\ job[t].call = "event" => Carries(t)
<1>1. UNCHANGED <<hooks, subs, events>>
  BY PostSigns, StoreFollows, FoldReadMove, RetryRequireMove DEF records, history
<1>2. SameStates
  BY <1>1, RecordsStates
<1>3. /\ job[t].stage \in Sending /\ job[t].stage # "idle"
      /\ \/ /\ job'[t].stage \in Sending /\ job'[t].stage # "idle"
            /\ job'[t].call = job[t].call /\ job'[t].sub = job[t].sub
            /\ job'[t].todo = job[t].todo /\ job'[t].event = job[t].event
         \/ /\ job'[t].stage = "idle"
            /\ job[t].call = "retry" \/ job[t].sub \notin Kept
  BY PostSigns, StoreFollows, FoldReadMove, RetryRequireMove, IdleStage DEF Follows, Sending
<1>4. Orderly(t)'
  BY <1>2, <1>3, FollowsOrderly, IdleOrderly
<1>5. job[t].call = "event" => Carries(t)
  BY <1>3 DEF Orderly, Carries
<1>. QED BY <1>1, <1>2, <1>4, <1>5

LEMMA FoldWriteOrderly ==
  ASSUME SentInv, NEW t \in Threads, Orderly(t), FoldWrite(t)
  PROVE  /\ Orderly(t)' /\ SameStates /\ UNCHANGED <<rows, events>>
         /\ job[t].call = "event" => Carries(t)
<1>1. /\ UNCHANGED <<hooks, rows, events>> /\ job[t].stage = "folded"
      /\ \/ job[t].sub \notin Kept /\ job'[t] = IdleJob /\ UNCHANGED subs
         \/ /\ DOMAIN subs' = DOMAIN subs
            /\ \A s \in DOMAIN subs : subs'[s].state = subs[s].state
            /\ AfterCount(t)
  BY FoldWriteMove
<1>2. SameStates
  BY <1>1 DEF SameStates, Kept
<1>3. CASE job[t].sub \notin Kept /\ job'[t] = IdleJob
  BY <1>1, <1>2, <1>3, IdleStage, IdleOrderly DEF Orderly, Sending
<1>4. CASE AfterCount(t)
  <2>1. CASE job'[t].stage \in {"counting", "confirming"} /\ Follows(job[t], job'[t])
    <3>1. Orderly(t)'
      BY <1>1, <1>2, <2>1, FollowsOrderly DEF Follows, Sending
    <3>. QED BY <1>1, <1>2, <2>1, <3>1 DEF Follows, Carries
  <2>2. CASE job[t].call = "event" /\ GoesOn(job[t], job'[t])
    <3>1. Orderly(t)'
      BY <1>1, <1>2, <2>2, GoesOnOrderly
    <3>. QED BY <1>1, <1>2, <2>2, <3>1 DEF GoesOn, Carries
  <2>3. CASE job[t].call = "retry" /\ job'[t] = IdleJob
    BY <1>1, <1>2, <2>3, IdleStage, IdleOrderly
  <2>. QED BY <1>4, <2>1, <2>2, <2>3 DEF AfterCount
<1>. QED BY <1>1, <1>3, <1>4

LEMMA CountOrderly ==
  ASSUME SentInv, NEW t \in Threads, Orderly(t), Records, CountRead(t) \/ CountWrite(t)
  PROVE  /\ Orderly(t)' /\ SameStates /\ UNCHANGED <<rows, events>> /\ Carries(t)
<1>1. /\ UNCHANGED <<subs, rows, events>>
      /\ job[t].stage \in Sending /\ job[t].stage # "idle" /\ job[t].call = "event"
  BY CountReadMove, CountWriteMove DEF records, Sending
<1>2. hooks[HookOf[job[t].sub]].state # "retired"
  BY <1>1 DEF Orderly, Records, NoOrphan
<1>3. CASE CountRead(t)
  <2>1. UNCHANGED hooks /\ job'[t].stage = "counted" /\ Follows(job[t], job'[t])
    BY <1>2, <1>3, CountReadMove DEF records
  <2>2. SameStates
    BY <1>1, <2>1, RecordsStates
  <2>3. Orderly(t)'
    BY <1>1, <2>1, <2>2, FollowsOrderly DEF Follows, Sending
  <2>. QED BY <1>1, <2>1, <2>2, <2>3 DEF Follows, Carries
<1>4. CASE CountWrite(t)
  <2>1. GoesOn(job[t], job'[t]) /\ \A h \in Hooks : hooks'[h].state = hooks[h].state
    BY <1>2, <1>4, CountWriteMove
  <2>2. SameStates
    BY <1>1, <2>1 DEF SameStates, Kept
  <2>3. Orderly(t)'
    BY <1>1, <2>1, <2>2, GoesOnOrderly
  <2>. QED BY <1>1, <2>1, <2>2, <2>3 DEF GoesOn, Carries
<1>. QED BY <1>3, <1>4

LEMMA FewerRecords ==
  ASSUME Records, UNCHANGED <<hooks, rows>>, Kept' \subseteq Kept, DOMAIN subs' = DOMAIN subs
  PROVE  Records'
BY DEF Records, NoOrphan, RowsNamed

LEMMA StoreRecords ==
  ASSUME SentInv, NEW t \in Threads, Orderly(t), Records, StoreDelivery(t)
  PROVE  Records'
<1>1. job[t].sub \in DOMAIN subs
  BY StoreMove DEF Orderly, Sending
<1>2. UNCHANGED <<hooks, subs>>
  BY StoreMove
<1>3. RowsNamed'
  <2>1. CASE job[t].call = "event"
    BY <1>1, <1>2, <2>1, StoreMove DEF Records, RowsNamed
  <2>2. CASE job[t].call = "retry"
    BY <1>1, <1>2, <2>2, StoreMove DEF Records, RowsNamed
  <2>. QED BY <2>1, <2>2, StoreMove
<1>4. NoOrphan'
  BY <1>2 DEF Records, NoOrphan, Kept
<1>. QED BY <1>3, <1>4 DEF Records

(* The end of a call, and the edits of the webhooks. *)
LEMMA ClosingOrderly ==
  ASSUME SentInv, NEW t \in Threads, Records,
         FanOver(t) \/ ConfirmRotation(t) \/ RotateWrite(t)
  PROVE  Orderly(t)' /\ SameStates /\ UNCHANGED rows
<1>1. job'[t].stage = "idle" /\ UNCHANGED rows
  BY FanOverMove, ConfirmMove, RotateWriteMove, IdleStage
<1>2. CASE FanOver(t)
  BY <1>1, <1>2, IdleOrderly, FanOverMove, RecordsStates
<1>3. CASE ConfirmRotation(t) \/ RotateWrite(t)
  BY <1>1, <1>3, IdleOrderly, ConfirmMove, RotateWriteMove
<1>. QED BY <1>2, <1>3

LEMMA RecountOrderly ==
  ASSUME SentInv, NEW t \in Threads, Orderly(t), Recount(t) \/ RecountWrite(t)
  PROVE  Orderly(t)' /\ SameStates /\ UNCHANGED <<rows, events>>
<1>1. TypeInv
  BY DEF SentInv
<1>2. /\ job[t].stage \in {"recounting", "recounted"} /\ job[t].hook \in Hooks
      /\ hooks[job[t].hook].state # "retired"
      /\ job[t].call = "retire" => job[t].todo = Kept \cap Under(job[t].hook)
  BY <1>1, RecountMove, RecountWriteMove DEF Orderly
<1>3. SameStates /\ UNCHANGED <<rows, events>>
  BY <1>1, RecountMove, RecountWriteMove, RecordsStates DEF records
<1>4. ASSUME job'[t].stage \in {"recounted", "retiring"}, Retains(job[t], job'[t]),
             job'[t].stage = "retiring" => job[t].call = "retire"
      PROVE  Orderly(t)'
  BY <1>2, <1>3, <1>4 DEF Orderly, SameStates, Retains, Sending
<1>5. ASSUME RecountDone(t)
      PROVE  Orderly(t)'
  BY <1>4, <1>5, IdleStage, IdleOrderly DEF RecountDone
<1>6. CASE Recount(t)
  BY <1>1, <1>2, <1>3, <1>4, <1>6, RecountMove
<1>7. CASE RecountWrite(t)
  BY <1>1, <1>2, <1>3, <1>5, <1>7, RecountWriteMove
<1>. QED BY <1>6, <1>7

LEMMA SubscribeOrderly ==
  ASSUME SentInv, NEW t \in Threads, Orderly(t), Records, SubscribeWrite(t)
  PROVE  Orderly(t)' /\ Records' /\ UNCHANGED events
<1>1. TypeInv
  BY DEF SentInv
<1>2. /\ UNCHANGED <<hooks, events, rows>> /\ job[t].stage = "subscribing"
      /\ job'[t].stage = "recounting" /\ job'[t].call = "edit" /\ job'[t].hook = job[t].hook
      /\ DOMAIN subs' = DOMAIN subs \cup {Len(subs) + 1}
      /\ Kept' = Kept \cup {Len(subs) + 1}
  BY <1>1, SubscribeWriteMove
<1>3. job[t].hook = HookOf[Len(subs) + 1] /\ hooks[HookOf[Len(subs) + 1]].state # "retired"
  BY <1>2 DEF Orderly
<1>4. Orderly(t)'
  BY <1>2, <1>3 DEF Orderly, Sending
<1>5. Records'
  BY <1>2, <1>3 DEF Records, NoOrphan, RowsNamed
<1>. QED BY <1>2, <1>4, <1>5

LEMMA RetireOrderly ==
  ASSUME SentInv, NEW t \in Threads, Orderly(t), Records,
         RetireHook(t) \/ \E s \in job[t].todo : RetireNext(t, s)
  PROVE  Orderly(t)' /\ Records' /\ UNCHANGED events
<1>1. TypeInv
  BY DEF SentInv
<1>2. CASE RetireHook(t)
  <2>1. /\ UNCHANGED <<subs, rows, events>>
        /\ job[t].stage = "retiring" /\ job[t].todo = {} /\ job'[t] = IdleJob
        /\ \A h \in Hooks : h # job[t].hook => hooks'[h] = hooks[h]
    BY <1>1, <1>2, RetireHookMove
  <2>2. Kept \cap Under(job[t].hook) = {}
    BY <2>1 DEF Orderly
  <2>3. \A s \in Kept : s \in Subs /\ HookOf[s] \in Hooks /\ HookOf[s] # job[t].hook
    BY <1>1, <2>2, HooksOf DEF Under, Kept, TypeInv, DataOK
  <2>4. Records'
    BY <2>1, <2>3 DEF Records, NoOrphan, RowsNamed, Kept
  <2>. QED BY <2>1, <2>4, IdleStage, IdleOrderly
<1>3. ASSUME NEW s \in job[t].todo, RetireNext(t, s)
      PROVE  Orderly(t)' /\ Records' /\ UNCHANGED events
  <2>1. /\ UNCHANGED <<hooks, rows, events>> /\ job[t].stage = "retiring"
        /\ \/ job'[t] = IdleJob /\ UNCHANGED subs
           \/ /\ Leaves(s) /\ job'[t].stage = "recounting"
              /\ job'[t].call = job[t].call /\ job'[t].hook = job[t].hook
              /\ job'[t].todo = job[t].todo \ {s}
    BY <1>1, <1>3, RetireNextMove
  <2>2. Kept' \subseteq Kept /\ DOMAIN subs' = DOMAIN subs
    BY <2>1 DEF Leaves, Kept
  <2>3. Records'
    BY <2>1, <2>2, FewerRecords
  <2>4. CASE job'[t] = IdleJob
    BY <2>1, <2>3, <2>4, IdleStage, IdleOrderly
  <2>5. CASE /\ Leaves(s) /\ job'[t].stage = "recounting"
             /\ job'[t].call = job[t].call /\ job'[t].hook = job[t].hook
             /\ job'[t].todo = job[t].todo \ {s}
    <3>1. /\ job[t].call = "retire" /\ job[t].todo = Kept \cap Under(job[t].hook)
          /\ hooks[job[t].hook].state # "retired"
      BY <2>1 DEF Orderly
    <3>2. job'[t].todo = Kept' \cap Under(job[t].hook)
      BY <2>5, <3>1 DEF Leaves
    <3>3. Orderly(t)'
      BY <2>1, <2>5, <3>1, <3>2 DEF Orderly, Sending, Under
    <3>. QED BY <2>1, <2>3, <3>3
  <2>. QED BY <2>1, <2>4, <2>5
<1>. QED BY <1>2, <1>3

LEMMA BeginsOrderly ==
  ASSUME SentInv, NEW t \in Threads, Records, Begins(t)
  PROVE  Orderly(t)' /\ Records'
<1>1. TypeInv
  BY DEF SentInv
<1>2. ASSUME UNCHANGED records
      PROVE  Records' /\ UNCHANGED <<hooks, subs, rows>> /\ Kept' = Kept
  BY <1>1, <1>2, SameRecords, RecordsStates DEF records, Kept
<1>3. CASE \E interest \in Interests : RecordEvent(t, interest)
  <2>1. PICK interest \in Interests : RecordEvent(t, interest)
    BY <1>3
  <2>2. /\ UNCHANGED <<hooks, subs, rows>>
        /\ job'[t].stage = "listing" /\ job'[t].call = "event" /\ job'[t].todo = {}
    BY <1>1, <2>1, RecordEventMove
  <2>3. Records'
    BY <1>1, <2>2, SameRecords, RecordsStates
  <2>4. Orderly(t)'
    BY <2>2 DEF Orderly, Sending
  <2>. QED BY <2>3, <2>4
<1>4. CASE \E r \in DOMAIN rows : Retry(t, r)
  <2>1. PICK r \in DOMAIN rows : Retry(t, r)
    BY <1>4
  <2>2. /\ UNCHANGED records
        /\ job'[t].stage = "requiring" /\ job'[t].call = "retry" /\ job'[t].sub = rows[r].sub
    BY <1>1, <2>1, RetryMove
  <2>3. rows[r].sub \in DOMAIN subs
    BY DEF Records, RowsNamed
  <2>4. Orderly(t)'
    BY <1>2, <2>2, <2>3 DEF Orderly, Sending
  <2>. QED BY <1>2, <2>2, <2>4
<1>5. CASE \E h \in Hooks : Rotate(t, h)
  <2>1. UNCHANGED records /\ job'[t].stage = "rotating" /\ job'[t].call = "rotate"
    BY <1>1, <1>5, RotateMove
  <2>2. Orderly(t)'
    BY <2>1 DEF Orderly, Sending
  <2>. QED BY <1>2, <2>1, <2>2
<1>6. CASE \E h \in Hooks : Retire(t, h)
  <2>1. PICK h \in Hooks : Retire(t, h)
    BY <1>6
  <2>2. /\ UNCHANGED records
        /\ job'[t].stage = "retiring" /\ job'[t].call = "retire" /\ job'[t].hook = h
        /\ job'[t].todo = Kept \cap Under(h) /\ hooks[h].state # "retired"
    BY <1>1, <2>1, RetireMove
  <2>3. Orderly(t)'
    BY <1>2, <2>2 DEF Orderly, Sending, Under
  <2>. QED BY <1>2, <2>2, <2>3
<1>7. CASE \E h \in Hooks, state \in {"live", "paused"} : PauseWebhook(t, h, state)
  <2>1. UNCHANGED rows /\ job'[t] = IdleJob /\ SameStates
    BY <1>1, <1>7, PauseWebhookMove DEF SameAll
  <2>. QED BY <1>1, <2>1, SameRecords, IdleStage, IdleOrderly
<1>8. CASE \/ \E s \in DOMAIN subs, state \in {"live", "paused"} : PauseSubscription(t, s, state)
           \/ \E s \in DOMAIN subs : Unsubscribe(t, s)
  <2>1. PICK s \in DOMAIN subs :
          Unsubscribe(t, s) \/ \E state \in {"live", "paused"} : PauseSubscription(t, s, state)
    BY <1>8
  <2>2. /\ UNCHANGED <<hooks, rows>>
        /\ job'[t].stage = "recounting" /\ job'[t].call = "edit" /\ job'[t].hook = HookOf[s]
        /\ s \in Kept /\ DOMAIN subs' = DOMAIN subs /\ Kept' \subseteq Kept
    BY <1>1, <2>1, EditMove
  <2>3. hooks[HookOf[s]].state # "retired"
    BY <2>2 DEF Records, NoOrphan
  <2>4. Orderly(t)'
    BY <2>2, <2>3 DEF Orderly, Sending
  <2>. QED BY <2>2, <2>4, FewerRecords
<1>9. CASE Subscribe(t)
  <2>1. /\ UNCHANGED records
        /\ job'[t].stage = "subscribing" /\ job'[t].call = "subscribe"
        /\ job'[t].hook = HookOf[Len(subs) + 1]
        /\ hooks[HookOf[Len(subs) + 1]].state # "retired"
    BY <1>1, <1>9, SubscribeMove
  <2>2. Orderly(t)'
    BY <1>2, <2>1 DEF Orderly, Sending
  <2>. QED BY <1>2, <2>1, <2>2
<1>. QED BY <1>3, <1>4, <1>5, <1>6, <1>7, <1>8, <1>9, Zenon DEF Begins

(* An event is accounted for by the call that goes through its fan-out. *)
LEMMA OutStays ==
  ASSUME AllOut, NEW t \in Threads, UNCHANGED events,
         \A u \in Threads \ {t} : job'[u] = job[u],
         job[t].stage # "idle" /\ job[t].call = "event" => Carries(t)
  PROVE  AllOut'
<1>. SUFFICES ASSUME NEW e \in DOMAIN events, ~events[e].updated
              PROVE  \E u \in Threads : /\ job'[u].stage # "idle"
                                        /\ job'[u].call = "event" /\ job'[u].event = e
  BY Zenon DEF AllOut, Serving
<1>1. PICK u \in Threads : /\ job[u].stage # "idle"
                           /\ job[u].call = "event" /\ job[u].event = e
  BY Zenon DEF AllOut, Serving
<1>2. CASE u = t
  BY <1>1, <1>2 DEF Carries
<1>3. CASE u # t
  BY <1>1, <1>3
<1>. QED BY <1>2, <1>3

LEMMA FanOverOut ==
  ASSUME SentInv, AllOut, NEW t \in Threads, FanOver(t),
         \A u \in Threads \ {t} : job'[u] = job[u]
  PROVE  AllOut'
<1>1. /\ DOMAIN events' = DOMAIN events /\ events'[job[t].event].updated
      /\ \A e \in DOMAIN events : e # job[t].event => events'[e] = events[e]
  BY FanOverMove
<1>. SUFFICES ASSUME NEW e \in DOMAIN events, ~events'[e].updated
              PROVE  \E u \in Threads : /\ job'[u].stage # "idle"
                                        /\ job'[u].call = "event" /\ job'[u].event = e
  BY <1>1, Zenon DEF AllOut, Serving
<1>2. e # job[t].event
  BY <1>1, Zenon
<1>3. ~events[e].updated
  BY <1>1, <1>2, Zenon
<1>4. PICK u \in Threads : /\ job[u].stage # "idle"
                           /\ job[u].call = "event" /\ job[u].event = e
  BY <1>3, Zenon DEF AllOut, Serving
<1>5. u # t
  BY <1>2, <1>4
<1>. QED BY <1>4, <1>5

LEMMA RecordOut ==
  ASSUME SentInv, AllOut, NEW t \in Threads, NEW interest \in Interests,
         RecordEvent(t, interest), job[t].stage = "idle",
         \A u \in Threads \ {t} : job'[u] = job[u]
  PROVE  AllOut'
<1>1. TypeInv
  BY DEF SentInv
<1>2. /\ job'[t].stage # "idle" /\ job'[t].call = "event"
      /\ job'[t].event = Len(events) + 1
      /\ DOMAIN events' = DOMAIN events \cup {Len(events) + 1}
      /\ \A e \in DOMAIN events : events'[e] = events[e]
  BY <1>1, RecordEventMove
<1>. SUFFICES ASSUME NEW e \in DOMAIN events', ~events'[e].updated
              PROVE  \E u \in Threads : /\ job'[u].stage # "idle"
                                        /\ job'[u].call = "event" /\ job'[u].event = e
  BY Zenon DEF AllOut, Serving
<1>3. CASE e = Len(events) + 1
  BY <1>2, <1>3
<1>4. CASE e \in DOMAIN events
  <2>1. ~events[e].updated
    BY <1>2, <1>4, Zenon
  <2>2. PICK u \in Threads : /\ job[u].stage # "idle"
                             /\ job[u].call = "event" /\ job[u].event = e
    BY <1>4, <2>1, Zenon DEF AllOut, Serving
  <2>3. u # t
    BY <2>2
  <2>. QED BY <2>2, <2>3
<1>. QED BY <1>2, <1>3, <1>4

LEMMA BeginsOut ==
  ASSUME SentInv, AllOut, NEW t \in Threads, Begins(t),
         \A u \in Threads \ {t} : job'[u] = job[u]
  PROVE  AllOut'
<1>1. TypeInv
  BY DEF SentInv
<1>2. job[t].stage = "idle"
  BY <1>1, BeginsTurn DEF Start
<1>3. CASE \E interest \in Interests : RecordEvent(t, interest)
  BY <1>2, <1>3, RecordOut
<1>4. ASSUME ~ \E interest \in Interests : RecordEvent(t, interest)
      PROVE  UNCHANGED events
  BY <1>1, <1>4, RetryMove, RotateMove, RetireMove, PauseWebhookMove, EditMove, SubscribeMove
     DEF Begins, records
<1>. QED BY <1>2, <1>3, <1>4, OutStays

LEMMA EventStages ==
  ASSUME SentInv, NEW t \in Threads, job[t].call = "event"
  PROVE  job[t].stage \in {"listing", "fanning", "posting"} \cup Settling
BY DEF SentInv, Good, Placed

LEMMA HandlerOrderly ==
  ASSUME SentInv, NEW t \in Threads, Orderly(t), Records, AllOut, Handler(t),
         \A u \in Threads \ {t} : job'[u] = job[u]
  PROVE  Orderly(t)' /\ Records' /\ AllOut'
<1>1. TypeInv
  BY DEF SentInv
<1>2. ASSUME SameStates, UNCHANGED rows
      PROVE  Records'
  BY <1>1, <1>2, SameRecords
<1>3. CASE List(t)
  BY <1>2, <1>3, ListOrderly, OutStays
<1>4. CASE FanOver(t)
  BY <1>2, <1>4, ClosingOrderly, FanOverOut
<1>5. CASE \E s \in job[t].todo : Fan(t, s)
  BY <1>2, <1>5, FanOrderly, OutStays
<1>6. CASE (\E answer \in Answers : Post(t, answer)) \/ FoldRead(t) \/ RetryRequire(t)
  <2>1. UNCHANGED rows
    BY <1>6, PostSigns, FoldReadMove, RetryRequireMove DEF records
  <2>. QED BY <1>2, <1>6, <2>1, AttemptOrderly, OutStays
<1>7. CASE StoreDelivery(t)
  BY <1>7, AttemptOrderly, StoreRecords, OutStays
<1>8. CASE FoldWrite(t)
  BY <1>2, <1>8, FoldWriteOrderly, OutStays
<1>9. CASE CountRead(t) \/ CountWrite(t)
  BY <1>2, <1>9, CountOrderly, OutStays
<1>10. CASE ConfirmRotation(t) \/ RotateWrite(t)
  <2>1. UNCHANGED events /\ job[t].stage \in {"confirming", "rotating"}
    BY <1>10, ConfirmMove, RotateWriteMove
  <2>2. job[t].call # "event"
    BY <2>1, EventStages DEF Settling
  <2>. QED BY <1>2, <1>10, <2>1, <2>2, ClosingOrderly, OutStays
<1>11. CASE Recount(t) \/ RecountWrite(t)
  <2>1. job[t].call # "event"
    BY <1>1, <1>11, RecountMove, RecountWriteMove, EventStages DEF Settling
  <2>. QED BY <1>2, <1>11, <2>1, RecountOrderly, OutStays
<1>12. CASE SubscribeWrite(t)
  <2>1. job[t].call # "event"
    BY <1>1, <1>12, SubscribeWriteMove DEF TypeInv, CallsFit, Fits
  <2>. QED BY <1>12, <2>1, SubscribeOrderly, OutStays
<1>13. CASE RetireHook(t) \/ \E s \in job[t].todo : RetireNext(t, s)
  <2>1. job[t].call # "event"
    BY <1>1, <1>13, RetireHookMove, RetireNextMove DEF Orderly
  <2>. QED BY <1>13, <2>1, RetireOrderly, OutStays
<1>. QED
  BY <1>3, <1>4, <1>5, <1>6, <1>7, <1>8, <1>9, <1>10, <1>11, <1>12, <1>13, Zenon DEF Handler

LEMMA OrderStep ==
  ASSUME OrderInv, [Next]_vars
  PROVE  OrderInv'
<1>1. SentInv /\ SentInv'
  BY SentStep DEF OrderInv
<1>2. SUFFICES ASSUME ~disturbed'
               PROVE  (Alone /\ Records /\ AllOut /\ \A t \in Threads : Orderly(t))'
  BY <1>1 DEF OrderInv
<1>3. CASE UNCHANGED vars
  <2>1. ~disturbed
    BY <1>2, <1>3 DEF disturbed, vars, history
  <2>2. Alone /\ Records /\ AllOut /\ \A t \in Threads : Orderly(t)
    BY <2>1 DEF OrderInv
  <2>3. Alone' /\ Records' /\ \A t \in Threads : Orderly(t)'
    BY <1>3, <2>2 DEF Alone, Serving, Records, NoOrphan, RowsNamed, Kept, Orderly, Sending, Under,
                      vars, records
  <2>4. AllOut'
    BY <1>3, <2>2, Zenon DEF AllOut, Serving, vars, records
  <2>. QED BY <2>3, <2>4
<1>4. CASE Crash
  <2>1. crashes' = crashes + 1 /\ crashes \in Nat
    BY <1>1, <1>4, BoundAssumption DEF Crash, SentInv, TypeInv, DataOK
  <2>. QED BY <1>2, <2>1 DEF disturbed
<1>5. ASSUME NEW t \in Threads, Begins(t) \/ Handler(t)
      PROVE  (Alone /\ Records /\ AllOut /\ \A u \in Threads : Orderly(u))'
  <2>1. /\ ~disturbed /\ Alone'
        /\ \A u \in Threads \ {t} : job[u].stage = "idle" /\ job'[u] = job[u]
    BY <1>1, <1>2, <1>5, Turn DEF OrderInv
  <2>2. Records /\ AllOut /\ Orderly(t)
    BY <2>1 DEF OrderInv
  <2>3. \A u \in Threads \ {t} : Orderly(u)'
    BY <2>1, IdleOrderly
  <2>4. Orderly(t)' /\ Records' /\ AllOut'
    BY <1>1, <1>5, <2>1, <2>2, BeginsOrderly, BeginsOut, HandlerOrderly
  <2>. QED BY <2>1, <2>3, <2>4
<1>. QED BY <1>3, <1>4, <1>5, NextCases

LEMMA InitOrder == Init => OrderInv
<1>. SUFFICES ASSUME Init
              PROVE  OrderInv
  OBVIOUS
<1>1. Records
  <2>1. \A h \in Hooks : hooks[h].state # "retired"
    BY DEF Init, NewHook
  <2>2. \A s \in DOMAIN subs : HookOf[s] \in Hooks
    BY InitSent, HooksOf DEF SentInv, TypeInv, DataOK
  <2>3. NoOrphan
    BY <2>1, <2>2 DEF NoOrphan, Kept
  <2>4. RowsNamed
    BY DEF Init, RowsNamed
  <2>. QED BY <2>3, <2>4 DEF Records
<1>2. AllOut
  BY DEF Init, AllOut
<1>3. \A t \in Threads : Orderly(t)
  BY IdleStage DEF Init, Orderly, Sending
<1>. QED BY <1>1, <1>2, <1>3, InitSent, InitAlone DEF OrderInv

(* No fan-out of a call served alone stops half way: the webhook of what it *)
(* is about to send to was not retired, because nothing is left under one   *)
(* that is.                                                                 *)
THEOREM FanOutCorrect == Spec => []FanOutGoesThrough
<1>1. OrderInv => FanOutGoesThrough
  BY Zenon DEF OrderInv, FanOutGoesThrough, AllOut, Serving, quiet
<1>. QED BY <1>1, InitOrder, OrderStep, PTL DEF Spec

-----------------------------------------------------------------------------
(* The counters.  Served alone, a call writes back a counter it has just    *)
(* read, so each shows what was counted by now.                             *)

Balanced ==
  /\ \A s \in Kept : subs[s].deliveries = CountedFor(s) /\ subs[s].skipped = SkipsFor(s)
  /\ \A s \in Subs \ DOMAIN subs : CountedFor(s) = 0 /\ SkipsFor(s) = 0
  /\ \A h \in Hooks : hooks[h].deliveries = CountedTo(h)

Copies(t) ==
  /\ job[t].stage = "folded" => \A s \in Subs : s = job[t].sub => job[t].base = subs[s]
  /\ job[t].stage = "counted" =>
       \A h \in Hooks : h = HookOf[job[t].sub] => job[t].line.deliveries = hooks[h].deliveries

EvenInv ==
  /\ TallyInv /\ OrderInv
  /\ ~disturbed => Balanced /\ \A t \in Threads : Copies(t)

LEMMA OtherCopies ==
  ASSUME NEW t, job'[t].stage \notin {"folded", "counted"}
  PROVE  Copies(t)'
BY DEF Copies

(* No subscription comes back. *)
GoneStay == Kept' \cap DOMAIN subs \subseteq Kept

LEMMA GoneHandler ==
  ASSUME SentInv, NEW t \in Threads, Orderly(t), Records, Handler(t)
  PROVE  GoneStay
<1>1. TypeInv
  BY DEF SentInv
<1>2. ASSUME SameStates
      PROVE  GoneStay
  BY <1>2 DEF SameStates, GoneStay
<1>3. CASE List(t) \/ FanOver(t) \/ \E s \in job[t].todo : Fan(t, s)
  BY <1>2, <1>3, ListOrderly, ClosingOrderly, FanOrderly
<1>4. CASE (\E answer \in Answers : Post(t, answer)) \/ StoreDelivery(t) \/ FoldRead(t)
           \/ RetryRequire(t)
  BY <1>2, <1>4, AttemptOrderly
<1>5. CASE FoldWrite(t) \/ CountRead(t) \/ CountWrite(t)
  BY <1>2, <1>5, FoldWriteOrderly, CountOrderly
<1>6. CASE ConfirmRotation(t) \/ RotateWrite(t) \/ Recount(t) \/ RecountWrite(t)
  BY <1>2, <1>6, ClosingOrderly, RecountOrderly
<1>7. CASE SubscribeWrite(t)
  BY <1>1, <1>7, SubscribeWriteMove DEF GoneStay
<1>8. CASE RetireHook(t)
  BY <1>1, <1>8, RetireHookMove DEF GoneStay, Kept
<1>9. CASE \E s \in job[t].todo : RetireNext(t, s)
  BY <1>1, <1>9, RetireNextMove DEF GoneStay, Kept, Leaves
<1>. QED
  BY <1>3, <1>4, <1>5, <1>6, <1>7, <1>8, <1>9, Zenon DEF Handler

LEMMA GoneBegins ==
  ASSUME TypeInv, NEW t \in Threads, Begins(t)
  PROVE  GoneStay
<1>1. ASSUME UNCHANGED subs
      PROVE  GoneStay
  BY <1>1 DEF GoneStay, Kept
<1>2. CASE \E s \in DOMAIN subs : \/ Unsubscribe(t, s)
                                  \/ \E state \in {"live", "paused"} : PauseSubscription(t, s, state)
  BY <1>2, EditMove DEF GoneStay
<1>3. CASE \E interest \in Interests : RecordEvent(t, interest)
  BY <1>1, <1>3, RecordEventMove
<1>4. CASE \E h \in Hooks, state \in {"live", "paused"} : PauseWebhook(t, h, state)
  BY <1>1, <1>4, PauseWebhookMove
<1>5. CASE \/ \E r \in DOMAIN rows : Retry(t, r)
           \/ \E h \in Hooks : Rotate(t, h) \/ Retire(t, h)
           \/ Subscribe(t)
  BY <1>1, <1>5, RetryMove, RotateMove, RetireMove, SubscribeMove DEF records
<1>. QED BY <1>2, <1>3, <1>4, <1>5, Zenon DEF Begins

(* The counters and what they may show move together, or not at all. *)
LEMMA PlainEven ==
  ASSUME TypeInv, TypeInv', IsFiniteSet(Serving), Balanced, NEW t \in Threads, Plain(t), GoneStay
  PROVE  Balanced' /\ Copies(t)'
<1>1. Level
  BY PlainLevel
<1>2. KeepsTotals /\ Aside(job'[t])
  BY DEF Plain
<1>3. DOMAIN subs \subseteq Subs /\ DOMAIN subs' \subseteq Subs
  BY DEF TypeInv, DataOK
<1>4. ASSUME NEW s \in Kept'
      PROVE  subs'[s].deliveries = CountedFor(s)' /\ subs'[s].skipped = SkipsFor(s)'
  <2>1. s \in DOMAIN subs' /\ s \in Subs
    BY <1>3, <1>4 DEF Kept
  <2>2. CASE s \in DOMAIN subs
    <3>1. s \in Kept
      BY <1>4, <2>2 DEF GoneStay
    <3>2. subs'[s].deliveries = subs[s].deliveries /\ subs'[s].skipped = subs[s].skipped
      BY <1>2, <2>2 DEF KeepsTotals
    <3>3. CountedFor(s)' = CountedFor(s) /\ SkipsFor(s)' = SkipsFor(s)
      BY <1>1, <2>1 DEF Level
    <3>. QED BY <3>1, <3>2, <3>3 DEF Balanced
  <2>3. CASE s \notin DOMAIN subs
    <3>1. subs'[s].deliveries = 0 /\ subs'[s].skipped = 0
      BY <1>2, <2>1, <2>3 DEF KeepsTotals
    <3>2. CountedFor(s)' = CountedFor(s) /\ SkipsFor(s)' = SkipsFor(s)
      BY <1>1, <2>1 DEF Level
    <3>3. CountedFor(s) = 0 /\ SkipsFor(s) = 0
      BY <2>1, <2>3 DEF Balanced
    <3>. QED BY <3>1, <3>2, <3>3
  <2>. QED BY <2>2, <2>3
<1>5. ASSUME NEW s \in Subs \ DOMAIN subs'
      PROVE  CountedFor(s)' = 0 /\ SkipsFor(s)' = 0
  <2>1. s \notin DOMAIN subs
    BY <1>2 DEF KeepsTotals
  <2>2. CountedFor(s)' = CountedFor(s) /\ SkipsFor(s)' = SkipsFor(s)
    BY <1>1 DEF Level
  <2>3. CountedFor(s) = 0 /\ SkipsFor(s) = 0
    BY <2>1 DEF Balanced
  <2>. QED BY <2>2, <2>3
<1>6. ASSUME NEW h \in Hooks
      PROVE  hooks'[h].deliveries = CountedTo(h)'
  <2>1. CountedTo(h)' = CountedTo(h)
    BY <1>1 DEF Level
  <2>2. hooks'[h].deliveries = hooks[h].deliveries
    BY <1>2 DEF KeepsTotals
  <2>3. hooks[h].deliveries = CountedTo(h)
    BY DEF Balanced
  <2>. QED BY <2>1, <2>2, <2>3
<1>7. Balanced'
  BY <1>4, <1>5, <1>6 DEF Balanced
<1>8. job'[t].stage \notin {"folded", "counted"}
  BY <1>2 DEF Aside
<1>. QED BY <1>7, <1>8, OtherCopies

LEMMA LevelEven ==
  ASSUME Balanced, Level, UNCHANGED <<hooks, subs>>, DOMAIN subs \subseteq Subs
  PROVE  Balanced'
<1>1. Kept' = Kept
  BY DEF Kept
<1>2. \A s \in Kept : s \in Subs
  BY DEF Kept
<1>3. \A s \in Kept : subs'[s].deliveries = CountedFor(s)' /\ subs'[s].skipped = SkipsFor(s)'
  BY <1>2 DEF Balanced, Level
<1>4. \A s \in Subs \ DOMAIN subs' : CountedFor(s)' = 0 /\ SkipsFor(s)' = 0
  BY DEF Balanced, Level
<1>5. \A h \in Hooks : hooks'[h].deliveries = CountedTo(h)'
  BY DEF Balanced, Level
<1>. QED BY <1>1, <1>3, <1>4, <1>5 DEF Balanced

(* A POST, its row, and the reading of a counter. *)
LEMMA ReadEven ==
  ASSUME TallyInv, NEW t \in Threads, Orderly(t), Records, Balanced,
         \/ \E answer \in Answers : Post(t, answer)
         \/ StoreDelivery(t)
         \/ FoldRead(t) /\ job[t].sub \in Kept
         \/ CountRead(t)
  PROVE  Balanced' /\ Copies(t)'
<1>1. SentInv /\ TypeInv /\ IsFiniteSet(Serving)
  BY DEF TallyInv, SentInv
<1>2. DOMAIN subs \subseteq Subs
  BY <1>1 DEF TypeInv, DataOK
<1>3. CASE \E answer \in Answers : Post(t, answer)
  <2>1. Level
    BY <1>1, <1>3, PostLevel
  <2>2. UNCHANGED <<hooks, subs>> /\ job'[t].stage = "storing"
    BY <1>1, <1>3, PostMove
  <2>. QED BY <1>2, <2>1, <2>2, LevelEven, OtherCopies
<1>4. CASE StoreDelivery(t)
  <2>1. Level
    BY <1>1, <1>4, StoreLevel
  <2>2. UNCHANGED <<hooks, subs>> /\ job'[t].stage = "folding"
    BY <1>1, <1>4, StoreMove
  <2>. QED BY <1>2, <2>1, <2>2, LevelEven, OtherCopies
<1>5. CASE FoldRead(t) /\ job[t].sub \in Kept
  <2>1. Level
    BY <1>1, <1>5, FoldReadLevel
  <2>2. /\ UNCHANGED <<hooks, subs>> /\ job'[t].stage = "folded"
        /\ job'[t].base = subs[job[t].sub] /\ job'[t].sub = job[t].sub
    BY <1>1, <1>5, FoldReadMove DEF records, Follows
  <2>3. Copies(t)'
    BY <2>2 DEF Copies
  <2>. QED BY <1>2, <2>1, <2>2, <2>3, LevelEven
<1>6. CASE CountRead(t)
  <2>1. job[t].stage = "counting" /\ job[t].call = "event"
    BY <1>1, <1>6, CountReadMove
  <2>2. hooks[HookOf[job[t].sub]].state # "retired"
    BY <2>1 DEF Orderly, Sending, Records, NoOrphan
  <2>3. Level
    BY <1>1, <1>6, <2>2, CountReadLevel
  <2>4. /\ UNCHANGED <<hooks, subs>> /\ job'[t].stage = "counted"
        /\ job'[t].line = hooks[HookOf[job[t].sub]] /\ job'[t].sub = job[t].sub
    BY <1>1, <1>6, <2>2, CountReadMove DEF records, Follows
  <2>5. Copies(t)'
    BY <2>4 DEF Copies
  <2>. QED BY <1>2, <2>3, <2>4, <2>5, LevelEven
<1>. QED BY <1>3, <1>4, <1>5, <1>6

(* A retry of what is not subscribed any more ends without a count. *)
LEMMA DropEven ==
  ASSUME TallyInv, NEW t \in Threads, Orderly(t), Balanced, job' = [job EXCEPT ![t] = job'[t]],
         job[t].stage \in Sending, job[t].sub \notin Kept, job'[t] = IdleJob,
         UNCHANGED <<hooks, subs, rows, posts>>
  PROVE  Balanced' /\ Copies(t)'
<1>1. TypeInv /\ IsFiniteSet(Serving)
  BY DEF TallyInv, SentInv
<1>2. job[t].stage # "idle" /\ job[t].call # "event" /\ job[t].sub \in DOMAIN subs
  BY DEF Orderly, Sending
<1>3. /\ \A x \in Subs : x # job[t].sub => CountedFor(x)' = CountedFor(x) /\ SkipsFor(x)' = SkipsFor(x)
      /\ \A h \in Hooks : CountedTo(h)' = CountedTo(h)
  BY <1>1, <1>2, DropTally
<1>4. Kept' = Kept /\ Kept \subseteq Subs
  BY <1>1 DEF Kept, TypeInv, DataOK
<1>5. \A s \in Kept : subs'[s].deliveries = CountedFor(s)' /\ subs'[s].skipped = SkipsFor(s)'
  BY <1>3, <1>4 DEF Balanced
<1>6. \A s \in Subs \ DOMAIN subs' : CountedFor(s)' = 0 /\ SkipsFor(s)' = 0
  BY <1>2, <1>3 DEF Balanced
<1>7. \A h \in Hooks : hooks'[h].deliveries = CountedTo(h)'
  BY <1>3 DEF Balanced
<1>8. Balanced'
  BY <1>4, <1>5, <1>6, <1>7 DEF Balanced
<1>. QED BY <1>8, IdleStage, OtherCopies

LEMMA FoldEven ==
  ASSUME TallyInv, NEW t \in Threads, Balanced, Copies(t), FoldWrite(t), job[t].sub \in Kept
  PROVE  Balanced' /\ Copies(t)'
<1>1. SentInv /\ TypeInv /\ IsFiniteSet(Serving)
  BY DEF TallyInv, SentInv
<1>2. /\ UNCHANGED hooks /\ job[t].stage = "folded" /\ job[t].sub \in Subs
      /\ job[t].answer \in Answers \cup Withheld /\ DOMAIN subs' = DOMAIN subs
      /\ \A s \in DOMAIN subs : /\ subs'[s].state = subs[s].state
                                /\ s # job[t].sub => subs'[s] = subs[s]
      /\ job[t].answer \in Withheld =>
           /\ subs'[job[t].sub].skipped = job[t].base.skipped + 1
           /\ subs'[job[t].sub].deliveries = subs[job[t].sub].deliveries
      /\ job[t].answer \in Answers =>
           /\ subs'[job[t].sub].deliveries = job[t].base.deliveries + 1
           /\ subs'[job[t].sub].skipped = subs[job[t].sub].skipped
      /\ AfterCount(t)
  BY <1>1, FoldWriteMove
<1>3. job[t].base = subs[job[t].sub]
  BY <1>2 DEF Copies
<1>4. /\ \A x \in Subs :
           /\ x # job[t].sub => CountedFor(x)' = CountedFor(x) /\ SkipsFor(x)' = SkipsFor(x)
           /\ x = job[t].sub /\ job[t].answer \in Answers =>
                CountedFor(x)' = CountedFor(x) + 1 /\ SkipsFor(x)' = SkipsFor(x)
           /\ x = job[t].sub /\ job[t].answer \in Withheld =>
                SkipsFor(x)' = SkipsFor(x) + 1 /\ CountedFor(x)' = CountedFor(x)
      /\ \A h \in Hooks : CountedTo(h)' = CountedTo(h)
  BY <1>1, FoldWriteTally
<1>5. Kept' = Kept /\ Kept \subseteq Subs /\ Kept \subseteq DOMAIN subs
  BY <1>1, <1>2 DEF Kept, TypeInv, DataOK
<1>6. ASSUME NEW s \in Kept
      PROVE  subs'[s].deliveries = CountedFor(s)' /\ subs'[s].skipped = SkipsFor(s)'
  <2>1. subs[s].deliveries = CountedFor(s) /\ subs[s].skipped = SkipsFor(s) /\ s \in Subs
    BY <1>5 DEF Balanced
  <2>2. CASE s # job[t].sub
    BY <1>2, <1>4, <1>5, <2>1, <2>2
  <2>3. CASE s = job[t].sub /\ job[t].answer \in Answers
    BY <1>2, <1>3, <1>4, <2>1, <2>3
  <2>4. CASE s = job[t].sub /\ job[t].answer \in Withheld
    BY <1>2, <1>3, <1>4, <2>1, <2>4
  <2>. QED BY <1>2, <2>2, <2>3, <2>4
<1>7. \A s \in Subs \ DOMAIN subs' : CountedFor(s)' = 0 /\ SkipsFor(s)' = 0
  BY <1>2, <1>4, <1>5 DEF Balanced
<1>8. \A h \in Hooks : hooks'[h].deliveries = CountedTo(h)'
  BY <1>2, <1>4 DEF Balanced
<1>9. Balanced'
  BY <1>5, <1>6, <1>7, <1>8 DEF Balanced
<1>10. job'[t].stage \notin {"folded", "counted"}
  BY <1>2, IdleStage DEF AfterCount, GoesOn
<1>. QED BY <1>9, <1>10, OtherCopies

LEMMA CountEven ==
  ASSUME TallyInv, NEW t \in Threads, Orderly(t), Records, Balanced, Copies(t), CountWrite(t)
  PROVE  Balanced' /\ Copies(t)'
<1>1. SentInv /\ TypeInv /\ IsFiniteSet(Serving)
  BY DEF TallyInv, SentInv
<1>2. /\ UNCHANGED subs /\ job[t].stage = "counted" /\ job[t].call = "event"
      /\ job[t].sub \in Subs
  BY <1>1, CountWriteMove
<1>3. hooks[HookOf[job[t].sub]].state # "retired"
  BY <1>2 DEF Orderly, Sending, Records, NoOrphan
<1>4. job[t].answer \in Answers /\ HookOf[job[t].sub] \in Hooks
  BY <1>2, HooksOf DEF TallyInv, Fresh
<1>5. /\ \A g \in Hooks : g # HookOf[job[t].sub] => hooks'[g].deliveries = hooks[g].deliveries
      /\ hooks'[HookOf[job[t].sub]].deliveries = job[t].line.deliveries + 1
      /\ GoesOn(job[t], job'[t])
  BY <1>1, <1>3, CountWriteMove
<1>6. job[t].line.deliveries = hooks[HookOf[job[t].sub]].deliveries
  BY <1>2, <1>4 DEF Copies
<1>7. /\ \A x \in Subs : CountedFor(x)' = CountedFor(x) /\ SkipsFor(x)' = SkipsFor(x)
      /\ \A h \in Hooks :
           /\ h = HookOf[job[t].sub] => CountedTo(h)' = CountedTo(h) + 1
           /\ h # HookOf[job[t].sub] => CountedTo(h)' = CountedTo(h)
  BY <1>1, <1>3, <1>4, CountWriteTally
<1>8. \A h \in Hooks : hooks'[h].deliveries = CountedTo(h)'
  BY <1>4, <1>5, <1>6, <1>7 DEF Balanced
<1>9. Kept' = Kept /\ Kept \subseteq Subs
  BY <1>1, <1>2 DEF Kept, TypeInv, DataOK
<1>10. \A s \in Kept : subs'[s].deliveries = CountedFor(s)' /\ subs'[s].skipped = SkipsFor(s)'
  BY <1>2, <1>7, <1>9 DEF Balanced
<1>11. \A s \in Subs \ DOMAIN subs' : CountedFor(s)' = 0 /\ SkipsFor(s)' = 0
  BY <1>2, <1>7 DEF Balanced
<1>12. Balanced'
  BY <1>8, <1>9, <1>10, <1>11 DEF Balanced
<1>. QED BY <1>5, <1>12, OtherCopies DEF GoesOn

LEMMA HandlerEven ==
  ASSUME TallyInv, TypeInv', NEW t \in Threads, Orderly(t), Records, Balanced, Copies(t),
         Handler(t)
  PROVE  Balanced' /\ Copies(t)'
<1>1. SentInv /\ TypeInv /\ IsFiniteSet(Serving)
  BY DEF TallyInv, SentInv
<1>2. CASE ~Counting(t)
  BY <1>1, <1>2, PlainHandler, GoneHandler, PlainEven
<1>3. CASE (FoldRead(t) \/ FoldWrite(t)) /\ job[t].sub \notin Kept
  BY <1>1, <1>3, FoldReadMove, FoldWriteMove, DropEven DEF records, history, Sending
<1>4. CASE (\E answer \in Answers : Post(t, answer)) \/ StoreDelivery(t) \/ CountRead(t)
           \/ (FoldRead(t) /\ job[t].sub \in Kept)
  BY <1>4, ReadEven
<1>5. CASE FoldWrite(t) /\ job[t].sub \in Kept
  BY <1>5, FoldEven
<1>6. CASE CountWrite(t)
  BY <1>6, CountEven
<1>. QED BY <1>2, <1>3, <1>4, <1>5, <1>6, Zenon DEF Counting

LEMMA EvenStep ==
  ASSUME EvenInv, [Next]_vars
  PROVE  EvenInv'
<1>1. TallyInv /\ TallyInv' /\ OrderInv /\ OrderInv'
  BY TallyStep, OrderStep DEF EvenInv
<1>2. SentInv /\ TypeInv /\ TypeInv' /\ IsFiniteSet(Serving)
  BY <1>1 DEF TallyInv, SentInv
<1>3. SUFFICES ASSUME ~disturbed'
               PROVE  (Balanced /\ \A t \in Threads : Copies(t))'
  BY <1>1 DEF EvenInv
<1>4. CASE UNCHANGED vars
  <2>1. ~disturbed
    BY <1>3, <1>4 DEF disturbed, vars, history
  <2>2. Balanced /\ \A t \in Threads : Copies(t)
    BY <2>1 DEF EvenInv
  <2>3. \A x : /\ Uncounted(x)' = Uncounted(x) /\ Unskipped(x)' = Unskipped(x)
               /\ Untold(x)' = Untold(x) /\ SentTo(x)' = SentTo(x)
               /\ SkippedFor(x)' = SkippedFor(x)
    BY <1>4 DEF Uncounted, Unskipped, Untold, Serving, SentTo, SkippedFor, vars, records
  <2>4. Level
    BY <1>4, <2>3 DEF Level, CountedFor, SkipsFor, CountedTo, vars, history
  <2>5. Balanced'
    BY <1>2, <1>4, <2>2, <2>4, LevelEven DEF vars, records, TypeInv, DataOK
  <2>. QED BY <1>4, <2>2, <2>5 DEF Copies, vars, records
<1>5. CASE Crash
  <2>1. crashes' = crashes + 1 /\ crashes \in Nat
    BY <1>2, <1>5, BoundAssumption DEF Crash, TypeInv, DataOK
  <2>. QED BY <1>3, <2>1 DEF disturbed
<1>6. ASSUME NEW t \in Threads, Begins(t) \/ Handler(t)
      PROVE  (Balanced /\ \A u \in Threads : Copies(u))'
  <2>1. ~disturbed /\ \A u \in Threads \ {t} : job[u].stage = "idle" /\ job'[u] = job[u]
    BY <1>1, <1>2, <1>3, <1>6, Turn DEF OrderInv
  <2>2. Balanced /\ Copies(t) /\ Records /\ Orderly(t)
    BY <1>1, <2>1 DEF EvenInv, OrderInv
  <2>3. \A u \in Threads \ {t} : Copies(u)'
    BY <2>1, OtherCopies
  <2>4. Balanced' /\ Copies(t)'
    <3>1. CASE Begins(t)
      BY <1>2, <2>2, <3>1, PlainStart, GoneBegins, PlainEven
    <3>2. CASE Handler(t)
      BY <1>1, <1>2, <2>2, <3>2, HandlerEven
    <3>. QED BY <1>6, <3>1, <3>2
  <2>. QED BY <2>3, <2>4
<1>. QED BY <1>4, <1>5, <1>6, NextCases

-----------------------------------------------------------------------------
(* The count of a webhook's live subscriptions is right, unless the call    *)
(* that changed them is about to write it.                                  *)

Right(h) == hooks[h].subscriptions = Cardinality(Live \cap Under(h))

Recounting(t, h) == job[t].stage \in {"recounting", "recounted"} /\ job[t].hook = h

Tallied(t) ==
  job[t].stage = "recounted" => job[t].count = Cardinality(Live \cap Under(job[t].hook))

Told == \A h \in Hooks : Right(h) \/ \E t \in Threads : Recounting(t, h)

LiveInv ==
  /\ OrderInv
  /\ ~disturbed => Told /\ \A t \in Threads : Tallied(t)

OnlyOne(t) ==
  \A u \in Threads \ {t} : job[u].stage = "idle" /\ job'[u] = job[u]

LEMMA OnlyTold ==
  ASSUME NEW t \in Threads, OnlyOne(t), Told, NEW h \in Hooks, ~Right(h)
  PROVE  Recounting(t, h)
BY DEF OnlyOne, Told, Recounting

LEMMA OthersTallied ==
  ASSUME NEW t \in Threads, OnlyOne(t), Tallied(t)'
  PROVE  \A u \in Threads : Tallied(u)'
BY DEF OnlyOne, Tallied

LEMMA LiveKept ==
  ASSUME NEW t \in Threads, OnlyOne(t), Told, SameLive,
         job[t].stage \notin {"recounting", "recounted"}, job'[t].stage # "recounted"
  PROVE  Told' /\ Tallied(t)'
<1>1. \A h \in Hooks : Right(h)
  BY OnlyTold DEF Recounting
<1>2. \A h \in Hooks : Right(h)'
  BY <1>1 DEF Right, SameLive, Under
<1>. QED BY <1>2 DEF Told, Tallied

(* A call has changed what is live under one webhook. *)
LEMMA LiveMoves ==
  ASSUME NEW t \in Threads, OnlyOne(t), Told, UNCHANGED hooks,
         job[t].stage \notin {"recounting", "recounted"}, job'[t].stage = "recounting",
         \A h \in Hooks : h # job'[t].hook => Live' \cap Under(h) = Live \cap Under(h)
  PROVE  Told' /\ Tallied(t)'
<1>1. \A h \in Hooks : Right(h)
  BY OnlyTold DEF Recounting
<1>2. ASSUME NEW h \in Hooks
      PROVE  Right(h)' \/ Recounting(t, h)'
  <2>1. CASE h = job'[t].hook
    BY <2>1 DEF Recounting
  <2>2. CASE h # job'[t].hook
    <3>1. (Live \cap Under(h))' = Live \cap Under(h)
      BY <2>2 DEF Under
    <3>. QED BY <1>1, <3>1 DEF Right
  <2>. QED BY <2>1, <2>2
<1>. QED BY <1>2 DEF Told, Tallied

LEMMA RecountTold ==
  ASSUME SentInv, NEW t \in Threads, OnlyOne(t), Told, Orderly(t), Recount(t)
  PROVE  Told' /\ Tallied(t)'
<1>1. TypeInv
  BY DEF SentInv
<1>2. /\ UNCHANGED records /\ job[t].stage = "recounting" /\ job[t].hook \in Hooks
      /\ \/ hooks[job[t].hook].state = "retired"
         \/ /\ job'[t].stage = "recounted" /\ Retains(job[t], job'[t])
            /\ job'[t].count = Cardinality(Live \cap Under(job[t].hook))
  BY <1>1, RecountMove
<1>3. /\ job'[t].stage = "recounted" /\ job'[t].hook = job[t].hook
      /\ job'[t].count = Cardinality(Live \cap Under(job[t].hook))
  BY <1>2 DEF Orderly, Retains
<1>4. Live' = Live /\ UNCHANGED hooks
  BY <1>2 DEF Live, records
<1>5. \A h \in Hooks : Right(h) => Right(h)'
  BY <1>4 DEF Right, Under
<1>6. \A h \in Hooks : h = job[t].hook => Recounting(t, h)'
  BY <1>3 DEF Recounting
<1>7. \A h \in Hooks : ~Right(h) => h = job[t].hook
  BY OnlyTold DEF Recounting
<1>8. Told'
  BY <1>5, <1>6, <1>7 DEF Told
<1>9. Tallied(t)'
  BY <1>3, <1>4 DEF Tallied, Under
<1>. QED BY <1>8, <1>9

LEMMA RecountWriteTold ==
  ASSUME SentInv, NEW t \in Threads, OnlyOne(t), Told, Orderly(t), Tallied(t), RecountWrite(t)
  PROVE  Told' /\ Tallied(t)'
<1>1. TypeInv
  BY DEF SentInv
<1>2. job[t].stage = "recounted" /\ hooks[job[t].hook].state # "retired" /\ job[t].hook \in Hooks
  BY <1>1, RecountWriteMove DEF Orderly
<1>3. /\ UNCHANGED subs
      /\ hooks'[job[t].hook].subscriptions = job[t].count
      /\ \A h \in Hooks : h # job[t].hook => hooks'[h].subscriptions = hooks[h].subscriptions
      /\ RecountDone(t)
  BY <1>1, <1>2, RecountWriteMove
<1>4. Live' = Live
  BY <1>3 DEF Live
<1>5. job[t].count = Cardinality(Live \cap Under(job[t].hook))
  BY <1>2 DEF Tallied
<1>6. \A h \in Hooks : ~Right(h) => h = job[t].hook
  BY OnlyTold DEF Recounting
<1>7. \A h \in Hooks : h # job[t].hook => Right(h)'
  BY <1>3, <1>4, <1>6 DEF Right, Under
<1>8. \A h \in Hooks : h = job[t].hook => Right(h)'
  BY <1>3, <1>4, <1>5 DEF Right, Under
<1>9. job'[t].stage # "recounted"
  BY <1>3, IdleStage DEF RecountDone
<1>. QED BY <1>7, <1>8, <1>9 DEF Told, Tallied

LEMMA ChangeTold ==
  ASSUME SentInv, NEW t \in Threads, OnlyOne(t), Told, Orderly(t),
         SubscribeWrite(t) \/ \E s \in job[t].todo : RetireNext(t, s)
  PROVE  Told' /\ Tallied(t)'
<1>1. TypeInv
  BY DEF SentInv
<1>2. CASE SubscribeWrite(t)
  <2>1. /\ UNCHANGED hooks /\ job[t].stage = "subscribing" /\ job'[t].stage = "recounting"
        /\ job'[t].hook = job[t].hook /\ Live' = Live \cup {Len(subs) + 1}
    BY <1>1, <1>2, SubscribeWriteMove
  <2>2. job'[t].hook = HookOf[Len(subs) + 1]
    BY <2>1 DEF Orderly
  <2>3. \A h \in Hooks : h # job'[t].hook => Live' \cap Under(h) = Live \cap Under(h)
    BY <2>1, <2>2 DEF Under
  <2>. QED BY <2>1, <2>3, LiveMoves
<1>3. ASSUME NEW s \in job[t].todo, RetireNext(t, s)
      PROVE  Told' /\ Tallied(t)'
  <2>1. /\ UNCHANGED hooks /\ job[t].stage = "retiring"
        /\ \/ job'[t] = IdleJob /\ UNCHANGED subs
           \/ Leaves(s) /\ job'[t].stage = "recounting" /\ job'[t].hook = job[t].hook
    BY <1>1, <1>3, RetireNextMove
  <2>2. CASE job'[t] = IdleJob /\ UNCHANGED subs
    <3>1. SameLive
      BY <2>1, <2>2 DEF SameLive, Live
    <3>. QED BY <2>1, <2>2, <3>1, IdleStage, LiveKept
  <2>3. CASE Leaves(s) /\ job'[t].stage = "recounting" /\ job'[t].hook = job[t].hook
    <3>1. HookOf[s] = job[t].hook
      BY <2>1 DEF Orderly, Under
    <3>2. \A h \in Hooks : h # job'[t].hook => Live' \cap Under(h) = Live \cap Under(h)
      BY <2>3, <3>1 DEF Leaves, Under
    <3>. QED BY <2>1, <2>3, <3>2, LiveMoves
  <2>. QED BY <2>1, <2>2, <2>3
<1>. QED BY <1>2, <1>3

LEMMA SameLiveRecords ==
  ASSUME UNCHANGED <<hooks, subs>>
  PROVE  SameLive
BY DEF SameLive, Live

LEMMA HandlerTold ==
  ASSUME SentInv, NEW t \in Threads, OnlyOne(t), Told, Orderly(t), Tallied(t), Handler(t)
  PROVE  Told' /\ Tallied(t)'
<1>1. TypeInv
  BY DEF SentInv
<1>2. ASSUME SameLive, job[t].stage \notin {"recounting", "recounted"}, job'[t].stage # "recounted"
      PROVE  Told' /\ Tallied(t)'
  BY <1>2, LiveKept
<1>3. CASE List(t) \/ FanOver(t) \/ \E s \in job[t].todo : Fan(t, s)
  BY <1>2, <1>3, ListMove, FanOverMove, FanMove, SameLiveRecords, IdleStage DEF records
<1>4. CASE (\E answer \in Answers : Post(t, answer)) \/ StoreDelivery(t) \/ FoldRead(t)
           \/ RetryRequire(t) \/ CountRead(t)
  BY <1>2, <1>4, PostSigns, StoreFollows, FoldReadMove, RetryRequireMove, CountReadMove,
     SameLiveRecords, IdleStage DEF records
<1>5. CASE FoldWrite(t)
  <2>1. /\ UNCHANGED hooks /\ job[t].stage = "folded"
        /\ \/ job'[t] = IdleJob /\ UNCHANGED subs
           \/ /\ DOMAIN subs' = DOMAIN subs
              /\ \A s \in DOMAIN subs : subs'[s].state = subs[s].state
              /\ AfterCount(t)
    BY <1>5, FoldWriteMove
  <2>2. SameLive
    BY <2>1 DEF SameLive, Live
  <2>3. job'[t].stage # "recounted"
    BY <2>1, IdleStage DEF AfterCount, GoesOn
  <2>. QED BY <1>2, <2>1, <2>2, <2>3
<1>6. CASE CountWrite(t)
  <2>1. /\ UNCHANGED subs /\ job[t].stage = "counted"
        /\ \/ UNCHANGED hooks /\ job'[t] = IdleJob
           \/ /\ \A g \in Hooks : hooks'[g].subscriptions = hooks[g].subscriptions
              /\ GoesOn(job[t], job'[t])
    BY <1>6, CountWriteMove
  <2>2. SameLive
    BY <2>1 DEF SameLive, Live
  <2>3. job'[t].stage # "recounted"
    BY <2>1, IdleStage DEF GoesOn
  <2>. QED BY <1>2, <2>1, <2>2, <2>3
<1>7. CASE ConfirmRotation(t) \/ RotateWrite(t) \/ RetireHook(t)
  BY <1>1, <1>2, <1>7, ConfirmMove, RotateWriteMove, RetireHookMove, IdleStage
<1>8. CASE Recount(t) \/ RecountWrite(t)
  BY <1>8, RecountTold, RecountWriteTold
<1>9. CASE SubscribeWrite(t) \/ \E s \in job[t].todo : RetireNext(t, s)
  BY <1>9, ChangeTold
<1>. QED
  BY <1>3, <1>4, <1>5, <1>6, <1>7, <1>8, <1>9, Zenon DEF Handler

LEMMA BeginsTold ==
  ASSUME SentInv, NEW t \in Threads, OnlyOne(t), Told, Begins(t)
  PROVE  Told' /\ Tallied(t)'
<1>1. TypeInv
  BY DEF SentInv
<1>2. job[t].stage = "idle"
  BY <1>1, BeginsTurn DEF Start
<1>3. ASSUME SameLive, job'[t].stage # "recounted"
      PROVE  Told' /\ Tallied(t)'
  BY <1>2, <1>3, LiveKept
<1>4. CASE \E s \in DOMAIN subs : \/ Unsubscribe(t, s)
                                  \/ \E state \in {"live", "paused"} : PauseSubscription(t, s, state)
  <2>1. PICK s \in DOMAIN subs :
          Unsubscribe(t, s) \/ \E state \in {"live", "paused"} : PauseSubscription(t, s, state)
    BY <1>4
  <2>2. /\ UNCHANGED hooks /\ job'[t].stage = "recounting" /\ job'[t].hook = HookOf[s]
        /\ Live' \ {s} = Live \ {s}
    BY <1>1, <2>1, EditMove
  <2>3. \A h \in Hooks : h # job'[t].hook => Live' \cap Under(h) = Live \cap Under(h)
    BY <2>2 DEF Under
  <2>. QED BY <1>2, <2>2, <2>3, LiveMoves
<1>5. CASE \E interest \in Interests : RecordEvent(t, interest)
  BY <1>1, <1>3, <1>5, RecordEventMove, SameLiveRecords
<1>6. CASE \E h \in Hooks, state \in {"live", "paused"} : PauseWebhook(t, h, state)
  BY <1>1, <1>3, <1>6, PauseWebhookMove, IdleStage DEF SameAll
<1>7. CASE \/ \E r \in DOMAIN rows : Retry(t, r)
           \/ \E h \in Hooks : Rotate(t, h) \/ Retire(t, h)
           \/ Subscribe(t)
  BY <1>1, <1>3, <1>7, RetryMove, RotateMove, RetireMove, SubscribeMove, SameLiveRecords
     DEF records
<1>. QED BY <1>4, <1>5, <1>6, <1>7, Zenon DEF Begins

LEMMA LiveStep ==
  ASSUME LiveInv, [Next]_vars
  PROVE  LiveInv'
<1>1. OrderInv /\ OrderInv' /\ SentInv
  BY OrderStep DEF LiveInv, OrderInv
<1>2. SUFFICES ASSUME ~disturbed'
               PROVE  (Told /\ \A t \in Threads : Tallied(t))'
  BY <1>1 DEF LiveInv
<1>3. CASE UNCHANGED vars
  <2>1. ~disturbed
    BY <1>2, <1>3 DEF disturbed, vars, history
  <2>2. Told /\ \A t \in Threads : Tallied(t)
    BY <2>1 DEF LiveInv
  <2>3. Live' = Live /\ UNCHANGED <<hooks, job>>
    BY <1>3 DEF Live, vars, records
  <2>. QED BY <2>2, <2>3 DEF Told, Tallied, Right, Recounting, Under
<1>4. CASE Crash
  <2>1. crashes' = crashes + 1 /\ crashes \in Nat
    BY <1>1, <1>4, BoundAssumption DEF Crash, SentInv, TypeInv, DataOK
  <2>. QED BY <1>2, <2>1 DEF disturbed
<1>5. ASSUME NEW t \in Threads, Begins(t) \/ Handler(t)
      PROVE  (Told /\ \A u \in Threads : Tallied(u))'
  <2>1. ~disturbed /\ OnlyOne(t)
    BY <1>1, <1>2, <1>5, Turn DEF OrderInv, OnlyOne
  <2>2. Told /\ Tallied(t) /\ Orderly(t)
    BY <1>1, <2>1 DEF LiveInv, OrderInv
  <2>3. Told' /\ Tallied(t)'
    BY <1>1, <1>5, <2>1, <2>2, BeginsTold, HandlerTold
  <2>. QED BY <2>1, <2>3, OthersTallied
<1>. QED BY <1>3, <1>4, <1>5, NextCases

LEMMA InitLive == Init => Told /\ \A t \in Threads : Tallied(t)
<1>. SUFFICES ASSUME Init
              PROVE  Told /\ \A t \in Threads : Tallied(t)
  OBVIOUS
<1>1. PICK n \in 0..Len(HookOf) :
        /\ subs = [s \in 1..n |-> NewSub]
        /\ hooks = [h \in Hooks |->
                     [NewHook EXCEPT !.subscriptions = Cardinality({s \in 1..n : HookOf[s] = h})]]
  BY DEF Init
<1>2. Subs = 1..Len(HookOf) /\ Len(HookOf) \in Nat
  BY HookAssumption DEF Subs
<1>3. Live = 1..n
  BY <1>1 DEF Live, NewSub
<1>4. ASSUME NEW h \in Hooks
      PROVE  Right(h)
  <2>1. {s \in 1..n : HookOf[s] = h} = Live \cap Under(h)
    BY <1>2, <1>3 DEF Under
  <2>2. hooks[h].subscriptions = Cardinality({s \in 1..n : HookOf[s] = h})
    BY <1>1 DEF NewHook
  <2>. QED BY <2>1, <2>2 DEF Right
<1>5. \A t \in Threads : Tallied(t)
  BY IdleStage DEF Init, Tallied
<1>. QED BY <1>4, <1>5 DEF Told

LEMMA InitEven == Init => Balanced /\ \A t \in Threads : Copies(t)
<1>. SUFFICES ASSUME Init
              PROVE  Balanced /\ \A t \in Threads : Copies(t)
  OBVIOUS
<1>1. \A t \in Threads : Copies(t)
  BY IdleStage DEF Init, Copies
<1>2. Serving = {}
  BY InitAlone
<1>3. \A x : /\ Uncounted(x) = {} /\ Unskipped(x) = {} /\ Untold(x) = {}
             /\ SentTo(x) = {} /\ SkippedFor(x) = {}
  BY <1>2 DEF Init, Uncounted, Unskipped, Untold, SentTo, SkippedFor
<1>4. Cardinality({}) = 0
  BY FS_EmptySet
<1>5. \A s \in Subs : CountedFor(s) = 0 /\ SkipsFor(s) = 0
  <2>1. \A s \in Subs : posts[s] = 0
    BY DEF Init
  <2>2. \A x : /\ Cardinality(Uncounted(x)) = 0 /\ Cardinality(Unskipped(x)) = 0
               /\ Cardinality(SkippedFor(x)) = 0
    BY <1>3, <1>4
  <2>. QED BY <2>1, <2>2 DEF CountedFor, SkipsFor
<1>6. \A h \in Hooks : CountedTo(h) = 0
  BY <1>3, <1>4 DEF CountedTo
<1>7. \A h \in Hooks : hooks[h].deliveries = 0
  BY DEF Init, NewHook
<1>8. \A s \in DOMAIN subs : s \in Subs /\ subs[s].deliveries = 0 /\ subs[s].skipped = 0
  <2>1. DOMAIN subs \subseteq Subs
    BY InitSent DEF SentInv, TypeInv, DataOK
  <2>. QED BY <2>1 DEF Init, NewSub
<1>. QED BY <1>1, <1>5, <1>6, <1>7, <1>8 DEF Balanced, Kept

(* The rows that count for a webhook are those of its subscriptions. *)
LEMMA SentUnder ==
  ASSUME TypeInv, NEW h
  PROVE  UNION {SentFor(s) : s \in Under(h)} = SentTo(h)
<1>1. \A r \in DOMAIN rows : rows[r].sub \in Subs
  <2>1. rows \in Seq(Rows)
    BY DEF TypeInv, DataOK
  <2>2. \A r \in DOMAIN rows : rows[r] \in Rows
    BY <2>1
  <2>. QED BY <2>2 DEF Rows
<1>. QED BY <1>1 DEF SentFor, SentTo, Under

(* Whatever overlaps, no counter tells of more deliveries than were sent;   *)
(* and of calls served one at a time, each agrees with the rows.            *)
THEOREM CountersCorrect == Spec => []CountersAddUp
<1>1. ASSUME TallyInv
      PROVE  /\ \A s \in DOMAIN subs : subs[s].deliveries <= posts[s]
             /\ \A h \in Hooks : hooks[h].deliveries
                                   <= Cardinality(UNION {SentFor(s) : s \in Under(h)})
  <2>1. TypeInv /\ IsFiniteSet(Serving)
    BY <1>1 DEF TallyInv, SentInv
  <2>2. ASSUME NEW s \in DOMAIN subs
        PROVE  subs[s].deliveries <= posts[s]
    <3>1. s \in Subs /\ subs[s].deliveries \in Nat
      BY <2>1, CountTypes
    <3>2. posts[s] \in Nat /\ Cardinality(Uncounted(s)) \in Nat
      BY <2>1, <3>1, Countable, TallyTypes
    <3>3. subs[s].deliveries <= CountedFor(s)
      BY <1>1 DEF TallyInv
    <3>. QED BY <3>1, <3>2, <3>3 DEF CountedFor
  <2>3. ASSUME NEW h \in Hooks
        PROVE  hooks[h].deliveries <= Cardinality(SentTo(h))
    <3>1. hooks[h].deliveries \in Nat
      BY <2>1, CountTypes
    <3>2. Cardinality(SentTo(h)) \in Nat /\ Cardinality(Untold(h)) \in Nat
      BY <2>1, Countable
    <3>3. hooks[h].deliveries <= CountedTo(h)
      BY <1>1 DEF TallyInv
    <3>. QED BY <3>1, <3>2, <3>3 DEF CountedTo
  <2>. QED BY <2>1, <2>2, <2>3, SentUnder
<1>2. ASSUME EvenInv, LiveInv, quiet, ~disturbed
      PROVE  /\ \A s \in Kept : /\ subs[s].deliveries = posts[s]
                                /\ subs[s].skipped = Cardinality(SkippedFor(s))
             /\ \A h \in Hooks :
                  /\ hooks[h].deliveries = Cardinality(UNION {SentFor(s) : s \in Under(h)})
                  /\ hooks[h].subscriptions = Cardinality(Live \cap Under(h))
  <2>1. TypeInv /\ IsFiniteSet(Serving) /\ Balanced /\ Told
    BY <1>2 DEF EvenInv, LiveInv, TallyInv, SentInv
  <2>2. Serving = {}
    BY <1>2 DEF quiet, Serving
  <2>3. \A x : Uncounted(x) = {} /\ Unskipped(x) = {} /\ Untold(x) = {}
    BY <2>2 DEF Uncounted, Unskipped, Untold
  <2>4. Cardinality({}) = 0
    BY FS_EmptySet
  <2>5. ASSUME NEW s \in Kept
        PROVE  subs[s].deliveries = posts[s] /\ subs[s].skipped = Cardinality(SkippedFor(s))
    <3>1. s \in Subs
      BY <2>1 DEF Kept, TypeInv, DataOK
    <3>2. posts[s] \in Nat /\ Cardinality(SkippedFor(s)) \in Nat
      BY <2>1, <3>1, Countable, TallyTypes
    <3>3. CountedFor(s) = posts[s] /\ SkipsFor(s) = Cardinality(SkippedFor(s))
      BY <2>3, <2>4, <3>2 DEF CountedFor, SkipsFor
    <3>. QED BY <2>1, <3>3 DEF Balanced
  <2>6. ASSUME NEW h \in Hooks
        PROVE  /\ hooks[h].deliveries = Cardinality(SentTo(h))
               /\ hooks[h].subscriptions = Cardinality(Live \cap Under(h))
    <3>1. Cardinality(SentTo(h)) \in Nat
      BY <2>1, Countable
    <3>2. CountedTo(h) = Cardinality(SentTo(h))
      BY <2>3, <2>4, <3>1 DEF CountedTo
    <3>3. Right(h)
      BY <1>2, <2>1 DEF Told, Recounting, quiet
    <3>. QED BY <2>1, <3>2, <3>3 DEF Balanced, Right
  <2>. QED BY <2>1, <2>5, <2>6, SentUnder
<1>3. EvenInv /\ LiveInv => CountersAddUp
  BY <1>1, <1>2 DEF EvenInv, CountersAddUp
<1>4. Init => EvenInv /\ LiveInv
  BY InitEven, InitLive, InitTally, InitOrder DEF EvenInv, LiveInv
<1>5. EvenInv /\ LiveInv /\ [Next]_vars => EvenInv' /\ LiveInv'
  BY EvenStep, LiveStep
<1>. QED BY <1>3, <1>4, <1>5, PTL DEF Spec
=============================================================================
