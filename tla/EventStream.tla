---------------------------- MODULE EventStream ----------------------------
(***************************************************************************)
(* Activity event stream of backend/dsr/event_stream/: an event of a room  *)
(* is recorded, fanned out to the subscriptions as webhook POSTs, and a    *)
(* POST that may be tried again is retried later from its delivery row.    *)
(*                                                                         *)
(* A queue worker, or a user, calls record_event, retry_delivery, the      *)
(* edits of webhooks and subscriptions and rotate_key; every call these    *)
(* make on the store, and every POST, is an action of its own, and what    *)
(* was read before it is kept in the thread's job.  The subscriber behind  *)
(* a webhook may give any answer.                                          *)
(*                                                                         *)
(* A subscription is its position in the order of creation, an event and a *)
(* delivery the position of their rows, a signing secret its generation.   *)
(* Left out: the waits of the retry ladder (a retry may be asked for at    *)
(* any time), test events and the creation of webhooks.                    *)
(***************************************************************************)
EXTENDS Integers, Sequences, FiniteSets

CONSTANTS
  Threads,    \* threads serving requests
  HookOf,     \* the webhook of each subscription, in the order of creation
  Interests,  \* what an event may be to the subscriptions
  MaxRetries, \* rungs of the retry ladder
  MaxEvents,  \* bound on the events
  MaxCalls,   \* bound on the calls
  MaxMishaps  \* bound on the crashes, and the calls begun during another one

Subs == DOMAIN HookOf
Hooks == {HookOf[s] : s \in Subs}

(* An event to a subscription: its filter matches, or excludes it, or the   *)
(* type or the room is not one it asked for.                                *)
ASSUME HookAssumption == HookOf \in Seq(Hooks) /\ Hooks # {}
ASSUME InterestAssumption == Interests \subseteq [Subs -> {"match", "excluded", "other"}]
ASSUME BoundAssumption ==
  \A bound \in {MaxRetries, MaxEvents, MaxCalls, MaxMishaps} : bound \in Nat

VARIABLES
  hooks,   \* the webhook records
  subs,    \* the subscription records
  events,  \* the event records
  rows,    \* the delivery records
  job,     \* the call each thread is serving (in memory)
  calls,   \* the calls so far
  posts,   \* history: the POSTs made for each subscription
  steady,  \* history: per event the subscriptions on the path all the time
  proven,  \* history: the secret of each webhook's last accepted delivery
  crashes,
  raced    \* history: the calls begun while another one was served

records == <<hooks, subs, events, rows>>
history == <<posts, steady, proven, crashes>>
vars == <<records, job, calls, history, raced>>

-----------------------------------------------------------------------------
(* Records. *)

(* `previous` is the secret before the last rotation, 0 for none. *)
HookRows == [state : {"live", "paused", "retired"}, secret : Nat, previous : Nat,
             confirmed : BOOLEAN, subscriptions : Nat, deliveries : Nat, failures : Nat]
SubRows == [state : {"live", "paused", "gone"}, deliveries : Nat, skipped : Nat,
            filtered : Nat, failures : Nat]
Events == [interest : Interests, deliveries : Nat, skipped : Nat, updated : BOOLEAN]
States == {"delivered", "retrying", "failed", "skipped"}
Rows == [event : Nat, sub : Subs, state : States, attempts : Nat]

NewHook == [state |-> "live", secret |-> 1, previous |-> 0, confirmed |-> FALSE,
            subscriptions |-> 0, deliveries |-> 0, failures |-> 0]
NewSub == [state |-> "live", deliveries |-> 0, skipped |-> 0, filtered |-> 0, failures |-> 0]

(* What a POST is answered: accepted, worth trying again (also no answer at *)
(* all), refused for good.  Or nothing is sent: someone is paused, or the   *)
(* filter does not match.                                                   *)
Answers == {"ok", "again", "no"}
Withheld == {"paused", "excluded"}

Calls == {"event", "retry", "edit", "subscribe", "rotate", "retire"}
Stages == {"idle", "listing", "fanning", "posting", "storing", "folding", "folded",
           "counting", "counted", "confirming", "requiring", "rotating", "recounting", "recounted",
           "subscribing", "retiring"}

(* `todo` are the subscriptions the call still has to go through and `off`  *)
(* those listed as paused, `seen` the webhooks already sent to, `line` and  *)
(* `base` the copies read of a webhook and a subscription, `row` and        *)
(* `attempts` the delivery that is retried.                                 *)
Jobs == [call : Calls, stage : Stages, event : Nat, todo : SUBSET Subs, off : SUBSET Subs,
         seen : SUBSET Hooks, sub : Nat, line : HookRows, base : SubRows, answer : Answers \cup Withheld,
         row : Nat, attempts : Nat, taken : Nat, left : Nat, count : Nat, hook : Hooks]
IdleJob == [call |-> "edit", stage |-> "idle", event |-> 0, todo |-> {}, off |-> {},
            seen |-> {}, sub |-> 0, line |-> NewHook, base |-> NewSub, answer |-> "ok",
            row |-> 0, attempts |-> 0, taken |-> 0, left |-> 0, count |-> 0,
            hook |-> CHOOSE h \in Hooks : TRUE]

TypeOK ==
  /\ hooks \in [Hooks -> HookRows]
  /\ subs \in Seq(SubRows) /\ DOMAIN subs \subseteq Subs
  /\ events \in Seq(Events)
  /\ rows \in Seq(Rows) /\ \A r \in DOMAIN rows : rows[r].state = "retrying" => rows[r].attempts \in 1..MaxRetries
  /\ job \in [Threads -> Jobs]
  /\ calls \in 0..MaxCalls
  /\ posts \in [Subs -> Nat]
  /\ steady \in Seq(SUBSET Subs)
  /\ proven \in [Hooks -> Nat]
  /\ crashes \in 0..MaxMishaps
  /\ raced \in 0..MaxMishaps

(* Some subscriptions were made before. *)
Init ==
  /\ \E n \in 0..Len(HookOf) :
       /\ subs = [s \in 1..n |-> NewSub]
       /\ hooks = [h \in Hooks |->
                    [NewHook EXCEPT !.subscriptions = Cardinality({s \in 1..n : HookOf[s] = h})]]
  /\ events = <<>>
  /\ rows = <<>>
  /\ job = [t \in Threads |-> IdleJob]
  /\ calls = 0
  /\ posts = [s \in Subs |-> 0]
  /\ steady = <<>>
  /\ proven = [h \in Hooks |-> 0]
  /\ crashes = 0
  /\ raced = 0

Kept == {s \in DOMAIN subs : subs[s].state # "gone"}
Live == {s \in DOMAIN subs : subs[s].state = "live"}
Under(h) == {s \in Subs : HookOf[s] = h}

-----------------------------------------------------------------------------
(* A call starts when its thread is free. *)

Busy(t) == \E u \in Threads \ {t} : job[u].stage # "idle"

Start(t, call) ==
  /\ job[t].stage = "idle"
  /\ calls < MaxCalls /\ calls' = calls + 1
  /\ Busy(t) => raced < MaxMishaps
  /\ raced' = IF Busy(t) THEN raced + 1 ELSE raced
  /\ job' = [job EXCEPT ![t] = call]

Goes(t, next) == job' = [job EXCEPT ![t] = next] /\ UNCHANGED <<calls, raced>>

(* The call is answered, or an exception goes out of it. *)
Over(t) == Goes(t, IdleJob)

(* Subscriptions that leave the delivery path are steady for no event. *)
OffPath(gone) == steady' = [e \in DOMAIN steady |-> steady[e] \ gone]

-----------------------------------------------------------------------------
(* record_event: the row, the list of the candidates, the fan-out. *)

Steadily(interest) == {s \in Live : interest[s] = "match" /\ hooks[HookOf[s]].state = "live"}

RecordEvent(t, interest) ==
  /\ Len(events) < MaxEvents
  /\ Start(t, [IdleJob EXCEPT !.call = "event", !.stage = "listing", !.event = Len(events) + 1])
  /\ events' = Append(events, [interest |-> interest, deliveries |-> 0, skipped |-> 0,
                               updated |-> FALSE])
  /\ steady' = Append(steady, Steadily(interest))
  /\ UNCHANGED <<hooks, subs, rows, posts, proven, crashes>>

List(t) ==
  /\ job[t].stage = "listing"
  /\ Goes(t, [job[t] EXCEPT
       !.stage = "fanning",
       !.todo = {s \in Kept : events[job[t].event].interest[s] # "other"},
       !.off = Kept \ Live])
  /\ UNCHANGED <<records, history>>

(* Why the subscription is not sent to, if it is not. *)
Reason(t, s) ==
  IF hooks[HookOf[s]].state = "paused" \/ s \in job[t].off THEN {"paused"}
  ELSE IF events[job[t].event].interest[s] = "excluded" THEN {"excluded"}
  ELSE {}

Through(t, s) == [job[t] EXCEPT !.stage = "fanning", !.todo = @ \ {s}]

(* Deliberate fault: a webhook counts as sent to once a subscription of it  *)
(* was withheld.                                                            *)
RepeatsListed(t, s) ==
  \E other \in Kept \ (job[t].todo \cup {s}) :
    HookOf[other] = HookOf[s] /\ events[job[t].event].interest[other] # "other"

(* Another subscription of the webhook has been sent the event. *)
Repeats(t, s) == HookOf[s] \in job[t].seen

(* The next candidate: its webhook is read, and one that is gone ends the   *)
(* call.  The listing is by last update, which every counter moves: any     *)
(* order.                                                                   *)
Fan(t, s) ==
  LET h == HookOf[s]
  IN /\ job[t].stage = "fanning" /\ s \in job[t].todo
     /\ \/ hooks[h].state = "retired" /\ Over(t)
        \/ /\ hooks[h].state # "retired"
           /\ \E reason \in Reason(t, s) :
                Goes(t, [job[t] EXCEPT !.stage = "storing", !.sub = s, !.answer = reason])
        \/ /\ hooks[h].state # "retired" /\ Reason(t, s) = {} /\ Repeats(t, s)
           /\ Goes(t, Through(t, s))
        \/ /\ hooks[h].state # "retired" /\ Reason(t, s) = {} /\ ~Repeats(t, s)
           /\ Goes(t, [job[t] EXCEPT !.stage = "posting", !.sub = s, !.line = hooks[h],
                                     !.attempts = 0, !.seen = @ \cup {h}])
     /\ UNCHANGED <<records, history>>

FanOver(t) ==
  /\ job[t].stage = "fanning" /\ job[t].todo = {}
  /\ events' = [events EXCEPT ![job[t].event] =
                 [@ EXCEPT !.deliveries = job[t].taken, !.skipped = job[t].left,
                           !.updated = TRUE]]
  /\ Over(t)
  /\ UNCHANGED <<hooks, subs, rows, history>>

-----------------------------------------------------------------------------
(* One attempt, its row, and the counters it moves. *)

(* Deliberate fault: the ladder has one rung too many. *)
StateAfterLong(answer, attempt) ==
  CASE answer \in Withheld -> "skipped"
    [] answer = "ok" -> "delivered"
    [] answer = "again" /\ attempt <= MaxRetries + 1 -> "retrying"
    [] OTHER -> "failed"

StateAfter(answer, attempt) ==
  CASE answer \in Withheld -> "skipped"
    [] answer = "ok" -> "delivered"
    [] answer = "again" /\ attempt <= MaxRetries -> "retrying"
    [] OTHER -> "failed"

Post(t, answer) ==
  /\ job[t].stage = "posting"
  /\ Goes(t, [job[t] EXCEPT !.stage = "storing", !.answer = answer,
                            !.attempts = IF @ > MaxRetries THEN @ ELSE @ + 1])
  /\ posts' = [posts EXCEPT ![job[t].sub] = @ + 1]
  /\ proven' = IF answer = "ok" THEN [proven EXCEPT ![HookOf[job[t].sub]] = job[t].line.secret]
               ELSE proven
  /\ UNCHANGED <<records, steady, crashes>>

(* A row of its own for a first attempt, the same row for a retry. *)
StoreDelivery(t) ==
  LET body == [event |-> job[t].event, sub |-> job[t].sub, attempts |-> job[t].attempts,
               state |-> StateAfter(job[t].answer, job[t].attempts)]
  IN /\ job[t].stage = "storing"
     /\ rows' = IF job[t].call = "retry" THEN [rows EXCEPT ![job[t].row] = body]
                ELSE Append(rows, body)
     /\ Goes(t, [job[t] EXCEPT !.stage = "folding"])
     /\ UNCHANGED <<hooks, subs, events, history>>

(* record_outcome of a subscription: read, and write what changed. *)
FoldRead(t) ==
  LET s == job[t].sub
  IN /\ job[t].stage = "folding"
     /\ \/ s \notin Kept /\ Over(t)
        \/ s \in Kept /\ Goes(t, [job[t] EXCEPT !.stage = "folded", !.base = subs[s]])
     /\ UNCHANGED <<records, history>>

Folded(row, base, answer) ==
  IF answer \in Withheld
  THEN [row EXCEPT !.skipped = base.skipped + 1,
                   !.filtered = IF answer = "excluded" THEN base.filtered + 1 ELSE @]
  ELSE [row EXCEPT !.deliveries = base.deliveries + 1,
                   !.failures = IF answer = "ok" THEN @ ELSE base.failures + 1]

(* Deliberate fault: a retry counts towards the webhook's totals too. *)
CountedEveryTime(t) == job[t].answer \notin Withheld

(* _fold_outcome: only the first attempt counts towards the webhook. *)
Counted(t) == job[t].answer \notin Withheld /\ job[t].call = "event"

(* Deliberate fault: a retry that was refused closes the overlap too. *)
ConfirmsAnyway(t) == job[t].line.previous # 0

(* A retry that was accepted closes the overlap of a rotation, as told by   *)
(* the copy of the webhook it was sent with.                                *)
Confirms(t) == job[t].answer = "ok" /\ job[t].line.previous # 0

(* What follows the counters: the webhook's, the next candidate, or the end *)
(* of a retry.                                                              *)
AfterFold(t) ==
  \/ Counted(t) /\ Goes(t, [job[t] EXCEPT !.stage = "counting"])
  \/ /\ ~Counted(t) /\ job[t].call = "event"
     /\ Goes(t, [Through(t, job[t].sub) EXCEPT !.left = @ + 1])
  \/ /\ ~Counted(t) /\ job[t].call = "retry" /\ Confirms(t)
     /\ Goes(t, [job[t] EXCEPT !.stage = "confirming"])
  \/ /\ ~Counted(t) /\ job[t].call = "retry" /\ ~Confirms(t) /\ Over(t)

FoldWrite(t) ==
  LET s == job[t].sub
  IN /\ job[t].stage = "folded"
     /\ \/ s \notin Kept /\ Over(t) /\ UNCHANGED subs
        \/ /\ s \in Kept
           /\ subs' = [subs EXCEPT ![s] = Folded(@, job[t].base, job[t].answer)]
           /\ AfterFold(t)
     /\ UNCHANGED <<hooks, events, rows, history>>

(* record_delivery of the webhook, likewise. *)
CountRead(t) ==
  LET h == HookOf[job[t].sub]
  IN /\ job[t].stage = "counting"
     /\ \/ hooks[h].state = "retired" /\ Over(t)
        \/ /\ hooks[h].state # "retired"
           /\ Goes(t, [job[t] EXCEPT !.stage = "counted", !.line = hooks[h]])
     /\ UNCHANGED <<records, history>>

CountWrite(t) ==
  LET h == HookOf[job[t].sub]
      failed == IF job[t].answer = "ok" THEN 0 ELSE 1
  IN /\ job[t].stage = "counted"
     /\ \/ hooks[h].state = "retired" /\ Over(t) /\ UNCHANGED hooks
        \/ /\ hooks[h].state # "retired"
           /\ hooks' = [hooks EXCEPT ![h].deliveries = job[t].line.deliveries + 1,
                                     ![h].failures = job[t].line.failures + failed]
           /\ Goes(t, [Through(t, job[t].sub) EXCEPT !.taken = @ + 1])
     /\ UNCHANGED <<subs, events, rows, history>>

-----------------------------------------------------------------------------
(* retry_delivery: read the row, read the webhook, one more attempt.        *)
(* Neither a pause nor the state of the subscription is looked at.          *)

Retry(t, r) ==
  /\ rows[r].state = "retrying"
  /\ Start(t, [IdleJob EXCEPT !.call = "retry", !.stage = "requiring", !.row = r,
                              !.event = rows[r].event, !.sub = rows[r].sub,
                              !.attempts = rows[r].attempts])
  /\ UNCHANGED <<records, history>>

RetryRequire(t) ==
  LET h == HookOf[job[t].sub]
  IN /\ job[t].stage = "requiring"
     /\ \/ hooks[h].state = "retired" /\ Over(t)
        \/ /\ hooks[h].state # "retired"
           /\ Goes(t, [job[t] EXCEPT !.stage = "posting", !.line = hooks[h]])
     /\ UNCHANGED <<records, history>>

ConfirmRotation(t) ==
  LET h == HookOf[job[t].sub]
  IN /\ job[t].stage = "confirming"
     /\ hooks' = IF hooks[h].state = "retired" THEN hooks
                 ELSE [hooks EXCEPT ![h].confirmed = TRUE]
     /\ Over(t)
     /\ UNCHANGED <<subs, events, rows, history>>

-----------------------------------------------------------------------------
(* rotate_key; a fresh secret is one that was never used. *)

Rotate(t, h) ==
  /\ hooks[h].state # "retired"
  /\ Start(t, [IdleJob EXCEPT !.call = "rotate", !.stage = "rotating", !.hook = h,
                              !.line = hooks[h]])
  /\ UNCHANGED <<records, history>>

RotateWrite(t) ==
  LET h == job[t].hook
  IN /\ job[t].stage = "rotating"
     /\ hooks' = IF hooks[h].state = "retired" THEN hooks
                 ELSE [hooks EXCEPT ![h].secret = @ + 1, ![h].previous = job[t].line.secret,
                                    ![h].confirmed = FALSE]
     /\ Over(t)
     /\ UNCHANGED <<subs, events, rows, history>>

-----------------------------------------------------------------------------
(* The edits of webhooks and subscriptions. *)

(* update_webhook: a read whose result is not used, and one patch. *)
PauseWebhook(t, h, state) ==
  /\ hooks[h].state \in {"live", "paused"} \ {state}
  /\ Start(t, IdleJob)
  /\ hooks' = [hooks EXCEPT ![h].state = state]
  /\ OffPath(Under(h))
  /\ UNCHANGED <<subs, events, rows, posts, proven, crashes>>

Recounts(t, call, s) ==
  [IdleJob EXCEPT !.call = call, !.stage = "recounting", !.hook = HookOf[s]]

(* The update of a subscription: the patch, and the webhook's count. *)
PauseSubscription(t, s, state) ==
  /\ subs[s].state \in {"live", "paused"} \ {state}
  /\ Start(t, Recounts(t, "edit", s))
  /\ subs' = [subs EXCEPT ![s].state = state]
  /\ OffPath({s})
  /\ UNCHANGED <<hooks, events, rows, posts, proven, crashes>>

Unsubscribe(t, s) ==
  /\ s \in Kept
  /\ Start(t, Recounts(t, "edit", s))
  /\ subs' = [subs EXCEPT ![s].state = "gone"]
  /\ OffPath({s})
  /\ UNCHANGED <<hooks, events, rows, posts, proven, crashes>>

(* _count_subscriptions: the webhook and the list are read, and the count   *)
(* is written; a webhook that is gone is no error at the reading.           *)
RecountOver(t) ==
  IF job[t].call = "retire" THEN Goes(t, [job[t] EXCEPT !.stage = "retiring"]) ELSE Over(t)

Recount(t) ==
  LET h == job[t].hook
  IN /\ job[t].stage = "recounting"
     /\ \/ hooks[h].state = "retired" /\ RecountOver(t)
        \/ /\ hooks[h].state # "retired"
           /\ Goes(t, [job[t] EXCEPT !.stage = "recounted",
                                     !.count = Cardinality(Live \cap Under(h))])
     /\ UNCHANGED <<records, history>>

RecountWrite(t) ==
  LET h == job[t].hook
  IN /\ job[t].stage = "recounted"
     /\ \/ hooks[h].state = "retired" /\ Over(t) /\ UNCHANGED hooks
        \/ /\ hooks[h].state # "retired"
           /\ hooks' = [hooks EXCEPT ![h].subscriptions = job[t].count]
           /\ RecountOver(t)
     /\ UNCHANGED <<subs, events, rows, history>>

(* A new subscription: its webhook is required, then it is written.  Two    *)
(* are not created at once, so that a position is a subscription.           *)
Subscribe(t) ==
  LET s == Len(subs) + 1
  IN /\ s \in Subs /\ \A u \in Threads : job[u].call # "subscribe"
     /\ hooks[HookOf[s]].state # "retired"
     /\ Start(t, [IdleJob EXCEPT !.call = "subscribe", !.stage = "subscribing",
                                 !.hook = HookOf[s]])
     /\ UNCHANGED <<records, history>>

SubscribeWrite(t) ==
  /\ job[t].stage = "subscribing"
  /\ subs' = Append(subs, NewSub)
  /\ Goes(t, [job[t] EXCEPT !.call = "edit", !.stage = "recounting"])
  /\ UNCHANGED <<hooks, events, rows, history>>

-----------------------------------------------------------------------------
(* retire_webhook: everything under it is unsubscribed first. *)

(* Deliberate fault: what is paused is not unsubscribed. *)
RetireLive(t, h) ==
  /\ hooks[h].state # "retired"
  /\ Start(t, [IdleJob EXCEPT !.call = "retire", !.stage = "retiring", !.hook = h,
                              !.todo = Live \cap Under(h)])
  /\ UNCHANGED <<records, history>>

Retire(t, h) ==
  /\ hooks[h].state # "retired"
  /\ Start(t, [IdleJob EXCEPT !.call = "retire", !.stage = "retiring", !.hook = h,
                              !.todo = Kept \cap Under(h)])
  /\ UNCHANGED <<records, history>>

RetireNext(t, s) ==
  /\ job[t].stage = "retiring" /\ s \in job[t].todo
  /\ \/ s \notin Kept /\ Over(t) /\ UNCHANGED <<subs, steady>>
     \/ /\ s \in Kept
        /\ subs' = [subs EXCEPT ![s].state = "gone"]
        /\ OffPath({s})
        /\ Goes(t, [job[t] EXCEPT !.stage = "recounting", !.todo = @ \ {s}])
  /\ UNCHANGED <<hooks, events, rows, posts, proven, crashes>>

RetireHook(t) ==
  LET h == job[t].hook
  IN /\ job[t].stage = "retiring" /\ job[t].todo = {}
     /\ hooks' = [hooks EXCEPT ![h].state = "retired"]
     /\ OffPath(Under(h))
     /\ Over(t)
     /\ UNCHANGED <<subs, events, rows, posts, proven, crashes>>

-----------------------------------------------------------------------------

(* The process dies: the calls being served are gone. *)
Crash ==
  /\ crashes < MaxMishaps
  /\ \E t \in Threads : job[t].stage # "idle"
  /\ crashes' = crashes + 1
  /\ job' = [t \in Threads |-> IdleJob]
  /\ UNCHANGED <<records, calls, posts, steady, proven, raced>>

Handler(t) ==
  \/ List(t) \/ FanOver(t)
  \/ \E s \in job[t].todo : Fan(t, s) \/ RetireNext(t, s)
  \/ \E answer \in Answers : Post(t, answer)
  \/ StoreDelivery(t) \/ FoldRead(t) \/ FoldWrite(t) \/ CountRead(t) \/ CountWrite(t)
  \/ RetryRequire(t) \/ ConfirmRotation(t) \/ RotateWrite(t)
  \/ Recount(t) \/ RecountWrite(t) \/ SubscribeWrite(t) \/ RetireHook(t)

Next ==
  \/ \E t \in Threads, interest \in Interests : RecordEvent(t, interest)
  \/ \E t \in Threads, r \in DOMAIN rows : Retry(t, r)
  \/ \E t \in Threads, h \in Hooks : Rotate(t, h) \/ Retire(t, h)
  \/ \E t \in Threads, h \in Hooks, state \in {"live", "paused"} : PauseWebhook(t, h, state)
  \/ \E t \in Threads, s \in DOMAIN subs, state \in {"live", "paused"} :
       PauseSubscription(t, s, state)
  \/ \E t \in Threads, s \in DOMAIN subs : Unsubscribe(t, s)
  \/ \E t \in Threads : Subscribe(t) \/ Handler(t)
  \/ Crash

Spec == Init /\ [][Next]_vars

-----------------------------------------------------------------------------
(* Properties.  Two calls that overlap both write what they read, and the   *)
(* later write wins; what only holds of calls served one at a time, and to  *)
(* their end, says so.                                                      *)

quiet == \A t \in Threads : job[t].stage = "idle"
disturbed == raced > 0 \/ crashes > 0

Sent(e, h) == {r \in DOMAIN rows : /\ rows[r].event = e /\ HookOf[rows[r].sub] = h
                                   /\ rows[r].state # "skipped"}
SentFor(s) == {r \in DOMAIN rows : rows[r].sub = s /\ rows[r].state # "skipped"}
SkippedFor(s) == {r \in DOMAIN rows : rows[r].sub = s /\ rows[r].state = "skipped"}

(* An event goes to a webhook once, however many of its subscriptions match *)
(* it; and when its fan-out went through, to every webhook with a           *)
(* subscription that was on the path all the time, whichever others are     *)
(* paused, filtered out or edited meanwhile.                                *)
SentOncePerWebhook ==
  \A e \in DOMAIN events, h \in Hooks :
    /\ Cardinality(Sent(e, h)) <= 1
    /\ (events[e].updated /\ steady[e] \cap Under(h) # {}) => Sent(e, h) # {}

(* The counters an operator reads never tell of more deliveries than were   *)
(* sent, and of calls served one at a time they agree with the rows: each   *)
(* attempt counts for its subscription, only the first for the webhook,     *)
(* skips apart, and a webhook knows how many subscriptions are live.        *)
CountersAddUp ==
  /\ \A s \in DOMAIN subs : subs[s].deliveries <= posts[s]
  /\ \A h \in Hooks : hooks[h].deliveries
                        <= Cardinality(UNION {SentFor(s) : s \in Under(h)})
  /\ (quiet /\ ~disturbed) =>
       /\ \A s \in Kept : /\ subs[s].deliveries = posts[s]
                          /\ subs[s].skipped = Cardinality(SkippedFor(s))
       /\ \A h \in Hooks :
            /\ hooks[h].deliveries = Cardinality(UNION {SentFor(s) : s \in Under(h)})
            /\ hooks[h].subscriptions = Cardinality(Live \cap Under(h))

(* Served one at a time, no fan-out stops half way: a subscription that     *)
(* would end it, because its webhook is retired, is never listed, so every  *)
(* subscription asked for an event has its row or shares the webhook of one *)
(* it went to.                                                              *)
FanOutGoesThrough ==
  (quiet /\ ~disturbed) => \A e \in DOMAIN events : events[e].updated

(* One call at a time, the old signature is dropped only after a delivery   *)
(* that the new secret signed was accepted ("a delivery has succeeded under *)
(* the new secret", rotation_overlap).                                      *)
OverlapEndsWithDelivery ==
  ~disturbed => \A h \in Hooks : hooks[h].confirmed => proven[h] = hooks[h].secret
=============================================================================
