----------------------------- MODULE RoundRobin -----------------------------
(***************************************************************************)
(* Round-robin distribution of backend/dsr/round_robin/: init_simple opens *)
(* a route and chooses a member of the team, book turns the route into a   *)
(* booking and charges the member a credit, mark_no_show gives the credit  *)
(* back and cancel_booking releases the slot.                              *)
(*                                                                         *)
(* A handler runs in a thread and every call it makes on the store is an   *)
(* action of its own; the two blocks under store.db.transaction are one    *)
(* action each.  The reads of a call are kept in the thread's job: what a  *)
(* block writes is computed from them, not from the rows as they are then. *)
(*                                                                         *)
(* Ids are positions: a route, a booking or a no-show is the position of   *)
(* its row, a member its place in the team, a slot its place in the grid.  *)
(***************************************************************************)
EXTENDS Integers, Sequences, FiniteSets

CONSTANTS
  MemberCount,   \* members of the team
  SlotCount,     \* slots of the interval
  Weight,        \* Weight[m]: the declared weight of a member
  Calendars,     \* what a member's entry in the team record may say
  Threads,       \* threads serving requests
  NoShowPage,    \* no-show rows one list call returns (1000 in the code)
  MaxRoutes,     \* bound on the routes opened
  MaxEdits,      \* bound on the edits of the team
  MaxRaced       \* bound on the calls served once two calls have overlapped

Members == 1..MemberCount
Slots == 1..SlotCount

ASSUME CountAssumption == MemberCount \in Nat \ {0} /\ SlotCount \in Nat \ {0}
ASSUME TeamAssumption == /\ Calendars \subseteq [assignable : BOOLEAN, busy : SUBSET Slots]
                         /\ Weight \in [Members -> Nat]
ASSUME BoundAssumption == NoShowPage \in Nat /\ MaxRoutes \in Nat /\ MaxEdits \in Nat
                          /\ MaxRaced \in Nat

VARIABLES
  team,          \* the team's record: who is assignable, and when busy
  distribution,  \* the distribution's record: mode, cursor, cycle, credits
  routes,        \* the routing sessions
  bookings,
  no_shows,      \* the booking each no-show row names
  movements,     \* the credit movements
  job,           \* the call each thread is serving (in memory)
  edits,         \* how often the team was edited
  raced,         \* history: the calls started since two calls overlapped
  crowded        \* history: two routes were open at once

records == <<team, distribution, routes, bookings, no_shows, movements>>
vars == <<records, job, edits, raced, crowded>>

Entries == [consumed : Nat, turns : Nat, returned : Nat]
NoEntry == [consumed |-> 0, turns |-> 0, returned |-> 0]
Distributions == [mode : {"strict", "flexible"}, credit_back : BOOLEAN,
                  cursor : Nat, cycle : Nat, credits : [Members -> Entries]]
Routes == [state : {"open", "booked"}, chosen : Members, offered : SUBSET Slots, booking : Nat]
Bookings == [route : Nat, member : Members, slot : Slots,
             status : {"confirmed", "no_show", "cancelled"}]
Movements == [direction : {"consumed", "returned"}, member : Members, booking : Nat]

(* `body` is the distribution as the call read it, `member` whom it chose   *)
(* and `eligible` how many members it counted as assignable.                *)
Stages == {"idle", "opening", "booking", "choosing", "chosen", "missing", "listed", "returning",
           "cancelling"}
Jobs == [stage : Stages, route : Nat, slot : Nat, booking : Nat, member : Nat, eligible : Nat,
         body : Distributions]

Blank == [mode |-> "strict", credit_back |-> FALSE, cursor |-> 0, cycle |-> 0,
          credits |-> [m \in Members |-> NoEntry]]
IdleJob == [stage |-> "idle", route |-> 0, slot |-> 0, booking |-> 0, member |-> 0,
            eligible |-> 0, body |-> Blank]

TypeOK ==
  /\ team \in [Members -> Calendars]
  /\ distribution \in Distributions
  /\ routes \in Seq(Routes)
  /\ bookings \in Seq(Bookings)
  /\ no_shows \in Seq(Nat)
  /\ movements \in Seq(Movements)
  /\ job \in [Threads -> Jobs]
  /\ edits \in 0..MaxEdits
  /\ raced \in 0..MaxRaced
  /\ crowded \in BOOLEAN

(* create_team and create_distribution: validated, then one create each,    *)
(* with the cursor and cycle at zero and an empty ledger.                   *)
Init ==
  /\ team \in [Members -> Calendars]
  /\ \E mode \in {"strict", "flexible"}, credit_back \in BOOLEAN :
       distribution = [Blank EXCEPT !.mode = mode, !.credit_back = credit_back]
  /\ routes = <<>>
  /\ bookings = <<>>
  /\ no_shows = <<>>
  /\ movements = <<>>
  /\ job = [t \in Threads |-> IdleJob]
  /\ edits = 0
  /\ raced = 0
  /\ crowded = FALSE

-----------------------------------------------------------------------------
(* The calendars. *)

Assignable == {m \in Members : team[m].assignable}

(* free_members_at: the calendars as configured, and nothing else. *)
FreeAt(slot) == {m \in Assignable : slot \notin team[m].busy}

(* combined_window: a slot is on offer when somebody is free for it. *)
Offered == {slot \in Slots : FreeAt(slot) # {}}
FreeSlots(m) == IF m \in Assignable THEN Cardinality(Slots \ team[m].busy) ELSE 0

(* The first slot on offer: the candidates of a route are who is free then. *)
FirstOffered == CHOOSE s \in Offered : \A k \in Offered : s <= k

-----------------------------------------------------------------------------
(* selection.py: the member who takes the booking. *)

(* Lists of keys compared left to right. *)
Precedes(a, b) == \E i \in DOMAIN a : a[i] < b[i] /\ \A k \in 1..(i - 1) : a[k] = b[k]

(* Deliberate fault: the credits a member consumed do not count. *)
RankByOrder(body, m) == <<m>>

(* Strict looks at credits, then turns; flexible at the declared weight     *)
(* times the share of the free time, for which the free slots stand.        *)
Rank(body, m) ==
  LET entry == body.credits[m]
  IN IF body.mode = "strict" THEN <<entry.consumed, entry.turns, m>>
     ELSE <<-(Weight[m] * FreeSlots(m)), entry.consumed, m>>

(* select_member picks m among the candidates; there is exactly one such m  *)
(* unless there are no candidates, when the call is refused.                *)
Selects(body, candidates, m) ==
  /\ m \in candidates
  /\ \A n \in candidates \ {m} : Precedes(Rank(body, m), Rank(body, n))

-----------------------------------------------------------------------------
(* credits.py: the ledger on the distribution. *)

ApplyConsumption(credits, m) ==
  [credits EXCEPT ![m].consumed = @ + 1, ![m].turns = @ + 1]

(* Deliberate fault: the guard against an empty balance is gone. *)
MayReturnAlways(body, m) == body.credit_back

MayReturn(body, m) == body.credit_back /\ body.credits[m].consumed > 0

(* Deliberate fault: the credit is handed back but stays consumed. *)
ApplyReturnOnce(credits, m) == [credits EXCEPT ![m].returned = @ + 1]

ApplyReturn(credits, m) ==
  [credits EXCEPT ![m].consumed = @ - 1, ![m].returned = @ + 1]

(* advance: one position along the eligible members, a new cycle on a wrap. *)
Advance(body, eligible) ==
  IF eligible = 0 THEN [cursor |-> body.cursor, cycle |-> body.cycle]
  ELSE IF body.cursor + 1 >= eligible THEN [cursor |-> 0, cycle |-> body.cycle + 1]
       ELSE [cursor |-> body.cursor + 1, cycle |-> body.cycle]

-----------------------------------------------------------------------------
(* A call starts when its thread is free, and is over when it is free again. *)

overlapped == raced > 0

Start(t, call) ==
  /\ job[t].stage = "idle"
  /\ job' = [job EXCEPT ![t] = call]
  /\ raced < MaxRaced
  /\ raced' = IF overlapped \/ \E u \in Threads \ {t} : job[u].stage # "idle" THEN raced + 1 ELSE 0
  /\ UNCHANGED <<records, edits, crowded>>

Goes(t, next) ==
  /\ job' = [job EXCEPT ![t] = next]
  /\ UNCHANGED <<records, edits, raced, crowded>>

Done(t) == job' = [job EXCEPT ![t] = IdleJob]

(* An administrator edits one member of the team, by a PATCH of its record. *)
EditTeam(m, calendar) ==
  /\ edits < MaxEdits
  /\ team[m] # calendar
  /\ team' = [team EXCEPT ![m] = calendar]
  /\ edits' = edits + 1
  /\ UNCHANGED <<distribution, routes, bookings, no_shows, movements, job, raced, crowded>>

-----------------------------------------------------------------------------
(* init_simple: read the distribution, then the team, and open a route. *)

Open(t) ==
  /\ Len(routes) + Cardinality({u \in Threads : job[u].stage = "opening"}) < MaxRoutes
  /\ Start(t, [IdleJob EXCEPT !.stage = "opening", !.body = distribution])

IsOpen(i) == routes[i].state = "open"

OpenRoute(t) ==
  /\ job[t].stage = "opening"
  /\ Offered # {}
  /\ \E m \in Members :
       /\ Selects(job[t].body, FreeAt(FirstOffered), m)
       /\ routes' = Append(routes, [state |-> "open", chosen |-> m, offered |-> Offered,
                                    booking |-> 0])
  /\ crowded' = (crowded \/ \E i \in DOMAIN routes : IsOpen(i))
  /\ Done(t)
  /\ UNCHANGED <<team, distribution, bookings, no_shows, movements, edits, raced>>

(* Nobody free in the interval, or nobody assignable: nothing is written. *)
NotScheduled(t) ==
  /\ job[t].stage = "opening"
  /\ Offered = {}
  /\ Goes(t, IdleJob)

-----------------------------------------------------------------------------
(* book: the route, the distribution and the team are read, the free        *)
(* members counted again, and one transaction writes it all.                *)

(* Deliberate fault: a session that was booked already is not refused. *)
BookAgain(t, i, slot) ==
  /\ slot \in routes[i].offered
  /\ Start(t, [IdleJob EXCEPT !.stage = "booking", !.route = i, !.slot = slot])

Book(t, i, slot) ==
  /\ IsOpen(i)
  /\ slot \in routes[i].offered
  /\ Start(t, [IdleJob EXCEPT !.stage = "booking", !.route = i, !.slot = slot])

BookReadDistribution(t) ==
  /\ job[t].stage = "booking"
  /\ Goes(t, [job[t] EXCEPT !.stage = "choosing", !.body = distribution])

Candidates(t) ==
  LET chosen == routes[job[t].route].chosen
      free == FreeAt(job[t].slot)
  IN IF chosen \in free THEN {chosen} ELSE free \ {chosen}

(* The chosen member when free, or else next_candidate's. *)
BookChoose(t) ==
  /\ job[t].stage = "choosing"
  /\ \E m \in Members :
       /\ Selects(job[t].body, Candidates(t), m)
       /\ Goes(t, [job[t] EXCEPT !.stage = "chosen", !.member = m,
                                 !.eligible = Cardinality(Assignable)])

BookRefused(t) ==
  /\ job[t].stage = "choosing"
  /\ Candidates(t) = {}
  /\ Goes(t, IdleJob)

(* Deliberate fault: the credit is charged to the member the route chose,   *)
(* whoever took the booking.                                                *)
BookCommitChosen(t) ==
  LET i == job[t].route
      b == Len(bookings) + 1
      next == Advance(job[t].body, job[t].eligible)
  IN /\ job[t].stage = "chosen"
     /\ bookings' = Append(bookings, [route |-> i, member |-> job[t].member, slot |-> job[t].slot,
                                      status |-> "confirmed"])
     /\ distribution' = [distribution EXCEPT
          !.credits = ApplyConsumption(job[t].body.credits, routes[i].chosen),
          !.cursor = next.cursor, !.cycle = next.cycle]
     /\ routes' = [routes EXCEPT ![i].state = "booked", ![i].booking = b]
     /\ movements' = Append(movements, [direction |-> "consumed", member |-> job[t].member,
                                        booking |-> b])
     /\ Done(t)
     /\ UNCHANGED <<team, no_shows, edits, raced, crowded>>

(* Deliberate fault: the route is not closed with the booking. *)
BookCommitOpen(t) ==
  LET i == job[t].route
      b == Len(bookings) + 1
      next == Advance(job[t].body, job[t].eligible)
  IN /\ job[t].stage = "chosen"
     /\ bookings' = Append(bookings, [route |-> i, member |-> job[t].member, slot |-> job[t].slot,
                                      status |-> "confirmed"])
     /\ distribution' = [distribution EXCEPT
          !.credits = ApplyConsumption(job[t].body.credits, job[t].member),
          !.cursor = next.cursor, !.cycle = next.cycle]
     /\ movements' = Append(movements, [direction |-> "consumed", member |-> job[t].member,
                                        booking |-> b])
     /\ Done(t)
     /\ UNCHANGED <<team, routes, no_shows, edits, raced, crowded>>

BookCommit(t) ==
  LET i == job[t].route
      b == Len(bookings) + 1
      next == Advance(job[t].body, job[t].eligible)
  IN /\ job[t].stage = "chosen"
     /\ bookings' = Append(bookings, [route |-> i, member |-> job[t].member, slot |-> job[t].slot,
                                      status |-> "confirmed"])
     /\ distribution' = [distribution EXCEPT
          !.credits = ApplyConsumption(job[t].body.credits, job[t].member),
          !.cursor = next.cursor, !.cycle = next.cycle]
     /\ routes' = [routes EXCEPT ![i].state = "booked", ![i].booking = b]
     /\ movements' = Append(movements, [direction |-> "consumed", member |-> job[t].member,
                                        booking |-> b])
     /\ Done(t)
     /\ UNCHANGED <<team, no_shows, edits, raced, crowded>>

-----------------------------------------------------------------------------
(* mark_no_show: the booking, the no-show rows and the distribution are     *)
(* read, then one transaction gives the credit back.                        *)

(* Deliberate fault: only the no-show rows are asked, not the status. *)
MarkAnyNoShow(t, b) ==
  Start(t, [IdleJob EXCEPT !.stage = "missing", !.booking = b, !.member = bookings[b].member])

MarkNoShow(t, b) ==
  /\ bookings[b].status = "confirmed"
  /\ Start(t, [IdleJob EXCEPT !.stage = "missing", !.booking = b, !.member = bookings[b].member])

(* The list returns the newest NoShowPage rows. *)
NoShowRecorded(b) ==
  \E k \in DOMAIN no_shows : Len(no_shows) - k < NoShowPage /\ no_shows[k] = b

NoShowList(t) ==
  /\ job[t].stage = "missing"
  /\ Goes(t, IF NoShowRecorded(job[t].booking) THEN IdleJob ELSE [job[t] EXCEPT !.stage = "listed"])

NoShowReadDistribution(t) ==
  /\ job[t].stage = "listed"
  /\ Goes(t, IF MayReturn(distribution, job[t].member)
               THEN [job[t] EXCEPT !.stage = "returning", !.body = distribution] ELSE IdleJob)

NoShowCommit(t) ==
  LET b == job[t].booking
  IN /\ job[t].stage = "returning"
     /\ no_shows' = Append(no_shows, b)
     /\ distribution' = [distribution EXCEPT
          !.credits = ApplyReturn(job[t].body.credits, job[t].member)]
     /\ bookings' = [bookings EXCEPT ![b].status = "no_show"]
     /\ movements' = Append(movements, [direction |-> "returned", member |-> job[t].member,
                                        booking |-> b])
     /\ Done(t)
     /\ UNCHANGED <<team, routes, edits, raced, crowded>>

-----------------------------------------------------------------------------
(* cancel_booking: a read, then a blind update of the status. *)

Cancel(t, b) ==
  /\ bookings[b].status = "confirmed"
  /\ Start(t, [IdleJob EXCEPT !.stage = "cancelling", !.booking = b])

CancelUpdate(t) ==
  /\ job[t].stage = "cancelling"
  /\ bookings' = [bookings EXCEPT ![job[t].booking].status = "cancelled"]
  /\ Done(t)
  /\ UNCHANGED <<team, distribution, routes, no_shows, movements, edits, raced, crowded>>

Handler(t) ==
  \/ OpenRoute(t) \/ NotScheduled(t)
  \/ BookReadDistribution(t) \/ BookChoose(t) \/ BookRefused(t) \/ BookCommit(t)
  \/ NoShowList(t) \/ NoShowReadDistribution(t) \/ NoShowCommit(t)
  \/ CancelUpdate(t)

Next ==
  \/ \E t \in Threads : Open(t) \/ Handler(t)
  \/ \E t \in Threads, i \in DOMAIN routes, slot \in Slots : Book(t, i, slot)
  \/ \E t \in Threads, b \in DOMAIN bookings : MarkNoShow(t, b) \/ Cancel(t, b)
  \/ \E m \in Members, calendar \in Calendars : EditTeam(m, calendar)

Spec == Init /\ [][Next]_vars

-----------------------------------------------------------------------------
(* Properties. *)

BookingsOf(m) == {b \in DOMAIN bookings : bookings[b].member = m}
NoShowsOf(m) == {k \in DOMAIN no_shows : bookings[no_shows[k]].member = m}
MovementsOf(direction, b) ==
  {k \in DOMAIN movements : movements[k].direction = direction /\ movements[k].booking = b}

(* A booking, the credit it consumed and the closed route come together,    *)
(* and so do a no-show row and the credit it returned, whatever calls       *)
(* interleave ("one transaction", book and mark_no_show in engine.py).      *)
CommittedTogether ==
  /\ \A b \in DOMAIN bookings :
       /\ ~IsOpen(bookings[b].route)
       /\ Cardinality(MovementsOf("consumed", b)) = 1
       /\ Cardinality(MovementsOf("returned", b))
            = Cardinality({k \in DOMAIN no_shows : no_shows[k] = b})
  /\ \A i \in DOMAIN routes : ~IsOpen(i) => bookings[routes[i].booking].route = i

(* The ledger a block writes is computed from a read made before the block, *)
(* so racing calls may lose a change; they never invent one: no member is   *)
(* down for more turns than bookings, or more returns than no-shows.        *)
LedgerNeverOverstates ==
  \A m \in Members :
    /\ distribution.credits[m].turns <= Cardinality(BookingsOf(m))
    /\ distribution.credits[m].returned <= Cardinality(NoShowsOf(m))

(* Served one at a time, the calls leave a ledger that can be recomputed    *)
(* from the bookings and the no-shows: nothing else moves a credit, a       *)
(* cancellation does not, and none is lost or counted twice.                *)
LedgerExplained ==
  ~overlapped => \A m \in Members :
    LET entry == distribution.credits[m]
    IN /\ entry.turns = Cardinality(BookingsOf(m))
       /\ entry.returned = Cardinality(NoShowsOf(m))
       /\ entry.consumed + entry.returned = entry.turns

(* Served one at a time, a routing session is booked once.                  *)
BookedOnce ==
  ~overlapped => \A a, b \in DOMAIN bookings : bookings[a].route = bookings[b].route => a = b

(* Served one at a time, a booking that was cancelled or marked a no-show   *)
(* is settled for good: no later call changes it, and its credit goes back  *)
(* at most once, also when the no-show row is older than the page the check *)
(* for a repeat reads.                                                      *)
SettledForGood ==
  [][~overlapped' => \A b \in DOMAIN bookings : bookings[b].status # "confirmed" =>
       /\ bookings'[b].status = bookings[b].status
       /\ {k \in DOMAIN no_shows' : no_shows'[k] = b} = {k \in DOMAIN no_shows : no_shows[k] = b}]_vars

(* Strict rotation: while everybody stays free and no credit came back,     *)
(* nobody is visited twice before everybody was visited once, as long as    *)
(* each session is booked before the next is opened.                        *)
TakesTurns ==
  (/\ distribution.mode = "strict"
   /\ ~overlapped /\ ~crowded /\ edits = 0 /\ no_shows = <<>>
   /\ \A m \in Members : team[m] = [assignable |-> TRUE, busy |-> {}])
  => \A m, n \in Members : Cardinality(BookingsOf(m)) <= Cardinality(BookingsOf(n)) + 1

(* A member is booked once for a slot: the check at booking time is there   *)
(* for "a chosen member who is no longer free at that instant, because      *)
(* another booking landed since the route opened" (book in engine.py).      *)
NoDoubleBooking ==
  \A a, b \in DOMAIN bookings :
    (/\ bookings[a].status = "confirmed" /\ bookings[b].status = "confirmed"
     /\ bookings[a].member = bookings[b].member /\ bookings[a].slot = bookings[b].slot)
    => a = b
=============================================================================
