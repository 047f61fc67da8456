-------------------------- MODULE RoundRobinProofs --------------------------
(***************************************************************************)
(* Theorems about RoundRobin for every team, grid of slots, set of threads *)
(* and number of routes.                                                   *)
(***************************************************************************)
EXTENDS RoundRobin, SequenceTheorems, FiniteSetTheorems, TLAPS

(* What a call under way remembers of the rows it read stays true of them.  *)
Fits(call, held) ==
  /\ call.stage \in {"booking", "choosing", "chosen"} => call.slot \in Slots
  /\ call.stage = "chosen" => call.member \in Members
  /\ call.stage \in {"missing", "listed", "returning"} =>
       /\ call.booking \in DOMAIN held
       /\ call.member = held[call.booking].member
  /\ call.stage = "returning" => call.body.credits[call.member].consumed > 0

CallsFit == \A t \in Threads : Fits(job[t], bookings)

(* No later step removes a booking or gives it to somebody else. *)
Kept(held, next) ==
  /\ DOMAIN held \subseteq DOMAIN next
  /\ \A b \in DOMAIN held : next[b].member = held[b].member

TypeInv == TypeOK /\ CallsFit

LEMMA JobTypes ==
  /\ NoEntry \in Entries
  /\ Blank \in Distributions
  /\ IdleJob \in Jobs
  /\ \A held : Fits(IdleJob, held)
<1>1. NoEntry \in Entries
  BY DEF NoEntry, Entries
<1>2. Blank \in Distributions
  BY <1>1 DEF Blank, Distributions
<1>3. IdleJob \in Jobs
  BY <1>2 DEF IdleJob, Jobs, Stages
<1>4. \A held : Fits(IdleJob, held)
  BY DEF IdleJob, Fits
<1>. QED BY <1>1, <1>2, <1>3, <1>4

LEMMA KeptSame == \A held : Kept(held, held)
BY DEF Kept

LEMMA KeptAppend ==
  ASSUME NEW held \in Seq(Bookings), NEW row \in Bookings
  PROVE  /\ Append(held, row) \in Seq(Bookings)
         /\ Kept(held, Append(held, row))
BY DEF Kept

LEMMA RowType ==
  ASSUME NEW S, NEW held \in Seq(S), NEW b \in DOMAIN held
  PROVE  held[b] \in S /\ b \in Nat
OBVIOUS

LEMMA KeptStatus ==
  ASSUME NEW held \in Seq(Bookings), NEW b \in Nat,
         NEW status \in {"confirmed", "no_show", "cancelled"}
  PROVE  /\ [held EXCEPT ![b].status = status] \in Seq(Bookings)
         /\ Kept(held, [held EXCEPT ![b].status = status])
<1>. DEFINE next == [held EXCEPT ![b].status = status]
<1>1. DOMAIN held = 1..Len(held) /\ DOMAIN next = 1..Len(held) /\ Len(held) \in Nat
  OBVIOUS
<1>2. ASSUME NEW k \in 1..Len(held)
      PROVE  next[k] \in Bookings /\ next[k].member = held[k].member
  <2>1. held[k] \in Bookings
    BY <1>1
  <2>2. next[k] = IF k = b THEN [held[k] EXCEPT !.status = status] ELSE held[k]
    BY <1>1
  <2>. QED BY <2>1, <2>2 DEF Bookings
<1>3. next = [k \in 1..Len(held) |-> next[k]]
  BY <1>1
<1>4. next \in [1..Len(held) -> Bookings]
  <2>. HIDE DEF next
  <2>. QED BY <1>2, <1>3
<1>5. next \in Seq(Bookings)
  BY <1>1, <1>4, SeqDef
<1>. QED BY <1>1, <1>2, <1>5 DEF Kept

(* A thread moves on to a call that fits, the others stay where they are. *)
LEMMA CallStep ==
  ASSUME TypeOK, CallsFit, NEW t \in Threads, NEW next \in Jobs,
         job' = [job EXCEPT ![t] = next], Kept(bookings, bookings'), Fits(next, bookings')
  PROVE  job' \in [Threads -> Jobs] /\ CallsFit'
<1>1. job' \in [Threads -> Jobs]
  BY DEF TypeOK
<1>2. ASSUME NEW u \in Threads
      PROVE  Fits(job'[u], bookings')
  <2>1. CASE u = t
    BY <2>1 DEF TypeOK
  <2>2. CASE u # t
    <3>1. job'[u] = job[u] /\ Fits(job[u], bookings)
      BY <2>2 DEF TypeOK, CallsFit
    <3>. QED BY <3>1 DEF Fits, Kept
  <2>. QED BY <2>1, <2>2
<1>. QED BY <1>1, <1>2 DEF CallsFit

LEMMA GoesStep ==
  ASSUME TypeInv, NEW t \in Threads, NEW next \in Jobs, Fits(next, bookings), Goes(t, next)
  PROVE  TypeInv'
BY CallStep, KeptSame DEF TypeInv, TypeOK, Goes, records

LEMMA StartStep ==
  ASSUME TypeInv, NEW t \in Threads, NEW call \in Jobs, Fits(call, bookings), Start(t, call)
  PROVE  TypeInv'
<1>1. raced' \in 0..MaxRaced
  BY BoundAssumption DEF Start, TypeInv, TypeOK
<1>. QED BY <1>1, CallStep, KeptSame DEF TypeInv, TypeOK, Start, records

-----------------------------------------------------------------------------
(* Type correctness. *)

LEMMA InitType == Init => TypeInv
<1>. SUFFICES ASSUME Init PROVE TypeInv
  OBVIOUS
<1>1. distribution \in Distributions
  BY JobTypes DEF Init, Distributions
<1>2. CallsFit
  BY JobTypes DEF Init, CallsFit
<1>3. /\ <<>> \in Seq(Routes) /\ <<>> \in Seq(Bookings) /\ <<>> \in Seq(Nat)
      /\ <<>> \in Seq(Movements)
  OBVIOUS
<1>4. /\ edits \in 0..MaxEdits
      /\ raced \in 0..MaxRaced
      /\ crowded \in BOOLEAN
  <2>1. edits = 0 /\ raced = 0 /\ crowded = FALSE
    BY DEF Init
  <2>2. 0 \in 0..MaxEdits /\ 0 \in 0..MaxRaced
    BY BoundAssumption
  <2>. QED BY <2>1, <2>2, Zenon
<1>5. job \in [Threads -> Jobs]
  BY JobTypes DEF Init
<1>. QED BY <1>1, <1>2, <1>3, <1>4, <1>5 DEF Init, TypeInv, TypeOK

LEMMA LedgerTypes ==
  ASSUME NEW credits \in [Members -> Entries], NEW m \in Members
  PROVE  /\ ApplyConsumption(credits, m) \in [Members -> Entries]
         /\ credits[m].consumed > 0 => ApplyReturn(credits, m) \in [Members -> Entries]
<1>1. credits[m] \in Entries
  OBVIOUS
<1>2. [credits[m] EXCEPT !.consumed = @ + 1, !.turns = @ + 1] \in Entries
  <2>1. credits[m].consumed + 1 \in Nat /\ credits[m].turns + 1 \in Nat
    BY <1>1 DEF Entries
  <2>. QED BY <1>1, <2>1 DEF Entries
<1>3. ASSUME credits[m].consumed > 0
      PROVE  [credits[m] EXCEPT !.consumed = @ - 1, !.returned = @ + 1] \in Entries
  <2>1. credits[m].consumed - 1 \in Nat /\ credits[m].returned + 1 \in Nat
    BY <1>1, <1>3 DEF Entries
  <2>. QED BY <1>1, <2>1 DEF Entries
<1>4. ApplyConsumption(credits, m) =
        [credits EXCEPT ![m] = [credits[m] EXCEPT !.consumed = @ + 1, !.turns = @ + 1]]
  BY <1>1 DEF ApplyConsumption, Entries
<1>5. ApplyReturn(credits, m) =
        [credits EXCEPT ![m] = [credits[m] EXCEPT !.consumed = @ - 1, !.returned = @ + 1]]
  BY <1>1 DEF ApplyReturn, Entries
<1>. QED BY <1>2, <1>3, <1>4, <1>5

LEMMA AdvanceType ==
  ASSUME NEW body \in Distributions, NEW eligible \in Nat
  PROVE  Advance(body, eligible).cursor \in Nat /\ Advance(body, eligible).cycle \in Nat
BY DEF Advance, Distributions

LEMMA AssignableCount == Cardinality(Assignable) \in Nat
<1>1. IsFiniteSet(Members)
  BY FS_Interval, CountAssumption DEF Members
<1>2. IsFiniteSet(Assignable)
  BY <1>1, FS_Subset DEF Assignable
<1>. QED BY <1>2, FS_CardinalityType

LEMMA RouteBooked ==
  ASSUME NEW held \in Seq(Routes), NEW i, NEW b \in Nat
  PROVE  [held EXCEPT ![i].state = "booked", ![i].booking = b] \in Seq(Routes)
<1>. DEFINE next == [held EXCEPT ![i].state = "booked", ![i].booking = b]
<1>1. DOMAIN held = 1..Len(held) /\ DOMAIN next = 1..Len(held) /\ Len(held) \in Nat
  OBVIOUS
<1>2. ASSUME NEW k \in 1..Len(held)
      PROVE  next[k] \in Routes
  <2>1. held[k] \in Routes
    BY <1>1
  <2>2. [held[k] EXCEPT !.state = "booked", !.booking = b] \in Routes
    BY <2>1 DEF Routes
  <2>3. next[k] = IF k = i THEN [held[k] EXCEPT !.state = "booked", !.booking = b] ELSE held[k]
    BY <1>1, <2>1 DEF Routes
  <2>. QED BY <2>1, <2>2, <2>3
<1>3. next = [k \in 1..Len(held) |-> next[k]]
  BY <1>1
<1>4. next \in [1..Len(held) -> Routes]
  <2>. HIDE DEF next
  <2>. QED BY <1>2, <1>3
<1>5. next \in Seq(Routes)
  <2>. HIDE DEF next
  <2>. QED BY <1>1, <1>4, SeqDef
<1>. QED BY <1>5

(* Every step keeps every variable in its type and every call fitting. *)
LEMMA TypeStep ==
  ASSUME TypeInv, [Next]_vars
  PROVE  TypeInv'
<1>. USE JobTypes DEF TypeInv
<1>0. /\ job \in [Threads -> Jobs] /\ distribution \in Distributions
      /\ bookings \in Seq(Bookings) /\ \A t \in Threads : Fits(job[t], bookings)
  BY DEF TypeOK, CallsFit
<1>1. ASSUME NEW t \in Threads, Open(t)
      PROVE  TypeInv'
  <2>. DEFINE call == [IdleJob EXCEPT !.stage = "opening", !.body = distribution]
  <2>1. call \in Jobs /\ Fits(call, bookings)
    BY <1>0 DEF Jobs, Stages, Fits, IdleJob
  <2>. QED BY <1>1, <2>1, StartStep DEF Open
<1>2. ASSUME NEW t \in Threads, OpenRoute(t)
      PROVE  TypeInv'
  <2>1. Offered \subseteq Slots
    BY DEF Offered
  <2>2. routes' \in Seq(Routes)
    BY <1>2, <2>1 DEF OpenRoute, TypeOK, Routes
  <2>3. job' = [job EXCEPT ![t] = IdleJob] /\ bookings' = bookings
    BY <1>2 DEF OpenRoute, Done
  <2>4. job' \in [Threads -> Jobs] /\ CallsFit'
    BY <2>3, CallStep, KeptSame
  <2>5. crowded' \in BOOLEAN
    BY <1>2 DEF OpenRoute
  <2>. QED BY <1>2, <2>2, <2>4, <2>5 DEF OpenRoute, TypeOK
<1>3. ASSUME NEW t \in Threads, NotScheduled(t) \/ BookRefused(t)
      PROVE  TypeInv'
  BY <1>3, GoesStep DEF NotScheduled, BookRefused
<1>4. ASSUME NEW t \in Threads, NEW i \in DOMAIN routes, NEW slot \in Slots, Book(t, i, slot)
      PROVE  TypeInv'
  <2>. DEFINE call == [IdleJob EXCEPT !.stage = "booking", !.route = i, !.slot = slot]
  <2>1. i \in Nat /\ slot \in Nat
    BY DEF TypeOK, Slots
  <2>2. call \in Jobs /\ Fits(call, bookings)
    BY <2>1 DEF Jobs, Stages, Fits, IdleJob
  <2>. QED BY <1>4, <2>2, StartStep DEF Book
<1>5. ASSUME NEW t \in Threads, BookReadDistribution(t)
      PROVE  TypeInv'
  <2>. DEFINE next == [job[t] EXCEPT !.stage = "choosing", !.body = distribution]
  <2>1. job[t] \in Jobs /\ job[t].slot \in Slots
    BY <1>0, <1>5 DEF BookReadDistribution, Fits
  <2>2. next \in Jobs /\ Fits(next, bookings)
    BY <1>0, <2>1 DEF Jobs, Stages, Fits
  <2>. QED BY <1>5, <2>2, GoesStep DEF BookReadDistribution
<1>6. ASSUME NEW t \in Threads, BookChoose(t)
      PROVE  TypeInv'
  <2>1. PICK m \in Members : Goes(t, [job[t] EXCEPT !.stage = "chosen", !.member = m,
                                              !.eligible = Cardinality(Assignable)])
    BY <1>6 DEF BookChoose
  <2>. DEFINE next == [job[t] EXCEPT !.stage = "chosen", !.member = m,
                                     !.eligible = Cardinality(Assignable)]
  <2>2. job[t] \in Jobs /\ job[t].slot \in Slots /\ m \in Nat
    BY <1>0, <1>6 DEF BookChoose, Fits, Members
  <2>3. next \in Jobs /\ Fits(next, bookings)
    BY <2>2, AssignableCount DEF Jobs, Stages, Fits
  <2>. QED BY <2>1, <2>3, GoesStep
<1>7. ASSUME NEW t \in Threads, BookCommit(t)
      PROVE  TypeInv'
  <2>. DEFINE row == [route |-> job[t].route, member |-> job[t].member, slot |-> job[t].slot,
                      status |-> "confirmed"]
              next == Advance(job[t].body, job[t].eligible)
  <2>1. /\ job[t] \in Jobs /\ job[t].slot \in Slots /\ job[t].member \in Members
        /\ job[t].body \in Distributions /\ job[t].eligible \in Nat
    BY <1>0, <1>7 DEF BookCommit, Fits, Jobs
  <2>2. row \in Bookings
    BY <2>1 DEF Bookings, Jobs
  <2>3. bookings' = Append(bookings, row)
    BY <1>7 DEF BookCommit
  <2>4. bookings' \in Seq(Bookings) /\ Kept(bookings, bookings')
    BY <1>0, <2>2, <2>3, KeptAppend
  <2>5. job' \in [Threads -> Jobs] /\ CallsFit'
    BY <1>7, <2>4, CallStep DEF BookCommit, Done
  <2>6. distribution' \in Distributions
    <3>1. ApplyConsumption(job[t].body.credits, job[t].member) \in [Members -> Entries]
      BY <2>1, LedgerTypes DEF Distributions
    <3>2. next.cursor \in Nat /\ next.cycle \in Nat
      BY <2>1, AdvanceType
    <3>3. distribution' = [distribution EXCEPT
            !.credits = ApplyConsumption(job[t].body.credits, job[t].member),
            !.cursor = next.cursor, !.cycle = next.cycle]
      BY <1>7 DEF BookCommit
    <3>. HIDE DEF next
    <3>. QED BY <1>0, <3>1, <3>2, <3>3 DEF Distributions
  <2>7. routes' \in Seq(Routes)
    <3>1. Len(bookings) + 1 \in Nat
      BY <1>0
    <3>2. routes \in Seq(Routes) /\ routes' = [routes EXCEPT ![job[t].route].state = "booked",
                                                ![job[t].route].booking = Len(bookings) + 1]
      BY <1>7 DEF BookCommit, TypeOK
    <3>. QED BY <3>1, <3>2, RouteBooked
  <2>8. movements' \in Seq(Movements)
    BY <1>0, <1>7, <2>1 DEF BookCommit, TypeOK, Movements
  <2>. QED BY <1>7, <2>4, <2>5, <2>6, <2>7, <2>8 DEF BookCommit, TypeOK
<1>8. ASSUME NEW t \in Threads, NEW b \in DOMAIN bookings, MarkNoShow(t, b)
      PROVE  TypeInv'
  <2>. DEFINE call == [IdleJob EXCEPT !.stage = "missing", !.booking = b,
                                      !.member = bookings[b].member]
  <2>1. b \in Nat /\ bookings[b].member \in Nat
    <3>1. bookings[b] \in Bookings /\ b \in Nat
      BY <1>0, RowType
    <3>. QED BY <3>1 DEF Bookings, Members
  <2>2. call \in Jobs /\ Fits(call, bookings)
    BY <2>1 DEF Jobs, Stages, Fits, IdleJob
  <2>. QED BY <1>8, <2>2, StartStep DEF MarkNoShow
<1>9. ASSUME NEW t \in Threads, NoShowList(t)
      PROVE  TypeInv'
  <2>. DEFINE next == [job[t] EXCEPT !.stage = "listed"]
  <2>1. next \in Jobs /\ Fits(next, bookings)
    BY <1>0, <1>9 DEF NoShowList, Jobs, Stages, Fits
  <2>. QED BY <1>9, <2>1, GoesStep DEF NoShowList
<1>10. ASSUME NEW t \in Threads, NoShowReadDistribution(t)
       PROVE  TypeInv'
  <2>. DEFINE next == [job[t] EXCEPT !.stage = "returning", !.body = distribution]
  <2>1. CASE MayReturn(distribution, job[t].member)
    <3>1. next \in Jobs /\ Fits(next, bookings)
      BY <1>0, <1>10, <2>1 DEF NoShowReadDistribution, MayReturn, Jobs, Stages, Fits
    <3>. QED BY <1>10, <2>1, <3>1, GoesStep DEF NoShowReadDistribution
  <2>2. CASE ~MayReturn(distribution, job[t].member)
    BY <1>10, <2>2, GoesStep DEF NoShowReadDistribution
  <2>. QED BY <2>1, <2>2
<1>11. ASSUME NEW t \in Threads, NoShowCommit(t)
       PROVE  TypeInv'
  <2>. DEFINE b == job[t].booking
  <2>1. /\ job[t] \in Jobs /\ job[t].body \in Distributions /\ b \in DOMAIN bookings
        /\ job[t].member \in Members /\ job[t].body.credits[job[t].member].consumed > 0
    <3>1. /\ job[t] \in Jobs /\ Fits(job[t], bookings) /\ job[t].stage = "returning"
      BY <1>0, <1>11 DEF NoShowCommit
    <3>2. b \in DOMAIN bookings /\ job[t].member = bookings[b].member
          /\ job[t].body.credits[job[t].member].consumed > 0
      BY <3>1 DEF Fits
    <3>3. bookings[b] \in Bookings
      BY <1>0, <3>2, RowType
    <3>. QED BY <3>1, <3>2, <3>3 DEF Jobs, Bookings
  <2>2. bookings' = [bookings EXCEPT ![b].status = "no_show"]
    BY <1>11 DEF NoShowCommit
  <2>3. bookings' \in Seq(Bookings) /\ Kept(bookings, bookings')
    BY <1>0, <2>1, <2>2, KeptStatus DEF Jobs
  <2>4. job' \in [Threads -> Jobs] /\ CallsFit'
    BY <1>11, <2>3, CallStep DEF NoShowCommit, Done
  <2>5. distribution' \in Distributions
    <3>1. ApplyReturn(job[t].body.credits, job[t].member) \in [Members -> Entries]
      BY <2>1, LedgerTypes DEF Distributions
    <3>. QED BY <1>0, <1>11, <3>1 DEF NoShowCommit, Distributions
  <2>6. no_shows' \in Seq(Nat) /\ movements' \in Seq(Movements)
    BY <1>0, <1>11, <2>1 DEF NoShowCommit, TypeOK, Movements
  <2>. QED BY <1>11, <2>3, <2>4, <2>5, <2>6 DEF NoShowCommit, TypeOK
<1>12. ASSUME NEW t \in Threads, NEW b \in DOMAIN bookings, Cancel(t, b)
       PROVE  TypeInv'
  <2>. DEFINE call == [IdleJob EXCEPT !.stage = "cancelling", !.booking = b]
  <2>1. b \in Nat
    BY <1>0, RowType
  <2>2. call \in Jobs /\ Fits(call, bookings)
    BY <2>1 DEF Jobs, Stages, Fits, IdleJob
  <2>. QED BY <1>12, <2>2, StartStep DEF Cancel
<1>13. ASSUME NEW t \in Threads, CancelUpdate(t)
       PROVE  TypeInv'
  <2>1. bookings' = [bookings EXCEPT ![job[t].booking].status = "cancelled"]
    BY <1>13 DEF CancelUpdate
  <2>2. bookings' \in Seq(Bookings) /\ Kept(bookings, bookings')
    BY <1>0, <2>1, KeptStatus DEF Jobs
  <2>3. job' \in [Threads -> Jobs] /\ CallsFit'
    BY <1>13, <2>2, CallStep DEF CancelUpdate, Done
  <2>. QED BY <1>13, <2>2, <2>3 DEF CancelUpdate, TypeOK
<1>14. ASSUME NEW m \in Members, NEW calendar \in Calendars, EditTeam(m, calendar)
       PROVE  TypeInv'
  <2>1. team' \in [Members -> Calendars] /\ edits' \in 0..MaxEdits
    BY <1>14, BoundAssumption DEF EditTeam, TypeOK
  <2>. QED BY <1>14, <2>1 DEF EditTeam, TypeOK, CallsFit
<1>15. CASE UNCHANGED vars
  BY <1>15 DEF TypeOK, CallsFit, vars, records
<1>. QED
  BY <1>1, <1>2, <1>3, <1>4, <1>5, <1>6, <1>7, <1>8, <1>9, <1>10, <1>11, <1>12, <1>13, <1>14,
     <1>15 DEF Next, Handler

(* In every run every variable holds a value of its type. *)
THEOREM TypeCorrect == Spec => []TypeOK
<1>1. TypeInv /\ [Next]_vars => TypeInv'
  BY TypeStep
<1>2. TypeInv => TypeOK
  BY DEF TypeInv
<1>. QED BY InitType, <1>1, <1>2, PTL DEF Spec

-----------------------------------------------------------------------------
(* The ledger.  A block writes the ledger its call read plus one change, so *)
(* every ledger a call may still write has to be covered, not only the one  *)
(* of the record.                                                           *)

Booked == [m \in Members |-> Cardinality(BookingsOf(m))]
Missed == [m \in Members |-> Cardinality(NoShowsOf(m))]

Covers(credits, booked, missed) ==
  \A m \in Members : credits[m].turns <= booked[m] /\ credits[m].returned <= missed[m]

NoShowsNamed == \A k \in DOMAIN no_shows : no_shows[k] \in DOMAIN bookings

(* No-show rows are only added. *)
Longer(seq, next) ==
  /\ DOMAIN seq \subseteq DOMAIN next
  /\ \A k \in DOMAIN seq : next[k] = seq[k]

LedgerInv ==
  /\ TypeInv /\ NoShowsNamed
  /\ Covers(distribution.credits, Booked, Missed)
  /\ \A t \in Threads : Covers(job[t].body.credits, Booked, Missed)

LEMMA RowsFinite ==
  ASSUME NEW S, NEW seq \in Seq(S)
  PROVE  IsFiniteSet(DOMAIN seq)
<1>1. DOMAIN seq = 1..Len(seq) /\ Len(seq) \in Nat
  OBVIOUS
<1>. QED BY <1>1, FS_Interval

LEMMA CountTypes ==
  ASSUME TypeOK, NEW m \in Members
  PROVE  /\ IsFiniteSet(BookingsOf(m)) /\ IsFiniteSet(NoShowsOf(m))
         /\ Booked[m] = Cardinality(BookingsOf(m)) /\ Booked[m] \in Nat
         /\ Missed[m] = Cardinality(NoShowsOf(m)) /\ Missed[m] \in Nat
<1>1. IsFiniteSet(DOMAIN bookings) /\ IsFiniteSet(DOMAIN no_shows)
  BY RowsFinite DEF TypeOK
<1>2. IsFiniteSet(BookingsOf(m)) /\ IsFiniteSet(NoShowsOf(m))
  BY <1>1, FS_Subset DEF BookingsOf, NoShowsOf
<1>. QED BY <1>2, FS_CardinalityType DEF Booked, Missed

(* The bookings and no-shows of a member never become fewer. *)
LEMMA CountsGrow ==
  ASSUME TypeOK, TypeOK', NoShowsNamed, Kept(bookings, bookings'), Longer(no_shows, no_shows'),
         NEW m \in Members
  PROVE  /\ Booked[m] \in Nat /\ Booked'[m] \in Nat /\ Booked[m] <= Booked'[m]
         /\ Missed[m] \in Nat /\ Missed'[m] \in Nat /\ Missed[m] <= Missed'[m]
<1>1. BookingsOf(m) \subseteq BookingsOf(m)'
  BY DEF BookingsOf, Kept
<1>2. NoShowsOf(m) \subseteq NoShowsOf(m)'
  BY DEF NoShowsOf, NoShowsNamed, Kept, Longer
<1>3. /\ IsFiniteSet(BookingsOf(m)') /\ IsFiniteSet(NoShowsOf(m)')
      /\ Booked'[m] = Cardinality(BookingsOf(m)') /\ Booked'[m] \in Nat
      /\ Missed'[m] = Cardinality(NoShowsOf(m)') /\ Missed'[m] \in Nat
  <2>1. IsFiniteSet(DOMAIN bookings') /\ IsFiniteSet(DOMAIN no_shows')
    BY RowsFinite DEF TypeOK
  <2>2. IsFiniteSet(BookingsOf(m)') /\ IsFiniteSet(NoShowsOf(m)')
    BY <2>1, FS_Subset DEF BookingsOf, NoShowsOf
  <2>. QED BY <2>2, FS_CardinalityType DEF Booked, Missed
<1>. QED BY <1>1, <1>2, <1>3, CountTypes, FS_Subset

LEMMA CoversMore ==
  ASSUME TypeOK, TypeOK', NoShowsNamed, Kept(bookings, bookings'), Longer(no_shows, no_shows'),
         NEW credits \in [Members -> Entries], Covers(credits, Booked, Missed)
  PROVE  Covers(credits, Booked', Missed')
<1>. SUFFICES ASSUME NEW m \in Members
              PROVE  credits[m].turns <= Booked'[m] /\ credits[m].returned <= Missed'[m]
  BY DEF Covers
<1>1. credits[m].turns \in Nat /\ credits[m].returned \in Nat
  BY DEF Entries
<1>2. credits[m].turns <= Booked[m] /\ credits[m].returned <= Missed[m]
  BY DEF Covers
<1>3. /\ Booked[m] \in Nat /\ Booked'[m] \in Nat /\ Booked[m] <= Booked'[m]
      /\ Missed[m] \in Nat /\ Missed'[m] \in Nat /\ Missed[m] <= Missed'[m]
  BY CountsGrow
<1>. QED BY <1>1, <1>2, <1>3

(* A step that writes no ledger: its call read the ledger of the record,    *)
(* keeps the one it had read or is over.                                    *)
LEMMA ReadStep ==
  ASSUME LedgerInv, TypeInv', distribution' = distribution, no_shows' = no_shows,
         Kept(bookings, bookings'), NEW t \in Threads, NEW next \in Jobs,
         job' = [job EXCEPT ![t] = next], next.body \in {job[t].body, Blank, distribution}
  PROVE  LedgerInv'
<1>1. TypeOK /\ TypeOK' /\ Longer(no_shows, no_shows')
  BY DEF LedgerInv, TypeInv, Longer
<1>2. NoShowsNamed'
  BY DEF LedgerInv, NoShowsNamed, Kept
<1>3. distribution.credits \in [Members -> Entries]
  BY <1>1 DEF TypeOK, Distributions
<1>4. Covers(distribution'.credits, Booked', Missed')
  BY <1>1, <1>3, CoversMore DEF LedgerInv
<1>5. ASSUME NEW u \in Threads
      PROVE  Covers(job'[u].body.credits, Booked', Missed')
  <2>1. job[u].body.credits \in [Members -> Entries] /\ Covers(job[u].body.credits, Booked, Missed)
    BY <1>1 DEF LedgerInv, TypeOK, Jobs, Distributions
  <2>2. Covers(job[u].body.credits, Booked', Missed')
    BY <1>1, <2>1, CoversMore DEF LedgerInv
  <2>3. Covers(Blank.credits, Booked', Missed')
    <3>1. \A m \in Members : Booked'[m] \in Nat /\ Missed'[m] \in Nat
      BY <1>1, CountsGrow DEF LedgerInv
    <3>. QED BY <3>1 DEF Covers, Blank, NoEntry
  <2>4. job'[u] = IF u = t THEN next ELSE job[u]
    BY <1>1 DEF TypeOK
  <2>. QED BY <1>4, <2>2, <2>3, <2>4
<1>. QED BY <1>2, <1>4, <1>5 DEF LedgerInv

(* A block: the ledger it writes is covered, and its call is over. *)
LEMMA WriteStep ==
  ASSUME LedgerInv, TypeInv', NoShowsNamed', Kept(bookings, bookings'),
         Longer(no_shows, no_shows'), NEW t \in Threads, job' = [job EXCEPT ![t] = IdleJob],
         Covers(distribution'.credits, Booked', Missed')
  PROVE  LedgerInv'
<1>1. TypeOK /\ TypeOK'
  BY DEF LedgerInv, TypeInv
<1>2. ASSUME NEW u \in Threads
      PROVE  Covers(job'[u].body.credits, Booked', Missed')
  <2>1. job[u].body.credits \in [Members -> Entries] /\ Covers(job[u].body.credits, Booked, Missed)
    BY <1>1 DEF LedgerInv, TypeOK, Jobs, Distributions
  <2>2. Covers(job[u].body.credits, Booked', Missed')
    BY <1>1, <2>1, CoversMore DEF LedgerInv
  <2>3. Covers(Blank.credits, Booked', Missed')
    <3>1. \A m \in Members : Booked'[m] \in Nat /\ Missed'[m] \in Nat
      BY <1>1, CountsGrow DEF LedgerInv
    <3>. QED BY <3>1 DEF Covers, Blank, NoEntry
  <2>4. job'[u] = IF u = t THEN IdleJob ELSE job[u]
    BY <1>1 DEF TypeOK
  <2>. QED BY <2>2, <2>3, <2>4 DEF IdleJob
<1>. QED BY <1>2 DEF LedgerInv

LEMMA InitLedger == Init => LedgerInv
<1>. SUFFICES ASSUME Init PROVE LedgerInv
  OBVIOUS
<1>1. TypeInv /\ TypeOK
  BY InitType DEF TypeInv
<1>2. NoShowsNamed
  BY DEF Init, NoShowsNamed
<1>3. Covers(Blank.credits, Booked, Missed)
  BY <1>1, CountTypes DEF Covers, Blank, NoEntry
<1>4. distribution.credits = Blank.credits
  BY DEF Init, Blank
<1>5. \A t \in Threads : job[t].body = Blank
  BY DEF Init, IdleJob
<1>. QED BY <1>1, <1>2, <1>3, <1>4, <1>5 DEF LedgerInv

LEMMA BookedOneMore ==
  ASSUME TypeOK, NEW row \in Bookings, NEW who \in Members, row.member = who,
         bookings' = Append(bookings, row)
  PROVE  Booked'[who] = Booked[who] + 1
<1>. DEFINE b == Len(bookings) + 1
<1>1. bookings \in Seq(Bookings)
  BY DEF TypeOK
<1>2. /\ DOMAIN bookings = 1..Len(bookings) /\ DOMAIN bookings' = 1..b
      /\ Len(bookings) \in Nat /\ bookings'[b] = row
      /\ \A k \in 1..Len(bookings) : bookings'[k] = bookings[k]
  BY <1>1
<1>3. BookingsOf(who)' = BookingsOf(who) \cup {b} /\ b \notin BookingsOf(who)
  BY <1>2 DEF BookingsOf
<1>4. Booked'[who] = Cardinality(BookingsOf(who)')
  BY DEF Booked
<1>5. IsFiniteSet(BookingsOf(who)) /\ Booked[who] = Cardinality(BookingsOf(who))
  BY CountTypes
<1>6. Cardinality(BookingsOf(who) \cup {b}) = Cardinality(BookingsOf(who)) + 1
  <2>. HIDE DEF b
  <2>. QED BY <1>3, <1>5, FS_AddElement
<1>. QED BY <1>3, <1>4, <1>5, <1>6

LEMMA MissedOneMore ==
  ASSUME TypeOK, NoShowsNamed, Kept(bookings, bookings'), NEW b \in DOMAIN bookings,
         NEW who \in Members, bookings[b].member = who, no_shows' = Append(no_shows, b)
  PROVE  Missed'[who] = Missed[who] + 1
<1>. DEFINE k == Len(no_shows) + 1
<1>1. no_shows \in Seq(Nat) /\ b \in Nat
  BY DEF TypeOK
<1>2. /\ DOMAIN no_shows = 1..Len(no_shows) /\ DOMAIN no_shows' = 1..k
      /\ Len(no_shows) \in Nat /\ no_shows'[k] = b
      /\ \A n \in 1..Len(no_shows) : no_shows'[n] = no_shows[n]
  BY <1>1
<1>3. /\ \A n \in DOMAIN no_shows : bookings'[no_shows[n]].member = bookings[no_shows[n]].member
      /\ bookings'[b].member = who
  BY DEF NoShowsNamed, Kept
<1>4. NoShowsOf(who)' = NoShowsOf(who) \cup {k} /\ k \notin NoShowsOf(who)
  BY <1>2, <1>3 DEF NoShowsOf
<1>5. Missed'[who] = Cardinality(NoShowsOf(who)')
  BY DEF Missed
<1>. QED BY <1>4, <1>5, CountTypes, FS_AddElement

(* The booking adds to the member's count what the block adds to its turns. *)
LEMMA BookCommitCovers ==
  ASSUME LedgerInv, TypeInv', NEW t \in Threads, BookCommit(t)
  PROVE  LedgerInv'
<1>. DEFINE who == job[t].member
            body == job[t].body
            row == [route |-> job[t].route, member |-> who, slot |-> job[t].slot,
                    status |-> "confirmed"]
<1>1. /\ TypeOK /\ TypeOK' /\ NoShowsNamed
      /\ bookings \in Seq(Bookings) /\ body \in Distributions
      /\ body.credits \in [Members -> Entries] /\ Covers(body.credits, Booked, Missed)
  BY DEF LedgerInv, TypeInv, TypeOK, Jobs, Distributions
<1>2. who \in Members /\ row \in Bookings
  BY DEF LedgerInv, TypeInv, CallsFit, Fits, BookCommit, TypeOK, Jobs, Bookings
<1>3. bookings' = Append(bookings, row) /\ no_shows' = no_shows
  BY DEF BookCommit
<1>4. Kept(bookings, bookings') /\ Longer(no_shows, no_shows')
  BY <1>1, <1>2, <1>3, KeptAppend DEF Longer
<1>5. Covers(body.credits, Booked', Missed')
  BY <1>1, <1>4, CoversMore
<1>6. Booked'[who] = Booked[who] + 1
  BY <1>1, <1>2, <1>3, BookedOneMore
<1>7. distribution'.credits = ApplyConsumption(body.credits, who)
  BY <1>1 DEF BookCommit, TypeOK, Distributions
<1>8. ASSUME NEW m \in Members
      PROVE  /\ ApplyConsumption(body.credits, who)[m].turns <= Booked'[m]
             /\ ApplyConsumption(body.credits, who)[m].returned <= Missed'[m]
  <2>1. body.credits[m] \in Entries
    BY <1>1
  <2>2. CASE m = who
    <3>1. /\ ApplyConsumption(body.credits, who)[m].turns = body.credits[m].turns + 1
          /\ ApplyConsumption(body.credits, who)[m].returned = body.credits[m].returned
      BY <1>1, <1>2, <2>1, <2>2 DEF ApplyConsumption, Entries
    <3>2. body.credits[m].turns <= Booked[m] /\ body.credits[m].returned <= Missed'[m]
      BY <1>1, <1>5 DEF Covers
    <3>3. Booked[m] \in Nat /\ body.credits[m].turns \in Nat
      BY <1>1, <2>1, CountTypes DEF Entries
    <3>. QED BY <1>6, <2>2, <3>1, <3>2, <3>3
  <2>3. CASE m # who
    <3>1. ApplyConsumption(body.credits, who)[m] = body.credits[m]
      BY <1>1, <2>3 DEF ApplyConsumption
    <3>. QED BY <1>5, <3>1 DEF Covers
  <2>. QED BY <2>2, <2>3
<1>9. Covers(distribution'.credits, Booked', Missed')
  BY <1>7, <1>8 DEF Covers
<1>10. NoShowsNamed'
  BY <1>1, <1>3, <1>4 DEF NoShowsNamed, Kept
<1>11. job' = [job EXCEPT ![t] = IdleJob]
  BY DEF BookCommit, Done
<1>. QED BY <1>4, <1>9, <1>10, <1>11, WriteStep

(* So does the no-show row for the credit that comes back. *)
LEMMA NoShowCommitCovers ==
  ASSUME LedgerInv, TypeInv', NEW t \in Threads, NoShowCommit(t)
  PROVE  LedgerInv'
<1>. DEFINE who == job[t].member
            body == job[t].body
            b == job[t].booking
<1>1. /\ TypeOK /\ TypeOK' /\ NoShowsNamed
      /\ bookings \in Seq(Bookings) /\ no_shows \in Seq(Nat) /\ body \in Distributions
      /\ body.credits \in [Members -> Entries] /\ Covers(body.credits, Booked, Missed)
  BY DEF LedgerInv, TypeInv, TypeOK, Jobs, Distributions
<1>2. b \in DOMAIN bookings /\ b \in Nat /\ who = bookings[b].member
  BY <1>1 DEF LedgerInv, TypeInv, CallsFit, Fits, NoShowCommit
<1>3. who \in Members
  <2>1. bookings[b] \in Bookings
    BY <1>1, <1>2, RowType
  <2>. QED BY <1>2, <2>1 DEF Bookings
<1>4. no_shows' = Append(no_shows, b) /\ bookings' = [bookings EXCEPT ![b].status = "no_show"]
  BY DEF NoShowCommit
<1>5. Kept(bookings, bookings') /\ Longer(no_shows, no_shows')
  <2>1. Kept(bookings, bookings')
    BY <1>1, <1>2, <1>4, KeptStatus
  <2>2. Longer(no_shows, Append(no_shows, b))
    BY <1>1, <1>2 DEF Longer
  <2>. QED BY <1>4, <2>1, <2>2
<1>6. Covers(body.credits, Booked', Missed')
  BY <1>1, <1>5, CoversMore
<1>7. Missed'[who] = Missed[who] + 1
  BY <1>1, <1>2, <1>3, <1>4, <1>5, MissedOneMore
<1>8. distribution'.credits = ApplyReturn(body.credits, who)
  BY <1>1 DEF NoShowCommit, TypeOK, Distributions
<1>9. ASSUME NEW m \in Members
      PROVE  /\ ApplyReturn(body.credits, who)[m].turns <= Booked'[m]
             /\ ApplyReturn(body.credits, who)[m].returned <= Missed'[m]
  <2>1. body.credits[m] \in Entries
    BY <1>1
  <2>2. CASE m = who
    <3>1. /\ ApplyReturn(body.credits, who)[m].turns = body.credits[m].turns
          /\ ApplyReturn(body.credits, who)[m].returned = body.credits[m].returned + 1
      BY <1>1, <1>3, <2>1, <2>2 DEF ApplyReturn, Entries
    <3>2. body.credits[m].turns <= Booked'[m] /\ body.credits[m].returned <= Missed[m]
      BY <1>1, <1>6 DEF Covers
    <3>3. Missed[m] \in Nat /\ body.credits[m].returned \in Nat
      BY <1>1, <2>1, CountTypes DEF Entries
    <3>. QED BY <1>7, <2>2, <3>1, <3>2, <3>3
  <2>3. CASE m # who
    <3>1. ApplyReturn(body.credits, who)[m] = body.credits[m]
      BY <1>1, <2>3 DEF ApplyReturn
    <3>. QED BY <1>6, <3>1 DEF Covers
  <2>. QED BY <2>2, <2>3
<1>10. Covers(distribution'.credits, Booked', Missed')
  BY <1>8, <1>9 DEF Covers
<1>11. NoShowsNamed'
  BY <1>1, <1>2, <1>4, <1>5 DEF NoShowsNamed, Kept
<1>12. job' = [job EXCEPT ![t] = IdleJob]
  BY DEF NoShowCommit, Done
<1>. QED BY <1>5, <1>10, <1>11, <1>12, WriteStep

(* A step of a call that reads, opens a route or settles a cancellation. *)
LEMMA LedgerStep ==
  ASSUME LedgerInv, [Next]_vars
  PROVE  LedgerInv'
<1>. DEFINE Bodies(t) == {job[t].body, Blank, distribution}
<1>1. TypeInv /\ TypeInv' /\ TypeOK /\ IdleJob \in Jobs /\ IdleJob.body = Blank
  BY TypeStep, JobTypes DEF LedgerInv, TypeInv, IdleJob
<1>2. \A t \in Threads : job[t] \in Jobs
  BY <1>1 DEF TypeOK
<1>3. ASSUME NEW t \in Threads, NEW next \in Jobs, job' = [job EXCEPT ![t] = next],
             next.body \in Bodies(t), UNCHANGED <<distribution, no_shows>>,
             Kept(bookings, bookings')
      PROVE  LedgerInv'
  BY <1>1, <1>3, ReadStep
<1>4. ASSUME NEW t \in Threads, NEW next, job' = [job EXCEPT ![t] = next]
      PROVE  next \in Jobs
  BY <1>1, <1>4 DEF TypeInv, TypeOK
<1>5. ASSUME NEW t \in Threads, NEW call, Start(t, call), call.body \in Bodies(t)
      PROVE  LedgerInv'
  BY <1>3, <1>4, <1>5, KeptSame DEF Start, records
<1>6. ASSUME NEW t \in Threads, NEW next, Goes(t, next), next.body \in Bodies(t)
      PROVE  LedgerInv'
  BY <1>3, <1>4, <1>6, KeptSame DEF Goes, records
<1>. HIDE DEF Bodies
<1>7. ASSUME NEW t \in Threads
      PROVE  /\ job[t].body \in Bodies(t) /\ IdleJob.body \in Bodies(t)
             /\ distribution \in Bodies(t)
  BY <1>1 DEF Bodies
<1>8. ASSUME NEW t \in Threads, Open(t)
      PROVE  LedgerInv'
  BY <1>1, <1>5, <1>7, <1>8 DEF Open, IdleJob
<1>9. ASSUME NEW t \in Threads, OpenRoute(t)
      PROVE  LedgerInv'
  BY <1>1, <1>3, <1>7, <1>9, KeptSame DEF OpenRoute, Done
<1>10. ASSUME NEW t \in Threads, NotScheduled(t) \/ BookRefused(t)
       PROVE  LedgerInv'
  BY <1>6, <1>7, <1>10 DEF NotScheduled, BookRefused
<1>11. ASSUME NEW t \in Threads, NEW i \in DOMAIN routes, NEW slot \in Slots, Book(t, i, slot)
       PROVE  LedgerInv'
  BY <1>1, <1>5, <1>7, <1>11 DEF Book, IdleJob
<1>12. ASSUME NEW t \in Threads, BookReadDistribution(t)
       PROVE  LedgerInv'
  BY <1>2, <1>6, <1>7, <1>12 DEF BookReadDistribution, Jobs
<1>13. ASSUME NEW t \in Threads, BookChoose(t)
       PROVE  LedgerInv'
  <2>1. PICK m \in Members : Goes(t, [job[t] EXCEPT !.stage = "chosen", !.member = m,
                                              !.eligible = Cardinality(Assignable)])
    BY <1>13 DEF BookChoose
  <2>. QED BY <1>2, <1>6, <1>7, <2>1 DEF Jobs
<1>14. ASSUME NEW t \in Threads, NEW b \in DOMAIN bookings, MarkNoShow(t, b) \/ Cancel(t, b)
       PROVE  LedgerInv'
  BY <1>1, <1>5, <1>7, <1>14 DEF MarkNoShow, Cancel, IdleJob
<1>15. ASSUME NEW t \in Threads, NoShowList(t) \/ NoShowReadDistribution(t)
       PROVE  LedgerInv'
  BY <1>2, <1>6, <1>7, <1>15 DEF NoShowList, NoShowReadDistribution, Jobs
<1>16. ASSUME NEW t \in Threads, CancelUpdate(t)
       PROVE  LedgerInv'
  <2>1. job[t].booking \in Nat /\ bookings \in Seq(Bookings)
    BY <1>1, <1>2 DEF Jobs, TypeOK
  <2>2. Kept(bookings, bookings')
    BY <1>16, <2>1, KeptStatus DEF CancelUpdate
  <2>. QED BY <1>1, <1>3, <1>7, <1>16, <2>2 DEF CancelUpdate, Done
<1>17. ASSUME NEW m \in Members, NEW calendar \in Calendars, EditTeam(m, calendar)
       PROVE  LedgerInv'
  BY <1>1, <1>17 DEF EditTeam, LedgerInv, NoShowsNamed, Booked, Missed, BookingsOf, NoShowsOf
<1>18. CASE UNCHANGED vars
  BY <1>1, <1>18 DEF vars, records, LedgerInv, NoShowsNamed, Booked, Missed, BookingsOf, NoShowsOf
<1>. QED
  BY <1>1, <1>8, <1>9, <1>10, <1>11, <1>12, <1>13, <1>14, <1>15, <1>16, <1>17, <1>18,
     BookCommitCovers, NoShowCommitCovers DEF Next, Handler

(* In every run, whatever calls overlap, no member is down for more turns   *)
(* than bookings or more returned credits than no-shows.                    *)
THEOREM LedgerCorrect == Spec => []LedgerNeverOverstates
<1>1. LedgerInv /\ [Next]_vars => LedgerInv'
  BY LedgerStep
<1>2. LedgerInv => LedgerNeverOverstates
  BY DEF LedgerInv, Covers, Booked, Missed, LedgerNeverOverstates
<1>. QED BY InitLedger, <1>1, <1>2, PTL DEF Spec

-----------------------------------------------------------------------------
(* What each step does, field by field. *)

Others(t) == \A u \in Threads \ {t} : job'[u] = job[u]
Tables == UNCHANGED <<distribution, routes, bookings, no_shows, movements>>

(* A call begins. *)
Begins(t) ==
  /\ job[t].stage = "idle" /\ Others(t) /\ Tables
  /\ raced' = 0 => raced = 0 /\ \A u \in Threads \ {t} : job[u].stage = "idle"
Continues(t) == job[t].stage # "idle" /\ Others(t) /\ raced' = raced

BeginsOpening(t) ==
  Begins(t) /\ job'[t].stage = "opening" /\ job'[t].body = distribution
BeginsBooking(t) ==
  /\ Begins(t) /\ job'[t].stage = "booking"
  /\ job'[t].route \in DOMAIN routes /\ IsOpen(job'[t].route)
BeginsSettling(t) ==
  /\ Begins(t) /\ job'[t].stage \in {"missing", "cancelling"}
  /\ job'[t].booking \in DOMAIN bookings /\ bookings[job'[t].booking].status = "confirmed"

(* The call reads on: what it keeps, and what it has just read. *)
Ends(t) == Continues(t) /\ Tables /\ job'[t].stage = "idle"
ReadsBody(t) ==
  /\ Continues(t) /\ Tables /\ job'[t].body = distribution
  /\ \/ /\ job[t].stage = "booking" /\ job'[t].stage = "choosing"
        /\ job'[t].route = job[t].route
     \/ /\ job[t].stage = "listed" /\ job'[t].stage = "returning"
        /\ job'[t].booking = job[t].booking
Chooses(t) ==
  /\ Continues(t) /\ Tables /\ job'[t].body = job[t].body /\ job'[t].route = job[t].route
  /\ job[t].stage = "choosing" /\ job'[t].stage = "chosen"
  /\ Selects(job[t].body, Candidates(t), job'[t].member)
Lists(t) ==
  /\ Continues(t) /\ Tables /\ job'[t].booking = job[t].booking
  /\ job[t].stage = "missing" /\ job'[t].stage = "listed"

Opens(t) ==
  /\ Continues(t) /\ UNCHANGED <<distribution, bookings, no_shows, movements>>
  /\ job[t].stage = "opening" /\ job'[t].stage = "idle"
  /\ \E row \in Routes :
       /\ row.state = "open" /\ Selects(job[t].body, FreeAt(FirstOffered), row.chosen)
       /\ routes' = Append(routes, row)
Books(t) ==
  /\ Continues(t) /\ no_shows' = no_shows
  /\ job[t].stage = "chosen" /\ job'[t].stage = "idle"
  /\ \E row \in Bookings :
       /\ bookings' = Append(bookings, row) /\ row.status = "confirmed"
       /\ row.route = job[t].route /\ row.member = job[t].member
  /\ routes' = [routes EXCEPT ![job[t].route].state = "booked",
                              ![job[t].route].booking = Len(bookings) + 1]
  /\ movements' = Append(movements, [direction |-> "consumed", member |-> job[t].member,
                                     booking |-> Len(bookings) + 1])
  /\ distribution'.credits = ApplyConsumption(job[t].body.credits, job[t].member)
Misses(t) ==
  /\ Continues(t) /\ routes' = routes
  /\ job[t].stage = "returning" /\ job'[t].stage = "idle"
  /\ bookings' = [bookings EXCEPT ![job[t].booking].status = "no_show"]
  /\ no_shows' = Append(no_shows, job[t].booking)
  /\ movements' = Append(movements, [direction |-> "returned", member |-> job[t].member,
                                     booking |-> job[t].booking])
  /\ distribution'.credits = ApplyReturn(job[t].body.credits, job[t].member)
Cancels(t) ==
  /\ Continues(t) /\ UNCHANGED <<distribution, routes, no_shows, movements>>
  /\ job[t].stage = "cancelling" /\ job'[t].stage = "idle"
  /\ bookings' = [bookings EXCEPT ![job[t].booking].status = "cancelled"]

Kinds(t) ==
  \/ BeginsOpening(t) \/ BeginsBooking(t) \/ BeginsSettling(t)
  \/ Ends(t) \/ ReadsBody(t) \/ Chooses(t) \/ Lists(t)
  \/ Opens(t) \/ Books(t) \/ Misses(t) \/ Cancels(t)
Waits == Tables /\ UNCHANGED <<job, raced>>

LEMMA MoveOthers ==
  ASSUME job \in [Threads -> Jobs], NEW t \in Threads, NEW next, job' = [job EXCEPT ![t] = next]
  PROVE  job'[t] = next /\ Others(t)
BY DEF Others

LEMMA StartBegins ==
  ASSUME TypeInv, NEW t \in Threads, NEW call, Start(t, call)
  PROVE  Begins(t) /\ job'[t] = call
<1>1. job'[t] = call /\ Others(t)
  BY MoveOthers DEF Start, TypeInv, TypeOK
<1>2. ASSUME raced' = 0
      PROVE  raced = 0 /\ \A u \in Threads \ {t} : job[u].stage = "idle"
  <2>1. raced \in Nat
    BY BoundAssumption DEF TypeInv, TypeOK
  <2>. QED BY <1>2, <2>1 DEF Start, overlapped
<1>. QED BY <1>1, <1>2 DEF Begins, Start, records, Tables

LEMMA GoesContinues ==
  ASSUME TypeInv, NEW t \in Threads, NEW next, Goes(t, next), job[t].stage # "idle"
  PROVE  Continues(t) /\ Tables /\ job'[t] = next
BY MoveOthers DEF Goes, records, Tables, Continues, TypeInv, TypeOK

LEMMA DoneContinues ==
  ASSUME TypeInv, NEW t \in Threads, Done(t), job[t].stage # "idle", raced' = raced
  PROVE  Continues(t) /\ job'[t].stage = "idle"
BY MoveOthers DEF Done, Continues, TypeInv, TypeOK, IdleJob

LEMMA StepKinds ==
  ASSUME TypeInv, [Next]_vars
  PROVE  Waits \/ \E t \in Threads : Kinds(t)
<1>. DEFINE Goal == Waits \/ \E t \in Threads : Kinds(t)
<1>0. /\ job \in [Threads -> Jobs] /\ \A t \in Threads : job[t] \in Jobs
      /\ distribution \in Distributions
      /\ \A t \in Threads : Fits(job[t], bookings)
  BY DEF TypeInv, TypeOK, CallsFit
<1>1. ASSUME NEW t \in Threads, Open(t)
      PROVE  Goal
  <2>. DEFINE call == [IdleJob EXCEPT !.stage = "opening", !.body = distribution]
  <2>1. Start(t, call) /\ call.stage = "opening" /\ call.body = distribution
    BY <1>1 DEF Open, IdleJob
  <2>. HIDE DEF call
  <2>2. BeginsOpening(t)
    BY <2>1, StartBegins DEF BeginsOpening
  <2>. QED BY <2>2 DEF Kinds
<1>2. ASSUME NEW t \in Threads, OpenRoute(t)
      PROVE  Goal
  <2>1. PICK m \in Members : /\ Selects(job[t].body, FreeAt(FirstOffered), m)
                             /\ routes' = Append(routes, [state |-> "open", chosen |-> m,
                                                          offered |-> Offered, booking |-> 0])
    BY <1>2 DEF OpenRoute
  <2>. DEFINE row == [state |-> "open", chosen |-> m, offered |-> Offered, booking |-> 0]
  <2>2. row \in Routes /\ row.state = "open" /\ row.chosen = m
    BY DEF Routes, Offered
  <2>3. Continues(t) /\ job'[t].stage = "idle"
    BY <1>2, DoneContinues DEF OpenRoute
  <2>4. Opens(t)
    BY <1>2, <2>1, <2>2, <2>3 DEF OpenRoute, Opens
  <2>. QED BY <2>4 DEF Kinds
<1>3. ASSUME NEW t \in Threads, NotScheduled(t) \/ BookRefused(t)
      PROVE  Goal
  <2>1. Ends(t)
    BY <1>3, GoesContinues DEF NotScheduled, BookRefused, Ends, IdleJob
  <2>. QED BY <2>1 DEF Kinds
<1>4. ASSUME NEW t \in Threads, NEW i \in DOMAIN routes, NEW slot \in Slots, Book(t, i, slot)
      PROVE  Goal
  <2>. DEFINE call == [IdleJob EXCEPT !.stage = "booking", !.route = i, !.slot = slot]
  <2>1. Start(t, call) /\ IsOpen(i) /\ call.stage = "booking" /\ call.route = i
    BY <1>4 DEF Book, IdleJob
  <2>. HIDE DEF call
  <2>2. BeginsBooking(t)
    BY <2>1, StartBegins DEF BeginsBooking
  <2>. QED BY <2>2 DEF Kinds
<1>5. ASSUME NEW t \in Threads, BookReadDistribution(t)
      PROVE  Goal
  <2>. DEFINE next == [job[t] EXCEPT !.stage = "choosing", !.body = distribution]
  <2>1. Goes(t, next) /\ job[t].stage = "booking"
    BY <1>5 DEF BookReadDistribution
  <2>2. next.stage = "choosing" /\ next.body = distribution /\ next.route = job[t].route
    BY <1>0 DEF Jobs
  <2>. HIDE DEF next
  <2>3. ReadsBody(t)
    BY <2>1, <2>2, GoesContinues DEF ReadsBody
  <2>. QED BY <2>3 DEF Kinds
<1>6. ASSUME NEW t \in Threads, BookChoose(t)
      PROVE  Goal
  <2>1. PICK m \in Members :
          /\ Selects(job[t].body, Candidates(t), m)
          /\ Goes(t, [job[t] EXCEPT !.stage = "chosen", !.member = m,
                                    !.eligible = Cardinality(Assignable)])
    BY <1>6 DEF BookChoose
  <2>. DEFINE next == [job[t] EXCEPT !.stage = "chosen", !.member = m,
                                     !.eligible = Cardinality(Assignable)]
  <2>2. /\ next.stage = "chosen" /\ next.body = job[t].body /\ next.route = job[t].route
        /\ next.member = m
    BY <1>0 DEF Jobs
  <2>3. Goes(t, next) /\ job[t].stage = "choosing"
    BY <1>6, <2>1 DEF BookChoose
  <2>. HIDE DEF next
  <2>4. Chooses(t)
    BY <2>1, <2>2, <2>3, GoesContinues DEF Chooses
  <2>. QED BY <2>4 DEF Kinds
<1>7. ASSUME NEW t \in Threads, BookCommit(t)
      PROVE  Goal
  <2>. DEFINE row == [route |-> job[t].route, member |-> job[t].member, slot |-> job[t].slot,
                      status |-> "confirmed"]
  <2>1. /\ job[t] \in Jobs /\ job[t].slot \in Slots /\ job[t].member \in Members
    BY <1>0, <1>7 DEF BookCommit, Fits
  <2>2. row \in Bookings
    BY <2>1 DEF Bookings, Jobs
  <2>3. /\ row.status = "confirmed" /\ row.route = job[t].route /\ row.member = job[t].member
    OBVIOUS
  <2>4. bookings' = Append(bookings, row) /\ job[t].stage = "chosen"
    BY <1>7 DEF BookCommit
  <2>5. Continues(t) /\ job'[t].stage = "idle"
    BY <1>7, DoneContinues DEF BookCommit
  <2>6. distribution'.credits = ApplyConsumption(job[t].body.credits, job[t].member)
    BY <1>0, <1>7 DEF BookCommit, Distributions
  <2>. HIDE DEF row
  <2>7. Books(t)
    BY <1>7, <2>2, <2>3, <2>4, <2>5, <2>6 DEF BookCommit, Books
  <2>. QED BY <2>7 DEF Kinds
<1>8. ASSUME NEW t \in Threads, NEW b \in DOMAIN bookings, MarkNoShow(t, b) \/ Cancel(t, b)
      PROVE  Goal
  <2>1. PICK call : /\ Start(t, call) /\ call.stage \in {"missing", "cancelling"}
                    /\ call.booking = b
    <3>. DEFINE mark == [IdleJob EXCEPT !.stage = "missing", !.booking = b,
                                        !.member = bookings[b].member]
                cancel == [IdleJob EXCEPT !.stage = "cancelling", !.booking = b]
    <3>1. mark.stage = "missing" /\ mark.booking = b
          /\ cancel.stage = "cancelling" /\ cancel.booking = b
      BY DEF IdleJob
    <3>2. Start(t, mark) \/ Start(t, cancel)
      BY <1>8 DEF MarkNoShow, Cancel
    <3>. HIDE DEF mark, cancel
    <3>. QED BY <3>1, <3>2
  <2>2. bookings[b].status = "confirmed"
    BY <1>8 DEF MarkNoShow, Cancel
  <2>3. BeginsSettling(t)
    BY <2>1, <2>2, StartBegins DEF BeginsSettling
  <2>. QED BY <2>3 DEF Kinds
<1>9. ASSUME NEW t \in Threads, NoShowList(t)
      PROVE  Goal
  <2>. DEFINE next == [job[t] EXCEPT !.stage = "listed"]
  <2>1. next.stage = "listed" /\ next.booking = job[t].booking /\ IdleJob.stage = "idle"
    BY <1>0 DEF Jobs, IdleJob
  <2>2. job[t].stage = "missing" /\ (Goes(t, next) \/ Goes(t, IdleJob))
    BY <1>9 DEF NoShowList
  <2>. HIDE DEF next
  <2>3. Lists(t) \/ Ends(t)
    BY <2>1, <2>2, GoesContinues DEF Lists, Ends
  <2>. QED BY <2>3 DEF Kinds
<1>10. ASSUME NEW t \in Threads, NoShowReadDistribution(t)
       PROVE  Goal
  <2>. DEFINE next == [job[t] EXCEPT !.stage = "returning", !.body = distribution]
  <2>1. /\ next.stage = "returning" /\ next.booking = job[t].booking /\ next.body = distribution
        /\ IdleJob.stage = "idle"
    BY <1>0 DEF Jobs, IdleJob
  <2>2. job[t].stage = "listed" /\ (Goes(t, next) \/ Goes(t, IdleJob))
    BY <1>10 DEF NoShowReadDistribution
  <2>. HIDE DEF next
  <2>3. ReadsBody(t) \/ Ends(t)
    BY <2>1, <2>2, GoesContinues DEF ReadsBody, Ends
  <2>. QED BY <2>3 DEF Kinds
<1>11. ASSUME NEW t \in Threads, NoShowCommit(t)
       PROVE  Goal
  <2>1. Continues(t) /\ job'[t].stage = "idle" /\ job[t].stage = "returning"
    BY <1>11, DoneContinues DEF NoShowCommit
  <2>2. distribution'.credits = ApplyReturn(job[t].body.credits, job[t].member)
    BY <1>0, <1>11 DEF NoShowCommit, Distributions
  <2>3. Misses(t)
    BY <1>11, <2>1, <2>2 DEF NoShowCommit, Misses
  <2>. QED BY <2>3 DEF Kinds
<1>12. ASSUME NEW t \in Threads, CancelUpdate(t)
       PROVE  Goal
  <2>1. Continues(t) /\ job'[t].stage = "idle" /\ job[t].stage = "cancelling"
    BY <1>12, DoneContinues DEF CancelUpdate
  <2>2. Cancels(t)
    BY <1>12, <2>1 DEF CancelUpdate, Cancels
  <2>. QED BY <2>2 DEF Kinds
<1>13. ASSUME NEW m \in Members, NEW calendar \in Calendars, EditTeam(m, calendar)
       PROVE  Goal
  BY <1>13 DEF EditTeam, Waits, Tables
<1>14. ASSUME UNCHANGED vars
       PROVE  Goal
  BY <1>14 DEF vars, records, Waits, Tables
<1>. HIDE DEF Goal
<1>15. ASSUME NEW t \in Threads, Handler(t)
       PROVE  Goal
  BY <1>2, <1>3, <1>5, <1>6, <1>7, <1>9, <1>10, <1>11, <1>12, <1>15 DEF Handler
<1>16. Goal
  BY <1>1, <1>4, <1>8, <1>13, <1>14, <1>15 DEF Next
<1>. QED BY <1>16 DEF Goal

-----------------------------------------------------------------------------
(* A booking, its movements and its route.                                  *)

RepeatsOf(b) == {k \in DOMAIN no_shows : no_shows[k] = b}

Linked(b) ==
  /\ bookings[b].route \in DOMAIN routes /\ ~IsOpen(bookings[b].route)
  /\ Cardinality(MovementsOf("consumed", b)) = 1
  /\ Cardinality(MovementsOf("returned", b)) = Cardinality(RepeatsOf(b))

Closed(i) ==
  ~IsOpen(i) => routes[i].booking \in DOMAIN bookings /\ bookings[routes[i].booking].route = i

MovementsNamed == \A k \in DOMAIN movements : movements[k].booking \in DOMAIN bookings
RoutesFit ==
  \A t \in Threads : job[t].stage \in {"booking", "choosing", "chosen"} =>
    job[t].route \in DOMAIN routes

TogetherInv ==
  /\ LedgerInv /\ MovementsNamed /\ RoutesFit
  /\ \A b \in DOMAIN bookings : Linked(b)
  /\ \A i \in DOMAIN routes : Closed(i)

LEMMA StatusAfter ==
  ASSUME NEW held \in Seq(Bookings), NEW b \in Nat, NEW status
  PROVE  LET next == [held EXCEPT ![b].status = status]
         IN /\ DOMAIN next = DOMAIN held
            /\ \A k \in DOMAIN held : /\ next[k].route = held[k].route
                                      /\ next[k].member = held[k].member
                                      /\ k # b => next[k] = held[k]
<1>. DEFINE next == [held EXCEPT ![b].status = status]
<1>1. ASSUME NEW k \in DOMAIN held
      PROVE  /\ next[k].route = held[k].route /\ next[k].member = held[k].member
             /\ k # b => next[k] = held[k]
  <2>1. held[k] \in Bookings
    OBVIOUS
  <2>2. next[k] = IF k = b THEN [held[k] EXCEPT !.status = status] ELSE held[k]
    OBVIOUS
  <2>. QED BY <2>1, <2>2 DEF Bookings
<1>2. DOMAIN next = DOMAIN held
  OBVIOUS
<1>. QED BY <1>1, <1>2

(* A row added to a table is one more of its kind. *)
LEMMA MovementAdded ==
  ASSUME movements \in Seq(Movements), NEW row \in Movements, movements' = Append(movements, row),
         NEW direction, NEW b
  PROVE  /\ row.direction = direction /\ row.booking = b =>
              Cardinality(MovementsOf(direction, b)') = Cardinality(MovementsOf(direction, b)) + 1
         /\ ~(row.direction = direction /\ row.booking = b) =>
              MovementsOf(direction, b)' = MovementsOf(direction, b)
         /\ Cardinality(MovementsOf(direction, b)) \in Nat
<1>. DEFINE last == Len(movements) + 1
<1>1. /\ DOMAIN movements = 1..Len(movements) /\ DOMAIN movements' = 1..last
      /\ Len(movements) \in Nat /\ movements'[last] = row
      /\ \A k \in 1..Len(movements) : movements'[k] = movements[k]
  OBVIOUS
<1>2. IsFiniteSet(DOMAIN movements)
  BY RowsFinite
<1>3. IsFiniteSet(MovementsOf(direction, b))
  BY <1>2, FS_Subset DEF MovementsOf
<1>4. last \notin MovementsOf(direction, b)
  BY <1>1 DEF MovementsOf
<1>5. ASSUME row.direction = direction, row.booking = b
      PROVE  MovementsOf(direction, b)' = MovementsOf(direction, b) \cup {last}
  BY <1>1, <1>5 DEF MovementsOf
<1>6. ASSUME ~(row.direction = direction /\ row.booking = b)
      PROVE  MovementsOf(direction, b)' = MovementsOf(direction, b)
  BY <1>1, <1>6 DEF MovementsOf
<1>7. Cardinality(MovementsOf(direction, b) \cup {last})
        = Cardinality(MovementsOf(direction, b)) + 1
  <2>. HIDE DEF last
  <2>. QED BY <1>3, <1>4, FS_AddElement
<1>. QED BY <1>3, <1>5, <1>6, <1>7, FS_CardinalityType

LEMMA RepeatAdded ==
  ASSUME no_shows \in Seq(Nat), NEW c \in Nat, no_shows' = Append(no_shows, c), NEW b
  PROVE  /\ b = c => Cardinality(RepeatsOf(b)') = Cardinality(RepeatsOf(b)) + 1
         /\ b # c => RepeatsOf(b)' = RepeatsOf(b)
         /\ Cardinality(RepeatsOf(b)) \in Nat
<1>. DEFINE last == Len(no_shows) + 1
<1>1. /\ DOMAIN no_shows = 1..Len(no_shows) /\ DOMAIN no_shows' = 1..last
      /\ Len(no_shows) \in Nat /\ no_shows'[last] = c
      /\ \A k \in 1..Len(no_shows) : no_shows'[k] = no_shows[k]
  OBVIOUS
<1>2. IsFiniteSet(DOMAIN no_shows)
  BY RowsFinite
<1>3. IsFiniteSet(RepeatsOf(b))
  BY <1>2, FS_Subset DEF RepeatsOf
<1>4. last \notin RepeatsOf(b)
  BY <1>1 DEF RepeatsOf
<1>5. b = c => RepeatsOf(b)' = RepeatsOf(b) \cup {last}
  BY <1>1 DEF RepeatsOf
<1>6. b # c => RepeatsOf(b)' = RepeatsOf(b)
  BY <1>1 DEF RepeatsOf
<1>7. Cardinality(RepeatsOf(b) \cup {last}) = Cardinality(RepeatsOf(b)) + 1
  <2>. HIDE DEF last
  <2>. QED BY <1>3, <1>4, FS_AddElement
<1>. QED BY <1>3, <1>5, <1>6, <1>7, FS_CardinalityType

LEMMA RowTypes ==
  ASSUME TypeInv
  PROVE  /\ routes \in Seq(Routes) /\ bookings \in Seq(Bookings) /\ no_shows \in Seq(Nat)
         /\ movements \in Seq(Movements) /\ Len(bookings) \in Nat /\ Len(routes) \in Nat
         /\ DOMAIN bookings = 1..Len(bookings) /\ DOMAIN routes = 1..Len(routes)
         /\ distribution \in Distributions
         /\ \A t \in Threads :
              /\ job[t] \in Jobs /\ job[t].booking \in Nat
              /\ job[t].body \in Distributions
              /\ job[t].stage = "chosen" => job[t].member \in Members
              /\ job[t].stage = "returning" =>
                   /\ job[t].booking \in DOMAIN bookings
                   /\ job[t].member = bookings[job[t].booking].member /\ job[t].member \in Members
<1>1. /\ routes \in Seq(Routes) /\ bookings \in Seq(Bookings) /\ no_shows \in Seq(Nat)
      /\ movements \in Seq(Movements) /\ distribution \in Distributions
      /\ \A t \in Threads : job[t] \in Jobs /\ Fits(job[t], bookings)
  BY DEF TypeInv, TypeOK, CallsFit
<1>2. ASSUME NEW t \in Threads, job[t].stage = "returning"
      PROVE  /\ job[t].booking \in DOMAIN bookings
             /\ job[t].member = bookings[job[t].booking].member /\ job[t].member \in Members
  <2>1. job[t].booking \in DOMAIN bookings /\ job[t].member = bookings[job[t].booking].member
    BY <1>1, <1>2 DEF Fits
  <2>2. bookings[job[t].booking] \in Bookings
    BY <1>1, <2>1, RowType
  <2>. QED BY <2>1, <2>2 DEF Bookings
<1>3. /\ Len(bookings) \in Nat /\ Len(routes) \in Nat
      /\ DOMAIN bookings = 1..Len(bookings) /\ DOMAIN routes = 1..Len(routes)
  BY <1>1
<1>4. ASSUME NEW t \in Threads
      PROVE  /\ job[t].booking \in Nat /\ job[t].body \in Distributions
             /\ job[t].stage = "chosen" => job[t].member \in Members
  BY <1>1 DEF Jobs, Fits
<1>. QED BY <1>1, <1>2, <1>3, <1>4

(* A booking keeps its movements while no movement and no no-show is added. *)
LEMMA LinkedKept ==
  ASSUME UNCHANGED <<no_shows, movements>>, DOMAIN routes \subseteq DOMAIN routes',
         \A i \in DOMAIN routes : routes'[i] = routes[i],
         NEW b, bookings'[b].route = bookings[b].route, Linked(b)
  PROVE  Linked(b)'
<1>1. /\ MovementsOf("consumed", b)' = MovementsOf("consumed", b)
      /\ MovementsOf("returned", b)' = MovementsOf("returned", b)
  BY DEF MovementsOf
<1>2. RepeatsOf(b)' = RepeatsOf(b)
  BY DEF RepeatsOf
<1>. QED BY <1>1, <1>2 DEF Linked, IsOpen

LEMMA MovementsNamedAppend ==
  ASSUME movements \in Seq(Movements), MovementsNamed, NEW row, row.booking \in DOMAIN bookings',
         movements' = Append(movements, row), DOMAIN bookings \subseteq DOMAIN bookings'
  PROVE  MovementsNamed'
<1>1. /\ DOMAIN movements' = DOMAIN movements \cup {Len(movements) + 1}
      /\ movements'[Len(movements) + 1] = row
      /\ \A k \in DOMAIN movements : movements'[k] = movements[k]
  OBVIOUS
<1>. QED BY <1>1 DEF MovementsNamed

LEMMA RoutesFitStep ==
  ASSUME TypeInv, RoutesFit, NEW t \in Threads, Kinds(t), DOMAIN routes \subseteq DOMAIN routes'
  PROVE  RoutesFit'
<1>1. \A u \in Threads \ {t} : job'[u] = job[u]
  BY DEF Kinds, BeginsOpening, BeginsBooking, BeginsSettling, Ends, ReadsBody, Chooses, Lists,
     Opens, Books, Misses, Cancels, Begins, Continues, Others
<1>2. job'[t].stage \in {"booking", "choosing", "chosen"} => job'[t].route \in DOMAIN routes
  BY DEF Kinds, BeginsOpening, BeginsBooking, BeginsSettling, Ends, ReadsBody, Chooses, Lists,
     Opens, Books, Misses, Cancels, RoutesFit
<1>. QED BY <1>1, <1>2 DEF RoutesFit

LEMMA TogetherBooks ==
  ASSUME TogetherInv, LedgerInv', NEW t \in Threads, Books(t)
  PROVE  TogetherInv'
<1>0. TypeInv /\ TypeInv' /\ NoShowsNamed /\ MovementsNamed /\ RoutesFit
  BY DEF TogetherInv, LedgerInv
<1>rows. PICK i, b, move :
        /\ i = job[t].route /\ b = Len(bookings) + 1
        /\ move = [direction |-> "consumed", member |-> job[t].member, booking |-> b]
  OBVIOUS
<1>1. PICK row \in Bookings : bookings' = Append(bookings, row) /\ row.route = i
  BY <1>rows DEF Books
<1>2. /\ DOMAIN bookings' = 1..b /\ bookings'[b] = row /\ DOMAIN bookings = 1..(b - 1)
      /\ \A k \in DOMAIN bookings : bookings'[k] = bookings[k]
      /\ b \in Nat \ {0} /\ b \notin DOMAIN bookings
  BY <1>0, <1>1, <1>rows, RowTypes
<1>3. i \in DOMAIN routes
  BY <1>0, <1>rows DEF RoutesFit, Books
<1>4. /\ DOMAIN routes' = DOMAIN routes /\ ~IsOpen(i)' /\ routes'[i].booking = b
      /\ \A k \in DOMAIN routes \ {i} : routes'[k] = routes[k]
  <2>1. routes' = [routes EXCEPT ![i].state = "booked", ![i].booking = b]
    BY <1>rows DEF Books
  <2>2. routes \in Seq(Routes)
    BY <1>0, RowTypes
  <2>3. /\ DOMAIN routes' = DOMAIN routes
        /\ routes'[i].state = "booked" /\ routes'[i].booking = b
        /\ \A k \in DOMAIN routes \ {i} : routes'[k] = routes[k]
    <3>1. routes[i] \in Routes
      BY <1>3, <2>2
    <3>. QED BY <1>3, <2>1, <2>2, <3>1 DEF Routes
  <2>. QED BY <2>3 DEF IsOpen
<1>5. move \in Movements /\ movements' = Append(movements, move) /\ movements \in Seq(Movements)
  BY <1>0, <1>2, <1>rows, RowTypes DEF Books, Movements
<1>6. no_shows' = no_shows
  BY DEF Books
<1>7. move.direction = "consumed" /\ move.booking = b
  BY <1>rows
<1>8. ASSUME NEW k \in DOMAIN bookings
      PROVE  Linked(k)'
  <2>1. /\ k # b /\ Linked(k) /\ bookings'[k] = bookings[k]
    BY <1>2 DEF TogetherInv
  <2>2. /\ MovementsOf("consumed", k)' = MovementsOf("consumed", k)
        /\ MovementsOf("returned", k)' = MovementsOf("returned", k)
    BY <1>5, <1>7, <2>1, MovementAdded
  <2>3. RepeatsOf(k)' = RepeatsOf(k)
    BY <1>6 DEF RepeatsOf
  <2>4. bookings'[k].route \in DOMAIN routes' /\ ~IsOpen(bookings[k].route)'
    BY <1>4, <2>1 DEF Linked, IsOpen
  <2>. QED BY <2>1, <2>2, <2>3, <2>4 DEF Linked, IsOpen
<1>9. Linked(b)'
  <2>1. MovementsOf("consumed", b) = {} /\ MovementsOf("returned", b) = {}
    BY <1>0, <1>2 DEF MovementsNamed, MovementsOf
  <2>2. RepeatsOf(b) = {} /\ RepeatsOf(b)' = RepeatsOf(b)
    BY <1>0, <1>2, <1>6 DEF NoShowsNamed, RepeatsOf
  <2>3. Cardinality({}) = 0
    BY FS_EmptySet
  <2>4. /\ Cardinality(MovementsOf("consumed", b)') = 0 + 1
        /\ MovementsOf("returned", b)' = {}
    BY <1>5, <1>7, <2>1, <2>3, MovementAdded
  <2>5. bookings'[b].route = i
    BY <1>1, <1>2
  <2>. QED BY <1>3, <1>4, <2>2, <2>3, <2>4, <2>5, <2>1 DEF Linked, IsOpen
<1>10. \A k \in DOMAIN routes' : Closed(k)'
  <2>1. ASSUME NEW k \in DOMAIN routes, k # i
        PROVE  Closed(k)'
    BY <1>2, <1>4, <2>1 DEF TogetherInv, Closed, IsOpen
  <2>2. Closed(i)'
    BY <1>1, <1>2, <1>4 DEF Closed
  <2>. QED BY <1>4, <2>1, <2>2
<1>11. MovementsNamed'
  <2>1. move.booking \in DOMAIN bookings' /\ DOMAIN bookings \subseteq DOMAIN bookings'
    BY <1>2, <1>7
  <2>. QED BY <1>0, <1>5, <2>1, MovementsNamedAppend
<1>12. RoutesFit'
  BY <1>0, <1>4, RoutesFitStep DEF Kinds
<1>13. \A k \in DOMAIN bookings' : Linked(k)'
  BY <1>2, <1>8, <1>9
<1>. QED BY <1>10, <1>11, <1>12, <1>13 DEF TogetherInv

LEMMA TogetherMisses ==
  ASSUME TogetherInv, LedgerInv', NEW t \in Threads, Misses(t)
  PROVE  TogetherInv'
<1>. DEFINE c == job[t].booking
            move == [direction |-> "returned", member |-> job[t].member, booking |-> c]
<1>0. TypeInv /\ NoShowsNamed /\ MovementsNamed /\ RoutesFit
  BY DEF TogetherInv, LedgerInv
<1>1. c \in DOMAIN bookings /\ c \in Nat /\ job[t].member \in Members
  BY <1>0, RowTypes DEF Misses
<1>2. /\ DOMAIN bookings' = DOMAIN bookings
      /\ \A k \in DOMAIN bookings : bookings'[k].route = bookings[k].route
  BY <1>0, <1>1, RowTypes, StatusAfter DEF Misses
<1>3. move \in Movements /\ movements' = Append(movements, move) /\ movements \in Seq(Movements)
  BY <1>0, <1>1, RowTypes DEF Misses, Movements
<1>4. no_shows' = Append(no_shows, c) /\ no_shows \in Seq(Nat) /\ routes' = routes
  BY <1>0, RowTypes DEF Misses
<1>5. move.direction = "returned" /\ move.booking = c
  OBVIOUS
<1>. HIDE DEF move
<1>6. ASSUME NEW k \in DOMAIN bookings
      PROVE  Linked(k)'
  <2>1. Linked(k) /\ bookings'[k].route = bookings[k].route
    BY <1>2 DEF TogetherInv
  <2>2. MovementsOf("consumed", k)' = MovementsOf("consumed", k)
    BY <1>3, <1>5, MovementAdded
  <2>3. Cardinality(MovementsOf("returned", k)') = Cardinality(RepeatsOf(k)')
    <3>1. CASE k = c
      <4>1. Cardinality(MovementsOf("returned", k)') = Cardinality(MovementsOf("returned", k)) + 1
        BY <1>3, <1>5, <3>1, MovementAdded
      <4>2. Cardinality(RepeatsOf(k)') = Cardinality(RepeatsOf(k)) + 1
        BY <1>1, <1>4, <3>1, RepeatAdded
      <4>. QED BY <2>1, <4>1, <4>2 DEF Linked
    <3>2. CASE k # c
      <4>1. MovementsOf("returned", k)' = MovementsOf("returned", k)
        BY <1>3, <1>5, <3>2, MovementAdded
      <4>2. RepeatsOf(k)' = RepeatsOf(k)
        BY <1>1, <1>4, <3>2, RepeatAdded
      <4>. QED BY <2>1, <4>1, <4>2 DEF Linked
    <3>. QED BY <3>1, <3>2
  <2>. QED BY <1>4, <2>1, <2>2, <2>3 DEF Linked, IsOpen
<1>7. \A i \in DOMAIN routes' : Closed(i)'
  BY <1>2, <1>4 DEF TogetherInv, Closed, IsOpen
<1>8. MovementsNamed'
  BY <1>0, <1>1, <1>2, <1>3, <1>5 DEF MovementsNamed
<1>9. RoutesFit'
  BY <1>0, <1>4, RoutesFitStep DEF Kinds
<1>. QED BY <1>2, <1>6, <1>7, <1>8, <1>9 DEF TogetherInv

LEMMA TogetherStep ==
  ASSUME TogetherInv, [Next]_vars
  PROVE  TogetherInv'
<1>0. /\ LedgerInv' /\ TypeInv /\ TypeInv' /\ NoShowsNamed /\ MovementsNamed /\ RoutesFit
  BY LedgerStep DEF TogetherInv, LedgerInv
<1>1. ASSUME Tables, RoutesFit'
      PROVE  TogetherInv'
  <2>1. \A b \in DOMAIN bookings' : Linked(b)'
    BY <1>1, LinkedKept DEF Tables, TogetherInv
  <2>2. \A i \in DOMAIN routes' : Closed(i)'
    BY <1>1 DEF Tables, TogetherInv, Closed, IsOpen
  <2>3. MovementsNamed'
    BY <1>0, <1>1 DEF Tables, MovementsNamed
  <2>. QED BY <1>0, <1>1, <2>1, <2>2, <2>3 DEF TogetherInv
<1>2. CASE Waits
  <2>1. RoutesFit'
    BY <1>0, <1>2 DEF Waits, Tables, RoutesFit
  <2>. QED BY <1>1, <1>2, <2>1 DEF Waits
<1>3. ASSUME NEW t \in Threads, Kinds(t)
      PROVE  TogetherInv'
  <2>1. CASE Tables
    <3>1. RoutesFit'
      BY <1>0, <1>3, <2>1, RoutesFitStep DEF Tables
    <3>. QED BY <1>1, <2>1, <3>1
  <2>2. CASE Books(t)
    BY <1>0, <2>2, TogetherBooks
  <2>3. CASE Misses(t)
    BY <1>0, <2>3, TogetherMisses
  <2>4. CASE Opens(t)
    <3>1. PICK row \in Routes : row.state = "open" /\ routes' = Append(routes, row)
      BY <2>4 DEF Opens
    <3>2. /\ DOMAIN routes \subseteq DOMAIN routes'
          /\ \A i \in DOMAIN routes : routes'[i] = routes[i]
          /\ \A i \in DOMAIN routes' \ DOMAIN routes : IsOpen(i)'
      BY <1>0, <3>1, RowTypes DEF IsOpen
    <3>3. UNCHANGED <<bookings, no_shows, movements>>
      BY <2>4 DEF Opens
    <3>4. \A b \in DOMAIN bookings' : Linked(b)'
      BY <3>2, <3>3, LinkedKept DEF TogetherInv
    <3>5. \A i \in DOMAIN routes' : Closed(i)'
      BY <3>2, <3>3 DEF TogetherInv, Closed, IsOpen
    <3>6. RoutesFit' /\ MovementsNamed'
      BY <1>0, <1>3, <3>2, <3>3, RoutesFitStep DEF MovementsNamed
    <3>. QED BY <1>0, <3>4, <3>5, <3>6 DEF TogetherInv
  <2>5. CASE Cancels(t)
    <3>1. /\ DOMAIN bookings' = DOMAIN bookings
          /\ \A k \in DOMAIN bookings : bookings'[k].route = bookings[k].route
      BY <1>0, <2>5, RowTypes, StatusAfter DEF Cancels
    <3>2. UNCHANGED <<routes, no_shows, movements>>
      BY <2>5 DEF Cancels
    <3>3. \A b \in DOMAIN bookings' : Linked(b)'
      BY <3>1, <3>2, LinkedKept DEF TogetherInv
    <3>4. \A i \in DOMAIN routes' : Closed(i)'
      BY <3>1, <3>2 DEF TogetherInv, Closed, IsOpen
    <3>5. RoutesFit' /\ MovementsNamed'
      BY <1>0, <1>3, <3>1, <3>2, RoutesFitStep DEF MovementsNamed
    <3>. QED BY <1>0, <3>3, <3>4, <3>5 DEF TogetherInv
  <2>. QED BY <1>3, <2>1, <2>2, <2>3, <2>4, <2>5
       DEF Kinds, BeginsOpening, BeginsBooking, BeginsSettling, Begins, Ends, ReadsBody, Chooses,
           Lists
<1>. QED BY <1>0, <1>2, <1>3, StepKinds

LEMMA TogetherInit == Init => TogetherInv
<1>. SUFFICES ASSUME Init PROVE TogetherInv
  OBVIOUS
<1>1. /\ DOMAIN routes = {} /\ DOMAIN bookings = {} /\ DOMAIN movements = {}
      /\ \A t \in Threads : job[t].stage = "idle"
  BY DEF Init, IdleJob
<1>. QED BY <1>1, InitLedger DEF TogetherInv, MovementsNamed, RoutesFit

(* Whatever calls interleave, a booking, the credit it consumed and the     *)
(* closed route come together, and so do a no-show row and the credit it    *)
(* returned (the transactions of book and mark_no_show).                    *)
THEOREM TogetherCorrect == Spec => []CommittedTogether
<1>1. TogetherInv => CommittedTogether
  BY DEF TogetherInv, CommittedTogether, Linked, Closed, RepeatsOf
<1>. QED BY <1>1, TogetherInit, TogetherStep, PTL DEF Spec

-----------------------------------------------------------------------------
(* Calls served one at a time: what a call remembers is still so, and the   *)
(* ledger is the one the bookings and the no-shows explain.                 *)

Current(t) ==
  /\ job[t].stage \in {"choosing", "chosen", "returning"} => job[t].body = distribution
  /\ job[t].stage \in {"booking", "choosing", "chosen"} => IsOpen(job[t].route)
  /\ job[t].stage \in {"missing", "listed", "returning", "cancelling"} =>
       bookings[job[t].booking].status = "confirmed"

Alone ==
  /\ \A t, u \in Threads : job[t].stage # "idle" /\ job[u].stage # "idle" => t = u
  /\ \A t \in Threads : Current(t)

Once == \A a, b \in DOMAIN bookings : bookings[a].route = bookings[b].route => a = b

Explains(credits, booked, missed) ==
  \A m \in Members :
    /\ credits[m].turns = booked[m] /\ credits[m].returned = missed[m]
    /\ credits[m].consumed + credits[m].returned = credits[m].turns

Explained == Explains(distribution.credits, Booked, Missed)

SoloInv == TogetherInv /\ (raced = 0 => Alone /\ Once /\ Explained)

(* A call that has the service to itself leaves the others idle. *)
LEMMA AloneBefore ==
  ASSUME NEW t \in Threads, Kinds(t), raced = 0 => Alone, raced' = 0
  PROVE  raced = 0 /\ Others(t) /\ \A u \in Threads \ {t} : job[u].stage = "idle"
<1>1. CASE Begins(t)
  BY <1>1 DEF Begins
<1>2. CASE Continues(t)
  BY <1>2 DEF Continues, Alone
<1>. QED BY <1>1, <1>2 DEF Kinds, BeginsOpening, BeginsBooking, BeginsSettling, Ends, ReadsBody,
           Chooses, Lists, Opens, Books, Misses, Cancels

LEMMA CurrentStep ==
  ASSUME NEW t \in Threads, Kinds(t), Current(t)
  PROVE  Current(t)'
<1>1. CASE BeginsOpening(t) \/ Ends(t) \/ Opens(t) \/ Books(t) \/ Misses(t) \/ Cancels(t)
  BY <1>1 DEF BeginsOpening, Ends, Opens, Books, Misses, Cancels, Current
<1>2. CASE BeginsBooking(t)
  BY <1>2 DEF BeginsBooking, Begins, Tables, Current, IsOpen
<1>3. CASE BeginsSettling(t)
  BY <1>3 DEF BeginsSettling, Begins, Tables, Current
<1>4. CASE ReadsBody(t)
  BY <1>4 DEF ReadsBody, Tables, Current, IsOpen
<1>5. CASE Chooses(t)
  BY <1>5 DEF Chooses, Tables, Current, IsOpen
<1>6. CASE Lists(t)
  BY <1>6 DEF Lists, Tables, Current
<1>. QED BY <1>1, <1>2, <1>3, <1>4, <1>5, <1>6 DEF Kinds

LEMMA AloneStep ==
  ASSUME NEW t \in Threads, Kinds(t), raced = 0 => Alone, raced' = 0
  PROVE  Alone'
<1>1. /\ Others(t) /\ \A u \in Threads \ {t} : job[u].stage = "idle"
      /\ Current(t)
  BY AloneBefore DEF Alone
<1>2. Current(t)'
  BY <1>1, CurrentStep
<1>3. \A u \in Threads \ {t} : job'[u].stage = "idle"
  BY <1>1 DEF Others
<1>4. \A u \in Threads \ {t} : Current(u)'
  BY <1>3 DEF Current
<1>. QED BY <1>2, <1>3, <1>4 DEF Alone

(* The counts of a member, when nobody else's rows change. *)
LEMMA BookedSame ==
  ASSUME DOMAIN bookings' = DOMAIN bookings,
         \A b \in DOMAIN bookings : bookings'[b].member = bookings[b].member, NEW m
  PROVE  BookingsOf(m)' = BookingsOf(m)
BY DEF BookingsOf

LEMMA BookedOther ==
  ASSUME bookings \in Seq(Bookings), NEW row \in Bookings, bookings' = Append(bookings, row),
         NEW m, m # row.member
  PROVE  BookingsOf(m)' = BookingsOf(m)
<1>1. /\ DOMAIN bookings = 1..Len(bookings) /\ DOMAIN bookings' = 1..(Len(bookings) + 1)
      /\ Len(bookings) \in Nat /\ bookings'[Len(bookings) + 1] = row
      /\ \A k \in 1..Len(bookings) : bookings'[k] = bookings[k]
  OBVIOUS
<1>. QED BY <1>1 DEF BookingsOf

LEMMA MissedSame ==
  ASSUME NoShowsNamed, Kept(bookings, bookings'), no_shows' = no_shows, NEW m
  PROVE  NoShowsOf(m)' = NoShowsOf(m)
BY DEF NoShowsOf, NoShowsNamed, Kept

LEMMA MissedOther ==
  ASSUME NoShowsNamed, Kept(bookings, bookings'), no_shows \in Seq(Nat), NEW b \in DOMAIN bookings,
         b \in Nat, no_shows' = Append(no_shows, b), NEW m, m # bookings[b].member
  PROVE  NoShowsOf(m)' = NoShowsOf(m)
<1>1. /\ DOMAIN no_shows = 1..Len(no_shows) /\ DOMAIN no_shows' = 1..(Len(no_shows) + 1)
      /\ Len(no_shows) \in Nat /\ no_shows'[Len(no_shows) + 1] = b
      /\ \A n \in 1..Len(no_shows) : no_shows'[n] = no_shows[n]
  OBVIOUS
<1>2. /\ \A n \in DOMAIN no_shows : bookings'[no_shows[n]].member = bookings[no_shows[n]].member
      /\ bookings'[b].member = bookings[b].member
  BY DEF NoShowsNamed, Kept
<1>. QED BY <1>1, <1>2 DEF NoShowsOf

(* A booking explains the turn and the credit it consumed. *)
LEMMA BooksExplained ==
  ASSUME TogetherInv, Alone, Explained, NEW t \in Threads, Books(t)
  PROVE  Explained'
<1>0. TypeInv /\ TypeOK /\ NoShowsNamed
  BY DEF TogetherInv, LedgerInv, TypeInv
<1>1. PICK row \in Bookings : bookings' = Append(bookings, row) /\ row.member = job[t].member
  BY DEF Books
<1>2. PICK who \in Members, credits \in [Members -> Entries] :
        /\ who = job[t].member /\ row.member = who /\ credits = distribution.credits
        /\ distribution'.credits = ApplyConsumption(credits, who)
  <2>1. distribution.credits \in [Members -> Entries] /\ row.member \in Members
    BY <1>0 DEF TypeOK, Distributions, Bookings
  <2>2. job[t].body = distribution
    BY DEF Books, Alone, Current
  <2>. QED BY <1>1, <2>1, <2>2 DEF Books
<1>3. bookings \in Seq(Bookings) /\ Kept(bookings, bookings') /\ no_shows' = no_shows
  BY <1>0, <1>1, KeptAppend DEF TypeOK, Books
<1>4. ASSUME NEW m \in Members
      PROVE  /\ distribution'.credits[m].turns = Booked'[m]
             /\ distribution'.credits[m].returned = Missed'[m]
             /\ distribution'.credits[m].consumed + distribution'.credits[m].returned
                  = distribution'.credits[m].turns
  <2>1. /\ credits[m] \in Entries
        /\ credits[m].turns = Booked[m] /\ credits[m].returned = Missed[m]
        /\ credits[m].consumed + credits[m].returned = credits[m].turns
    BY <1>2 DEF Explained, Explains
  <2>2. Missed'[m] = Missed[m]
    BY <1>0, <1>3, MissedSame DEF Missed
  <2>3. CASE m = who
    <3>1. Booked'[m] = Booked[m] + 1
      BY <1>0, <1>1, <1>2, <2>3, BookedOneMore
    <3>2. /\ distribution'.credits[m].turns = credits[m].turns + 1
          /\ distribution'.credits[m].consumed = credits[m].consumed + 1
          /\ distribution'.credits[m].returned = credits[m].returned
      BY <1>2, <2>1, <2>3 DEF ApplyConsumption, Entries
    <3>3. credits[m].turns \in Nat /\ credits[m].consumed \in Nat /\ credits[m].returned \in Nat
      BY <2>1 DEF Entries
    <3>. QED BY <2>1, <2>2, <3>1, <3>2, <3>3
  <2>4. CASE m # who
    <3>1. Booked'[m] = Booked[m]
      BY <1>1, <1>2, <1>3, <2>4, BookedOther DEF Booked
    <3>2. distribution'.credits[m] = credits[m]
      BY <1>2, <2>4 DEF ApplyConsumption
    <3>. QED BY <2>1, <2>2, <3>1, <3>2
  <2>. QED BY <2>3, <2>4
<1>. QED BY <1>4 DEF Explained, Explains

(* A no-show explains the credit that came back. *)
LEMMA MissesExplained ==
  ASSUME TogetherInv, Alone, Explained, NEW t \in Threads, Misses(t)
  PROVE  Explained'
<1>0. TypeInv /\ TypeOK /\ NoShowsNamed
  BY DEF TogetherInv, LedgerInv, TypeInv
<1>1. PICK b \in DOMAIN bookings, who \in Members, credits \in [Members -> Entries] :
        /\ b = job[t].booking /\ b \in Nat /\ bookings[b].member = who
        /\ credits = distribution.credits
        /\ distribution'.credits = ApplyReturn(credits, who)
  <2>1. distribution.credits \in [Members -> Entries]
    BY <1>0 DEF TypeOK, Distributions
  <2>2. job[t].body = distribution
    BY DEF Misses, Alone, Current
  <2>3. /\ job[t].booking \in DOMAIN bookings /\ job[t].booking \in Nat
        /\ job[t].member = bookings[job[t].booking].member /\ job[t].member \in Members
    BY <1>0, RowTypes DEF Misses
  <2>. QED BY <2>1, <2>2, <2>3 DEF Misses
<1>2. /\ bookings \in Seq(Bookings) /\ no_shows \in Seq(Nat)
      /\ bookings' = [bookings EXCEPT ![b].status = "no_show"] /\ no_shows' = Append(no_shows, b)
  BY <1>0, <1>1 DEF TypeOK, Misses
<1>3. /\ Kept(bookings, bookings') /\ DOMAIN bookings' = DOMAIN bookings
  BY <1>1, <1>2, KeptStatus, StatusAfter
<1>4. ASSUME NEW m \in Members
      PROVE  /\ distribution'.credits[m].turns = Booked'[m]
             /\ distribution'.credits[m].returned = Missed'[m]
             /\ distribution'.credits[m].consumed + distribution'.credits[m].returned
                  = distribution'.credits[m].turns
  <2>1. /\ credits[m] \in Entries
        /\ credits[m].turns = Booked[m] /\ credits[m].returned = Missed[m]
        /\ credits[m].consumed + credits[m].returned = credits[m].turns
    BY <1>1 DEF Explained, Explains
  <2>2. Booked'[m] = Booked[m]
    BY <1>3, BookedSame DEF Booked, Kept
  <2>3. CASE m = who
    <3>1. Missed'[m] = Missed[m] + 1
      BY <1>0, <1>1, <1>2, <1>3, <2>3, MissedOneMore
    <3>2. /\ distribution'.credits[m].turns = credits[m].turns
          /\ distribution'.credits[m].consumed = credits[m].consumed - 1
          /\ distribution'.credits[m].returned = credits[m].returned + 1
      BY <1>1, <2>1, <2>3 DEF ApplyReturn, Entries
    <3>3. credits[m].turns \in Nat /\ credits[m].consumed \in Nat /\ credits[m].returned \in Nat
      BY <2>1 DEF Entries
    <3>. QED BY <2>1, <2>2, <3>1, <3>2, <3>3
  <2>4. CASE m # who
    <3>1. Missed'[m] = Missed[m]
      BY <1>0, <1>1, <1>2, <1>3, <2>4, MissedOther DEF Missed
    <3>2. distribution'.credits[m] = credits[m]
      BY <1>1, <2>4 DEF ApplyReturn
    <3>. QED BY <2>1, <2>2, <3>1, <3>2
  <2>. QED BY <2>3, <2>4
<1>. QED BY <1>4 DEF Explained, Explains

(* The session the booking closes was open, so no earlier booking names it. *)
LEMMA BooksOnce ==
  ASSUME TogetherInv, Alone, Once, NEW t \in Threads, Books(t)
  PROVE  Once'
<1>1. PICK row \in Bookings : bookings' = Append(bookings, row) /\ row.route = job[t].route
  BY DEF Books
<1>2. bookings \in Seq(Bookings)
  BY DEF TogetherInv, LedgerInv, TypeInv, TypeOK
<1>3. /\ DOMAIN bookings' = DOMAIN bookings \cup {Len(bookings) + 1}
      /\ bookings'[Len(bookings) + 1] = row
      /\ \A k \in DOMAIN bookings : bookings'[k] = bookings[k]
  BY <1>1, <1>2
<1>4. IsOpen(job[t].route)
  BY DEF Books, Alone, Current
<1>5. \A k \in DOMAIN bookings : bookings[k].route # row.route
  BY <1>1, <1>4 DEF TogetherInv, Linked
<1>. QED BY <1>3, <1>5 DEF Once

LEMMA SoloStep ==
  ASSUME SoloInv, [Next]_vars
  PROVE  SoloInv'
<1>0. TogetherInv /\ TogetherInv' /\ TypeInv /\ NoShowsNamed /\ bookings \in Seq(Bookings)
  BY TogetherStep DEF SoloInv, TogetherInv, LedgerInv, TypeInv, TypeOK
<1>1. ASSUME raced = 0, Alone', UNCHANGED <<distribution, bookings, no_shows>>
      PROVE  SoloInv'
  BY <1>0, <1>1 DEF SoloInv, Once, Explained, Explains, Booked, Missed, BookingsOf, NoShowsOf
<1>2. CASE Waits
  <2>1. CASE raced = 0
    <3>1. Alone'
      BY <1>2, <2>1 DEF SoloInv, Alone, Current, Waits, Tables, IsOpen
    <3>. QED BY <1>1, <1>2, <2>1, <3>1 DEF Waits, Tables
  <2>2. CASE raced # 0
    BY <1>0, <1>2, <2>2 DEF Waits, SoloInv
  <2>. QED BY <2>1, <2>2
<1>3. ASSUME NEW t \in Threads, Kinds(t), raced' = 0
      PROVE  SoloInv'
  <2>1. raced = 0 /\ Alone /\ Once /\ Explained /\ Alone'
    BY <1>3, AloneBefore, AloneStep DEF SoloInv
  <2>2. CASE UNCHANGED <<distribution, bookings, no_shows>>
    BY <1>1, <2>1, <2>2
  <2>3. CASE Books(t)
    BY <1>0, <2>1, <2>3, BooksOnce, BooksExplained DEF SoloInv
  <2>4. CASE Misses(t)
    <3>1. /\ DOMAIN bookings' = DOMAIN bookings
          /\ \A k \in DOMAIN bookings : bookings'[k].route = bookings[k].route
      BY <1>0, <2>4, RowTypes, StatusAfter DEF Misses
    <3>2. Once'
      BY <2>1, <3>1 DEF Once
    <3>. QED BY <1>0, <2>1, <2>4, <3>2, MissesExplained DEF SoloInv
  <2>5. CASE Cancels(t)
    <3>1. /\ DOMAIN bookings' = DOMAIN bookings
          /\ \A k \in DOMAIN bookings : /\ bookings'[k].route = bookings[k].route
                                        /\ bookings'[k].member = bookings[k].member
      BY <1>0, <2>5, RowTypes, StatusAfter DEF Cancels
    <3>2. Once'
      BY <2>1, <3>1 DEF Once
    <3>3. UNCHANGED <<distribution, no_shows>> /\ Kept(bookings, bookings')
      BY <2>5, <3>1 DEF Cancels, Kept
    <3>4. Booked' = Booked /\ Missed' = Missed
      BY <1>0, <3>1, <3>3, BookedSame, MissedSame DEF Booked, Missed
    <3>5. Explained'
      BY <2>1, <3>3, <3>4 DEF Explained, Explains
    <3>. QED BY <1>0, <2>1, <3>2, <3>5 DEF SoloInv
  <2>. QED BY <1>3, <2>2, <2>3, <2>4, <2>5
       DEF Kinds, BeginsOpening, BeginsBooking, BeginsSettling, Begins, Ends, ReadsBody, Chooses,
           Lists, Opens, Tables
<1>4. CASE raced' # 0
  BY <1>0, <1>4 DEF SoloInv
<1>. QED BY <1>0, <1>2, <1>3, <1>4, StepKinds

LEMMA SoloInit == Init => SoloInv
<1>. SUFFICES ASSUME Init PROVE SoloInv
  OBVIOUS
<1>1. DOMAIN bookings = {} /\ DOMAIN no_shows = {} /\ \A t \in Threads : job[t] = IdleJob
  BY DEF Init
<1>2. Alone /\ Once
  BY <1>1 DEF Alone, Current, Once, IdleJob
<1>3. ASSUME NEW m \in Members
      PROVE  distribution.credits[m] = NoEntry /\ Booked[m] = 0 /\ Missed[m] = 0
  <2>1. distribution.credits[m] = NoEntry
    BY DEF Init, Blank
  <2>2. BookingsOf(m) = {} /\ NoShowsOf(m) = {}
    BY <1>1 DEF BookingsOf, NoShowsOf
  <2>. QED BY <2>1, <2>2, FS_EmptySet DEF Booked, Missed
<1>4. Explained
  BY <1>3 DEF Explained, Explains, NoEntry
<1>. QED BY <1>2, <1>4, TogetherInit DEF SoloInv

LEMMA SoloCorrect == Spec => []SoloInv
BY SoloInit, SoloStep, PTL DEF Spec

LEMMA NotOverlapped ==
  ASSUME TypeInv, ~overlapped
  PROVE  raced = 0
BY BoundAssumption DEF TypeInv, TypeOK, overlapped

(* In every run, as long as no two calls overlapped, a member's turns are   *)
(* the bookings, the credits that came back the no-shows, and what is left  *)
(* the difference (credits.py).                                             *)
THEOREM ExplainedCorrect == Spec => []LedgerExplained
<1>1. ASSUME SoloInv PROVE LedgerExplained
  <2>1. ASSUME ~overlapped PROVE Explained
    BY <1>1, <2>1, NotOverlapped DEF SoloInv, TogetherInv, LedgerInv
  <2>. QED BY <2>1 DEF LedgerExplained, Explained, Explains, Booked, Missed
<1>. QED BY <1>1, SoloCorrect, PTL

(* In every run, as long as no two calls overlapped, no session has two     *)
(* bookings: book refuses one that is not open.                             *)
THEOREM OnceCorrect == Spec => []BookedOnce
<1>1. ASSUME SoloInv PROVE BookedOnce
  <2>1. ASSUME ~overlapped PROVE Once
    BY <1>1, <2>1, NotOverlapped DEF SoloInv, TogetherInv, LedgerInv
  <2>. QED BY <2>1 DEF BookedOnce, Once
<1>. QED BY <1>1, SoloCorrect, PTL

(* A step that settles a booking found it confirmed. *)
LEMMA SettledStep ==
  ASSUME SoloInv, [Next]_vars, raced' = 0, NEW b \in DOMAIN bookings,
         bookings[b].status # "confirmed"
  PROVE  bookings'[b].status = bookings[b].status /\ RepeatsOf(b)' = RepeatsOf(b)
<1>0. TypeInv /\ bookings \in Seq(Bookings)
  BY DEF SoloInv, TogetherInv, LedgerInv, TypeInv, TypeOK
<1>1. ASSUME bookings' = bookings, no_shows' = no_shows
      PROVE  bookings'[b].status = bookings[b].status /\ RepeatsOf(b)' = RepeatsOf(b)
  BY <1>1 DEF RepeatsOf
<1>2. CASE Waits
  BY <1>1, <1>2 DEF Waits, Tables
<1>3. ASSUME NEW t \in Threads, Kinds(t)
      PROVE  bookings'[b].status = bookings[b].status /\ RepeatsOf(b)' = RepeatsOf(b)
  <2>1. Current(t)
    BY <1>3, AloneBefore DEF SoloInv, Alone
  <2>2. CASE bookings' = bookings /\ no_shows' = no_shows
    BY <1>1, <2>2
  <2>3. CASE Books(t)
    <3>1. bookings'[b] = bookings[b]
      <4>1. PICK row \in Bookings : bookings' = Append(bookings, row)
        BY <2>3 DEF Books
      <4>. QED BY <1>0, <4>1
    <3>. QED BY <2>3, <3>1 DEF Books, RepeatsOf
  <2>4. CASE Misses(t)
    <3>1. job[t].booking # b /\ job[t].booking \in Nat /\ no_shows \in Seq(Nat)
      BY <1>0, <2>1, <2>4, RowTypes DEF Current, Misses
    <3>2. bookings'[b] = bookings[b]
      BY <1>0, <2>4, <3>1, StatusAfter DEF Misses
    <3>3. RepeatsOf(b)' = RepeatsOf(b)
      BY <2>4, <3>1, RepeatAdded DEF Misses
    <3>. QED BY <3>2, <3>3
  <2>5. CASE Cancels(t)
    <3>1. job[t].booking # b /\ job[t].booking \in Nat
      BY <1>0, <2>1, <2>5, RowTypes DEF Current, Cancels
    <3>2. bookings'[b] = bookings[b]
      BY <1>0, <2>5, <3>1, StatusAfter DEF Cancels
    <3>. QED BY <2>5, <3>2 DEF Cancels, RepeatsOf
  <2>. QED BY <1>3, <2>2, <2>3, <2>4, <2>5
       DEF Kinds, BeginsOpening, BeginsBooking, BeginsSettling, Begins, Ends, ReadsBody, Chooses,
           Lists, Opens, Tables
<1>. QED BY <1>0, <1>2, <1>3, StepKinds

(* In every run, as long as no two calls overlapped, a booking that was     *)
(* cancelled or missed stays so and earns no further no-show row, whatever  *)
(* the page of rows mark_no_show looks at.                                  *)
THEOREM SettledCorrect == Spec => SettledForGood
<1>1. ASSUME SoloInv, [Next]_vars
      PROVE  [~overlapped' => \A b \in DOMAIN bookings : bookings[b].status # "confirmed" =>
               /\ bookings'[b].status = bookings[b].status
               /\ {k \in DOMAIN no_shows' : no_shows'[k] = b}
                    = {k \in DOMAIN no_shows : no_shows[k] = b}]_vars
  <2>1. SoloInv'
    BY <1>1, SoloStep
  <2>2. ASSUME ~overlapped' PROVE raced' = 0
    BY <2>1, <2>2, BoundAssumption
       DEF SoloInv, TogetherInv, LedgerInv, TypeInv, TypeOK, overlapped
  <2>3. ASSUME raced' = 0, NEW b \in DOMAIN bookings, bookings[b].status # "confirmed"
        PROVE  /\ bookings'[b].status = bookings[b].status
               /\ {k \in DOMAIN no_shows' : no_shows'[k] = b}
                    = {k \in DOMAIN no_shows : no_shows[k] = b}
    BY <1>1, <2>3, SettledStep DEF RepeatsOf
  <2>. QED BY <2>2, <2>3
<1>. QED BY <1>1, SoloCorrect, PTL DEF Spec, SettledForGood

-----------------------------------------------------------------------------
(* Rotation: the session on offer names a member with the fewest bookings,  *)
(* and nobody is a whole round ahead.                                       *)

AllFree == \A m \in Members : team[m] = [assignable |-> TRUE, busy |-> {}]
Quiet ==
  /\ distribution.mode = "strict" /\ raced = 0 /\ ~crowded /\ edits = 0 /\ no_shows = <<>>
  /\ AllFree

ReadsAfresh == \A t \in Threads : job[t].stage = "opening" => job[t].body = distribution
FewestFirst ==
  \A i \in DOMAIN routes : IsOpen(i) =>
    /\ \A n \in Members : Booked[routes[i].chosen] <= Booked[n]
    /\ \A k \in DOMAIN routes : IsOpen(k) => k = i
TakesChosen ==
  \A t \in Threads : job[t].stage = "chosen" => job[t].member = routes[job[t].route].chosen
Level == \A m, n \in Members : Booked[m] <= Booked[n] + 1

TurnsInv == SoloInv /\ (Quiet => ReadsAfresh /\ FewestFirst /\ TakesChosen /\ Level)

(* What made the rotation quiet never comes back once it is gone. *)
LEMMA QuietBefore ==
  ASSUME TypeInv, [Next]_vars, Quiet', raced' = 0 => raced = 0
  PROVE  Quiet
<1>1. /\ distribution \in Distributions /\ no_shows \in Seq(Nat) /\ edits \in Nat
      /\ crowded \in BOOLEAN
  BY BoundAssumption DEF TypeInv, TypeOK
<1>2. ASSUME UNCHANGED <<team, edits, no_shows>>, distribution'.mode = distribution.mode,
             crowded => crowded'
      PROVE  Quiet
  BY <1>1, <1>2 DEF Quiet, AllFree
<1>3. ASSUME distribution' = distribution, UNCHANGED <<team, edits, no_shows, crowded>>
      PROVE  Quiet
  BY <1>2, <1>3
<1>4. CASE \E t \in Threads : Open(t)
  BY <1>3, <1>4 DEF Open, Start, records
<1>5. ASSUME NEW t \in Threads, OpenRoute(t)
      PROVE  Quiet
  BY <1>2, <1>5 DEF OpenRoute
<1>6. ASSUME NEW t \in Threads, BookCommit(t)
      PROVE  Quiet
  <2>1. distribution'.mode = distribution.mode
    BY <1>1, <1>6 DEF BookCommit, Distributions
  <2>. QED BY <1>2, <1>6, <2>1 DEF BookCommit
<1>7. ASSUME NEW t \in Threads, NoShowCommit(t)
      PROVE  Quiet
  <2>1. no_shows' = Append(no_shows, job[t].booking)
    BY <1>7 DEF NoShowCommit
  <2>2. Len(no_shows') = 0
    BY DEF Quiet
  <2>. QED BY <1>1, <2>1, <2>2
<1>8. ASSUME NEW t \in Threads, NotScheduled(t) \/ BookReadDistribution(t) \/ BookChoose(t)
               \/ BookRefused(t) \/ NoShowList(t) \/ NoShowReadDistribution(t)
      PROVE  Quiet
  <2>1. \E next : Goes(t, next)
    BY <1>8 DEF NotScheduled, BookReadDistribution, BookChoose, BookRefused, NoShowList,
                NoShowReadDistribution
  <2>. QED BY <1>3, <2>1 DEF Goes, records
<1>9. ASSUME NEW t \in Threads, CancelUpdate(t)
      PROVE  Quiet
  BY <1>3, <1>9 DEF CancelUpdate
<1>10. CASE \E t \in Threads, i \in DOMAIN routes, slot \in Slots : Book(t, i, slot)
  BY <1>3, <1>10 DEF Book, Start, records
<1>11. CASE \E t \in Threads, b \in DOMAIN bookings : MarkNoShow(t, b) \/ Cancel(t, b)
  BY <1>3, <1>11 DEF MarkNoShow, Cancel, Start, records
<1>12. CASE \E m \in Members, calendar \in Calendars : EditTeam(m, calendar)
  <2>1. edits' = edits + 1 /\ edits' = 0
    BY <1>12 DEF EditTeam, Quiet
  <2>. QED BY <1>1, <2>1
<1>13. CASE UNCHANGED vars
  BY <1>3, <1>13 DEF vars, records
<1>. QED BY <1>4, <1>5, <1>6, <1>7, <1>8, <1>9, <1>10, <1>11, <1>12, <1>13 DEF Next, Handler

(* The flag notices a session opened while another is open. *)
LEMMA OpensAlone ==
  ASSUME [Next]_vars, Len(routes') # Len(routes), ~crowded', TypeInv
  PROVE  \A i \in DOMAIN routes : ~IsOpen(i)
<1>. DEFINE Goal == \A i \in DOMAIN routes : ~IsOpen(i)
<1>1. ASSUME NEW t \in Threads, OpenRoute(t)
      PROVE  Goal
  BY <1>1 DEF OpenRoute
<1>2. ASSUME NEW t \in Threads, BookCommit(t)
      PROVE  Goal
  <2>1. routes \in Seq(Routes)
    BY DEF TypeInv, TypeOK
  <2>2. Len(routes') = Len(routes)
    BY <1>2, <2>1 DEF BookCommit
  <2>. QED BY <2>2
<1>3. routes' = routes => Goal
  OBVIOUS
<1>. HIDE DEF Goal
<1>4. ASSUME NEW t \in Threads, NEW next, Goes(t, next) \/ Start(t, next)
      PROVE  Goal
  BY <1>3, <1>4 DEF Goes, Start, records
<1>5. ASSUME NEW t \in Threads, Handler(t)
      PROVE  Goal
  BY <1>1, <1>2, <1>3, <1>4, <1>5
     DEF Handler, NotScheduled, BookReadDistribution, BookChoose, BookRefused, NoShowList,
         NoShowReadDistribution, NoShowCommit, CancelUpdate
<1>6. ASSUME NEW t \in Threads, Open(t)
      PROVE  Goal
  BY <1>4, <1>6 DEF Open
<1>7. ASSUME NEW t \in Threads, NEW i \in DOMAIN routes, NEW slot \in Slots, Book(t, i, slot)
      PROVE  Goal
  BY <1>4, <1>7 DEF Book
<1>8. ASSUME NEW t \in Threads, NEW b \in DOMAIN bookings, MarkNoShow(t, b) \/ Cancel(t, b)
      PROVE  Goal
  BY <1>4, <1>8 DEF MarkNoShow, Cancel
<1>9. ASSUME NEW m \in Members, NEW calendar \in Calendars, EditTeam(m, calendar)
      PROVE  Goal
  BY <1>3, <1>9 DEF EditTeam
<1>10. ASSUME UNCHANGED vars
       PROVE  Goal
  BY <1>3, <1>10 DEF vars, records
<1>11. ASSUME Next
       PROVE  Goal
  BY <1>5, <1>6, <1>7, <1>8, <1>9, <1>11 DEF Next
<1>12. Goal
  BY <1>10, <1>11
<1>. QED BY <1>12 DEF Goal

(* Strict ranking puts the fewest credits first; they are the bookings as   *)
(* long as none came back.                                                  *)
LEMMA SelectsFewest ==
  ASSUME TypeInv, Explained, Quiet, NEW m, Selects(distribution, Members, m), NEW n \in Members
  PROVE  Booked[m] <= Booked[n]
<1>1. m \in Members /\ distribution.credits \in [Members -> Entries] /\ TypeOK
  BY DEF Selects, TypeInv, TypeOK, Distributions
<1>2. ASSUME NEW k \in Members
      PROVE  distribution.credits[k].consumed = Booked[k] /\ Booked[k] \in Nat
  <2>1. distribution.credits[k] \in Entries
    BY <1>1
  <2>2. DOMAIN no_shows = {}
    BY DEF Quiet
  <2>3. Missed[k] = 0
    BY <2>2, FS_EmptySet DEF Missed, NoShowsOf
  <2>4. /\ distribution.credits[k].turns = Booked[k] /\ distribution.credits[k].returned = 0
        /\ distribution.credits[k].consumed + distribution.credits[k].returned
             = distribution.credits[k].turns
    BY <2>3 DEF Explained, Explains
  <2>. QED BY <2>1, <2>4 DEF Entries
<1>3. CASE n = m
  BY <1>1, <1>2, <1>3
<1>4. CASE n # m
  <2>. DEFINE a == Rank(distribution, m)
              b == Rank(distribution, n)
  <2>1. Precedes(a, b)
    BY <1>4 DEF Selects
  <2>2. /\ DOMAIN a = 1..3
        /\ a[1] = distribution.credits[m].consumed /\ b[1] = distribution.credits[n].consumed
    BY DEF Rank, Quiet
  <2>. HIDE DEF a, b
  <2>3. PICK i \in 1..3 : a[i] < b[i] /\ \A k \in 1..(i - 1) : a[k] = b[k]
    BY <2>1, <2>2 DEF Precedes
  <2>4. a[1] < b[1] \/ a[1] = b[1]
    BY <2>3
  <2>. QED BY <1>1, <1>2, <2>2, <2>4
<1>. QED BY <1>3, <1>4

LEMMA EverybodyFree ==
  ASSUME Quiet, NEW slot
  PROVE  FreeAt(slot) = Members
BY DEF Quiet, AllFree, FreeAt, Assignable

(* The session opened names a member with the fewest bookings. *)
LEMMA OpensFewest ==
  ASSUME TurnsInv, Quiet, [Next]_vars, ~crowded', NEW t \in Threads, Opens(t)
  PROVE  FewestFirst'
<1>1. TypeInv /\ Explained /\ ReadsAfresh /\ routes \in Seq(Routes)
  BY DEF TurnsInv, SoloInv, Quiet, TogetherInv, LedgerInv, TypeInv, TypeOK
<1>2. PICK row \in Routes : /\ Selects(distribution, Members, row.chosen)
                            /\ routes' = Append(routes, row)
  BY <1>1, EverybodyFree DEF Opens, ReadsAfresh
<1>3. /\ DOMAIN routes' = DOMAIN routes \cup {Len(routes) + 1}
      /\ routes'[Len(routes) + 1] = row /\ Len(routes') # Len(routes)
      /\ \A i \in DOMAIN routes : routes'[i] = routes[i]
  BY <1>1, <1>2
<1>4. \A i \in DOMAIN routes : ~IsOpen(i)
  BY <1>1, <1>3, OpensAlone
<1>5. \A i \in DOMAIN routes' : IsOpen(i)' => i = Len(routes) + 1
  BY <1>3, <1>4 DEF IsOpen
<1>6. \A n \in Members : Booked[row.chosen] <= Booked[n]
  BY <1>1, <1>2, SelectsFewest
<1>7. Booked' = Booked
  BY DEF Opens, Booked, BookingsOf
<1>. QED BY <1>3, <1>5, <1>6, <1>7 DEF FewestFirst

(* The member it names is free, and takes the booking. *)
LEMMA ChoosesChosen ==
  ASSUME TypeInv, RoutesFit, Quiet, NEW t \in Threads, Chooses(t)
  PROVE  job'[t].member = routes'[job'[t].route].chosen
<1>1. job[t].route \in DOMAIN routes /\ routes \in Seq(Routes)
  BY DEF Chooses, RoutesFit, TypeInv, TypeOK
<1>2. routes[job[t].route] \in Routes
  BY <1>1
<1>3. routes[job[t].route].chosen \in FreeAt(job[t].slot)
  BY <1>2, EverybodyFree DEF Routes
<1>4. Candidates(t) = {routes[job[t].route].chosen}
  BY <1>3 DEF Candidates
<1>. QED BY <1>4 DEF Chooses, Tables, Selects

(* Whoever takes the booking had the fewest. *)
LEMMA BooksLevel ==
  ASSUME TurnsInv, Quiet, NEW t \in Threads, Books(t)
  PROVE  FewestFirst' /\ Level'
<1>0. /\ TypeInv /\ TypeOK /\ Current(t) /\ RoutesFit /\ FewestFirst /\ TakesChosen /\ Level
      /\ routes \in Seq(Routes) /\ bookings \in Seq(Bookings)
  BY DEF TurnsInv, SoloInv, Quiet, Alone, TogetherInv, LedgerInv, TypeInv, TypeOK
<1>1. PICK row \in Bookings : bookings' = Append(bookings, row) /\ row.member = job[t].member
  BY DEF Books
<1>2. PICK i \in DOMAIN routes, who \in Members :
        /\ i = job[t].route /\ IsOpen(i) /\ who = row.member /\ who = routes[i].chosen
        /\ i \in Nat
  <2>1. job[t].route \in DOMAIN routes /\ IsOpen(job[t].route)
    BY <1>0 DEF Books, Current, RoutesFit
  <2>2. row.member = routes[job[t].route].chosen
    BY <1>0, <1>1 DEF Books, TakesChosen
  <2>3. row.member \in Members /\ job[t].route \in Nat
    BY <1>0, <2>1 DEF Bookings
  <2>. QED BY <2>1, <2>2, <2>3
<1>3. \A n \in Members : Booked[who] <= Booked[n]
  BY <1>0, <1>2 DEF FewestFirst
<1>4. Booked'[who] = Booked[who] + 1
  BY <1>0, <1>1, <1>2, BookedOneMore
<1>5. \A m \in Members \ {who} : Booked'[m] = Booked[m]
  BY <1>0, <1>1, <1>2, BookedOther DEF Booked
<1>6. \A m \in Members : Booked[m] \in Nat
  BY <1>0, CountTypes
<1>7. Level'
  BY <1>0, <1>3, <1>4, <1>5, <1>6 DEF Level
<1>8. \A k \in DOMAIN routes' : ~IsOpen(k)'
  <2>1. routes' = [routes EXCEPT ![i].state = "booked", ![i].booking = Len(bookings) + 1]
    BY <1>2 DEF Books
  <2>2. routes[i] \in Routes
    BY <1>0, <1>2
  <2>3. /\ DOMAIN routes' = DOMAIN routes /\ routes'[i].state = "booked"
        /\ \A k \in DOMAIN routes \ {i} : routes'[k] = routes[k]
    BY <1>0, <1>2, <2>1, <2>2 DEF Routes
  <2>4. \A k \in DOMAIN routes \ {i} : ~IsOpen(k)
    BY <1>0, <1>2 DEF FewestFirst
  <2>. QED BY <2>3, <2>4 DEF IsOpen
<1>. QED BY <1>7, <1>8 DEF FewestFirst

LEMMA TurnsStep ==
  ASSUME TurnsInv, [Next]_vars
  PROVE  TurnsInv'
<1>1. SoloInv /\ SoloInv' /\ TypeInv /\ RoutesFit /\ NoShowsNamed
  BY SoloStep DEF TurnsInv, SoloInv, TogetherInv, LedgerInv
<1>. SUFFICES ASSUME Quiet'
              PROVE  ReadsAfresh' /\ FewestFirst' /\ TakesChosen' /\ Level'
  BY <1>1 DEF TurnsInv
<1>2. raced' = 0
  BY DEF Quiet
<1>3. ASSUME bookings' = bookings, routes' = routes, FewestFirst, Level
      PROVE  FewestFirst' /\ Level'
  <2>1. Booked' = Booked
    BY <1>3 DEF Booked, BookingsOf
  <2>. QED BY <1>3, <2>1 DEF FewestFirst, Level, IsOpen
<1>4. CASE Waits
  <2>1. Quiet
    BY <1>1, <1>4, QuietBefore DEF Waits
  <2>2. ReadsAfresh /\ FewestFirst /\ TakesChosen /\ Level
    BY <2>1 DEF TurnsInv
  <2>. QED BY <1>3, <1>4, <2>2 DEF Waits, Tables, ReadsAfresh, TakesChosen
<1>5. ASSUME NEW t \in Threads, Kinds(t)
      PROVE  ReadsAfresh' /\ FewestFirst' /\ TakesChosen' /\ Level'
  <2>1. raced = 0 /\ Others(t) /\ \A u \in Threads \ {t} : job[u].stage = "idle"
    BY <1>1, <1>2, <1>5, AloneBefore DEF SoloInv
  <2>2. Quiet
    BY <1>1, <2>1, QuietBefore
  <2>3. /\ ReadsAfresh /\ FewestFirst /\ TakesChosen /\ Level
        /\ \A u \in Threads \ {t} : job'[u].stage = "idle"
    BY <2>1, <2>2 DEF TurnsInv, Others
  <2>4. ReadsAfresh'
    <3>1. job'[t].stage = "opening" => job'[t].body = distribution'
      BY <1>5 DEF Kinds, BeginsOpening, BeginsBooking, BeginsSettling, Begins, Tables, Ends,
         ReadsBody, Chooses, Lists, Opens, Books, Misses, Cancels
    <3>. QED BY <2>3, <3>1 DEF ReadsAfresh
  <2>5. TakesChosen'
    <3>1. job'[t].stage = "chosen" => Chooses(t)
      BY <1>5 DEF Kinds, BeginsOpening, BeginsBooking, BeginsSettling, Ends, ReadsBody, Lists,
         Opens, Books, Misses, Cancels
    <3>. QED BY <1>1, <2>2, <2>3, <3>1, ChoosesChosen DEF TakesChosen
  <2>6. CASE bookings' = bookings /\ routes' = routes
    BY <1>3, <2>3, <2>4, <2>5, <2>6
  <2>7. CASE Opens(t)
    <3>1. FewestFirst'
      BY <2>2, <2>7, OpensFewest DEF Quiet
    <3>2. Booked' = Booked
      BY <2>7 DEF Opens, Booked, BookingsOf
    <3>. QED BY <2>3, <2>4, <2>5, <3>1, <3>2 DEF Level
  <2>8. CASE Books(t)
    BY <2>2, <2>4, <2>5, <2>8, BooksLevel
  <2>9. CASE Misses(t) \/ Cancels(t)
    <3>1. /\ DOMAIN bookings' = DOMAIN bookings /\ routes' = routes
          /\ \A k \in DOMAIN bookings : bookings'[k].member = bookings[k].member
      <4>1. bookings \in Seq(Bookings) /\ job[t].booking \in Nat
        BY <1>1, RowTypes
      <4>2. CASE Misses(t)
        BY <4>1, <4>2, StatusAfter DEF Misses
      <4>3. CASE Cancels(t)
        BY <4>1, <4>3, StatusAfter DEF Cancels
      <4>. QED BY <2>9, <4>2, <4>3
    <3>2. Booked' = Booked
      BY <3>1, BookedSame DEF Booked
    <3>. QED BY <2>3, <2>4, <2>5, <3>1, <3>2 DEF FewestFirst, Level, IsOpen
  <2>. QED BY <1>5, <2>6, <2>7, <2>8, <2>9
       DEF Kinds, BeginsOpening, BeginsBooking, BeginsSettling, Begins, Ends, ReadsBody, Chooses,
           Lists, Tables
<1>. QED BY <1>1, <1>4, <1>5, StepKinds

LEMMA TurnsInit == Init => TurnsInv
<1>. SUFFICES ASSUME Init PROVE TurnsInv
  OBVIOUS
<1>1. DOMAIN bookings = {} /\ DOMAIN routes = {} /\ \A t \in Threads : job[t] = IdleJob
  BY DEF Init
<1>2. ReadsAfresh /\ FewestFirst /\ TakesChosen
  BY <1>1 DEF ReadsAfresh, FewestFirst, TakesChosen, IdleJob
<1>3. ASSUME NEW m \in Members
      PROVE  Booked[m] = 0
  <2>1. BookingsOf(m) = {}
    BY <1>1 DEF BookingsOf
  <2>. QED BY <2>1, FS_EmptySet DEF Booked
<1>. QED BY <1>2, <1>3, SoloInit DEF TurnsInv, Level

(* In every run, a strict rotation left alone (calls served one at a time,  *)
(* each session booked before the next is opened, the team as it was, no    *)
(* credit back) never has a member more than one booking ahead of another   *)
(* (select_member in selection.py, book in engine.py).                      *)
THEOREM TurnsCorrect == Spec => []TakesTurns
<1>1. ASSUME TurnsInv PROVE TakesTurns
  <2>1. ASSUME distribution.mode = "strict", ~overlapped, ~crowded, edits = 0, no_shows = <<>>,
               \A m \in Members : team[m] = [assignable |-> TRUE, busy |-> {}]
        PROVE  Level
    <3>1. raced = 0
      BY <1>1, <2>1, NotOverlapped DEF TurnsInv, SoloInv, TogetherInv, LedgerInv
    <3>. QED BY <1>1, <2>1, <3>1 DEF TurnsInv, Quiet, AllFree
  <2>. QED BY <2>1 DEF TakesTurns, Level, Booked
<1>. QED BY <1>1, TurnsInit, TurnsStep, PTL DEF Spec
=============================================================================
