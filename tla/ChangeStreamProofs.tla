------------------------- MODULE ChangeStreamProofs -------------------------
(***************************************************************************)
(* Theorems about ChangeStream for every set of subscriptions, rooms and   *)
(* threads, every stream of events and every bound.                        *)
(***************************************************************************)
EXTENDS ChangeStream, FiniteSetTheorems, SequenceTheorems, TLAPS

(* Which fields of a call are set at which stage. *)
Committing == {"planning", "writing", "invalidating", "marking", "counting", "counted"}
Applying == {"writing", "invalidating", "marking"}
Delivering == {"admitted", "logged", "refusing", "parked"}

Fits(j) ==
  /\ j.stage # "idle" => j.sub \in Subs
  /\ j.stage \in Delivering => j.event \in Events
  /\ j.stage = "ready" => j.ready # <<>>
  /\ j.stage \in Committing => j.current \in DOMAIN j.ready
  /\ j.stage \in Applying => j.todo # {} /\ j.todo \subseteq j.ready[j.current].events

CallsFit == \A t \in Threads : Fits(job[t])

TypeInv == TypeOK /\ CallsFit

-----------------------------------------------------------------------------
(* What the helpers return. *)

(* First is the least element. *)
LEMMA FirstProperties ==
  ASSUME NEW S \in SUBSET Nat, S # {}
  PROVE  First(S) \in S /\ \A m \in S : First(S) <= m
<1> DEFINE Smaller == {ss \in Nat \X Nat : ss[1] < ss[2]}
<1>0. IsWellFoundedOn(Smaller, Nat)
  BY NatLessThanWellFounded, Zenon DEF OpToRel
<1> HIDE DEF Smaller
<1>1. PICK n \in S : \A m \in S : ~ (<<m, n>> \in Smaller)
  BY <1>0, WFMin
<1>2. \A m \in S : n <= m
  <2>1. \A m, k \in Nat : m < k => <<m, k>> \in Smaller
    BY DEF Smaller
  <2>2. \A m \in S : ~ (m < n)
    BY <1>1, <2>1
  <2> QED
    BY <2>2
<1>3. \E k \in S : \A m \in S : k <= m
  BY <1>2
<1> QED
  BY <1>3 DEF First

LEMMA EventProperties ==
  /\ Events \subseteq Nat
  /\ \A n \in Events : n # 0 /\ KeyOf(n) \in Keys
<1>1. Len(Stream) \in Nat
  BY StreamAssumption, LenProperties
<1>2. \A n \in Events : Stream[n] \in [key : Keys, needs : {"payload", "enriched", "nothing"}]
  BY StreamAssumption, ElementOfSeq DEF Events
<1> QED
  BY <1>1, <1>2 DEF Events, KeyOf

(* Ahead never counts more than there is, and what it counts are the        *)
(* buffers ahead of the first one under the key.                            *)
LEMMA AheadProperties ==
  ASSUME NEW held \in Seq(Buffers), NEW key
  PROVE  /\ Ahead(held, key) \in 0..Len(held)
         /\ \A i \in 1..Ahead(held, key) : held[i].key # key
         /\ Ahead(held, key) < Len(held) => held[Ahead(held, key) + 1].key = key
<1> DEFINE S == {i \in DOMAIN held : held[i].key = key}
<1>1. DOMAIN held = 1..Len(held) /\ Len(held) \in Nat
  BY LenProperties
<1>2. CASE key \in KeysOf(held)
  <2>1. S # {} /\ S \in SUBSET Nat
    BY <1>1, <1>2 DEF KeysOf
  <2>2. PICK f \in S : f = First(S) /\ \A m \in S : f <= m
    BY <2>1, FirstProperties, Zenon
  <2>3. Ahead(held, key) = f - 1
    BY <1>2, <2>2 DEF Ahead
  <2>4. \A i \in DOMAIN held : held[i].key = key => f <= i
    BY <2>2
  <2>5. f \in DOMAIN held /\ held[f].key = key
    BY <2>2
  <2> HIDE DEF S
  <2> QED
    BY <1>1, <2>3, <2>4, <2>5
<1>3. CASE key \notin KeysOf(held)
  <2>1. Ahead(held, key) = Len(held)
    BY <1>3 DEF Ahead
  <2> QED
    BY <1>1, <1>3, <2>1 DEF KeysOf
<1> QED
  BY <1>2, <1>3

(* An event under a key splits what is parked in two. *)
LEMMA SplitProperties ==
  ASSUME NEW held \in Seq(Buffers), NEW key
  PROVE  LET a == Ahead(held, key) IN
         /\ Completed(held, key) \in Seq(Buffers)
         /\ Len(Completed(held, key)) = a
         /\ \A i \in 1..a : Completed(held, key)[i] = held[i]
         /\ StillParked(held, key) \in Seq(Buffers)
         /\ Len(StillParked(held, key)) = Len(held) - a
         /\ \A i \in 1..(Len(held) - a) : StillParked(held, key)[i] = held[a + i]
<1> DEFINE a == Ahead(held, key)
<1>1. DOMAIN held = 1..Len(held) /\ Len(held) \in Nat /\ \A i \in 1..Len(held) : held[i] \in Buffers
  BY LenProperties, ElementOfSeq
<1>2. a \in 0..Len(held)
  BY AheadProperties
<1> HIDE DEF a
<1>3. /\ SubSeq(held, 1, a) \in Seq(Buffers)
      /\ Len(SubSeq(held, 1, a)) = a
      /\ \A i \in 1..a : SubSeq(held, 1, a)[i] = held[i]
  <2>1. \A i \in 1..a : held[i] \in Buffers
    BY <1>1, <1>2
  <2> QED
    BY <1>1, <1>2, <2>1, SubSeqProperties
<1>4. /\ SubSeq(held, a + 1, Len(held)) \in Seq(Buffers)
      /\ Len(SubSeq(held, a + 1, Len(held))) = Len(held) - a
      /\ \A i \in 1..(Len(held) - a) : SubSeq(held, a + 1, Len(held))[i] = held[a + i]
  <2>1. \A i \in (a + 1)..Len(held) : held[i] \in Buffers
    BY <1>1, <1>2
  <2>2. a + 1 \in Int /\ Len(held) \in Int
    BY <1>1, <1>2
  <2>3. /\ SubSeq(held, a + 1, Len(held)) \in Seq(Buffers)
        /\ Len(SubSeq(held, a + 1, Len(held)))
             = IF a + 1 <= Len(held) THEN Len(held) - (a + 1) + 1 ELSE 0
        /\ \A i \in 1..(Len(held) - (a + 1) + 1) :
             SubSeq(held, a + 1, Len(held))[i] = held[(a + 1) + i - 1]
    BY <2>1, <2>2, SubSeqProperties
  <2>4. Len(held) - (a + 1) + 1 = Len(held) - a
    BY <1>1, <1>2
  <2>5. \A i \in 1..(Len(held) - a) : (a + 1) + i - 1 = a + i
    BY <1>1, <1>2
  <2>6. (IF a + 1 <= Len(held) THEN Len(held) - (a + 1) + 1 ELSE 0) = Len(held) - a
    <3>1. CASE a + 1 <= Len(held)
      BY <2>4, <3>1
    <3>2. CASE ~(a + 1 <= Len(held))
      <4>0. a \in Nat /\ Len(held) \in Nat /\ a <= Len(held)
        BY <1>1, <1>2
      <4>1. Len(held) - a = 0
        BY <4>0, <3>2
      <4> QED
        BY <3>2, <4>1
    <3> QED
      BY <3>1, <3>2
  <2> QED
    BY <2>3, <2>4, <2>5, <2>6
<1> QED
  BY <1>3, <1>4 DEF Completed, StillParked, a

(* The event is parked in a buffer of its key, the other buffers stay. *)
LEMMA AcceptedProperties ==
  ASSUME NEW held \in Seq(Buffers), NEW n \in Events
  PROVE  LET a == Ahead(held, KeyOf(n)) IN
         /\ Accepted(held, n) \in Seq(Buffers)
         /\ Accepted(held, n) # <<>>
         /\ Accepted(held, n)[1].key = KeyOf(n)
         /\ a = Len(held) => Accepted(held, n) = <<[key |-> KeyOf(n), events |-> {n}]>>
         /\ a < Len(held) =>
              /\ Len(Accepted(held, n)) = Len(held) - a
              /\ Accepted(held, n)[1].events = held[a + 1].events \cup {n}
              /\ \A i \in 2..(Len(held) - a) : Accepted(held, n)[i] = held[a + i]
<1> DEFINE a == Ahead(held, KeyOf(n))
           rest == StillParked(held, KeyOf(n))
<1>1. Len(held) \in Nat /\ DOMAIN held = 1..Len(held) /\ \A i \in 1..Len(held) : held[i] \in Buffers
  BY LenProperties, ElementOfSeq
<1>2. /\ a \in 0..Len(held)
      /\ a < Len(held) => held[a + 1].key = KeyOf(n)
  BY AheadProperties
<1>3. /\ rest \in Seq(Buffers)
      /\ Len(rest) = Len(held) - a
      /\ \A i \in 1..(Len(held) - a) : rest[i] = held[a + i]
  BY SplitProperties
<1>4. KeyOf(n) \in Keys
  BY EventProperties
<1> HIDE DEF a, rest
<1>5. CASE a = Len(held)
  <2>1. rest = <<>>
    BY <1>1, <1>3, <1>5, EmptySeq
  <2>2. Accepted(held, n) = <<[key |-> KeyOf(n), events |-> {n}]>>
    BY <2>1 DEF Accepted, rest
  <2>3. [key |-> KeyOf(n), events |-> {n}] \in Buffers
    BY <1>4 DEF Buffers
  <2> QED
    BY <1>5, <2>2, <2>3, <1>1 DEF a
<1>6. CASE a < Len(held)
  <2>1. rest # <<>> /\ 1 \in 1..Len(rest) /\ DOMAIN rest = 1..Len(rest)
    BY <1>1, <1>2, <1>3, <1>6, LenProperties, EmptySeq
  <2>2. rest[1] = held[a + 1] /\ rest[1] \in Buffers /\ rest[1].key = KeyOf(n)
    BY <1>1, <1>2, <1>3, <1>6
  <2> DEFINE new == [rest[1] EXCEPT !.events = @ \cup {n}]
  <2>3. new \in Buffers /\ new.key = KeyOf(n) /\ new.events = rest[1].events \cup {n}
    BY <2>2 DEF Buffers
  <2>4. Accepted(held, n) = [rest EXCEPT ![1] = new]
    BY <2>1 DEF Accepted, rest
  <2> HIDE DEF new
  <2>5. /\ [rest EXCEPT ![1] = new] \in Seq(Buffers)
        /\ Len([rest EXCEPT ![1] = new]) = Len(rest)
        /\ [rest EXCEPT ![1] = new][1] = new
        /\ \A i \in 1..Len(rest) : i # 1 => [rest EXCEPT ![1] = new][i] = rest[i]
    BY <1>3, <2>1, <2>3, ExceptSeq
  <2>6. Accepted(held, n) # <<>>
    BY <2>4, <2>5, <2>1, <1>1, <1>2, <1>3
  <2>7. \A i \in 2..(Len(held) - a) : Accepted(held, n)[i] = held[a + i]
    BY <1>1, <1>2, <1>3, <2>4, <2>5
  <2> QED
    BY <1>3, <1>6, <2>2, <2>3, <2>4, <2>5, <2>6, <2>7 DEF a
<1> QED
  BY <1>1, <1>2, <1>5, <1>6 DEF a

LEMMA IntervalSize ==
  \A n \in Nat : IsFiniteSet(1..n) /\ Cardinality(1..n) = n
<1> SUFFICES ASSUME NEW n \in Nat PROVE IsFiniteSet(1..n) /\ Cardinality(1..n) = n
  OBVIOUS
<1>1. IsFiniteSet(1..n) /\ Cardinality(1..n) = IF 1 > n THEN 0 ELSE n - 1 + 1
  BY FS_Interval
<1> QED
  BY <1>1

(* Without enumerates what is kept: the n-th place belongs to one index. *)
LEMMA WithoutProperties ==
  ASSUME NEW held \in Seq(Buffers), NEW keys
  PROVE  /\ Without(held, keys) \in Seq(Buffers)
         /\ \A n \in 1..Len(Without(held, keys)) :
              \E i \in DOMAIN held : Without(held, keys)[n] = held[i]
         /\ keys \cap KeysOf(held) = {} => Without(held, keys) = held
<1> DEFINE kept == {i \in DOMAIN held : held[i].key \notin keys}
           upTo(i) == {j \in kept : j <= i}
           place == [i \in kept |-> Cardinality(upTo(i))]
           top == Cardinality(kept)
<1>1. /\ DOMAIN held = 1..Len(held) /\ Len(held) \in Nat
      /\ \A i \in 1..Len(held) : held[i] \in Buffers
  BY LenProperties, ElementOfSeq
<1>2. IsFiniteSet(1..Len(held)) /\ kept \in SUBSET (1..Len(held))
  BY <1>1, FS_Interval
<1>3. IsFiniteSet(kept) /\ top \in Nat
  BY <1>2, FS_Subset, FS_CardinalityType
<1>4. \A i \in kept : upTo(i) \in SUBSET kept /\ i \in upTo(i)
  BY <1>1, <1>2
<1>5. \A i, j \in kept : i < j => upTo(i) \in SUBSET upTo(j) /\ j \notin upTo(i)
  BY <1>1, <1>2
<1>6. \A i \in kept : IsFiniteSet(upTo(i)) /\ place[i] \in 1..top
  <2> SUFFICES ASSUME NEW i \in kept PROVE IsFiniteSet(upTo(i)) /\ place[i] \in 1..top
    OBVIOUS
  <2>1. IsFiniteSet(upTo(i)) /\ Cardinality(upTo(i)) <= top
    BY <1>3, <1>4, FS_Subset
  <2>2. Cardinality(upTo(i)) \in Nat /\ Cardinality(upTo(i)) # 0
    BY <1>4, <2>1, FS_CardinalityType, FS_EmptySet
  <2> QED
    BY <1>3, <2>1, <2>2
<1>7. \A i, j \in kept : i < j => place[i] # place[j]
  <2> SUFFICES ASSUME NEW i \in kept, NEW j \in kept, i < j, place[i] = place[j]
               PROVE  FALSE
    OBVIOUS
  <2>1. upTo(i) = upTo(j)
    <3>1. upTo(i) \in SUBSET upTo(j) /\ IsFiniteSet(upTo(j))
      BY <1>5, <1>6
    <3>2. Cardinality(upTo(j)) = Cardinality(upTo(i))
      OBVIOUS
    <3> HIDE DEF upTo
    <3> QED
      BY <3>1, <3>2, FS_Subset
  <2> QED
    BY <1>4, <1>5, <2>1
<1>8. place \in Injection(kept, 1..top)
  <2>1. place \in [kept -> 1..top]
    BY <1>6
  <2>2. \A i, j \in kept : place[i] = place[j] => i = j
    <3> HIDE DEF place, kept
    <3> QED
      BY <1>2, <1>7
  <2> HIDE DEF place
  <2> QED
    BY <2>1, <2>2 DEF Injection, IsInjective
<1>9. IsFiniteSet(1..top) /\ Cardinality(1..top) = top
  BY <1>3, IntervalSize
<1>10. place \in Surjection(kept, 1..top)
  BY <1>8, <1>9, FS_Injection
<1>11. \A n \in 1..top : \E i \in kept : Cardinality(upTo(i)) = n
  BY <1>10 DEF Surjection
<1> DEFINE pick(n) == CHOOSE i \in kept : Cardinality(upTo(i)) = n
<1>12. \A n \in 1..top : pick(n) \in kept /\ Cardinality(upTo(pick(n))) = n
  BY <1>11
<1>13. Without(held, keys) = [n \in 1..top |-> held[pick(n)]]
  BY DEF Without
<1> HIDE DEF pick, top, place
<1>14. Without(held, keys) \in Seq(Buffers)
  <2>1. \A n \in 1..top : held[pick(n)] \in Buffers
    BY <1>1, <1>2, <1>12
  <2> QED
    BY <1>3, <1>13, <2>1, IsASeq
<1>16. \A n \in 1..Len(Without(held, keys)) :
         \E i \in DOMAIN held : Without(held, keys)[n] = held[i]
  <2>1. Len(Without(held, keys)) = top
    BY <1>3, <1>13
  <2> QED
    BY <1>12, <1>13, <2>1
<1>15. ASSUME keys \cap KeysOf(held) = {} PROVE Without(held, keys) = held
  <2>1. kept = 1..Len(held)
    BY <1>1, <1>15 DEF KeysOf
  <2>2. top = Len(held)
    BY <1>1, <2>1, IntervalSize DEF top
  <2>3. \A i \in kept : Cardinality(upTo(i)) = i
    <3> SUFFICES ASSUME NEW i \in kept PROVE Cardinality(upTo(i)) = i
      OBVIOUS
    <3>1. upTo(i) = 1..i
      BY <1>1, <2>1
    <3> HIDE DEF upTo
    <3> QED
      BY <1>1, <2>1, <3>1, IntervalSize
  <2>4. \A n \in 1..top : pick(n) = n
    BY <1>12, <2>3
  <2>5. \A n \in 1..Len(held) : Without(held, keys)[n] = held[n]
    BY <1>13, <2>2, <2>4
  <2>6. Len(Without(held, keys)) = Len(held)
    BY <1>1, <1>13, <2>2
  <2> QED
    BY <1>14, <2>5, <2>6, SeqEqual
<1> QED
  BY <1>14, <1>15, <1>16

(* What is refused and what came meanwhile are both still parked; without   *)
(* a key in common they simply follow each other.                           *)
LEMMA RestoredProperties ==
  ASSUME NEW held \in Seq(Buffers), NEW ready \in Seq(Buffers)
  PROVE  /\ Restored(held, ready) \in Seq(Buffers)
         /\ Parked(Restored(held, ready)) \subseteq Parked(held) \cup Parked(ready)
         /\ KeysOf(ready) \cap KeysOf(held) = {} => Restored(held, ready) = ready \o held
<1> DEFINE back(i) == IF ready[i].key \in KeysOf(held)
                        THEN CHOOSE b \in {held[j] : j \in DOMAIN held} : b.key = ready[i].key
                        ELSE ready[i]
           front == [i \in DOMAIN ready |-> back(i)]
<1>1. /\ DOMAIN held = 1..Len(held) /\ \A i \in 1..Len(held) : held[i] \in Buffers
      /\ DOMAIN ready = 1..Len(ready) /\ Len(ready) \in Nat
      /\ \A i \in 1..Len(ready) : ready[i] \in Buffers
  BY LenProperties, ElementOfSeq
<1>2. \A i \in 1..Len(ready) : back(i) \in Buffers
  <2> SUFFICES ASSUME NEW i \in 1..Len(ready), ready[i].key \in KeysOf(held)
               PROVE  back(i) \in Buffers
    BY <1>1
  <2>1. \E b \in {held[j] : j \in DOMAIN held} : b.key = ready[i].key
    BY DEF KeysOf
  <2>2. back(i) \in {held[j] : j \in DOMAIN held}
    BY <2>1
  <2> QED
    BY <1>1, <2>2
<1>3. Restored(held, ready) = front \o Without(held, KeysOf(ready))
  BY DEF Restored
<1>4. front \in Seq(Buffers)
  <2> HIDE DEF back
  <2> QED
    BY <1>1, <1>2, IsASeq
<1>5. ASSUME KeysOf(ready) \cap KeysOf(held) = {} PROVE front = ready
  <2>1. \A i \in 1..Len(ready) : front[i] = ready[i]
    BY <1>1, <1>5 DEF KeysOf
  <2>2. Len(front) = Len(ready)
    BY <1>1
  <2> HIDE DEF front
  <2> QED
    BY <1>4, <2>1, <2>2, SeqEqual
<1>6. \A i \in 1..Len(ready) : front[i].events \subseteq Parked(held) \cup Parked(ready)
  <2> SUFFICES ASSUME NEW i \in 1..Len(ready)
               PROVE  back(i).events \subseteq Parked(held) \cup Parked(ready)
    BY <1>1
  <2>1. CASE ready[i].key \in KeysOf(held)
    <3>1. \E b \in {held[j] : j \in DOMAIN held} : b.key = ready[i].key
      BY <2>1 DEF KeysOf
    <3>2. back(i) \in {held[j] : j \in DOMAIN held}
      BY <2>1, <3>1
    <3> HIDE DEF back
    <3> QED
      BY <3>2 DEF Parked
  <2>2. CASE ready[i].key \notin KeysOf(held)
    BY <1>1, <2>2 DEF Parked
  <2> QED
    BY <2>1, <2>2
<1>7. Len(front) = Len(ready)
  BY <1>1
<1> HIDE DEF front
<1> DEFINE rest == Without(held, KeysOf(ready))
<1>8. /\ rest \in Seq(Buffers)
      /\ \A n \in 1..Len(rest) : rest[n].events \subseteq Parked(held)
  BY WithoutProperties DEF Parked
<1> HIDE DEF rest
<1>9. Parked(front \o rest) \subseteq Parked(held) \cup Parked(ready)
  <2>1. /\ DOMAIN (front \o rest) = 1..(Len(front) + Len(rest))
        /\ Len(front) \in Nat /\ Len(rest) \in Nat
        /\ \A i \in 1..Len(front) : (front \o rest)[i] = front[i]
        /\ \A i \in (Len(front) + 1)..(Len(front) + Len(rest)) :
             (front \o rest)[i] = rest[i - Len(front)]
    BY <1>4, <1>8, ConcatProperties, LenProperties
  <2>2. \A i \in 1..(Len(front) + Len(rest)) :
          (front \o rest)[i].events \subseteq Parked(held) \cup Parked(ready)
    <3> SUFFICES ASSUME NEW i \in 1..(Len(front) + Len(rest))
                 PROVE  (front \o rest)[i].events \subseteq Parked(held) \cup Parked(ready)
      OBVIOUS
    <3>1. CASE i <= Len(front)
      BY <1>6, <1>7, <2>1, <3>1
    <3>2. CASE ~(i <= Len(front))
      <4>1. i - Len(front) \in 1..Len(rest) /\ i \in (Len(front) + 1)..(Len(front) + Len(rest))
        BY <2>1, <3>2
      <4> QED
        BY <1>8, <2>1, <4>1
    <3> QED
      BY <3>1, <3>2
  <2> QED
    BY <2>1, <2>2 DEF Parked
<1>10. KeysOf(ready) \cap KeysOf(held) = {} => rest = held
  BY WithoutProperties DEF rest
<1>11. front \o rest \in Seq(Buffers)
  BY <1>4, <1>8, ConcatProperties
<1> QED
  BY <1>3, <1>5, <1>9, <1>10, <1>11 DEF rest

(* Parking an event moves what its key completes and loses nothing. *)
LEMMA ParkedProperties ==
  ASSUME NEW held \in Seq(Buffers), NEW n \in Events
  PROVE  /\ Parked(Accepted(held, n)) \cup Parked(Completed(held, KeyOf(n)))
              = Parked(held) \cup {n}
         /\ n \in Parked(Accepted(held, n))
<1> DEFINE a == Ahead(held, KeyOf(n))
           new == Accepted(held, n)
           old == Completed(held, KeyOf(n))
<1>1. DOMAIN held = 1..Len(held) /\ Len(held) \in Nat
  BY LenProperties
<1>2. a \in 0..Len(held)
  BY AheadProperties
<1>3. old \in Seq(Buffers) /\ Len(old) = a /\ \A i \in 1..a : old[i] = held[i]
  BY SplitProperties
<1>4. /\ new \in Seq(Buffers)
      /\ a = Len(held) => new = <<[key |-> KeyOf(n), events |-> {n}]>>
      /\ a < Len(held) =>
           /\ Len(new) = Len(held) - a
           /\ new[1].events = held[a + 1].events \cup {n}
           /\ \A i \in 2..(Len(held) - a) : new[i] = held[a + i]
  BY AcceptedProperties
<1>5. DOMAIN old = 1..a /\ DOMAIN new = 1..Len(new)
  BY <1>3, <1>4, LenProperties
<1> HIDE DEF a, new, old
<1>20. a \in Nat /\ Len(held) \in Nat /\ a <= Len(held)
  BY <1>1, <1>2
<1>6. Parked(old) = UNION {held[i].events : i \in 1..a}
  BY <1>3, <1>5 DEF Parked
<1>7. CASE a = Len(held)
  <2>1. Parked(new) = {n}
    BY <1>4, <1>7 DEF Parked
  <2> QED
    BY <1>1, <1>6, <1>7, <2>1 DEF Parked, a, new, old
<1>8. CASE a < Len(held)
  <2>1. Len(new) = Len(held) - a /\ 1 \in 1..(Len(held) - a) /\ DOMAIN new = 1..(Len(held) - a)
    BY <1>20, <1>4, <1>5, <1>8
  <2>2. ASSUME NEW i \in 1..(Len(held) - a)
        PROVE  /\ a + i \in 1..Len(held)
               /\ held[a + i].events \subseteq new[i].events
               /\ new[i].events \subseteq held[a + i].events \cup {n}
    <3>1. a + i \in 1..Len(held)
      BY <1>20
    <3>2. CASE i = 1
      BY <1>4, <1>8, <3>1, <3>2
    <3>3. CASE i # 1
      <4>1. i \in 2..(Len(held) - a)
        BY <1>20, <3>3
      <4> QED
        BY <1>4, <1>8, <3>1, <4>1
    <3> QED
      BY <3>2, <3>3
  <2>4. n \in Parked(new)
    BY <1>4, <1>8, <2>1 DEF Parked
  <2>6. Parked(held) \subseteq Parked(new) \cup Parked(old)
    <3> SUFFICES ASSUME NEW i \in 1..Len(held)
                 PROVE  held[i].events \subseteq Parked(new) \cup Parked(old)
      BY <1>1 DEF Parked
    <3>1. CASE i <= a
      <4>1. i \in 1..a
        BY <1>20, <3>1
      <4> QED
        BY <1>6, <4>1
    <3>2. CASE ~(i <= a)
      <4>1. i - a \in 1..(Len(held) - a) /\ a + (i - a) = i
        BY <1>20, <3>2
      <4>2. held[i].events \subseteq new[i - a].events
        BY <2>2, <4>1
      <4> QED
        BY <2>1, <4>1, <4>2 DEF Parked
    <3> QED
      BY <3>1, <3>2
  <2>7. Parked(new) \subseteq Parked(held) \cup {n}
    <3> SUFFICES ASSUME NEW i \in 1..(Len(held) - a)
                 PROVE  new[i].events \subseteq Parked(held) \cup {n}
      BY <2>1 DEF Parked
    <3> QED
      BY <1>1, <2>2 DEF Parked
  <2>8. Parked(old) \subseteq Parked(held)
    <3>1. \A i \in 1..a : i \in DOMAIN held
      BY <1>1, <1>20
    <3> QED
      BY <1>6, <3>1 DEF Parked
  <2> QED
    BY <2>4, <2>6, <2>7, <2>8 DEF a, new, old
<1>9. a = Len(held) \/ a < Len(held)
  BY <1>20
<1> QED
  BY <1>7, <1>8, <1>9

LEMMA ParkedNothing == Parked(<<>>) = {}
BY DEF Parked

-----------------------------------------------------------------------------
(* Types. *)

LEMMA IdleJobType == IdleJob \in Jobs /\ Fits(IdleJob)
<1>1. BlankUsage \in Usages
  BY DEF BlankUsage, Usages
<1>2. <<>> \in Seq(Buffers)
  BY EmptySeq
<1> QED
  BY <1>1, <1>2, Zenon
     DEF IdleJob, Jobs, Stages, Fits, Delivering, Committing, Applying

(* What the current call of a thread holds. *)
LEMMA CallTypes ==
  ASSUME TypeInv, NEW t \in Threads
  PROVE  /\ job[t] \in Jobs /\ Fits(job[t])
         /\ job[t].ready \in Seq(Buffers)
         /\ job[t].usage \in Usages
         /\ job[t].todo \in SUBSET Events
         /\ job[t].current \in Nat /\ job[t].event \in Nat
         /\ job[t].close \in BOOLEAN
         /\ job[t].stage \in Stages
         /\ job[t].stage # "idle" => job[t].sub \in Subs
         /\ job[t].stage \in Committing => /\ job[t].current \in 1..Len(job[t].ready)
                                           /\ Current(t) \in Buffers
<1>1. job[t] \in Jobs /\ Fits(job[t])
  BY DEF TypeInv, TypeOK, CallsFit
<1>2. job[t].ready \in Seq(Buffers)
  BY <1>1 DEF Jobs
<1>3. DOMAIN job[t].ready = 1..Len(job[t].ready)
  BY <1>2, LenProperties
<1>4. \A i \in 1..Len(job[t].ready) : job[t].ready[i] \in Buffers
  BY <1>2, ElementOfSeq
<1>5. job[t].close \in BOOLEAN
  BY <1>1, Zenon DEF Jobs
<1> QED
  BY <1>1, <1>2, <1>3, <1>4, <1>5 DEF Jobs, Fits, Current

(* A step that moves one call. *)
LEMMA OneCallMoves ==
  ASSUME TypeInv, NEW t \in Threads, NEW j, job' = [job EXCEPT ![t] = j]
  PROVE  /\ job'[t] = j
         /\ \A u \in Threads \ {t} : job'[u] = job[u]
         /\ j \in Jobs /\ Fits(j) => job' \in [Threads -> Jobs] /\ CallsFit'
<1>1. job \in [Threads -> Jobs] /\ \A u \in Threads : Fits(job[u])
  BY DEF TypeInv, TypeOK, CallsFit
<1>2. job'[t] = j /\ \A u \in Threads \ {t} : job'[u] = job[u]
  BY <1>1
<1>3. ASSUME j \in Jobs, Fits(j) PROVE job' \in [Threads -> Jobs] /\ CallsFit'
  <2>1. job' \in [Threads -> Jobs]
    BY <1>1, <1>3
  <2>2. \A u \in Threads : Fits(job'[u])
    BY <1>1, <1>2, <1>3
  <2> QED
    BY <2>1, <2>2 DEF CallsFit, Fits
<1> QED
  BY <1>2, <1>3

(* One more event done: the rest of the events, or the next phase.          *)
LEMMA EventDoneCall ==
  ASSUME TypeInv, NEW t \in Threads, job[t].stage \in Applying,
         NEW next \in {"invalidating", "marking", "counting"}, EventDone(t, next)
  PROVE  LET left == job[t].todo \ {First(job[t].todo)} IN
         /\ First(job[t].todo) \in job[t].todo
         /\ First(job[t].todo) \in Events
         /\ job' = [job EXCEPT ![t] = [job[t] EXCEPT
               !.stage = IF left = {} THEN next ELSE job[t].stage,
               !.todo = IF left = {} THEN Current(t).events ELSE left]]
         /\ job' \in [Threads -> Jobs] /\ CallsFit'
<1> DEFINE left == job[t].todo \ {First(job[t].todo)}
           j == [job[t] EXCEPT !.stage = IF left = {} THEN next ELSE job[t].stage,
                               !.todo = IF left = {} THEN Current(t).events ELSE left]
<1>1. job \in [Threads -> Jobs]
  BY DEF TypeInv, TypeOK
<1>2. /\ job[t] \in Jobs /\ Fits(job[t]) /\ job[t].todo \in SUBSET Events
      /\ job[t].stage \in Committing /\ job[t].sub \in Subs /\ Current(t) \in Buffers
  BY CallTypes DEF Applying, Committing
<1>3. job[t].todo # {} /\ job[t].todo \subseteq Current(t).events
  BY <1>2 DEF Fits, Current
<1>4. First(job[t].todo) \in job[t].todo
  BY <1>2, <1>3, EventProperties, FirstProperties
<1>5. job' = [job EXCEPT ![t] = j]
  BY <1>1 DEF EventDone
<1>6. /\ Current(t).events # {} /\ Current(t).events \in SUBSET Events
      /\ left \in SUBSET Current(t).events
  BY <1>2, <1>3 DEF Buffers
<1> HIDE DEF left
<1>7. /\ j.stage = (IF left = {} THEN next ELSE job[t].stage)
      /\ j.todo = (IF left = {} THEN Current(t).events ELSE left)
      /\ j.sub = job[t].sub /\ j.event = job[t].event /\ j.ready = job[t].ready
      /\ j.current = job[t].current
      /\ j \in Jobs
  BY <1>2, <1>6 DEF Jobs, Stages, Applying
<1> HIDE DEF j
<1>8. Fits(j)
  BY <1>2, <1>6, <1>7 DEF Fits, Current, Applying, Committing, Delivering
<1>9. job' \in [Threads -> Jobs] /\ CallsFit'
  BY <1>5, <1>7, <1>8, OneCallMoves
<1> QED
  BY <1>2, <1>4, <1>5, <1>9 DEF j, left

LEMMA UsageTypes ==
  ASSUME NEW u \in Usages
  PROVE  /\ RecordDelivery(u) \in Usages
         /\ \A n \in Nat : RequestFetch(u, n) \in Usages
<1>1. \A n \in Nat : RequestFetch(u, n) \in Usages
  <2> SUFFICES ASSUME NEW n \in Nat PROVE RequestFetch(u, n) \in Usages
    OBVIOUS
  <2>1. PICK r, o \in Nat : r = u.requested + n /\ o = u.outstanding + n
    BY DEF Usages
  <2>2. RequestFetch(u, n) = [u EXCEPT !.requested = r, !.outstanding = o]
    BY <2>1 DEF RequestFetch
  <2> QED
    BY <2>2 DEF Usages
<1>2. u.outstanding \in Nat /\ u.delivered \in Nat
  BY DEF Usages
<1>3. (IF u.outstanding > 0 THEN u.outstanding - 1 ELSE 0) \in Nat
  BY <1>2
<1>4. u.delivered + 1 \in Nat
  BY <1>2
<1>5. RecordDelivery(u) = [u EXCEPT !.delivered = u.delivered + 1,
                            !.outstanding = IF u.outstanding > 0 THEN u.outstanding - 1 ELSE 0]
  BY DEF RecordDelivery
<1>6. \A d, o \in Nat : [u EXCEPT !.delivered = d, !.outstanding = o] \in Usages
  BY DEF Usages
<1> QED
  BY <1>1, <1>3, <1>4, <1>5, <1>6

LEMMA TypeInit == Init => TypeInv
<1> SUFFICES ASSUME Init PROVE TypeInv
  OBVIOUS
<1>1. BlankUsage \in Usages /\ \A S : <<>> \in Seq(S)
  BY EmptySeq DEF BlankUsage, Usages
<1>2. subscription \in [Subs -> Subscriptions]
  BY <1>1 DEF Init, Subscriptions
<1>3. job \in [Threads -> Jobs] /\ CallsFit
  BY IdleJobType DEF Init, CallsFit
<1> QED
  BY <1>1, <1>2, <1>3, Zenon DEF Init, TypeInv, TypeOK

(* A subscription row with new counters or a new state. *)
LEMMA RowTypes ==
  ASSUME TypeInv, NEW s \in Subs
  PROVE  /\ \A u \in Usages : [subscription EXCEPT ![s].usage = u] \in [Subs -> Subscriptions]
         /\ \A x \in {"open", "closed"} :
              [subscription EXCEPT ![s].state = x] \in [Subs -> Subscriptions]
         /\ subscription[s].usage \in Usages
         /\ buffers[s] \in Seq(Buffers)
         /\ RoomOf[s] \in Rooms
         /\ replica_writes[RoomOf[s]] \in Seq(Writes)
BY SubscriptionAssumption DEF TypeInv, TypeOK, Subscriptions

(* A call that starts on a subscription. *)
LEMMA Starts ==
  ASSUME TypeInv, NEW t \in Threads, NEW j \in Jobs, j.stage \notin Committing \cup {"ready"},
         j.sub \in Subs, j.stage \in Delivering => j.event \in Events,
         job' = [job EXCEPT ![t] = j]
  PROVE  job' \in [Threads -> Jobs] /\ CallsFit'
<1>1. Fits(j)
  BY DEF Fits, Committing, Applying
<1> QED
  BY <1>1, OneCallMoves

(* Handlers that only move their own call. *)
LEMMA TypeCalls ==
  ASSUME TypeInv, NEW t \in Threads,
         \/ \E s \in Subs : Fetch(t, s) \/ Close(t, s) \/ \E n \in Events : Deliver(t, s, n)
         \/ CommitMany(t) \/ Plan(t) \/ CountCommit(t) \/ DatabaseFails(t)
  PROVE  job' \in [Threads -> Jobs] /\ CallsFit'
<1>0. job \in [Threads -> Jobs] /\ job[t] \in Jobs /\ Fits(job[t]) /\ job[t].todo \in SUBSET Events
  BY CallTypes DEF TypeInv, TypeOK
<1>1. ASSUME NEW s \in Subs, Fetch(t, s) PROVE job' \in [Threads -> Jobs] /\ CallsFit'
  <2> DEFINE j == [IdleJob EXCEPT !.stage = "fetching", !.sub = s, !.usage = subscription[s].usage]
  <2>1. j \in Jobs /\ j.stage = "fetching" /\ j.sub = s
    BY IdleJobType, RowTypes DEF Jobs, Stages
  <2>2. job' = [job EXCEPT ![t] = j]
    BY <1>1 DEF Fetch
  <2> HIDE DEF j
  <2> QED
    BY <2>1, <2>2, Starts DEF Committing, Delivering
<1>2. ASSUME NEW s \in Subs, Close(t, s) PROVE job' \in [Threads -> Jobs] /\ CallsFit'
  <2> DEFINE j == [IdleJob EXCEPT !.stage = "draining", !.close = TRUE, !.sub = s]
  <2>1. j \in Jobs
    BY IdleJobType, Zenon DEF Jobs, Stages
  <2>2. j.stage = "draining" /\ j.sub = s
    BY IdleJobType DEF Jobs
  <2>3. job' = [job EXCEPT ![t] = j]
    BY <1>2 DEF Close
  <2> HIDE DEF j
  <2> QED
    BY <2>1, <2>2, <2>3, Starts DEF Committing, Delivering
<1>3. ASSUME NEW s \in Subs, NEW n \in Events, Deliver(t, s, n)
      PROVE  job' \in [Threads -> Jobs] /\ CallsFit'
  <2> DEFINE j == [IdleJob EXCEPT !.stage = "admitted", !.sub = s, !.event = n,
                                  !.usage = subscription[s].usage]
  <2>1. j \in Jobs /\ j.stage = "admitted" /\ j.sub = s /\ j.event = n
    BY IdleJobType, RowTypes, EventProperties DEF Jobs, Stages
  <2>2. job' = [job EXCEPT ![t] = j]
    BY <1>3 DEF Deliver
  <2> HIDE DEF j
  <2> QED
    BY <2>1, <2>2, Starts DEF Committing, Delivering
<1>4. ASSUME CommitMany(t) PROVE job' \in [Threads -> Jobs] /\ CallsFit'
  <2> DEFINE j == [job[t] EXCEPT !.stage = "planning", !.current = 1]
  <2>1. /\ j \in Jobs /\ j.stage = "planning" /\ j.sub = job[t].sub
        /\ j.current = 1 /\ j.ready = job[t].ready
    BY <1>0 DEF Jobs, Stages
  <2>2. job' = [job EXCEPT ![t] = j]
    BY <1>0, <1>4 DEF CommitMany
  <2>3. job[t].ready # <<>> /\ job[t].sub \in Subs
    BY <1>0, <1>4 DEF Fits, CommitMany
  <2>4. 1 \in DOMAIN job[t].ready
    BY <2>3, CallTypes, LenProperties, EmptySeq
  <2> HIDE DEF j
  <2>5. Fits(j)
    BY <2>1, <2>3, <2>4 DEF Fits, Committing, Applying, Delivering
  <2> QED
    BY <2>1, <2>2, <2>5, OneCallMoves
<1>5. ASSUME Plan(t) PROVE job' \in [Threads -> Jobs] /\ CallsFit'
  <2> DEFINE j == [job[t] EXCEPT !.stage = "writing", !.todo = Current(t).events]
  <2>1. Current(t) \in Buffers /\ job[t].sub \in Subs /\ job[t].current \in DOMAIN job[t].ready
    BY <1>5, CallTypes, LenProperties DEF Plan, Committing
  <2>2. Current(t).events # {} /\ Current(t).events \in SUBSET Events
    BY <2>1 DEF Buffers
  <2>3. /\ j \in Jobs /\ j.stage = "writing" /\ j.sub = job[t].sub /\ j.todo = Current(t).events
        /\ j.current = job[t].current /\ j.ready = job[t].ready
    BY <1>0, <2>2 DEF Jobs, Stages
  <2>4. job' = [job EXCEPT ![t] = j]
    BY <1>0, <1>5 DEF Plan
  <2> HIDE DEF j
  <2>5. Fits(j)
    BY <2>1, <2>2, <2>3 DEF Fits, Current, Committing, Applying, Delivering
  <2> QED
    BY <2>3, <2>4, <2>5, OneCallMoves
<1>6. ASSUME CountCommit(t) PROVE job' \in [Threads -> Jobs] /\ CallsFit'
  <2> DEFINE j == [job[t] EXCEPT !.stage = "counted", !.todo = {},
                                 !.usage = subscription[job[t].sub].usage]
  <2>1. /\ job[t].sub \in Subs /\ job[t].current \in DOMAIN job[t].ready
        /\ subscription[job[t].sub].usage \in Usages
    BY <1>6, CallTypes, RowTypes, LenProperties DEF CountCommit, Committing
  <2>2. /\ j \in Jobs /\ j.stage = "counted" /\ j.sub = job[t].sub
        /\ j.current = job[t].current /\ j.ready = job[t].ready
    BY <1>0, <2>1 DEF Jobs, Stages
  <2>3. job' = [job EXCEPT ![t] = j]
    BY <1>0, <1>6 DEF CountCommit
  <2> HIDE DEF j
  <2>4. Fits(j)
    BY <2>1, <2>2 DEF Fits, Committing, Applying, Delivering
  <2> QED
    BY <2>2, <2>3, <2>4, OneCallMoves
<1>7. ASSUME DatabaseFails(t) PROVE job' \in [Threads -> Jobs] /\ CallsFit'
  BY <1>7, IdleJobType, OneCallMoves DEF DatabaseFails
<1> QED
  BY <1>1, <1>2, <1>3, <1>4, <1>5, <1>6, <1>7

(* Handlers that write. *)
LEMMA TypeWriters ==
  ASSUME TypeInv, NEW t \in Threads, Handler(t)
  PROVE  /\ subscription' \in [Subs -> Subscriptions]
         /\ change_log' \in Seq(Rows)
         /\ replica_writes' \in [Rooms -> Seq(Writes)]
         /\ invalidations' \in [Rooms -> SUBSET Writes]
         /\ enriched' \in BOOLEAN
         /\ buffers' \in [Subs -> Seq(Buffers)]
         /\ disturbed' \in BOOLEAN
         /\ job' \in [Threads -> Jobs] /\ CallsFit'
<1> DEFINE Typed == /\ subscription' \in [Subs -> Subscriptions]
                    /\ change_log' \in Seq(Rows)
                    /\ replica_writes' \in [Rooms -> Seq(Writes)]
                    /\ invalidations' \in [Rooms -> SUBSET Writes]
                    /\ enriched' \in BOOLEAN
                    /\ buffers' \in [Subs -> Seq(Buffers)]
                    /\ disturbed' \in BOOLEAN
           Moved == job' \in [Threads -> Jobs] /\ CallsFit'
<1>0. /\ job \in [Threads -> Jobs] /\ job[t] \in Jobs /\ Fits(job[t])
      /\ subscription \in [Subs -> Subscriptions]
      /\ change_log \in Seq(Rows)
      /\ replica_writes \in [Rooms -> Seq(Writes)]
      /\ invalidations \in [Rooms -> SUBSET Writes]
      /\ enriched \in BOOLEAN
      /\ buffers \in [Subs -> Seq(Buffers)]
      /\ disturbed \in BOOLEAN
  BY CallTypes DEF TypeInv, TypeOK
<1>00. /\ job[t].usage \in Usages /\ job[t].ready \in Seq(Buffers)
       /\ job[t].stage # "idle" => job[t].sub \in Subs
  BY CallTypes
<1> SUFFICES Typed /\ Moved
  OBVIOUS
<1>idle. ASSUME job' = [job EXCEPT ![t] = IdleJob] PROVE Moved
  BY <1>idle, IdleJobType, OneCallMoves
<1>1. ASSUME NEW n \in 1..MaxFetch, FetchUpdate(t, n) PROVE Typed /\ Moved
  <2>0. n \in Nat
    BY LimitAssumption
  <2>1. job[t].sub \in Subs /\ RequestFetch(job[t].usage, n) \in Usages
    BY <1>00, <1>1, <2>0, UsageTypes DEF FetchUpdate
  <2>2. subscription' \in [Subs -> Subscriptions]
    BY <2>1, <1>1, RowTypes DEF FetchUpdate
  <2> QED
    BY <1>0, <1>1, <1>idle, <2>2 DEF FetchUpdate
<1>2. ASSUME LogEvent(t) PROVE Typed /\ Moved
  <2> DEFINE j == [job[t] EXCEPT !.stage = "logged"]
  <2>1. job[t].sub \in Subs /\ job[t].event \in Events
    BY <1>0, <1>2 DEF LogEvent, Fits, Delivering
  <2>2. j \in Jobs /\ j.stage = "logged" /\ j.sub = job[t].sub /\ j.event = job[t].event
    BY <1>0 DEF Jobs, Stages
  <2>3. job' = [job EXCEPT ![t] = j]
    BY <1>0, <1>2 DEF LogEvent
  <2> HIDE DEF j
  <2>4. Moved
    BY <2>1, <2>2, <2>3, Starts DEF Committing
  <2>5. change_log' \in Seq(Rows)
    BY <1>0, <1>2, <2>1, AppendProperties DEF LogEvent, Rows
  <2> QED
    BY <1>0, <1>2, <2>4, <2>5 DEF LogEvent
<1>3. ASSUME Accept(t) PROVE Typed /\ Moved
  <2>1. job[t].sub \in Subs /\ job[t].event \in Events /\ job[t].stage = "logged"
    BY <1>0, <1>3 DEF Accept, Fits, Delivering
  <2>2. PICK held \in Seq(Buffers) : held = buffers[job[t].sub]
    BY <1>0, <2>1
  <2>3. /\ Accepted(held, job[t].event) \in Seq(Buffers)
        /\ Completed(held, KeyOf(job[t].event)) \in Seq(Buffers)
    BY <2>1, AcceptedProperties, SplitProperties
  <2> DEFINE done == IF IsDuplicate(held, job[t].event) THEN <<>>
                     ELSE Completed(held, KeyOf(job[t].event))
             stage == IF IsDuplicate(held, job[t].event) THEN "refusing" ELSE "parked"
             j == [job[t] EXCEPT !.stage = stage, !.ready = done]
  <2>4. done \in Seq(Buffers) /\ stage \in {"refusing", "parked"}
    BY <2>3, EmptySeq
  <2>5. job' = [job EXCEPT ![t] = j]
    BY <1>0, <1>3, <2>2 DEF Accept
  <2> HIDE DEF done, stage
  <2>6. j \in Jobs /\ j.stage = stage /\ j.sub = job[t].sub /\ j.event = job[t].event
    BY <1>0, <2>4 DEF Jobs, Stages
  <2> HIDE DEF j
  <2>7. Moved
    BY <2>1, <2>4, <2>5, <2>6, Starts DEF Committing
  <2>8. buffers' \in [Subs -> Seq(Buffers)]
    BY <1>0, <1>3, <2>1, <2>2, <2>3 DEF Accept
  <2> QED
    BY <1>0, <1>3, <2>7, <2>8 DEF Accept, stored
<1>4. ASSUME RefuseDuplicate(t) PROVE Typed /\ Moved
  <2>1. subscription' \in [Subs -> Subscriptions]
    BY <1>00, <1>4, RowTypes DEF RefuseDuplicate
  <2> QED
    BY <1>0, <1>4, <1>idle, <2>1 DEF RefuseDuplicate
<1>5. ASSUME CountDelivery(t) PROVE Typed /\ Moved
  <2> DEFINE j == [job[t] EXCEPT !.stage = "ready"]
  <2>1. job[t].sub \in Subs /\ RecordDelivery(job[t].usage) \in Usages
    BY <1>00, <1>5, UsageTypes DEF CountDelivery
  <2>2. subscription' \in [Subs -> Subscriptions]
    BY <2>1, <1>5, RowTypes DEF CountDelivery
  <2>3. CASE job[t].ready = <<>>
    BY <1>0, <1>5, <1>idle, <2>2, <2>3 DEF CountDelivery
  <2>4. CASE job[t].ready # <<>>
    <3>1. job' = [job EXCEPT ![t] = j]
      BY <1>0, <1>5, <2>4 DEF CountDelivery
    <3>2. j \in Jobs /\ j.stage = "ready" /\ j.sub = job[t].sub /\ j.ready = job[t].ready
      BY <1>0 DEF Jobs, Stages
    <3> HIDE DEF j
    <3>3. Fits(j)
      BY <2>1, <2>4, <3>2 DEF Fits, Committing, Applying, Delivering
    <3>4. Moved
      BY <3>1, <3>2, <3>3, OneCallMoves
    <3> QED
      BY <1>0, <1>5, <2>2, <3>4 DEF CountDelivery
  <2> QED
    BY <2>3, <2>4
<1>6. ASSUME Refuse(t), job[t].sub \in Subs PROVE Typed /\ Moved
  <2>1. PICK held \in Seq(Buffers) : held = buffers[job[t].sub]
    BY <1>0, <1>6
  <2>2. Restored(held, job[t].ready) \in Seq(Buffers)
    BY <1>00, RestoredProperties
  <2>3. buffers' \in [Subs -> Seq(Buffers)]
    BY <1>0, <1>6, <2>1, <2>2 DEF Refuse
  <2> QED
    BY <1>0, <1>6, <1>idle, <2>3 DEF Refuse, stored
<1>7. ASSUME WriteReplica(t) PROVE Typed /\ Moved
  <2>1. job[t].stage = "writing" /\ EventDone(t, "invalidating")
    BY <1>7 DEF WriteReplica
  <2>2. Moved /\ First(job[t].todo) \in Events
    BY <2>1, EventDoneCall DEF Applying
  <2>3. WriteOf(t) \in Writes /\ job[t].sub \in Subs
    BY <1>00, <2>1, <2>2 DEF WriteOf, Writes
  <2>4. PICK room \in Rooms : room = RoomOf[job[t].sub]
    BY <2>3, RowTypes
  <2>5. Append(replica_writes[room], WriteOf(t)) \in Seq(Writes)
    BY <1>0, <2>3, AppendProperties
  <2>6. replica_writes' \in [Rooms -> Seq(Writes)]
    BY <1>0, <1>7, <2>4, <2>5 DEF WriteReplica
  <2> QED
    BY <1>0, <1>7, <2>2, <2>6 DEF WriteReplica
<1>8. ASSUME Invalidate(t) PROVE Typed /\ Moved
  <2>1. job[t].stage = "invalidating" /\ EventDone(t, "marking")
    BY <1>8 DEF Invalidate
  <2>2. Moved /\ First(job[t].todo) \in Events
    BY <2>1, EventDoneCall DEF Applying
  <2>3. WriteOf(t) \in Writes /\ job[t].sub \in Subs
    BY <1>00, <2>1, <2>2 DEF WriteOf, Writes
  <2>4. PICK room \in Rooms : room = RoomOf[job[t].sub]
    BY <2>3, RowTypes
  <2>5. invalidations[room] \cup {WriteOf(t)} \in SUBSET Writes
    BY <1>0, <2>3
  <2>6. invalidations' \in [Rooms -> SUBSET Writes]
    BY <1>0, <1>8, <2>4, <2>5 DEF Invalidate
  <2> QED
    BY <1>0, <1>8, <2>2, <2>6 DEF Invalidate
<1>9. ASSUME MarkCommitted(t) PROVE Typed /\ Moved
  <2>1. job[t].stage = "marking" /\ EventDone(t, "counting")
    BY <1>9 DEF MarkCommitted
  <2>2. Moved
    BY <2>1, EventDoneCall DEF Applying
  <2>3. /\ DOMAIN change_log = 1..Len(change_log) /\ Len(change_log) \in Nat
        /\ \A i \in 1..Len(change_log) : change_log[i] \in Rows
    BY <1>0, LenProperties, ElementOfSeq
  <2> DEFINE row(i) == IF change_log[i].event = First(job[t].todo)
                         THEN [change_log[i] EXCEPT !.state = "committed"] ELSE change_log[i]
  <2>4. \A i \in 1..Len(change_log) : row(i) \in Rows
    BY <2>3 DEF Rows
  <2>5. change_log' = [i \in 1..Len(change_log) |-> row(i)]
    BY <1>9, <2>3 DEF MarkCommitted
  <2> HIDE DEF row
  <2>6. change_log' \in Seq(Rows)
    BY <2>3, <2>4, <2>5, IsASeq
  <2> QED
    BY <1>0, <1>9, <2>2, <2>6 DEF MarkCommitted
<1>10. ASSUME CommitCounted(t) PROVE Typed /\ Moved
  <2>1. /\ job[t].sub \in Subs /\ job[t].current \in 1..Len(job[t].ready)
        /\ DOMAIN job[t].ready = 1..Len(job[t].ready)
    BY <1>10, CallTypes, LenProperties DEF CommitCounted, Committing
  <2>2. subscription' \in [Subs -> Subscriptions]
    BY <1>00, <1>10, <2>1, RowTypes DEF CommitCounted
  <2>3. Moved
    <3>1. CASE job[t].current < Len(job[t].ready)
      <4> DEFINE j == [job[t] EXCEPT !.stage = "planning", !.current = job[t].current + 1]
      <4>1. job' = [job EXCEPT ![t] = j]
        <5> DEFINE go == job[t].current < Len(job[t].ready)
        <5>1. job' = [job EXCEPT ![t] =
                IF go THEN j
                ELSE IF job[t].close THEN [job[t] EXCEPT !.stage = "closing"] ELSE IdleJob]
          BY <1>10 DEF CommitCounted
        <5> HIDE DEF go, j
        <5>2. go
          BY <3>1 DEF go
        <5> QED
          BY <5>1, <5>2, Zenon
      <4>2. job[t].current + 1 \in 1..Len(job[t].ready) /\ job[t].current + 1 \in Nat
        BY <2>1, <3>1, LenProperties
      <4>3. /\ j \in Jobs /\ j.stage = "planning" /\ j.sub = job[t].sub
            /\ j.ready = job[t].ready /\ j.current = job[t].current + 1
        BY <1>0, <4>2 DEF Jobs, Stages
      <4> HIDE DEF j
      <4>4. Fits(j)
        BY <2>1, <4>2, <4>3 DEF Fits, Committing, Applying, Delivering
      <4> QED
        BY <4>1, <4>3, <4>4, OneCallMoves
    <3>2. CASE ~(job[t].current < Len(job[t].ready)) /\ job[t].close
      <4> DEFINE j == [job[t] EXCEPT !.stage = "closing"]
      <4>1. job' = [job EXCEPT ![t] = j]
        BY <1>0, <1>10, <3>2 DEF CommitCounted
      <4>2. j \in Jobs /\ j.stage = "closing" /\ j.sub = job[t].sub
        BY <1>0 DEF Jobs, Stages
      <4> HIDE DEF j
      <4> QED
        BY <2>1, <4>1, <4>2, Starts DEF Committing, Delivering
    <3>3. CASE ~(job[t].current < Len(job[t].ready)) /\ ~job[t].close
      <4>1. job' = [job EXCEPT ![t] = IdleJob]
        BY <1>0, <1>10, <3>3 DEF CommitCounted
      <4> QED
        BY <4>1, <1>idle
    <3> QED
      BY <3>1, <3>2, <3>3
  <2> QED
    BY <1>0, <1>10, <2>2, <2>3 DEF CommitCounted
<1>11. ASSUME Flush(t) PROVE Typed /\ Moved
  <2>1. job[t].sub \in Subs
    BY <1>00, <1>11 DEF Flush
  <2>2. PICK held \in Seq(Buffers) : held = buffers[job[t].sub]
    BY <1>0, <2>1
  <2> DEFINE stage == IF held = <<>> THEN "closing" ELSE "ready"
             j == [job[t] EXCEPT !.ready = held, !.stage = stage]
  <2>3. job' = [job EXCEPT ![t] = j]
    BY <1>0, <1>11, <2>2 DEF Flush
  <2>4. stage \in {"closing", "ready"} /\ (stage = "ready" => held # <<>>)
    OBVIOUS
  <2> HIDE DEF stage
  <2>5. j \in Jobs /\ j.stage = stage /\ j.sub = job[t].sub /\ j.ready = held
    BY <1>0, <2>2, <2>4 DEF Jobs, Stages
  <2> HIDE DEF j
  <2>6. Fits(j)
    BY <2>1, <2>4, <2>5 DEF Fits, Committing, Applying, Delivering
  <2>7. Moved
    BY <2>3, <2>5, <2>6, OneCallMoves
  <2>8. buffers' \in [Subs -> Seq(Buffers)]
    BY <1>0, <1>11, <2>1, EmptySeq DEF Flush
  <2> QED
    BY <1>0, <1>11, <2>7, <2>8 DEF Flush, stored
<1>12. ASSUME CloseRow(t) PROVE Typed /\ Moved
  <2> DEFINE j == [job[t] EXCEPT !.stage = "releasing"]
  <2>1. job[t].sub \in Subs
    BY <1>00, <1>12 DEF CloseRow
  <2>2. job' = [job EXCEPT ![t] = j]
    BY <1>0, <1>12 DEF CloseRow
  <2>3. j \in Jobs /\ j.stage = "releasing" /\ j.sub = job[t].sub
    BY <1>0 DEF Jobs, Stages
  <2> HIDE DEF j
  <2>4. Moved
    BY <2>1, <2>2, <2>3, Starts DEF Committing, Delivering
  <2>5. subscription' \in [Subs -> Subscriptions]
    BY <1>12, <2>1, RowTypes DEF CloseRow
  <2> QED
    BY <1>0, <1>12, <2>4, <2>5 DEF CloseRow
<1>13. ASSUME Release(t) PROVE Typed /\ Moved
  <2>1. job[t].sub \in Subs
    BY <1>00, <1>13 DEF Release
  <2>2. buffers' \in [Subs -> Seq(Buffers)]
    BY <1>0, <1>13, <2>1, EmptySeq DEF Release
  <2> QED
    BY <1>0, <1>13, <1>idle, <2>2 DEF Release, stored
<1>14. ASSUME CommitMany(t) \/ Plan(t) \/ CountCommit(t) PROVE Typed /\ Moved
  <2>1. Moved
    BY <1>14, TypeCalls
  <2> QED
    BY <1>0, <1>14, <2>1 DEF CommitMany, Plan, CountCommit, stored
<1>15. ASSUME RefuseOrder(t) \/ RefusePlan(t) PROVE Typed /\ Moved
  BY <1>00, <1>6, <1>15 DEF RefuseOrder, RefusePlan
<1> HIDE DEF Typed, Moved
<1> QED
  BY <1>1, <1>2, <1>3, <1>4, <1>5, <1>7, <1>8, <1>9, <1>10, <1>11, <1>12, <1>13, <1>14, <1>15
     DEF Handler

LEMMA TypeNext == TypeInv /\ [Next]_vars => TypeInv'
<1> SUFFICES ASSUME TypeInv, [Next]_vars PROVE TypeInv'
  OBVIOUS
<1>0. /\ job \in [Threads -> Jobs] /\ CallsFit
      /\ subscription \in [Subs -> Subscriptions]
      /\ change_log \in Seq(Rows)
      /\ replica_writes \in [Rooms -> Seq(Writes)]
      /\ invalidations \in [Rooms -> SUBSET Writes]
      /\ enriched \in BOOLEAN
      /\ buffers \in [Subs -> Seq(Buffers)]
      /\ disturbed \in BOOLEAN
  BY DEF TypeInv, TypeOK
<1>same. ASSUME job' = job PROVE job' \in [Threads -> Jobs] /\ CallsFit'
  BY <1>0, <1>same DEF CallsFit, Fits
<1>1. ASSUME NEW s \in Subs, OpenSubscription(s) PROVE TypeInv'
  <2>1. subscription' \in [Subs -> Subscriptions]
    BY <1>1, RowTypes DEF OpenSubscription
  <2>2. job' \in [Threads -> Jobs] /\ CallsFit'
    BY <1>1, <1>same DEF OpenSubscription
  <2> QED
    BY <1>0, <1>1, <2>1, <2>2 DEF OpenSubscription, TypeInv, TypeOK
<1>2. ASSUME NEW t \in Threads, NEW s \in Subs,
             Fetch(t, s) \/ Close(t, s) \/ \E n \in Events : Deliver(t, s, n)
      PROVE  TypeInv'
  <2>1. job' \in [Threads -> Jobs] /\ CallsFit'
    BY <1>2, TypeCalls
  <2> QED
    BY <1>0, <1>2, <2>1 DEF Fetch, Close, Deliver, stored, TypeInv, TypeOK
<1>3. ASSUME NEW t \in Threads, Handler(t) PROVE TypeInv'
  BY <1>3, TypeWriters DEF TypeInv, TypeOK
<1>4. ASSUME NEW t \in Threads, DatabaseFails(t) PROVE TypeInv'
  <2>1. job' \in [Threads -> Jobs] /\ CallsFit'
    BY <1>4, TypeCalls
  <2> QED
    BY <1>0, <1>4, <2>1 DEF DatabaseFails, stored, TypeInv, TypeOK
<1>5. ASSUME Enrich PROVE TypeInv'
  <2>1. job' \in [Threads -> Jobs] /\ CallsFit'
    BY <1>5, <1>same DEF Enrich
  <2> QED
    BY <1>0, <1>5, <2>1 DEF Enrich, TypeInv, TypeOK
<1>6. ASSUME Crash PROVE TypeInv'
  <2>1. job' \in [Threads -> Jobs] /\ \A t \in Threads : job'[t] = IdleJob
    BY <1>6, IdleJobType DEF Crash
  <2>2. CallsFit'
    BY <2>1, IdleJobType DEF CallsFit, Fits
  <2>3. buffers' \in [Subs -> Seq(Buffers)]
    BY <1>6, EmptySeq DEF Crash
  <2> QED
    BY <1>0, <1>6, <2>1, <2>2, <2>3 DEF Crash, stored, TypeInv, TypeOK
<1>7. ASSUME UNCHANGED vars PROVE TypeInv'
  <2>1. job' \in [Threads -> Jobs] /\ CallsFit'
    BY <1>7, <1>same DEF vars
  <2> QED
    BY <1>0, <1>7, <2>1 DEF vars, TypeInv, TypeOK
<1> QED
  BY <1>1, <1>2, <1>3, <1>4, <1>5, <1>6, <1>7 DEF Next

(* Types: every row, counter, parked transaction and call stays of its      *)
(* type, whatever is interleaved, refused, lost or restarted; the counters  *)
(* of usage.py never go below zero and no empty transaction is parked.      *)
THEOREM TypeCorrect == Spec => []TypeOK
<1>1. Spec => []TypeInv
  BY TypeInit, TypeNext, PTL DEF Spec
<1>2. TypeInv => TypeOK
  BY DEF TypeInv
<1> QED
  BY <1>1, <1>2, PTL

-----------------------------------------------------------------------------
(* What each step makes of the call that takes it. *)

SameCall(k, j) == /\ k.sub = j.sub /\ k.event = j.event /\ k.close = j.close
                  /\ k.current = j.current

Others(t) == \A u \in Threads \ {t} : job'[u] = job[u]

LEMMA IdleFields ==
  /\ IdleJob.stage = "idle" /\ IdleJob.ready = <<>> /\ IdleJob.current = 0
  /\ IdleJob.todo = {} /\ IdleJob.close = FALSE /\ IdleJob.event = 0
BY DEF IdleJob

LEMMA CallBegins ==
  ASSUME TypeInv, NEW t \in Threads, NEW s \in Subs
  PROVE  /\ Fetch(t, s) => /\ job'[t].stage = "fetching" /\ job'[t].sub = s
                           /\ job'[t].ready = <<>> /\ job'[t].current = 0
                           /\ job'[t].close = FALSE
                           /\ job'[t].usage = subscription[s].usage /\ Others(t)
         /\ Close(t, s) => /\ job'[t].stage = "draining" /\ job'[t].sub = s
                           /\ job'[t].ready = <<>> /\ job'[t].current = 0
                           /\ job'[t].close = TRUE /\ Others(t)
         /\ \A n \in Events : Deliver(t, s, n) =>
              /\ job'[t].stage = "admitted" /\ job'[t].sub = s /\ job'[t].event = n
              /\ job'[t].ready = <<>> /\ job'[t].current = 0
              /\ job'[t].close = FALSE
              /\ job'[t].usage = subscription[s].usage /\ Others(t)
<1>1. ASSUME Fetch(t, s)
      PROVE  /\ job'[t].stage = "fetching" /\ job'[t].sub = s
             /\ job'[t].ready = <<>> /\ job'[t].current = 0
             /\ job'[t].close = FALSE
             /\ job'[t].usage = subscription[s].usage /\ Others(t)
  <2> DEFINE j == [IdleJob EXCEPT !.stage = "fetching", !.sub = s, !.usage = subscription[s].usage]
  <2>1. /\ j.stage = "fetching" /\ j.sub = s /\ j.usage = subscription[s].usage
        /\ j.ready = <<>> /\ j.current = 0 /\ j.close = FALSE
    BY DEF IdleJob
  <2>2. job' = [job EXCEPT ![t] = j]
    BY <1>1 DEF Fetch
  <2> HIDE DEF j
  <2> QED
    BY <2>1, <2>2, OneCallMoves DEF Others
<1>2. ASSUME Close(t, s)
      PROVE  /\ job'[t].stage = "draining" /\ job'[t].sub = s
             /\ job'[t].ready = <<>> /\ job'[t].current = 0
             /\ job'[t].close = TRUE /\ Others(t)
  <2> DEFINE j == [IdleJob EXCEPT !.stage = "draining", !.close = TRUE, !.sub = s]
  <2>1. /\ j.stage = "draining" /\ j.sub = s /\ j.ready = <<>> /\ j.current = 0 /\ j.close = TRUE
    BY DEF IdleJob
  <2>2. job' = [job EXCEPT ![t] = j]
    BY <1>2 DEF Close
  <2> HIDE DEF j
  <2> QED
    BY <2>1, <2>2, OneCallMoves DEF Others
<1>3. ASSUME NEW n \in Events, Deliver(t, s, n)
      PROVE  /\ job'[t].stage = "admitted" /\ job'[t].sub = s /\ job'[t].event = n
             /\ job'[t].ready = <<>> /\ job'[t].current = 0
             /\ job'[t].close = FALSE
             /\ job'[t].usage = subscription[s].usage /\ Others(t)
  <2> DEFINE j == [IdleJob EXCEPT !.stage = "admitted", !.sub = s, !.event = n,
                                  !.usage = subscription[s].usage]
  <2>1. /\ j.stage = "admitted" /\ j.sub = s /\ j.event = n /\ j.usage = subscription[s].usage
        /\ j.ready = <<>> /\ j.current = 0 /\ j.close = FALSE
    BY DEF IdleJob
  <2>2. job' = [job EXCEPT ![t] = j]
    BY <1>3 DEF Deliver
  <2> HIDE DEF j
  <2> QED
    BY <2>1, <2>2, OneCallMoves DEF Others
<1> QED
  BY <1>1, <1>2, <1>3

(* Steps that end the call. *)
LEMMA CallEnds ==
  ASSUME TypeInv, NEW t \in Threads,
         \/ \E n \in 1..MaxFetch : FetchUpdate(t, n)
         \/ RefuseDuplicate(t) \/ Refuse(t) \/ Release(t) \/ DatabaseFails(t)
         \/ CountDelivery(t) /\ job[t].ready = <<>>
         \/ CommitCounted(t) /\ ~(job[t].current < Len(job[t].ready)) /\ job[t].close = FALSE
  PROVE  job'[t] = IdleJob /\ Others(t)
<1>1. job' = [job EXCEPT ![t] = IdleJob]
  BY DEF FetchUpdate, RefuseDuplicate, Refuse, Release, DatabaseFails, CountDelivery, CommitCounted
<1> QED
  BY <1>1, OneCallMoves DEF Others

(* Steps of a delivery and of the closing that go on. *)
LEMMA CallGoesOn ==
  ASSUME TypeInv, NEW t \in Threads
  PROVE  /\ LogEvent(t) => /\ job'[t].stage = "logged" /\ SameCall(job'[t], job[t])
                           /\ job'[t].usage = job[t].usage /\ job'[t].ready = job[t].ready
                           /\ Others(t)
         /\ Accept(t) =>
              /\ SameCall(job'[t], job[t]) /\ job'[t].usage = job[t].usage /\ Others(t)
              /\ IF IsDuplicate(buffers[job[t].sub], job[t].event)
                   THEN job'[t].stage = "refusing" /\ job'[t].ready = <<>>
                   ELSE /\ job'[t].stage = "parked"
                        /\ job'[t].ready = Completed(buffers[job[t].sub], KeyOf(job[t].event))
         /\ CountDelivery(t) /\ job[t].ready # <<>> =>
              /\ job'[t].stage = "ready" /\ SameCall(job'[t], job[t])
              /\ job'[t].ready = job[t].ready /\ Others(t)
         /\ Flush(t) =>
              /\ SameCall(job'[t], job[t]) /\ job'[t].ready = buffers[job[t].sub] /\ Others(t)
              /\ job'[t].stage = IF buffers[job[t].sub] = <<>> THEN "closing" ELSE "ready"
         /\ CloseRow(t) =>
              /\ job'[t].stage = "releasing" /\ SameCall(job'[t], job[t])
              /\ job'[t].ready = job[t].ready /\ Others(t)
<1>0. job \in [Threads -> Jobs] /\ job[t] \in Jobs
  BY CallTypes DEF TypeInv, TypeOK
<1>1. ASSUME LogEvent(t)
      PROVE  /\ job'[t].stage = "logged" /\ SameCall(job'[t], job[t])
             /\ job'[t].usage = job[t].usage /\ job'[t].ready = job[t].ready
             /\ Others(t)
  <2> DEFINE j == [job[t] EXCEPT !.stage = "logged"]
  <2>1. /\ j.stage = "logged" /\ SameCall(j, job[t])
        /\ j.usage = job[t].usage /\ j.ready = job[t].ready
    BY <1>0 DEF Jobs, SameCall
  <2>2. job' = [job EXCEPT ![t] = j]
    BY <1>0, <1>1 DEF LogEvent
  <2> HIDE DEF j
  <2> QED
    BY <2>1, <2>2, OneCallMoves DEF Others
<1>2. ASSUME Accept(t)
      PROVE  /\ SameCall(job'[t], job[t]) /\ job'[t].usage = job[t].usage /\ Others(t)
             /\ IF IsDuplicate(buffers[job[t].sub], job[t].event)
                  THEN job'[t].stage = "refusing" /\ job'[t].ready = <<>>
                  ELSE /\ job'[t].stage = "parked"
                       /\ job'[t].ready = Completed(buffers[job[t].sub], KeyOf(job[t].event))
  <2> DEFINE dup == IsDuplicate(buffers[job[t].sub], job[t].event)
             stage == IF dup THEN "refusing" ELSE "parked"
             done == IF dup THEN <<>> ELSE Completed(buffers[job[t].sub], KeyOf(job[t].event))
             j == [job[t] EXCEPT !.stage = stage, !.ready = done]
  <2>2. job' = [job EXCEPT ![t] = j]
    BY <1>0, <1>2 DEF Accept
  <2>3. IF dup THEN stage = "refusing" /\ done = <<>>
        ELSE stage = "parked" /\ done = Completed(buffers[job[t].sub], KeyOf(job[t].event))
    OBVIOUS
  <2> HIDE DEF stage, done
  <2>1. j.stage = stage /\ SameCall(j, job[t]) /\ j.usage = job[t].usage /\ j.ready = done
    BY <1>0 DEF Jobs, SameCall
  <2> HIDE DEF j
  <2> QED
    BY <2>1, <2>2, <2>3, OneCallMoves DEF Others
<1>3. ASSUME CountDelivery(t), job[t].ready # <<>>
      PROVE  /\ job'[t].stage = "ready" /\ SameCall(job'[t], job[t])
             /\ job'[t].ready = job[t].ready /\ Others(t)
  <2> DEFINE j == [job[t] EXCEPT !.stage = "ready"]
  <2>1. j.stage = "ready" /\ SameCall(j, job[t]) /\ j.ready = job[t].ready
    BY <1>0 DEF Jobs, SameCall
  <2>2. job' = [job EXCEPT ![t] = j]
    BY <1>0, <1>3 DEF CountDelivery
  <2> HIDE DEF j
  <2> QED
    BY <2>1, <2>2, OneCallMoves DEF Others
<1>4. ASSUME Flush(t)
      PROVE  /\ SameCall(job'[t], job[t]) /\ job'[t].ready = buffers[job[t].sub] /\ Others(t)
             /\ job'[t].stage = IF buffers[job[t].sub] = <<>> THEN "closing" ELSE "ready"
  <2> DEFINE held == buffers[job[t].sub]
             stage == IF held = <<>> THEN "closing" ELSE "ready"
             j == [job[t] EXCEPT !.ready = held, !.stage = stage]
  <2>2. job' = [job EXCEPT ![t] = j]
    BY <1>0, <1>4 DEF Flush
  <2> HIDE DEF stage
  <2>1. j.stage = stage /\ SameCall(j, job[t]) /\ j.ready = held
    BY <1>0 DEF Jobs, SameCall
  <2> HIDE DEF j
  <2> QED
    BY <2>1, <2>2, OneCallMoves DEF Others, stage
<1>5. ASSUME CloseRow(t)
      PROVE  /\ job'[t].stage = "releasing" /\ SameCall(job'[t], job[t])
             /\ job'[t].ready = job[t].ready /\ Others(t)
  <2> DEFINE j == [job[t] EXCEPT !.stage = "releasing"]
  <2>1. j.stage = "releasing" /\ SameCall(j, job[t]) /\ j.ready = job[t].ready
    BY <1>0 DEF Jobs, SameCall
  <2>2. job' = [job EXCEPT ![t] = j]
    BY <1>0, <1>5 DEF CloseRow
  <2> HIDE DEF j
  <2> QED
    BY <2>1, <2>2, OneCallMoves DEF Others
<1> QED
  BY <1>1, <1>2, <1>3, <1>4, <1>5

(* Steps of a commit. *)
LEMMA CommitGoesOn ==
  ASSUME TypeInv, NEW t \in Threads
  PROVE  /\ CommitMany(t) =>
              /\ job'[t].stage = "planning" /\ job'[t].sub = job[t].sub /\ job'[t].current = 1
              /\ job'[t].close = job[t].close /\ job'[t].ready = job[t].ready /\ Others(t)
         /\ Plan(t) =>
              /\ job'[t].stage = "writing" /\ SameCall(job'[t], job[t])
              /\ job'[t].todo = Current(t).events
              /\ job'[t].ready = job[t].ready /\ Others(t)
         /\ \A next \in {"invalidating", "marking", "counting"} :
              job[t].stage \in Applying /\ EventDone(t, next) =>
                /\ SameCall(job'[t], job[t]) /\ job'[t].ready = job[t].ready /\ Others(t)
                /\ IF job[t].todo \ {First(job[t].todo)} = {}
                     THEN job'[t].stage = next /\ job'[t].todo = Current(t).events
                     ELSE /\ job'[t].stage = job[t].stage
                          /\ job'[t].todo = job[t].todo \ {First(job[t].todo)}
         /\ CountCommit(t) =>
              /\ job'[t].stage = "counted" /\ SameCall(job'[t], job[t])
              /\ job'[t].ready = job[t].ready
              /\ job'[t].usage = subscription[job[t].sub].usage /\ Others(t)
         /\ CommitCounted(t) /\ job[t].current < Len(job[t].ready) =>
              /\ job'[t].stage = "planning" /\ job'[t].sub = job[t].sub
              /\ job'[t].current = job[t].current + 1
              /\ job'[t].close = job[t].close /\ job'[t].ready = job[t].ready /\ Others(t)
         /\ CommitCounted(t) /\ ~(job[t].current < Len(job[t].ready)) /\ job[t].close # FALSE =>
              /\ job'[t].stage = "closing" /\ SameCall(job'[t], job[t])
              /\ job'[t].ready = job[t].ready /\ Others(t)
<1>0. job \in [Threads -> Jobs] /\ job[t] \in Jobs
  BY CallTypes DEF TypeInv, TypeOK
<1>1. ASSUME CommitMany(t)
      PROVE  /\ job'[t].stage = "planning" /\ job'[t].sub = job[t].sub /\ job'[t].current = 1
             /\ job'[t].close = job[t].close /\ job'[t].ready = job[t].ready /\ Others(t)
  <2> DEFINE j == [job[t] EXCEPT !.stage = "planning", !.current = 1]
  <2>1. /\ j.stage = "planning" /\ j.sub = job[t].sub /\ j.current = 1
        /\ j.close = job[t].close /\ j.ready = job[t].ready
    BY <1>0 DEF Jobs
  <2>2. job' = [job EXCEPT ![t] = j]
    BY <1>0, <1>1 DEF CommitMany
  <2> HIDE DEF j
  <2> QED
    BY <2>1, <2>2, OneCallMoves DEF Others
<1>2. ASSUME Plan(t)
      PROVE  /\ job'[t].stage = "writing" /\ SameCall(job'[t], job[t])
             /\ job'[t].todo = Current(t).events
             /\ job'[t].ready = job[t].ready /\ Others(t)
  <2> DEFINE j == [job[t] EXCEPT !.stage = "writing", !.todo = Current(t).events]
  <2>1. /\ j.stage = "writing" /\ SameCall(j, job[t]) /\ j.todo = Current(t).events
        /\ j.ready = job[t].ready
    BY <1>0 DEF Jobs, SameCall
  <2>2. job' = [job EXCEPT ![t] = j]
    BY <1>0, <1>2 DEF Plan
  <2> HIDE DEF j
  <2> QED
    BY <2>1, <2>2, OneCallMoves DEF Others
<1>3. ASSUME NEW next \in {"invalidating", "marking", "counting"},
             job[t].stage \in Applying, EventDone(t, next)
      PROVE  /\ SameCall(job'[t], job[t]) /\ job'[t].ready = job[t].ready /\ Others(t)
             /\ IF job[t].todo \ {First(job[t].todo)} = {}
                  THEN job'[t].stage = next /\ job'[t].todo = Current(t).events
                  ELSE /\ job'[t].stage = job[t].stage
                       /\ job'[t].todo = job[t].todo \ {First(job[t].todo)}
  <2> DEFINE left == job[t].todo \ {First(job[t].todo)}
             stage == IF left = {} THEN next ELSE job[t].stage
             todo == IF left = {} THEN Current(t).events ELSE left
             j == [job[t] EXCEPT !.stage = stage, !.todo = todo]
  <2>1. job' = [job EXCEPT ![t] = j]
    BY <1>3, EventDoneCall
  <2>2. IF left = {} THEN stage = next /\ todo = Current(t).events
        ELSE stage = job[t].stage /\ todo = left
    OBVIOUS
  <2> HIDE DEF left, stage, todo
  <2>3. j.stage = stage /\ j.todo = todo /\ SameCall(j, job[t]) /\ j.ready = job[t].ready
    BY <1>0 DEF Jobs, SameCall
  <2> HIDE DEF j
  <2>4. /\ SameCall(job'[t], job[t]) /\ job'[t].ready = job[t].ready /\ Others(t)
        /\ job'[t].stage = stage /\ job'[t].todo = todo
    BY <2>1, <2>3, OneCallMoves DEF Others
  <2> QED
    BY <2>2, <2>4 DEF left
<1>4. ASSUME CountCommit(t)
      PROVE  /\ job'[t].stage = "counted" /\ SameCall(job'[t], job[t])
             /\ job'[t].ready = job[t].ready
             /\ job'[t].usage = subscription[job[t].sub].usage /\ Others(t)
  <2> DEFINE j == [job[t] EXCEPT !.stage = "counted", !.todo = {},
                                 !.usage = subscription[job[t].sub].usage]
  <2>1. /\ j.stage = "counted" /\ SameCall(j, job[t]) /\ j.ready = job[t].ready
        /\ j.usage = subscription[job[t].sub].usage
    BY <1>0 DEF Jobs, SameCall
  <2>2. job' = [job EXCEPT ![t] = j]
    BY <1>0, <1>4 DEF CountCommit
  <2> HIDE DEF j
  <2> QED
    BY <2>1, <2>2, OneCallMoves DEF Others
<1>5. ASSUME CommitCounted(t), job[t].current < Len(job[t].ready)
      PROVE  /\ job'[t].stage = "planning" /\ job'[t].sub = job[t].sub
             /\ job'[t].current = job[t].current + 1
             /\ job'[t].close = job[t].close /\ job'[t].ready = job[t].ready /\ Others(t)
  <2> DEFINE j == [job[t] EXCEPT !.stage = "planning", !.current = job[t].current + 1]
  <2>1. /\ j.stage = "planning" /\ j.sub = job[t].sub /\ j.current = job[t].current + 1
        /\ j.close = job[t].close /\ j.ready = job[t].ready
    BY <1>0 DEF Jobs
  <2>2. job' = [job EXCEPT ![t] = j]
    <3> DEFINE go == job[t].current < Len(job[t].ready)
    <3>1. job' = [job EXCEPT ![t] =
            IF go THEN j
            ELSE IF job[t].close THEN [job[t] EXCEPT !.stage = "closing"] ELSE IdleJob]
      BY <1>5 DEF CommitCounted
    <3> HIDE DEF go, j
    <3>2. go
      BY <1>5 DEF go
    <3> QED
      BY <3>1, <3>2, Zenon
  <2> HIDE DEF j
  <2> QED
    BY <2>1, <2>2, OneCallMoves DEF Others
<1>6. ASSUME CommitCounted(t), ~(job[t].current < Len(job[t].ready)), job[t].close # FALSE
      PROVE  /\ job'[t].stage = "closing" /\ SameCall(job'[t], job[t])
             /\ job'[t].ready = job[t].ready /\ Others(t)
  <2> DEFINE j == [job[t] EXCEPT !.stage = "closing"]
  <2>1. j.stage = "closing" /\ SameCall(j, job[t]) /\ j.ready = job[t].ready
    BY <1>0 DEF Jobs, SameCall
  <2>2. job[t].close = TRUE
    BY <1>6, CallTypes
  <2>3. job' = [job EXCEPT ![t] = j]
    BY <1>0, <1>6, <2>2 DEF CommitCounted
  <2> HIDE DEF j
  <2> QED
    BY <2>1, <2>3, OneCallMoves DEF Others
<1> QED
  BY <1>1, <1>2, <1>3, <1>4, <1>5, <1>6

-----------------------------------------------------------------------------
(* Who writes what. *)

LEMMA Writers ==
  ASSUME [Next]_vars
  PROVE  /\ \/ change_log' = change_log
            \/ \E t \in Threads : LogEvent(t) \/ MarkCommitted(t)
         /\ replica_writes' = replica_writes \/ \E t \in Threads : WriteReplica(t)
         /\ invalidations' = invalidations \/ \E t \in Threads : Invalidate(t)
<1>1. ASSUME NEW t \in Threads, Handler(t)
      PROVE  /\ change_log' = change_log \/ LogEvent(t) \/ MarkCommitted(t)
             /\ replica_writes' = replica_writes \/ WriteReplica(t)
             /\ invalidations' = invalidations \/ Invalidate(t)
  BY <1>1, Zenon
     DEF Handler, FetchUpdate, LogEvent, Accept, RefuseDuplicate, CountDelivery, CommitMany,
         RefuseOrder, Plan, RefusePlan, Refuse, WriteReplica, Invalidate, MarkCommitted,
         CountCommit, CommitCounted, Flush, CloseRow, Release, stored
<1>2. ASSUME NEW t \in Threads, DatabaseFails(t) \/ (\E s \in Subs : Fetch(t, s) \/ Close(t, s)
                                  \/ \E n \in Events : Deliver(t, s, n))
      PROVE  UNCHANGED stored
  BY <1>2, Zenon DEF DatabaseFails, Fetch, Close, Deliver, stored
<1>3. ASSUME (\E s \in Subs : OpenSubscription(s)) \/ Enrich \/ Crash \/ UNCHANGED vars
      PROVE  UNCHANGED <<change_log, replica_writes, invalidations>>
  BY <1>3, Zenon DEF OpenSubscription, Enrich, Crash, vars, stored
<1>4. CASE Next
  BY <1>1, <1>2, <1>3, <1>4, Zenon DEF Next, stored
<1> QED
  BY <1>3, <1>4

(* The change log only grows; of a row only the state changes, and only to  *)
(* "committed".                                                             *)
LEMMA LogGrows ==
  ASSUME TypeInv, [Next]_vars
  PROVE  /\ Len(change_log) \in Nat /\ DOMAIN change_log = 1..Len(change_log)
         /\ DOMAIN change_log' = 1..Len(change_log') /\ Len(change_log') >= Len(change_log)
         /\ \A i \in 1..Len(change_log) :
              /\ change_log'[i].sub = change_log[i].sub
              /\ change_log'[i].event = change_log[i].event
              /\ change_log'[i].state \in {change_log[i].state, "committed"}
<1>1. change_log \in Seq(Rows)
  BY DEF TypeInv, TypeOK
<1>2. /\ Len(change_log) \in Nat /\ DOMAIN change_log = 1..Len(change_log)
      /\ \A i \in 1..Len(change_log) : change_log[i] \in Rows
  BY <1>1, LenProperties, ElementOfSeq
<1>3. ASSUME NEW t \in Threads, LogEvent(t)
      PROVE  /\ DOMAIN change_log' = 1..Len(change_log') /\ Len(change_log') >= Len(change_log)
             /\ \A i \in 1..Len(change_log) : change_log'[i] = change_log[i]
  <2> DEFINE row == [sub |-> job[t].sub, event |-> job[t].event, state |-> "buffered"]
  <2>1. job[t].sub \in Subs /\ job[t].event \in Events
    BY <1>3, CallTypes DEF LogEvent, Fits, Delivering
  <2>2. row \in Rows
    BY <2>1 DEF Rows
  <2>3. change_log' = Append(change_log, row)
    BY <1>3 DEF LogEvent
  <2> HIDE DEF row
  <2> QED
    BY <1>1, <1>2, <2>2, <2>3, AppendProperties, LenProperties
<1>4. ASSUME NEW t \in Threads, MarkCommitted(t)
      PROVE  /\ DOMAIN change_log' = 1..Len(change_log') /\ Len(change_log') >= Len(change_log)
             /\ \A i \in 1..Len(change_log) :
                  /\ change_log'[i].sub = change_log[i].sub
                  /\ change_log'[i].event = change_log[i].event
                  /\ change_log'[i].state \in {change_log[i].state, "committed"}
  <2> DEFINE row(i) == IF change_log[i].event = First(job[t].todo)
                         THEN [change_log[i] EXCEPT !.state = "committed"] ELSE change_log[i]
  <2>1. change_log' = [i \in 1..Len(change_log) |-> row(i)]
    BY <1>2, <1>4 DEF MarkCommitted
  <2>2. \A i \in 1..Len(change_log) :
          /\ row(i).sub = change_log[i].sub /\ row(i).event = change_log[i].event
          /\ row(i).state \in {change_log[i].state, "committed"}
    BY <1>2 DEF Rows
  <2> HIDE DEF row
  <2> QED
    BY <1>2, <2>1, <2>2
<1>5. CASE change_log' = change_log
  BY <1>2, <1>5
<1> QED
  BY <1>2, <1>3, <1>4, <1>5, Writers

LEMMA LoggedStays ==
  ASSUME TypeInv, [Next]_vars, NEW s
  PROVE  Logged(s) \subseteq Logged(s)'
<1>1. \A i \in DOMAIN change_log : i \in DOMAIN change_log'
  BY LogGrows
<1> QED
  BY <1>1, LogGrows DEF Logged

(* The row a delivery adds. *)
LEMMA LogEventAdds ==
  ASSUME TypeInv, NEW t \in Threads, LogEvent(t), NEW sub \in Subs, sub = job[t].sub
  PROVE  /\ Len(change_log') = Len(change_log) + 1 /\ Len(change_log) \in Nat
         /\ DOMAIN change_log = 1..Len(change_log)
         /\ DOMAIN change_log' = 1..(Len(change_log) + 1)
         /\ \A i \in 1..Len(change_log) : change_log'[i] = change_log[i]
         /\ change_log'[Len(change_log) + 1]
              = [sub |-> sub, event |-> job[t].event, state |-> "buffered"]
         /\ Logged(sub)' = Logged(sub) \cup {job[t].event}
         /\ \A s \in Subs \ {sub} : Logged(s)' = Logged(s)
<1> DEFINE row == [sub |-> sub, event |-> job[t].event, state |-> "buffered"]
           n == Len(change_log)
<1>1. change_log \in Seq(Rows)
  BY DEF TypeInv, TypeOK
<1>2. row \in Rows
  BY CallTypes DEF LogEvent, Fits, Delivering, Rows
<1>3. change_log' = Append(change_log, row)
  BY DEF LogEvent
<1>4. row.sub = sub /\ row.event = job[t].event
  OBVIOUS
<1>5. n \in Nat /\ DOMAIN change_log = 1..n
  BY <1>1, LenProperties
<1> HIDE DEF row
<1>6. /\ Len(change_log') = n + 1 /\ DOMAIN change_log' = 1..(n + 1)
      /\ \A i \in 1..n : change_log'[i] = change_log[i]
      /\ change_log'[n + 1] = row
  BY <1>1, <1>2, <1>3, AppendProperties, LenProperties
<1> HIDE DEF n
<1>7. ASSUME NEW s
      PROVE  Logged(s)' = Logged(s) \cup (IF s = sub THEN {job[t].event} ELSE {})
  <2>1. \A i \in 1..(n + 1) : i \in 1..n \/ i = n + 1
    BY <1>5
  <2>2. 1..n \subseteq 1..(n + 1) /\ n + 1 \in 1..(n + 1)
    BY <1>5
  <2>3. Logged(s) = {change_log[i].event : i \in {k \in 1..n : change_log[k].sub = s}}
    BY <1>5 DEF Logged
  <2>4. Logged(s)' = {change_log'[i].event : i \in {k \in 1..(n + 1) : change_log'[k].sub = s}}
    BY <1>6 DEF Logged
  <2>5. CASE s = sub
    BY <1>4, <1>6, <2>1, <2>2, <2>3, <2>4, <2>5
  <2>6. CASE s # sub
    BY <1>4, <1>6, <2>1, <2>2, <2>3, <2>4, <2>6
  <2> QED
    BY <2>5, <2>6
<1>8. \A s \in Subs \ {sub} : Logged(s)' = Logged(s)
  BY <1>7
<1>9. Logged(sub)' = Logged(sub) \cup {job[t].event}
  BY <1>7
<1> QED
  BY <1>5, <1>6, <1>8, <1>9 DEF row, n

(* The write a commit adds. *)
LEMMA WriteReplicaAdds ==
  ASSUME TypeInv, NEW t \in Threads, WriteReplica(t)
  PROVE  LET r == RoomOf[job[t].sub]
             w == [sub |-> job[t].sub, event |-> First(job[t].todo)]
             k == Len(replica_writes[r])
         IN /\ r \in Rooms /\ w \in Writes /\ k \in Nat
            /\ Len(replica_writes'[r]) = k + 1
            /\ DOMAIN replica_writes[r] = 1..k /\ DOMAIN replica_writes'[r] = 1..(k + 1)
            /\ \A i \in 1..k : replica_writes'[r][i] = replica_writes[r][i]
            /\ replica_writes'[r][k + 1] = w
            /\ \A q \in Rooms \ {r} : replica_writes'[q] = replica_writes[q]
<1>1. job[t].stage = "writing" /\ EventDone(t, "invalidating")
  BY DEF WriteReplica
<1>2. First(job[t].todo) \in Events /\ job[t].sub \in Subs
  BY <1>1, EventDoneCall, CallTypes DEF Applying
<1>3. PICK r \in Rooms : r = RoomOf[job[t].sub]
  BY <1>2, RowTypes
<1>4. PICK w \in Writes : w = [sub |-> job[t].sub, event |-> First(job[t].todo)]
  BY <1>2 DEF Writes
<1>5. replica_writes \in [Rooms -> Seq(Writes)]
  BY DEF TypeInv, TypeOK
<1>6. replica_writes' = [replica_writes EXCEPT ![r] = Append(replica_writes[r], w)]
  BY <1>3, <1>4, <1>5 DEF WriteReplica, WriteOf
<1>7. replica_writes'[r] = Append(replica_writes[r], w)
  BY <1>5, <1>6
<1>8. replica_writes[r] \in Seq(Writes)
  BY <1>5
<1>9. /\ Len(replica_writes[r]) \in Nat /\ DOMAIN replica_writes[r] = 1..Len(replica_writes[r])
      /\ DOMAIN replica_writes'[r] = 1..(Len(replica_writes[r]) + 1)
      /\ Len(replica_writes'[r]) = Len(replica_writes[r]) + 1
      /\ \A i \in 1..Len(replica_writes[r]) : replica_writes'[r][i] = replica_writes[r][i]
      /\ replica_writes'[r][Len(replica_writes[r]) + 1] = w
  BY <1>7, <1>8, AppendProperties, LenProperties
<1>10. \A q \in Rooms \ {r} : replica_writes'[q] = replica_writes[q]
  BY <1>5, <1>6
<1> QED
  BY <1>3, <1>4, <1>9, <1>10

(* What a room's replica holds afterwards. *)
LEMMA WriteReplicaWrites ==
  ASSUME TypeInv, NEW t \in Threads, WriteReplica(t), NEW sub \in Subs, sub = job[t].sub,
         NEW e, e = First(job[t].todo)
  PROVE  /\ WritesOf(RoomOf[sub])' = WritesOf(RoomOf[sub]) \cup {[sub |-> sub, event |-> e]}
         /\ \A q \in Rooms \ {RoomOf[sub]} : WritesOf(q)' = WritesOf(q)
         /\ Applied(sub)' = Applied(sub) \cup {e}
         /\ \A s \in Subs \ {sub} : Applied(s)' = Applied(s)
<1>1. PICK r \in Rooms : r = RoomOf[sub]
  BY WriteReplicaAdds
<1>2. PICK w \in Writes : w = [sub |-> sub, event |-> e]
  BY WriteReplicaAdds
<1>3. w.sub = sub /\ w.event = e
  BY <1>2
<1>4. PICK k \in Nat :
        /\ DOMAIN replica_writes[r] = 1..k /\ DOMAIN replica_writes'[r] = 1..(k + 1)
        /\ \A i \in 1..k : replica_writes'[r][i] = replica_writes[r][i]
        /\ replica_writes'[r][k + 1] = w
  BY <1>1, <1>2, WriteReplicaAdds
<1>5. \A q \in Rooms \ {r} : replica_writes'[q] = replica_writes[q]
  BY <1>1, WriteReplicaAdds
<1>6. WritesOf(r)' = WritesOf(r) \cup {w}
  <2>1. \A i \in 1..(k + 1) : i \in 1..k \/ i = k + 1
    OBVIOUS
  <2>2. 1..k \subseteq 1..(k + 1) /\ k + 1 \in 1..(k + 1)
    OBVIOUS
  <2> QED
    BY <1>4, <2>1, <2>2 DEF WritesOf
<1>7. \A q \in Rooms \ {r} : WritesOf(q)' = WritesOf(q)
  BY <1>5 DEF WritesOf
<1>8. Applied(sub)' = Applied(sub) \cup {e}
  <2>1. {v \in WritesOf(r)' : v.sub = sub} = {v \in WritesOf(r) : v.sub = sub} \cup {w}
    BY <1>3, <1>6
  <2>2. Applied(sub)' = {v.event : v \in {v \in WritesOf(r)' : v.sub = sub}}
    BY <1>1 DEF Applied
  <2>3. Applied(sub) = {v.event : v \in {v \in WritesOf(r) : v.sub = sub}}
    BY <1>1 DEF Applied
  <2> QED
    BY <1>3, <2>1, <2>2, <2>3
<1>9. ASSUME NEW s \in Subs \ {sub} PROVE Applied(s)' = Applied(s)
  <2>1. PICK q \in Rooms : q = RoomOf[s]
    BY RowTypes
  <2>2. {v \in WritesOf(q)' : v.sub = s} = {v \in WritesOf(q) : v.sub = s}
    BY <1>3, <1>6, <1>7
  <2> QED
    BY <2>1, <2>2 DEF Applied
<1>10. WritesOf(RoomOf[sub])' = WritesOf(RoomOf[sub]) \cup {[sub |-> sub, event |-> e]}
  BY <1>1, <1>2, <1>6 DEF WritesOf
<1> QED
  BY <1>1, <1>7, <1>8, <1>9, <1>10

LEMMA WritesStay ==
  ASSUME TypeInv, [Next]_vars
  PROVE  /\ \A r \in Rooms : WritesOf(r) \subseteq WritesOf(r)'
         /\ \A r \in Rooms : invalidations[r] \subseteq invalidations'[r]
<1>1. ASSUME NEW r \in Rooms PROVE WritesOf(r) \subseteq WritesOf(r)'
  <2>1. CASE replica_writes' = replica_writes
    BY <2>1 DEF WritesOf
  <2>2. ASSUME NEW t \in Threads, WriteReplica(t) PROVE WritesOf(r) \subseteq WritesOf(r)'
    <3>1. PICK sub \in Subs : sub = job[t].sub
      BY <2>2, EventDoneCall, CallTypes DEF WriteReplica, Applying
    <3>2. CASE r = RoomOf[sub]
      BY <2>2, <3>1, <3>2, WriteReplicaWrites
    <3>3. CASE r # RoomOf[sub]
      BY <2>2, <3>1, <3>3, WriteReplicaWrites
    <3> QED
      BY <3>2, <3>3
  <2> QED
    BY <2>1, <2>2, Writers
<1>2. ASSUME NEW r \in Rooms PROVE invalidations[r] \subseteq invalidations'[r]
  <2>1. invalidations \in [Rooms -> SUBSET Writes]
    BY DEF TypeInv, TypeOK
  <2>2. ASSUME NEW t \in Threads, Invalidate(t) PROVE invalidations[r] \subseteq invalidations'[r]
    BY <2>1, <2>2 DEF Invalidate
  <2> QED
    BY <2>2, Writers
<1> QED
  BY <1>1, <1>2

(* What a step makes of a call. *)
LEMMA CallCases ==
  ASSUME TypeInv, [Next]_vars, NEW t \in Threads
  PROVE  \/ job'[t] = job[t]
         \/ job'[t] = IdleJob
         \/ \E s \in Subs : Fetch(t, s) \/ Close(t, s) \/ \E n \in Events : Deliver(t, s, n)
         \/ LogEvent(t) \/ Accept(t) \/ (CountDelivery(t) /\ job[t].ready # <<>>)
         \/ CommitMany(t) \/ Plan(t)
         \/ WriteReplica(t) \/ Invalidate(t) \/ MarkCommitted(t)
         \/ CountCommit(t)
         \/ CommitCounted(t) /\ job[t].current < Len(job[t].ready)
         \/ CommitCounted(t) /\ ~(job[t].current < Len(job[t].ready)) /\ job[t].close # FALSE
         \/ Flush(t) \/ CloseRow(t)
<1>1. job \in [Threads -> Jobs]
  BY DEF TypeInv, TypeOK
<1>2. ASSUME NEW u \in Threads, NEW s \in Subs,
             Fetch(u, s) \/ Close(u, s) \/ \E n \in Events : Deliver(u, s, n)
      PROVE  Others(u)
  BY <1>2, CallBegins
<1>3. ASSUME NEW u \in Threads, DatabaseFails(u) PROVE Others(u) /\ job'[u] = IdleJob
  BY <1>3, CallEnds
<1>4. ASSUME NEW u \in Threads, Handler(u)
      PROVE  /\ Others(u)
             /\ \/ job'[u] = IdleJob
                \/ LogEvent(u) \/ Accept(u) \/ (CountDelivery(u) /\ job[u].ready # <<>>)
                \/ CommitMany(u) \/ Plan(u)
                \/ WriteReplica(u) \/ Invalidate(u) \/ MarkCommitted(u)
                \/ CountCommit(u)
                \/ CommitCounted(u) /\ job[u].current < Len(job[u].ready)
                \/ /\ CommitCounted(u) /\ job[u].close # FALSE
                   /\ ~(job[u].current < Len(job[u].ready))
                \/ Flush(u) \/ CloseRow(u)
  <2>1. CASE \/ \E n \in 1..MaxFetch : FetchUpdate(u, n)
             \/ RefuseDuplicate(u) \/ Release(u)
             \/ CountDelivery(u) /\ job[u].ready = <<>>
             \/ CommitCounted(u) /\ ~(job[u].current < Len(job[u].ready)) /\ job[u].close = FALSE
    BY <2>1, CallEnds
  <2>2. CASE RefuseOrder(u) \/ RefusePlan(u)
    <3>1. Refuse(u)
      BY <2>2 DEF RefuseOrder, RefusePlan
    <3> QED
      BY <3>1, CallEnds
  <2>3. CASE \/ LogEvent(u) \/ Accept(u) \/ Flush(u) \/ CloseRow(u)
             \/ CountDelivery(u) /\ job[u].ready # <<>>
    BY <2>3, CallGoesOn
  <2>4. CASE \/ CommitMany(u) \/ Plan(u) \/ CountCommit(u)
             \/ CommitCounted(u) /\ job[u].current < Len(job[u].ready)
             \/ CommitCounted(u) /\ ~(job[u].current < Len(job[u].ready)) /\ job[u].close # FALSE
    BY <2>4, CommitGoesOn
  <2>5. CASE WriteReplica(u) \/ Invalidate(u) \/ MarkCommitted(u)
    <3>1. PICK next \in {"invalidating", "marking", "counting"} :
            job[u].stage \in Applying /\ EventDone(u, next)
      BY <2>5 DEF WriteReplica, Invalidate, MarkCommitted, Applying
    <3>2. Others(u)
      BY <3>1, CommitGoesOn
    <3> QED
      BY <2>5, <3>2
  <2>6. CASE CountDelivery(u)
    BY <2>1, <2>3, <2>6
  <2>7. CASE CommitCounted(u)
    BY <2>1, <2>4, <2>7
  <2>8. \/ \E n \in 1..MaxFetch : FetchUpdate(u, n)
        \/ LogEvent(u) \/ Accept(u) \/ RefuseDuplicate(u) \/ CountDelivery(u)
        \/ CommitMany(u) \/ RefuseOrder(u) \/ Plan(u) \/ RefusePlan(u)
        \/ WriteReplica(u) \/ Invalidate(u) \/ MarkCommitted(u)
        \/ CountCommit(u) \/ CommitCounted(u)
        \/ Flush(u) \/ CloseRow(u) \/ Release(u)
    BY <1>4 DEF Handler
  <2>9. CASE \E n \in 1..MaxFetch : FetchUpdate(u, n)
    BY <2>1, <2>9
  <2>10. CASE RefuseDuplicate(u) \/ Release(u)
    BY <2>1, <2>10
  <2>11. CASE LogEvent(u) \/ Accept(u) \/ Flush(u) \/ CloseRow(u)
    BY <2>3, <2>11
  <2>12. CASE CommitMany(u) \/ Plan(u) \/ CountCommit(u)
    BY <2>4, <2>12
  <2> QED
    BY <2>2, <2>5, <2>6, <2>7, <2>8, <2>9, <2>10, <2>11, <2>12
<1>5. CASE Crash
  BY <1>5 DEF Crash
<1>6. CASE UNCHANGED vars
  BY <1>6 DEF vars
<1>7. CASE Enrich \/ \E s \in Subs : OpenSubscription(s)
  BY <1>7 DEF Enrich, OpenSubscription
<1>8. ASSUME NEW u \in Threads, Others(u) PROVE t = u \/ job'[t] = job[t]
  BY <1>8 DEF Others
<1>9. CASE \E u \in Threads, s \in Subs :
             Fetch(u, s) \/ Close(u, s) \/ \E n \in Events : Deliver(u, s, n)
  BY <1>2, <1>8, <1>9
<1>10. CASE \E u \in Threads : DatabaseFails(u)
  BY <1>3, <1>8, <1>10
<1>11. CASE \E u \in Threads : Handler(u)
  BY <1>4, <1>8, <1>11
<1> QED
  BY <1>5, <1>6, <1>7, <1>9, <1>10, <1>11 DEF Next

(* What a step makes of the parked transactions of a subscription. *)
LEMMA BufferCases ==
  ASSUME TypeInv, [Next]_vars, NEW s \in Subs
  PROVE  \/ buffers'[s] = buffers[s]
         \/ Crash /\ buffers'[s] = <<>>
         \/ \E t \in Threads :
              /\ Flush(t) \/ Release(t)
              /\ job[t].sub = s
              /\ buffers'[s] = <<>>
         \/ \E t \in Threads :
              /\ Accept(t) /\ job[t].sub = s
              /\ buffers'[s] = Accepted(buffers[s], job[t].event)
         \/ \E t \in Threads :
              /\ RefuseOrder(t) \/ RefusePlan(t)
              /\ job[t].sub = s
              /\ buffers'[s] = Restored(buffers[s], job[t].ready)
<1>1. buffers \in [Subs -> Seq(Buffers)]
  BY DEF TypeInv, TypeOK
<1>2. CASE buffers' = buffers
  BY <1>2
<1>3. CASE Crash
  BY <1>3 DEF Crash
<1>4. ASSUME NEW t \in Threads, Accept(t)
      PROVE  \/ buffers'[s] = buffers[s]
             \/ job[t].sub = s /\ buffers'[s] = Accepted(buffers[s], job[t].event)
  <2>1. buffers' = [buffers EXCEPT ![job[t].sub] = Accepted(buffers[job[t].sub], job[t].event)]
    BY <1>4 DEF Accept
  <2> QED
    BY <1>1, <2>1
<1>5. ASSUME NEW t \in Threads, Flush(t) \/ Release(t)
      PROVE  \/ buffers'[s] = buffers[s]
             \/ job[t].sub = s /\ buffers'[s] = <<>>
  <2>1. buffers' = [buffers EXCEPT ![job[t].sub] = <<>>]
    BY <1>5 DEF Flush, Release
  <2> QED
    BY <1>1, <2>1
<1>6. ASSUME NEW t \in Threads, RefuseOrder(t) \/ RefusePlan(t)
      PROVE  \/ buffers'[s] = buffers[s]
             \/ job[t].sub = s /\ buffers'[s] = Restored(buffers[s], job[t].ready)
  <2>1. buffers' = [buffers EXCEPT ![job[t].sub] = Restored(buffers[job[t].sub], job[t].ready)]
    BY <1>6 DEF RefuseOrder, RefusePlan, Refuse
  <2> QED
    BY <1>1, <2>1
<1>7. \/ buffers' = buffers \/ Crash
      \/ \E t \in Threads : \/ Accept(t) \/ Flush(t) \/ Release(t)
                            \/ RefuseOrder(t) \/ RefusePlan(t)
  <2>1. ASSUME NEW t \in Threads, Handler(t)
        PROVE  buffers' = buffers \/ Accept(t) \/ Flush(t) \/ Release(t)
               \/ RefuseOrder(t) \/ RefusePlan(t)
    BY <2>1 DEF Handler, FetchUpdate, LogEvent, RefuseDuplicate, CountDelivery, CommitMany, Plan,
                WriteReplica, Invalidate, MarkCommitted, CountCommit, CommitCounted, CloseRow
  <2>2. ASSUME NEW t \in Threads, DatabaseFails(t) PROVE buffers' = buffers
    BY <2>2 DEF DatabaseFails
  <2>3. ASSUME NEW t \in Threads, NEW u \in Subs,
               Fetch(t, u) \/ Close(t, u) \/ \E n \in Events : Deliver(t, u, n)
        PROVE  buffers' = buffers
    BY <2>3 DEF Fetch, Close, Deliver
  <2>4. CASE UNCHANGED vars \/ Enrich \/ \E u \in Subs : OpenSubscription(u)
    BY <2>4 DEF vars, Enrich, OpenSubscription
  <2> QED
    BY <2>1, <2>2, <2>3, <2>4 DEF Next
<1> QED
  BY <1>2, <1>3, <1>4, <1>5, <1>6, <1>7

-----------------------------------------------------------------------------
(* Nothing is applied that was not logged. *)

CallLogged(j) ==
  /\ j.stage \in {"logged", "refusing", "parked"} => j.event \in Logged(j.sub)
  /\ Parked(j.ready) \subseteq Logged(j.sub)

LogInv ==
  /\ \A s \in Subs : Parked(buffers[s]) \subseteq Logged(s)
  /\ \A t \in Threads : CallLogged(job[t])
  /\ AppliedIsLogged

LEMMA LogInit == Init => LogInv
<1> SUFFICES ASSUME Init PROVE LogInv
  OBVIOUS
<1>1. ASSUME NEW s \in Subs PROVE Parked(buffers[s]) \subseteq Logged(s)
  BY ParkedNothing DEF Init
<1>2. ASSUME NEW t \in Threads PROVE CallLogged(job[t])
  BY ParkedNothing, IdleFields DEF Init, CallLogged
<1>3. ASSUME NEW s \in Subs PROVE Applied(s) \subseteq Logged(s)
  <2>1. RoomOf[s] \in Rooms
    BY SubscriptionAssumption
  <2>2. WritesOf(RoomOf[s]) = {}
    BY <2>1 DEF Init, WritesOf
  <2> QED
    BY <2>2 DEF Applied
<1> QED
  BY <1>1, <1>2, <1>3 DEF LogInv, AppliedIsLogged

LEMMA LogCalls ==
  ASSUME TypeInv, LogInv, [Next]_vars, NEW t \in Threads
  PROVE  CallLogged(job[t])'
<1>1. PICK j : j = job[t]
  OBVIOUS
<1>2. PICK k : k = job'[t]
  OBVIOUS
<1>3. CallLogged(j)
  BY <1>1 DEF LogInv
<1>4. Logged(j.sub) \subseteq Logged(j.sub)'
  BY LoggedStays
<1>5. j.stage # "idle" => j.sub \in Subs
  BY <1>1, CallTypes
<1>6. SUFFICES CallLogged(k)'
  BY <1>2 DEF CallLogged
<1>7. CASE k = j
  BY <1>3, <1>4, <1>7 DEF CallLogged
<1>8. CASE k = IdleJob
  BY <1>8, IdleFields, ParkedNothing DEF CallLogged
<1>9. CASE \E s \in Subs : Fetch(t, s) \/ Close(t, s) \/ \E n \in Events : Deliver(t, s, n)
  <2>1. k.stage \in {"fetching", "draining", "admitted"} /\ k.ready = <<>>
    BY <1>2, <1>9, CallBegins
  <2> QED
    BY <2>1, ParkedNothing DEF CallLogged
<1>10. CASE LogEvent(t)
  <2>1. k.stage = "logged" /\ k.sub = j.sub /\ k.event = j.event /\ k.ready = j.ready
    BY <1>1, <1>2, <1>10, CallGoesOn DEF SameCall
  <2>2. j.sub \in Subs
    BY <1>1, <1>5, <1>10 DEF LogEvent
  <2>3. Logged(j.sub)' = Logged(j.sub) \cup {j.event}
    BY <1>1, <1>10, <2>2, LogEventAdds
  <2> QED
    BY <1>3, <2>1, <2>3 DEF CallLogged
<1>11. CASE Accept(t)
  <2>1. j.stage = "logged" /\ j.sub \in Subs /\ j.event \in Events
    BY <1>1, <1>5, <1>11, CallTypes DEF Accept, Fits, Delivering
  <2>2. PICK held \in Seq(Buffers) : held = buffers[j.sub]
    BY <2>1, RowTypes
  <2>3. k.sub = j.sub /\ k.event = j.event
        /\ (k.ready = <<>> \/ k.ready = Completed(held, KeyOf(j.event)))
    BY <1>1, <1>2, <1>11, <2>2, CallGoesOn DEF SameCall
  <2>4. Parked(held) \cup {j.event} \subseteq Logged(j.sub)
    BY <1>3, <2>1, <2>2 DEF LogInv, CallLogged
  <2>5. Parked(k.ready) \subseteq Logged(j.sub)
    BY <2>1, <2>3, <2>4, ParkedProperties, ParkedNothing
  <2> QED
    BY <1>4, <2>3, <2>4, <2>5 DEF CallLogged
<1>12. CASE Flush(t)
  <2>1. j.sub \in Subs
    BY <1>1, <1>5, <1>12 DEF Flush
  <2>2. k.sub = j.sub /\ k.ready = buffers[j.sub] /\ k.stage \in {"closing", "ready"}
    BY <1>1, <1>2, <1>12, CallGoesOn DEF SameCall
  <2> QED
    BY <1>4, <2>1, <2>2 DEF LogInv, CallLogged
<1>13. CASE \/ CountDelivery(t) /\ job[t].ready # <<>>
            \/ CommitMany(t) \/ Plan(t) \/ CloseRow(t) \/ CountCommit(t)
            \/ CommitCounted(t) /\ job[t].current < Len(job[t].ready)
            \/ CommitCounted(t) /\ ~(job[t].current < Len(job[t].ready)) /\ job[t].close # FALSE
            \/ WriteReplica(t) \/ Invalidate(t) \/ MarkCommitted(t)
  <2>1. CASE WriteReplica(t) \/ Invalidate(t) \/ MarkCommitted(t)
    <3>1. PICK next \in {"invalidating", "marking", "counting"} :
            job[t].stage \in Applying /\ EventDone(t, next)
      BY <2>1 DEF WriteReplica, Invalidate, MarkCommitted, Applying
    <3>2. k.sub = j.sub /\ k.ready = j.ready /\ k.stage \in Applying \cup {"counting"}
      BY <1>1, <1>2, <3>1, CommitGoesOn DEF SameCall, Applying
    <3> QED
      BY <1>3, <1>4, <3>2 DEF CallLogged, Applying
  <2>2. CASE CloseRow(t) \/ (CountDelivery(t) /\ job[t].ready # <<>>)
    <3>1. k.sub = j.sub /\ k.ready = j.ready /\ k.stage \in {"ready", "releasing"}
      BY <1>1, <1>2, <2>2, CallGoesOn DEF SameCall
    <3> QED
      BY <1>3, <1>4, <3>1 DEF CallLogged
  <2>3. CASE \/ CommitMany(t) \/ Plan(t) \/ CountCommit(t)
             \/ CommitCounted(t) /\ job[t].current < Len(job[t].ready)
             \/ CommitCounted(t) /\ ~(job[t].current < Len(job[t].ready)) /\ job[t].close # FALSE
    <3>1. k.sub = j.sub /\ k.ready = j.ready
          /\ k.stage \in {"planning", "writing", "counted", "closing"}
      BY <1>1, <1>2, <2>3, CommitGoesOn DEF SameCall
    <3> QED
      BY <1>3, <1>4, <3>1 DEF CallLogged
  <2> QED
    BY <1>13, <2>1, <2>2, <2>3
<1> QED
  BY <1>1, <1>2, <1>7, <1>8, <1>9, <1>10, <1>11, <1>12, <1>13, CallCases

LEMMA LogNext == TypeInv /\ LogInv /\ [Next]_vars => LogInv'
<1> SUFFICES ASSUME TypeInv, LogInv, [Next]_vars PROVE LogInv'
  OBVIOUS
<1>1. ASSUME NEW s \in Subs PROVE Parked(buffers'[s]) \subseteq Logged(s)'
  <2>1. Logged(s) \subseteq Logged(s)'
    BY LoggedStays
  <2>2. PICK held \in Seq(Buffers) : held = buffers[s]
    BY RowTypes
  <2>3. Parked(held) \subseteq Logged(s)
    BY <2>2 DEF LogInv
  <2>4. ASSUME NEW t \in Threads, Accept(t), job[t].sub = s,
               buffers'[s] = Accepted(held, job[t].event)
        PROVE  Parked(buffers'[s]) \subseteq Logged(s)
    <3>1. job[t].event \in Events /\ job[t].event \in Logged(s)
      BY <2>4, CallTypes DEF Accept, Fits, Delivering, LogInv, CallLogged
    <3> QED
      BY <2>3, <2>4, <3>1, ParkedProperties
  <2>5. ASSUME NEW t \in Threads, job[t].sub = s, buffers'[s] = Restored(held, job[t].ready)
        PROVE  Parked(buffers'[s]) \subseteq Logged(s)
    <3>1. Parked(job[t].ready) \subseteq Logged(s)
      BY <2>5 DEF LogInv, CallLogged
    <3>2. job[t].ready \in Seq(Buffers)
      BY CallTypes
    <3> QED
      BY <2>3, <2>5, <3>1, <3>2, RestoredProperties
  <2>6. CASE buffers'[s] = buffers[s]
    BY <2>1, <2>2, <2>3, <2>6
  <2>7. CASE buffers'[s] = <<>>
    BY <2>7, ParkedNothing
  <2>8. CASE \E t \in Threads : /\ Accept(t) /\ job[t].sub = s
                               /\ buffers'[s] = Accepted(held, job[t].event)
    BY <2>1, <2>4, <2>8
  <2>9. CASE \E t \in Threads : /\ RefuseOrder(t) \/ RefusePlan(t)
                               /\ job[t].sub = s
                               /\ buffers'[s] = Restored(held, job[t].ready)
    BY <2>1, <2>5, <2>9
  <2> QED
    BY <2>2, <2>6, <2>7, <2>8, <2>9, BufferCases
<1>2. ASSUME NEW s \in Subs PROVE Applied(s)' \subseteq Logged(s)'
  <2>1. Applied(s) \subseteq Logged(s) /\ Logged(s) \subseteq Logged(s)'
    BY LoggedStays DEF LogInv, AppliedIsLogged
  <2>2. CASE replica_writes' = replica_writes
    BY <2>1, <2>2 DEF Applied, WritesOf
  <2>3. ASSUME NEW t \in Threads, WriteReplica(t) PROVE Applied(s)' \subseteq Logged(s)'
    <3>1. PICK sub \in Subs : sub = job[t].sub
      BY <2>3, CallTypes DEF WriteReplica
    <3>2. PICK e : e = First(job[t].todo)
      OBVIOUS
    <3>3. e \in Logged(sub)
      <4>1. e \in job[t].todo
        BY <2>3, <3>2, EventDoneCall DEF WriteReplica, Applying
      <4>2. job[t].current \in DOMAIN job[t].ready
            /\ job[t].todo \subseteq job[t].ready[job[t].current].events
        BY <2>3, CallTypes DEF WriteReplica, Fits, Applying, Committing
      <4>3. job[t].todo \subseteq Parked(job[t].ready)
        BY <4>2 DEF Parked
      <4> QED
        BY <3>1, <4>1, <4>3 DEF LogInv, CallLogged
    <3>4. CASE s = sub
      <4>1. Applied(sub)' = Applied(sub) \cup {e}
        BY <2>3, <3>1, <3>2, WriteReplicaWrites
      <4> QED
        BY <2>1, <3>3, <3>4, <4>1
    <3>5. CASE s # sub
      <4>1. Applied(s)' = Applied(s)
        BY <2>3, <3>1, <3>2, <3>5, WriteReplicaWrites
      <4> QED
        BY <2>1, <4>1
    <3> QED
      BY <3>4, <3>5
  <2> QED
    BY <2>2, <2>3, Writers
<1>3. \A t \in Threads : CallLogged(job[t])'
  BY LogCalls
<1> QED
  BY <1>1, <1>2, <1>3 DEF LogInv, AppliedIsLogged

(* Whatever reaches a room's replica (_apply) was first written to its      *)
(* change log (deliver_event), with any number of threads, redelivered      *)
(* events, refused transactions, failed writes and restarts.                *)
THEOREM LoggedCorrect == Spec => []AppliedIsLogged
<1>1. Init => TypeInv /\ LogInv
  BY TypeInit, LogInit
<1>2. TypeInv /\ LogInv /\ [Next]_vars => TypeInv' /\ LogInv'
  BY TypeNext, LogNext
<1>3. LogInv => AppliedIsLogged
  BY DEF LogInv
<1> QED
  BY <1>1, <1>2, <1>3, PTL DEF Spec

-----------------------------------------------------------------------------
(* A row marked as committed was applied and the panel was told. *)

Written(r) == {w.event : w \in WritesOf(r)}
Told(r) == {w.event : w \in invalidations[r]}

CallApplied(j) ==
  LET all == j.ready[j.current].events
      r == RoomOf[j.sub]
  IN /\ j.stage = "writing" => all \ j.todo \subseteq Written(r)
     /\ j.stage \in {"invalidating", "marking"} => all \subseteq Written(r)
     /\ j.stage = "invalidating" => all \ j.todo \subseteq Told(r)
     /\ j.stage = "marking" => all \subseteq Told(r)

CommitInv ==
  /\ \A t \in Threads : CallApplied(job[t])
  /\ CommittedMeansApplied

LEMMA WrittenStays ==
  ASSUME TypeInv, [Next]_vars, NEW r \in Rooms
  PROVE  Written(r) \subseteq Written(r)' /\ Told(r) \subseteq Told(r)'
BY WritesStay DEF Written, Told

(* What the phases of a commit leave to do. *)
LEMMA CommitCalls ==
  ASSUME TypeInv, CommitInv, [Next]_vars, NEW t \in Threads
  PROVE  CallApplied(job[t])'
<1>1. PICK j : j = job[t]
  OBVIOUS
<1>2. PICK k : k = job'[t]
  OBVIOUS
<1>3. CallApplied(j)
  BY <1>1 DEF CommitInv
<1>4. SUFFICES CallApplied(k)'
  BY <1>2 DEF CallApplied
<1>5. CASE k.stage \notin Applying
  BY <1>5 DEF CallApplied, Applying
<1>6. ASSUME j.stage # "idle"
      PROVE  j.sub \in Subs /\ RoomOf[j.sub] \in Rooms
  BY <1>1, <1>6, CallTypes, RowTypes
<1>7. CASE k = j
  <2>1. CASE j.stage \in Applying
    <3>1. PICK r \in Rooms : r = RoomOf[j.sub]
      BY <1>6, <2>1 DEF Applying
    <3>2. Written(r) \subseteq Written(r)' /\ Told(r) \subseteq Told(r)'
      BY WrittenStays
    <3> QED
      BY <1>3, <1>7, <3>1, <3>2 DEF CallApplied
  <2> QED
    BY <1>5, <1>7, <2>1
<1>8. CASE Plan(t)
  <2>1. k.stage = "writing" /\ k.todo = j.ready[j.current].events
        /\ k.ready = j.ready /\ k.current = j.current
    BY <1>1, <1>2, <1>8, CommitGoesOn DEF SameCall, Current
  <2> QED
    BY <2>1 DEF CallApplied
<1>9. ASSUME NEW next \in {"invalidating", "marking", "counting"},
             j.stage \in Applying, EventDone(t, next)
      PROVE  /\ k.sub = j.sub /\ k.ready = j.ready /\ k.current = j.current
             /\ First(j.todo) \in j.todo
             /\ \/ /\ k.stage = next /\ k.todo = j.ready[j.current].events
                   /\ j.todo = {First(j.todo)}
                \/ k.stage = j.stage /\ k.todo = j.todo \ {First(j.todo)}
  <2>1. First(j.todo) \in j.todo
    BY <1>1, <1>9, EventDoneCall
  <2>2. k.sub = j.sub /\ k.ready = j.ready /\ k.current = j.current
    BY <1>1, <1>2, <1>9, CommitGoesOn DEF SameCall
  <2>3. IF j.todo \ {First(j.todo)} = {}
          THEN k.stage = next /\ k.todo = j.ready[j.current].events
          ELSE k.stage = j.stage /\ k.todo = j.todo \ {First(j.todo)}
    BY <1>1, <1>2, <1>9, CommitGoesOn DEF Current
  <2> QED
    BY <2>1, <2>2, <2>3
<1>10. CASE WriteReplica(t)
  <2>1. j.stage = "writing" /\ EventDone(t, "invalidating")
    BY <1>1, <1>10 DEF WriteReplica
  <2>2. PICK sub \in Subs : sub = j.sub
    BY <1>6, <2>1
  <2>3. PICK r \in Rooms : r = RoomOf[sub]
    BY <1>6, <2>1, <2>2
  <2>4. PICK e : e = First(j.todo)
    OBVIOUS
  <2>5. Written(r)' = Written(r) \cup {e}
    <3>1. WritesOf(r)' = WritesOf(r) \cup {[sub |-> sub, event |-> e]}
      BY <1>1, <1>10, <2>2, <2>3, <2>4, WriteReplicaWrites
    <3>2. PICK w : w = [sub |-> sub, event |-> e]
      OBVIOUS
    <3> QED
      BY <3>1, <3>2 DEF Written
  <2>6. j.ready[j.current].events \ j.todo \subseteq Written(r)
    BY <1>3, <2>1, <2>2, <2>3 DEF CallApplied
  <2> QED
    BY <1>9, <2>1, <2>2, <2>3, <2>4, <2>5, <2>6 DEF CallApplied, Applying
<1>11. CASE Invalidate(t)
  <2>1. j.stage = "invalidating" /\ EventDone(t, "marking")
    BY <1>1, <1>11 DEF Invalidate
  <2>2. PICK sub \in Subs : sub = j.sub
    BY <1>6, <2>1
  <2>3. PICK r \in Rooms : r = RoomOf[sub]
    BY <1>6, <2>1, <2>2
  <2>4. PICK e : e = First(j.todo)
    OBVIOUS
  <2>5. Told(r)' = Told(r) \cup {e}
    <3>1. invalidations \in [Rooms -> SUBSET Writes]
      BY DEF TypeInv, TypeOK
    <3>2. invalidations'[r] = invalidations[r] \cup {[sub |-> sub, event |-> e]}
      BY <1>1, <1>11, <2>2, <2>3, <2>4, <3>1 DEF Invalidate, WriteOf
    <3>3. PICK w : w = [sub |-> sub, event |-> e]
      OBVIOUS
    <3> QED
      BY <3>2, <3>3 DEF Told
  <2>6. j.ready[j.current].events \ j.todo \subseteq Told(r)
        /\ j.ready[j.current].events \subseteq Written(r)
    BY <1>3, <2>1, <2>2, <2>3 DEF CallApplied
  <2>7. Written(r) \subseteq Written(r)'
    BY WrittenStays
  <2> QED
    BY <1>9, <2>1, <2>2, <2>3, <2>4, <2>5, <2>6, <2>7 DEF CallApplied, Applying
<1>12. CASE MarkCommitted(t)
  <2>1. j.stage = "marking" /\ EventDone(t, "counting")
    BY <1>1, <1>12 DEF MarkCommitted
  <2>2. k.sub = j.sub /\ k.ready = j.ready /\ k.current = j.current
        /\ k.stage \in {"marking", "counting"}
    BY <1>9, <2>1 DEF Applying
  <2>3. PICK r \in Rooms : r = RoomOf[j.sub]
    BY <1>6, <2>1
  <2>4. Written(r) \subseteq Written(r)' /\ Told(r) \subseteq Told(r)'
    BY WrittenStays
  <2> QED
    BY <1>3, <2>1, <2>2, <2>3, <2>4 DEF CallApplied
<1>13. CASE k = IdleJob
  BY <1>5, <1>13, IdleFields DEF Applying
<1>14. CASE \E s \in Subs : Fetch(t, s) \/ Close(t, s) \/ \E n \in Events : Deliver(t, s, n)
  BY <1>2, <1>5, <1>14, CallBegins DEF Applying
<1>15. CASE \/ LogEvent(t) \/ Accept(t) \/ (CountDelivery(t) /\ job[t].ready # <<>>)
            \/ Flush(t) \/ CloseRow(t)
  BY <1>2, <1>5, <1>15, CallGoesOn DEF Applying
<1>16. CASE \/ CommitMany(t) \/ CountCommit(t)
            \/ CommitCounted(t) /\ job[t].current < Len(job[t].ready)
            \/ CommitCounted(t) /\ ~(job[t].current < Len(job[t].ready)) /\ job[t].close # FALSE
  BY <1>2, <1>5, <1>16, CommitGoesOn DEF Applying
<1> QED
  BY <1>1, <1>2, <1>7, <1>8, <1>10, <1>11, <1>12, <1>13, <1>14, <1>15, <1>16, CallCases

LEMMA CommitNext ==
  ASSUME \A s, u \in Subs : RoomOf[s] = RoomOf[u], TypeInv, CommitInv, [Next]_vars
  PROVE  CommitInv'
<1>1. \A t \in Threads : CallApplied(job[t])'
  BY CommitCalls
<1>2. CommittedMeansApplied'
  <2>1. SUFFICES ASSUME NEW i \in DOMAIN change_log', change_log'[i].state = "committed",
                        NEW r, r = RoomOf[change_log'[i].sub]
                 PROVE  change_log'[i].event \in Written(r)' \cap Told(r)'
    BY DEF CommittedMeansApplied, Written, Told
  <2>2. PICK n \in Nat : n = Len(change_log) /\ DOMAIN change_log = 1..n
    BY LogGrows
  <2>3. \A k \in 1..n : change_log[k].sub \in Subs
    <3>1. change_log \in Seq(Rows)
      BY DEF TypeInv, TypeOK
    <3>2. \A k \in 1..n : change_log[k] \in Rows
      BY <2>2, <3>1, ElementOfSeq
    <3> QED
      BY <3>2 DEF Rows
  <2>4. CASE i \in 1..n
    <3>1. /\ change_log'[i].sub = change_log[i].sub /\ change_log'[i].event = change_log[i].event
          /\ change_log'[i].state \in {change_log[i].state, "committed"}
      BY <2>2, <2>4, LogGrows
    <3>2. r \in Rooms
      BY <2>1, <2>3, <2>4, <3>1, RowTypes
    <3>3. Written(r) \subseteq Written(r)' /\ Told(r) \subseteq Told(r)'
      BY <3>2, WrittenStays
    <3>4. CASE change_log[i].state = "committed"
      <4>1. change_log[i].event \in Written(r) \cap Told(r)
        BY <2>1, <2>2, <2>4, <3>1, <3>4 DEF CommitInv, CommittedMeansApplied, Written, Told
      <4> QED
        BY <3>1, <3>3, <4>1
    <3>5. CASE change_log[i].state # "committed"
      <4>1. change_log'[i] # change_log[i]
        BY <2>1, <3>5
      <4>2. ~(\E t \in Threads : LogEvent(t))
        <5>1. SUFFICES ASSUME NEW t \in Threads, LogEvent(t) PROVE FALSE
          OBVIOUS
        <5>2. PICK sub \in Subs : sub = job[t].sub
          BY <5>1, CallTypes DEF LogEvent
        <5> QED
          BY <2>2, <2>4, <4>1, <5>1, <5>2, LogEventAdds
      <4>3. PICK t \in Threads : MarkCommitted(t)
        BY <4>1, <4>2, Writers
      <4>4. PICK e : e = First(job[t].todo)
        OBVIOUS
      <4>5. change_log[i].event = e
        BY <2>2, <2>4, <4>1, <4>3, <4>4 DEF MarkCommitted
      <4>6. job[t].stage = "marking" /\ job[t].sub \in Subs
        BY <4>3, CallTypes DEF MarkCommitted
      <4>7. e \in job[t].ready[job[t].current].events
        <5>1. e \in job[t].todo
          BY <4>3, <4>4, <4>6, EventDoneCall DEF MarkCommitted, Applying
        <5> QED
          BY <4>6, <5>1, CallTypes DEF Fits, Applying
      <4>8. RoomOf[job[t].sub] = r
        BY <2>1, <2>3, <2>4, <3>1, <4>6
      <4>9. e \in Written(r) \cap Told(r)
        BY <4>6, <4>7, <4>8 DEF CommitInv, CallApplied
      <4> QED
        BY <3>1, <3>3, <4>5, <4>9
    <3> QED
      BY <3>4, <3>5
  <2>5. CASE i \notin 1..n
    <3>1. ASSUME NEW t \in Threads, LogEvent(t) PROVE FALSE
      <4>1. PICK sub \in Subs : sub = job[t].sub
        BY <3>1, CallTypes DEF LogEvent
      <4>2. DOMAIN change_log' = 1..(n + 1)
            /\ change_log'[n + 1] = [sub |-> sub, event |-> job[t].event, state |-> "buffered"]
        BY <2>2, <3>1, <4>1, LogEventAdds
      <4>3. change_log'[i].state = "buffered"
        BY <2>1, <2>5, <4>2
      <4> QED
        BY <2>1, <4>3
    <3>2. ASSUME NEW t \in Threads, MarkCommitted(t) PROVE DOMAIN change_log' = DOMAIN change_log
      BY <3>2 DEF MarkCommitted
    <3> QED
      BY <2>2, <2>5, <3>1, <3>2, Writers
  <2> QED
    BY <2>4, <2>5
<1> QED
  BY <1>1, <1>2 DEF CommitInv

(* Where the subscriptions are those of one room, a row of the change log   *)
(* says "committed" (_mark_committed) only after the replica got the event  *)
(* and the panel was invalidated, wherever a commit is cut short, refused   *)
(* or raced by another.  _mark_committed looks the rows up by key and       *)
(* sequence number, which is why other rooms are left out.                  *)
THEOREM CommittedCorrect ==
  ASSUME \A s, u \in Subs : RoomOf[s] = RoomOf[u]
  PROVE  Spec => []CommittedMeansApplied
<1>1. Init => TypeInv /\ CommitInv
  <2>1. Init => CommittedMeansApplied
    BY DEF Init, CommittedMeansApplied
  <2>2. Init => \A t \in Threads : CallApplied(job[t])
    BY IdleFields DEF Init, CallApplied
  <2> QED
    BY <2>1, <2>2, TypeInit DEF CommitInv
<1>2. TypeInv /\ CommitInv /\ [Next]_vars => TypeInv' /\ CommitInv'
  BY TypeNext, CommitNext
<1>3. CommitInv => CommittedMeansApplied
  BY DEF CommitInv
<1> QED
  BY <1>1, <1>2, <1>3, PTL DEF Spec

-----------------------------------------------------------------------------
(* A client that sends its requests one by one, over a transport that does  *)
(* not hand an event over twice.                                            *)

OneByOne == (\A t, u \in Threads : t = u) /\ "redelivery" \notin Faults

FreshCall(j) ==
  /\ j.stage # "refusing"
  /\ j.stage = "admitted" => \A n \in Logged(j.sub) : n < j.event
  /\ j.stage = "logged" => \A n \in Parked(buffers[j.sub]) : n < j.event

OnePerKey(held) ==
  /\ \A i, k \in DOMAIN held : held[i].key = held[k].key => i = k
  /\ \A i \in DOMAIN held : \A n \in held[i].events : KeyOf(n) = held[i].key

Starting == {"idle", "fetching", "admitted", "logged", "refusing", "parked", "draining", "ready"}

(* What a call took off the BufferSet is not parked any more, and a call    *)
(* that closes the subscription leaves nothing parked.                      *)
HeldCall(j) ==
  /\ OnePerKey(j.ready)
  /\ j.stage \in Starting => j.current = 0
  /\ j.stage \in Delivering \cup {"fetching"} => ~j.close
  /\ j.stage \in {"draining", "closing", "releasing"} => j.close
  /\ j.stage \in {"fetching", "draining", "admitted", "logged"} => j.ready = <<>>
  /\ j.stage # "idle" => KeysOf(j.ready) \cap KeysOf(buffers[j.sub]) = {}
  /\ j.close /\ j.stage \notin {"idle", "draining"} => buffers[j.sub] = <<>>

ClientInv ==
  /\ \A s \in Subs : OnePerKey(buffers[s])
  /\ \A t \in Threads : FreshCall(job[t]) /\ HeldCall(job[t])

LEMMA NothingHeld == OnePerKey(<<>>) /\ KeysOf(<<>>) = {}
BY DEF OnePerKey, KeysOf

(* An event closes what is parked under other keys, and only that. *)
LEMMA AcceptedKeys ==
  ASSUME NEW held \in Seq(Buffers), NEW n \in Events, OnePerKey(held)
  PROVE  /\ OnePerKey(Accepted(held, n))
         /\ OnePerKey(Completed(held, KeyOf(n)))
         /\ KeysOf(Completed(held, KeyOf(n))) \cap KeysOf(Accepted(held, n)) = {}
<1> DEFINE a == Ahead(held, KeyOf(n))
           done == Completed(held, KeyOf(n))
           rest == Accepted(held, n)
<1>1. a \in Nat /\ Len(held) \in Nat /\ a <= Len(held) /\ DOMAIN held = 1..Len(held)
  BY AheadProperties, LenProperties
<1>2. /\ done \in Seq(Buffers) /\ Len(done) = a /\ \A i \in 1..a : done[i] = held[i]
  BY EventProperties, SplitProperties
<1>3. DOMAIN done = 1..a
  BY <1>2, LenProperties
<1>4. rest \in Seq(Buffers) /\ DOMAIN rest = 1..Len(rest)
  BY AcceptedProperties, LenProperties
<1>5. \A i \in 1..a : held[i].key # KeyOf(n)
  BY EventProperties, AheadProperties
<1>6. CASE a = Len(held)
  <2>1. PICK b : b = [key |-> KeyOf(n), events |-> {n}]
    OBVIOUS
  <2>2. b.key = KeyOf(n) /\ b.events = {n}
    BY <2>1
  <2>3. rest = <<b>>
    BY <1>6, <2>1, AcceptedProperties
  <2>4. DOMAIN rest = {1} /\ rest[1] = b
    BY <2>3
  <2> HIDE DEF rest, done, a
  <2>5. OnePerKey(rest)
    BY <2>2, <2>4 DEF OnePerKey
  <2>6. OnePerKey(done)
    BY <1>1, <1>2, <1>3 DEF OnePerKey
  <2>7. KeysOf(done) \cap KeysOf(rest) = {}
    BY <1>1, <1>2, <1>3, <1>5, <2>2, <2>4 DEF KeysOf
  <2> QED
    BY <2>5, <2>6, <2>7 DEF rest, done, a
<1>7. CASE a < Len(held)
  <2>1. /\ Len(rest) = Len(held) - a
        /\ rest[1].events = held[a + 1].events \cup {n}
        /\ rest[1].key = KeyOf(n)
        /\ \A i \in 2..(Len(held) - a) : rest[i] = held[a + i]
    BY <1>7, AcceptedProperties
  <2>2. held[a + 1].key = KeyOf(n)
    BY <1>7, EventProperties, AheadProperties
  <2>3. PICK size \in Nat : size = Len(held)
    BY <1>1
  <2> HIDE DEF rest, done, a
  <2>4. \A i \in DOMAIN rest : /\ a + i \in 1..size /\ rest[i].key = held[a + i].key
                              /\ rest[i].events \subseteq held[a + i].events \cup {n}
                              /\ (rest[i].events = held[a + i].events \/ i = 1)
    <3> SUFFICES ASSUME NEW i \in DOMAIN rest
                 PROVE  /\ a + i \in 1..size /\ rest[i].key = held[a + i].key
                        /\ rest[i].events \subseteq held[a + i].events \cup {n}
                        /\ (rest[i].events = held[a + i].events \/ i = 1)
      OBVIOUS
    <3>1. i \in 1..(size - a)
      BY <1>4, <2>1, <2>3
    <3>2. a + i \in 1..size
      BY <1>1, <2>3, <3>1
    <3>3. i = 1 \/ i \in 2..(size - a)
      BY <1>1, <2>3, <3>1
    <3>4. CASE i = 1
      BY <2>1, <2>2, <3>2, <3>4
    <3>5. CASE i \in 2..(size - a)
      BY <2>1, <2>3, <3>2, <3>5
    <3> QED
      BY <3>3, <3>4, <3>5
  <2>9. /\ \A x, y \in 1..size : held[x].key = held[y].key => x = y
        /\ \A z \in 1..size : \A m \in held[z].events : KeyOf(m) = held[z].key
    BY <1>1, <2>3 DEF OnePerKey
  <2>5. OnePerKey(rest)
    <3>1. ASSUME NEW i \in DOMAIN rest, NEW k \in DOMAIN rest, rest[i].key = rest[k].key
          PROVE  i = k
      <4>1. a + i = a + k
        <5>1. a + i \in 1..size /\ rest[i].key = held[a + i].key
          BY <2>4
        <5>2. a + k \in 1..size /\ rest[k].key = held[a + k].key
          BY <2>4
        <5> QED
          BY <2>9, <3>1, <5>1, <5>2
      <4>2. i \in Nat /\ k \in Nat
        BY <1>4
      <4> QED
        BY <1>1, <4>1, <4>2
    <3>2. ASSUME NEW i \in DOMAIN rest, NEW m \in rest[i].events
          PROVE  KeyOf(m) = rest[i].key
      <4>1. CASE m \in held[a + i].events
        <5>1. a + i \in 1..size /\ rest[i].key = held[a + i].key
          BY <2>4
        <5> QED
          BY <2>9, <4>1, <5>1
      <4>2. CASE i = 1
        BY <2>1, <2>2, <2>9, <4>2, <2>4
      <4> QED
        BY <2>4, <3>2, <4>1, <4>2
    <3> QED
      BY <3>1, <3>2 DEF OnePerKey
  <2>6. OnePerKey(done)
    BY <1>1, <1>2, <1>3 DEF OnePerKey
  <2>7. KeysOf(done) \cap KeysOf(rest) = {}
    <3>1. ASSUME NEW i \in DOMAIN done, NEW k \in DOMAIN rest PROVE done[i].key # rest[k].key
      <4>1. i \in 1..a /\ i \in 1..size /\ done[i] = held[i]
        BY <1>1, <1>2, <1>3, <2>3
      <4>2. a + k \in 1..size /\ rest[k].key = held[a + k].key
        BY <2>4
      <4>3. i # a + k
        BY <1>1, <1>4, <4>1
      <4> QED
        BY <2>9, <4>1, <4>2, <4>3
    <3> QED
      BY <3>1 DEF KeysOf
  <2> QED
    BY <2>5, <2>6, <2>7 DEF rest, done, a
<1> QED
  BY <1>1, <1>6, <1>7

(* Transactions put back in front of others. *)
LEMMA RestoredKeys ==
  ASSUME NEW held \in Seq(Buffers), NEW ready \in Seq(Buffers),
         OnePerKey(held), OnePerKey(ready), KeysOf(ready) \cap KeysOf(held) = {}
  PROVE  /\ Restored(held, ready) = ready \o held
         /\ OnePerKey(ready \o held)
         /\ Parked(ready \o held) = Parked(ready) \cup Parked(held)
<1>1. Restored(held, ready) = ready \o held
  BY RestoredProperties
<1>2. PICK a \in Nat : a = Len(ready) /\ DOMAIN ready = 1..a
  BY LenProperties
<1>3. PICK b \in Nat : b = Len(held) /\ DOMAIN held = 1..b
  BY LenProperties
<1>4. PICK all : all = ready \o held
  OBVIOUS
<1>5. /\ DOMAIN all = 1..(a + b)
      /\ \A i \in 1..a : all[i] = ready[i]
      /\ \A i \in (a + 1)..(a + b) : all[i] = held[i - a]
  <2>1. /\ all \in Seq(Buffers) /\ Len(all) = a + b
        /\ \A i \in 1..(a + b) : all[i] = IF i <= a THEN ready[i] ELSE held[i - a]
    BY <1>2, <1>3, <1>4, ConcatProperties
  <2>2. DOMAIN all = 1..(a + b)
    BY <2>1, LenProperties
  <2>3. ASSUME NEW i \in 1..a PROVE all[i] = ready[i]
    <3>1. i \in 1..(a + b) /\ i <= a
      OBVIOUS
    <3> QED
      BY <2>1, <3>1
  <2>4. ASSUME NEW i \in (a + 1)..(a + b) PROVE all[i] = held[i - a]
    <3>1. i \in 1..(a + b) /\ ~(i <= a)
      OBVIOUS
    <3> QED
      BY <2>1, <3>1
  <2> QED
    BY <2>2, <2>3, <2>4
<1>6. \A i \in 1..(a + b) : i \in 1..a \/ (i \in (a + 1)..(a + b) /\ i - a \in 1..b)
  OBVIOUS
<1>7. /\ \A i \in 1..a : i \in 1..(a + b)
      /\ \A i \in 1..b : a + i \in (a + 1)..(a + b) /\ a + i \in 1..(a + b) /\ (a + i) - a = i
  OBVIOUS
<1>8. \A i \in 1..a, k \in 1..b : ready[i].key # held[k].key
  BY <1>2, <1>3 DEF KeysOf
<1>9. OnePerKey(all)
  <2>1. ASSUME NEW i \in 1..(a + b), NEW k \in 1..(a + b), all[i].key = all[k].key
        PROVE  i = k
    <3>1. CASE i \in 1..a /\ k \in 1..a
      BY <1>2, <1>5, <2>1, <3>1 DEF OnePerKey
    <3>2. CASE /\ i \in (a + 1)..(a + b) /\ i - a \in 1..b
               /\ k \in (a + 1)..(a + b) /\ k - a \in 1..b
      <4>1. i - a = k - a
        <5>1. all[i] = held[i - a] /\ all[k] = held[k - a]
          BY <1>5, <3>2
        <5> QED
          BY <1>3, <2>1, <3>2, <5>1 DEF OnePerKey
      <4> QED
        BY <3>2, <4>1
    <3>3. CASE i \in 1..a /\ k \in (a + 1)..(a + b) /\ k - a \in 1..b
      BY <1>5, <1>8, <2>1, <3>3
    <3>4. CASE k \in 1..a /\ i \in (a + 1)..(a + b) /\ i - a \in 1..b
      BY <1>5, <1>8, <2>1, <3>4
    <3> QED
      BY <1>6, <3>1, <3>2, <3>3, <3>4
  <2>2. ASSUME NEW i \in 1..(a + b), NEW m \in all[i].events
        PROVE  KeyOf(m) = all[i].key
    <3>1. CASE i \in 1..a
      BY <1>2, <1>5, <2>2, <3>1 DEF OnePerKey
    <3>2. CASE i \in (a + 1)..(a + b) /\ i - a \in 1..b
      BY <1>3, <1>5, <2>2, <3>2 DEF OnePerKey
    <3> QED
      BY <1>6, <3>1, <3>2
  <2> QED
    BY <1>5, <2>1, <2>2 DEF OnePerKey
<1>10. Parked(all) = Parked(ready) \cup Parked(held)
  <2>1. Parked(all) \subseteq Parked(ready) \cup Parked(held)
    BY <1>2, <1>3, <1>5, <1>6 DEF Parked
  <2>2. Parked(ready) \subseteq Parked(all)
    BY <1>2, <1>5, <1>7 DEF Parked
  <2>3. Parked(held) \subseteq Parked(all)
    <3>1. ASSUME NEW i \in 1..b PROVE held[i] = all[a + i] /\ a + i \in DOMAIN all
      BY <1>5, <1>7
    <3> QED
      BY <1>3, <3>1 DEF Parked
  <2> QED
    BY <2>1, <2>2, <2>3
<1> QED
  BY <1>1, <1>4, <1>9, <1>10

(* What a step of the system is: none that a call or the parked             *)
(* transactions notice, a restart, a failed write, or a step of a call.     *)
LEMMA Steps ==
  ASSUME [Next]_vars
  PROVE  \/ /\ UNCHANGED <<change_log, replica_writes, invalidations, buffers, job, disturbed>>
            /\ \A s \in Subs : TypeInv => subscription'[s].usage = subscription[s].usage
         \/ Crash
         \/ \E t \in Threads : \/ DatabaseFails(t) \/ Handler(t)
                               \/ \E s \in Subs : \/ Fetch(t, s) \/ Close(t, s)
                                                  \/ \E n \in Events : Deliver(t, s, n)
<1>1. ASSUME NEW u \in Subs, OpenSubscription(u), NEW s \in Subs, TypeInv
      PROVE  subscription'[s].usage = subscription[s].usage
  BY <1>1 DEF OpenSubscription, TypeInv, TypeOK, Subscriptions
<1>2. CASE \E u \in Subs : OpenSubscription(u)
  BY <1>1, <1>2 DEF OpenSubscription
<1>3. CASE Enrich \/ UNCHANGED vars
  BY <1>3 DEF Enrich, vars
<1> QED
  BY <1>2, <1>3 DEF Next

(* The steps of a commit and of the close that follows it leave the call's  *)
(* subscription and its transactions as they are.                           *)
CommitStep(t) ==
  \/ CommitMany(t) \/ Plan(t) \/ WriteReplica(t) \/ Invalidate(t) \/ MarkCommitted(t)
  \/ CountCommit(t)
  \/ CommitCounted(t) /\ job[t].current < Len(job[t].ready)
  \/ CommitCounted(t) /\ ~(job[t].current < Len(job[t].ready)) /\ job[t].close # FALSE

EndStep(t) ==
  \/ \E n \in 1..MaxFetch : FetchUpdate(t, n)
  \/ RefuseDuplicate(t) \/ RefuseOrder(t) \/ RefusePlan(t) \/ Release(t) \/ DatabaseFails(t)
  \/ CountDelivery(t) /\ job[t].ready = <<>>
  \/ CommitCounted(t) /\ ~(job[t].current < Len(job[t].ready)) /\ job[t].close = FALSE

LEMMA StepsOfCall ==
  ASSUME TypeInv, NEW t \in Threads, DatabaseFails(t) \/ Handler(t)
  PROVE  \/ EndStep(t) \/ CommitStep(t) \/ LogEvent(t) \/ Accept(t) \/ Flush(t) \/ CloseRow(t)
         \/ CountDelivery(t) /\ job[t].ready # <<>>
<1>1. CASE DatabaseFails(t)
  BY <1>1 DEF EndStep
<1>2. CASE Handler(t)
  <2>1. CASE CountDelivery(t)
    BY <2>1 DEF EndStep
  <2>2. CASE CommitCounted(t)
    BY <2>2 DEF EndStep, CommitStep
  <2>3. CASE \E n \in 1..MaxFetch : FetchUpdate(t, n)
    BY <2>3 DEF EndStep
  <2>4. CASE RefuseDuplicate(t) \/ RefuseOrder(t) \/ RefusePlan(t) \/ Release(t)
    BY <2>4 DEF EndStep
  <2>5. CASE \/ CommitMany(t) \/ Plan(t) \/ WriteReplica(t) \/ Invalidate(t) \/ MarkCommitted(t)
             \/ CountCommit(t)
    BY <2>5 DEF CommitStep
  <2>6. CASE LogEvent(t) \/ Accept(t) \/ Flush(t) \/ CloseRow(t)
    BY <2>6
  <2> QED
    BY <1>2, <2>1, <2>2, <2>3, <2>4, <2>5, <2>6 DEF Handler
<1> QED
  BY <1>1, <1>2

LEMMA CommitSteps ==
  ASSUME TypeInv, NEW t \in Threads, CommitStep(t)
  PROVE  /\ job'[t].sub = job[t].sub /\ job'[t].ready = job[t].ready
         /\ job'[t].close = job[t].close
         /\ job[t].stage \in Committing \cup {"ready"}
         /\ job'[t].stage \in Committing \cup {"closing"}
         /\ job'[t].stage = "closing" => job'[t].close # FALSE
         /\ UNCHANGED <<buffers, disturbed>>
<1>1. CASE WriteReplica(t) \/ Invalidate(t) \/ MarkCommitted(t)
  <2>1. PICK next \in {"invalidating", "marking", "counting"} :
          job[t].stage \in Applying /\ EventDone(t, next)
    BY <1>1 DEF WriteReplica, Invalidate, MarkCommitted, Applying
  <2>2. /\ job'[t].sub = job[t].sub /\ job'[t].ready = job[t].ready
        /\ job'[t].close = job[t].close /\ job'[t].stage \in Applying \cup {"counting"}
    BY <2>1, CommitGoesOn DEF SameCall, Applying
  <2>3. UNCHANGED <<buffers, disturbed>>
    BY <1>1 DEF WriteReplica, Invalidate, MarkCommitted
  <2> QED
    BY <2>1, <2>2, <2>3 DEF Applying, Committing
<1>2. CASE CommitMany(t) \/ Plan(t) \/ CountCommit(t)
  BY <1>2, CommitGoesOn DEF SameCall, Committing, CommitMany, Plan, CountCommit
<1>3. CASE CommitCounted(t) /\ job[t].current < Len(job[t].ready)
  BY <1>3, CommitGoesOn DEF Committing, CommitCounted
<1>4. CASE CommitCounted(t) /\ ~(job[t].current < Len(job[t].ready)) /\ job[t].close # FALSE
  BY <1>4, CommitGoesOn DEF SameCall, Committing, CommitCounted
<1> QED
  BY <1>1, <1>2, <1>3, <1>4 DEF CommitStep

LEMMA EndSteps ==
  ASSUME TypeInv, NEW t \in Threads, EndStep(t)
  PROVE  job'[t] = IdleJob /\ Others(t)
<1>1. CASE RefuseOrder(t) \/ RefusePlan(t)
  <2>1. Refuse(t)
    BY <1>1 DEF RefuseOrder, RefusePlan
  <2> QED
    BY <2>1, CallEnds
<1> QED
  BY <1>1, CallEnds DEF EndStep

(* A new event is younger than whatever of the subscription is parked.      *)
LEMMA FreshCalls ==
  ASSUME OneByOne, TypeInv, LogInv, ClientInv, [Next]_vars, NEW t \in Threads
  PROVE  FreshCall(job[t])' /\ HeldCall(job[t])'
<1>1. PICK j : j = job[t]
  OBVIOUS
<1>2. PICK k : k = job'[t]
  OBVIOUS
<1>3. FreshCall(j) /\ HeldCall(j)
  BY <1>1 DEF ClientInv
<1>4. SUFFICES FreshCall(k)' /\ HeldCall(k)'
  BY <1>2 DEF FreshCall, HeldCall
<1>5. j.stage # "idle" => j.sub \in Subs
  BY <1>1, CallTypes
<1>6. CASE k = IdleJob
  BY <1>6, IdleFields, NothingHeld DEF FreshCall, HeldCall, Delivering
<1>7. CASE UNCHANGED <<change_log, buffers, job>>
  <2>1. k = j
    BY <1>1, <1>2, <1>7
  <2> QED
    BY <1>3, <1>7, <2>1 DEF FreshCall, HeldCall, Logged
<1>8. ASSUME NEW s \in Subs, NEW n \in Events, Fetch(t, s) \/ Close(t, s) \/ Deliver(t, s, n)
      PROVE  FreshCall(k)' /\ HeldCall(k)'
  <2>1. /\ k.sub = s /\ k.ready = <<>> /\ k.current = 0
        /\ \/ k.stage = "fetching" /\ k.close = FALSE
           \/ k.stage = "draining" /\ k.close = TRUE
           \/ k.stage = "admitted" /\ k.close = FALSE /\ k.event = n /\ Deliver(t, s, n)
    BY <1>2, <1>8, CallBegins
  <2>2. Deliver(t, s, n) => \A m \in Logged(s) : m < n
    BY DEF Deliver, MayArrive, OneByOne, Logged
  <2>3. Deliver(t, s, n) => change_log' = change_log
    BY DEF Deliver, stored
  <2>4. Deliver(t, s, n) => \A m \in Logged(s)' : m < n
    BY <2>2, <2>3 DEF Logged
  <2>5. FreshCall(k)'
    BY <2>1, <2>4 DEF FreshCall
  <2>6. HeldCall(k)'
    BY <2>1, NothingHeld DEF HeldCall, Delivering
  <2> QED
    BY <2>5, <2>6
<1>9. CASE LogEvent(t)
  <2>1. /\ k.stage = "logged" /\ k.sub = j.sub /\ k.event = j.event /\ k.ready = j.ready
        /\ k.close = j.close /\ k.current = j.current
    BY <1>1, <1>2, <1>9, CallGoesOn DEF SameCall
  <2>2. j.stage = "admitted" /\ buffers' = buffers
    BY <1>1, <1>9 DEF LogEvent
  <2>3. Parked(buffers[j.sub]) \subseteq Logged(j.sub)
    BY <1>5, <2>2 DEF LogInv
  <2>4. FreshCall(k)'
    BY <1>3, <2>1, <2>2, <2>3 DEF FreshCall
  <2>5. HeldCall(k)'
    BY <1>3, <2>1, <2>2 DEF HeldCall, Delivering, Starting
  <2> QED
    BY <2>4, <2>5
<1>10. CASE Accept(t)
  <2>1. j.stage = "logged" /\ j.sub \in Subs /\ j.event \in Events
    BY <1>1, <1>5, <1>10, CallTypes DEF Accept, Fits, Delivering
  <2>2. PICK held \in Seq(Buffers) : held = buffers[j.sub]
    BY <2>1, RowTypes
  <2>3. \A m \in Parked(held) : m < j.event
    BY <1>3, <2>1, <2>2 DEF FreshCall
  <2>4. ~IsDuplicate(held, j.event)
    <3>1. IsDuplicate(held, j.event) => j.event \in Parked(held)
      BY DEF IsDuplicate, Parked
    <3>2. j.event \in Nat
      BY <2>1, EventProperties
    <3> QED
      BY <2>3, <3>1, <3>2
  <2>5. /\ k.stage = "parked" /\ k.sub = j.sub /\ k.close = j.close /\ k.current = j.current
        /\ k.ready = Completed(held, KeyOf(j.event))
    BY <1>1, <1>2, <1>10, <2>2, <2>4, CallGoesOn DEF SameCall
  <2>6. buffers'[j.sub] = Accepted(held, j.event)
    <3>1. buffers' = [buffers EXCEPT ![j.sub] = Accepted(buffers[j.sub], j.event)]
      BY <1>1, <1>10 DEF Accept
    <3>2. buffers \in [Subs -> Seq(Buffers)]
      BY DEF TypeInv, TypeOK
    <3> QED
      BY <2>1, <2>2, <3>1, <3>2
  <2>7. OnePerKey(held)
    BY <2>1, <2>2 DEF ClientInv
  <2>8. /\ OnePerKey(k.ready)
        /\ KeysOf(k.ready) \cap KeysOf(buffers'[j.sub]) = {}
    BY <2>1, <2>5, <2>6, <2>7, AcceptedKeys
  <2>9. FreshCall(k)'
    BY <2>5 DEF FreshCall
  <2>10. ~k.close /\ k.current = 0
    BY <1>3, <2>1, <2>5 DEF HeldCall, Delivering, Starting
  <2>11. HeldCall(k)'
    BY <2>5, <2>8, <2>10 DEF HeldCall
  <2> QED
    BY <2>9, <2>11
<1>11. CASE Flush(t)
  <2>1. j.stage = "draining" /\ j.sub \in Subs
    BY <1>1, <1>5, <1>11 DEF Flush
  <2>2. /\ k.sub = j.sub /\ k.ready = buffers[j.sub] /\ k.stage \in {"closing", "ready"}
        /\ k.close = j.close /\ k.current = j.current
    BY <1>1, <1>2, <1>11, CallGoesOn DEF SameCall
  <2>3. buffers'[j.sub] = <<>>
    BY <1>1, <1>11, <2>1 DEF Flush, TypeInv, TypeOK
  <2>4. OnePerKey(buffers[j.sub])
    BY <2>1 DEF ClientInv
  <2>5. k.close /\ k.current = 0
    BY <1>3, <2>1, <2>2 DEF HeldCall, Starting
  <2> QED
    BY <2>2, <2>3, <2>4, <2>5, NothingHeld DEF FreshCall, HeldCall, Delivering
<1>12. CASE CountDelivery(t) /\ job[t].ready # <<>>
  <2>1. /\ k.stage = "ready" /\ k.sub = j.sub /\ k.ready = j.ready /\ k.close = j.close
        /\ k.current = j.current
    BY <1>1, <1>2, <1>12, CallGoesOn DEF SameCall
  <2>2. j.stage = "parked" /\ buffers' = buffers
    BY <1>1, <1>12 DEF CountDelivery
  <2> QED
    BY <1>3, <2>1, <2>2 DEF FreshCall, HeldCall, Delivering, Starting
<1>13. CASE CloseRow(t)
  <2>1. /\ k.stage = "releasing" /\ k.sub = j.sub /\ k.ready = j.ready /\ k.close = j.close
        /\ j.stage = "closing" /\ buffers' = buffers
    BY <1>1, <1>2, <1>13, CallGoesOn DEF SameCall, CloseRow
  <2> QED
    BY <1>3, <2>1 DEF FreshCall, HeldCall, Delivering, Starting
<1>14. CASE CommitStep(t)
  <2>1. /\ k.sub = j.sub /\ k.ready = j.ready /\ k.close = j.close
        /\ j.stage \in Committing \cup {"ready"} /\ k.stage \in Committing \cup {"closing"}
        /\ k.stage = "closing" => k.close # FALSE
        /\ buffers' = buffers
    BY <1>1, <1>2, <1>14, CommitSteps
  <2>2. k.close \in BOOLEAN
    BY <1>1, <2>1, CallTypes
  <2> QED
    BY <1>3, <2>1, <2>2 DEF FreshCall, HeldCall, Committing, Delivering, Starting
<1>15. CASE EndStep(t)
  BY <1>2, <1>6, <1>15, EndSteps
<1>16. CASE Crash
  BY <1>2, <1>6, <1>16 DEF Crash
<1>17. \A u \in Threads : u = t
  BY DEF OneByOne
<1>18. CASE DatabaseFails(t) \/ Handler(t)
  BY <1>9, <1>10, <1>11, <1>12, <1>13, <1>14, <1>15, <1>18, StepsOfCall
<1>19. CASE \E s \in Subs : Fetch(t, s) \/ Close(t, s) \/ \E n \in Events : Deliver(t, s, n)
  <2>1. PICK s \in Subs : Fetch(t, s) \/ Close(t, s) \/ \E n \in Events : Deliver(t, s, n)
    BY <1>19
  <2>2. CASE \E n \in Events : Deliver(t, s, n)
    BY <1>8, <2>2
  <2>3. CASE Fetch(t, s) \/ Close(t, s)
    <3>1. /\ k.sub = s /\ k.ready = <<>> /\ k.current = 0
          /\ \/ k.stage = "fetching" /\ k.close = FALSE
             \/ k.stage = "draining" /\ k.close = TRUE
      BY <1>2, <2>3, CallBegins
    <3> QED
      BY <3>1, NothingHeld DEF FreshCall, HeldCall, Delivering
  <2> QED
    BY <2>1, <2>2, <2>3
<1> QED
  BY <1>7, <1>16, <1>17, <1>18, <1>19, Steps

LEMMA ClientNext ==
  ASSUME OneByOne, TypeInv, LogInv, ClientInv, [Next]_vars
  PROVE  ClientInv'
<1>1. ASSUME NEW s \in Subs PROVE OnePerKey(buffers'[s])
  <2>1. PICK held \in Seq(Buffers) : held = buffers[s]
    BY RowTypes
  <2>2. OnePerKey(held)
    BY <2>1 DEF ClientInv
  <2>3. ASSUME NEW t \in Threads, Accept(t), buffers'[s] = Accepted(held, job[t].event)
        PROVE  OnePerKey(buffers'[s])
    <3>1. job[t].event \in Events
      BY <2>3, CallTypes DEF Accept, Fits, Delivering
    <3> QED
      BY <2>2, <2>3, <3>1, AcceptedKeys
  <2>4. ASSUME NEW t \in Threads, RefuseOrder(t) \/ RefusePlan(t), job[t].sub = s,
               buffers'[s] = Restored(held, job[t].ready)
        PROVE  OnePerKey(buffers'[s])
    <3>1. job[t].stage # "idle" /\ job[t].ready \in Seq(Buffers)
      BY <2>4, CallTypes DEF RefuseOrder, RefusePlan
    <3>2. OnePerKey(job[t].ready) /\ KeysOf(job[t].ready) \cap KeysOf(held) = {}
      BY <2>1, <2>4, <3>1 DEF ClientInv, HeldCall
    <3> QED
      BY <2>2, <2>4, <3>1, <3>2, RestoredKeys
  <2>5. CASE \E t \in Threads : /\ Accept(t) /\ job[t].sub = s
                               /\ buffers'[s] = Accepted(held, job[t].event)
    BY <2>3, <2>5
  <2>6. CASE \E t \in Threads : /\ RefuseOrder(t) \/ RefusePlan(t)
                               /\ job[t].sub = s
                               /\ buffers'[s] = Restored(held, job[t].ready)
    BY <2>4, <2>6
  <2>7. CASE buffers'[s] = buffers[s] \/ buffers'[s] = <<>>
    BY <2>1, <2>2, <2>7, NothingHeld
  <2> QED
    BY <2>1, <2>5, <2>6, <2>7, BufferCases
<1> QED
  BY <1>1, FreshCalls DEF ClientInv

LEMMA ClientInit == Init => ClientInv
BY IdleFields, NothingHeld DEF Init, ClientInv, FreshCall, HeldCall, Delivering

-----------------------------------------------------------------------------
(* The client is never made to take more events than it asked for. *)

RowsOf(s) == {i \in DOMAIN change_log : change_log[i].sub = s}

InFlight(s) == \E t \in Threads : job[t].sub = s /\ job[t].stage \in {"logged", "parked"}

(* The counters a call goes by are the stored ones, and a delivery was       *)
(* asked for.                                                                *)
BudgetCall(j) ==
  /\ j.stage \in {"fetching", "admitted", "logged", "parked", "counted"}
       => j.usage = subscription[j.sub].usage
  /\ j.stage \in {"admitted", "logged", "parked"} => subscription[j.sub].usage.outstanding >= 1

BudgetSub(s) ==
  LET usage == subscription[s].usage
  IN /\ usage.requested = usage.delivered + usage.outstanding
     /\ InFlight(s) => Cardinality(RowsOf(s)) = usage.delivered + 1
     /\ ~InFlight(s) => Cardinality(RowsOf(s)) = usage.delivered

BudgetInv == ~disturbed => /\ \A t \in Threads : BudgetCall(job[t])
                           /\ \A s \in Subs : BudgetSub(s)

LEMMA Undisturbed ==
  ASSUME [Next]_vars, ~disturbed'
  PROVE  ~disturbed /\ ~Crash /\ \A t \in Threads : ~DatabaseFails(t)
<1>1. ~Crash /\ \A t \in Threads : ~DatabaseFails(t)
  BY DEF Crash, DatabaseFails
<1>2. ASSUME NEW t \in Threads, Handler(t) PROVE disturbed' = disturbed
  BY <1>2 DEF Handler, FetchUpdate, LogEvent, Accept, RefuseDuplicate, CountDelivery, CommitMany,
              RefuseOrder, Plan, RefusePlan, Refuse, WriteReplica, Invalidate, MarkCommitted,
              CountCommit, CommitCounted, Flush, CloseRow, Release
<1>3. ASSUME NEW t \in Threads, NEW s \in Subs,
             Fetch(t, s) \/ Close(t, s) \/ \E n \in Events : Deliver(t, s, n)
      PROVE  disturbed' = disturbed
  BY <1>3 DEF Fetch, Close, Deliver
<1>4. disturbed' = disturbed
  BY <1>1, <1>2, <1>3, Steps
<1> QED
  BY <1>1, <1>4

LEMMA RowsFinite ==
  ASSUME TypeInv, NEW s
  PROVE  IsFiniteSet(RowsOf(s)) /\ Cardinality(RowsOf(s)) \in Nat
<1>1. PICK n \in Nat : DOMAIN change_log = 1..n
  <2>1. change_log \in Seq(Rows)
    BY DEF TypeInv, TypeOK
  <2> QED
    BY <2>1, LenProperties
<1>2. RowsOf(s) \subseteq 1..n
  BY <1>1 DEF RowsOf
<1>3. IsFiniteSet(1..n)
  BY IntervalSize
<1>4. IsFiniteSet(RowsOf(s))
  BY <1>2, <1>3, FS_Subset
<1> QED
  BY <1>4, FS_CardinalityType

(* Only a delivery adds a row. *)
LEMMA RowsStay ==
  ASSUME TypeInv, [Next]_vars, \A t \in Threads : ~LogEvent(t), NEW s
  PROVE  RowsOf(s)' = RowsOf(s)
<1>1. DOMAIN change_log' = DOMAIN change_log
  BY Writers DEF MarkCommitted
<1>2. \A i \in DOMAIN change_log : change_log'[i].sub = change_log[i].sub
  BY LogGrows
<1> QED
  BY <1>1, <1>2 DEF RowsOf

LEMMA RowAdded ==
  ASSUME TypeInv, NEW t \in Threads, LogEvent(t), NEW sub \in Subs, sub = job[t].sub
  PROVE  /\ Cardinality(RowsOf(sub)') = Cardinality(RowsOf(sub)) + 1
         /\ \A s \in Subs \ {sub} : RowsOf(s)' = RowsOf(s)
<1>1. PICK n \in Nat : n = Len(change_log)
  BY LogEventAdds
<1>2. /\ DOMAIN change_log = 1..n /\ DOMAIN change_log' = 1..(n + 1)
      /\ \A i \in 1..n : change_log'[i] = change_log[i]
      /\ change_log'[n + 1].sub = sub
  <2>1. change_log'[n + 1] = [sub |-> sub, event |-> job[t].event, state |-> "buffered"]
    BY <1>1, LogEventAdds
  <2> QED
    BY <1>1, <2>1, LogEventAdds
<1>3. 1..(n + 1) = 1..n \cup {n + 1} /\ n + 1 \notin 1..n
  OBVIOUS
<1>4. RowsOf(sub)' = RowsOf(sub) \cup {n + 1}
  BY <1>2, <1>3 DEF RowsOf
<1>5. n + 1 \notin RowsOf(sub)
  BY <1>2, <1>3 DEF RowsOf
<1>6. \A s \in Subs \ {sub} : RowsOf(s)' = RowsOf(s)
  BY <1>2, <1>3 DEF RowsOf
<1> QED
  BY <1>4, <1>5, <1>6, RowsFinite, FS_AddElement

LEMMA UsagePut ==
  ASSUME TypeInv, NEW x \in Subs, NEW w, subscription' = [subscription EXCEPT ![x].usage = w]
  PROVE  /\ subscription'[x].usage = w
         /\ \A s \in Subs \ {x} : subscription'[s] = subscription[s]
BY DEF TypeInv, TypeOK, Subscriptions

(* Steps that leave the counters and the rows as they are. *)
LEMMA BudgetStays ==
  ASSUME TypeInv, BudgetInv, ~disturbed, NEW s \in Subs,
         subscription'[s].usage = subscription[s].usage, RowsOf(s)' = RowsOf(s),
         InFlight(s)' <=> InFlight(s)
  PROVE  BudgetSub(s)'
BY DEF BudgetInv, BudgetSub

LEMMA BudgetNext ==
  ASSUME OneByOne, TypeInv, ClientInv, ClientInv', BudgetInv, [Next]_vars
  PROVE  BudgetInv'
<1> SUFFICES ASSUME ~disturbed'
             PROVE  /\ \A t \in Threads : BudgetCall(job[t])'
                    /\ \A s \in Subs : BudgetSub(s)'
  BY DEF BudgetInv
<1>1. ~disturbed /\ ~Crash /\ \A t \in Threads : ~DatabaseFails(t)
  BY Undisturbed
<1>2. /\ \A t \in Threads : BudgetCall(job[t])
      /\ \A s \in Subs : BudgetSub(s)
  BY <1>1 DEF BudgetInv
<1>3. CASE /\ UNCHANGED <<change_log, job>>
           /\ \A s \in Subs : subscription'[s].usage = subscription[s].usage
  <2>1. ASSUME NEW s \in Subs PROVE BudgetSub(s)'
    BY <1>1, <1>3, BudgetStays DEF RowsOf, InFlight
  <2>2. ASSUME NEW t \in Threads PROVE BudgetCall(job[t])'
    <3>1. PICK j : j = job[t]
      OBVIOUS
    <3>2. j.stage # "idle" => j.sub \in Subs
      BY <3>1, CallTypes
    <3> QED
      BY <1>2, <1>3, <3>1, <3>2 DEF BudgetCall
  <2> QED
    BY <2>1, <2>2
<1>4. ASSUME NEW t \in Threads,
             \/ Handler(t)
             \/ \E s \in Subs : Fetch(t, s) \/ Close(t, s) \/ \E n \in Events : Deliver(t, s, n)
      PROVE  /\ BudgetCall(job[t])'
             /\ \A s \in Subs : BudgetSub(s)'
  <2>1. PICK j : j = job[t]
    OBVIOUS
  <2>2. PICK k : k = job'[t]
    OBVIOUS
  <2>3. \A u \in Threads : u = t
    BY DEF OneByOne
  <2>4. \A s : /\ InFlight(s) <=> j.sub = s /\ j.stage \in {"logged", "parked"}
               /\ InFlight(s)' <=> k.sub = s /\ k.stage \in {"logged", "parked"}
    BY <2>1, <2>2, <2>3 DEF InFlight
  <2>5. BudgetCall(j)
    BY <1>2, <2>1
  <2>6. SUFFICES BudgetCall(k)' /\ \A s \in Subs : BudgetSub(s)'
    BY <2>2 DEF BudgetCall
  <2>7. j.stage # "idle" => j.sub \in Subs
    BY <2>1, CallTypes
  <2>8. ASSUME NEW u \in Threads, LogEvent(u) PROVE LogEvent(t) /\ j.stage = "admitted"
    BY <2>1, <2>3, <2>8 DEF LogEvent
  <2>9. ASSUME j.stage # "admitted", NEW s \in Subs PROVE RowsOf(s)' = RowsOf(s)
    BY <2>8, <2>9, RowsStay
  <2>10. CASE \E s \in Subs : Fetch(t, s) \/ Close(t, s) \/ \E n \in Events : Deliver(t, s, n)
    <3>1. PICK x \in Subs : Fetch(t, x) \/ Close(t, x) \/ \E n \in Events : Deliver(t, x, n)
      BY <2>10
    <3>2. j.stage = "idle" /\ subscription' = subscription
      BY <2>1, <3>1 DEF Fetch, Close, Deliver, stored
    <3>3. k.sub = x /\ (k.stage \in {"fetching", "admitted"} => k.usage = subscription[x].usage)
          /\ k.stage \in {"fetching", "draining", "admitted"}
      BY <2>2, <3>1, CallBegins
    <3>4. k.stage = "admitted" => subscription[x].usage.outstanding >= 1
      <4>1. CASE \E n \in Events : Deliver(t, x, n)
        BY <4>1 DEF Deliver
      <4>2. CASE Fetch(t, x) \/ Close(t, x)
        BY <2>2, <4>2, CallBegins
      <4> QED
        BY <3>1, <4>1, <4>2
    <3>5. BudgetCall(k)'
      BY <3>2, <3>3, <3>4 DEF BudgetCall
    <3>6. ASSUME NEW s \in Subs PROVE BudgetSub(s)'
      <4>1. RowsOf(s)' = RowsOf(s)
        BY <2>9, <3>2
      <4>2. InFlight(s)' <=> InFlight(s)
        BY <2>4, <3>2, <3>3
      <4> QED
        BY <1>1, <3>2, <4>1, <4>2, BudgetStays
    <3> QED
      BY <3>5, <3>6
  <2>11. CASE \E n \in 1..MaxFetch : FetchUpdate(t, n)
    <3>1. PICK n \in 1..MaxFetch : FetchUpdate(t, n)
      BY <2>11
    <3>2. k = IdleJob /\ j.stage = "fetching"
      BY <2>1, <2>2, <3>1, CallEnds DEF FetchUpdate
    <3>3. PICK x \in Subs : x = j.sub
      BY <2>7, <3>2
    <3>4. PICK u \in Usages : u = subscription[x].usage
      BY RowTypes
    <3>5. j.usage = u
      BY <2>5, <3>2, <3>3, <3>4 DEF BudgetCall
    <3>6. subscription' = [subscription EXCEPT ![x].usage = RequestFetch(u, n)]
      BY <2>1, <3>1, <3>3, <3>5 DEF FetchUpdate
    <3>7. /\ subscription'[x].usage = RequestFetch(u, n)
          /\ \A s \in Subs \ {x} : subscription'[s] = subscription[s]
      BY <3>6, UsagePut
    <3>8. /\ RequestFetch(u, n).requested = u.requested + n
          /\ RequestFetch(u, n).delivered = u.delivered
          /\ RequestFetch(u, n).outstanding = u.outstanding + n
      BY <3>4 DEF RequestFetch, Usages
    <3>9. ASSUME NEW s \in Subs PROVE BudgetSub(s)'
      <4>1. RowsOf(s)' = RowsOf(s) /\ ~InFlight(s) /\ ~InFlight(s)'
        BY <2>4, <2>9, <3>2, IdleFields
      <4>2. CASE s # x
        BY <1>1, <3>7, <4>1, <4>2, BudgetStays
      <4>3. CASE s = x
        <5>1. u.requested = u.delivered + u.outstanding /\ Cardinality(RowsOf(x)) = u.delivered
          BY <1>2, <3>4, <4>1, <4>3 DEF BudgetSub
        <5>2. u.requested \in Nat /\ u.delivered \in Nat /\ u.outstanding \in Nat /\ n \in Nat
          BY <3>4 DEF Usages
        <5> QED
          BY <3>7, <3>8, <4>1, <4>3, <5>1, <5>2 DEF BudgetSub
      <4> QED
        BY <4>2, <4>3
    <3>10. BudgetCall(k)'
      BY <3>2, IdleFields DEF BudgetCall
    <3> QED
      BY <3>9, <3>10
  <2>12. CASE LogEvent(t)
    <3>1. /\ k.stage = "logged" /\ k.sub = j.sub /\ k.usage = j.usage
      BY <2>1, <2>2, <2>12, CallGoesOn DEF SameCall
    <3>2. j.stage = "admitted" /\ subscription' = subscription
      BY <2>1, <2>12 DEF LogEvent
    <3>3. PICK x \in Subs : x = j.sub
      BY <2>7, <3>2
    <3>4. BudgetCall(k)'
      BY <2>5, <3>1, <3>2 DEF BudgetCall
    <3>5. ASSUME NEW s \in Subs PROVE BudgetSub(s)'
      <4>1. CASE s # x
        BY <1>1, <2>1, <2>4, <2>12, <3>1, <3>2, <3>3, <4>1, RowAdded, BudgetStays
      <4>2. CASE s = x
        <5>1. Cardinality(RowsOf(x)') = Cardinality(RowsOf(x)) + 1
          BY <2>1, <2>12, <3>3, RowAdded
        <5>2. ~InFlight(x) /\ InFlight(x)'
          BY <2>4, <3>1, <3>2, <3>3
        <5> QED
          BY <1>2, <3>2, <4>2, <5>1, <5>2 DEF BudgetSub
      <4> QED
        BY <4>1, <4>2
    <3> QED
      BY <3>4, <3>5
  <2>13. CASE Accept(t)
    <3>1. k.sub = j.sub /\ k.usage = j.usage /\ k.stage \in {"parked", "refusing"}
      BY <2>1, <2>2, <2>13, CallGoesOn DEF SameCall
    <3>2. k.stage # "refusing"
      BY <2>2 DEF ClientInv, FreshCall
    <3>3. j.stage = "logged" /\ subscription' = subscription
      BY <2>1, <2>13 DEF Accept, stored
    <3>4. BudgetCall(k)'
      BY <2>5, <3>1, <3>2, <3>3 DEF BudgetCall
    <3>5. ASSUME NEW s \in Subs PROVE BudgetSub(s)'
      <4>1. InFlight(s)' <=> InFlight(s)
        BY <2>4, <3>1, <3>2, <3>3
      <4>2. RowsOf(s)' = RowsOf(s)
        BY <2>9, <3>3
      <4> QED
        BY <1>1, <3>3, <4>1, <4>2, BudgetStays
    <3> QED
      BY <3>4, <3>5
  <2>14. CASE CountDelivery(t)
    <3>1. k = IdleJob \/ k.stage = "ready"
      BY <2>1, <2>2, <2>14, CallEnds, CallGoesOn
    <3>2. k.stage \in {"idle", "ready"}
      BY <3>1, IdleFields
    <3>3. j.stage = "parked"
      BY <2>1, <2>14 DEF CountDelivery
    <3>4. PICK x \in Subs : x = j.sub
      BY <2>7, <3>3
    <3>5. PICK u \in Usages : u = subscription[x].usage
      BY RowTypes
    <3>6. j.usage = u /\ u.outstanding >= 1
      BY <2>5, <3>3, <3>4, <3>5 DEF BudgetCall
    <3>7. subscription' = [subscription EXCEPT ![x].usage = RecordDelivery(u)]
      BY <2>1, <2>14, <3>4, <3>6 DEF CountDelivery
    <3>8. /\ subscription'[x].usage = RecordDelivery(u)
          /\ \A s \in Subs \ {x} : subscription'[s] = subscription[s]
      BY <3>7, UsagePut
    <3>9. u.requested \in Nat /\ u.delivered \in Nat /\ u.outstanding \in Nat
      BY <3>5 DEF Usages
    <3>10. /\ RecordDelivery(u).requested = u.requested
           /\ RecordDelivery(u).delivered = u.delivered + 1
           /\ RecordDelivery(u).outstanding = u.outstanding - 1
      <4>1. u.outstanding > 0
        BY <3>6, <3>9
      <4> QED
        BY <3>5, <4>1 DEF RecordDelivery, Usages
    <3>11. ASSUME NEW s \in Subs PROVE BudgetSub(s)'
      <4>1. RowsOf(s)' = RowsOf(s)
        BY <2>9, <3>3
      <4>2. CASE s # x
        BY <1>1, <2>4, <3>2, <3>4, <3>8, <4>1, <4>2, BudgetStays
      <4>3. CASE s = x
        <5>1. InFlight(x) /\ ~InFlight(x)'
          BY <2>4, <3>2, <3>3, <3>4
        <5>2. u.requested = u.delivered + u.outstanding
              /\ Cardinality(RowsOf(x)) = u.delivered + 1
          BY <1>2, <3>5, <5>1 DEF BudgetSub
        <5> QED
          BY <3>6, <3>8, <3>9, <3>10, <4>1, <4>3, <5>1, <5>2 DEF BudgetSub
      <4> QED
        BY <4>2, <4>3
    <3>12. BudgetCall(k)'
      BY <3>2 DEF BudgetCall
    <3> QED
      BY <3>11, <3>12
  <2>15. CASE RefuseDuplicate(t)
    BY <2>15 DEF RefuseDuplicate, ClientInv, FreshCall
  <2>16. ASSUME j.stage \notin {"admitted", "logged", "parked"},
                k.stage \notin {"fetching", "admitted", "logged", "parked"},
                k.stage = "counted" => k.sub \in Subs /\ k.usage = subscription[k.sub].usage,
                \A s \in Subs : subscription'[s].usage = subscription[s].usage
         PROVE  BudgetCall(k)' /\ \A s \in Subs : BudgetSub(s)'
    <3>1. BudgetCall(k)'
      BY <2>5, <2>7, <2>16 DEF BudgetCall
    <3>2. ASSUME NEW s \in Subs PROVE BudgetSub(s)'
      <4>1. RowsOf(s)' = RowsOf(s) /\ ~InFlight(s) /\ ~InFlight(s)'
        BY <2>4, <2>9, <2>16
      <4> QED
        BY <1>1, <2>16, <4>1, BudgetStays
    <3> QED
      BY <3>1, <3>2
  <2>17. CASE RefuseOrder(t) \/ RefusePlan(t) \/ Release(t)
    <3>1. k = IdleJob
      BY <2>2, <2>17, EndSteps DEF EndStep
    <3>2. j.stage \in {"ready", "planning", "releasing"} /\ subscription' = subscription
      BY <2>1, <2>17 DEF RefuseOrder, RefusePlan, Refuse, Release, stored
    <3> QED
      BY <2>16, <3>1, <3>2, IdleFields
  <2>18. CASE CommitMany(t) \/ Plan(t) \/ CountCommit(t)
    <3>1. k.stage \in {"planning", "writing", "counted"} /\ k.sub = j.sub
          /\ (k.stage = "counted" => k.usage = subscription[j.sub].usage)
      BY <2>1, <2>2, <2>18, CommitGoesOn DEF SameCall
    <3>2. j.stage \in {"ready", "planning", "counting"} /\ subscription' = subscription
      BY <2>1, <2>18 DEF CommitMany, Plan, CountCommit, stored
    <3> QED
      BY <2>7, <2>16, <3>1, <3>2
  <2>19. CASE WriteReplica(t) \/ Invalidate(t) \/ MarkCommitted(t)
    <3>1. PICK next \in {"invalidating", "marking", "counting"} :
            job[t].stage \in Applying /\ EventDone(t, next)
      BY <2>19 DEF WriteReplica, Invalidate, MarkCommitted, Applying
    <3>2. k.stage \in Applying \cup {"counting"} /\ subscription' = subscription
      BY <2>2, <2>19, <3>1, CommitGoesOn DEF Applying, WriteReplica, Invalidate, MarkCommitted
    <3> QED
      BY <2>1, <2>16, <3>1, <3>2 DEF Applying
  <2>20. CASE CommitCounted(t)
    <3>1. j.stage = "counted"
      BY <2>1, <2>20 DEF CommitCounted
    <3>2. PICK x \in Subs : x = j.sub
      BY <2>7, <3>1
    <3>3. k = IdleJob \/ k.stage \in {"planning", "closing"}
      BY <2>2, <2>20, CallEnds, CommitGoesOn
    <3>4. k.stage \in {"idle", "planning", "closing"}
      BY <3>3, IdleFields
    <3>5. j.usage = subscription[x].usage
      BY <2>5, <3>1, <3>2 DEF BudgetCall
    <3>6. subscription' = [subscription EXCEPT ![x].usage = j.usage]
      BY <2>1, <2>20, <3>2 DEF CommitCounted
    <3>7. /\ subscription'[x].usage = j.usage
          /\ \A s \in Subs \ {x} : subscription'[s] = subscription[s]
      BY <3>6, UsagePut
    <3>8. \A s \in Subs : subscription'[s].usage = subscription[s].usage
      BY <3>5, <3>7
    <3> QED
      BY <2>16, <3>1, <3>4, <3>8
  <2>21. CASE Flush(t) \/ CloseRow(t)
    <3>1. k.stage \in {"closing", "ready", "releasing"} /\ j.stage \in {"draining", "closing"}
      BY <2>1, <2>2, <2>21, CallGoesOn DEF Flush, CloseRow
    <3>2. \A s \in Subs : subscription'[s].usage = subscription[s].usage
      <4>1. CASE Flush(t)
        BY <4>1 DEF Flush, stored
      <4>2. CASE CloseRow(t)
        <5>1. PICK x : subscription' = [subscription EXCEPT ![x].state = "closed"]
          BY <4>2 DEF CloseRow
        <5> QED
          BY <5>1 DEF TypeInv, TypeOK, Subscriptions
      <4> QED
        BY <2>21, <4>1, <4>2
    <3> QED
      BY <2>16, <3>1, <3>2
  <2>22. CASE Handler(t)
    BY <2>11, <2>12, <2>13, <2>14, <2>15, <2>17, <2>18, <2>19, <2>20, <2>21, <2>22 DEF Handler
  <2> QED
    BY <1>4, <2>10, <2>22
<1>5. \A t, u \in Threads : u = t
  BY DEF OneByOne
<1> QED
  BY <1>1, <1>3, <1>4, <1>5, Steps

LEMMA BudgetInit == Init => BudgetInv
<1> SUFFICES ASSUME Init PROVE BudgetInv
  OBVIOUS
<1>1. ASSUME NEW s \in Subs PROVE RowsOf(s) = {}
  BY DEF Init, RowsOf
<1>2. \A s \in Subs : subscription[s].usage = BlankUsage
  BY DEF Init
<1>3. \A t \in Threads : job[t].stage = "idle"
  BY IdleFields DEF Init
<1>4. Cardinality({}) = 0
  BY FS_EmptySet
<1>5. \A s \in Subs : BudgetSub(s)
  <2>1. BlankUsage.requested = 0 /\ BlankUsage.delivered = 0 /\ BlankUsage.outstanding = 0
    BY DEF BlankUsage
  <2>2. \A s \in Subs : ~InFlight(s)
    BY <1>3 DEF InFlight
  <2> QED
    BY <1>1, <1>2, <1>4, <2>1, <2>2 DEF BudgetSub
<1>6. \A t \in Threads : BudgetCall(job[t])
  BY <1>3 DEF BudgetCall
<1> QED
  BY <1>5, <1>6 DEF BudgetInv

LEMMA BudgetSuffices == TypeInv /\ BudgetInv => DeliveredWithinBudget
<1> SUFFICES ASSUME TypeInv, BudgetInv, ~disturbed, NEW s \in Subs
             PROVE  Cardinality(RowsOf(s)) <= subscription[s].usage.requested
  BY DEF DeliveredWithinBudget, RowsOf
<1>1. PICK u \in Usages : u = subscription[s].usage
  BY RowTypes
<1>2. u.requested \in Nat /\ u.delivered \in Nat /\ u.outstanding \in Nat
  BY <1>1 DEF Usages
<1>3. BudgetSub(s) /\ \A t \in Threads : BudgetCall(job[t])
  BY DEF BudgetInv
<1>4. u.requested = u.delivered + u.outstanding
  BY <1>1, <1>3 DEF BudgetSub
<1>5. CASE InFlight(s)
  <2>1. u.outstanding >= 1
    BY <1>1, <1>3, <1>5 DEF InFlight, BudgetCall
  <2>2. Cardinality(RowsOf(s)) = u.delivered + 1
    BY <1>1, <1>3, <1>5 DEF BudgetSub
  <2> QED
    BY <1>1, <1>2, <1>4, <2>1, <2>2
<1>6. CASE ~InFlight(s)
  <2>1. Cardinality(RowsOf(s)) = u.delivered
    BY <1>1, <1>3, <1>6 DEF BudgetSub
  <2> QED
    BY <1>1, <1>2, <1>4, <2>1
<1> QED
  BY <1>5, <1>6

(* A client that sends its requests one by one, over a transport that does  *)
(* not repeat events, never has more events in its change log than it       *)
(* requested (fetch, deliver_event, usage.py), whatever transactions are    *)
(* refused on the way, until a write fails or the process restarts.         *)
THEOREM BudgetCorrect ==
  ASSUME OneByOne
  PROVE  Spec => []DeliveredWithinBudget
<1>1. Init => TypeInv /\ LogInv /\ ClientInv /\ BudgetInv
  BY TypeInit, LogInit, ClientInit, BudgetInit
<1>2. TypeInv /\ LogInv /\ ClientInv /\ BudgetInv /\ [Next]_vars
        => (TypeInv /\ LogInv /\ ClientInv /\ BudgetInv)'
  BY TypeNext, LogNext, ClientNext, BudgetNext
<1>3. TypeInv /\ BudgetInv => DeliveredWithinBudget
  BY BudgetSuffices
<1> QED
  BY <1>1, <1>2, <1>3, PTL DEF Spec

-----------------------------------------------------------------------------
(* A buffered event is always on its way to the replica. *)

(* The call still has to apply event e, or to mark it. *)
Pending(j, e) ==
  \/ j.stage = "logged" /\ e = j.event
  \/ /\ j.stage \in Committing \cup {"parked", "ready"}
     /\ \E i \in DOMAIN j.ready : i > j.current /\ e \in j.ready[i].events
  \/ j.stage \in {"planning", "writing", "invalidating"} /\ e \in j.ready[j.current].events
  \/ j.stage = "marking" /\ e \in j.todo

Waits(s, e) ==
  \/ e \in Parked(buffers[s])
  \/ \E t \in Threads : job[t].sub = s /\ Pending(job[t], e)

VanishInv ==
  ~disturbed =>
    \A i \in DOMAIN change_log :
      change_log[i].state = "buffered" => Waits(change_log[i].sub, change_log[i].event)

(* At the end of a call nothing is pending but what goes back. *)
LEMMA PendingAtEnd ==
  ASSUME TypeInv, ClientInv, NEW t \in Threads, EndStep(t), ~DatabaseFails(t), NEW e,
         Pending(job[t], e)
  PROVE  /\ RefuseOrder(t) \/ RefusePlan(t)
         /\ e \in Parked(job[t].ready)
<1>1. PICK j : j = job[t]
  OBVIOUS
<1>2. HeldCall(j) /\ FreshCall(j) /\ j \in Jobs /\ Fits(j)
  BY <1>1, CallTypes DEF ClientInv
<1>3. CASE (\E n \in 1..MaxFetch : FetchUpdate(t, n)) \/ RefuseDuplicate(t) \/ Release(t)
  <2>1. j.stage \in {"fetching", "refusing", "releasing"}
    BY <1>1, <1>3 DEF FetchUpdate, RefuseDuplicate, Release
  <2> QED
    BY <1>1, <2>1 DEF Pending, Committing
<1>4. CASE CountDelivery(t) /\ job[t].ready = <<>>
  <2>1. j.stage = "parked" /\ j.ready = <<>>
    BY <1>1, <1>4 DEF CountDelivery
  <2> QED
    BY <1>1, <2>1 DEF Pending
<1>5. CASE CommitCounted(t) /\ ~(job[t].current < Len(job[t].ready)) /\ job[t].close = FALSE
  <2>1. j.stage = "counted" /\ ~(j.current < Len(j.ready))
    BY <1>1, <1>5 DEF CommitCounted
  <2>2. PICK n \in Nat : n = Len(j.ready) /\ DOMAIN j.ready = 1..n
    BY <1>1, CallTypes, LenProperties
  <2>3. PICK c \in Nat : c = j.current
    BY <1>1, CallTypes
  <2>4. ~(\E i \in 1..n : i > c)
    BY <2>1, <2>2, <2>3
  <2> QED
    BY <1>1, <2>1, <2>2, <2>3, <2>4 DEF Pending
<1>6. CASE RefuseOrder(t) \/ RefusePlan(t)
  <2>1. j.stage \in {"ready", "planning"}
    BY <1>1, <1>6 DEF RefuseOrder, RefusePlan
  <2>2. j.stage = "planning" => j.current \in DOMAIN j.ready
    BY <1>2 DEF Fits, Committing
  <2>3. \E i \in DOMAIN j.ready : e \in j.ready[i].events
    BY <1>1, <2>1, <2>2 DEF Pending
  <2> QED
    BY <1>1, <1>6, <2>3 DEF Parked
<1> QED
  BY <1>3, <1>4, <1>5, <1>6 DEF EndStep

(* A commit goes on with what is pending. *)
LEMMA PendingInCommit ==
  ASSUME TypeInv, ClientInv, NEW t \in Threads, CommitStep(t), NEW e, Pending(job[t], e),
         MarkCommitted(t) => e # First(job[t].todo)
  PROVE  Pending(job'[t], e)
<1>1. PICK j : j = job[t]
  OBVIOUS
<1>2. PICK k : k = job'[t]
  OBVIOUS
<1>3. k.ready = j.ready
  BY <1>1, <1>2, CommitSteps
<1>4. j \in Jobs /\ j.current \in Nat /\ HeldCall(j)
  BY <1>1, CallTypes DEF ClientInv
<1>5. PICK n \in Nat : n = Len(j.ready) /\ DOMAIN j.ready = 1..n
  BY <1>1, CallTypes, LenProperties
<1>6. PICK c \in Nat : c = j.current
  BY <1>4
<1>7. CASE CommitMany(t)
  <2>1. k.stage = "planning" /\ k.current = 1 /\ j.stage = "ready"
    BY <1>1, <1>2, <1>7, CommitGoesOn DEF CommitMany
  <2>2. PICK i \in 1..n : i > 0 /\ e \in j.ready[i].events
    BY <1>1, <1>4, <1>5, <2>1 DEF Pending, HeldCall, Starting
  <2>3. i = 1 \/ i > 1
    BY <2>2
  <2> QED
    BY <1>2, <1>3, <1>5, <2>1, <2>2, <2>3 DEF Pending, Committing
<1>8. CASE Plan(t)
  <2>1. k.stage = "writing" /\ k.current = j.current /\ j.stage = "planning"
    BY <1>1, <1>2, <1>8, CommitGoesOn DEF Plan, SameCall
  <2> QED
    BY <1>1, <1>2, <1>3, <2>1 DEF Pending, Committing
<1>9. ASSUME NEW next \in {"invalidating", "marking", "counting"},
             j.stage \in Applying, EventDone(t, next)
      PROVE  /\ k.current = j.current
             /\ \/ /\ k.stage = next /\ k.todo = j.ready[j.current].events
                   /\ j.todo \ {First(j.todo)} = {}
                \/ k.stage = j.stage /\ k.todo = j.todo \ {First(j.todo)}
  <2>1. k.current = j.current
    BY <1>1, <1>2, <1>9, CommitGoesOn DEF SameCall
  <2>2. IF j.todo \ {First(j.todo)} = {}
          THEN k.stage = next /\ k.todo = j.ready[j.current].events
          ELSE k.stage = j.stage /\ k.todo = j.todo \ {First(j.todo)}
    BY <1>1, <1>2, <1>9, CommitGoesOn DEF Current
  <2> QED
    BY <2>1, <2>2
<1>10. CASE WriteReplica(t)
  <2>1. j.stage = "writing" /\ EventDone(t, "invalidating")
    BY <1>1, <1>10 DEF WriteReplica
  <2>2. k.current = j.current /\ k.stage \in {"writing", "invalidating"}
    BY <1>9, <2>1 DEF Applying
  <2> QED
    BY <1>1, <1>2, <1>3, <2>1, <2>2 DEF Pending, Committing
<1>11. CASE Invalidate(t)
  <2>1. j.stage = "invalidating" /\ EventDone(t, "marking")
    BY <1>1, <1>11 DEF Invalidate
  <2>2. /\ k.current = j.current
        /\ \/ k.stage = "marking" /\ k.todo = j.ready[j.current].events
           \/ k.stage = "invalidating"
    BY <1>9, <2>1 DEF Applying
  <2> QED
    BY <1>1, <1>2, <1>3, <2>1, <2>2 DEF Pending, Committing
<1>12. CASE MarkCommitted(t)
  <2>1. j.stage = "marking" /\ EventDone(t, "counting")
    BY <1>1, <1>12 DEF MarkCommitted
  <2>2. /\ k.current = j.current
        /\ \/ k.stage = "counting" /\ j.todo \ {First(j.todo)} = {}
           \/ k.stage = "marking" /\ k.todo = j.todo \ {First(j.todo)}
    BY <1>9, <2>1 DEF Applying
  <2>3. e # First(j.todo)
    BY <1>1, <1>12
  <2> QED
    BY <1>1, <1>2, <1>3, <2>1, <2>2, <2>3 DEF Pending, Committing
<1>13. CASE CountCommit(t)
  <2>1. k.stage = "counted" /\ k.current = j.current /\ j.stage = "counting"
    BY <1>1, <1>2, <1>13, CommitGoesOn DEF CountCommit, SameCall
  <2> QED
    BY <1>1, <1>2, <1>3, <2>1 DEF Pending, Committing
<1>14. CASE CommitCounted(t) /\ job[t].current < Len(job[t].ready)
  <2>1. k.stage = "planning" /\ k.current = c + 1 /\ j.stage = "counted"
    BY <1>1, <1>2, <1>6, <1>14, CommitGoesOn DEF CommitCounted
  <2>2. PICK i \in 1..n : i > c /\ e \in j.ready[i].events
    BY <1>1, <1>5, <1>6, <2>1 DEF Pending
  <2>3. i = c + 1 \/ i > c + 1
    BY <2>2
  <2> QED
    BY <1>2, <1>3, <1>5, <2>1, <2>2, <2>3 DEF Pending, Committing
<1>15. CASE CommitCounted(t) /\ ~(job[t].current < Len(job[t].ready)) /\ job[t].close # FALSE
  <2>1. j.stage = "counted" /\ ~(c < n)
    BY <1>1, <1>5, <1>6, <1>15 DEF CommitCounted
  <2>2. ~(\E i \in 1..n : i > c)
    BY <2>1
  <2> QED
    BY <1>1, <1>5, <1>6, <2>1, <2>2 DEF Pending
<1> QED
  BY <1>7, <1>8, <1>10, <1>11, <1>12, <1>13, <1>14, <1>15 DEF CommitStep

(* A waiting event goes on waiting until it is marked as committed. *)
LEMMA WaitsOn ==
  ASSUME OneByOne, TypeInv, LogInv, ClientInv, [Next]_vars, ~disturbed',
         NEW s \in Subs, NEW e, Waits(s, e),
         \A t \in Threads : MarkCommitted(t) => e # First(job[t].todo)
  PROVE  Waits(s, e)'
<1>1. ~disturbed /\ ~Crash /\ \A t \in Threads : ~DatabaseFails(t)
  BY Undisturbed
<1>2. CASE UNCHANGED <<buffers, job>>
  BY <1>2 DEF Waits
<1>3. ASSUME NEW t \in Threads,
             \/ Handler(t)
             \/ \E x \in Subs : Fetch(t, x) \/ Close(t, x) \/ \E n \in Events : Deliver(t, x, n)
      PROVE  Waits(s, e)'
  <2>1. PICK j : j = job[t]
    OBVIOUS
  <2>2. PICK k : k = job'[t]
    OBVIOUS
  <2>3. \A u \in Threads : u = t
    BY DEF OneByOne
  <2>4. e \in Parked(buffers[s]) \/ (j.sub = s /\ Pending(j, e))
    BY <2>1, <2>3 DEF Waits
  <2>5. SUFFICES e \in Parked(buffers'[s]) \/ (k.sub = s /\ Pending(k, e))
    BY <2>2 DEF Waits
  <2>6. HeldCall(j) /\ FreshCall(j)
    BY <2>1 DEF ClientInv
  <2>7. CASE \E x \in Subs : Fetch(t, x) \/ Close(t, x) \/ \E n \in Events : Deliver(t, x, n)
    <3>1. j.stage = "idle" /\ buffers' = buffers
      BY <2>1, <2>7 DEF Fetch, Close, Deliver
    <3>2. ~Pending(j, e)
      BY <3>1 DEF Pending, Committing
    <3> QED
      BY <2>4, <3>1, <3>2
  <2>8. CASE LogEvent(t)
    <3>1. j.stage = "admitted" /\ buffers' = buffers
      BY <2>1, <2>8 DEF LogEvent
    <3>2. ~Pending(j, e)
      BY <3>1 DEF Pending, Committing
    <3> QED
      BY <2>4, <3>1, <3>2
  <2>9. CASE Accept(t)
    <3>1. j.stage = "logged" /\ j.sub \in Subs /\ j.event \in Events
      BY <2>1, <2>9, CallTypes DEF Accept, Fits, Delivering
    <3>2. PICK held \in Seq(Buffers) : held = buffers[j.sub]
      BY <3>1, RowTypes
    <3>3. buffers' = [buffers EXCEPT ![j.sub] = Accepted(held, j.event)]
      BY <2>1, <2>9, <3>2 DEF Accept
    <3>4. buffers \in [Subs -> Seq(Buffers)]
      BY DEF TypeInv, TypeOK
    <3>5. CASE s # j.sub
      BY <2>4, <3>3, <3>4, <3>5
    <3>6. CASE s = j.sub
      <4>1. FreshCall(k)'
        BY <2>2, FreshCalls DEF FreshCall, HeldCall
      <4>2. /\ k.sub = j.sub /\ k.current = j.current
            /\ \/ k.stage = "refusing"
               \/ k.stage = "parked" /\ k.ready = Completed(held, KeyOf(j.event))
        BY <2>1, <2>2, <2>9, <3>2, CallGoesOn DEF SameCall
      <4>3. k.stage = "parked" /\ k.ready = Completed(held, KeyOf(j.event)) /\ k.current = 0
        BY <2>6, <3>1, <4>1, <4>2 DEF FreshCall, HeldCall, Starting
      <4>4. e \in Parked(held) \cup {j.event}
        BY <2>4, <3>1, <3>2, <3>6 DEF Pending, Committing
      <4>5. CASE e \in Parked(Accepted(held, j.event))
        BY <3>1, <3>3, <3>4, <3>6, <4>5
      <4>6. CASE e \in Parked(k.ready)
        <5>1. k.ready \in Seq(Buffers)
          BY <3>1, <4>3, EventProperties, SplitProperties
        <5>2. PICK i \in DOMAIN k.ready : e \in k.ready[i].events
          BY <4>6 DEF Parked
        <5>3. i > 0
          BY <5>1, <5>2, LenProperties
        <5> QED
          BY <3>6, <4>2, <4>3, <5>2, <5>3 DEF Pending
      <4> QED
        BY <3>1, <4>3, <4>4, <4>5, <4>6, ParkedProperties
    <3> QED
      BY <3>5, <3>6
  <2>10. CASE Flush(t)
    <3>1. j.stage = "draining" /\ j.sub \in Subs
      BY <2>1, <2>10, CallTypes DEF Flush
    <3>2. ~Pending(j, e)
      BY <3>1 DEF Pending, Committing
    <3>3. PICK held \in Seq(Buffers) : held = buffers[s]
      BY RowTypes
    <3>4. e \in Parked(held)
      BY <2>4, <3>2, <3>3
    <3>5. buffers' = [buffers EXCEPT ![j.sub] = <<>>]
      BY <2>1, <2>10 DEF Flush
    <3>6. buffers \in [Subs -> Seq(Buffers)]
      BY DEF TypeInv, TypeOK
    <3>7. CASE s # j.sub
      BY <3>3, <3>4, <3>5, <3>6, <3>7
    <3>8. CASE s = j.sub
      <4>1. held # <<>>
        BY <3>4, ParkedNothing
      <4>2. k.stage = "ready" /\ k.ready = held /\ k.sub = s /\ k.current = j.current
        BY <2>1, <2>2, <2>10, <3>3, <3>8, <4>1, CallGoesOn DEF SameCall
      <4>3. k.current = 0
        BY <2>6, <3>1, <4>2 DEF HeldCall, Starting
      <4>4. PICK i \in DOMAIN held : e \in held[i].events
        BY <3>4 DEF Parked
      <4>5. i > 0
        BY <3>3, <4>4, LenProperties
      <4> QED
        BY <4>2, <4>3, <4>4, <4>5 DEF Pending
    <3> QED
      BY <3>7, <3>8
  <2>11. CASE CountDelivery(t) /\ job[t].ready # <<>>
    <3>1. /\ k.stage = "ready" /\ k.sub = j.sub /\ k.ready = j.ready /\ k.current = j.current
      BY <2>1, <2>2, <2>11, CallGoesOn DEF SameCall
    <3>2. j.stage = "parked" /\ buffers' = buffers
      BY <2>1, <2>11 DEF CountDelivery
    <3> QED
      BY <2>4, <3>1, <3>2 DEF Pending
  <2>12. CASE CloseRow(t)
    <3>1. j.stage = "closing" /\ buffers' = buffers
      BY <2>1, <2>12 DEF CloseRow
    <3>2. ~Pending(j, e)
      BY <3>1 DEF Pending, Committing
    <3> QED
      BY <2>4, <3>1, <3>2
  <2>13. CASE CommitStep(t)
    <3>1. k.sub = j.sub /\ buffers' = buffers
      BY <2>1, <2>2, <2>13, CommitSteps
    <3>2. Pending(j, e) => Pending(k, e)
      BY <2>1, <2>2, <2>13, PendingInCommit
    <3> QED
      BY <2>4, <3>1, <3>2
  <2>14. CASE EndStep(t)
    <3>1. Pending(j, e) => e \in Parked(j.ready) /\ (RefuseOrder(t) \/ RefusePlan(t))
      BY <1>1, <2>1, <2>14, PendingAtEnd
    <3>2. buffers \in [Subs -> Seq(Buffers)]
      BY DEF TypeInv, TypeOK
    <3>3. CASE RefuseOrder(t) \/ RefusePlan(t)
      <4>1. j.stage \in {"ready", "planning"} /\ j.sub \in Subs
        BY <2>1, <3>3, CallTypes DEF RefuseOrder, RefusePlan
      <4>2. PICK held \in Seq(Buffers) : held = buffers[j.sub]
        BY <4>1, RowTypes
      <4>3. buffers' = [buffers EXCEPT ![j.sub] = Restored(held, j.ready)]
        BY <2>1, <3>3, <4>2 DEF RefuseOrder, RefusePlan, Refuse
      <4>4. CASE s # j.sub
        BY <2>4, <3>2, <4>3, <4>4
      <4>5. CASE s = j.sub
        <5>1. j.ready \in Seq(Buffers)
          BY <2>1, CallTypes
        <5>2. OnePerKey(held) /\ OnePerKey(j.ready) /\ KeysOf(j.ready) \cap KeysOf(held) = {}
          BY <2>6, <4>1, <4>2 DEF ClientInv, HeldCall
        <5>3. Parked(Restored(held, j.ready)) = Parked(j.ready) \cup Parked(held)
          BY <5>1, <5>2, RestoredKeys
        <5>4. buffers'[s] = Restored(held, j.ready)
          BY <3>2, <4>3, <4>5
        <5> QED
          BY <2>4, <3>1, <4>2, <4>5, <5>3, <5>4
      <4> QED
        BY <4>4, <4>5
    <3>4. CASE Release(t)
      <4>1. j.stage = "releasing" /\ j.sub \in Subs
        BY <2>1, <3>4, CallTypes DEF Release
      <4>2. buffers[j.sub] = <<>>
        BY <2>6, <4>1 DEF HeldCall
      <4>3. buffers' = [buffers EXCEPT ![j.sub] = <<>>]
        BY <2>1, <3>4 DEF Release
      <4>4. buffers'[s] = buffers[s]
        BY <3>2, <4>2, <4>3
      <4>5. ~Pending(j, e)
        BY <4>1 DEF Pending, Committing
      <4> QED
        BY <2>4, <4>4, <4>5
    <3>5. CASE \/ \E n \in 1..MaxFetch : FetchUpdate(t, n)
               \/ RefuseDuplicate(t) \/ CountDelivery(t) \/ CommitCounted(t)
      <4>1. buffers' = buffers
        BY <3>5 DEF FetchUpdate, RefuseDuplicate, CountDelivery, CommitCounted
      <4>2. ~(RefuseOrder(t) \/ RefusePlan(t))
        BY <3>5 DEF FetchUpdate, RefuseDuplicate, CountDelivery, CommitCounted, RefuseOrder,
                    RefusePlan
      <4> QED
        BY <2>4, <3>1, <4>1, <4>2
    <3> QED
      BY <1>1, <2>14, <3>3, <3>4, <3>5 DEF EndStep
  <2> QED
    BY <1>3, <2>7, <2>8, <2>9, <2>10, <2>11, <2>12, <2>13, <2>14, StepsOfCall
<1>4. \A t, u \in Threads : u = t
  BY DEF OneByOne
<1> QED
  BY <1>1, <1>2, <1>3, Steps

LEMMA VanishNext ==
  ASSUME OneByOne, TypeInv, LogInv, ClientInv, VanishInv, [Next]_vars
  PROVE  VanishInv'
<1> SUFFICES ASSUME ~disturbed', NEW i \in DOMAIN change_log',
                    NEW s, s = change_log'[i].sub, NEW e, e = change_log'[i].event,
                    change_log'[i].state = "buffered"
             PROVE  Waits(s, e)'
  BY DEF VanishInv, Waits
<1>1. ~disturbed
  BY Undisturbed
<1>2. PICK n \in Nat : n = Len(change_log) /\ DOMAIN change_log = 1..n
  BY LogGrows
<1>3. CASE i \in 1..n
  <2>1. /\ change_log[i].sub = s /\ change_log[i].event = e
        /\ "buffered" \in {change_log[i].state, "committed"}
    BY <1>2, <1>3, LogGrows
  <2>2. change_log[i].state = "buffered"
    BY <2>1
  <2>3. Waits(s, e)
    BY <1>1, <1>2, <1>3, <2>1, <2>2 DEF VanishInv
  <2>4. s \in Subs
    <3>1. change_log \in Seq(Rows)
      BY DEF TypeInv, TypeOK
    <3>2. change_log[i] \in Rows
      BY <1>2, <1>3, <3>1, ElementOfSeq
    <3> QED
      BY <2>1, <3>2 DEF Rows
  <2>5. ASSUME NEW t \in Threads, MarkCommitted(t), e = First(job[t].todo) PROVE FALSE
    <3>1. change_log' = [x \in 1..n |->
            IF change_log[x].event = e THEN [change_log[x] EXCEPT !.state = "committed"]
            ELSE change_log[x]]
      BY <1>2, <2>5 DEF MarkCommitted
    <3>2. change_log'[i] = [change_log[i] EXCEPT !.state = "committed"]
      BY <1>3, <2>1, <3>1
    <3>3. change_log \in Seq(Rows)
      BY DEF TypeInv, TypeOK
    <3>4. change_log[i] \in Rows
      BY <1>2, <1>3, <3>3, ElementOfSeq
    <3> QED
      BY <3>2, <3>4 DEF Rows
  <2> QED
    BY <2>3, <2>4, <2>5, WaitsOn
<1>4. CASE i \notin 1..n
  <2>1. PICK t \in Threads : LogEvent(t)
    <3>1. ASSUME NEW t \in Threads, MarkCommitted(t) PROVE DOMAIN change_log' = DOMAIN change_log
      BY <3>1 DEF MarkCommitted
    <3> QED
      BY <1>2, <1>4, <3>1, Writers
  <2>2. job[t].stage = "admitted"
    BY <2>1 DEF LogEvent
  <2>3. PICK sub \in Subs : sub = job[t].sub
    BY <2>2, CallTypes
  <2>4. DOMAIN change_log' = 1..(n + 1)
        /\ change_log'[n + 1] = [sub |-> sub, event |-> job[t].event, state |-> "buffered"]
    BY <1>2, <2>1, <2>3, LogEventAdds
  <2>5. i = n + 1
    BY <1>4, <2>4
  <2>6. s = sub /\ e = job[t].event
    BY <2>4, <2>5
  <2>7. job'[t].stage = "logged" /\ job'[t].sub = sub /\ job'[t].event = e
    BY <2>1, <2>3, <2>6, CallGoesOn DEF SameCall
  <2> QED
    BY <2>6, <2>7 DEF Waits, Pending
<1> QED
  BY <1>3, <1>4

(* For a client that sends its requests one by one, over a transport that   *)
(* does not repeat events: while no write fails, an event logged as         *)
(* buffered is, between two requests, among the parked transactions, where  *)
(* a later close or delivery takes it up.  A transaction that fails to      *)
(* apply goes back as a whole (restore_front) and does not vanish.          *)
THEOREM VanishCorrect ==
  ASSUME OneByOne
  PROVE  Spec => []NothingVanishes
<1>1. Init => TypeInv /\ LogInv /\ ClientInv /\ VanishInv
  <2>1. Init => VanishInv
    BY DEF Init, VanishInv
  <2> QED
    BY <2>1, TypeInit, LogInit, ClientInit
<1>2. TypeInv /\ LogInv /\ ClientInv /\ VanishInv /\ [Next]_vars
        => (TypeInv /\ LogInv /\ ClientInv /\ VanishInv)'
  BY TypeNext, LogNext, ClientNext, VanishNext
<1>3. VanishInv => NothingVanishes
  BY DEF VanishInv, NothingVanishes, Waits, Pending, Quiet, Committing
<1> QED
  BY <1>1, <1>2, <1>3, PTL DEF Spec

-----------------------------------------------------------------------------
(* Nothing overtakes. *)

(* The events of a transaction follow one another in the stream. *)
Contiguous ==
  \A a, b, c \in Events : (a < b /\ b < c /\ KeyOf(a) = KeyOf(c)) => KeyOf(b) = KeyOf(a)

InOrder(held) ==
  \A i, k \in DOMAIN held : i < k => \A m \in held[i].events, n \in held[k].events : m < n

(* What is applied for the first time comes after what other transactions   *)
(* brought to the replica.                                                  *)
Younger(s, coming) ==
  \A p \in coming \ Applied(s), a \in Applied(s) : KeyOf(a) # KeyOf(p) => a < p

OrderCall(j) ==
  /\ InOrder(j.ready)
  /\ \A m \in Parked(j.ready), n \in Parked(buffers[j.sub]) : m < n
  /\ Younger(j.sub, Parked(j.ready))
  /\ j.stage \in {"admitted", "logged"} => \A a \in Applied(j.sub) : a < j.event
  /\ j.stage \in Committing =>
       \A i \in DOMAIN j.ready : i < j.current => j.ready[i].events \subseteq Applied(j.sub)
  /\ j.stage = "writing" => j.ready[j.current].events \ j.todo \subseteq Applied(j.sub)
  /\ j.stage \in {"invalidating", "marking", "counting", "counted"}
       => j.ready[j.current].events \subseteq Applied(j.sub)

OrderInv ==
  /\ \A s \in Subs : InOrder(buffers[s]) /\ Younger(s, Parked(buffers[s]))
  /\ \A t \in Threads : job[t].stage # "idle" => OrderCall(job[t])
  /\ NothingOvertakes

LEMMA NothingInOrder == InOrder(<<>>)
BY DEF InOrder

(* Where transactions do not interleave, a new event finds its own as the   *)
(* last one parked, or as none.                                             *)
LEMMA AcceptedInOrder ==
  ASSUME Contiguous, NEW held \in Seq(Buffers), NEW n \in Events,
         OnePerKey(held), InOrder(held), \A m \in Parked(held) : m < n
  PROVE  /\ InOrder(Accepted(held, n))
         /\ InOrder(Completed(held, KeyOf(n)))
         /\ \A m \in Parked(Completed(held, KeyOf(n))), x \in Parked(Accepted(held, n)) : m < x
<1> DEFINE a == Ahead(held, KeyOf(n))
           done == Completed(held, KeyOf(n))
           rest == Accepted(held, n)
<1>1. a \in Nat /\ Len(held) \in Nat /\ a <= Len(held) /\ DOMAIN held = 1..Len(held)
  BY AheadProperties, LenProperties
<1>2. /\ done \in Seq(Buffers) /\ Len(done) = a /\ \A i \in 1..a : done[i] = held[i]
  BY EventProperties, SplitProperties
<1>3. DOMAIN done = 1..a
  BY <1>2, LenProperties
<1>4. PICK size \in Nat : size = Len(held) /\ a <= size
  BY <1>1
<1>5. \A i \in 1..size : held[i] \in Buffers
  BY <1>4, ElementOfSeq
<1>6. \A i \in 1..size : held[i].events # {} /\ held[i].events \subseteq Events
  BY <1>5 DEF Buffers
<1>7. \A i \in 1..size : \A m \in held[i].events : m < n /\ m \in Nat
  BY <1>1, <1>4, <1>6, EventProperties DEF Parked
<1>8. \A i, k \in 1..size : i < k => \A m \in held[i].events, x \in held[k].events : m < x
  BY <1>1, <1>4 DEF InOrder
<1>9. InOrder(done)
  <2> HIDE DEF a, done
  <2>1. \A i \in 1..a : i \in 1..size
    BY <1>1, <1>4
  <2> QED
    BY <1>2, <1>3, <1>8, <2>1 DEF InOrder
<1>10. CASE a = size
  <2>1. PICK b : b = [key |-> KeyOf(n), events |-> {n}]
    OBVIOUS
  <2>2. rest = <<b>> /\ b.events = {n}
    BY <1>4, <1>10, <2>1, AcceptedProperties
  <2>3. DOMAIN rest = {1} /\ rest[1] = b
    BY <2>2
  <2> HIDE DEF a, done, rest
  <2>4. InOrder(rest)
    BY <2>3 DEF InOrder
  <2>5. ASSUME NEW m \in Parked(done), NEW x \in Parked(rest) PROVE m < x
    <3>1. x = n
      BY <2>2, <2>3 DEF Parked
    <3>2. PICK i \in 1..a : m \in done[i].events
      BY <1>3 DEF Parked
    <3> QED
      BY <1>2, <1>7, <1>10, <3>1, <3>2
  <2> QED
    BY <1>9, <2>4, <2>5 DEF done, rest
<1>11. CASE a < size
  <2>1. held[a + 1].key = KeyOf(n)
    BY <1>4, <1>11, EventProperties, AheadProperties
  <2>2. a + 1 \in 1..size /\ size \in 1..size
    BY <1>1, <1>4, <1>11
  <2>3. a + 1 = size
    <3>1. SUFFICES ASSUME a + 1 # size PROVE FALSE
      OBVIOUS
    <3>2. a + 1 < size
      BY <1>1, <1>4, <1>11, <3>1
    <3>3. PICK x \in held[a + 1].events : x \in Events
      BY <1>6, <2>2
    <3>4. PICK y \in held[size].events : y \in Events
      BY <1>6, <2>2
    <3>5. x < y /\ y < n
      BY <1>7, <1>8, <2>2, <3>2, <3>3, <3>4
    <3>6. KeyOf(x) = KeyOf(n) /\ KeyOf(y) = held[size].key
      BY <1>1, <1>4, <2>1, <2>2, <3>3, <3>4 DEF OnePerKey
    <3>7. KeyOf(y) = KeyOf(x)
      BY <3>3, <3>4, <3>5, <3>6 DEF Contiguous
    <3>8. a + 1 = size
      BY <1>1, <1>4, <2>1, <2>2, <3>6, <3>7 DEF OnePerKey
    <3> QED
      BY <3>1, <3>8
  <2>4. Len(rest) = 1 /\ rest[1].events = held[size].events \cup {n}
    <3>1. Len(rest) = Len(held) - a /\ rest[1].events = held[a + 1].events \cup {n}
      BY <1>4, <1>11, AcceptedProperties
    <3> QED
      BY <1>1, <1>4, <2>3, <3>1
  <2>5. DOMAIN rest = {1}
    <3>1. rest \in Seq(Buffers)
      BY AcceptedProperties
    <3> QED
      BY <2>4, <3>1, LenProperties
  <2> HIDE DEF a, done, rest
  <2>6. InOrder(rest)
    BY <2>5 DEF InOrder
  <2>7. ASSUME NEW m \in Parked(done), NEW x \in Parked(rest) PROVE m < x
    <3>1. x = n \/ x \in held[size].events
      BY <2>4, <2>5 DEF Parked
    <3>2. PICK i \in 1..a : m \in done[i].events
      BY <1>3 DEF Parked
    <3>3. i \in 1..size /\ i < size /\ m \in held[i].events
      BY <1>1, <1>2, <1>4, <1>11, <3>2
    <3> QED
      BY <1>7, <1>8, <2>2, <3>1, <3>3
  <2> QED
    BY <1>9, <2>6, <2>7 DEF done, rest
<1> QED
  BY <1>1, <1>4, <1>10, <1>11

LEMMA RestoredInOrder ==
  ASSUME NEW held \in Seq(Buffers), NEW ready \in Seq(Buffers), InOrder(held), InOrder(ready),
         \A m \in Parked(ready), n \in Parked(held) : m < n
  PROVE  InOrder(ready \o held)
<1>1. PICK a \in Nat : a = Len(ready) /\ DOMAIN ready = 1..a
  BY LenProperties
<1>2. PICK b \in Nat : b = Len(held) /\ DOMAIN held = 1..b
  BY LenProperties
<1>3. PICK all : all = ready \o held
  OBVIOUS
<1>4. /\ all \in Seq(Buffers) /\ Len(all) = a + b
      /\ \A i \in 1..(a + b) : all[i] = IF i <= a THEN ready[i] ELSE held[i - a]
  BY <1>1, <1>2, <1>3, ConcatProperties
<1>5. DOMAIN all = 1..(a + b)
  BY <1>4, LenProperties
<1>6. ASSUME NEW i \in 1..(a + b)
      PROVE  \/ i \in 1..a /\ all[i] = ready[i]
             \/ i - a \in 1..b /\ ~(i <= a) /\ all[i] = held[i - a]
  BY <1>4
<1>7. /\ \A i \in 1..a : ready[i].events \subseteq Parked(ready)
      /\ \A i \in 1..b : held[i].events \subseteq Parked(held)
  BY <1>1, <1>2 DEF Parked
<1>8. ASSUME NEW i \in 1..(a + b), NEW k \in 1..(a + b), i < k,
             NEW m \in all[i].events, NEW n \in all[k].events
      PROVE  m < n
  <2>1. CASE i \in 1..a /\ all[i] = ready[i] /\ k \in 1..a /\ all[k] = ready[k]
    BY <1>1, <1>8, <2>1 DEF InOrder
  <2>2. CASE i \in 1..a /\ all[i] = ready[i] /\ k - a \in 1..b /\ all[k] = held[k - a]
    BY <1>7, <1>8, <2>2
  <2>3. CASE /\ i - a \in 1..b /\ all[i] = held[i - a]
             /\ k - a \in 1..b /\ all[k] = held[k - a]
    <3>1. i - a < k - a
      BY <1>8
    <3> QED
      BY <1>2, <1>8, <2>3, <3>1 DEF InOrder
  <2>4. ~(k <= a) => ~(k \in 1..a)
    OBVIOUS
  <2>5. ~(i <= a) => ~(k \in 1..a)
    BY <1>8
  <2> QED
    BY <1>6, <2>1, <2>2, <2>3, <2>5
<1> QED
  BY <1>3, <1>5, <1>8 DEF InOrder

LEMMA AppliedStays ==
  ASSUME replica_writes' = replica_writes
  PROVE  \A s : Applied(s)' = Applied(s)
BY DEF Applied, WritesOf

(* Only WriteReplica writes to a replica. *)
LEMMA OnlyWriteReplica ==
  ASSUME OneByOne, [Next]_vars, NEW t \in Threads, ~WriteReplica(t)
  PROVE  replica_writes' = replica_writes
BY Writers DEF OneByOne

(* A call that goes on with the same transactions after the same writes. *)
LEMMA OrderCarries ==
  ASSUME replica_writes' = replica_writes, NEW j, NEW k, OrderCall(j),
         k.sub = j.sub, k.ready = j.ready, buffers'[j.sub] = buffers[j.sub],
         k.stage \in {"admitted", "logged"} => \A a \in Applied(j.sub) : a < k.event,
         k.stage \in Committing =>
           \A i \in DOMAIN j.ready : i < k.current => j.ready[i].events \subseteq Applied(j.sub),
         k.stage = "writing" => j.ready[k.current].events \ k.todo \subseteq Applied(j.sub),
         k.stage \in {"invalidating", "marking", "counting", "counted"}
           => j.ready[k.current].events \subseteq Applied(j.sub)
  PROVE  OrderCall(k)'
<1>1. Applied(j.sub)' = Applied(j.sub)
  BY AppliedStays
<1>2. InOrder(k.ready)' /\ Younger(k.sub, Parked(k.ready))'
  BY <1>1 DEF OrderCall, InOrder, Younger, Parked, KeyOf
<1> QED
  BY <1>1, <1>2 DEF OrderCall

(* A replica write by a commit. *)
LEMMA OrderWrites ==
  ASSUME OneByOne, TypeInv, LogInv, ClientInv, OrderInv, [Next]_vars,
         NEW t \in Threads, WriteReplica(t), NEW s \in Subs, s = job[t].sub,
         NEW first, first = First(job[t].todo)
  PROVE  /\ first \in Parked(job[t].ready)
         /\ Applied(s)' = Applied(s) \cup {first}
         /\ Younger(s, Parked(buffers[s]))'
         /\ OrderCall(job[t])'
<1>1. PICK j : j = job[t]
  OBVIOUS
<1>2. PICK k : k = job'[t]
  OBVIOUS
<1>3. PICK e : e = First(j.todo)
  OBVIOUS
<1>4. j.stage = "writing" /\ EventDone(t, "invalidating") /\ buffers' = buffers
  BY <1>1 DEF WriteReplica
<1>5. e \in j.todo
  BY <1>1, <1>3, <1>4, EventDoneCall DEF Applying
<1>6. PICK c \in DOMAIN j.ready : c = j.current /\ j.todo \subseteq j.ready[c].events
  BY <1>1, <1>4, CallTypes DEF Fits, Applying, Committing
<1>7. e \in Parked(j.ready)
  BY <1>5, <1>6 DEF Parked
<1>8. Applied(s)' = Applied(s) \cup {e}
  BY <1>1, <1>3, WriteReplicaWrites
<1>9. OrderCall(j) /\ HeldCall(j)
  BY <1>1, <1>4 DEF OrderInv, ClientInv
<1>10. PICK n \in Nat : DOMAIN j.ready = 1..n
  BY <1>1, CallTypes, LenProperties
<1>11. ASSUME NEW p \in Parked(j.ready), p \notin Applied(s), KeyOf(e) # KeyOf(p)
       PROVE  e < p
  <2>1. PICK i \in DOMAIN j.ready : p \in j.ready[i].events
    BY DEF Parked
  <2>2. ~(i < c)
    BY <1>1, <1>4, <1>6, <1>9, <1>11, <2>1 DEF OrderCall, Committing
  <2>3. i # c
    <3>1. KeyOf(e) = j.ready[c].key /\ (i = c => KeyOf(p) = j.ready[c].key)
      BY <1>5, <1>6, <1>9, <2>1 DEF HeldCall, OnePerKey
    <3> QED
      BY <1>11, <3>1
  <2>4. c < i
    BY <1>10, <2>2, <2>3
  <2> QED
    BY <1>5, <1>6, <1>9, <2>1, <2>4 DEF OrderCall, InOrder
<1>12. ASSUME NEW p \in Parked(j.ready), p \notin Applied(s)', NEW a \in Applied(s)',
              KeyOf(a) # KeyOf(p)
       PROVE  a < p
  <2>1. p \notin Applied(s) /\ (a \in Applied(s) \/ a = e)
    BY <1>8, <1>12
  <2>2. Younger(s, Parked(j.ready))
    BY <1>1, <1>9 DEF OrderCall
  <2> QED
    BY <1>11, <1>12, <2>1, <2>2 DEF Younger
<1>13. ASSUME NEW p \in Parked(buffers[s]), p \notin Applied(s)', NEW a \in Applied(s)',
              KeyOf(a) # KeyOf(p)
       PROVE  a < p
  <2>1. p \notin Applied(s) /\ (a \in Applied(s) \/ a = e)
    BY <1>8, <1>13
  <2>2. Younger(s, Parked(buffers[s])) /\ e < p
    BY <1>1, <1>7, <1>9 DEF OrderCall, OrderInv
  <2> QED
    BY <1>13, <2>1, <2>2 DEF Younger
<1>14. Younger(s, Parked(j.ready))'
  BY <1>12 DEF Younger, KeyOf, Parked
<1>15. Younger(s, Parked(buffers[s]))'
  BY <1>4, <1>13 DEF Younger, KeyOf, Parked
<1>16. /\ k.sub = s /\ k.ready = j.ready /\ k.current = c
       /\ \/ /\ k.stage = "invalidating" /\ j.todo \ {e} = {}
          \/ k.stage = "writing" /\ k.todo = j.todo \ {e}
  <2>1. k.sub = j.sub /\ k.ready = j.ready /\ k.current = j.current
    BY <1>1, <1>2, <1>4, CommitGoesOn DEF SameCall, Applying
  <2>2. IF j.todo \ {e} = {}
          THEN k.stage = "invalidating" /\ k.todo = j.ready[j.current].events
          ELSE k.stage = j.stage /\ k.todo = j.todo \ {e}
    BY <1>1, <1>2, <1>3, <1>4, CommitGoesOn DEF Applying, Current
  <2> QED
    BY <1>1, <1>4, <1>6, <2>1, <2>2
<1>17. /\ \A i \in DOMAIN j.ready : i < c => j.ready[i].events \subseteq Applied(s)
       /\ j.ready[c].events \ j.todo \subseteq Applied(s)
  BY <1>1, <1>4, <1>6, <1>9 DEF OrderCall, Committing
<1>18. OrderCall(k)'
  <2>1. \A i \in DOMAIN j.ready : i < c => j.ready[i].events \subseteq Applied(s)'
    BY <1>8, <1>17
  <2>2. j.ready[c].events \ (j.todo \ {e}) \subseteq Applied(s)'
    BY <1>8, <1>17
  <2>3. InOrder(k.ready)' /\ \A m \in Parked(k.ready)', p \in Parked(buffers[k.sub])' : m < p
    BY <1>1, <1>4, <1>9, <1>16 DEF OrderCall, InOrder, Parked
  <2>4. Younger(k.sub, Parked(k.ready))'
    BY <1>14, <1>16 DEF Parked, Younger
  <2> QED
    BY <1>16, <2>1, <2>2, <2>3, <2>4 DEF OrderCall
<1>19. OrderCall(job[t])'
  BY <1>2, <1>18 DEF OrderCall
<1> QED
  BY <1>1, <1>3, <1>7, <1>8, <1>15, <1>19

LEMMA OrderCalls ==
  ASSUME OneByOne, Contiguous, TypeInv, LogInv, ClientInv, OrderInv, [Next]_vars,
         NEW t \in Threads, job'[t].stage # "idle"
  PROVE  OrderCall(job[t])'
<1>1. PICK j : j = job[t]
  OBVIOUS
<1>2. PICK k : k = job'[t]
  OBVIOUS
<1>3. SUFFICES OrderCall(k)'
  BY <1>2 DEF OrderCall
<1>4. j.stage # "idle" => j.sub \in Subs /\ OrderCall(j)
  BY <1>1, CallTypes DEF OrderInv
<1>5. HeldCall(j) /\ FreshCall(j)
  BY <1>1 DEF ClientInv
<1>6. k.stage # "idle" /\ k # IdleJob
  BY <1>2, IdleFields
<1>7. PICK c \in Nat : c = j.current
  BY <1>1, CallTypes
<1>8. PICK n \in Nat : n = Len(j.ready) /\ DOMAIN j.ready = 1..n
  BY <1>1, CallTypes, LenProperties
<1>9. CASE UNCHANGED <<replica_writes, buffers, job>>
  <2>1. k = j
    BY <1>1, <1>2, <1>9
  <2> QED
    BY <1>4, <1>6, <1>9, <2>1, OrderCarries DEF OrderCall
<1>10. CASE WriteReplica(t)
  <2>1. PICK s \in Subs : s = job[t].sub
    BY <1>1, <1>4, <1>10 DEF WriteReplica
  <2>2. OrderCall(job[t])'
    BY <1>10, <2>1, OrderWrites
  <2> QED
    BY <1>2, <2>2 DEF OrderCall
<1>11. CASE ~WriteReplica(t)
  <2>1. replica_writes' = replica_writes
    BY <1>11, OnlyWriteReplica
  <2>2. CASE \E s \in Subs : Fetch(t, s) \/ Close(t, s) \/ \E m \in Events : Deliver(t, s, m)
    <3>1. PICK s \in Subs : Fetch(t, s) \/ Close(t, s) \/ \E m \in Events : Deliver(t, s, m)
      BY <2>2
    <3>2. k.sub = s /\ k.ready = <<>> /\ k.stage \in {"fetching", "draining", "admitted"}
      BY <1>2, <3>1, CallBegins
    <3>3. k.stage = "admitted" => \A a \in Applied(s) : a < k.event
      <4>1. CASE \E m \in Events : Deliver(t, s, m)
        <5>1. PICK m \in Events : Deliver(t, s, m)
          BY <4>1
        <5>2. k.event = m
          BY <1>2, <5>1, CallBegins
        <5>3. \A a \in Logged(s) : a < m
          BY <5>1 DEF Deliver, MayArrive, OneByOne, Logged
        <5> QED
          BY <5>2, <5>3 DEF LogInv, AppliedIsLogged
      <4>2. CASE Fetch(t, s) \/ Close(t, s)
        BY <1>2, <4>2, CallBegins
      <4> QED
        BY <3>1, <4>1, <4>2
    <3>4. Applied(s)' = Applied(s)
      BY <2>1, AppliedStays
    <3> QED
      BY <3>2, <3>3, <3>4, NothingInOrder, ParkedNothing DEF OrderCall, Younger, Committing
  <2>3. CASE LogEvent(t)
    <3>1. k.stage = "logged" /\ k.sub = j.sub /\ k.event = j.event /\ k.ready = j.ready
      BY <1>1, <1>2, <2>3, CallGoesOn DEF SameCall
    <3>2. j.stage = "admitted" /\ buffers' = buffers
      BY <1>1, <2>3 DEF LogEvent
    <3>3. \A a \in Applied(j.sub) : a < k.event
      BY <1>4, <3>1, <3>2 DEF OrderCall
    <3> QED
      BY <1>4, <2>1, <3>1, <3>2, <3>3, OrderCarries DEF Committing
  <2>4. CASE Accept(t)
    <3>1. j.stage = "logged" /\ j.sub \in Subs /\ j.event \in Events
      BY <1>1, <2>4, CallTypes DEF Accept, Fits, Delivering
    <3>2. PICK held \in Seq(Buffers) : held = buffers[j.sub]
      BY <3>1, RowTypes
    <3>3. buffers'[j.sub] = Accepted(held, j.event)
      <4>1. buffers' = [buffers EXCEPT ![j.sub] = Accepted(held, j.event)]
        BY <1>1, <2>4, <3>2 DEF Accept
      <4>2. buffers \in [Subs -> Seq(Buffers)]
        BY DEF TypeInv, TypeOK
      <4> QED
        BY <3>1, <4>1, <4>2
    <3>4. OnePerKey(held) /\ InOrder(held) /\ Younger(j.sub, Parked(held))
          /\ \A m \in Parked(held) : m < j.event
      BY <1>5, <3>1, <3>2 DEF ClientInv, OrderInv, FreshCall
    <3>5. k.sub = j.sub /\ k.stage \in {"parked", "refusing"}
          /\ (k.ready = <<>> \/ k.ready = Completed(held, KeyOf(j.event)))
      BY <1>1, <1>2, <2>4, <3>2, CallGoesOn DEF SameCall
    <3>6. /\ InOrder(k.ready)
          /\ \A m \in Parked(k.ready), x \in Parked(Accepted(held, j.event)) : m < x
      BY <3>1, <3>4, <3>5, AcceptedInOrder, NothingInOrder, ParkedNothing
    <3>7. Parked(k.ready) \subseteq Parked(held) \cup {j.event}
      BY <3>1, <3>5, ParkedProperties, ParkedNothing
    <3>8. \A a \in Applied(j.sub) : a < j.event
      BY <1>4, <3>1 DEF OrderCall
    <3>9. Applied(j.sub)' = Applied(j.sub)
      BY <2>1, AppliedStays
    <3>10. \A p \in Parked(k.ready) \ Applied(j.sub), a \in Applied(j.sub) :
             KeyOf(a) # KeyOf(p) => a < p
      BY <3>4, <3>7, <3>8 DEF Younger
    <3>11. Younger(k.sub, Parked(k.ready))'
      BY <3>5, <3>9, <3>10 DEF Younger, Parked, KeyOf
    <3> QED
      BY <3>3, <3>5, <3>6, <3>11 DEF OrderCall, InOrder, Parked, Committing
  <2>5. CASE Flush(t)
    <3>1. j.stage = "draining" /\ j.sub \in Subs
      BY <1>1, <2>5, CallTypes DEF Flush
    <3>2. k.sub = j.sub /\ k.ready = buffers[j.sub] /\ k.stage \in {"closing", "ready"}
      BY <1>1, <1>2, <2>5, CallGoesOn DEF SameCall
    <3>3. buffers'[j.sub] = <<>>
      BY <1>1, <2>5, <3>1 DEF Flush, TypeInv, TypeOK
    <3>4. InOrder(k.ready) /\ Younger(j.sub, Parked(k.ready))
      BY <3>1, <3>2 DEF OrderInv
    <3>5. Applied(j.sub)' = Applied(j.sub)
      BY <2>1, AppliedStays
    <3>6. InOrder(k.ready)' /\ Younger(k.sub, Parked(k.ready))'
      BY <3>2, <3>4, <3>5 DEF InOrder, Younger, Parked, KeyOf
    <3> QED
      BY <3>2, <3>3, <3>6, ParkedNothing DEF OrderCall, Committing
  <2>6. CASE CloseRow(t) \/ (CountDelivery(t) /\ job[t].ready # <<>>)
    <3>1. k.sub = j.sub /\ k.ready = j.ready /\ k.stage \in {"releasing", "ready"}
      BY <1>1, <1>2, <2>6, CallGoesOn DEF SameCall
    <3>2. j.stage # "idle" /\ buffers' = buffers
      BY <1>1, <2>6 DEF CloseRow, CountDelivery
    <3> QED
      BY <1>4, <2>1, <3>1, <3>2, OrderCarries DEF Committing
  <2>7. CASE CommitStep(t)
    <3>1. /\ k.sub = j.sub /\ k.ready = j.ready /\ buffers' = buffers
          /\ j.stage \in Committing \cup {"ready"} /\ k.stage \in Committing \cup {"closing"}
      BY <1>1, <1>2, <2>7, CommitSteps
    <3>2. j.stage # "idle" /\ OrderCall(j)
      BY <1>4, <3>1 DEF Committing
    <3>3. ASSUME k.stage \in Committing =>
                   \A i \in DOMAIN j.ready :
                     i < k.current => j.ready[i].events \subseteq Applied(j.sub),
                 k.stage = "writing" => j.ready[k.current].events \ k.todo \subseteq Applied(j.sub),
                 k.stage \in {"invalidating", "marking", "counting", "counted"}
                   => j.ready[k.current].events \subseteq Applied(j.sub)
          PROVE  OrderCall(k)'
      BY <2>1, <3>1, <3>2, <3>3, OrderCarries DEF Committing
    <3>4. CASE CommitMany(t)
      <4>1. k.stage = "planning" /\ k.current = 1
        BY <1>2, <3>4, CommitGoesOn
      <4>2. \A i \in 1..n : ~(i < 1)
        OBVIOUS
      <4> QED
        BY <1>8, <3>3, <4>1, <4>2
    <3>5. CASE Plan(t)
      <4>1. /\ k.stage = "writing" /\ k.current = j.current /\ j.stage = "planning"
            /\ k.todo = j.ready[j.current].events
        BY <1>1, <1>2, <3>5, CommitGoesOn DEF SameCall, Plan, Current
      <4>2. \A i \in DOMAIN j.ready : i < k.current => j.ready[i].events \subseteq Applied(j.sub)
        BY <3>2, <4>1 DEF OrderCall, Committing
      <4> QED
        BY <3>3, <4>1, <4>2
    <3>6. CASE Invalidate(t) \/ MarkCommitted(t)
      <4>1. PICK next \in {"invalidating", "marking", "counting"} :
              /\ job[t].stage \in {"invalidating", "marking"} /\ EventDone(t, next)
              /\ next \in {"marking", "counting"}
        BY <3>6 DEF Invalidate, MarkCommitted
      <4>2. k.current = j.current /\ k.stage \in {"invalidating", "marking", "counting"}
        BY <1>1, <1>2, <4>1, CommitGoesOn DEF SameCall, Applying
      <4>3. /\ \A i \in DOMAIN j.ready : i < k.current => j.ready[i].events \subseteq Applied(j.sub)
            /\ j.ready[k.current].events \subseteq Applied(j.sub)
        BY <1>1, <3>2, <4>1, <4>2 DEF OrderCall, Committing
      <4> QED
        BY <3>3, <4>2, <4>3
    <3>7. CASE CountCommit(t)
      <4>1. k.stage = "counted" /\ k.current = j.current /\ j.stage = "counting"
        BY <1>1, <1>2, <3>7, CommitGoesOn DEF SameCall, CountCommit
      <4>2. /\ \A i \in DOMAIN j.ready : i < k.current => j.ready[i].events \subseteq Applied(j.sub)
            /\ j.ready[k.current].events \subseteq Applied(j.sub)
        BY <3>2, <4>1 DEF OrderCall, Committing
      <4> QED
        BY <3>3, <4>1, <4>2
    <3>8. CASE CommitCounted(t) /\ job[t].current < Len(job[t].ready)
      <4>1. k.stage = "planning" /\ k.current = c + 1 /\ j.stage = "counted"
        BY <1>1, <1>2, <1>7, <3>8, CommitGoesOn DEF CommitCounted
      <4>2. /\ \A i \in DOMAIN j.ready : i < c => j.ready[i].events \subseteq Applied(j.sub)
            /\ j.ready[c].events \subseteq Applied(j.sub)
        BY <1>7, <3>2, <4>1 DEF OrderCall, Committing
      <4>3. \A i \in 1..n : i < c + 1 => i < c \/ i = c
        OBVIOUS
      <4>4. \A i \in DOMAIN j.ready : i < k.current => j.ready[i].events \subseteq Applied(j.sub)
        BY <1>8, <4>1, <4>2, <4>3
      <4> QED
        BY <3>3, <4>1, <4>4
    <3>9. CASE CommitCounted(t) /\ ~(job[t].current < Len(job[t].ready)) /\ job[t].close # FALSE
      <4>1. k.stage = "closing"
        BY <1>2, <3>9, CommitGoesOn
      <4> QED
        BY <3>3, <4>1 DEF Committing
    <3> QED
      BY <1>11, <2>7, <3>4, <3>5, <3>6, <3>7, <3>8, <3>9 DEF CommitStep
  <2>8. CASE EndStep(t)
    BY <1>2, <1>6, <2>8, EndSteps
  <2>9. CASE Crash
    BY <1>2, <1>6, <2>9 DEF Crash
  <2>10. CASE DatabaseFails(t) \/ Handler(t)
    BY <2>3, <2>4, <2>5, <2>6, <2>7, <2>8, <2>10, StepsOfCall
  <2>11. \A u \in Threads : u = t
    BY DEF OneByOne
  <2> QED
    BY <1>9, <2>2, <2>9, <2>10, <2>11, Steps
<1> QED
  BY <1>10, <1>11

LEMMA OrderBuffers ==
  ASSUME OneByOne, Contiguous, TypeInv, LogInv, ClientInv, OrderInv, [Next]_vars, NEW s \in Subs
  PROVE  InOrder(buffers[s])' /\ Younger(s, Parked(buffers[s]))'
<1>1. PICK held \in Seq(Buffers) : held = buffers[s]
  BY RowTypes
<1>2. PICK next : next = buffers'[s]
  OBVIOUS
<1>3. OnePerKey(held) /\ InOrder(held) /\ Younger(s, Parked(held))
  BY <1>1 DEF ClientInv, OrderInv
<1>4. SUFFICES InOrder(next) /\ \A p \in Parked(next) \ Applied(s)', a \in Applied(s)' :
                                  KeyOf(a) # KeyOf(p) => a < p
  BY <1>2 DEF InOrder, Younger, Parked, KeyOf
<1>5. ASSUME replica_writes' = replica_writes, InOrder(next), Younger(s, Parked(next))
      PROVE  InOrder(next) /\ \A p \in Parked(next) \ Applied(s)', a \in Applied(s)' :
                                KeyOf(a) # KeyOf(p) => a < p
  BY <1>5, AppliedStays DEF Younger
<1>6. CASE next = held
  <2>1. CASE replica_writes' = replica_writes
    BY <1>3, <1>5, <1>6, <2>1
  <2>2. ASSUME NEW t \in Threads, WriteReplica(t), job[t].sub = s
        PROVE  Younger(s, Parked(buffers[s]))'
    BY <2>2, OrderWrites
  <2>3. ASSUME NEW t \in Threads, WriteReplica(t), job[t].sub # s
        PROVE  Applied(s)' = Applied(s)
    <3>1. PICK sub \in Subs : sub = job[t].sub
      BY <2>3, CallTypes DEF WriteReplica
    <3> QED
      BY <2>3, <3>1, WriteReplicaWrites
  <2>4. ASSUME NEW t \in Threads, WriteReplica(t)
        PROVE  \A p \in Parked(next) \ Applied(s)', a \in Applied(s)' : KeyOf(a) # KeyOf(p) => a < p
    <3>1. CASE job[t].sub = s
      BY <1>2, <2>2, <2>4, <3>1 DEF Younger, Parked, KeyOf
    <3>2. CASE job[t].sub # s
      BY <1>3, <1>6, <2>3, <2>4, <3>2 DEF Younger
    <3> QED
      BY <3>1, <3>2
  <2> QED
    BY <1>3, <1>6, <2>1, <2>4, Writers
<1>7. CASE next = <<>>
  BY <1>7, NothingInOrder, ParkedNothing
<1>8. ASSUME NEW t \in Threads, Accept(t), job[t].sub = s, next = Accepted(held, job[t].event)
      PROVE  InOrder(next) /\ \A p \in Parked(next) \ Applied(s)', a \in Applied(s)' :
                                KeyOf(a) # KeyOf(p) => a < p
  <2>1. PICK e \in Events : e = job[t].event /\ job[t].stage = "logged"
    BY <1>8, CallTypes DEF Accept, Fits, Delivering
  <2>2. /\ \A m \in Parked(held) : m < e
        /\ \A a \in Applied(s) : a < e
    BY <1>1, <1>8, <2>1 DEF ClientInv, FreshCall, OrderInv, OrderCall
  <2>3. InOrder(next)
    BY <1>3, <1>8, <2>1, <2>2, AcceptedInOrder
  <2>4. Parked(next) \subseteq Parked(held) \cup {e}
    BY <1>8, <2>1, ParkedProperties
  <2>5. Younger(s, Parked(next))
    BY <1>3, <2>2, <2>4 DEF Younger
  <2>6. replica_writes' = replica_writes
    BY <1>8 DEF Accept, stored
  <2> QED
    BY <1>5, <2>3, <2>5, <2>6
<1>9. ASSUME NEW t \in Threads, RefuseOrder(t) \/ RefusePlan(t), job[t].sub = s,
             next = Restored(held, job[t].ready)
      PROVE  InOrder(next) /\ \A p \in Parked(next) \ Applied(s)', a \in Applied(s)' :
                                KeyOf(a) # KeyOf(p) => a < p
  <2>1. PICK ready \in Seq(Buffers) : ready = job[t].ready
    BY CallTypes
  <2>2. job[t].stage # "idle" /\ replica_writes' = replica_writes
    BY <1>9 DEF RefuseOrder, RefusePlan, Refuse, stored
  <2>3. /\ OnePerKey(ready) /\ KeysOf(ready) \cap KeysOf(held) = {}
        /\ InOrder(ready) /\ Younger(s, Parked(ready))
        /\ \A m \in Parked(ready), n \in Parked(held) : m < n
    BY <1>1, <1>9, <2>1, <2>2 DEF ClientInv, HeldCall, OrderInv, OrderCall
  <2>4. next = ready \o held /\ Parked(next) = Parked(ready) \cup Parked(held)
    BY <1>3, <1>9, <2>1, <2>3, RestoredKeys
  <2>5. InOrder(next)
    BY <1>3, <2>3, <2>4, RestoredInOrder
  <2>6. Younger(s, Parked(next))
    BY <1>3, <2>3, <2>4 DEF Younger
  <2> QED
    BY <1>5, <2>2, <2>5, <2>6
<1>10. CASE \E t \in Threads : /\ Accept(t) /\ job[t].sub = s
                              /\ next = Accepted(held, job[t].event)
  BY <1>8, <1>10
<1>11. CASE \E t \in Threads : /\ RefuseOrder(t) \/ RefusePlan(t)
                              /\ job[t].sub = s
                              /\ next = Restored(held, job[t].ready)
  BY <1>9, <1>11
<1> QED
  BY <1>1, <1>2, <1>6, <1>7, <1>10, <1>11, BufferCases

(* The event a commit writes: new to the replica only if the replica has    *)
(* nothing younger from other transactions.                                 *)
LEMMA OvertakesNext ==
  ASSUME OneByOne, TypeInv, LogInv, ClientInv, OrderInv, [Next]_vars
  PROVE  NothingOvertakes'
<1>1. CASE replica_writes' = replica_writes
  BY <1>1 DEF OrderInv, NothingOvertakes, KeyOf
<1>2. ASSUME NEW t \in Threads, WriteReplica(t) PROVE NothingOvertakes'
  <2>1. PICK s \in Subs : s = job[t].sub
    BY <1>2, CallTypes DEF WriteReplica
  <2>2. PICK e : e = First(job[t].todo)
    OBVIOUS
  <2>3. PICK room : room = RoomOf[s]
    OBVIOUS
  <2>4. PICK w : w = [sub |-> s, event |-> e]
    OBVIOUS
  <2>5. PICK n \in Nat :
          /\ DOMAIN replica_writes[room] = 1..n /\ DOMAIN replica_writes'[room] = 1..(n + 1)
          /\ \A i \in 1..n : replica_writes'[room][i] = replica_writes[room][i]
          /\ replica_writes'[room][n + 1] = w
          /\ \A q \in Rooms \ {room} : replica_writes'[q] = replica_writes[q]
    BY <1>2, <2>1, <2>2, <2>3, <2>4, WriteReplicaAdds
  <2>6. w.sub = s /\ w.event = e
    BY <2>4
  <2>7. e \in Parked(job[t].ready)
    BY <1>2, <2>1, <2>2, OrderWrites
  <2>8. Younger(s, Parked(job[t].ready))
    BY <1>2, <2>1 DEF WriteReplica, OrderInv, OrderCall
  <2>9. \A i \in 1..n :
           replica_writes[room][i].sub = s => replica_writes[room][i].event \in Applied(s)
    BY <2>3, <2>5 DEF Applied, WritesOf
  <2>10. ASSUME \A k \in 1..n : replica_writes[room][k] # w
         PROVE  e \notin Applied(s)
    <3>1. SUFFICES ASSUME NEW v \in WritesOf(room), v.sub = s, v.event = e PROVE FALSE
      BY <2>3 DEF Applied
    <3>2. PICK k \in 1..n : v = replica_writes[room][k]
      BY <2>5 DEF WritesOf
    <3>3. room \in Rooms
      BY <2>3, RowTypes
    <3>4. replica_writes[room] \in Seq(Writes)
      BY <3>3 DEF TypeInv, TypeOK
    <3>5. v \in Writes
      BY <2>5, <3>2, <3>4, ElementOfSeq, LenProperties
    <3>6. v = w
      BY <2>4, <3>1, <3>5 DEF Writes
    <3> QED
      BY <2>10, <3>2, <3>6
  <2>11. SUFFICES ASSUME NEW r \in Rooms, NEW k \in DOMAIN replica_writes'[r], NEW i \in 1..(k - 1),
                         replica_writes'[r][i].sub = replica_writes'[r][k].sub,
                         KeyOf(replica_writes'[r][i].event) # KeyOf(replica_writes'[r][k].event),
                         \A x \in 1..(k - 1) : replica_writes'[r][x] # replica_writes'[r][k]
                  PROVE  replica_writes'[r][i].event < replica_writes'[r][k].event
    BY DEF NothingOvertakes, KeyOf
  <2>12. NothingOvertakes
    BY DEF OrderInv
  <2>13. CASE r # room
    <3>1. replica_writes'[r] = replica_writes[r]
      BY <2>5, <2>13
    <3> QED
      BY <2>11, <2>12, <3>1 DEF NothingOvertakes
  <2>14. CASE r = room /\ k \in 1..n
    <3>1. \A x \in 1..k : x \in 1..n /\ replica_writes'[r][x] = replica_writes[r][x]
      BY <2>5, <2>14
    <3>2. i \in 1..k /\ k \in 1..k /\ 1..(k - 1) \subseteq 1..k
      BY <2>14
    <3>3. /\ k \in DOMAIN replica_writes[r]
          /\ replica_writes'[r][k] = replica_writes[r][k]
          /\ replica_writes'[r][i] = replica_writes[r][i]
      BY <2>5, <2>14, <3>1, <3>2
    <3>4. \A x \in 1..(k - 1) : replica_writes[r][x] # replica_writes[r][k]
      BY <2>11, <3>1, <3>2, <3>3
    <3>5. /\ replica_writes[r][i].sub = replica_writes[r][k].sub
          /\ KeyOf(replica_writes[r][i].event) # KeyOf(replica_writes[r][k].event)
      BY <2>11, <3>3
    <3>6. replica_writes[r][i].event < replica_writes[r][k].event
      BY <2>12, <3>3, <3>4, <3>5 DEF NothingOvertakes
    <3> QED
      BY <3>3, <3>6
  <2>15. CASE r = room /\ k = n + 1
    <3>1. 1..(k - 1) = 1..n /\ i \in 1..n
      BY <2>15
    <3>2. e \notin Applied(s)
      BY <2>5, <2>10, <2>11, <2>15, <3>1
    <3>3. replica_writes[r][i].sub = s /\ KeyOf(replica_writes[r][i].event) # KeyOf(e)
      BY <2>5, <2>6, <2>11, <2>15, <3>1
    <3>4. replica_writes[r][i].event < e
      BY <2>7, <2>8, <2>9, <2>15, <3>1, <3>2, <3>3 DEF Younger
    <3> QED
      BY <2>5, <2>6, <2>15, <3>1, <3>4
  <2>16. r = room => k \in 1..n \/ k = n + 1
    BY <2>5
  <2> QED
    BY <2>13, <2>14, <2>15, <2>16
<1> QED
  BY <1>1, <1>2, Writers

LEMMA OrderNext ==
  ASSUME OneByOne, Contiguous, TypeInv, LogInv, ClientInv, OrderInv, [Next]_vars
  PROVE  OrderInv'
<1>1. \A s \in Subs : InOrder(buffers[s])' /\ Younger(s, Parked(buffers[s]))'
  BY OrderBuffers
<1>2. \A t \in Threads : job'[t].stage # "idle" => OrderCall(job[t])'
  BY OrderCalls
<1> QED
  BY <1>1, <1>2, OvertakesNext DEF OrderInv

LEMMA OrderInit == Init => OrderInv
<1> SUFFICES ASSUME Init PROVE OrderInv
  OBVIOUS
<1>1. \A s \in Subs : InOrder(buffers[s]) /\ Younger(s, Parked(buffers[s]))
  BY NothingInOrder, ParkedNothing DEF Init, Younger
<1>2. \A t \in Threads : job[t].stage = "idle"
  BY IdleFields DEF Init
<1>3. NothingOvertakes
  BY DEF Init, NothingOvertakes
<1> QED
  BY <1>1, <1>2, <1>3 DEF OrderInv

(* For a client that sends its requests one by one, over a transport that   *)
(* does not repeat events and a CRM that does not interleave transactions:  *)
(* when an event reaches the replica for the first time (_commit_one), all  *)
(* that the replica has from other transactions of the subscription is      *)
(* older.  Refused transactions keep their place (restore_front), and lost  *)
(* writes and restarts only leave events out.                               *)
THEOREM OvertakesCorrect ==
  ASSUME OneByOne, Contiguous
  PROVE  Spec => []NothingOvertakes
<1>1. Init => TypeInv /\ LogInv /\ ClientInv /\ OrderInv
  BY TypeInit, LogInit, ClientInit, OrderInit
<1>2. TypeInv /\ LogInv /\ ClientInv /\ OrderInv /\ [Next]_vars
        => (TypeInv /\ LogInv /\ ClientInv /\ OrderInv)'
  BY TypeNext, LogNext, ClientNext, OrderNext
<1>3. OrderInv => NothingOvertakes
  BY DEF OrderInv
<1> QED
  BY <1>1, <1>2, <1>3, PTL DEF Spec

-----------------------------------------------------------------------------
(* A transaction is applied as a whole. *)

Arrived(s, key) == {n \in Logged(s) : KeyOf(n) = key}

(* The events of a subscription that were handed to the BufferSet. *)
Taken(s) ==
  {n \in Logged(s) :
     ~(\E t \in Threads : job[t].sub = s /\ job[t].stage = "logged" /\ job[t].event = n)}

(* Transaction b is all that came under its key. *)
Whole(s, b) == \A n \in Taken(s) : KeyOf(n) = b.key => n \in b.events

(* The call is about to close the subscription. *)
Finishes(j) ==
  /\ j.close
  /\ \/ j.stage = "closing"
     \/ j.stage \in Committing \ {"planning"} /\ j.current = Len(j.ready)

(* No more can come under the key of a: the stream is past it, or the       *)
(* subscription is closed.                                                  *)
Settled(s, a) ==
  \/ \E b \in Logged(s) : a < b /\ KeyOf(b) # KeyOf(a)
  \/ subscription[s].state = "closed"
  \/ \E t \in Threads : job[t].sub = s /\ Finishes(job[t])

Writing(j, key) == j.stage = "writing" /\ j.ready[j.current].key = key

Unit(s, key) ==
  \/ Arrived(s, key) \cap Applied(s) \in {{}, Arrived(s, key)}
  \/ \E t \in Threads : job[t].sub = s /\ Writing(job[t], key)

UnitSub(s) ==
  /\ \A n \in Logged(s) : n \in Applied(s) \/ Waits(s, n)
  /\ \A a \in Applied(s) : Settled(s, a)
  /\ \A i \in DOMAIN buffers[s] : Whole(s, buffers[s][i])
  /\ \A key \in Keys : Unit(s, key)

UnitCall(j) ==
  /\ j.stage \in {"admitted", "logged"} => subscription[j.sub].state = "open"
  /\ j.stage = "logged" => \A n \in Logged(j.sub) : n = j.event \/ n < j.event
  /\ j.stage # "idle" => \A i \in DOMAIN j.ready : Whole(j.sub, j.ready[i])
  /\ j.stage \in Committing \cup {"parked", "ready"} /\ ~j.close => buffers[j.sub] # <<>>

UnitInv == ~disturbed => /\ \A s \in Subs : UnitSub(s)
                         /\ \A t \in Threads : UnitCall(job[t])

(* What the proof assumes of a step. *)
UnitStep ==
  /\ OneByOne /\ Contiguous
  /\ TypeInv /\ LogInv /\ ClientInv /\ OrderInv /\ UnitInv
  /\ [Next]_vars /\ ~disturbed'

LEMMA UnitNow ==
  ASSUME UnitStep
  PROVE  /\ \A s \in Subs : UnitSub(s)
         /\ \A t \in Threads : UnitCall(job[t])
         /\ ~Crash /\ \A t \in Threads : ~DatabaseFails(t)
BY Undisturbed DEF UnitStep, UnitInv

(* Rows are only added by LogEvent. *)
LEMMA LoggedSame ==
  ASSUME TypeInv, [Next]_vars, \A t \in Threads : ~LogEvent(t), NEW s
  PROVE  Logged(s)' = Logged(s)
<1>1. DOMAIN change_log' = DOMAIN change_log
  BY Writers DEF MarkCommitted
<1>2. \A i \in DOMAIN change_log :
        change_log'[i].sub = change_log[i].sub /\ change_log'[i].event = change_log[i].event
  BY LogGrows
<1> QED
  BY <1>1, <1>2 DEF Logged

LEMMA AppliedGrows ==
  ASSUME TypeInv, [Next]_vars, NEW s \in Subs
  PROVE  Applied(s) \subseteq Applied(s)'
<1>1. CASE replica_writes' = replica_writes
  BY <1>1, AppliedStays
<1>2. ASSUME NEW t \in Threads, WriteReplica(t) PROVE Applied(s) \subseteq Applied(s)'
  <2>1. PICK sub \in Subs : sub = job[t].sub
    BY <1>2, CallTypes DEF WriteReplica
  <2>2. CASE s = sub
    BY <1>2, <2>1, <2>2, WriteReplicaWrites
  <2>3. CASE s # sub
    BY <1>2, <2>1, <2>3, WriteReplicaWrites
  <2> QED
    BY <2>2, <2>3
<1> QED
  BY <1>1, <1>2, Writers

(* While an event is on its way into the BufferSet, nothing of its          *)
(* transaction was applied.                                                 *)
LEMMA NoneApplied ==
  ASSUME UnitStep, NEW t \in Threads, job[t].stage \in {"admitted", "logged"},
         NEW a \in Applied(job[t].sub)
  PROVE  KeyOf(a) # KeyOf(job[t].event)
<1> SUFFICES ASSUME KeyOf(a) = KeyOf(job[t].event) PROVE FALSE
  OBVIOUS
<1> USE DEF UnitStep
<1>1. PICK s \in Subs : s = job[t].sub
  BY CallTypes
<1>2. PICK n \in Events : n = job[t].event
  BY CallTypes DEF Fits, Delivering
<1>3. /\ subscription[s].state = "open"
      /\ \A m \in Logged(s) : m = n \/ m < n
  <2>1. UnitCall(job[t]) /\ FreshCall(job[t])
    BY UnitNow DEF ClientInv
  <2> QED
    BY <1>1, <1>2, <2>1 DEF UnitCall, FreshCall
<1>4. Settled(s, a)
  BY <1>1, UnitNow DEF UnitSub
<1>5. ~(\E u \in Threads : job[u].sub = s /\ Finishes(job[u]))
  BY DEF OneByOne, Finishes, Committing
<1>6. PICK b \in Logged(s) : a < b /\ KeyOf(b) # KeyOf(a)
  BY <1>3, <1>4, <1>5 DEF Settled
<1>7. b # n
  BY <1>2, <1>6
<1>8. b < n
  BY <1>3, <1>6, <1>7
<1>9. a \in Events /\ b \in Events
  <2>1. Logged(s) \subseteq Events
    <3>1. change_log \in Seq(Rows)
      BY DEF TypeInv, TypeOK
    <3>2. \A i \in DOMAIN change_log : change_log[i] \in Rows
      BY <3>1, ElementOfSeq, LenProperties
    <3>3. \A i \in DOMAIN change_log : change_log[i].event \in Events
      BY <3>2 DEF Rows
    <3> QED
      BY <3>3 DEF Logged
  <2>2. a \in Logged(s)
    BY <1>1 DEF LogInv, AppliedIsLogged
  <2> QED
    BY <1>6, <2>1, <2>2
<1> QED
  BY <1>2, <1>6, <1>8, <1>9 DEF Contiguous

LEMMA UnitAccounted ==
  ASSUME UnitStep, NEW s \in Subs
  PROVE  \A n \in Logged(s)' : n \in Applied(s)' \/ Waits(s, n)'
<1> USE DEF UnitStep
<1>1. ASSUME NEW n \in Logged(s), Waits(s, n) PROVE n \in Applied(s)' \/ Waits(s, n)'
  <2>1. ASSUME NEW t \in Threads, MarkCommitted(t), n = First(job[t].todo)
        PROVE  n \in Applied(s)' \/ Waits(s, n)'
    <3>1. PICK j : j = job[t]
      OBVIOUS
    <3>2. j.stage = "marking" /\ buffers' = buffers
      BY <2>1, <3>1 DEF MarkCommitted
    <3>3. CASE j.sub = s
      <4>1. n \in j.todo /\ j.todo \subseteq j.ready[j.current].events
        BY <2>1, <3>1, <3>2, EventDoneCall, CallTypes DEF MarkCommitted, Applying, Fits
      <4>2. OrderCall(j)
        BY <3>1, <3>2 DEF OrderInv
      <4>3. n \in Applied(s)
        BY <3>2, <3>3, <4>1, <4>2 DEF OrderCall
      <4> QED
        BY <4>3, AppliedGrows
    <3>4. CASE j.sub # s
      <4>1. n \in Parked(buffers[s])
        BY <1>1, <3>1, <3>4 DEF Waits, OneByOne
      <4> QED
        BY <3>2, <4>1 DEF Waits
    <3> QED
      BY <3>3, <3>4
  <2> QED
    BY <1>1, <2>1, WaitsOn
<1>2. ASSUME NEW n \in Logged(s) PROVE n \in Applied(s)' \/ Waits(s, n)'
  <2>1. n \in Applied(s) \/ Waits(s, n)
    BY UnitNow DEF UnitSub
  <2> QED
    BY <1>1, <2>1, AppliedGrows
<1>3. ASSUME NEW t \in Threads, LogEvent(t), NEW n \in Logged(s)', n \notin Logged(s)
      PROVE  Waits(s, n)'
  <2>1. PICK sub \in Subs : sub = job[t].sub
    BY <1>3, CallTypes DEF LogEvent
  <2>2. Logged(sub)' = Logged(sub) \cup {job[t].event}
        /\ \A x \in Subs \ {sub} : Logged(x)' = Logged(x)
    BY <1>3, <2>1, LogEventAdds
  <2>3. s = sub /\ n = job[t].event
    BY <1>3, <2>2
  <2>4. job'[t].stage = "logged" /\ job'[t].sub = s /\ job'[t].event = n
    BY <1>3, <2>1, <2>3, CallGoesOn DEF SameCall
  <2> QED
    BY <2>4 DEF Waits, Pending
<1> QED
  BY <1>2, <1>3, LoggedSame

LEMMA ClosedStays ==
  ASSUME TypeInv, [Next]_vars, NEW s \in Subs, subscription[s].state = "closed"
  PROVE  subscription'[s].state = "closed"
<1>1. subscription \in [Subs -> Subscriptions]
  BY DEF TypeInv, TypeOK
<1>2. CASE subscription' = subscription
  BY <1>2
<1>3. ASSUME NEW x, x # s, NEW y, subscription' = [subscription EXCEPT ![x].state = y]
      PROVE  subscription'[s].state = "closed"
  BY <1>1, <1>3
<1>4. ASSUME NEW x, subscription' = [subscription EXCEPT ![x].state = "closed"]
      PROVE  subscription'[s].state = "closed"
  BY <1>1, <1>4 DEF Subscriptions
<1>5. ASSUME NEW x, NEW y, subscription' = [subscription EXCEPT ![x].usage = y]
      PROVE  subscription'[s].state = "closed"
  BY <1>1, <1>5 DEF Subscriptions
<1>6. ASSUME NEW x \in Subs, OpenSubscription(x) PROVE subscription'[s].state = "closed"
  <2>1. x # s
    BY <1>6 DEF OpenSubscription
  <2> QED
    BY <1>3, <1>6, <2>1 DEF OpenSubscription
<1>7. ASSUME NEW t \in Threads, Handler(t)
      PROVE  \/ subscription' = subscription
             \/ \E x : subscription' = [subscription EXCEPT ![x].state = "closed"]
             \/ \E x, y : subscription' = [subscription EXCEPT ![x].usage = y]
  BY <1>7 DEF Handler, FetchUpdate, LogEvent, Accept, RefuseDuplicate, CountDelivery, CommitMany,
              RefuseOrder, Plan, RefusePlan, Refuse, WriteReplica, Invalidate, MarkCommitted,
              CountCommit, CommitCounted, Flush, CloseRow, Release, stored
<1>8. ASSUME NEW t \in Threads, DatabaseFails(t) PROVE subscription' = subscription
  BY <1>8 DEF DatabaseFails, stored
<1>9. ASSUME NEW t \in Threads, NEW x \in Subs,
             Fetch(t, x) \/ Close(t, x) \/ \E n \in Events : Deliver(t, x, n)
      PROVE  subscription' = subscription
  BY <1>9 DEF Fetch, Close, Deliver, stored
<1>10. CASE UNCHANGED vars \/ Crash \/ Enrich
  BY <1>10 DEF vars, Crash, Enrich, stored
<1> QED
  BY <1>2, <1>4, <1>5, <1>6, <1>7, <1>8, <1>9, <1>10 DEF Next

(* What was applied stays settled, and what a commit applies is. *)
LEMMA UnitSettled ==
  ASSUME UnitStep, NEW s \in Subs, NEW a \in Applied(s)'
  PROVE  Settled(s, a)'
<1> USE DEF UnitStep
<1>1. Logged(s) \subseteq Logged(s)'
  BY LoggedStays
<1>2. ASSUME NEW b \in Logged(s), a < b, KeyOf(b) # KeyOf(a) PROVE Settled(s, a)'
  BY <1>1, <1>2 DEF Settled, KeyOf
<1>3. ASSUME a \in Applied(s) PROVE Settled(s, a)'
  <2>1. Settled(s, a)
    BY <1>3, UnitNow DEF UnitSub
  <2>2. CASE subscription[s].state = "closed"
    BY <2>2, ClosedStays DEF Settled
  <2>3. ASSUME NEW t \in Threads, job[t].sub = s, Finishes(job[t]) PROVE Settled(s, a)'
    <3>1. PICK j : j = job[t]
      OBVIOUS
    <3>2. PICK k : k = job'[t]
      OBVIOUS
    <3>3. SUFFICES (k.sub = s /\ Finishes(k)) \/ subscription'[s].state = "closed"
      BY <3>2 DEF Settled, Finishes
    <3>4. j.sub = s /\ Finishes(j)
      BY <2>3, <3>1
    <3>5. j.stage \in {"closing", "writing", "invalidating", "marking", "counting", "counted"}
      BY <3>4 DEF Finishes, Committing
    <3>6. CASE UNCHANGED job
      BY <3>1, <3>2, <3>4, <3>6
    <3>7. CASE CommitStep(t)
      <4>1. k.sub = s /\ k.ready = j.ready /\ k.close = j.close
        BY <3>1, <3>2, <3>4, <3>7, CommitSteps
      <4>2. k.close
        BY <3>4, <4>1 DEF Finishes
      <4>3. CASE WriteReplica(t) \/ Invalidate(t) \/ MarkCommitted(t)
        <5>1. PICK next \in {"invalidating", "marking", "counting"} :
                job[t].stage \in Applying /\ EventDone(t, next)
          BY <4>3 DEF WriteReplica, Invalidate, MarkCommitted, Applying
        <5>2. k.current = j.current /\ k.stage \in Applying \cup {"counting"}
          BY <3>1, <3>2, <5>1, CommitGoesOn DEF SameCall, Applying
        <5>3. j.current = Len(j.ready)
          BY <3>1, <3>4, <5>1 DEF Finishes, Applying
        <5> QED
          BY <4>1, <4>2, <5>2, <5>3 DEF Finishes, Applying, Committing
      <4>4. CASE CountCommit(t)
        <5>1. k.stage = "counted" /\ k.current = j.current /\ j.stage = "counting"
          BY <3>1, <3>2, <4>4, CommitGoesOn DEF SameCall, CountCommit
        <5> QED
          BY <3>4, <4>1, <4>2, <5>1 DEF Finishes, Committing
      <4>5. CASE CommitMany(t) \/ Plan(t)
        BY <3>1, <3>5, <4>5 DEF CommitMany, Plan
      <4>6. CASE CommitCounted(t) /\ job[t].current < Len(job[t].ready)
        <5>1. j.stage = "counted" /\ j.current < Len(j.ready)
          BY <3>1, <4>6 DEF CommitCounted
        <5>2. j.current = Len(j.ready) /\ j.current \in Nat
          BY <3>1, <3>4, <5>1, CallTypes DEF Finishes
        <5> QED
          BY <5>1, <5>2
      <4>7. CASE CommitCounted(t) /\ ~(job[t].current < Len(job[t].ready)) /\ job[t].close # FALSE
        <5>1. k.stage = "closing"
          BY <3>2, <4>7, CommitGoesOn
        <5> QED
          BY <4>1, <4>2, <5>1 DEF Finishes
      <4> QED
        BY <3>7, <4>3, <4>4, <4>5, <4>6, <4>7 DEF CommitStep
    <3>8. CASE EndStep(t)
      <4>1. CASE CommitCounted(t) /\ ~(job[t].current < Len(job[t].ready)) /\ job[t].close = FALSE
        BY <3>1, <3>4, <4>1 DEF Finishes
      <4> QED
        BY <3>1, <3>5, <3>8, <4>1, UnitNow
           DEF EndStep, FetchUpdate, RefuseDuplicate, RefuseOrder, RefusePlan, Release,
               CountDelivery
    <3>9. CASE CloseRow(t)
      <4>1. subscription' = [subscription EXCEPT ![s].state = "closed"]
        BY <3>1, <3>4, <3>9 DEF CloseRow
      <4> QED
        BY <4>1 DEF TypeInv, TypeOK, Subscriptions
    <3>10. ~LogEvent(t) /\ ~Accept(t) /\ ~Flush(t) /\ ~(CountDelivery(t) /\ job[t].ready # <<>>)
      BY <3>1, <3>5 DEF LogEvent, Accept, Flush, CountDelivery
    <3>11. ~(\E x \in Subs : Fetch(t, x) \/ Close(t, x) \/ \E n \in Events : Deliver(t, x, n))
      BY <3>1, <3>5 DEF Fetch, Close, Deliver
    <3>12. \A u \in Threads : u = t
      BY DEF OneByOne
    <3> QED
      BY <3>6, <3>7, <3>8, <3>9, <3>10, <3>11, <3>12, UnitNow, Steps, StepsOfCall
  <2> QED
    BY <1>2, <2>1, <2>2, <2>3 DEF Settled
<1>4. ASSUME NEW t \in Threads, WriteReplica(t), a \notin Applied(s) PROVE Settled(s, a)'
  <2>1. PICK j : j = job[t]
    OBVIOUS
  <2>2. PICK k : k = job'[t]
    OBVIOUS
  <2>3. PICK sub \in Subs : sub = j.sub /\ j.stage = "writing"
    BY <1>4, <2>1, CallTypes DEF WriteReplica
  <2>4. PICK e : e = First(j.todo)
    OBVIOUS
  <2>5. s = sub /\ a = e
    BY <1>4, <2>1, <2>3, <2>4, WriteReplicaWrites
  <2>6. PICK n \in Nat : n = Len(j.ready) /\ DOMAIN j.ready = 1..n
    BY <2>1, CallTypes, LenProperties
  <2>7. PICK c \in 1..n : c = j.current /\ j.todo \subseteq j.ready[c].events
    BY <2>1, <2>3, <2>6, CallTypes DEF Fits, Applying, Committing
  <2>8. e \in j.todo
    BY <1>4, <2>1, <2>3, <2>4, EventDoneCall DEF WriteReplica, Applying
  <2>9. OrderCall(j) /\ HeldCall(j) /\ UnitCall(j)
    BY <2>1, <2>3, UnitNow DEF OrderInv, ClientInv
  <2>10. KeyOf(e) = j.ready[c].key
    BY <2>6, <2>7, <2>8, <2>9 DEF HeldCall, OnePerKey
  <2>11. CASE c < n
    <3>1. c + 1 \in 1..n /\ c < c + 1 /\ c # c + 1
      BY <2>11
    <3>2. j.ready[c + 1] \in Buffers
      BY <2>1, <2>6, <3>1, CallTypes, ElementOfSeq
    <3>3. PICK b : b \in j.ready[c + 1].events
      BY <3>2 DEF Buffers
    <3>4. a < b
      BY <2>5, <2>6, <2>7, <2>8, <2>9, <3>1, <3>3 DEF OrderCall, InOrder
    <3>5. KeyOf(b) # KeyOf(a)
      BY <2>5, <2>6, <2>9, <2>10, <3>1, <3>3 DEF HeldCall, OnePerKey
    <3>6. b \in Parked(j.ready)
      BY <2>6, <3>1, <3>3 DEF Parked
    <3>7. b \in Logged(s)
      BY <2>1, <2>3, <2>5, <3>6 DEF LogInv, CallLogged
    <3> QED
      BY <1>2, <3>4, <3>5, <3>7
  <2>12. CASE c = n /\ j.close
    <3>1. job[t].stage \in Applying /\ EventDone(t, "invalidating")
      BY <1>4 DEF WriteReplica, Applying
    <3>2. k.sub = j.sub /\ k.close = j.close /\ k.current = j.current /\ k.ready = j.ready
          /\ k.stage \in {"writing", "invalidating"}
      BY <2>1, <2>2, <2>3, <3>1, CommitGoesOn DEF SameCall
    <3>3. Finishes(k)
      BY <2>6, <2>7, <2>12, <3>2 DEF Finishes, Committing
    <3> QED
      BY <2>2, <2>3, <2>5, <3>2, <3>3 DEF Settled, Finishes
  <2>13. CASE c = n /\ ~j.close
    <3>1. PICK held \in Seq(Buffers) : held = buffers[s]
      BY RowTypes
    <3>2. held # <<>>
      BY <2>3, <2>5, <2>9, <2>13, <3>1 DEF UnitCall, Committing
    <3>3. 1 \in DOMAIN held /\ held[1] \in Buffers
      <4>1. Len(held) \in Nat /\ Len(held) # 0 /\ DOMAIN held = 1..Len(held)
        BY <3>1, <3>2, LenProperties, EmptySeq
      <4>2. 1 \in 1..Len(held)
        BY <4>1
      <4> QED
        BY <4>1, <4>2, ElementOfSeq
    <3>4. PICK b : b \in held[1].events
      BY <3>3 DEF Buffers
    <3>5. b \in Parked(held) /\ KeyOf(b) = held[1].key /\ held[1].key \in KeysOf(held)
      BY <3>1, <3>3, <3>4 DEF ClientInv, OnePerKey, Parked, KeysOf
    <3>6. e \in Parked(j.ready) /\ KeyOf(e) \in KeysOf(j.ready)
      BY <2>6, <2>7, <2>8, <2>10 DEF Parked, KeysOf
    <3>7. a < b /\ KeyOf(b) # KeyOf(a)
      BY <2>3, <2>5, <2>9, <3>1, <3>5, <3>6 DEF OrderCall, HeldCall
    <3>8. b \in Logged(s)
      BY <3>1, <3>5 DEF LogInv
    <3> QED
      BY <1>2, <3>7, <3>8
  <2>14. c < n \/ c = n
    OBVIOUS
  <2> QED
    BY <2>11, <2>12, <2>13, <2>14
<1>5. a \in Applied(s) \/ \E t \in Threads : WriteReplica(t)
  BY Writers, AppliedStays
<1> QED
  BY <1>3, <1>4, <1>5


(* An open subscription is closed by CloseRow only. *)
LEMMA OpenStays ==
  ASSUME TypeInv, [Next]_vars, NEW s \in Subs, subscription[s].state = "open",
         \A t \in Threads : ~CloseRow(t)
  PROVE  subscription'[s].state = "open"
<1>1. subscription \in [Subs -> Subscriptions]
  BY DEF TypeInv, TypeOK
<1>2. CASE subscription' = subscription
  BY <1>2
<1>3. ASSUME NEW x, NEW y, subscription' = [subscription EXCEPT ![x].usage = y]
      PROVE  subscription'[s].state = "open"
  BY <1>1, <1>3 DEF Subscriptions
<1>4. ASSUME NEW x \in Subs, OpenSubscription(x) PROVE subscription'[s].state = "open"
  <2>1. x # s /\ subscription' = [subscription EXCEPT ![x].state = "open"]
    BY <1>4 DEF OpenSubscription
  <2> QED
    BY <1>1, <2>1
<1>5. ASSUME NEW t \in Threads, Handler(t)
      PROVE  \/ subscription' = subscription
             \/ \E x, y : subscription' = [subscription EXCEPT ![x].usage = y]
  BY <1>5 DEF Handler, FetchUpdate, LogEvent, Accept, RefuseDuplicate, CountDelivery, CommitMany,
              RefuseOrder, Plan, RefusePlan, Refuse, WriteReplica, Invalidate, MarkCommitted,
              CountCommit, CommitCounted, Flush, Release, stored
<1>6. ASSUME NEW t \in Threads, DatabaseFails(t) PROVE subscription' = subscription
  BY <1>6 DEF DatabaseFails, stored
<1>7. ASSUME NEW t \in Threads, NEW x \in Subs,
             Fetch(t, x) \/ Close(t, x) \/ \E n \in Events : Deliver(t, x, n)
      PROVE  subscription' = subscription
  BY <1>7 DEF Fetch, Close, Deliver, stored
<1>8. CASE UNCHANGED vars \/ Crash \/ Enrich
  BY <1>8 DEF vars, Crash, Enrich, stored
<1> QED
  BY <1>2, <1>3, <1>4, <1>5, <1>6, <1>7, <1>8 DEF Next

(* The steps of a client that sends its requests one by one, where nothing  *)
(* fails.                                                                   *)
LEMMA UnitSteps ==
  ASSUME UnitStep, NEW t \in Threads
  PROVE  \/ /\ UNCHANGED <<change_log, replica_writes, buffers, job>>
         \/ \E x \in Subs : Fetch(t, x) \/ Close(t, x) \/ \E n \in Events : Deliver(t, x, n)
         \/ EndStep(t) \/ CommitStep(t) \/ LogEvent(t) \/ Accept(t) \/ Flush(t) \/ CloseRow(t)
         \/ CountDelivery(t) /\ job[t].ready # <<>>
<1>1. \A u \in Threads : u = t
  BY DEF UnitStep, OneByOne
<1>2. [Next]_vars /\ TypeInv
  BY DEF UnitStep
<1> QED
  BY <1>1, <1>2, UnitNow, Steps, StepsOfCall

(* An event counts as handed to the BufferSet once accept has returned. *)
LEMMA TakenChanges ==
  ASSUME UnitStep, NEW s \in Subs
  PROVE  /\ Taken(s)' \subseteq Taken(s) \cup
              {job[t].event : t \in {u \in Threads : Accept(u) /\ job[u].sub = s}}
<1> USE DEF UnitStep
<1> SUFFICES ASSUME NEW n \in Taken(s)', n \notin Taken(s)
             PROVE  \E t \in Threads : Accept(t) /\ job[t].sub = s /\ job[t].event = n
  OBVIOUS
<1>1. n \in Logged(s)'
  BY DEF Taken
<1>2. ASSUME NEW t \in Threads, LogEvent(t) PROVE FALSE
  <2>1. PICK sub \in Subs : sub = job[t].sub /\ job[t].stage = "admitted"
    BY <1>2, CallTypes DEF LogEvent
  <2>2. /\ Logged(sub)' = Logged(sub) \cup {job[t].event}
        /\ \A x \in Subs \ {sub} : Logged(x)' = Logged(x)
    BY <1>2, <2>1, LogEventAdds
  <2>3. job'[t].stage = "logged" /\ job'[t].sub = sub /\ job'[t].event = job[t].event
    BY <1>2, <2>1, CallGoesOn DEF SameCall
  <2>4. n \in Logged(s)
    BY <1>1, <2>2, <2>3 DEF Taken
  <2>5. \A u \in Threads : job[u].stage = "admitted"
    BY <2>1 DEF OneByOne
  <2> QED
    BY <2>4, <2>5 DEF Taken
<1>3. n \in Logged(s)
  BY <1>1, <1>2, LoggedSame
<1>4. PICK t \in Threads : job[t].sub = s /\ job[t].stage = "logged" /\ job[t].event = n
  BY <1>3 DEF Taken
<1>5. job' # job
  BY <1>3, <1>4 DEF Taken
<1>6. CASE Accept(t)
  BY <1>4, <1>6
<1>7. CASE ~Accept(t)
  <2>1. ~(EndStep(t) \/ CommitStep(t) \/ LogEvent(t) \/ Flush(t) \/ CloseRow(t) \/ CountDelivery(t))
    BY <1>4, UnitNow
       DEF EndStep, CommitStep, FetchUpdate, RefuseDuplicate, RefuseOrder, RefusePlan, Release,
           CountDelivery, CommitCounted, CommitMany, Plan, WriteReplica, Invalidate, MarkCommitted,
           CountCommit, LogEvent, Flush, CloseRow
  <2>2. ~(\E x \in Subs : Fetch(t, x) \/ Close(t, x) \/ \E m \in Events : Deliver(t, x, m))
    BY <1>4 DEF Fetch, Close, Deliver
  <2> QED
    BY <1>5, <1>7, <2>1, <2>2, UnitSteps
<1> QED
  BY <1>6, <1>7

(* Accept, where transactions are whole: what is parked under the event's   *)
(* key grows by the event, and the rest are under other keys.               *)
LEMMA AcceptedWhole ==
  ASSUME UnitStep, NEW t \in Threads, Accept(t), NEW s \in Subs, s = job[t].sub,
         NEW e \in Events, e = job[t].event, NEW held \in Seq(Buffers), held = buffers[s]
  PROVE  /\ \A i \in DOMAIN Accepted(held, e) :
              \A n \in Taken(s)' :
                KeyOf(n) = Accepted(held, e)[i].key => n \in Accepted(held, e)[i].events
         /\ \A i \in DOMAIN Completed(held, KeyOf(e)) :
              \A n \in Taken(s)' :
                KeyOf(n) = Completed(held, KeyOf(e))[i].key
                  => n \in Completed(held, KeyOf(e))[i].events
<1> USE DEF UnitStep
<1> DEFINE a == Ahead(held, KeyOf(e))
           done == Completed(held, KeyOf(e))
           next == Accepted(held, e)
<1>1. PICK size \in Nat : size = Len(held) /\ DOMAIN held = 1..size
  BY LenProperties
<1>2. a \in Nat /\ a <= size
  BY <1>1, AheadProperties
<1>3. OnePerKey(held) /\ OnePerKey(next)
  <2>1. OnePerKey(held)
    BY DEF ClientInv
  <2> QED
    BY <2>1, AcceptedKeys
<1>4. \A i \in 1..size : \A n \in Taken(s) : KeyOf(n) = held[i].key => n \in held[i].events
  BY <1>1, UnitNow DEF UnitSub, Whole
<1>5. \A n \in Taken(s)' : n \in Taken(s) \/ n = e
  <2>1. \A u \in Threads : u = t
    BY DEF OneByOne
  <2> QED
    BY <2>1, TakenChanges
<1>6. \A i \in 1..a : held[i].key # KeyOf(e)
  BY AheadProperties
<1>7. done \in Seq(Buffers) /\ Len(done) = a /\ \A i \in 1..a : done[i] = held[i]
  BY EventProperties, SplitProperties
<1>8. DOMAIN done = 1..a
  BY <1>7, LenProperties
<1>9. \A i \in 1..a : i \in 1..size
  BY <1>2
<1> HIDE DEF a, done
<1>10. ASSUME NEW i \in DOMAIN done, NEW n \in Taken(s)', KeyOf(n) = done[i].key
       PROVE  n \in done[i].events
  <2>1. i \in 1..size /\ done[i] = held[i] /\ held[i].key # KeyOf(e)
    BY <1>6, <1>7, <1>8, <1>9
  <2>2. n # e
    BY <1>10, <2>1
  <2> QED
    BY <1>4, <1>5, <1>10, <2>1, <2>2
<1>11. CASE a = size
  <2>1. PICK b : b = [key |-> KeyOf(e), events |-> {e}]
    OBVIOUS
  <2>2. next = <<b>> /\ b.events = {e} /\ b.key = KeyOf(e)
    <3>1. Ahead(held, KeyOf(e)) = Len(held)
      BY <1>1, <1>11 DEF a
    <3>2. next = <<[key |-> KeyOf(e), events |-> {e}]>>
      BY <3>1, AcceptedProperties
    <3> QED
      BY <2>1, <3>2
  <2>3. DOMAIN next = {1} /\ next[1] = b
    BY <2>2
  <2>4. job[t].stage = "logged"
    BY DEF Accept
  <2>5. ASSUME NEW n \in Taken(s), KeyOf(n) = KeyOf(e) PROVE n = e
    <3>1. n \in Logged(s)
      BY DEF Taken
    <3>2. n \notin Applied(s)
      BY <2>4, <2>5, NoneApplied
    <3>3. Waits(s, n)
      BY <3>1, <3>2, UnitNow DEF UnitSub
    <3>4. n \notin Parked(held)
      <4>1. SUFFICES ASSUME NEW i \in 1..size, n \in held[i].events PROVE FALSE
        BY <1>1 DEF Parked
      <4>2. KeyOf(n) = held[i].key
        BY <1>1, <1>3, <4>1 DEF OnePerKey
      <4> QED
        BY <1>6, <1>11, <2>5, <4>2
    <3>5. PICK u \in Threads : job[u].sub = s /\ Pending(job[u], n)
      BY <3>3, <3>4 DEF Waits
    <3>6. u = t
      BY DEF OneByOne
    <3> QED
      BY <2>4, <3>5, <3>6 DEF Pending, Committing
  <2>6. \A n \in Taken(s)' : KeyOf(n) = KeyOf(e) => n = e
    BY <1>5, <2>5
  <2> HIDE DEF next
  <2>7. \A i \in DOMAIN next : \A n \in Taken(s)' : KeyOf(n) = next[i].key => n \in next[i].events
    BY <2>2, <2>3, <2>6
  <2> QED
    BY <1>10, <2>7 DEF next, done
<1>12. CASE a < size
  <2>1. held[a + 1].key = KeyOf(e)
    BY <1>1, <1>12, EventProperties, AheadProperties DEF a
  <2>2. PICK m \in Nat : m = size - a /\ m # 0
    BY <1>2, <1>12
  <2>3. /\ next \in Seq(Buffers) /\ Len(next) = m /\ next[1].key = KeyOf(e)
        /\ next[1].events = held[a + 1].events \cup {e}
        /\ \A i \in 2..m : next[i] = held[a + i]
    BY <1>1, <1>12, <2>2, AcceptedProperties DEF a
  <2>4. DOMAIN next = 1..m
    BY <2>3, LenProperties
  <2> HIDE DEF next
  <2>5. \A n \in Taken(s)' : KeyOf(n) = next[1].key => n \in next[1].events
    <3>1. a + 1 \in 1..size
      BY <1>2, <1>12
    <3> QED
      BY <1>4, <1>5, <2>1, <2>3, <3>1
  <2>6. ASSUME NEW i \in 2..m, NEW n \in Taken(s)', KeyOf(n) = next[i].key
        PROVE  n \in next[i].events
    <3>1. a + i \in 1..size /\ i # 1 /\ i \in 1..m /\ 1 \in 1..m
      BY <1>2, <2>2
    <3>2. next[i].key # next[1].key
      BY <1>3, <2>4, <3>1 DEF OnePerKey
    <3>3. n # e
      BY <2>3, <2>6, <3>2
    <3>4. n \in Taken(s)
      BY <1>5, <3>3
    <3> QED
      BY <1>4, <2>3, <2>6, <3>1, <3>4
  <2>7. \A i \in 1..m : i = 1 \/ i \in 2..m
    BY <2>2
  <2>8. \A i \in DOMAIN next : \A n \in Taken(s)' : KeyOf(n) = next[i].key => n \in next[i].events
    BY <2>4, <2>5, <2>6, <2>7
  <2> QED
    BY <1>10, <2>8 DEF next, done
<1> QED
  BY <1>2, <1>11, <1>12

LEMMA UnitWhole ==
  ASSUME UnitStep, NEW s \in Subs, NEW i \in DOMAIN buffers'[s]
  PROVE  \A n \in Taken(s)' : KeyOf(n) = buffers'[s][i].key => n \in buffers'[s][i].events
<1> USE DEF UnitStep
<1>1. PICK held \in Seq(Buffers) : held = buffers[s]
  BY RowTypes
<1>2. PICK next : next = buffers'[s]
  OBVIOUS
<1>3. \A k \in DOMAIN held : \A n \in Taken(s) : KeyOf(n) = held[k].key => n \in held[k].events
  BY <1>1, UnitNow DEF UnitSub, Whole
<1>4. ASSUME NEW t \in Threads, Accept(t), job[t].sub = s
      PROVE  \A n \in Taken(s)' : KeyOf(n) = next[i].key => n \in next[i].events
  <2>1. PICK e \in Events : e = job[t].event
    BY <1>4, CallTypes DEF Accept, Fits, Delivering
  <2>2. next = Accepted(held, e)
    <3>1. buffers' = [buffers EXCEPT ![s] = Accepted(held, e)]
      BY <1>1, <1>4, <2>1 DEF Accept
    <3> QED
      BY <1>2, <3>1 DEF TypeInv, TypeOK
  <2> QED
    BY <1>1, <1>2, <1>4, <2>1, <2>2, AcceptedWhole
<1>5. CASE ~(\E t \in Threads : Accept(t) /\ job[t].sub = s)
  <2>1. Taken(s)' \subseteq Taken(s)
    BY <1>5, TakenChanges
  <2>2. CASE next = held
    BY <1>2, <1>3, <2>1, <2>2
  <2>3. next # <<>>
    BY <1>2
  <2>4. ASSUME NEW t \in Threads, RefuseOrder(t) \/ RefusePlan(t), job[t].sub = s,
               next = Restored(held, job[t].ready)
        PROVE  \A n \in Taken(s)' : KeyOf(n) = next[i].key => n \in next[i].events
    <3>1. PICK ready \in Seq(Buffers) : ready = job[t].ready
      BY CallTypes
    <3>2. job[t].stage # "idle"
      BY <2>4 DEF RefuseOrder, RefusePlan
    <3>3. OnePerKey(held) /\ OnePerKey(ready) /\ KeysOf(ready) \cap KeysOf(held) = {}
      BY <1>1, <2>4, <3>1, <3>2 DEF ClientInv, HeldCall
    <3>4. next = ready \o held
      BY <2>4, <3>1, <3>3, RestoredKeys
    <3>5. \A k \in DOMAIN ready : \A n \in Taken(s) :
             KeyOf(n) = ready[k].key => n \in ready[k].events
      BY <2>4, <3>1, <3>2, UnitNow DEF UnitCall, Whole
    <3>6. PICK a \in Nat : a = Len(ready) /\ DOMAIN ready = 1..a
      BY LenProperties
    <3>7. PICK b \in Nat : b = Len(held) /\ DOMAIN held = 1..b
      BY LenProperties
    <3>8. /\ next \in Seq(Buffers) /\ Len(next) = a + b
          /\ \A k \in 1..(a + b) : next[k] = IF k <= a THEN ready[k] ELSE held[k - a]
      BY <3>4, <3>6, <3>7, ConcatProperties
    <3>9. i \in 1..(a + b)
      BY <1>2, <3>8, LenProperties
    <3>10. CASE i <= a
      BY <2>1, <3>5, <3>6, <3>8, <3>9, <3>10
    <3>11. CASE ~(i <= a)
      <4>1. i - a \in 1..b /\ next[i] = held[i - a]
        BY <3>8, <3>9, <3>11
      <4> QED
        BY <1>3, <2>1, <3>7, <4>1
    <3> QED
      BY <3>10, <3>11
  <2> QED
    BY <1>1, <1>2, <1>5, <2>2, <2>3, <2>4, BufferCases
<1> QED
  BY <1>2, <1>4, <1>5

LEMMA UnitReady ==
  ASSUME UnitStep, NEW t \in Threads, job'[t].stage # "idle", NEW s, s = job'[t].sub,
         NEW i \in DOMAIN job'[t].ready
  PROVE  \A n \in Taken(s)' : KeyOf(n) = job'[t].ready[i].key => n \in job'[t].ready[i].events
<1> USE DEF UnitStep
<1>1. PICK j : j = job[t]
  OBVIOUS
<1>2. PICK k : k = job'[t]
  OBVIOUS
<1>3. k.ready # <<>>
  BY <1>2
<1>4. \A u \in Threads : u = t
  BY DEF OneByOne
<1>5. j.stage # "idle" =>
        /\ j.sub \in Subs
        /\ \A x \in DOMAIN j.ready : \A n \in Taken(j.sub) :
             KeyOf(n) = j.ready[x].key => n \in j.ready[x].events
  BY <1>1, CallTypes, UnitNow DEF UnitCall, Whole
<1>6. ASSUME k.sub = j.sub, k.ready = j.ready, j.stage # "idle", ~Accept(t)
      PROVE  \A n \in Taken(s)' : KeyOf(n) = k.ready[i].key => n \in k.ready[i].events
  <2>1. j.sub \in Subs /\ s = j.sub
    BY <1>2, <1>5, <1>6
  <2>2. Taken(s)' \subseteq Taken(s)
    BY <1>4, <1>6, <2>1, TakenChanges
  <2> QED
    BY <1>2, <1>5, <1>6, <2>1, <2>2
<1>7. CASE UNCHANGED <<change_log, replica_writes, buffers, job>>
  <2>1. ~Accept(t)
    <3>1. Accept(t) => job'[t].stage # job[t].stage
      <4>1. Accept(t) => job'[t].stage \in {"refusing", "parked"}
        BY CallGoesOn
      <4>2. Accept(t) => job[t].stage = "logged"
        BY DEF Accept
      <4> QED
        BY <4>1, <4>2
    <3> QED
      BY <1>7, <3>1
  <2> QED
    BY <1>1, <1>2, <1>6, <1>7, <2>1
<1>8. CASE \E x \in Subs : Fetch(t, x) \/ Close(t, x) \/ \E n \in Events : Deliver(t, x, n)
  BY <1>2, <1>3, <1>8, CallBegins
<1>9. CASE EndStep(t)
  BY <1>9, EndSteps, IdleFields
<1>10. CASE CommitStep(t) \/ LogEvent(t) \/ CloseRow(t) \/ (CountDelivery(t) /\ job[t].ready # <<>>)
  <2>1. k.sub = j.sub /\ k.ready = j.ready
    BY <1>1, <1>2, <1>10, CommitSteps, CallGoesOn DEF SameCall
  <2>2. j.stage \notin {"idle", "logged"}
    BY <1>1, <1>10, CommitSteps DEF Committing, LogEvent, CloseRow, CountDelivery
  <2> QED
    BY <1>1, <1>2, <1>6, <2>1, <2>2 DEF Accept
<1>11. CASE Accept(t)
  <2>1. PICK e \in Events : e = job[t].event
    BY <1>11, CallTypes DEF Accept, Fits, Delivering
  <2>2. k.sub = j.sub /\ j.sub \in Subs
    BY <1>1, <1>2, <1>11, CallGoesOn, CallTypes DEF SameCall, Accept
  <2>3. PICK held \in Seq(Buffers) : held = buffers[s]
    BY <1>2, <2>2, RowTypes
  <2>4. k.ready = Completed(held, KeyOf(e))
    BY <1>1, <1>2, <1>3, <1>11, <2>1, <2>2, <2>3, CallGoesOn
  <2> QED
    BY <1>1, <1>2, <1>11, <2>1, <2>2, <2>3, <2>4, AcceptedWhole
<1>12. CASE Flush(t)
  <2>1. j.stage = "draining" /\ j.sub \in Subs
    BY <1>1, <1>12, CallTypes DEF Flush
  <2>2. k.sub = j.sub /\ k.ready = buffers[s]
    BY <1>1, <1>2, <1>12, CallGoesOn DEF SameCall
  <2>3. ~Accept(t)
    BY <1>1, <2>1 DEF Accept
  <2>4. Taken(s)' \subseteq Taken(s)
    BY <1>2, <1>4, <2>1, <2>2, <2>3, TakenChanges
  <2>5. \A x \in DOMAIN buffers[s] : \A n \in Taken(s) :
           KeyOf(n) = buffers[s][x].key => n \in buffers[s][x].events
    BY <1>2, <2>1, <2>2, UnitNow DEF UnitSub, Whole
  <2> QED
    BY <1>2, <2>2, <2>4, <2>5
<1> QED
  BY <1>2, <1>7, <1>8, <1>9, <1>10, <1>11, <1>12, UnitSteps

LEMMA UnitCalls ==
  ASSUME UnitStep, NEW t \in Threads
  PROVE  UnitCall(job[t])'
<1> USE DEF UnitStep
<1>1. PICK j : j = job[t]
  OBVIOUS
<1>2. PICK k : k = job'[t]
  OBVIOUS
<1>3. /\ j.stage \in {"admitted", "logged"} => subscription[j.sub].state = "open"
      /\ j.stage \in Committing \cup {"parked", "ready"} /\ ~j.close => buffers[j.sub] # <<>>
      /\ j.stage # "idle" => j.sub \in Subs
      /\ HeldCall(j) /\ FreshCall(j)
  BY <1>1, UnitNow, CallTypes DEF UnitCall, ClientInv
<1>4. ASSUME k.stage \notin {"admitted", "logged", "parked", "ready"} \cup Committing
      PROVE  /\ k.stage \in {"admitted", "logged"} => subscription'[k.sub].state = "open"
             /\ k.stage = "logged" => \A n \in Logged(k.sub)' : n = k.event \/ n < k.event
             /\ k.stage \in Committing \cup {"parked", "ready"} /\ ~k.close
                  => buffers'[k.sub] # <<>>
  BY <1>4
<1>5. /\ k.stage \in {"admitted", "logged"} => subscription'[k.sub].state = "open"
      /\ k.stage = "logged" => \A n \in Logged(k.sub)' : n = k.event \/ n < k.event
      /\ k.stage \in Committing \cup {"parked", "ready"} /\ ~k.close => buffers'[k.sub] # <<>>
  <2>1. CASE UNCHANGED <<change_log, replica_writes, buffers, job>>
    <3>1. k = j
      BY <1>1, <1>2, <2>1
    <3>2. ASSUME j.stage \in {"admitted", "logged"} PROVE subscription'[k.sub].state = "open"
      <4>1. ~CloseRow(t)
        BY <1>1, <3>2 DEF CloseRow
      <4>2. \A u \in Threads : ~CloseRow(u)
        BY <4>1 DEF OneByOne
      <4> QED
        BY <1>3, <3>1, <3>2, <4>2, OpenStays
    <3>3. k.stage = "logged" => \A n \in Logged(k.sub)' : n = k.event \/ n < k.event
      BY <1>1, <2>1, <3>1, UnitNow DEF UnitCall, Logged
    <3> QED
      BY <1>3, <2>1, <3>1, <3>2, <3>3
  <2>2. CASE \E x \in Subs : Fetch(t, x) \/ Close(t, x) \/ \E n \in Events : Deliver(t, x, n)
    <3>1. PICK x \in Subs : Fetch(t, x) \/ Close(t, x) \/ \E n \in Events : Deliver(t, x, n)
      BY <2>2
    <3>2. k.sub = x /\ k.stage \in {"fetching", "draining", "admitted"}
      BY <1>2, <3>1, CallBegins
    <3>3. subscription'[x].state = "open"
      BY <3>1 DEF Fetch, Close, Deliver, stored
    <3> QED
      BY <3>2, <3>3 DEF Committing
  <2>3. CASE EndStep(t)
    BY <1>2, <1>4, <2>3, EndSteps, IdleFields DEF Committing
  <2>4. CASE LogEvent(t)
    <3>1. j.stage = "admitted" /\ subscription' = subscription
      BY <1>1, <2>4 DEF LogEvent
    <3>2. k.stage = "logged" /\ k.sub = j.sub /\ k.event = j.event
      BY <1>1, <1>2, <2>4, CallGoesOn DEF SameCall
    <3>3. Logged(j.sub)' = Logged(j.sub) \cup {j.event}
      BY <1>1, <1>3, <2>4, <3>1, LogEventAdds
    <3>4. \A n \in Logged(j.sub) : n < j.event
      BY <1>3, <3>1 DEF FreshCall
    <3> QED
      BY <1>3, <3>1, <3>2, <3>3, <3>4 DEF Committing
  <2>5. CASE Accept(t)
    <3>1. j.stage = "logged" /\ j.sub \in Subs /\ j.event \in Events
      BY <1>1, <2>5, CallTypes DEF Accept, Fits, Delivering
    <3>2. k.sub = j.sub /\ k.stage \in {"refusing", "parked"}
      BY <1>1, <1>2, <2>5, CallGoesOn DEF SameCall
    <3>3. PICK held \in Seq(Buffers) : held = buffers[j.sub]
      BY <3>1, RowTypes
    <3>4. buffers'[j.sub] = Accepted(held, j.event)
      <4>1. buffers' = [buffers EXCEPT ![j.sub] = Accepted(held, j.event)]
        BY <1>1, <2>5, <3>3 DEF Accept
      <4> QED
        BY <3>1, <4>1 DEF TypeInv, TypeOK
    <3>5. Accepted(held, j.event) # <<>>
      BY <3>1, AcceptedProperties
    <3> QED
      BY <3>2, <3>4, <3>5 DEF Committing
  <2>6. CASE Flush(t)
    <3>1. j.stage = "draining"
      BY <1>1, <2>6 DEF Flush
    <3>2. k.close = j.close /\ k.stage \in {"closing", "ready"}
      BY <1>1, <1>2, <2>6, CallGoesOn DEF SameCall
    <3>3. j.close
      BY <1>3, <3>1 DEF HeldCall
    <3> QED
      BY <3>2, <3>3
  <2>7. CASE CloseRow(t)
    BY <1>2, <1>4, <2>7, CallGoesOn DEF Committing
  <2>8. CASE CountDelivery(t) /\ job[t].ready # <<>>
    <3>1. k.stage = "ready" /\ k.sub = j.sub /\ k.close = j.close
      BY <1>1, <1>2, <2>8, CallGoesOn DEF SameCall
    <3>2. j.stage = "parked" /\ buffers' = buffers
      BY <1>1, <2>8 DEF CountDelivery
    <3> QED
      BY <1>3, <3>1, <3>2
  <2>9. CASE CommitStep(t)
    <3>1. /\ k.sub = j.sub /\ k.close = j.close /\ buffers' = buffers
          /\ j.stage \in Committing \cup {"ready"} /\ k.stage \in Committing \cup {"closing"}
      BY <1>1, <1>2, <2>9, CommitSteps
    <3>2. k.stage \notin {"admitted", "logged"}
      BY <3>1 DEF Committing
    <3> QED
      BY <1>3, <3>1, <3>2
  <2> QED
    BY <2>1, <2>2, <2>3, <2>4, <2>5, <2>6, <2>7, <2>8, <2>9, UnitSteps
<1>6. k.stage # "idle" => \A i \in DOMAIN k.ready : \A n \in Taken(k.sub)' :
                             KeyOf(n) = k.ready[i].key => n \in k.ready[i].events
  BY <1>2, UnitReady
<1> QED
  BY <1>2, <1>5, <1>6 DEF UnitCall, Whole, KeyOf

LEMMA UnitUnit ==
  ASSUME UnitStep, NEW s \in Subs, NEW key \in Keys
  PROVE  Unit(s, key)'
<1> USE DEF UnitStep
<1>1. PICK arrived : arrived = Arrived(s, key)
  OBVIOUS
<1>2. PICK applied : applied = Applied(s)
  OBVIOUS
<1>3. arrived \cap applied \in {{}, arrived}
        \/ \E t \in Threads : job[t].sub = s /\ Writing(job[t], key)
  BY <1>1, <1>2, UnitNow DEF UnitSub, Unit
<1>4. CASE /\ \A t \in Threads : LogEvent(t) => job[t].sub # s
           /\ \A t \in Threads : WriteReplica(t) => job[t].sub # s
  <2>1. Logged(s)' = Logged(s)
    <3>1. ASSUME NEW t \in Threads, LogEvent(t) PROVE Logged(s)' = Logged(s)
      <4>1. PICK sub \in Subs : sub = job[t].sub
        BY <3>1, CallTypes DEF LogEvent
      <4> QED
        BY <1>4, <3>1, <4>1, LogEventAdds
    <3> QED
      BY <3>1, LoggedSame
  <2>2. Applied(s)' = Applied(s)
    <3>1. ASSUME NEW t \in Threads, WriteReplica(t) PROVE Applied(s)' = Applied(s)
      <4>1. PICK sub \in Subs : sub = job[t].sub
        BY <3>1, CallTypes DEF WriteReplica
      <4> QED
        BY <1>4, <3>1, <4>1, WriteReplicaWrites
    <3> QED
      BY <3>1, AppliedStays, Writers
  <2>3. Arrived(s, key)' = arrived /\ Applied(s)' = applied
    BY <1>1, <1>2, <2>1, <2>2 DEF Arrived, KeyOf
  <2>4. ASSUME NEW t \in Threads, job[t].sub = s, Writing(job[t], key) PROVE job'[t] = job[t]
    <3>1. job[t].stage = "writing"
      BY <2>4 DEF Writing
    <3>2. ~(EndStep(t) \/ CommitStep(t) \/ LogEvent(t) \/ Accept(t) \/ Flush(t) \/ CloseRow(t)
            \/ CountDelivery(t))
      BY <1>4, <2>4, <3>1, UnitNow
         DEF EndStep, CommitStep, FetchUpdate, RefuseDuplicate, RefuseOrder, RefusePlan, Release,
             CountDelivery, CommitCounted, CommitMany, Plan, Invalidate, MarkCommitted,
             CountCommit, LogEvent, Accept, Flush, CloseRow
    <3>3. ~(\E x \in Subs : Fetch(t, x) \/ Close(t, x) \/ \E m \in Events : Deliver(t, x, m))
      BY <3>1 DEF Fetch, Close, Deliver
    <3> QED
      BY <3>2, <3>3, UnitSteps
  <2> QED
    BY <1>3, <2>3, <2>4 DEF Unit, Writing
<1>5. ASSUME NEW t \in Threads, LogEvent(t), job[t].sub = s PROVE Unit(s, key)'
  <2>1. PICK e : e = job[t].event
    OBVIOUS
  <2>2. job[t].stage = "admitted" /\ replica_writes' = replica_writes
    BY <1>5 DEF LogEvent
  <2>3. Logged(s)' = Logged(s) \cup {e} /\ Applied(s)' = applied
    BY <1>2, <1>5, <2>1, <2>2, LogEventAdds, AppliedStays
  <2>4. arrived \cap applied \in {{}, arrived}
    BY <1>3, <2>2 DEF Writing, OneByOne
  <2>5. \A a \in applied : KeyOf(a) # KeyOf(e)
    BY <1>2, <1>5, <2>1, <2>2, NoneApplied
  <2>6. CASE KeyOf(e) = key
    <3>1. \A n \in Arrived(s, key)' : KeyOf(n) = KeyOf(e)
      BY <2>6 DEF Arrived, KeyOf
    <3>2. Arrived(s, key)' \cap Applied(s)' = {}
      BY <2>3, <2>5, <3>1
    <3> QED
      BY <3>2 DEF Unit
  <2>7. CASE KeyOf(e) # key
    <3>1. Arrived(s, key)' = arrived
      BY <1>1, <2>3, <2>7 DEF Arrived, KeyOf
    <3> QED
      BY <2>3, <2>4, <3>1 DEF Unit
  <2> QED
    BY <2>6, <2>7
<1>6. ASSUME NEW t \in Threads, WriteReplica(t), job[t].sub = s PROVE Unit(s, key)'
  <2>1. PICK j : j = job[t]
    OBVIOUS
  <2>2. PICK k : k = job'[t]
    OBVIOUS
  <2>3. PICK e : e = First(j.todo)
    OBVIOUS
  <2>4. j.stage = "writing" /\ j.sub = s
    BY <1>6, <2>1 DEF WriteReplica
  <2>5. PICK c \in DOMAIN j.ready : c = j.current /\ j.todo \subseteq j.ready[c].events
    BY <2>1, <2>4, CallTypes DEF Fits, Applying, Committing
  <2>6. e \in j.todo
    BY <1>6, <2>1, <2>3, <2>4, EventDoneCall DEF WriteReplica, Applying
  <2>7. KeyOf(e) = j.ready[c].key
    BY <2>1, <2>5, <2>6 DEF ClientInv, HeldCall, OnePerKey
  <2>8. Applied(s)' = applied \cup {e}
    BY <1>2, <1>6, <2>1, <2>3, WriteReplicaWrites
  <2>9. Logged(s)' = Logged(s)
    <3>1. \A u \in Threads : ~LogEvent(u)
      BY <2>1, <2>4 DEF LogEvent, OneByOne
    <3> QED
      BY <3>1, LoggedSame
  <2>10. Arrived(s, key)' = arrived
    BY <1>1, <2>9 DEF Arrived, KeyOf
  <2>11. /\ k.sub = s /\ k.ready = j.ready /\ k.current = c
         /\ k.stage \in {"writing", "invalidating"}
    <3>1. j.stage \in Applying /\ EventDone(t, "invalidating")
      BY <1>6, <2>4 DEF WriteReplica, Applying
    <3> QED
      BY <2>1, <2>2, <2>4, <2>5, <3>1, CommitGoesOn DEF SameCall
  <2>12. CASE key = j.ready[c].key
    <3>1. CASE k.stage = "writing"
      BY <2>2, <2>11, <2>12, <3>1 DEF Unit, Writing
    <3>2. CASE k.stage = "invalidating"
      <4>1. OrderCall(job[t])'
        BY <2>2, <3>2, OrderNext DEF OrderInv
      <4>2. j.ready[c].events \subseteq Applied(s)'
        BY <2>2, <2>11, <3>2, <4>1 DEF OrderCall
      <4>3. Whole(s, j.ready[c])
        BY <2>1, <2>4, UnitNow DEF UnitCall
      <4>4. \A n \in Logged(s) : n \in Taken(s)
        BY <2>1, <2>4 DEF Taken, OneByOne
      <4>5. arrived \subseteq j.ready[c].events
        BY <1>1, <2>12, <4>3, <4>4 DEF Arrived, Whole
      <4>6. Arrived(s, key)' \cap Applied(s)' = Arrived(s, key)'
        BY <2>10, <4>2, <4>5
      <4> QED
        BY <4>6 DEF Unit
    <3> QED
      BY <2>11, <3>1, <3>2
  <2>13. CASE key # j.ready[c].key
    <3>1. ~(\E u \in Threads : job[u].sub = s /\ Writing(job[u], key))
      BY <2>1, <2>5, <2>13 DEF OneByOne, Writing
    <3>2. e \notin arrived
      BY <1>1, <2>7, <2>13 DEF Arrived
    <3>3. Arrived(s, key)' \cap Applied(s)' = arrived \cap applied
      BY <2>8, <2>10, <3>2
    <3> QED
      BY <1>3, <2>10, <3>1, <3>3 DEF Unit
  <2> QED
    BY <2>12, <2>13
<1> QED
  BY <1>4, <1>5, <1>6

LEMMA UnitNext ==
  ASSUME OneByOne, Contiguous, TypeInv, LogInv, ClientInv, OrderInv, UnitInv, [Next]_vars
  PROVE  UnitInv'
<1>1. CASE disturbed'
  BY <1>1 DEF UnitInv
<1>2. CASE ~disturbed'
  <2>1. UnitStep
    BY <1>2 DEF UnitStep
  <2>2. ASSUME NEW s \in Subs PROVE UnitSub(s)'
    <3>1. \A n \in Logged(s)' : n \in Applied(s)' \/ Waits(s, n)'
      BY <2>1, UnitAccounted
    <3>2. \A a \in Applied(s)' : Settled(s, a)'
      BY <2>1, UnitSettled
    <3>3. \A i \in DOMAIN buffers'[s] : Whole(s, buffers[s][i])'
      BY <2>1, UnitWhole DEF Whole, KeyOf
    <3>4. \A key \in Keys : Unit(s, key)'
      BY <2>1, UnitUnit
    <3> QED
      BY <3>1, <3>2, <3>3, <3>4 DEF UnitSub
  <2>3. \A t \in Threads : UnitCall(job[t])'
    BY <2>1, UnitCalls
  <2> QED
    BY <2>2, <2>3 DEF UnitInv
<1> QED
  BY <1>1, <1>2

LEMMA UnitInit == Init => UnitInv
<1> SUFFICES ASSUME Init PROVE UnitInv
  OBVIOUS
<1>1. \A s \in Subs : Logged(s) = {} /\ Applied(s) = {} /\ buffers[s] = <<>>
  <2>1. change_log = <<>> /\ \A s \in Subs : buffers[s] = <<>>
    BY DEF Init
  <2>2. \A s \in Subs : Applied(s) \subseteq Logged(s)
    BY LogInit DEF LogInv, AppliedIsLogged
  <2>3. \A s : Logged(s) = {}
    BY <2>1 DEF Logged
  <2> QED
    BY <2>1, <2>2, <2>3
<1>2. ASSUME NEW s \in Subs PROVE UnitSub(s)
  BY <1>1 DEF UnitSub, Unit, Arrived
<1>3. ASSUME NEW t \in Threads PROVE UnitCall(job[t])
  <2>1. job[t] = IdleJob
    BY DEF Init
  <2> QED
    BY <2>1, IdleFields DEF UnitCall, Committing
<1> QED
  BY <1>2, <1>3 DEF UnitInv

(* For a client that sends its requests one by one, over a transport that   *)
(* does not repeat events and a CRM that does not interleave transactions:  *)
(* while no write fails, the replica holds between two requests either all  *)
(* the events of a transaction that arrived or none of them, whichever      *)
(* transactions _commit_many refused and put back on the way.               *)
THEOREM UnitCorrect ==
  ASSUME OneByOne, Contiguous
  PROVE  Spec => []AppliedAsAUnit
<1>1. Init => TypeInv /\ LogInv /\ ClientInv /\ OrderInv /\ UnitInv
  BY TypeInit, LogInit, ClientInit, OrderInit, UnitInit
<1>2. TypeInv /\ LogInv /\ ClientInv /\ OrderInv /\ UnitInv /\ [Next]_vars
        => (TypeInv /\ LogInv /\ ClientInv /\ OrderInv /\ UnitInv)'
  BY TypeNext, LogNext, ClientNext, OrderNext, UnitNext
<1>3. UnitInv => AppliedAsAUnit
  BY DEF UnitInv, UnitSub, Unit, Writing, Arrived, AppliedAsAUnit, Quiet
<1> QED
  BY <1>1, <1>2, <1>3, PTL DEF Spec
=============================================================================
