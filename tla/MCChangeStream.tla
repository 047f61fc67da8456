--------------------------- MODULE MCChangeStream ---------------------------
(* TLC instances of ChangeStream.                                           *)
EXTENDS ChangeStream, TLC

CONSTANTS t1, t2, s1, roomA

Ev(key, needs) == [key |-> key, needs |-> needs]

(* One subscription and its room. *)
JustOne == (s1 :> roomA)

(* A transaction that the channel's enrichment decides about, one that can  *)
(* always be applied and one that never can.                                *)
Enriching == <<Ev("A", "payload"), Ev("A", "enriched"), Ev("B", "payload"),
               Ev("B", "payload"), Ev("C", "nothing")>>
Blocked == <<Ev("A", "enriched"), Ev("B", "payload"), Ev("C", "nothing")>>
Brief == <<Ev("A", "enriched"), Ev("B", "payload")>>
Late == <<Ev("A", "payload"), Ev("B", "enriched")>>

ThreadSymmetry == Permutations({t1, t2})
=============================================================================
