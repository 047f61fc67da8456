--------------------------- MODULE MCEventStream ---------------------------
(* TLC instances of EventStream: two subscriptions of one webhook. *)
EXTENDS EventStream, TLC

CONSTANTS t1, t2, h1

OneWebhook == <<h1, h1>>

(* Both match, or the filter of the first one does not. *)
AnyInterest == {<<"match", "match">>, <<"excluded", "match">>}

(* Sound: the properties are invariants and name no thread. *)
ThreadSymmetry == Permutations({t1, t2})
=============================================================================
