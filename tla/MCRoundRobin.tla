---------------------------- MODULE MCRoundRobin ----------------------------
(* TLC instances of RoundRobin.                                             *)
EXTENDS RoundRobin, TLC

CONSTANTS t1, t2

AllFree == [assignable |-> TRUE, busy |-> {}]
BusyLate == [assignable |-> TRUE, busy |-> {2}]
Unlicensed == [assignable |-> FALSE, busy |-> {}]

AnyCalendar == {AllFree, BusyLate, Unlicensed}
JustFree == {AllFree}
EvenWeights == <<1, 1>>

ThreadSymmetry == Permutations({t1, t2})
=============================================================================
