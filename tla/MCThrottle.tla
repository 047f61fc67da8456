----------------------------- MODULE MCThrottle -----------------------------
(* TLC instances of Throttle.                                               *)
EXTENDS Throttle, TLC

CONSTANTS t1, t2

ThreadSymmetry == Permutations({t1, t2})
=============================================================================
