---------------------------- MODULE MCTimerPool ----------------------------
(* Small instances of TimerPool for TLC. *)
EXTENDS TimerPool, TLC

CONSTANTS a, b, c

TimerSymmetry == Permutations({a, b, c})
=============================================================================
