---------------------------- MODULE MCTimerList ----------------------------
(* Model checking of TimerList. *)
EXTENDS TimerList, TLC

Symmetry == Permutations(Proc)
=============================================================================
