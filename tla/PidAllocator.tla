---------------------------- MODULE PidAllocator ----------------------------
(***************************************************************************)
(* What get_pid promises (kern/process/proc.c): pids are handed out in     *)
(* cyclic order.  A new process gets the first free pid after the one      *)
(* handed out last, so a pid that was freed is not given again before the  *)
(* other free ones have had their turn.                                    *)
(***************************************************************************)
EXTENDS Naturals

CONSTANT MAX_PID

VARIABLES
    live,   \* the pids in use
    last    \* the pid handed out last; MAX_PID at first

Pids == 1..MAX_PID - 1

\* The pids passed on the way from a to b, going up and around, both excluded.
Passed(a, b) == {x \in Pids : IF a < b THEN a < x /\ x < b ELSE a < x \/ x < b}

Init == live = {} /\ last = MAX_PID

Alloc ==
    \E p \in Pids \ live :
      /\ Passed(last, p) \subseteq live
      /\ live' = live \cup {p}
      /\ last' = p

Free == \E p \in live : live' = live \ {p} /\ UNCHANGED last

Next == Alloc \/ Free

Spec == Init /\ [][Next]_<<live, last>>
=============================================================================
