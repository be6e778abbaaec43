------------------------------- MODULE Timers -------------------------------
(***************************************************************************)
(* What the kernel timers promise: a process has at most one timer, which  *)
(* expires after the number of clock ticks it was set to and is run in     *)
(* that tick, unless it is deleted first.                                  *)
(***************************************************************************)
EXTENDS Naturals

CONSTANTS Proc, MaxSleep

VARIABLES
    left,   \* ticks until the timer of a process expires, 0: no timer
    due     \* the processes whose timer expired in this tick and was not run

timers == <<left, due>>

Init == left = [p \in Proc |-> 0] /\ due = {}

Add(p, t) == due = {} /\ left[p] = 0 /\ left' = [left EXCEPT ![p] = t] /\ due' = {}

Del(p) == due = {} /\ left' = [left EXCEPT ![p] = 0] /\ due' = {}

Tick ==
    /\ due = {}
    /\ left' = [p \in Proc |-> IF left[p] > 0 THEN left[p] - 1 ELSE 0]
    /\ due' = {p \in Proc : left[p] = 1}

Expire(p) == p \in due /\ due' = due \ {p} /\ left' = left

Next ==
    \/ \E p \in Proc, t \in 1..MaxSleep : Add(p, t)
    \/ \E p \in Proc : Del(p) \/ Expire(p)
    \/ Tick

Spec == Init /\ [][Next]_timers
=============================================================================
