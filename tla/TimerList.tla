----------------------------- MODULE TimerList -----------------------------
(***************************************************************************)
(* The timer list of kern/schedule/sched.c: sorted by expiry, the field    *)
(* `expires' of a timer counts from the timer before it, so that a tick    *)
(* decrements the head only.  Timers have one process each and live on the *)
(* stack of its do_sleep.                                                  *)
(***************************************************************************)
EXTENDS Naturals, Sequences, FiniteSetsExt

CONSTANTS
    Proc,
    MaxSleep    \* bound: the longest sleep a process asks for, in ticks

VARIABLES
    timer_list,     \* sequence of [proc, expires], head first
    inSleep,        \* the processes inside do_sleep
    running         \* run_timer_list is in its loop, at the head of the list

vars == <<timer_list, inSleep, running>>

Timer == [proc : Proc, expires : 0..MaxSleep]

Init == timer_list = << >> /\ inSleep = {} /\ running = FALSE

\* Mutant: the timer behind the new one keeps its ticks.
RECURSIVE add_timer_NoAdjust(_, _)
add_timer_NoAdjust(list, timer) ==
    IF list = << >> \/ timer.expires < Head(list).expires THEN <<timer>> \o list
    ELSE <<Head(list)>> \o
         add_timer_NoAdjust(Tail(list), [timer EXCEPT !.expires = @ - Head(list).expires])

\* add_timer's walk down the list.
RECURSIVE add_timer(_, _)
add_timer(list, timer) ==
    IF list = << >> THEN <<timer>>
    ELSE IF timer.expires < Head(list).expires
      THEN <<timer, [Head(list) EXCEPT !.expires = @ - timer.expires]>>
             \o Tail(list)
    ELSE <<Head(list)>> \o
         add_timer(Tail(list), [timer EXCEPT !.expires = @ - Head(list).expires])

\* The next timer inherits the ticks of the deleted one; a timer that is not
\* linked is left alone.
del_timer(list, p) ==
    LET linked == {i \in 1..Len(list) : list[i].proc = p}
    IN IF linked = {} THEN list
       ELSE LET i == CHOOSE i \in linked : TRUE
            IN [j \in 1..Len(list) - 1 |->
                  IF j < i THEN list[j]
                  ELSE IF j = i
                    THEN [list[j + 1] EXCEPT !.expires = @ + list[i].expires]
                  ELSE list[j + 1]]

\* do_sleep(t) up to its schedule().
Sleep(p, t) ==
    /\ ~ running /\ p \notin inSleep
    /\ timer_list' = add_timer(timer_list, [proc |-> p, expires |-> t])
    /\ inSleep' = inSleep \cup {p}
    /\ UNCHANGED running

\* do_sleep after its schedule(): the timer has expired, or a kill came first.
SleepResume(p) ==
    /\ ~ running /\ p \in inSleep
    /\ timer_list' = del_timer(timer_list, p)
    /\ inSleep' = inSleep \ {p}
    /\ UNCHANGED running

\* run_timer_list up to the condition of its loop.
RunTimerList ==
    /\ ~ running
    /\ IF timer_list = << >> THEN UNCHANGED <<timer_list, running>>
       ELSE /\ timer_list' = [timer_list EXCEPT ![1].expires = @ - 1]
            /\ running' = (timer_list[1].expires = 1)
    /\ UNCHANGED inSleep

\* One iteration: wake the process, delete its timer, look at the next one.
Expire ==
    /\ running
    /\ timer_list' = del_timer(timer_list, Head(timer_list).proc)
    /\ running' = (timer_list' # << >> /\ Head(timer_list').expires = 0)
    /\ UNCHANGED inSleep

Next ==
    \/ \E p \in Proc, t \in 1..MaxSleep : Sleep(p, t)
    \/ \E p \in Proc : SleepResume(p)
    \/ RunTimerList
    \/ Expire

Spec == Init /\ [][Next]_vars
-----------------------------------------------------------------------------
\* assert(timer->expires != 0) of run_timer_list: between two ticks the head
\* still has to run, so no timer that expired together with others was left.
\* `expires' is unsigned, and never taken below 0.
HeadPositive ==
    /\ timer_list \in Seq(Timer)
    /\ ~ running /\ timer_list # << >> => Head(timer_list).expires > 0

\* The ticks a process still has, summed along the list.
Positions(p) == {i \in 1..Len(timer_list) : timer_list[i].proc = p}
Left == [p \in Proc |->
           MapThenSumSet(LAMBDA j : timer_list[j].expires,
                         {j \in 1..Len(timer_list) :
                            \E i \in Positions(p) : j <= i})]
Due == {p \in Proc : running /\ Positions(p) # {} /\ Left[p] = 0}

T == INSTANCE Timers WITH left <- Left, due <- Due

\* The list implements the timers: each process is woken in the tick it asked
\* for, however its timer is placed among the others, and whichever of them
\* are deleted early (add_timer, del_timer, run_timer_list); and the assertion
\* of run_timer_list holds.
ImplementsTimers == T!Spec /\ []HeadPositive
=============================================================================
