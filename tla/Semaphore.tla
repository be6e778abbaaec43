----------------------------- MODULE Semaphore -----------------------------
(***************************************************************************)
(* One kernel semaphore (kern/sync/sem.c on kern/sync/wait.c) and the      *)
(* processes that use it: down, try_down and, by a process that is inside, *)
(* up.  Every semaphore of the kernel is initialised to 1.  The code       *)
(* between local_intr_save and local_intr_restore, and up to schedule(),   *)
(* is one action.  do_kill may hit a process at any time.                  *)
(***************************************************************************)
EXTENDS Naturals, Sequences, FiniteSets

CONSTANTS
    Proc,
    Permits     \* the value given to sem_init

ASSUME ProcAssumption == IsFiniteSet(Proc)
ASSUME PermitsAssumption == Permits \in Nat

VARIABLES
    value,          \* sem->value
    wait_queue,     \* the processes on sem->wait_queue, first one first
    place,          \* "out", "down": after schedule() in __down, or "in"
    wait_state,     \* proc->wait_state; a process with one sleeps
    wakeup_flags,   \* of the wait_t on the stack of __down
    exiting,        \* PF_EXITING
    failed          \* an assert has failed

vars == <<value, wait_queue, place, wait_state, wakeup_flags, exiting, failed>>

Init ==
    /\ value = Permits
    /\ wait_queue = << >>
    /\ place = [p \in Proc |-> "out"]
    /\ wait_state = [p \in Proc |-> "none"]
    /\ wakeup_flags = [p \in Proc |-> "none"]
    /\ exiting = [p \in Proc |-> FALSE]
    /\ failed = FALSE

Queued(p) == \E i \in 1..Len(wait_queue) : wait_queue[i] = p

\* WT_KSEM is the wait state without the WT_INTERRUPTED bit.
Interruptible(w) == w \notin {"none", "WT_KSEM"}

Down(p) ==
    /\ ~ failed /\ place[p] = "out"
    /\ IF value > 0
         THEN /\ value' = value - 1
              /\ place' = [place EXCEPT ![p] = "in"]
              /\ UNCHANGED <<wait_queue, wait_state, wakeup_flags>>
         ELSE /\ wait_queue' = Append(wait_queue, p)
              /\ place' = [place EXCEPT ![p] = "down"]
              /\ wait_state' = [wait_state EXCEPT ![p] = "WT_KSEM"]
              /\ wakeup_flags' = [wakeup_flags EXCEPT ![p] = "WT_INTERRUPTED"]
              /\ UNCHANGED value
    /\ UNCHANGED <<exiting, failed>>

wait_current_del(p) ==
    IF Queued(p) THEN SelectSeq(wait_queue, LAMBDA q : q # p) ELSE wait_queue

\* Mutant: a process that was killed meanwhile is not run any more.
DownResume_Killed(p) ==
    /\ ~ failed /\ place[p] = "down" /\ wait_state[p] = "none" /\ ~ exiting[p]
    /\ wait_queue' = wait_current_del(p)
    /\ place' = [place EXCEPT ![p] = "in"]
    /\ failed' = (wakeup_flags[p] # "WT_KSEM")
    /\ UNCHANGED <<value, wait_state, wakeup_flags, exiting>>

\* After schedule() in __down, and the assert of down.
DownResume(p) ==
    /\ ~ failed /\ place[p] = "down" /\ wait_state[p] = "none"
    /\ wait_queue' = wait_current_del(p)
    /\ place' = [place EXCEPT ![p] = "in"]
    /\ failed' = (wakeup_flags[p] # "WT_KSEM")
    /\ UNCHANGED <<value, wait_state, wakeup_flags, exiting>>

\* The count is left alone when the semaphore is taken.
TryDown(p) ==
    /\ ~ failed /\ place[p] = "out" /\ value > 0
    /\ value' = value - 1
    /\ place' = [place EXCEPT ![p] = "in"]
    /\ UNCHANGED <<wait_queue, wait_state, wakeup_flags, exiting, failed>>

\* Mutant: the count goes up although the permit is handed to a waiter.
Up_CountsTwice(p) ==
    /\ ~ failed /\ place[p] = "in"
    /\ place' = [place EXCEPT ![p] = "out"]
    /\ value' = value + 1
    /\ IF wait_queue = << >>
         THEN UNCHANGED <<wait_queue, wait_state, wakeup_flags>>
         ELSE LET q == Head(wait_queue)
              IN /\ wait_queue' = Tail(wait_queue)
                 /\ wait_state' = [wait_state EXCEPT ![q] = "none"]
                 /\ wakeup_flags' = [wakeup_flags EXCEPT ![q] = "WT_KSEM"]
    /\ UNCHANGED <<exiting, failed>>

\* Mutant: a waiter is not woken, only the count goes up.
Up_NoWakeup(p) ==
    /\ ~ failed /\ place[p] = "in"
    /\ place' = [place EXCEPT ![p] = "out"]
    /\ value' = value + 1
    /\ UNCHANGED <<wait_queue, wait_state, wakeup_flags, exiting, failed>>

\* Mutant: wait_queue_last instead of wait_queue_first.
Up_WakesLast(p) ==
    /\ ~ failed /\ place[p] = "in"
    /\ place' = [place EXCEPT ![p] = "out"]
    /\ IF wait_queue = << >>
         THEN /\ value' = value + 1
              /\ UNCHANGED <<wait_queue, wait_state, wakeup_flags>>
         ELSE LET q == wait_queue[Len(wait_queue)]
              IN /\ wait_queue' = SubSeq(wait_queue, 1, Len(wait_queue) - 1)
                 /\ wait_state' = [wait_state EXCEPT ![q] = "none"]
                 /\ wakeup_flags' = [wakeup_flags EXCEPT ![q] = "WT_KSEM"]
                 /\ UNCHANGED value
    /\ UNCHANGED <<exiting, failed>>

\* Mutant: wakeup_wait does not note why the waiter is woken.
Up_NoFlags(p) ==
    /\ ~ failed /\ place[p] = "in"
    /\ place' = [place EXCEPT ![p] = "out"]
    /\ IF wait_queue = << >>
         THEN value' = value + 1 /\ UNCHANGED <<wait_queue, wait_state>>
         ELSE /\ wait_queue' = Tail(wait_queue)
              /\ wait_state' = [wait_state EXCEPT ![Head(wait_queue)] = "none"]
              /\ UNCHANGED value
    /\ UNCHANGED <<wakeup_flags, exiting, failed>>

\* __up hands the permit to the first waiter, whose wait state it asserts.
Up(p) ==
    /\ ~ failed /\ place[p] = "in"
    /\ place' = [place EXCEPT ![p] = "out"]
    /\ IF wait_queue = << >>
         THEN /\ value' = value + 1
              /\ UNCHANGED <<wait_queue, wait_state, wakeup_flags, failed>>
         ELSE LET q == Head(wait_queue)
              IN /\ wait_queue' = Tail(wait_queue)
                 /\ wait_state' = [wait_state EXCEPT ![q] = "none"]
                 /\ wakeup_flags' = [wakeup_flags EXCEPT ![q] = "WT_KSEM"]
                 /\ failed' = (wait_state[q] # "WT_KSEM")
                 /\ UNCHANGED value
    /\ UNCHANGED exiting

\* do_kill; a killed process exits on its way to user mode, outside.
Kill(p) ==
    /\ ~ failed /\ ~ exiting[p]
    /\ exiting' = [exiting EXCEPT ![p] = TRUE]
    /\ wait_state' = [wait_state EXCEPT ![p] =
                        IF Interruptible(@) THEN "none" ELSE @]
    /\ UNCHANGED <<value, wait_queue, place, wakeup_flags, failed>>

Next == \E p \in Proc :
    Down(p) \/ DownResume(p) \/ TryDown(p) \/ Up(p) \/ Kill(p)

\* A woken process gets to run and leaves __down: nobody keeps the CPU for ever
\* (Cooperation of ProcSched).  Whoever is inside leaves the section it protects.
Fairness == \A p \in Proc : WF_vars(DownResume(p)) /\ WF_vars(Up(p))

Spec == Init /\ [][Next]_vars
FairSpec == Spec /\ Fairness
-----------------------------------------------------------------------------
\* The one type invariant; sem->value never goes below zero.
TypeOK ==
    /\ value \in 0..Permits
    /\ wait_queue \in Seq(Proc)
    /\ place \in [Proc -> {"out", "down", "in"}]
    /\ wait_state \in [Proc -> {"none", "WT_KSEM"}]
    /\ wakeup_flags \in [Proc -> {"none", "WT_INTERRUPTED", "WT_KSEM"}]
    /\ exiting \in [Proc -> BOOLEAN]
    /\ failed \in BOOLEAN

\* down never returns without the semaphore, whoever is killed while it waits:
\* assert(flags == 0) of down and the assert of __up on the waiter hold.
DownSucceeds == ~ failed

\* Who holds a permit: inside, or woken by __up and not yet back in __down.
Holders == {p \in Proc : \/ place[p] = "in"
                         \/ place[p] = "down" /\ wait_state[p] = "none"}

\* Permits are neither lost nor made when __up hands one over: with sem_init's
\* value 1 at most one process is between down and up.
PermitsConserved == value + Cardinality(Holders) = Permits

\* Nobody sleeps while there is a permit, and exactly the sleepers are queued,
\* each once, so every __up finds the next one (__down, __up).
NoLostWakeup ==
    /\ wait_queue # << >> => value = 0
    /\ \A p \in Proc : Queued(p) <=> wait_state[p] = "WT_KSEM"
    /\ \A i, j \in 1..Len(wait_queue) :
         wait_queue[i] = wait_queue[j] => i = j

\* First come, first served: nobody enters past a waiter, not even between
\* the __up that wakes it and its return from __down.
NoOvertaking ==
    [][/\ \A p \in Proc : place[p] = "out" /\ place'[p] = "in"
                            => wait_queue = << >>
       /\ \A i, j \in 1..Len(wait_queue) :
            i < j /\ wait_state'[wait_queue[j]] = "none"
              => wait_state'[wait_queue[i]] = "none"]_vars

\* Whoever waits in __down gets in.
WaitersEnter == \A p \in Proc : place[p] = "down" ~> place[p] = "in"
=============================================================================
