------------------------------- MODULE GetPid -------------------------------
(***************************************************************************)
(* get_pid of kern/process/proc.c with the list it walks: do_fork adds a   *)
(* process to proc_list under the pid that get_pid returns, do_wait takes  *)
(* a dead one off.  The walk is one action per process of the list, so     *)
(* that its restarts and its end can be observed.  last_pid and next_safe  *)
(* are static: between two calls, [last_pid + 1, next_safe) is taken to be *)
(* free without looking at the list.                                       *)
(***************************************************************************)
EXTENDS Naturals, Sequences

CONSTANTS MAX_PROCESS, MAX_PID

ASSUME MaxAssumption ==
    MAX_PROCESS \in Nat /\ MAX_PID \in Nat /\ MAX_PID > MAX_PROCESS

VARIABLES
    proc_list,      \* pids of proc_list, the newest process first
    nr_process,     \* with idleproc, which is not on the list
    last_pid,
    next_safe,
    le,             \* the walk's place in proc_list; 0 outside get_pid
    prev            \* history: the pid that the last call returned

pid_vars == <<proc_list, nr_process, last_pid, next_safe, le, prev>>

\* proc_init, before it starts init_main.
PidInit ==
    /\ proc_list = << >> /\ nr_process = 1
    /\ last_pid = MAX_PID /\ next_safe = MAX_PID
    /\ le = 0 /\ prev = MAX_PID

Live == {proc_list[j] : j \in 1..Len(proc_list)}

\* get_pid returns pid; the rest of do_fork.
Return(pid) ==
    /\ proc_list' = <<pid>> \o proc_list
    /\ nr_process' = nr_process + 1
    /\ le' = 0
    /\ prev' = pid

\* Mutant: do_fork does not look at nr_process.
ForkAllowed_Always == le = 0

\* do_fork goes on to get_pid; a failure before that leaves no trace here.
ForkAllowed == le = 0 /\ nr_process < MAX_PROCESS

\* Mutant: the walk is skipped also when last_pid meets next_safe.
Fast_OffByOne ==
    /\ ForkAllowed /\ last_pid + 1 < MAX_PID /\ last_pid < next_safe
    /\ last_pid' = last_pid + 1
    /\ Return(last_pid')
    /\ UNCHANGED next_safe

\* The next pid is known to be free.
Fast ==
    /\ ForkAllowed /\ last_pid + 1 < MAX_PID /\ last_pid + 1 < next_safe
    /\ last_pid' = last_pid + 1
    /\ Return(last_pid')
    /\ UNCHANGED next_safe

\* To the label "inside".
Inside ==
    /\ ForkAllowed
    /\ last_pid + 1 >= MAX_PID \/ last_pid + 1 >= next_safe
    /\ last_pid' = IF last_pid + 1 >= MAX_PID THEN 1 ELSE last_pid + 1
    /\ next_safe' = MAX_PID
    /\ le' = 1
    /\ UNCHANGED <<proc_list, nr_process, prev>>

\* Mutant: the numbering starts again at 1 whenever the walk starts over.
Step_FromOne ==
    /\ le \in 1..Len(proc_list)
    /\ LET pid == proc_list[le]
           over == pid = last_pid /\ last_pid + 1 >= next_safe
       IN /\ last_pid' = IF over THEN 1
                         ELSE IF pid = last_pid THEN last_pid + 1 ELSE last_pid
          /\ next_safe' = IF over THEN MAX_PID
                          ELSE IF pid > last_pid /\ next_safe > pid THEN pid
                          ELSE next_safe
          /\ le' = IF over THEN 1 ELSE le + 1
    /\ UNCHANGED <<proc_list, nr_process, prev>>

\* One turn of the while loop.
Step ==
    /\ le \in 1..Len(proc_list)
    /\ LET pid == proc_list[le]
       IN \/ /\ pid = last_pid /\ last_pid + 1 >= next_safe
             /\ last_pid' = IF last_pid + 1 >= MAX_PID THEN 1 ELSE last_pid + 1
             /\ next_safe' = MAX_PID
             /\ le' = 1
          \/ /\ pid = last_pid /\ last_pid + 1 < next_safe
             /\ last_pid' = last_pid + 1
             /\ le' = le + 1
             /\ UNCHANGED next_safe
          \/ /\ pid # last_pid
             /\ next_safe' = IF pid > last_pid /\ next_safe > pid
                               THEN pid ELSE next_safe
             /\ le' = le + 1
             /\ UNCHANGED last_pid
    /\ UNCHANGED <<proc_list, nr_process, prev>>

\* The walk is back at the head of the list.
Done ==
    /\ le > Len(proc_list)
    /\ Return(last_pid)
    /\ UNCHANGED <<last_pid, next_safe>>

\* do_wait reaps any process but init_main, which never exits; remove_links.
Reap ==
    /\ le = 0
    /\ \E j \in 1..Len(proc_list) - 1 :
         proc_list' = SubSeq(proc_list, 1, j - 1)
                        \o SubSeq(proc_list, j + 1, Len(proc_list))
    /\ nr_process' = nr_process - 1
    /\ UNCHANGED <<last_pid, next_safe, le, prev>>

PidNext == Fast \/ Inside \/ Step \/ Done \/ Reap

PidSpec == PidInit /\ [][PidNext]_pid_vars

\* get_pid is not preempted for ever.
FairPidSpec == PidSpec /\ WF_pid_vars(Step) /\ WF_pid_vars(Done)
-----------------------------------------------------------------------------
\* The type invariant; every pid is in 1..MAX_PID - 1, as find_proc wants.
PidTypeOK ==
    /\ proc_list \in Seq(1..MAX_PID - 1)
    /\ nr_process = Len(proc_list) + 1
    /\ last_pid \in 1..MAX_PID /\ next_safe \in 1..MAX_PID
    /\ le \in 0..Len(proc_list) + 1
    /\ prev \in 1..MAX_PID

\* "alloc a unique pid for process": no two processes have the same pid,
\* however many times the numbering has gone around.
PidsUnique ==
    \A i, j \in 1..Len(proc_list) : proc_list[i] = proc_list[j] => i = j

\* What get_pid remembers from the last walk is still true at the next call,
\* after any number of forks and exits: the next call may trust it.
CacheSound ==
    /\ le = 0 => \A p \in Live : ~ (last_pid < p /\ p < next_safe)
    /\ le > 0 => \A j \in 1..le - 1 :
                   proc_list[j] < last_pid \/ proc_list[j] >= next_safe

\* get_pid hands out pids in cyclic order (PidAllocator).
Allocator == INSTANCE PidAllocator WITH live <- Live, last <- prev
CyclicOrder == Allocator!Spec

\* The walk ends: there is always a free pid to be found.
WalkEnds == le > 0 ~> le = 0
=============================================================================
