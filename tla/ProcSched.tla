----------------------------- MODULE ProcSched -----------------------------
(***************************************************************************)
(* Processes of ucore: fork, exit, wait, kill, sleep and the read of the   *)
(* console, with the round-robin scheduler, the clock and serial           *)
(* interrupts and the two kernel threads idleproc and initproc             *)
(* (kern/process/proc.c, kern/schedule, kern/trap/trap.c).                 *)
(*                                                                         *)
(* Where interrupts happen.  exception.S clears Status.IE before it calls  *)
(* mips_trap, so a system call runs without interruption up to the next    *)
(* schedule() or the return to user mode: it is one action here, and so is *)
(* the rest of a call resumed after schedule().  load_icode takes the      *)
(* status of a program from that cleared register (proc.c:692-696) and     *)
(* fork copies it, so user code runs with IE = 0 and nothing preempts it.  *)
(* Interrupts are taken in the kernel threads only: cpu_idle, init_main    *)
(* and user_main, whose code is therefore cut where an interrupt can       *)
(* change what follows.  The two loops of the interrupt handlers are one   *)
(* action per iteration, and nothing else is enabled while `intr' is not   *)
(* "none".                                                                 *)
(***************************************************************************)
EXTENDS Naturals, Sequences

CONSTANTS
    User,           \* the proc_structs that do_fork can hand out
    idleproc,       \* pid 0, cpu_idle
    initproc,       \* pid 1, init_main
    MaxTimeSlice,   \* rq->max_time_slice
    MaxSleep,       \* bound: the longest sleep a process asks for, in ticks
    BufSize,        \* STDIN_BUFSIZE
    AnyPid          \* the pid argument 0 of do_wait

ASSUME ThreadsAssumption ==
    /\ idleproc # initproc
    /\ idleproc \notin User
    /\ initproc \notin User
ASSUME AnyAssumption == AnyPid \notin User
ASSUME BoundsAssumption ==
    /\ MaxTimeSlice \in Nat \ {0}
    /\ MaxSleep \in Nat \ {0}
    /\ BufSize \in Nat \ {0}

Proc == User \cup {idleproc, initproc}

\* proc->state; PROC_UNINIT exists only inside do_fork, "FREE" is a slot
\* without a proc_struct.
States == {"FREE", "UNINIT", "SLEEPING", "RUNNABLE", "ZOMBIE"}

\* proc->wait_state.  All three have the WT_INTERRUPTED bit.
WaitStates == {"none", "WT_CHILD", "WT_TIMER", "WT_KBD"}

\* Where a process continues when it is switched to.
PCs == {"user",         \* user mode
        "do_wait",      \* after schedule() in do_wait
        "do_sleep",     \* after schedule() in do_sleep
        "stdin_read",   \* after schedule() in dev_stdin_read
        "user_main",    \* kernel thread, before kernel_execve
        "cpu_idle",
        "init_main",    \* before kernel_thread(user_main)
        "init_wait",    \* at the head of do_wait's loop
        "init_block",   \* SLEEPING, before do_wait calls schedule()
        "init_woken",   \* after that schedule()
        "init_yield",   \* do_wait returned 0, before schedule()
        "init_done"}    \* do_wait failed, before the asserts

VARIABLES
    \* proc_struct
    state, waitState, exiting, needResched, timeSlice, parent,
    runQueue,       \* rq->run_list, head first
    current,
    panic,          \* "none", or why the kernel stopped
    pc,
    waitPid,        \* do_wait's argument pid
    left,           \* ticks until the timer of a process expires, 0: no timer
    due,            \* timers expired in this tick and not yet run
    stdinQueue,     \* the processes whose wait_t is on dev_stdin's wait_queue
    kbdFlag,        \* wait->wakeup_flags == WT_KBD
    unread,         \* p_wpos - p_rpos of dev_stdin
    intr,           \* the place in the interrupt handler, or "none"
    cause           \* the interrupts still to be handled in this trap

procVars == <<state, waitState, exiting, needResched, timeSlice, parent,
              runQueue, current, panic>>
timerVars == <<left, due>>
stdinVars == <<stdinQueue, kbdFlag, unread>>
intrVars == <<intr, cause>>
vars == <<procVars, pc, waitPid, timerVars, stdinVars, intrVars>>

-----------------------------------------------------------------------------
(* The functions of proc.c and sched.c, as functions of the kernel's       *)
(* process state k.                                                        *)

K == [state |-> state, waitState |-> waitState, exiting |-> exiting,
      needResched |-> needResched, timeSlice |-> timeSlice,
      parent |-> parent, runQueue |-> runQueue, current |-> current,
      panic |-> panic]

\* The quantifier names the value, so that it is computed once.
Become(new) == \E k \in {new} :
    /\ state' = k.state
    /\ waitState' = k.waitState
    /\ exiting' = k.exiting
    /\ needResched' = k.needResched
    /\ timeSlice' = k.timeSlice
    /\ parent' = k.parent
    /\ runQueue' = k.runQueue
    /\ current' = k.current
    /\ panic' = k.panic

Queued(k, p) == \E i \in 1..Len(k.runQueue) : k.runQueue[i] = p

\* Mutant: the process goes to the head of the list (list_add_after).
Enqueue_Head(k, p) ==
    IF p = idleproc THEN k
    ELSE [k EXCEPT
            !.panic = IF Queued(k, p) THEN "assert" ELSE @,
            !.runQueue = <<p>> \o @,
            !.timeSlice[p] = IF @ = 0 \/ @ > MaxTimeSlice
                               THEN MaxTimeSlice ELSE @]

\* sched_class_enqueue and RR_enqueue, with its assert(list_empty(run_link)).
Enqueue(k, p) ==
    IF p = idleproc THEN k
    ELSE [k EXCEPT
            !.panic = IF Queued(k, p) THEN "assert" ELSE @,
            !.runQueue = Append(@, p),
            !.timeSlice[p] = IF @ = 0 \/ @ > MaxTimeSlice
                               THEN MaxTimeSlice ELSE @]

\* Its assert fails on a zombie; a slot without a proc_struct counts as one.
wakeup_proc(k, p) ==
    IF k.state[p] \in {"ZOMBIE", "FREE"}
      THEN [k EXCEPT !.panic = "assert"]
    ELSE IF k.state[p] # "RUNNABLE"
      THEN LET k1 == [k EXCEPT !.state[p] = "RUNNABLE",
                               !.waitState[p] = "none"]
           IN IF p # k.current THEN Enqueue(k1, p) ELSE k1
    ELSE k

\* Mutant: current is queued again whatever its state.
schedule_AlwaysQueues(k) ==
    LET k2 == Enqueue([k EXCEPT !.needResched[k.current] = FALSE], k.current)
    IN IF k2.runQueue = << >>
         THEN [k2 EXCEPT !.current = idleproc]
         ELSE [k2 EXCEPT !.current = Head(k2.runQueue),
                         !.runQueue = Tail(@)]

schedule(k) ==
    LET k1 == [k EXCEPT !.needResched[k.current] = FALSE]
        k2 == IF k.state[k.current] = "RUNNABLE"
                THEN Enqueue(k1, k.current) ELSE k1
    IN IF k2.runQueue = << >>
         THEN [k2 EXCEPT !.current = idleproc]
         ELSE [k2 EXCEPT !.current = Head(k2.runQueue),
                         !.runQueue = Tail(@)]

Children(k, p) == {c \in User : k.state[c] # "FREE" /\ k.parent[c] = p}

\* Mutant: children that still live keep the parent that exits.
Reparent_ZombiesOnly(k, p) ==
    LET kids == {c \in Children(k, p) : k.state[c] = "ZOMBIE"}
        k1 == [k EXCEPT !.parent =
                 [c \in Proc |-> IF c \in kids THEN initproc ELSE @[c]]]
    IN IF kids # {} /\ k.waitState[initproc] = "WT_CHILD"
         THEN wakeup_proc(k1, initproc) ELSE k1

\* The loop over cptr wakes initproc at the first zombie child it moves.
Reparent(k, p) ==
    LET kids == Children(k, p)
        k1 == [k EXCEPT !.parent =
                 [c \in Proc |-> IF c \in kids THEN initproc ELSE @[c]]]
    IN IF /\ \E c \in kids : k.state[c] = "ZOMBIE"
          /\ k.waitState[initproc] = "WT_CHILD"
         THEN wakeup_proc(k1, initproc) ELSE k1

\* Mutant: the parent is not woken.
do_exit_NoWakeup(k) ==
    IF k.current \in {idleproc, initproc}
      THEN [k EXCEPT !.panic = "initproc exit"]
      ELSE schedule(Reparent([k EXCEPT !.state[k.current] = "ZOMBIE"], k.current))

do_exit(k) ==
    LET p == k.current
        k1 == [k EXCEPT !.state[p] = "ZOMBIE"]
        k2 == IF k.waitState[k.parent[p]] = "WT_CHILD"
                THEN wakeup_proc(k1, k.parent[p]) ELSE k1
    IN IF p \in {idleproc, initproc}
         THEN [k EXCEPT !.panic = "initproc exit"]
         ELSE schedule(Reparent(k2, p))

\* The end of mips_trap for a trap from user mode.
trap_return(k) ==
    IF k.exiting[k.current] THEN do_exit(k)
    ELSE IF k.needResched[k.current] THEN schedule(k)
    ELSE k

\* alloc_proc, set_links and wakeup_proc of a successful do_fork.
do_fork(k, c) ==
    wakeup_proc([k EXCEPT !.state[c] = "UNINIT",
                          !.waitState[c] = "none",
                          !.exiting[c] = FALSE,
                          !.needResched[c] = FALSE,
                          !.timeSlice[c] = 0,
                          !.parent[c] = k.current], c)

\* do_wait at label found: unhash, unlink and kfree the child.  The fields of
\* a slot without a proc_struct get fixed values.
reap(k, c) ==
    [k EXCEPT !.state[c] = "FREE",
              !.exiting[c] = FALSE,
              !.timeSlice[c] = 0,
              !.parent[c] = idleproc]

\* Mutant: the process is woken whatever its wait_state.
do_kill_AlwaysWakes(k, p) ==
    IF k.exiting[p] THEN k
    ELSE wakeup_proc([k EXCEPT !.exiting[p] = TRUE], p)

do_kill(k, p) ==
    LET k1 == [k EXCEPT !.exiting[p] = TRUE]
    IN IF k.exiting[p] THEN k
       ELSE IF k.waitState[p] # "none" THEN wakeup_proc(k1, p) ELSE k1

\* Set state and wait_state of current.
sleep_on(k, w) ==
    [k EXCEPT !.state[k.current] = "SLEEPING", !.waitState[k.current] = w]

\* RR_proc_tick, or need_resched for idleproc.
sched_class_proc_tick(k) ==
    LET p == k.current
        ts == IF k.timeSlice[p] > 0 THEN k.timeSlice[p] - 1 ELSE 0
    IN IF p = idleproc THEN [k EXCEPT !.needResched[p] = TRUE]
       ELSE [k EXCEPT !.timeSlice[p] = ts,
                      !.needResched[p] = IF ts = 0 THEN TRUE ELSE @]

-----------------------------------------------------------------------------
\* proc_init: idleproc runs and has created initproc.
Init ==
    /\ state = [p \in Proc |-> IF p \in User THEN "FREE" ELSE "RUNNABLE"]
    /\ waitState = [p \in Proc |-> "none"]
    /\ exiting = [p \in Proc |-> FALSE]
    /\ needResched = [p \in Proc |-> p = idleproc]
    /\ timeSlice = [p \in Proc |-> IF p = initproc THEN MaxTimeSlice ELSE 0]
    /\ parent = [p \in Proc |-> idleproc]
    /\ runQueue = <<initproc>>
    /\ current = idleproc
    /\ panic = "none"
    /\ pc = [p \in Proc |-> IF p = idleproc THEN "cpu_idle"
                            ELSE IF p = initproc THEN "init_main"
                            ELSE "user"]
    /\ waitPid = [p \in Proc |-> AnyPid]
    /\ left = [p \in Proc |-> 0]
    /\ due = {}
    /\ stdinQueue = {}
    /\ kbdFlag = [p \in Proc |-> FALSE]
    /\ unread = 0
    /\ intr = "none"
    /\ cause = {}

\* current executes, outside the interrupt handler, from the place l.
Runs(l) == panic = "none" /\ intr = "none" /\ pc[current] = l

Goto(l) == pc' = [pc EXCEPT ![current] = l]

(* System calls and other traps of user mode. *)

\* A trap that leaves the process state alone: a handled page fault or TLB
\* miss, getpid, write, exec..., and a call that returns an error (do_fork
\* without memory, do_kill of an unknown pid, do_sleep(0)).
OtherTrap ==
    /\ Runs("user")
    /\ Become(trap_return(K))
    /\ UNCHANGED <<pc, waitPid, timerVars, stdinVars, intrVars>>

Fork(c) ==
    /\ Runs("user")
    /\ state[c] = "FREE"
    /\ Become(trap_return(do_fork(K, c)))
    /\ pc' = [pc EXCEPT ![c] = "user"]
    /\ UNCHANGED <<waitPid, timerVars, stdinVars, intrVars>>

\* sys_exit, a failed exec, and every exception that kills the process.
Exit ==
    /\ Runs("user")
    /\ Become(do_exit(K))
    /\ UNCHANGED <<pc, waitPid, timerVars, stdinVars, intrVars>>

\* find_proc knows every process but idleproc, zombies included.
Kill(p) ==
    /\ Runs("user")
    /\ state[p] # "FREE"
    /\ Become(trap_return(do_kill(K, p)))
    /\ UNCHANGED <<pc, waitPid, timerVars, stdinVars, intrVars>>

Yield ==
    /\ Runs("user")
    /\ Become(trap_return([K EXCEPT !.needResched[current] = TRUE]))
    /\ UNCHANGED <<pc, waitPid, timerVars, stdinVars, intrVars>>

\* Mutant: a wait for a given pid does not ask whose child it is.
WaitRound_AnyChild(pid) ==
    LET kids == {c \in User : /\ state[c] # "FREE"
                              /\ parent[c] = current \/ pid = c
                              /\ pid \in {AnyPid, c}}
        zombies == {c \in kids : state[c] = "ZOMBIE"}
    IN \/ \E c \in zombies :
            /\ Become(trap_return(reap(K, c)))
            /\ Goto("user")
            /\ waitPid' = [waitPid EXCEPT ![current] = AnyPid]
       \/ /\ kids # {} /\ zombies = {}
          /\ Become(schedule(sleep_on(K, "WT_CHILD")))
          /\ Goto("do_wait")
          /\ waitPid' = [waitPid EXCEPT ![current] = pid]
       \/ /\ kids = {}
          /\ Become(trap_return(K))
          /\ Goto("user")
          /\ waitPid' = [waitPid EXCEPT ![current] = AnyPid]

\* One round of the loop of do_wait, and the return if it ends the loop.
\* Which zombie the scan finds first is left open.
WaitRound(pid) ==
    LET kids == {c \in Children(K, current) : pid \in {AnyPid, c}}
        zombies == {c \in kids : state[c] = "ZOMBIE"}
    IN \/ \E c \in zombies :
            /\ Become(trap_return(reap(K, c)))
            /\ Goto("user")
            /\ waitPid' = [waitPid EXCEPT ![current] = AnyPid]
       \/ /\ kids # {} /\ zombies = {}
          /\ Become(schedule(sleep_on(K, "WT_CHILD")))
          /\ Goto("do_wait")
          /\ waitPid' = [waitPid EXCEPT ![current] = pid]
       \/ /\ kids = {}
          /\ Become(trap_return(K))
          /\ Goto("user")
          /\ waitPid' = [waitPid EXCEPT ![current] = AnyPid]

Wait(pid) ==
    /\ Runs("user")
    /\ WaitRound(pid)
    /\ UNCHANGED <<timerVars, stdinVars, intrVars>>

WaitResume ==
    /\ Runs("do_wait")
    /\ IF exiting[current]
         THEN /\ Become(do_exit(K))
              /\ Goto("user")
              /\ waitPid' = [waitPid EXCEPT ![current] = AnyPid]
         ELSE WaitRound(waitPid[current])
    /\ UNCHANGED <<timerVars, stdinVars, intrVars>>

Sleep(t) ==
    /\ Runs("user")
    /\ left' = [left EXCEPT ![current] = t]
    /\ Become(schedule(sleep_on(K, "WT_TIMER")))
    /\ Goto("do_sleep")
    /\ UNCHANGED <<waitPid, due, stdinVars, intrVars>>

\* Mutant: del_timer is forgotten.
SleepResume_KeepsTimer ==
    /\ Runs("do_sleep")
    /\ Become(trap_return(K))
    /\ Goto("user")
    /\ UNCHANGED <<waitPid, timerVars, stdinVars, intrVars>>

\* del_timer has nothing to do when the timer expired.
SleepResume ==
    /\ Runs("do_sleep")
    /\ left' = [left EXCEPT ![current] = 0]
    /\ Become(trap_return(K))
    /\ Goto("user")
    /\ UNCHANGED <<waitPid, due, stdinVars, intrVars>>

\* dev_stdin_read from label try_again; q is the wait queue.  How many bytes
\* are still wanted, at least one, is left open: the call ends after n bytes,
\* or it takes all there are and sleeps.
TryRead(q) ==
    \/ \E n \in 1..unread :
         /\ unread' = unread - n
         /\ stdinQueue' = q
         /\ Become(trap_return(K))
         /\ Goto("user")
    \/ /\ unread' = 0
       /\ stdinQueue' = q \cup {current}
       /\ Become(schedule(sleep_on(K, "WT_KBD")))
       /\ Goto("stdin_read")

Read ==
    /\ Runs("user")
    /\ TryRead(stdinQueue)
    /\ UNCHANGED <<kbdFlag, waitPid, timerVars, intrVars>>

ReadResume ==
    /\ Runs("stdin_read")
    /\ kbdFlag' = [kbdFlag EXCEPT ![current] = FALSE]
    /\ IF kbdFlag[current]
         THEN TryRead(stdinQueue \ {current})
         ELSE /\ stdinQueue' = stdinQueue \ {current}
              /\ unread' = unread
              /\ Become(trap_return(K))
              /\ Goto("user")
    /\ UNCHANGED <<waitPid, timerVars, intrVars>>

(* The kernel threads. *)

CpuIdle ==
    /\ Runs("cpu_idle")
    /\ needResched[idleproc]
    /\ Become(schedule(K))
    /\ UNCHANGED <<pc, waitPid, timerVars, stdinVars, intrVars>>

\* kernel_thread(user_main).
InitMain(c) ==
    /\ Runs("init_main")
    /\ state[c] = "FREE"
    /\ Become(do_fork(K, c))
    /\ pc' = [pc EXCEPT ![c] = "user_main", ![current] = "init_wait"]
    /\ UNCHANGED <<waitPid, timerVars, stdinVars, intrVars>>

\* kernel_execve traps from kernel mode, so mips_trap skips its last checks;
\* when the exec fails do_execve calls do_exit.
UserMain ==
    /\ Runs("user_main")
    /\ Become(K) \/ Become(do_exit(K))
    /\ Goto("user")
    /\ UNCHANGED <<waitPid, timerVars, stdinVars, intrVars>>

\* do_wait(0, NULL) of init_main, with interrupts enabled.
InitWait ==
    LET kids == Children(K, initproc)
        zombies == {c \in kids : state[c] = "ZOMBIE"}
    IN /\ Runs("init_wait")
       /\ \/ \E c \in zombies : Become(reap(K, c)) /\ Goto("init_yield")
          \/ /\ kids # {} /\ zombies = {}
             /\ Become(sleep_on(K, "WT_CHILD"))
             /\ Goto("init_block")
          \/ /\ kids = {}
             /\ Become(K)
             /\ Goto("init_done")
       /\ UNCHANGED <<waitPid, timerVars, stdinVars, intrVars>>

InitBlock ==
    /\ Runs("init_block")
    /\ Become(schedule(K))
    /\ Goto("init_woken")
    /\ UNCHANGED <<waitPid, timerVars, stdinVars, intrVars>>

InitWoken ==
    /\ Runs("init_woken")
    /\ Become(IF exiting[current] THEN do_exit(K) ELSE K)
    /\ Goto("init_wait")
    /\ UNCHANGED <<waitPid, timerVars, stdinVars, intrVars>>

InitYield ==
    /\ Runs("init_yield")
    /\ Become(schedule(K))
    /\ Goto("init_wait")
    /\ UNCHANGED <<waitPid, timerVars, stdinVars, intrVars>>

\* The asserts on the process lists, then do_exit of the thread that returns.
InitDone ==
    /\ Runs("init_done")
    /\ Become(IF \A c \in User : state[c] = "FREE"
                THEN do_exit(K) ELSE [K EXCEPT !.panic = "assert"])
    /\ UNCHANGED <<pc, waitPid, timerVars, stdinVars, intrVars>>

(* Interrupts. *)

KernelThread == {"cpu_idle", "user_main", "init_main", "init_wait",
                 "init_block", "init_woken", "init_yield", "init_done"}

\* kernel_thread sets Status.IE (proc.c:264), load_icode does not.
Interrupt(c) ==
    /\ panic = "none" /\ intr = "none"
    /\ pc[current] \in KernelThread
    /\ intr' = "dispatch"
    /\ cause' = c
    /\ UNCHANGED <<procVars, pc, waitPid, timerVars, stdinVars>>

Handles(l) == panic = "none" /\ intr = l

\* serial_int_handler; cons_getc may have no character, which
\* dev_stdin_write ignores.
SerialInt ==
    /\ Handles("dispatch")
    /\ "COM1_IRQ" \in cause
    /\ cause' = cause \ {"COM1_IRQ"}
    /\ \/ /\ intr' = intr
          /\ unread' = unread
       \/ /\ intr' = "wakeup_queue"
          /\ unread' = IF unread < BufSize THEN unread + 1 ELSE unread
    /\ UNCHANGED <<procVars, pc, waitPid, timerVars, stdinQueue, kbdFlag>>

\* One iteration of wakeup_queue(wait_queue, WT_KBD, 1).
WakeupQueue(p) ==
    /\ Handles("wakeup_queue")
    /\ p \in stdinQueue
    /\ stdinQueue' = stdinQueue \ {p}
    /\ kbdFlag' = [kbdFlag EXCEPT ![p] = TRUE]
    /\ Become(wakeup_proc(K, p))
    /\ UNCHANGED <<pc, waitPid, timerVars, unread, intrVars>>

WakeupQueueEnd ==
    /\ Handles("wakeup_queue")
    /\ stdinQueue = {}
    /\ intr' = "dispatch"
    /\ UNCHANGED <<procVars, pc, waitPid, timerVars, stdinVars, cause>>

\* Mutant: of the timers that expire in one tick only one is run.
ClockInt_OneTimer ==
    /\ Handles("dispatch")
    /\ cause = {"TIMER0_IRQ"}
    /\ cause' = {}
    /\ left' = [p \in Proc |-> IF left[p] > 0 THEN left[p] - 1 ELSE 0]
    /\ due' = LET S == {p \in Proc : left[p] = 1}
              IN IF S = {} THEN {} ELSE {CHOOSE p \in S : TRUE}
    /\ intr' = "run_timer_list"
    /\ UNCHANGED <<procVars, pc, waitPid, stdinVars>>

\* clock_int_handler and the head of run_timer_list; COM1_IRQ is the lower bit
\* and handled first.
ClockInt ==
    /\ Handles("dispatch")
    /\ cause = {"TIMER0_IRQ"}
    /\ cause' = {}
    /\ left' = [p \in Proc |-> IF left[p] > 0 THEN left[p] - 1 ELSE 0]
    /\ due' = {p \in Proc : left[p] = 1}
    /\ intr' = "run_timer_list"
    /\ UNCHANGED <<procVars, pc, waitPid, stdinVars>>

\* One expired timer of run_timer_list.
RunTimer(p) ==
    /\ Handles("run_timer_list")
    /\ p \in due
    /\ due' = due \ {p}
    /\ Become(wakeup_proc(K, p))
    /\ UNCHANGED <<pc, waitPid, left, stdinVars, intrVars>>

\* Mutant: the loop of run_timer_list stops while timers are due.
ProcTick_Early ==
    /\ Handles("run_timer_list")
    /\ Become(sched_class_proc_tick(K))
    /\ intr' = "dispatch"
    /\ UNCHANGED <<pc, waitPid, timerVars, stdinVars, cause>>

ProcTick ==
    /\ Handles("run_timer_list")
    /\ due = {}
    /\ Become(sched_class_proc_tick(K))
    /\ intr' = "dispatch"
    /\ UNCHANGED <<pc, waitPid, timerVars, stdinVars, cause>>

\* A handler always returns to kernel mode, for which mips_trap skips its last
\* checks.
InterruptReturn ==
    /\ Handles("dispatch")
    /\ cause = {}
    /\ intr' = "none"
    /\ UNCHANGED <<procVars, pc, waitPid, timerVars, stdinVars, cause>>

\* panic() does not return.
Halted == panic # "none" /\ UNCHANGED vars

-----------------------------------------------------------------------------
UserNext ==
    \/ OtherTrap \/ Exit \/ Yield \/ Read
    \/ \E c \in User : Fork(c)
    \/ \E p \in User \cup {initproc} : Kill(p)
    \/ \E pid \in User \cup {AnyPid} : Wait(pid)
    \/ \E t \in 1..MaxSleep : Sleep(t)

KernelNext ==
    \/ WaitResume \/ SleepResume \/ ReadResume
    \/ CpuIdle \/ UserMain
    \/ \E c \in User : InitMain(c)
    \/ InitWait \/ InitBlock \/ InitWoken \/ InitYield \/ InitDone

HandlerNext ==
    \/ SerialInt \/ WakeupQueueEnd \/ ClockInt \/ ProcTick \/ InterruptReturn
    \/ \E p \in Proc : WakeupQueue(p) \/ RunTimer(p)

InterruptNext ==
    \E c \in SUBSET {"COM1_IRQ", "TIMER0_IRQ"} : c # {} /\ Interrupt(c)

Next == UserNext \/ KernelNext \/ HandlerNext \/ InterruptNext \/ Halted

\* Kernel code runs on, and interrupts leave it some of the cycles.  That the
\* clock interrupt is taken if a kernel thread runs again and again is an
\* assumption on the hardware: control.v loses a tick that meets a clock at
\* which the bus is not ready, and the next one comes when count has gone
\* round to compare again.
Fairness ==
    /\ SF_vars(KernelNext)
    /\ WF_vars(HandlerNext)
    /\ SF_vars(\E c \in SUBSET {"COM1_IRQ", "TIMER0_IRQ"} :
                 "TIMER0_IRQ" \in c /\ Interrupt(c))

\* What nothing in the kernel enforces, and a program must do by itself: it
\* does not run for ever without a call that gives up the CPU.
Cooperation == WF_vars(Yield \/ Exit)

Spec == Init /\ [][Next]_vars
FairSpec == Spec /\ Fairness /\ Cooperation
-----------------------------------------------------------------------------
\* The one type invariant.
TypeOK ==
    /\ state \in [Proc -> States]
    /\ waitState \in [Proc -> WaitStates]
    /\ exiting \in [Proc -> BOOLEAN]
    /\ needResched \in [Proc -> BOOLEAN]
    /\ timeSlice \in [Proc -> 0..MaxTimeSlice]
    /\ parent \in [Proc -> Proc]
    /\ runQueue \in Seq(Proc)
    /\ current \in Proc
    /\ panic \in {"none", "assert", "initproc exit"}
    /\ pc \in [Proc -> PCs]
    /\ waitPid \in [Proc -> User \cup {AnyPid}]
    /\ left \in [Proc -> 0..MaxSleep]
    /\ due \in SUBSET Proc
    /\ stdinQueue \in SUBSET Proc
    /\ kbdFlag \in [Proc -> BOOLEAN]
    /\ unread \in 0..BufSize
    /\ intr \in {"none", "dispatch", "wakeup_queue", "run_timer_list"}
    /\ cause \in SUBSET {"COM1_IRQ", "TIMER0_IRQ"}

\* No assert of the process code fails, whatever the order of system calls,
\* kills, expiring timers and key presses: wakeup_proc never meets a zombie or
\* a freed proc_struct (sched.c:60), RR_enqueue never meets a process that is
\* on the run queue (default_sched.c:16), and when initproc finds no child
\* left no process is left at all (proc.c:968-971).
NoAssertFails == panic # "assert"

\* The run queue holds exactly the processes that could run and do not, each
\* once: no RUNNABLE process is forgotten, none is queued twice, and neither a
\* sleeper nor a zombie can be picked (schedule, wakeup_proc, RR_enqueue).
RunQueueExact ==
    /\ \A p \in Proc :
         Queued(K, p) <=>
           state[p] = "RUNNABLE" /\ p \notin {current, idleproc}
    /\ \A i, j \in 1..Len(runQueue) : runQueue[i] = runQueue[j] => i = j

\* No wake-up is lost.  A process asleep in do_wait has a child to wait for
\* and none of those is a zombie yet; one asleep in do_sleep has a running
\* timer; one asleep in dev_stdin_read is on the wait queue and the buffer is
\* empty (or its wake-up is in progress).
Awaited(p) ==
    {c \in Children(K, p) : p = initproc \/ waitPid[p] \in {AnyPid, c}}
NoLostWakeup ==
    \A p \in Proc : state[p] = "SLEEPING" =>
      CASE waitState[p] = "WT_CHILD" ->
             /\ Awaited(p) # {}
             /\ \A c \in Awaited(p) : state[c] # "ZOMBIE"
        [] waitState[p] = "WT_TIMER" -> left[p] > 0 \/ p \in due
        [] waitState[p] = "WT_KBD" ->
             p \in stdinQueue /\ (unread = 0 \/ intr = "wakeup_queue")
        [] OTHER -> FALSE

\* Orphans are adopted: the parent of a process is a live process, so do_exit
\* never wakes, and do_wait never returns to, a proc_struct that was freed.
ParentAlive ==
    \A p \in User : state[p] # "FREE" =>
      /\ parent[p] # idleproc
      /\ state[parent[p]] \in {"SLEEPING", "RUNNABLE"}

\* A timer_t and a wait_t live on the kernel stack of the call that queued
\* them: whatever is queued belongs to a process still inside that call, also
\* after a kill woke it (do_sleep, dev_stdin_read).
StackRecordsOwned ==
    /\ \A p \in Proc : left[p] > 0 \/ p \in due =>
         pc[p] = "do_sleep" /\ state[p] \in {"SLEEPING", "RUNNABLE"}
    /\ \A p \in stdinQueue :
         pc[p] = "stdin_read" /\ state[p] \in {"SLEEPING", "RUNNABLE"}

\* The process tree is one: parents are alive, and nobody is its own ancestor,
\* for every set of live processes has a member whose parent is outside it.
Forest ==
    /\ ParentAlive
    /\ \A S \in SUBSET User :
         S # {} /\ (\A c \in S : state[c] # "FREE")
           => \E c \in S : parent[c] \notin S

\* A zombie stays one until its parent, and nobody else, reaps it: no late
\* wake-up, kill, timer or key press revives it (do_exit, do_wait).
ZombieReapedByParent ==
    [][\A p \in Proc : state[p] = "ZOMBIE" /\ state'[p] # "ZOMBIE" =>
         state'[p] = "FREE" /\ current = parent[p]]_vars

Clock == INSTANCE Timers

\* do_sleep, kills and the clock use the timers as Timers allows, which is
\* what the timer list implements (TimerList): nobody adds a second timer, and
\* no tick begins while an expired timer has not been run.
TimersContract == Clock!Spec

\* Among programs that give up the CPU by themselves round robin starves
\* nobody: a queued process runs, however often the others come back before it
\* (RR_enqueue, RR_pick_next, schedule).
NoStarvation ==
    \A p \in User \cup {initproc} :
      Queued(K, p) ~> (current = p \/ panic # "none")

\* As long as ticks go on, a sleeper wakes up (run_timer_list).  Ticks are
\* taken in kernel threads only: programs that hand the CPU to each other and
\* never all block stop the time of the sleepers.
SleepersWake ==
    []<>(intr = "run_timer_list") =>
      \A p \in User :
        waitState[p] = "WT_TIMER" ~> (state[p] = "RUNNABLE" \/ panic # "none")

\* Among programs that give up the CPU by themselves initproc goes on reaping
\* while it has a zombie, adopted ones included (do_exit wakes it, init_main's
\* loop).  Which zombie is not said: do_wait takes the youngest, and an older
\* one may wait as long as others follow.
InitReaps ==
    (\E p \in User : state[p] = "ZOMBIE" /\ parent[p] = initproc)
      ~> (pc[initproc] = "init_yield" \/ panic # "none")

\* A process that do_kill marked exits: each of its wait states has the
\* WT_INTERRUPTED bit ("the wait state could be interrupted", proc.h), and
\* user/spin.c waits for the process it killed.
KilledDies ==
    \A p \in User :
      exiting[p] ~> (state[p] \in {"ZOMBIE", "FREE"} \/ panic # "none")
=============================================================================
