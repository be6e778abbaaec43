-------------------------- MODULE ProcSchedProofs ---------------------------
(***************************************************************************)
(* The invariants of ProcSched as predicates of the process state k and    *)
(* the environment e, and what wakeup_proc, schedule, do_exit and the end  *)
(* of a trap do to them; then the other functions of proc.c, the inductive *)
(* invariant and the system calls, kernel threads and interrupt handlers   *)
(* that keep it; the theorems: the safety properties of ProcSched for      *)
(* every set of processes and every bound.                                 *)
(***************************************************************************)
EXTENDS ProcSched, TLAPS

KernelStates ==
    [state : [Proc -> States], waitState : [Proc -> WaitStates],
     exiting : [Proc -> BOOLEAN], needResched : [Proc -> BOOLEAN],
     timeSlice : [Proc -> 0..MaxTimeSlice], parent : [Proc -> Proc],
     runQueue : Seq(Proc), current : Proc,
     panic : {"none", "assert", "initproc exit"}]

\* RunQueueExact, of k.
QueueExact(k) ==
    /\ \A p \in Proc :
         Queued(k, p) <=>
           k.state[p] = "RUNNABLE" /\ p # k.current /\ p # idleproc
    /\ \A i, j \in 1..Len(k.runQueue) :
         k.runQueue[i] = k.runQueue[j] => i = j

\* What holds of the process state also between two calls of one handler.
Sane(k) ==
    /\ k \in KernelStates
    /\ QueueExact(k)
    /\ k.panic # "assert"
    /\ k.state[idleproc] = "RUNNABLE"
    /\ k.state[initproc] \in {"SLEEPING", "RUNNABLE"}
    /\ \A p \in Proc : k.waitState[p] # "none" <=> k.state[p] = "SLEEPING"

-----------------------------------------------------------------------------
\* Appending a new process to a queue adds it and keeps the entries distinct.
LEMMA AppendQueue ==
    ASSUME NEW q \in Seq(Proc), NEW p \in Proc,
           \A i, j \in 1..Len(q) : q[i] = q[j] => i = j,
           ~ \E i \in 1..Len(q) : q[i] = p
    PROVE  /\ Append(q, p) \in Seq(Proc)
           /\ \A i, j \in 1..Len(Append(q, p)) :
                Append(q, p)[i] = Append(q, p)[j] => i = j
           /\ \A x \in Proc :
                (\E i \in 1..Len(Append(q, p)) : Append(q, p)[i] = x)
                  <=> (x = p \/ \E i \in 1..Len(q) : q[i] = x)
<1> DEFINE r == Append(q, p)
<1>1. r \in Seq(Proc) /\ Len(r) = Len(q) + 1 /\ Len(q) \in Nat
  OBVIOUS
<1>2. r[Len(q) + 1] = p /\ \A i \in 1..Len(q) : r[i] = q[i]
  OBVIOUS
<1>3. \A i \in 1..Len(r) : i = Len(q) + 1 \/ i \in 1..Len(q)
  BY <1>1
<1> HIDE DEF r
<1>4. \A i, j \in 1..Len(r) : r[i] = r[j] => i = j
  BY <1>1, <1>2, <1>3, Zenon
<1>5. \A x \in Proc : (\E i \in 1..Len(r) : r[i] = x)
                        <=> (x = p \/ \E i \in 1..Len(q) : q[i] = x)
  BY <1>1, <1>2, <1>3
<1> QED
  BY <1>1, <1>4, <1>5, Zenon DEF r

\* Removing the head of a queue of distinct processes removes that process.
LEMMA TailQueue ==
    ASSUME NEW q \in Seq(Proc), q # << >>,
           \A i, j \in 1..Len(q) : q[i] = q[j] => i = j
    PROVE  /\ Tail(q) \in Seq(Proc)
           /\ Head(q) \in Proc
           /\ \E i \in 1..Len(q) : q[i] = Head(q)
           /\ \A i, j \in 1..Len(Tail(q)) : Tail(q)[i] = Tail(q)[j] => i = j
           /\ \A x \in Proc :
                (\E i \in 1..Len(Tail(q)) : Tail(q)[i] = x)
                  <=> (x # Head(q) /\ \E i \in 1..Len(q) : q[i] = x)
<1> DEFINE r == Tail(q)
<1>1. /\ r \in Seq(Proc) /\ Len(r) = Len(q) - 1
      /\ Len(q) \in Nat /\ Len(q) > 0
      /\ Head(q) = q[1] /\ Head(q) \in Proc
  OBVIOUS
<1>2. \A i \in 1..Len(r) : r[i] = q[i + 1]
  OBVIOUS
<1>3. \A i \in 1..Len(q) : i = 1 \/ (i - 1 \in 1..Len(r) /\ r[i - 1] = q[i])
  BY <1>1, <1>2
<1> HIDE DEF r
<1>4. \A i, j \in 1..Len(r) : r[i] = r[j] => i = j
  BY <1>1, <1>2
<1>5. \A x \in Proc : (\E i \in 1..Len(r) : r[i] = x)
                        <=> (x # Head(q) /\ \E i \in 1..Len(q) : q[i] = x)
  BY <1>1, <1>2, <1>3
<1> QED
  BY <1>1, <1>4, <1>5 DEF r

-----------------------------------------------------------------------------
\* k2 is k with some sleeping or new processes woken.
Wakes(k, k2) ==
    /\ k2.exiting = k.exiting
    /\ k2.needResched = k.needResched
    /\ k2.parent = k.parent
    /\ k2.current = k.current
    /\ k2.panic = k.panic
    /\ \A x \in Proc :
         \/ k2.state[x] = k.state[x] /\ k2.waitState[x] = k.waitState[x]
         \/ /\ k.state[x] \in {"SLEEPING", "UNINIT"}
            /\ k2.state[x] = "RUNNABLE"
            /\ k2.waitState[x] = "none"

\* The types of the fields of a process state.
LEMMA Fields ==
    ASSUME NEW k \in KernelStates
    PROVE  /\ k.state \in [Proc -> States]
           /\ k.waitState \in [Proc -> WaitStates]
           /\ k.exiting \in [Proc -> BOOLEAN]
           /\ k.needResched \in [Proc -> BOOLEAN]
           /\ k.timeSlice \in [Proc -> 0..MaxTimeSlice]
           /\ k.parent \in [Proc -> Proc]
           /\ k.runQueue \in Seq(Proc)
           /\ k.current \in Proc
           /\ k.panic \in {"none", "assert", "initproc exit"}
BY Zenon DEF KernelStates

\* Enqueue appends a process that is not queued and fails no assert.
LEMMA EnqueueFields ==
    ASSUME NEW k \in KernelStates, NEW p \in Proc,
           p # idleproc, ~ Queued(k, p)
    PROVE  /\ Enqueue(k, p) \in KernelStates
           /\ Enqueue(k, p).state = k.state
           /\ Enqueue(k, p).waitState = k.waitState
           /\ Enqueue(k, p).exiting = k.exiting
           /\ Enqueue(k, p).needResched = k.needResched
           /\ Enqueue(k, p).parent = k.parent
           /\ Enqueue(k, p).current = k.current
           /\ Enqueue(k, p).panic = k.panic
           /\ Enqueue(k, p).runQueue = Append(k.runQueue, p)
<1> DEFINE ts == [k.timeSlice EXCEPT ![p] =
                   IF @ = 0 \/ @ > MaxTimeSlice THEN MaxTimeSlice ELSE @]
<1>1. /\ k.timeSlice \in [Proc -> 0..MaxTimeSlice]
      /\ k.runQueue \in Seq(Proc)
  BY Zenon DEF KernelStates
<1>2. ts \in [Proc -> 0..MaxTimeSlice]
  BY <1>1, BoundsAssumption
<1>3. Append(k.runQueue, p) \in Seq(Proc)
  BY <1>1
<1>4. Enqueue(k, p) = [k EXCEPT !.panic = k.panic,
                                !.runQueue = Append(k.runQueue, p),
                                !.timeSlice = ts]
  BY Zenon DEF Enqueue, KernelStates
<1> HIDE DEF ts
<1> QED
  BY <1>2, <1>3, <1>4, ZenonT(60) DEF KernelStates

\* wakeup_proc of a live process makes it RUNNABLE, puts it on the run queue
\* exactly if it has to be there, and fails no assert.
LEMMA WakeupSane ==
    ASSUME NEW k, Sane(k), NEW p \in Proc,
           k.state[p] \in {"SLEEPING", "RUNNABLE", "UNINIT"}
    PROVE  /\ Sane(wakeup_proc(k, p))
           /\ Wakes(k, wakeup_proc(k, p))
           /\ wakeup_proc(k, p).state[p] = "RUNNABLE"
           /\ wakeup_proc(k, p).waitState[p] = "none"
<1> DEFINE k1 == [k EXCEPT !.state[p] = "RUNNABLE", !.waitState[p] = "none"]
           k2 == wakeup_proc(k, p)
<1> USE DEF Sane
<1>0. /\ k.state \in [Proc -> States] /\ k.waitState \in [Proc -> WaitStates]
      /\ k.runQueue \in Seq(Proc)
  BY Fields, Zenon
<1>1. CASE k.state[p] = "RUNNABLE"
  BY <1>1, Zenon DEF wakeup_proc, Wakes
<1>2. CASE k.state[p] # "RUNNABLE"
  <2>1. /\ k1 \in KernelStates
        /\ k1.state = [k.state EXCEPT ![p] = "RUNNABLE"]
        /\ k1.waitState = [k.waitState EXCEPT ![p] = "none"]
        /\ k1.exiting = k.exiting /\ k1.needResched = k.needResched
        /\ k1.timeSlice = k.timeSlice /\ k1.parent = k.parent
        /\ k1.runQueue = k.runQueue /\ k1.current = k.current
        /\ k1.panic = k.panic
    BY Zenon DEF KernelStates, States, WaitStates
  <2>2. ~ Queued(k, p) /\ p # idleproc
    BY <1>2, Zenon DEF QueueExact
  <2> HIDE DEF k1
  <2>a. /\ \A x \in Proc : x # p => /\ k1.state[x] = k.state[x]
                                    /\ k1.waitState[x] = k.waitState[x]
        /\ k1.state[p] = "RUNNABLE" /\ k1.waitState[p] = "none"
    BY <1>0, <2>1
  <2>3. CASE p = k.current
    <3>1. k2 = k1
      BY <1>2, <2>3, Zenon DEF wakeup_proc, k1
    <3>2. QueueExact(k1)
      BY <2>1, <2>2, <2>3, <2>a, SMTT(60) DEF QueueExact, Queued
    <3>3. Sane(k1) /\ Wakes(k, k1)
      BY <1>2, <2>1, <2>2, <2>a, <3>2 DEF Wakes, Proc
    <3> QED
      BY <2>a, <3>1, <3>3, Zenon
  <2>4. CASE p # k.current
    <3>1. k2 = Enqueue(k1, p)
      BY <1>2, <2>4, Zenon DEF wakeup_proc, k1
    <3> HIDE DEF k2
    <3>2. /\ k2 \in KernelStates
          /\ k2.state = k1.state /\ k2.waitState = k1.waitState
          /\ k2.exiting = k.exiting /\ k2.needResched = k.needResched
          /\ k2.parent = k.parent /\ k2.current = k.current
          /\ k2.panic = k.panic
          /\ k2.runQueue = Append(k.runQueue, p)
      BY <2>1, <2>2, <3>1, EnqueueFields DEF Queued
    <3>3. /\ \A x \in Proc : Queued(k2, x) <=> x = p \/ Queued(k, x)
          /\ \A i, j \in 1..Len(k2.runQueue) :
               k2.runQueue[i] = k2.runQueue[j] => i = j
      <4>1. /\ \A i, j \in 1..Len(k.runQueue) :
                 k.runQueue[i] = k.runQueue[j] => i = j
            /\ ~ \E i \in 1..Len(k.runQueue) : k.runQueue[i] = p
        BY <2>2, Zenon DEF QueueExact, Queued
      <4> QED
        BY <1>0, <3>2, <4>1, AppendQueue DEF Queued
    <3>5. QueueExact(k2)
      BY <2>2, <2>4, <2>a, <3>2, <3>3 DEF QueueExact
    <3>6. Sane(k2) /\ Wakes(k, k2)
      BY <1>2, <2>2, <2>a, <3>2, <3>5 DEF Wakes, Proc
    <3> QED
      BY <2>a, <3>2, <3>6, Zenon DEF k2
  <2> QED
    BY <2>3, <2>4, Zenon
<1> QED
  BY <1>1, <1>2, Zenon

\* schedule changes no process but for need_resched, keeps the run queue exact
\* and switches to a RUNNABLE process.
LEMMA ScheduleSane ==
    ASSUME NEW k, Sane(k)
    PROVE  /\ Sane(schedule(k))
           /\ schedule(k).state = k.state
           /\ schedule(k).waitState = k.waitState
           /\ schedule(k).exiting = k.exiting
           /\ schedule(k).parent = k.parent
           /\ schedule(k).panic = k.panic
           /\ k.state[schedule(k).current] = "RUNNABLE"
<1> DEFINE cur == k.current
           k1 == [k EXCEPT !.needResched[cur] = FALSE]
           k2 == IF k.state[cur] = "RUNNABLE" THEN Enqueue(k1, cur) ELSE k1
           k3 == schedule(k)
<1> USE DEF Sane
<1>1. /\ k1 \in KernelStates
      /\ k1.state = k.state /\ k1.waitState = k.waitState
      /\ k1.exiting = k.exiting /\ k1.parent = k.parent
      /\ k1.runQueue = k.runQueue /\ k1.current = cur /\ k1.panic = k.panic
  BY Zenon DEF KernelStates
<1>2. /\ k.state \in [Proc -> States] /\ k.runQueue \in Seq(Proc)
      /\ cur \in Proc
  BY Fields, Zenon
<1>3. k3 = IF k2.runQueue = << >>
             THEN [k2 EXCEPT !.current = idleproc]
             ELSE [k2 EXCEPT !.current = Head(k2.runQueue),
                             !.runQueue = Tail(k2.runQueue)]
  BY Zenon DEF schedule
<1> HIDE DEF k1, k3
<1>4. /\ k2 \in KernelStates
      /\ k2.state = k.state /\ k2.waitState = k.waitState
      /\ k2.exiting = k.exiting /\ k2.parent = k.parent
      /\ k2.panic = k.panic
      /\ \A x \in Proc :
           Queued(k2, x) <=> k.state[x] = "RUNNABLE" /\ x # idleproc
      /\ \A i, j \in 1..Len(k2.runQueue) :
           k2.runQueue[i] = k2.runQueue[j] => i = j
  <2>1. CASE k.state[cur] # "RUNNABLE"
    <3>1. k2 = k1
      BY <2>1, Zenon
    <3> HIDE DEF k2
    <3> QED
      BY <1>1, <2>1, <3>1, SMTT(60) DEF QueueExact, Queued
  <2>2. CASE k.state[cur] = "RUNNABLE" /\ cur = idleproc
    <3>1. k2 = k1
      BY <2>2, Zenon DEF Enqueue
    <3> HIDE DEF k2
    <3> QED
      BY <1>1, <2>2, <3>1 DEF QueueExact, Queued
  <2>3. CASE k.state[cur] = "RUNNABLE" /\ cur # idleproc
    <3>1. k2 = Enqueue(k1, cur)
      BY <2>3, Zenon
    <3> HIDE DEF k2
    <3>2. /\ ~ Queued(k, cur)
          /\ ~ Queued(k1, cur)
          /\ ~ \E i \in 1..Len(k.runQueue) : k.runQueue[i] = cur
          /\ \A i, j \in 1..Len(k.runQueue) :
               k.runQueue[i] = k.runQueue[j] => i = j
      BY <1>1, <1>2, Zenon DEF QueueExact, Queued
    <3>3. /\ k2 \in KernelStates
          /\ k2.state = k.state /\ k2.waitState = k.waitState
          /\ k2.exiting = k.exiting /\ k2.parent = k.parent
          /\ k2.panic = k.panic
          /\ k2.runQueue = Append(k.runQueue, cur)
      BY <1>1, <1>2, <2>3, <3>1, <3>2, EnqueueFields, SMTT(60)
    <3>4. /\ \A x \in Proc : Queued(k2, x) <=> x = cur \/ Queued(k, x)
          /\ \A i, j \in 1..Len(k2.runQueue) :
               k2.runQueue[i] = k2.runQueue[j] => i = j
      <4>1. /\ \A x \in Proc : (\E i \in 1..Len(k2.runQueue) : k2.runQueue[i] = x)
                 <=> x = cur \/ \E i \in 1..Len(k.runQueue) : k.runQueue[i] = x
            /\ \A i, j \in 1..Len(k2.runQueue) :
                 k2.runQueue[i] = k2.runQueue[j] => i = j
        BY <1>2, <3>2, <3>3, AppendQueue, SMTT(60)
      <4> QED
        BY <4>1, Zenon DEF Queued
    <3> QED
      BY <2>3, <3>3, <3>4, Zenon DEF QueueExact
  <2> QED
    BY <2>1, <2>2, <2>3, Zenon
<1> HIDE DEF k2
<1>5. k2.runQueue \in Seq(Proc)
  BY <1>4, Fields, ZenonT(60)
<1>6. CASE k2.runQueue = << >>
  <2>1. /\ k3 \in KernelStates
        /\ k3.state = k2.state /\ k3.waitState = k2.waitState
        /\ k3.exiting = k2.exiting /\ k3.parent = k2.parent
        /\ k3.panic = k2.panic /\ k3.runQueue = k2.runQueue
        /\ k3.current = idleproc
    BY <1>3, <1>4, <1>6, Zenon DEF KernelStates, Proc
  <2>2. QueueExact(k3)
    BY <1>4, <1>6, <2>1 DEF QueueExact, Queued
  <2> QED
    BY <1>4, <2>1, <2>2 DEF k3
<1>7. CASE k2.runQueue # << >>
  <2>1. /\ Tail(k2.runQueue) \in Seq(Proc)
        /\ Head(k2.runQueue) \in Proc
        /\ Queued(k2, Head(k2.runQueue))
        /\ \A i, j \in 1..Len(Tail(k2.runQueue)) :
             Tail(k2.runQueue)[i] = Tail(k2.runQueue)[j] => i = j
        /\ \A x \in Proc :
             (\E i \in 1..Len(Tail(k2.runQueue)) : Tail(k2.runQueue)[i] = x)
               <=> (x # Head(k2.runQueue) /\ Queued(k2, x))
    BY <1>4, <1>5, <1>7, TailQueue, Zenon DEF Queued
  <2>2. /\ k3 \in KernelStates
        /\ k3.state = k2.state /\ k3.waitState = k2.waitState
        /\ k3.exiting = k2.exiting /\ k3.parent = k2.parent
        /\ k3.panic = k2.panic /\ k3.runQueue = Tail(k2.runQueue)
        /\ k3.current = Head(k2.runQueue)
    <3>1. k2 \in KernelStates
      BY <1>4, Zenon
    <3>2. Tail(k2.runQueue) \in Seq(Proc) /\ Head(k2.runQueue) \in Proc
      BY <2>1, Zenon
    <3>3. k3 = [k2 EXCEPT !.current = Head(k2.runQueue),
                          !.runQueue = Tail(k2.runQueue)]
      BY <1>3, <1>7, Zenon
    <3> QED
      BY <3>1, <3>2, <3>3, Zenon DEF KernelStates
  <2>3. QueueExact(k3)
    BY <1>4, <2>1, <2>2, SMTT(60) DEF QueueExact, Queued
  <2>4. k.state[k3.current] = "RUNNABLE"
    BY <1>4, <2>1, <2>2
  <2> QED
    BY <1>4, <2>2, <2>3, <2>4 DEF k3
<1> QED
  BY <1>6, <1>7, Zenon

-----------------------------------------------------------------------------
(* The inductive invariant: Good(K, E), and current can run.               *)

E == [pc |-> pc, waitPid |-> waitPid, left |-> left, due |-> due,
      queue |-> stdinQueue, unread |-> unread, intr |-> intr]

Alive(k, p) == k.state[p] \in {"SLEEPING", "RUNNABLE"}

\* Forest, of k.
Family(k) ==
    /\ \A p \in Proc : k.state[p] # "UNINIT"
    /\ \A p \in User : k.state[p] # "FREE" =>
         k.parent[p] # idleproc /\ Alive(k, k.parent[p])
    /\ \A S \in SUBSET User :
         S # {} /\ (\A c \in S : k.state[c] # "FREE")
           => \E c \in S : k.parent[c] \notin S

\* NoLostWakeup, of k and e.
AwaitedBy(k, e, p) ==
    {c \in Children(k, p) : p = initproc \/ e.waitPid[p] \in {AnyPid, c}}
ChildWait(k, e, p) ==
    /\ AwaitedBy(k, e, p) # {}
    /\ \A c \in AwaitedBy(k, e, p) : k.state[c] # "ZOMBIE"
Waits(k, e) ==
    \A p \in Proc : k.state[p] = "SLEEPING" =>
      \/ k.waitState[p] = "WT_CHILD" /\ ChildWait(k, e, p)
      \/ k.waitState[p] = "WT_TIMER" /\ (e.left[p] > 0 \/ p \in e.due)
      \/ /\ k.waitState[p] = "WT_KBD"
         /\ p \in e.queue /\ (e.unread = 0 \/ e.intr = "wakeup_queue")

\* StackRecordsOwned, of k and e.
Owned(k, e) ==
    /\ \A p \in Proc : e.left[p] > 0 \/ p \in e.due =>
         e.pc[p] = "do_sleep" /\ Alive(k, p)
    /\ \A p \in Proc : p \in e.queue =>
         e.pc[p] = "stdin_read" /\ Alive(k, p)
    /\ e.intr # "run_timer_list" => e.due = {}

\* Every process is at a place of its own code.
UserPCs == {"user", "do_wait", "do_sleep", "stdin_read", "user_main"}
InitPCs == {"init_main", "init_wait", "init_block", "init_woken",
            "init_yield", "init_done"}
Places(k, e) ==
    /\ e.pc[idleproc] = "cpu_idle"
    /\ e.pc[initproc] \in InitPCs
    /\ \A p \in User : e.pc[p] \in UserPCs
    /\ e.pc[initproc] = "init_done" =>
         k.current = initproc /\ Children(k, initproc) = {}

Good(k, e) ==
    Sane(k) /\ Family(k) /\ Waits(k, e) /\ Owned(k, e) /\ Places(k, e)

\* current is RUNNABLE, or initproc on its way to schedule().
CanRun(k, e) ==
    \/ k.state[k.current] = "RUNNABLE"
    \/ k.current = initproc /\ e.pc[initproc] = "init_block"

\* No zombie changes.
KeepsZombies(k, k2) ==
    \A p \in Proc : k.state[p] = "ZOMBIE" => k2.state[p] = "ZOMBIE"

\* No free slot is taken.
KeepsFree(k, k2) ==
    \A p \in Proc : k.state[p] = "FREE" => k2.state[p] = "FREE"

-----------------------------------------------------------------------------
\* Waking a process keeps everything else as it is.
LEMMA WakesGood ==
    ASSUME NEW k, NEW k2, NEW e,
           Good(k, e), Sane(k2), Wakes(k, k2)
    PROVE  Good(k2, e) /\ KeepsZombies(k, k2)
<1> USE DEF Good
<1>1. /\ \A p \in Proc : /\ k2.state[p] = "FREE" <=> k.state[p] = "FREE"
                         /\ k2.state[p] = "ZOMBIE" <=> k.state[p] = "ZOMBIE"
                         /\ Alive(k2, p) <=> Alive(k, p)
                         /\ k2.state[p] # "UNINIT"
      /\ k2.parent = k.parent /\ k2.current = k.current
  BY SMTT(60) DEF Wakes, Alive, Family
<1>2. k.parent \in [Proc -> Proc] /\ User \subseteq Proc
  BY Fields, ZenonT(60) DEF Sane, Proc
<1>3. \A p \in Proc : Children(k2, p) = Children(k, p)
  BY <1>1, <1>2, Zenon DEF Children
<1>4. Family(k2)
  BY <1>1, <1>2, Zenon DEF Family
<1>5. Waits(k2, e)
  <2>1. \A p \in Proc : ChildWait(k, e, p) => ChildWait(k2, e, p)
    BY <1>1, <1>2, <1>3, Zenon DEF ChildWait, AwaitedBy, Children
  <2>2. \A p \in Proc : k2.state[p] = "SLEEPING" =>
          k.state[p] = "SLEEPING" /\ k2.waitState[p] = k.waitState[p]
    BY Zenon DEF Wakes
  <2> QED
    BY <2>1, <2>2, Zenon DEF Waits
<1>6. Owned(k2, e)
  BY <1>1, Zenon DEF Owned
<1>7. Places(k2, e)
  BY <1>1, <1>3, Zenon DEF Places, Proc
<1> QED
  BY <1>1, <1>4, <1>5, <1>6, <1>7, Zenon DEF KeepsZombies

\* wakeup_proc of a live process.
LEMMA WakeupGood ==
    ASSUME NEW k, NEW e, Good(k, e), NEW p \in Proc, Alive(k, p)
    PROVE  /\ Good(wakeup_proc(k, p), e)
           /\ KeepsZombies(k, wakeup_proc(k, p))
           /\ wakeup_proc(k, p).current = k.current
           /\ CanRun(k, e) => CanRun(wakeup_proc(k, p), e)
<1>1. /\ Sane(wakeup_proc(k, p)) /\ Wakes(k, wakeup_proc(k, p))
      /\ wakeup_proc(k, p).state[p] = "RUNNABLE"
  BY WakeupSane, Zenon DEF Good, Alive
<1>2. Good(wakeup_proc(k, p), e) /\ KeepsZombies(k, wakeup_proc(k, p))
  BY <1>1, WakesGood, Zenon
<1>3. k.current \in Proc
  BY Fields, ZenonT(60) DEF Good, Sane
<1> QED
  BY <1>1, <1>2, <1>3, SMTT(60) DEF Wakes, CanRun

\* schedule, called when initproc is not about to run its last asserts.
LEMMA ScheduleGood ==
    ASSUME NEW k, NEW e, Good(k, e), e.pc[initproc] # "init_done"
    PROVE  /\ Good(schedule(k), e)
           /\ KeepsZombies(k, schedule(k))
           /\ KeepsFree(k, schedule(k))
           /\ CanRun(schedule(k), e)
<1> DEFINE k2 == schedule(k)
<1>1. /\ Sane(k2) /\ k2.state = k.state /\ k2.waitState = k.waitState
      /\ k2.parent = k.parent /\ k.state[k2.current] = "RUNNABLE"
  BY ScheduleSane, Zenon DEF Good
<1> HIDE DEF k2
<1>2. Family(k2) /\ Waits(k2, e) /\ Owned(k2, e)
  BY <1>1 DEF Good, Family, Waits, Owned, Alive, ChildWait, AwaitedBy, Children
<1>3. Places(k2, e)
  BY <1>1, Zenon DEF Good, Places
<1> QED
  BY <1>1, <1>2, <1>3, Zenon DEF Good, KeepsZombies, KeepsFree, CanRun, k2

\* do_exit of a user process that owns no timer and no wait_t: the parent and
\* initproc are woken if they wait for what they just got, and no assert fails.
LEMMA ExitGood ==
    ASSUME NEW k, NEW e, Good(k, e), k.current \in User,
           k.state[k.current] = "RUNNABLE",
           e.pc[k.current] \notin {"do_sleep", "stdin_read"}
    PROVE  /\ Good(do_exit(k), e)
           /\ KeepsZombies(k, do_exit(k))
           /\ KeepsFree(k, do_exit(k))
           /\ CanRun(do_exit(k), e)
<1> DEFINE p == k.current
           par == k.parent[p]
           k1 == [k EXCEPT !.state[p] = "ZOMBIE"]
           k2 == IF k.waitState[par] = "WT_CHILD"
                   THEN wakeup_proc(k1, par) ELSE k1
           kids == Children(k2, p)
           k3 == [k2 EXCEPT !.parent =
                    [c \in Proc |-> IF c \in kids THEN initproc ELSE @[c]]]
           k4 == Reparent(k2, p)
<1> USE DEF Good
<1>1. /\ k.state \in [Proc -> States] /\ k.parent \in [Proc -> Proc]
      /\ k.runQueue \in Seq(Proc) /\ p \in Proc /\ User \subseteq Proc
      /\ p # idleproc /\ p # initproc
      /\ k \in KernelStates
  BY Fields, ThreadsAssumption, ZenonT(60) DEF Sane, Proc
<1>2. par \in Proc /\ par # idleproc /\ par # p /\ Alive(k, par)
  <2>1. \E c \in {p} : k.parent[c] \notin {p}
    <3>1. {p} \in SUBSET User /\ {p} # {} /\ \A c \in {p} : k.state[c] # "FREE"
      BY Zenon
    <3> QED
      BY <3>1, ZenonT(60) DEF Family
  <2> QED
    BY <1>1, <2>1, Zenon DEF Family
<1>3. /\ k1 \in KernelStates
      /\ k1.state = [k.state EXCEPT ![p] = "ZOMBIE"]
      /\ k1.waitState = k.waitState /\ k1.parent = k.parent
      /\ k1.runQueue = k.runQueue /\ k1.current = p /\ k1.panic = k.panic
  BY <1>1, Zenon DEF KernelStates, States
<1> HIDE DEF k1
<1>4. /\ k1.state[p] = "ZOMBIE"
      /\ \A x \in Proc : x # p => k1.state[x] = k.state[x]
  BY <1>1, <1>3, Zenon
<1>5. Sane(k1)
  <2>1. QueueExact(k1)
    BY <1>1, <1>3, <1>4 DEF Sane, QueueExact, Queued
  <2> QED
    BY <1>1, <1>3, <1>4, <2>1 DEF Sane
<1>6. /\ Sane(k2) /\ Wakes(k1, k2)
      /\ k.waitState[par] = "WT_CHILD" =>
           k2.state[par] = "RUNNABLE" /\ k2.waitState[par] = "none"
  <2>1. k1.state[par] \in {"SLEEPING", "RUNNABLE", "UNINIT"}
    BY <1>2, <1>4, Zenon DEF Alive
  <2>2. CASE k.waitState[par] = "WT_CHILD"
    BY <1>2, <1>5, <2>1, <2>2, WakeupSane, SMTT(60)
  <2>3. CASE k.waitState[par] # "WT_CHILD"
    BY <1>5, <2>3, Zenon DEF Wakes
  <2> QED
    BY <2>2, <2>3, ZenonT(60)
<1> HIDE DEF k2
<1>7. /\ k3 \in KernelStates
      /\ k3.state = k2.state /\ k3.waitState = k2.waitState
      /\ k3.runQueue = k2.runQueue /\ k3.current = k2.current
      /\ k3.panic = k2.panic
      /\ k3.parent = [c \in Proc |-> IF c \in kids THEN initproc
                                    ELSE k2.parent[c]]
  <2>1. k2 \in KernelStates /\ k2.parent \in [Proc -> Proc] /\ initproc \in Proc
    BY <1>6, Fields, Zenon DEF Sane, Proc
  <2> HIDE DEF kids
  <2> QED
    BY <2>1, ZenonT(60) DEF KernelStates
<1>8. k4 = IF /\ \E c \in kids : k2.state[c] = "ZOMBIE"
              /\ k2.waitState[initproc] = "WT_CHILD"
             THEN wakeup_proc(k3, initproc) ELSE k3
  BY Zenon DEF Reparent
<1> HIDE DEF k3, k4
<1>9. Sane(k3)
  BY <1>6, <1>7, SMTT(60) DEF Sane, QueueExact, Queued
<1>10. /\ Sane(k4) /\ Wakes(k3, k4)
       /\ (\E c \in kids : k2.state[c] = "ZOMBIE")
            => k4.waitState[initproc] # "WT_CHILD"
  <2> HIDE DEF kids
  <2>1. initproc \in Proc /\ k3.state[initproc] \in {"SLEEPING", "RUNNABLE"}
    BY <1>9, Zenon DEF Sane, Proc
  <2>2. CASE /\ \E c \in kids : k2.state[c] = "ZOMBIE"
             /\ k2.waitState[initproc] = "WT_CHILD"
    BY <1>8, <1>9, <2>1, <2>2, WakeupSane, Zenon
  <2>3. CASE ~ /\ \E c \in kids : k2.state[c] = "ZOMBIE"
               /\ k2.waitState[initproc] = "WT_CHILD"
    <3>1. k4 = k3
      BY <1>8, <2>3, Zenon
    <3> QED
      BY <1>7, <1>9, <2>3, <3>1, Zenon DEF Wakes
  <2> QED
    BY <2>2, <2>3, Zenon
<1>11. \A x \in Proc :
         /\ x # p => /\ k4.state[x] = "FREE" <=> k.state[x] = "FREE"
                     /\ k4.state[x] = "ZOMBIE" <=> k.state[x] = "ZOMBIE"
                     /\ Alive(k4, x) <=> Alive(k, x)
                     /\ k2.state[x] = "ZOMBIE" <=> k.state[x] = "ZOMBIE"
                     /\ k2.state[x] = "FREE" <=> k.state[x] = "FREE"
         /\ k4.state[x] # "UNINIT"
         /\ k4.state[x] = "SLEEPING" =>
              /\ x # p /\ k.state[x] = "SLEEPING"
              /\ k4.waitState[x] = k.waitState[x]
  <2>1. \A x \in Proc : k.state[x] # "UNINIT"
    BY Zenon DEF Family
  <2>2. \A x \in Proc :
          \/ k2.state[x] = k1.state[x] /\ k2.waitState[x] = k1.waitState[x]
          \/ /\ k1.state[x] \in {"SLEEPING", "UNINIT"}
             /\ k2.state[x] = "RUNNABLE" /\ k2.waitState[x] = "none"
    BY <1>6, Zenon DEF Wakes
  <2>3. \A x \in Proc :
          \/ k4.state[x] = k2.state[x] /\ k4.waitState[x] = k2.waitState[x]
          \/ /\ k2.state[x] \in {"SLEEPING", "UNINIT"}
             /\ k4.state[x] = "RUNNABLE" /\ k4.waitState[x] = "none"
    BY <1>7, <1>10, SMTT(60) DEF Wakes
  <2> SUFFICES ASSUME NEW x \in Proc
               PROVE  /\ x # p => /\ k4.state[x] = "FREE" <=> k.state[x] = "FREE"
                                  /\ k4.state[x] = "ZOMBIE" <=> k.state[x] = "ZOMBIE"
                                  /\ Alive(k4, x) <=> Alive(k, x)
                                  /\ k2.state[x] = "ZOMBIE" <=> k.state[x] = "ZOMBIE"
                                  /\ k2.state[x] = "FREE" <=> k.state[x] = "FREE"
                      /\ k4.state[x] # "UNINIT"
                      /\ k4.state[x] = "SLEEPING" =>
                           /\ x # p /\ k.state[x] = "SLEEPING"
                           /\ k4.waitState[x] = k.waitState[x]
    BY Zenon
  <2> HIDE DEF Good, p, kids
  <2>4. CASE x = p
    <3>1. k2.state[x] = "ZOMBIE"
      BY <1>4, <2>2, <2>4, Zenon
    <3> QED
      BY <2>3, <2>4, <3>1, Zenon
  <2>5. CASE x # p
    <3>1. k1.state[x] = k.state[x] /\ k1.waitState[x] = k.waitState[x]
      BY <1>3, <1>4, <2>5, Zenon
    <3> QED
      BY <2>1, <2>2, <2>3, <2>5, <3>1, SMTT(60) DEF Alive
  <2> QED
    BY <2>4, <2>5, Zenon
<1>12. k2.state[p] = "ZOMBIE" /\ k4.state[p] = "ZOMBIE" /\ k4.current = p
  BY <1>1, <1>3, <1>4, <1>6, <1>7, <1>10, SMTT(60) DEF Wakes
<1>13. kids = Children(k, p)
  <2>1. k2.parent = k.parent
    BY <1>3, <1>6, Zenon DEF Wakes
  <2>2. \A c \in User : k.parent[c] = p => c # p
    BY <1>2, Zenon
  <2>3. \A c \in User : c # p => (k2.state[c] = "FREE" <=> k.state[c] = "FREE")
    BY <1>1, <1>11, Zenon
  <2> HIDE DEF Good, p
  <2> QED
    BY <2>1, <2>2, <2>3, Zenon DEF Children
<1>14. k4.parent = [c \in Proc |-> IF c \in kids THEN initproc
                                   ELSE k.parent[c]]
  BY <1>3, <1>6, <1>7, <1>10, SMTT(60) DEF Wakes
<1>15. p \notin kids
  BY <1>2, <1>13, Zenon DEF Children
<1>16. k.waitState[par] = "WT_CHILD" => k4.state[par] # "SLEEPING"
  <2>1. k.waitState[par] = "WT_CHILD" => k3.state[par] = "RUNNABLE"
    BY <1>6, <1>7, Zenon
  <2>2. k4.state[par] = k3.state[par] \/ k4.state[par] = "RUNNABLE"
    BY <1>2, <1>10, Zenon DEF Wakes
  <2> HIDE DEF Good, par, kids
  <2> QED
    BY <2>1, <2>2, Zenon
<1>17. /\ (\E c \in Children(k, p) : k.state[c] = "ZOMBIE")
            => k4.waitState[initproc] # "WT_CHILD"
  BY <1>1, <1>10, <1>11, <1>13, <1>15, Zenon DEF Children
<1> HIDE DEF kids
<1>18. Family(k4)
  <2>1. ASSUME NEW x \in User, k4.state[x] # "FREE"
        PROVE  k4.parent[x] # idleproc /\ Alive(k4, k4.parent[x])
    <3>1. CASE x \in kids
      BY <1>1, <1>10, <1>14, <3>1, ThreadsAssumption, SMTT(60) DEF Sane, Alive, Proc
    <3>2. CASE x \notin kids
      <4>1. k4.parent[x] = k.parent[x] /\ k.parent[x] \in Proc
        BY <1>1, <1>14, <3>2, Zenon
      <4>2. k.state[x] # "FREE"
        BY <1>1, <1>11, <2>1, Zenon
      <4>3. k.parent[x] # p
        BY <1>13, <3>2, <4>2, Zenon DEF Children
      <4> QED
        BY <1>11, <4>1, <4>2, <4>3, SMTT(60) DEF Family
    <3> QED
      BY <3>1, <3>2, Zenon
  <2>2. ASSUME NEW S \in SUBSET User, S # {},
               \A c \in S : k4.state[c] # "FREE"
        PROVE  \E c \in S : k4.parent[c] \notin S
    <3>1. CASE S \cap kids # {}
      BY <1>1, <1>14, <3>1, ThreadsAssumption, Zenon
    <3>2. CASE S \cap kids = {}
      <4>1. \A c \in S : k.state[c] # "FREE" /\ k4.parent[c] = k.parent[c]
        BY <1>1, <1>11, <1>14, <2>2, <3>2, Zenon
      <4> QED
        BY <2>2, <4>1, Zenon DEF Family
    <3> QED
      BY <3>1, <3>2, Zenon
  <2> QED
    BY <1>11, <2>1, <2>2, Zenon DEF Family
<1>19. Waits(k4, e)
  <2> SUFFICES ASSUME NEW x \in Proc, k4.state[x] = "SLEEPING",
                      k.waitState[x] = "WT_CHILD"
               PROVE  ChildWait(k4, e, x)
    BY <1>11, SMTT(60) DEF Waits
  <2>1. x # p /\ x # par /\ k4.waitState[x] = "WT_CHILD"
    BY <1>11, <1>16, Zenon
  <2>2. ChildWait(k, e, x)
    BY <1>11, Zenon DEF Waits
  <2>3. Children(k, x) \subseteq Children(k4, x)
    BY <1>1, <1>11, <1>12, <1>13, <1>14, <2>1, ZenonT(60) DEF Children
  <2>4. ASSUME NEW c \in Children(k4, x)
        PROVE  c \in Children(k, x) \/ (x = initproc /\ c \in Children(k, p))
    BY <1>1, <1>11, <1>13, <1>14, <2>1, SMTT(60) DEF Children
  <2>5. AwaitedBy(k, e, x) \subseteq AwaitedBy(k4, e, x)
    BY <2>3, Zenon DEF AwaitedBy
  <2>6. ASSUME NEW c \in AwaitedBy(k4, e, x)
        PROVE  k4.state[c] # "ZOMBIE"
    <3>1. c \in User /\ c \in Proc /\ c # p
      BY <1>1, <1>14, <1>15, <2>1, SMTT(60) DEF AwaitedBy, Children
    <3>2. CASE c \in Children(k, x)
      BY <1>11, <2>2, <3>1, <3>2, Zenon DEF ChildWait, AwaitedBy
    <3>3. CASE x = initproc /\ c \in Children(k, p)
      BY <1>11, <1>17, <2>1, <3>1, <3>3, Zenon
    <3> QED
      BY <2>4, <3>2, <3>3, Zenon DEF AwaitedBy
  <2> QED
    BY <2>2, <2>5, <2>6, Zenon DEF ChildWait
<1>20. Owned(k4, e)
  BY <1>11, SMTT(60) DEF Owned
<1>21. e.pc[initproc] # "init_done" /\ Places(k4, e)
  BY <1>1, Zenon DEF Places
<1>22. do_exit(k) = schedule(k4)
  BY <1>1, ZenonT(60) DEF do_exit, k4, k2, k1
<1>23. /\ Good(schedule(k4), e) /\ KeepsZombies(k4, schedule(k4))
       /\ KeepsFree(k4, schedule(k4)) /\ CanRun(schedule(k4), e)
  BY <1>10, <1>18, <1>19, <1>20, <1>21, ScheduleGood, Zenon
<1>24. KeepsZombies(k, k4) /\ KeepsFree(k, k4)
  BY <1>11, <1>12, Zenon DEF KeepsZombies, KeepsFree
<1> QED
  BY <1>22, <1>23, <1>24, Zenon DEF KeepsZombies, KeepsFree

\* The end of a trap from user mode.
LEMMA TrapReturnGood ==
    ASSUME NEW k, NEW e, Good(k, e), k.current \in User,
           k.state[k.current] = "RUNNABLE", e.pc[k.current] = "user"
    PROVE  /\ Good(trap_return(k), e)
           /\ KeepsZombies(k, trap_return(k))
           /\ KeepsFree(k, trap_return(k))
           /\ CanRun(trap_return(k), e)
<1>1. e.pc[initproc] # "init_done"
  BY ThreadsAssumption, Zenon DEF Good, Places
<1>2. /\ Good(do_exit(k), e) /\ KeepsZombies(k, do_exit(k))
      /\ KeepsFree(k, do_exit(k)) /\ CanRun(do_exit(k), e)
  BY ExitGood, Zenon
<1>3. /\ Good(schedule(k), e) /\ KeepsZombies(k, schedule(k))
      /\ KeepsFree(k, schedule(k)) /\ CanRun(schedule(k), e)
  BY <1>1, ScheduleGood, Zenon
<1> QED
  BY <1>2, <1>3, Zenon DEF trap_return, KeepsZombies, KeepsFree, CanRun
-----------------------------------------------------------------------------
\* A step that changes only the environment keeps Good if it takes from no
\* sleeper what will wake it.
LEMMA EnvGood ==
    ASSUME NEW k, NEW e, NEW e2, Good(k, e), Owned(k, e2), Places(k, e2),
           \A x \in Proc : k.state[x] = "SLEEPING" =>
             /\ e2.waitPid[x] = e.waitPid[x]
             /\ e.left[x] > 0 \/ x \in e.due => e2.left[x] > 0 \/ x \in e2.due
             /\ x \in e.queue /\ (e.unread = 0 \/ e.intr = "wakeup_queue")
                  => x \in e2.queue /\ (e2.unread = 0 \/ e2.intr = "wakeup_queue")
    PROVE  Good(k, e2)
<1>1. Waits(k, e2)
  <2> SUFFICES ASSUME NEW x \in Proc, k.state[x] = "SLEEPING",
                      ChildWait(k, e, x)
               PROVE  ChildWait(k, e2, x)
    BY Zenon DEF Good, Waits
  <2>1. AwaitedBy(k, e2, x) = AwaitedBy(k, e, x)
    BY Zenon DEF AwaitedBy
  <2> QED
    BY <2>1, Zenon DEF ChildWait
<1> QED
  BY <1>1, Zenon DEF Good

\* current goes to sleep, with its wake-up arranged in e2.
LEMMA SleepOnGood ==
    ASSUME NEW k, NEW e, NEW e2, NEW w \in WaitStates \ {"none"},
           Good(k, e), Owned(k, e2), Places(k, e2),
           k.current # idleproc, k.state[k.current] = "RUNNABLE",
           \A x \in Proc : k.state[x] = "SLEEPING" =>
             /\ e2.waitPid[x] = e.waitPid[x]
             /\ e.left[x] > 0 \/ x \in e.due => e2.left[x] > 0 \/ x \in e2.due
             /\ x \in e.queue /\ (e.unread = 0 \/ e.intr = "wakeup_queue")
                  => x \in e2.queue /\ (e2.unread = 0 \/ e2.intr = "wakeup_queue"),
           w = "WT_CHILD" => ChildWait(k, e2, k.current),
           w = "WT_TIMER" => e2.left[k.current] > 0,
           w = "WT_KBD" => k.current \in e2.queue /\ e2.unread = 0
    PROVE  /\ Good(sleep_on(k, w), e2)
           /\ KeepsZombies(k, sleep_on(k, w))
           /\ sleep_on(k, w).current = k.current
<1> DEFINE p == k.current
           k1 == sleep_on(k, w)
<1>1. Good(k, e2)
  BY EnvGood
<1>2. /\ k.state \in [Proc -> States] /\ k.waitState \in [Proc -> WaitStates]
      /\ k.parent \in [Proc -> Proc] /\ p \in Proc /\ User \subseteq Proc
      /\ k \in KernelStates
  BY Fields, Zenon DEF Good, Sane, Proc
<1>3. /\ k1 \in KernelStates
      /\ k1.state = [k.state EXCEPT ![p] = "SLEEPING"]
      /\ k1.waitState = [k.waitState EXCEPT ![p] = w]
      /\ k1.parent = k.parent /\ k1.runQueue = k.runQueue
      /\ k1.current = p /\ k1.panic = k.panic
  BY <1>2, Zenon DEF sleep_on, KernelStates, States
<1> HIDE DEF k1
<1>4. /\ k1.state[p] = "SLEEPING" /\ k1.waitState[p] = w
      /\ \A x \in Proc : x # p => /\ k1.state[x] = k.state[x]
                                  /\ k1.waitState[x] = k.waitState[x]
      /\ \A x \in Proc : /\ Alive(k1, x) <=> Alive(k, x)
                         /\ k1.state[x] = "FREE" <=> k.state[x] = "FREE"
                         /\ k1.state[x] = "ZOMBIE" <=> k.state[x] = "ZOMBIE"
                         /\ k1.state[x] # "UNINIT"
  BY <1>2, <1>3 DEF Alive, Good, Family
<1>5. Sane(k1)
  <2>1. QueueExact(k1)
    BY <1>2, <1>3, <1>4 DEF Good, Sane, QueueExact, Queued
  <2> QED
    BY <1>2, <1>3, <1>4, <2>1 DEF Good, Sane, Proc
<1>6. Family(k1)
  BY <1>2, <1>3, <1>4 DEF Good, Family
<1>7. \A x \in Proc : Children(k1, x) = Children(k, x)
  BY <1>2, <1>3, <1>4 DEF Children
<1>8. \A x \in Proc : ChildWait(k, e2, x) => ChildWait(k1, e2, x)
  BY <1>2, <1>4, <1>7 DEF ChildWait, AwaitedBy, Children
<1>9. Waits(k1, e2)
  BY <1>1, <1>2, <1>4, <1>8 DEF Good, Waits, WaitStates
<1>10. Owned(k1, e2)
  BY <1>4, Zenon DEF Owned
<1>11. Places(k1, e2)
  BY <1>3, <1>7, Zenon DEF Places, Proc
<1> QED
  BY <1>3, <1>4, <1>5, <1>6, <1>9, <1>10, <1>11, Zenon DEF Good, KeepsZombies, k1

\* The fields that Good does not look at: flags, need_resched, time_slice, and
\* panic as long as no assert failed.
LEMMA PlainGood ==
    ASSUME NEW k, NEW k2 \in KernelStates, NEW e, Good(k, e),
           k2.state = k.state, k2.waitState = k.waitState,
           k2.parent = k.parent, k2.runQueue = k.runQueue,
           k2.current = k.current, k2.panic # "assert"
    PROVE  Good(k2, e) /\ KeepsZombies(k, k2) /\ (CanRun(k, e) => CanRun(k2, e))
<1>1. Sane(k2)
  BY DEF Good, Sane, QueueExact, Queued
<1>2. Family(k2) /\ Waits(k2, e) /\ Owned(k2, e) /\ Places(k2, e)
  BY DEF Good, Family, Waits, Owned, Places, Alive, ChildWait, AwaitedBy,
         Children
<1> QED
  BY <1>1, <1>2, Zenon DEF Good, KeepsZombies, CanRun

\* do_kill, of any process but idleproc: a live process may be woken, a zombie
\* only gets the flag.
LEMMA KillGood ==
    ASSUME NEW k, NEW e, Good(k, e), NEW p \in Proc
    PROVE  /\ Good(do_kill(k, p), e)
           /\ KeepsZombies(k, do_kill(k, p))
           /\ do_kill(k, p).current = k.current
           /\ k.state[k.current] = "RUNNABLE" =>
                do_kill(k, p).state[k.current] = "RUNNABLE"
<1> DEFINE k1 == [k EXCEPT !.exiting[p] = TRUE]
<1>1. /\ k1 \in KernelStates /\ k1.state = k.state /\ k1.waitState = k.waitState
      /\ k1.parent = k.parent /\ k1.runQueue = k.runQueue
      /\ k1.current = k.current /\ k1.panic = k.panic
      /\ k.current \in Proc /\ k.panic # "assert"
  BY Zenon DEF Good, Sane, KernelStates
<1>2. do_kill(k, p) = IF k.exiting[p] THEN k
                      ELSE IF k.waitState[p] # "none" THEN wakeup_proc(k1, p)
                      ELSE k1
  BY Zenon DEF do_kill
<1> HIDE DEF k1
<1>3. Good(k1, e) /\ KeepsZombies(k, k1)
  BY <1>1, PlainGood, Zenon
<1>4. CASE k.waitState[p] # "none"
  <2>1. k1.state[p] = "SLEEPING"
    BY <1>1, <1>4, Zenon DEF Good, Sane
  <2>2. /\ Good(wakeup_proc(k1, p), e) /\ KeepsZombies(k1, wakeup_proc(k1, p))
        /\ Wakes(k1, wakeup_proc(k1, p))
    BY <1>3, <2>1, WakeupGood, WakeupSane, Zenon DEF Good, Alive
  <2> QED
    BY <1>1, <1>2, <1>3, <2>2 DEF KeepsZombies, Wakes
<1>5. CASE k.waitState[p] = "none"
  BY <1>1, <1>2, <1>3, <1>5, Zenon DEF KeepsZombies
<1> QED
  BY <1>4, <1>5, Zenon

\* do_fork into a free slot: the child is RUNNABLE, queued once, and a child of
\* a process that is alive.
LEMMA ForkGood ==
    ASSUME NEW k, NEW e, Good(k, e), NEW c \in User, k.state[c] = "FREE",
           k.current # idleproc, k.state[k.current] = "RUNNABLE",
           e.pc[initproc] # "init_done"
    PROVE  /\ Good(do_fork(k, c), e)
           /\ KeepsZombies(k, do_fork(k, c))
           /\ do_fork(k, c).current = k.current
           /\ do_fork(k, c).state[k.current] = "RUNNABLE"
<1> DEFINE p == k.current
           k1 == [k EXCEPT !.state[c] = "UNINIT", !.waitState[c] = "none",
                           !.exiting[c] = FALSE, !.needResched[c] = FALSE,
                           !.timeSlice[c] = 0, !.parent[c] = p]
           k2 == do_fork(k, c)
<1>1. /\ k.state \in [Proc -> States] /\ k.waitState \in [Proc -> WaitStates]
      /\ k.timeSlice \in [Proc -> 0..MaxTimeSlice]
      /\ k.parent \in [Proc -> Proc] /\ p \in Proc /\ User \subseteq Proc
      /\ k \in KernelStates /\ c \in Proc /\ c # idleproc /\ c # initproc
      /\ p # c /\ 0 \in 0..MaxTimeSlice
  <2>1. k \in KernelStates /\ User \subseteq Proc /\ c \in Proc
    BY Zenon DEF Good, Sane, Proc
  <2>2. 0 \in 0..MaxTimeSlice
    BY BoundsAssumption
  <2>3. c # idleproc /\ c # initproc
    BY ThreadsAssumption, Zenon
  <2> QED
    BY <2>1, <2>2, <2>3, Fields, Zenon
<1>2. /\ k1 \in KernelStates
      /\ k1.state = [k.state EXCEPT ![c] = "UNINIT"]
      /\ k1.waitState = [k.waitState EXCEPT ![c] = "none"]
      /\ k1.parent = [k.parent EXCEPT ![c] = p]
      /\ k1.runQueue = k.runQueue /\ k1.current = p /\ k1.panic = k.panic
  BY <1>1, ZenonT(60) DEF KernelStates, States, WaitStates
<1>3. k2 = wakeup_proc(k1, c)
  BY Zenon DEF do_fork
<1> HIDE DEF k1, k2
<1>4. /\ k1.state[c] = "UNINIT" /\ k1.waitState[c] = "none"
      /\ k1.parent[c] = p
      /\ \A x \in Proc : x # c => /\ k1.state[x] = k.state[x]
                                  /\ k1.waitState[x] = k.waitState[x]
                                  /\ k1.parent[x] = k.parent[x]
  BY <1>1, <1>2
<1>5. Sane(k1)
  <2>1. QueueExact(k)
    BY Zenon DEF Good, Sane
  <2>2. \A x \in Proc : Queued(k1, x) <=> Queued(k, x)
    BY <1>2 DEF Queued
  <2>3. QueueExact(k1)
    BY <1>1, <1>2, <1>4, <2>1, <2>2, SMTT(60) DEF QueueExact
  <2> QED
    BY <1>1, <1>2, <1>4, <2>3 DEF Good, Sane, Proc
<1>6. /\ Sane(k2) /\ Wakes(k1, k2)
      /\ k2.state[c] = "RUNNABLE" /\ k2.waitState[c] = "none"
  BY <1>1, <1>3, <1>4, <1>5, WakeupSane, SMTT(60)
<1>7. /\ k2.parent = k1.parent /\ k2.current = p
      /\ \A x \in Proc : x # c =>
           /\ k2.state[x] = "FREE" <=> k.state[x] = "FREE"
           /\ k2.state[x] = "ZOMBIE" <=> k.state[x] = "ZOMBIE"
           /\ k2.state[x] # "UNINIT"
           /\ Alive(k2, x) <=> Alive(k, x)
           /\ k2.state[x] = "SLEEPING" => /\ k.state[x] = "SLEEPING"
                                          /\ k2.waitState[x] = k.waitState[x]
           /\ k.state[x] = "RUNNABLE" => k2.state[x] = "RUNNABLE"
  BY <1>2, <1>4, <1>6 DEF Wakes, Alive, Good, Family
<1>8. Family(k2)
  <2>1. ASSUME NEW x \in User, k2.state[x] # "FREE"
        PROVE  k2.parent[x] # idleproc /\ Alive(k2, k2.parent[x])
    <3>1. CASE x = c
      BY <1>1, <1>4, <1>7, <3>1 DEF Alive
    <3>2. CASE x # c
      <4>1. k.state[x] # "FREE" /\ k2.parent[x] = k.parent[x]
        BY <1>1, <1>4, <1>7, <2>1, <3>2
      <4>2. Alive(k, k.parent[x]) /\ k.parent[x] # idleproc
        BY <4>1, Zenon DEF Good, Family
      <4>3. k.parent[x] # c /\ k.parent[x] \in Proc
        BY <1>1, <4>2, Zenon DEF Alive
      <4> QED
        BY <1>7, <4>1, <4>2, <4>3, Zenon
    <3> QED
      BY <3>1, <3>2, Zenon
  <2>2. ASSUME NEW S \in SUBSET User, S # {},
               \A x \in S : k2.state[x] # "FREE"
        PROVE  \E x \in S : k2.parent[x] \notin S
    <3>1. CASE S \subseteq {c}
      BY <1>1, <1>4, <1>7, <2>2, <3>1, SMTT(60)
    <3>2. CASE ~ S \subseteq {c}
      <4> DEFINE T == S \ {c}
      <4>1. /\ T \in SUBSET User /\ T # {} /\ \A x \in T : k.state[x] # "FREE"
        BY <1>1, <1>7, <2>2, <3>2, Zenon
      <4>2. PICK x \in T : k.parent[x] \notin T
        BY <4>1, ZenonT(60) DEF Good, Family
      <4>3. Alive(k, k.parent[x]) /\ x \in S /\ x # c /\ x \in Proc
        BY <1>1, <4>1, <4>2, Zenon DEF Good, Family
      <4>4. k.parent[x] # c
        BY <4>3, Zenon DEF Alive
      <4> QED
        BY <1>4, <1>7, <4>2, <4>3, <4>4, SMTT(60)
    <3> QED
      BY <3>1, <3>2, Zenon
  <2>3. \A x \in Proc : k2.state[x] # "UNINIT"
    BY <1>6, <1>7, Zenon
  <2> QED
    BY <2>1, <2>2, <2>3, Zenon DEF Family
<1>9. Waits(k2, e)
  <2> SUFFICES ASSUME NEW x \in Proc, k2.state[x] = "SLEEPING",
                      ChildWait(k, e, x)
               PROVE  ChildWait(k2, e, x)
    BY <1>6, <1>7 DEF Good, Waits
  <2>1. x # p
    BY <1>1, <1>7, Zenon
  <2>2. Children(k2, x) = Children(k, x)
    BY <1>1, <1>4, <1>7, <2>1, SMTT(60) DEF Children
  <2>3. \A y \in Children(k, x) : y # c /\ y \in Proc
    BY <1>1, Zenon DEF Children
  <2> QED
    BY <1>7, <2>2, <2>3, Zenon DEF ChildWait, AwaitedBy
<1>10. Owned(k2, e)
  BY <1>1, <1>7, Zenon DEF Good, Owned, Alive
<1>11. Places(k2, e)
  BY Zenon DEF Good, Places
<1> QED
  BY <1>1, <1>6, <1>7, <1>8, <1>9, <1>10, <1>11, Zenon DEF Good, KeepsZombies, k2

\* do_wait frees a zombie child of current: it has no children and owns nothing.
LEMMA ReapGood ==
    ASSUME NEW k, NEW e, Good(k, e), k.state[k.current] = "RUNNABLE",
           NEW c \in Children(k, k.current), k.state[c] = "ZOMBIE",
           e.pc[initproc] # "init_done"
    PROVE  /\ Good(reap(k, c), e)
           /\ reap(k, c).current = k.current
           /\ reap(k, c).state[k.current] = "RUNNABLE"
           /\ reap(k, c).state[c] = "FREE"
           /\ \A x \in Proc : x # c => reap(k, c).state[x] = k.state[x]
           /\ \A x \in User : x # c => reap(k, c).parent[x] = k.parent[x]
<1> DEFINE p == k.current
           k2 == reap(k, c)
<1>1. /\ k.state \in [Proc -> States] /\ k.waitState \in [Proc -> WaitStates]
      /\ k.timeSlice \in [Proc -> 0..MaxTimeSlice]
      /\ k.parent \in [Proc -> Proc] /\ p \in Proc /\ User \subseteq Proc
      /\ k \in KernelStates /\ c \in User /\ c \in Proc
      /\ c # idleproc /\ c # initproc /\ p # c /\ 0 \in 0..MaxTimeSlice
      /\ idleproc \in Proc
  <2>1. k \in KernelStates /\ User \subseteq Proc /\ idleproc \in Proc
    BY Zenon DEF Good, Sane, Proc
  <2>2. 0 \in 0..MaxTimeSlice
    BY BoundsAssumption
  <2>3. c \in User /\ c \in Proc /\ c # idleproc /\ c # initproc
    BY <2>1, ThreadsAssumption, Zenon DEF Children
  <2> QED
    BY <2>1, <2>2, <2>3, Fields, ZenonT(60)
<1>2. /\ k2 \in KernelStates
      /\ k2.state = [k.state EXCEPT ![c] = "FREE"]
      /\ k2.waitState = k.waitState
      /\ k2.parent = [k.parent EXCEPT ![c] = idleproc]
      /\ k2.runQueue = k.runQueue /\ k2.current = p /\ k2.panic = k.panic
  BY <1>1, ZenonT(60) DEF reap, KernelStates, States
<1> HIDE DEF k2
<1>3. /\ k2.state[c] = "FREE"
      /\ \A x \in Proc : x # c => /\ k2.state[x] = k.state[x]
                                  /\ k2.parent[x] = k.parent[x]
  BY <1>1, <1>2, Zenon
<1>4. Sane(k2)
  <2>1. \A x \in Proc : Queued(k2, x) <=> Queued(k, x)
    BY <1>2, Zenon DEF Queued
  <2>2. \A x \in Proc : k2.state[x] = "RUNNABLE" <=> k.state[x] = "RUNNABLE"
    BY <1>1, <1>3, Zenon DEF Children
  <2>3. QueueExact(k2)
    BY <1>1, <1>2, <2>1, <2>2, SMTT(60) DEF Good, Sane, QueueExact
  <2> QED
    BY <1>1, <1>2, <1>3, <2>3, SMTT(60) DEF Good, Sane, Proc
<1>5. Family(k2)
  <2>1. \A x \in User : k2.state[x] # "FREE" =>
          k2.parent[x] # idleproc /\ Alive(k2, k2.parent[x])
    BY <1>1, <1>3, SMTT(60) DEF Good, Family, Alive
  <2>2. ASSUME NEW S \in SUBSET User, S # {},
               \A x \in S : k2.state[x] # "FREE"
        PROVE  \E x \in S : k2.parent[x] \notin S
    <3>1. \A x \in S : x # c /\ k.state[x] # "FREE" /\ k2.parent[x] = k.parent[x]
      BY <1>1, <1>3, <2>2, Zenon
    <3> QED
      BY <2>2, <3>1, Zenon DEF Good, Family
  <2>3. \A x \in Proc : k2.state[x] # "UNINIT"
    BY <1>1, <1>3 DEF Good, Family
  <2> QED
    BY <2>1, <2>2, <2>3, Zenon DEF Family
<1>6. Waits(k2, e)
  <2> SUFFICES ASSUME NEW x \in Proc, k.state[x] = "SLEEPING",
                      ChildWait(k, e, x)
               PROVE  ChildWait(k2, e, x)
    BY <1>2, <1>3, SMTT(60) DEF Good, Waits
  <2>1. Children(k2, x) = Children(k, x)
    BY <1>1, <1>3, Zenon DEF Children
  <2>2. \A y \in Children(k, x) : y # c /\ y \in Proc
    BY <1>1, Zenon DEF Children
  <2> QED
    BY <1>3, <2>1, <2>2, SMTT(60) DEF ChildWait, AwaitedBy
<1>7. Owned(k2, e)
  BY <1>1, <1>3, Zenon DEF Good, Owned, Alive
<1>8. Places(k2, e)
  BY <1>2, Zenon DEF Good, Places
<1> QED
  BY <1>1, <1>2, <1>3, <1>4, <1>5, <1>6, <1>7, <1>8, Zenon DEF Good, k2

-----------------------------------------------------------------------------
EnvType ==
    /\ pc \in [Proc -> PCs]
    /\ waitPid \in [Proc -> User \cup {AnyPid}]
    /\ left \in [Proc -> 0..MaxSleep]
    /\ due \in SUBSET Proc
    /\ stdinQueue \in SUBSET Proc
    /\ kbdFlag \in [Proc -> BOOLEAN]
    /\ unread \in 0..BufSize
    /\ intr \in {"none", "dispatch", "wakeup_queue", "run_timer_list"}
    /\ cause \in SUBSET {"COM1_IRQ", "TIMER0_IRQ"}

IInv == EnvType /\ Good(K, E) /\ CanRun(K, E)

\* The step of ZombieReapedByParent.
ZombieStep ==
    \A p \in Proc : state[p] = "ZOMBIE" /\ state'[p] # "ZOMBIE" =>
      state'[p] = "FREE" /\ current = parent[p]

\* Become(k2) makes k2 the process state.
LEMMA BecomeIs ==
    ASSUME NEW k2 \in KernelStates, Become(k2)
    PROVE  K' = k2
BY Zenon DEF Become, K, KernelStates

\* A step that becomes a good state keeps the inductive invariant.
LEMMA Finish ==
    ASSUME NEW k2, Become(k2), Good(k2, E'), CanRun(k2, E'), EnvType'
    PROVE  IInv'
<1>1. K' = k2
  BY BecomeIs, Zenon DEF Good, Sane
<1> QED
  BY <1>1, Zenon DEF IInv

\* A step that keeps zombies.
LEMMA FinishKeeps ==
    ASSUME NEW k2, Become(k2), Good(k2, E'), CanRun(k2, E'), EnvType',
           KeepsZombies(K, k2)
    PROVE  IInv' /\ ZombieStep
<1>1. IInv'
  BY Finish, Zenon
<1>2. state' = k2.state /\ K.state = state
  BY Zenon DEF Become, K
<1> QED
  BY <1>1, <1>2, Zenon DEF KeepsZombies, ZombieStep

-----------------------------------------------------------------------------
\* Fields of the bundled variables.
LEMMA Unbundle ==
    /\ K.state = state /\ K.waitState = waitState /\ K.exiting = exiting
    /\ K.needResched = needResched /\ K.timeSlice = timeSlice
    /\ K.parent = parent /\ K.runQueue = runQueue /\ K.current = current
    /\ K.panic = panic
    /\ E.pc = pc /\ E.waitPid = waitPid /\ E.left = left /\ E.due = due
    /\ E.queue = stdinQueue /\ E.unread = unread /\ E.intr = intr
    /\ E'.pc = pc' /\ E'.waitPid = waitPid' /\ E'.left = left' /\ E'.due = due'
    /\ E'.queue = stdinQueue' /\ E'.unread = unread' /\ E'.intr = intr'
BY Zenon DEF K, E

\* Records stay owned while their owners stay where they are.
LEMMA OwnedNext ==
    ASSUME NEW k, Owned(k, E),
           left' = left, due' = due, stdinQueue' = stdinQueue, intr' = intr,
           \A x \in Proc : left[x] > 0 \/ x \in due \/ x \in stdinQueue
                            => pc'[x] = pc[x]
    PROVE  Owned(k, E')
<1>1. \A x \in Proc : left[x] > 0 \/ x \in due => pc[x] = "do_sleep" /\ Alive(k, x)
  BY Unbundle, Zenon DEF Owned
<1>2. \A x \in Proc : x \in stdinQueue => pc[x] = "stdin_read" /\ Alive(k, x)
  BY Unbundle, Zenon DEF Owned
<1>3. intr # "run_timer_list" => due = {}
  BY Unbundle, Zenon DEF Owned
<1>4. \A x \in Proc : left'[x] > 0 \/ x \in due' => pc'[x] = "do_sleep" /\ Alive(k, x)
  BY <1>1, Zenon
<1>5. \A x \in Proc : x \in stdinQueue' => pc'[x] = "stdin_read" /\ Alive(k, x)
  BY <1>2, Zenon
<1> QED
  BY <1>3, <1>4, <1>5, Unbundle, Zenon DEF Owned

\* A process state stays good when only places change.
LEMMA GoodNext ==
    ASSUME NEW k, Good(k, E), Owned(k, E'), Places(k, E'),
           waitPid' = waitPid, left' = left, due' = due,
           stdinQueue' = stdinQueue, unread' = unread, intr' = intr
    PROVE  Good(k, E')
<1>1. /\ E'.waitPid = E.waitPid /\ E'.left = E.left /\ E'.due = E.due
      /\ E'.queue = E.queue /\ E'.unread = E.unread /\ E'.intr = E.intr
  BY Unbundle, Zenon
<1> QED
  BY <1>1, EnvGood, SMTT(60)

\* What is known of current when it runs user code or a system call.
LEMMA UserRuns ==
    ASSUME IInv, NEW l \in UserPCs, Runs(l)
    PROVE  /\ current \in User /\ current \in Proc
           /\ current # idleproc /\ current # initproc
           /\ state[current] = "RUNNABLE"
           /\ pc[initproc] # "init_done"
           /\ intr = "none" /\ due = {}
           /\ l # "do_sleep" => left[current] = 0
           /\ l # "stdin_read" => current \notin stdinQueue
<1>1. current \in Proc
  BY Unbundle, Fields, ZenonT(60) DEF IInv, Good, Sane
<1>2. current # idleproc /\ current # initproc /\ current \in User
  BY <1>1, Unbundle, Zenon DEF IInv, Good, Places, Runs, Proc, UserPCs, InitPCs
<1>3. state[current] = "RUNNABLE" /\ pc[initproc] # "init_done"
  BY <1>2, Unbundle, Zenon DEF IInv, Good, Places, CanRun
<1>4. intr = "none" /\ due = {}
  BY Unbundle, Zenon DEF IInv, Good, Owned, Runs
<1>5. left[current] \in 0..MaxSleep
  BY <1>1, Zenon DEF IInv, EnvType
<1> QED
  BY <1>1, <1>2, <1>3, <1>4, <1>5, Unbundle, SMTT(60) DEF IInv, Good, Owned, Runs

\* A trap without effect keeps it: only mips_trap's end can switch.
LEMMA OtherTrapStep ==
    ASSUME IInv, OtherTrap
    PROVE  IInv' /\ ZombieStep
<1>1. Runs("user") /\ Become(trap_return(K))
  BY Zenon DEF OtherTrap
<1>2. E' = E /\ EnvType'
  BY Zenon DEF OtherTrap, E, IInv, EnvType, timerVars, stdinVars, intrVars
<1>3. /\ Good(trap_return(K), E) /\ KeepsZombies(K, trap_return(K))
      /\ CanRun(trap_return(K), E)
  BY <1>1, UserRuns, Unbundle, TrapReturnGood, Zenon DEF IInv, UserPCs, Runs
<1> QED
  BY <1>1, <1>2, <1>3, FinishKeeps, Zenon

\* do_fork keeps it: the slot is new, so nothing queued refers to it.
LEMMA ForkStep ==
    ASSUME IInv, NEW c \in User, Fork(c)
    PROVE  IInv' /\ ZombieStep
<1> DEFINE k1 == do_fork(K, c)
<1>1. Runs("user") /\ state[c] = "FREE" /\ Become(trap_return(k1))
  BY Zenon DEF Fork
<1>2. /\ current \in User /\ current # idleproc /\ state[current] = "RUNNABLE"
      /\ pc[initproc] # "init_done" /\ c # current /\ c # initproc
      /\ c # idleproc /\ c \in Proc
  BY <1>1, UserRuns, ThreadsAssumption, Zenon DEF UserPCs, Proc
<1>3. /\ Good(k1, E) /\ KeepsZombies(K, k1) /\ k1.current = current
      /\ k1.state[current] = "RUNNABLE"
  BY <1>1, <1>2, Unbundle, ForkGood, Zenon DEF IInv
<1>4. /\ pc' = [pc EXCEPT ![c] = "user"] /\ pc \in [Proc -> PCs]
      /\ waitPid' = waitPid /\ left' = left /\ due' = due
      /\ stdinQueue' = stdinQueue /\ unread' = unread /\ intr' = intr
  BY Zenon DEF Fork, timerVars, stdinVars, intrVars, IInv, EnvType
<1>5. EnvType'
  BY <1>4, ZenonT(60) DEF Fork, IInv, EnvType, PCs, stdinVars, intrVars
<1>6. ~ Alive(K, c)
  BY <1>1, Unbundle, Zenon DEF Alive
<1>7. Owned(K, E)
  BY Zenon DEF IInv, Good
<1>8. \A x \in Proc : x # c => pc'[x] = pc[x]
  BY <1>4, Zenon
<1> HIDE DEF k1
<1>9. Owned(k1, E')
  <2>1. \A x \in Proc : left[x] > 0 \/ x \in due \/ x \in stdinQueue => x # c
    BY <1>6, <1>7, Unbundle, Zenon DEF Owned
  <2>2. Owned(k1, E)
    BY <1>3, Zenon DEF Good
  <2> QED
    BY <1>4, <1>8, <2>1, <2>2, OwnedNext, Zenon
<1>10. Places(k1, E')
  <2>1. Places(k1, E)
    BY <1>3, Zenon DEF Good
  <2>2. pc'[idleproc] = pc[idleproc] /\ pc'[initproc] = pc[initproc]
    BY <1>2, <1>8, Zenon DEF Proc
  <2>3. \A x \in User : pc'[x] = pc[x] \/ pc'[x] = "user"
    BY <1>4, Zenon DEF Proc
  <2> QED
    BY <1>2, <2>1, <2>2, <2>3, Unbundle, Zenon DEF Places, UserPCs
<1>11. Good(k1, E')
  BY <1>3, <1>4, <1>9, <1>10, GoodNext, Zenon
<1>12. /\ Good(trap_return(k1), E') /\ KeepsZombies(k1, trap_return(k1))
       /\ CanRun(trap_return(k1), E')
  BY <1>1, <1>2, <1>3, <1>8, <1>11, Unbundle, TrapReturnGood, SMTT(60) DEF Runs, Proc
<1> QED
  BY <1>1, <1>3, <1>5, <1>12, FinishKeeps, Zenon DEF KeepsZombies, k1

\* do_exit keeps it: the zombie leaves no orphan and no lost wake-up.
LEMMA ExitStep ==
    ASSUME IInv, Exit
    PROVE  IInv' /\ ZombieStep
<1>1. Runs("user") /\ Become(do_exit(K))
  BY Zenon DEF Exit
<1>2. E' = E /\ EnvType'
  BY Zenon DEF Exit, E, IInv, EnvType, timerVars, stdinVars, intrVars
<1>3. /\ Good(do_exit(K), E) /\ KeepsZombies(K, do_exit(K))
      /\ CanRun(do_exit(K), E)
  BY <1>1, UserRuns, Unbundle, ExitGood, Zenon DEF IInv, UserPCs, Runs
<1> QED
  BY <1>1, <1>2, <1>3, FinishKeeps, Zenon

\* do_kill keeps it: it wakes only a sleeper, never a zombie.
LEMMA KillStep ==
    ASSUME IInv, NEW p \in User \cup {initproc}, Kill(p)
    PROVE  IInv' /\ ZombieStep
<1> DEFINE k1 == do_kill(K, p)
<1>1. Runs("user") /\ Become(trap_return(k1)) /\ p \in Proc
  BY Zenon DEF Kill, Proc
<1>2. E' = E /\ EnvType'
  BY Zenon DEF Kill, E, IInv, EnvType, timerVars, stdinVars, intrVars
<1>3. current \in User /\ state[current] = "RUNNABLE" /\ pc[current] = "user"
  BY <1>1, UserRuns, Zenon DEF UserPCs, Runs
<1>4. /\ Good(k1, E) /\ KeepsZombies(K, k1) /\ k1.current = current
      /\ k1.state[current] = "RUNNABLE"
  BY <1>1, <1>3, Unbundle, KillGood, ZenonT(60) DEF IInv
<1> HIDE DEF k1
<1>5. /\ Good(trap_return(k1), E) /\ KeepsZombies(k1, trap_return(k1))
      /\ CanRun(trap_return(k1), E)
  BY <1>3, <1>4, Unbundle, TrapReturnGood, Zenon
<1> QED
  BY <1>1, <1>2, <1>4, <1>5, FinishKeeps, Zenon DEF KeepsZombies, k1

\* do_yield keeps it.
LEMMA YieldStep ==
    ASSUME IInv, Yield
    PROVE  IInv' /\ ZombieStep
<1> DEFINE k1 == [K EXCEPT !.needResched[current] = TRUE]
<1>1. Runs("user") /\ Become(trap_return(k1))
  BY Zenon DEF Yield
<1>2. E' = E /\ EnvType'
  BY Zenon DEF Yield, E, IInv, EnvType, timerVars, stdinVars, intrVars
<1>3. current \in User /\ state[current] = "RUNNABLE" /\ pc[current] = "user"
  BY <1>1, UserRuns, Zenon DEF UserPCs, Runs
<1>4. K \in KernelStates /\ K.panic # "assert"
  BY Zenon DEF IInv, Good, Sane
<1>5. /\ k1 \in KernelStates /\ k1.state = K.state
      /\ k1.waitState = K.waitState /\ k1.parent = K.parent
      /\ k1.runQueue = K.runQueue /\ k1.current = K.current
      /\ k1.panic = K.panic
  BY <1>4, Zenon DEF KernelStates
<1> HIDE DEF k1
<1>6. Good(k1, E) /\ KeepsZombies(K, k1)
  BY <1>4, <1>5, PlainGood, Zenon DEF IInv
<1>7. /\ Good(trap_return(k1), E) /\ KeepsZombies(k1, trap_return(k1))
      /\ CanRun(trap_return(k1), E)
  BY <1>3, <1>5, <1>6, Unbundle, TrapReturnGood, Zenon
<1> QED
  BY <1>1, <1>2, <1>6, <1>7, FinishKeeps, Zenon DEF KeepsZombies, k1

-----------------------------------------------------------------------------

\* What a system call of current leaves alone of the environment, when it
\* returns or blocks.  k is the process state it leaves.
LEMMA CallGood ==
    ASSUME IInv, NEW l \in UserPCs, Runs(l), NEW k, Good(k, E),
           k.current = current,
           k.state[current] = "RUNNABLE",
           NEW m \in UserPCs, Goto(m),
           \A x \in Proc : x # current =>
             /\ waitPid'[x] = waitPid[x]
             /\ left'[x] = left[x]
             /\ x \in stdinQueue' <=> x \in stdinQueue,
           left'[current] > 0 => m = "do_sleep",
           current \in stdinQueue' => m = "stdin_read",
           due' = due, intr' = intr, unread > 0 \/ unread' = unread
    PROVE  Good(k, E')
<1>1. /\ current \in User /\ current \in Proc
      /\ current # idleproc /\ current # initproc /\ intr = "none" /\ due = {}
  BY UserRuns, Zenon
<1>2. /\ pc'[current] = m
      /\ \A x \in Proc : x # current => pc'[x] = pc[x]
  BY <1>1, Zenon DEF Goto, IInv, EnvType
<1>3. Owned(k, E')
  BY <1>1, <1>2, Unbundle DEF Good, Owned, Alive
<1>4. Places(k, E')
  BY <1>1, <1>2, Unbundle, Zenon DEF Good, Places, Proc
<1>5. \A x \in Proc : k.state[x] = "SLEEPING" => x # current
  BY Zenon
<1> QED
  BY <1>1, <1>3, <1>4, <1>5, Unbundle, EnvGood

\* The return of a system call of current.
LEMMA ReturnStep ==
    ASSUME NEW k, Good(k, E'), k.current \in User,
           k.state[k.current] = "RUNNABLE", pc'[k.current] = "user",
           Become(trap_return(k)), EnvType'
    PROVE  /\ IInv' /\ state' = trap_return(k).state
           /\ KeepsZombies(k, trap_return(k)) /\ KeepsFree(k, trap_return(k))
<1>1. /\ Good(trap_return(k), E') /\ KeepsZombies(k, trap_return(k))
      /\ KeepsFree(k, trap_return(k)) /\ CanRun(trap_return(k), E')
  BY TrapReturnGood, Unbundle, Zenon
<1> QED
  BY <1>1, Finish, Zenon DEF Become

\* A system call that blocks current.
LEMMA BlockStep ==
    ASSUME IInv, NEW l \in UserPCs, Runs(l),
           NEW m \in UserPCs, Goto(m),
           \A x \in Proc : x # current =>
             /\ waitPid'[x] = waitPid[x]
             /\ left'[x] = left[x]
             /\ x \in stdinQueue' <=> x \in stdinQueue,
           left'[current] > 0 => m = "do_sleep",
           current \in stdinQueue' => m = "stdin_read",
           due' = due, intr' = intr, unread > 0 \/ unread' = unread, EnvType',
           NEW w \in WaitStates \ {"none"},
           w = "WT_CHILD" => ChildWait(K, E', current),
           w = "WT_TIMER" => left'[current] > 0,
           w = "WT_KBD" => current \in stdinQueue' /\ unread' = 0,
           Become(schedule(sleep_on(K, w)))
    PROVE  IInv' /\ ZombieStep
<1> DEFINE k1 == sleep_on(K, w)
<1>1. /\ current \in User /\ current \in Proc /\ current # idleproc
      /\ current # initproc
      /\ state[current] = "RUNNABLE" /\ pc[initproc] # "init_done"
  BY UserRuns, Zenon
<1>2. Good(K, E')
  BY <1>1, Unbundle, CallGood, Zenon DEF IInv
<1>3. Good(k1, E') /\ KeepsZombies(K, k1)
  BY <1>1, <1>2, Unbundle, SleepOnGood, SMTT(60) DEF Good
<1>4. E'.pc[initproc] # "init_done"
  BY <1>1, Unbundle DEF Goto, IInv, EnvType, Proc
<1> HIDE DEF k1
<1>5. /\ Good(schedule(k1), E') /\ KeepsZombies(k1, schedule(k1))
      /\ CanRun(schedule(k1), E')
  BY <1>3, <1>4, ScheduleGood, Zenon
<1> QED
  BY <1>3, <1>5, FinishKeeps, Zenon DEF KeepsZombies, k1

\* A round of do_wait keeps it: it sleeps only if no child is a zombie.
LEMMA WaitRoundStep ==
    ASSUME IInv, NEW l \in {"user", "do_wait"}, Runs(l),
           NEW pid \in User \cup {AnyPid}, WaitRound(pid),
           UNCHANGED <<timerVars, stdinVars, intrVars>>
    PROVE  IInv' /\ ZombieStep
<1> DEFINE kids == {c \in Children(K, current) : pid \in {AnyPid, c}}
           zombies == {c \in kids : state[c] = "ZOMBIE"}
<1>0. l \in UserPCs /\ l # "do_sleep" /\ l # "stdin_read"
  BY Zenon DEF UserPCs
<1>1. /\ current \in User /\ current \in Proc /\ current # initproc
      /\ state[current] = "RUNNABLE" /\ pc[initproc] # "init_done"
      /\ left[current] = 0 /\ current \notin stdinQueue
  BY <1>0, UserRuns, Zenon
<1>2. /\ left' = left /\ due' = due /\ stdinQueue' = stdinQueue
      /\ kbdFlag' = kbdFlag /\ unread' = unread /\ intr' = intr /\ cause' = cause
  BY Zenon DEF timerVars, stdinVars, intrVars
<1>3. /\ pc \in [Proc -> PCs] /\ waitPid \in [Proc -> User \cup {AnyPid}]
      /\ {"user", "do_wait"} \subseteq PCs /\ {"user", "do_wait"} \subseteq UserPCs
  BY Zenon DEF IInv, EnvType, PCs, UserPCs
<1>4. ASSUME NEW m \in {"user", "do_wait"}, Goto(m),
             NEW v \in User \cup {AnyPid},
             waitPid' = [waitPid EXCEPT ![current] = v]
      PROVE  /\ EnvType' /\ pc'[current] = m
             /\ \A x \in Proc : x # current => waitPid'[x] = waitPid[x]
             /\ waitPid'[current] = v
  BY <1>1, <1>2, <1>3, <1>4, Zenon DEF IInv, EnvType, Goto
<1>5. ASSUME NEW k, Good(k, E), k.current = current,
             k.state[current] = "RUNNABLE",
             Become(trap_return(k)), Goto("user"),
             waitPid' = [waitPid EXCEPT ![current] = AnyPid]
      PROVE  /\ IInv' /\ state' = trap_return(k).state
             /\ KeepsZombies(k, trap_return(k))
             /\ KeepsFree(k, trap_return(k))
  <2>1. Good(k, E')
    BY <1>0, <1>1, <1>2, <1>3, <1>4, <1>5, CallGood
  <2> QED
    BY <1>1, <1>4, <1>5, <2>1, ReturnStep, ZenonT(60)
<1>6. ASSUME NEW c \in zombies, Become(trap_return(reap(K, c))),
             Goto("user"), waitPid' = [waitPid EXCEPT ![current] = AnyPid]
      PROVE  IInv' /\ ZombieStep
  <2>1. /\ c \in Children(K, current) /\ K.state[c] = "ZOMBIE"
        /\ parent[c] = current
    BY Unbundle, Zenon DEF Children
  <2>2. /\ Good(reap(K, c), E) /\ reap(K, c).current = current
        /\ reap(K, c).state[current] = "RUNNABLE"
        /\ \A x \in Proc : x # c => reap(K, c).state[x] = state[x]
        /\ reap(K, c).state[c] = "FREE"
    BY <1>1, <2>1, Unbundle, ReapGood DEF IInv
  <2>3. /\ IInv' /\ KeepsZombies(reap(K, c), trap_return(reap(K, c)))
        /\ KeepsFree(reap(K, c), trap_return(reap(K, c)))
        /\ state' = trap_return(reap(K, c)).state
    BY <1>5, <1>6, <2>2, Zenon
  <2>4. c \in Proc
    BY <2>1, Zenon DEF Children, Proc
  <2>5. \A x \in Proc : x # c /\ state[x] = "ZOMBIE" => state'[x] = "ZOMBIE"
    BY <2>2, <2>3, Zenon DEF KeepsZombies
  <2>6. state'[c] = "FREE"
    BY <2>2, <2>3, <2>4, Zenon DEF KeepsFree
  <2> QED
    BY <2>1, <2>3, <2>5, <2>6, Zenon DEF ZombieStep
<1>7. ASSUME kids # {}, zombies = {}, Goto("do_wait"),
             waitPid' = [waitPid EXCEPT ![current] = pid],
             Become(schedule(sleep_on(K, "WT_CHILD")))
      PROVE  IInv' /\ ZombieStep
  <2>1. /\ EnvType' /\ waitPid'[current] = pid
        /\ \A x \in Proc : x # current => waitPid'[x] = waitPid[x]
    BY <1>4, <1>7, Zenon
  <2>2. AwaitedBy(K, E', current) = kids
    BY <1>1, <2>1, Unbundle, Zenon DEF AwaitedBy
  <2>3. ChildWait(K, E', current)
    BY <1>7, <2>2, Unbundle, Zenon DEF ChildWait
  <2>4. "do_wait" \in UserPCs /\ "WT_CHILD" \in WaitStates \ {"none"}
    BY Zenon DEF UserPCs, WaitStates
  <2>5. \A x \in Proc : x # current =>
          /\ waitPid'[x] = waitPid[x]
          /\ left'[x] = left[x]
          /\ x \in stdinQueue' <=> x \in stdinQueue
    BY <1>2, <2>1, Zenon
  <2>6. /\ left'[current] > 0 => "do_wait" = "do_sleep"
        /\ current \in stdinQueue' => "do_wait" = "stdin_read"
        /\ "WT_CHILD" # "WT_TIMER" /\ "WT_CHILD" # "WT_KBD"
    BY <1>1, <1>2
  <2> HIDE DEF kids, zombies
  <2> QED
    BY <1>0, <1>2, <1>7, <2>1, <2>3, <2>4, <2>5, <2>6, BlockStep, ZenonT(60)
<1>8. ASSUME Become(trap_return(K)), Goto("user"),
             waitPid' = [waitPid EXCEPT ![current] = AnyPid]
      PROVE  IInv' /\ ZombieStep
  <2>1. /\ IInv' /\ KeepsZombies(K, trap_return(K))
        /\ state' = trap_return(K).state
    BY <1>1, <1>5, <1>8, Unbundle, Zenon DEF IInv
  <2> QED
    BY <2>1, Unbundle, Zenon DEF KeepsZombies, ZombieStep
<1> QED
  BY <1>6, <1>7, <1>8, Zenon DEF WaitRound

\* sys_wait keeps it.
LEMMA WaitStep ==
    ASSUME IInv, NEW pid \in User \cup {AnyPid}, Wait(pid)
    PROVE  IInv' /\ ZombieStep
BY WaitRoundStep, Zenon DEF Wait

\* do_wait after its schedule() keeps it, killed or not.
LEMMA WaitResumeStep ==
    ASSUME IInv, WaitResume
    PROVE  IInv' /\ ZombieStep
<1>1. Runs("do_wait") /\ "do_wait" \in UserPCs
  BY Zenon DEF WaitResume, UserPCs
<1>2. /\ current \in User /\ current \in Proc /\ state[current] = "RUNNABLE"
      /\ left[current] = 0 /\ current \notin stdinQueue
  BY <1>1, UserRuns, Zenon
<1>3. waitPid[current] \in User \cup {AnyPid}
  BY <1>2, Zenon DEF IInv, EnvType
<1>4. CASE ~ exiting[current]
  BY <1>1, <1>3, <1>4, WaitRoundStep, Zenon DEF WaitResume
<1>5. CASE exiting[current]
  <2>1. /\ Become(do_exit(K)) /\ Goto("user")
        /\ waitPid' = [waitPid EXCEPT ![current] = AnyPid]
        /\ left' = left /\ due' = due /\ stdinQueue' = stdinQueue
        /\ kbdFlag' = kbdFlag /\ unread' = unread /\ intr' = intr
        /\ cause' = cause
    BY <1>5, Zenon DEF WaitResume, timerVars, stdinVars, intrVars
  <2>2. EnvType' /\ pc'[current] = "user"
    BY <1>2, <2>1, Zenon DEF IInv, EnvType, Goto, PCs
  <2>3. \A x \in Proc : x # current => waitPid'[x] = waitPid[x]
    BY <2>1, Zenon DEF IInv, EnvType
  <2>4. Good(K, E')
    <3>1. "user" \in UserPCs
      BY Zenon DEF UserPCs
    <3> QED
      BY <1>1, <1>2, <2>1, <2>3, <3>1, Unbundle, CallGood DEF IInv
  <2>5. /\ Good(do_exit(K), E') /\ KeepsZombies(K, do_exit(K))
        /\ CanRun(do_exit(K), E')
    BY <1>2, <2>2, <2>4, Unbundle, ExitGood, Zenon
  <2> QED
    BY <2>1, <2>2, <2>5, FinishKeeps, Zenon
<1> QED
  BY <1>4, <1>5, Zenon

\* do_sleep keeps it: the timer is added before the process sleeps.
LEMMA SleepStep ==
    ASSUME IInv, NEW t \in 1..MaxSleep, Sleep(t)
    PROVE  IInv' /\ ZombieStep
<1>1. /\ Runs("user") /\ Goto("do_sleep")
      /\ left' = [left EXCEPT ![current] = t]
      /\ waitPid' = waitPid /\ due' = due /\ stdinQueue' = stdinQueue
      /\ kbdFlag' = kbdFlag /\ unread' = unread /\ intr' = intr
      /\ cause' = cause
      /\ Become(schedule(sleep_on(K, "WT_TIMER")))
  BY Zenon DEF Sleep, stdinVars, intrVars
<1>2. /\ "user" \in UserPCs /\ "do_sleep" \in UserPCs
      /\ "WT_TIMER" \in WaitStates \ {"none"}
  BY Zenon DEF UserPCs, WaitStates
<1>3. current \in Proc /\ current \notin stdinQueue
  BY <1>1, <1>2, UserRuns, Zenon
<1>4. /\ left \in [Proc -> 0..MaxSleep] /\ t \in 0..MaxSleep /\ t > 0
  BY BoundsAssumption DEF IInv, EnvType
<1>5. /\ left'[current] = t /\ left' \in [Proc -> 0..MaxSleep]
      /\ \A x \in Proc : x # current => left'[x] = left[x]
  BY <1>1, <1>3, <1>4, Zenon
<1>6. EnvType'
  BY <1>1, <1>5, Zenon DEF IInv, EnvType, Goto, PCs
<1> QED
  BY <1>1, <1>2, <1>3, <1>4, <1>5, <1>6, BlockStep, Zenon

\* do_sleep after its schedule() keeps it: del_timer unlinks the timer.
LEMMA SleepResumeStep ==
    ASSUME IInv, SleepResume
    PROVE  IInv' /\ ZombieStep
<1>1. /\ Runs("do_sleep") /\ Goto("user")
      /\ left' = [left EXCEPT ![current] = 0]
      /\ waitPid' = waitPid /\ due' = due /\ stdinQueue' = stdinQueue
      /\ kbdFlag' = kbdFlag /\ unread' = unread /\ intr' = intr
      /\ cause' = cause
      /\ Become(trap_return(K))
  BY Zenon DEF SleepResume, stdinVars, intrVars
<1>2. "user" \in UserPCs /\ "do_sleep" \in UserPCs
  BY Zenon DEF UserPCs
<1>3. /\ current \in User /\ current \in Proc /\ state[current] = "RUNNABLE"
      /\ current \notin stdinQueue
  BY <1>1, <1>2, UserRuns, Zenon
<1>4. left \in [Proc -> 0..MaxSleep] /\ 0 \in 0..MaxSleep
  BY BoundsAssumption DEF IInv, EnvType
<1>5. /\ left'[current] = 0 /\ left' \in [Proc -> 0..MaxSleep]
      /\ \A x \in Proc : x # current => left'[x] = left[x]
  BY <1>1, <1>3, <1>4, Zenon
<1>6. EnvType' /\ pc'[current] = "user"
  BY <1>1, <1>3, <1>5, Zenon DEF IInv, EnvType, Goto, PCs
<1>7. Good(K, E')
  BY <1>1, <1>2, <1>3, <1>5, Unbundle, CallGood, SMTT(60) DEF IInv
<1>8. /\ IInv' /\ state' = trap_return(K).state
      /\ KeepsZombies(K, trap_return(K))
  BY <1>1, <1>3, <1>6, <1>7, Unbundle, ReturnStep, Zenon
<1> QED
  BY <1>8, Unbundle, Zenon DEF KeepsZombies, ZombieStep

\* A round of dev_stdin_read keeps it: it sleeps only on an empty buffer.
LEMMA TryReadStep ==
    ASSUME IInv, NEW l \in {"user", "stdin_read"}, Runs(l),
           TryRead(stdinQueue \ {current}), kbdFlag' \in [Proc -> BOOLEAN],
           UNCHANGED <<waitPid, timerVars, intrVars>>
    PROVE  IInv' /\ ZombieStep
<1>0. /\ l \in UserPCs /\ "user" \in UserPCs /\ "stdin_read" \in UserPCs
      /\ l # "do_sleep" /\ "WT_KBD" \in WaitStates \ {"none"}
  BY Zenon DEF UserPCs, WaitStates
<1>1. /\ current \in User /\ current \in Proc /\ state[current] = "RUNNABLE"
      /\ left[current] = 0
  BY <1>0, UserRuns, Zenon
<1>2. /\ waitPid' = waitPid /\ left' = left /\ due' = due
      /\ intr' = intr /\ cause' = cause
  BY Zenon DEF timerVars, intrVars
<1>3. /\ pc \in [Proc -> PCs] /\ unread \in 0..BufSize
      /\ stdinQueue \in SUBSET Proc
  BY Zenon DEF IInv, EnvType
<1>4. CASE /\ \E n \in 1..unread : unread' = unread - n
           /\ stdinQueue' = stdinQueue \ {current}
           /\ Become(trap_return(K)) /\ Goto("user")
  <2>1. unread > 0 /\ unread' \in 0..BufSize
    BY <1>3, <1>4, BoundsAssumption, SMTT(60)
  <2>2. EnvType' /\ pc'[current] = "user"
    BY <1>1, <1>2, <1>3, <1>4, <2>1, Zenon DEF IInv, EnvType, Goto, PCs
  <2>3. Good(K, E')
    BY <1>0, <1>1, <1>2, <1>4, <2>1, Unbundle, CallGood, SMTT(60) DEF IInv
  <2>4. /\ IInv' /\ state' = trap_return(K).state
        /\ KeepsZombies(K, trap_return(K))
    BY <1>1, <1>4, <2>2, <2>3, Unbundle, ReturnStep, Zenon
  <2> QED
    BY <2>4, Unbundle, Zenon DEF KeepsZombies, ZombieStep
<1>5. CASE /\ unread' = 0
           /\ stdinQueue' = (stdinQueue \ {current}) \cup {current}
           /\ Become(schedule(sleep_on(K, "WT_KBD"))) /\ Goto("stdin_read")
  <2>1. 0 \in 0..BufSize /\ (unread > 0 \/ unread' = unread)
    BY <1>3, <1>5, BoundsAssumption, SMTT(60)
  <2>2. EnvType'
    BY <1>1, <1>2, <1>3, <1>5, <2>1, Zenon DEF IInv, EnvType, Goto, PCs
  <2>3. \A x \in Proc : x # current =>
          /\ waitPid'[x] = waitPid[x] /\ left'[x] = left[x]
          /\ x \in stdinQueue' <=> x \in stdinQueue
    BY <1>2, <1>5, Zenon
  <2>4. /\ ~ (left'[current] > 0) /\ current \in stdinQueue' /\ unread' = 0
        /\ unread > 0 \/ unread' = unread
        /\ Become(schedule(sleep_on(K, "WT_KBD"))) /\ Goto("stdin_read")
    BY <1>1, <1>2, <1>5, <2>1
  <2> QED
    BY <1>0, <1>2, <2>2, <2>3, <2>4, BlockStep, ZenonT(60)
<1> QED
  BY <1>4, <1>5, Zenon DEF TryRead

\* dev_stdin_read keeps it.
LEMMA ReadStep ==
    ASSUME IInv, Read
    PROVE  IInv' /\ ZombieStep
<1>1. Runs("user") /\ TryRead(stdinQueue) /\ kbdFlag' = kbdFlag
      /\ UNCHANGED <<waitPid, timerVars, intrVars>>
  BY Zenon DEF Read
<1>2. stdinQueue \ {current} = stdinQueue
  BY <1>1, UserRuns, Zenon DEF UserPCs
<1>3. kbdFlag' \in [Proc -> BOOLEAN]
  BY <1>1, Zenon DEF IInv, EnvType
<1> QED
  BY <1>1, <1>2, <1>3, TryReadStep, Zenon

\* dev_stdin_read after its schedule() keeps it: the wait_t is unlinked.
LEMMA ReadResumeStep ==
    ASSUME IInv, ReadResume
    PROVE  IInv' /\ ZombieStep
<1>1. /\ Runs("stdin_read")
      /\ kbdFlag' = [kbdFlag EXCEPT ![current] = FALSE]
      /\ waitPid' = waitPid /\ left' = left /\ due' = due
      /\ intr' = intr /\ cause' = cause
  BY Zenon DEF ReadResume, timerVars, intrVars
<1>2. kbdFlag' \in [Proc -> BOOLEAN]
  BY <1>1, ZenonT(60) DEF IInv, EnvType
<1>3. CASE kbdFlag[current]
  BY <1>1, <1>2, <1>3, TryReadStep, Zenon DEF ReadResume
<1>4. CASE ~ kbdFlag[current]
  <2>0. "user" \in UserPCs /\ "stdin_read" \in UserPCs
    BY Zenon DEF UserPCs
  <2>1. /\ current \in User /\ current \in Proc /\ state[current] = "RUNNABLE"
        /\ left[current] = 0
    BY <1>1, <2>0, UserRuns, Zenon
  <2>2. /\ stdinQueue' = stdinQueue \ {current} /\ unread' = unread
        /\ Become(trap_return(K)) /\ Goto("user")
    BY <1>4, Zenon DEF ReadResume
  <2>3. EnvType' /\ pc'[current] = "user"
    BY <1>1, <1>2, <2>1, <2>2, Zenon DEF IInv, EnvType, Goto, PCs
  <2>4. Good(K, E')
    BY <1>1, <2>0, <2>1, <2>2, Unbundle, CallGood DEF IInv
  <2>5. /\ IInv' /\ state' = trap_return(K).state
        /\ KeepsZombies(K, trap_return(K))
    BY <2>1, <2>2, <2>3, <2>4, Unbundle, ReturnStep, Zenon
  <2> QED
    BY <2>5, Unbundle, Zenon DEF KeepsZombies, ZombieStep
<1> QED
  BY <1>3, <1>4, Zenon

-----------------------------------------------------------------------------
(* The kernel threads. *)

\* What is known of current when a place of initproc runs.
LEMMA InitRuns ==
    ASSUME IInv, NEW l \in InitPCs, Runs(l)
    PROVE  /\ current = initproc /\ initproc \in Proc /\ initproc # idleproc
           /\ initproc \notin User
           /\ l # "init_block" => state[initproc] = "RUNNABLE"
           /\ left[initproc] = 0 /\ initproc \notin stdinQueue
           /\ intr = "none" /\ due = {} /\ pc[initproc] = l
<1>1. current \in Proc /\ initproc \in Proc
  BY Unbundle, Fields, ZenonT(60) DEF IInv, Good, Sane, Proc
<1>2. current = initproc /\ pc[initproc] = l
  BY <1>1, Unbundle, Zenon DEF IInv, Good, Places, Runs, Proc, UserPCs, InitPCs
<1>3. intr = "none" /\ due = {}
  BY Unbundle, Zenon DEF IInv, Good, Owned, Runs
<1>4. left[initproc] \in 0..MaxSleep
  BY <1>1, Zenon DEF IInv, EnvType
<1>5. l # "do_sleep" /\ l # "stdin_read"
  BY Zenon DEF InitPCs
<1>6. left[initproc] = 0 /\ initproc \notin stdinQueue
  BY <1>1, <1>2, <1>4, <1>5, Unbundle, SMTT(60) DEF IInv, Good, Owned
<1> QED
  BY <1>1, <1>2, <1>3, <1>6, Unbundle, ThreadsAssumption, Zenon DEF IInv, CanRun

\* initproc moves to another place of its code.
LEMMA InitGoto ==
    ASSUME IInv, NEW l \in InitPCs, Runs(l), NEW k, Good(k, E),
           NEW m \in InitPCs, Goto(m),
           m = "init_done" => k.current = initproc /\ Children(k, initproc) = {},
           UNCHANGED <<waitPid, timerVars, stdinVars, intrVars>>
    PROVE  Good(k, E') /\ EnvType' /\ pc'[initproc] = m
<1>1. /\ current = initproc /\ initproc \in Proc /\ initproc # idleproc
      /\ initproc \notin User /\ left[initproc] = 0 /\ initproc \notin stdinQueue
      /\ due = {}
  BY InitRuns, Zenon
<1>2. /\ waitPid' = waitPid /\ left' = left /\ due' = due
      /\ stdinQueue' = stdinQueue /\ kbdFlag' = kbdFlag /\ unread' = unread
      /\ intr' = intr /\ cause' = cause
  BY Zenon DEF timerVars, stdinVars, intrVars
<1>3. /\ pc'[initproc] = m
      /\ \A x \in Proc : x # initproc => pc'[x] = pc[x]
  BY <1>1, Zenon DEF Goto, IInv, EnvType
<1>4. EnvType'
  BY <1>2, ZenonT(60) DEF IInv, EnvType, Goto, PCs, InitPCs
<1>5. Owned(k, E')
  <2>1. Owned(k, E)
    BY Zenon DEF Good
  <2>2. \A x \in Proc : left[x] > 0 \/ x \in due \/ x \in stdinQueue
                           => x # initproc
    BY <1>1
  <2>3. \A x \in Proc : left[x] > 0 \/ x \in due \/ x \in stdinQueue
                           => pc'[x] = pc[x]
    BY <1>3, <2>2, Zenon
  <2> QED
    BY <1>2, <2>1, <2>3, OwnedNext, Zenon
<1>6. Places(k, E')
  <2>1. Places(k, E)
    BY Zenon DEF Good
  <2>2. pc'[idleproc] = pc[idleproc] /\ \A x \in User : pc'[x] = pc[x]
    BY <1>1, <1>3, Zenon DEF Proc
  <2> QED
    BY <1>3, <2>1, <2>2, Unbundle, Zenon DEF Places
<1>7. Good(k, E')
  BY <1>2, <1>5, <1>6, GoodNext, Zenon
<1> QED
  BY <1>3, <1>4, <1>7, Zenon

\* cpu_idle keeps it.
LEMMA CpuIdleStep ==
    ASSUME IInv, CpuIdle
    PROVE  IInv' /\ ZombieStep
<1>1. Runs("cpu_idle") /\ Become(schedule(K))
  BY Zenon DEF CpuIdle
<1>2. E' = E /\ EnvType'
  BY Zenon DEF CpuIdle, E, IInv, EnvType, timerVars, stdinVars, intrVars
<1>3. E.pc[initproc] # "init_done"
  <2>1. current \in Proc
    BY Unbundle, Fields, ZenonT(60) DEF IInv, Good, Sane
  <2> QED
    BY <1>1, <2>1, Unbundle, Zenon DEF IInv, Good, Places, Runs, InitPCs
<1>4. /\ Good(schedule(K), E) /\ KeepsZombies(K, schedule(K))
      /\ CanRun(schedule(K), E)
  BY <1>3, ScheduleGood, Zenon DEF IInv
<1> QED
  BY <1>1, <1>2, <1>4, FinishKeeps, Zenon

\* init_main's kernel_thread(user_main) keeps it.
LEMMA InitMainStep ==
    ASSUME IInv, NEW c \in User, InitMain(c)
    PROVE  IInv' /\ ZombieStep
<1> DEFINE k1 == do_fork(K, c)
<1>1. /\ Runs("init_main") /\ state[c] = "FREE" /\ Become(k1)
      /\ pc' = [pc EXCEPT ![c] = "user_main", ![current] = "init_wait"]
      /\ waitPid' = waitPid /\ left' = left /\ due' = due
      /\ stdinQueue' = stdinQueue /\ kbdFlag' = kbdFlag /\ unread' = unread
      /\ intr' = intr /\ cause' = cause
  BY Zenon DEF InitMain, timerVars, stdinVars, intrVars
<1>2. /\ current = initproc /\ initproc \in Proc /\ initproc # idleproc
      /\ state[initproc] = "RUNNABLE" /\ pc[initproc] = "init_main"
      /\ left[initproc] = 0 /\ initproc \notin stdinQueue /\ due = {}
  BY <1>1, InitRuns, Zenon DEF InitPCs
<1>3. c \in Proc /\ c # initproc /\ c # idleproc
  BY ThreadsAssumption, Zenon DEF Proc
<1>4. /\ Good(k1, E) /\ KeepsZombies(K, k1) /\ k1.current = initproc
      /\ k1.state[initproc] = "RUNNABLE"
  BY <1>1, <1>2, Unbundle, ForkGood, SMTT(60) DEF IInv
<1> HIDE DEF k1
<1>5. /\ pc'[initproc] = "init_wait" /\ pc'[c] = "user_main"
      /\ \A x \in Proc : x # c /\ x # initproc => pc'[x] = pc[x]
  <2>1. pc \in [Proc -> PCs]
    BY Zenon DEF IInv, EnvType
  <2> QED
    BY <1>1, <1>2, <1>3, <2>1, Zenon
<1>6. EnvType'
  <2>1. pc' \in [Proc -> PCs]
    BY <1>1, <1>2, <1>3, Zenon DEF IInv, EnvType, PCs
  <2> QED
    BY <1>1, <2>1, Zenon DEF IInv, EnvType
<1>7. ~ Alive(K, c) /\ Owned(K, E)
  BY <1>1, Unbundle, Zenon DEF Alive, IInv, Good
<1>8. Owned(k1, E')
  <2>1. \A x \in Proc : left[x] > 0 \/ x \in due \/ x \in stdinQueue =>
          x # c /\ x # initproc
    BY <1>2, <1>7, Unbundle, Zenon DEF Owned
  <2>2. left' = left /\ due' = due /\ stdinQueue' = stdinQueue /\ intr' = intr
    BY <1>1, Zenon
  <2>3. Owned(k1, E)
    BY <1>4, Zenon DEF Good
  <2> QED
    BY <1>5, <2>1, <2>2, <2>3, OwnedNext, Zenon
<1>9. Places(k1, E')
  <2>1. Places(k1, E)
    BY <1>4, Zenon DEF Good
  <2>2. pc'[idleproc] = pc[idleproc]
    BY <1>2, <1>3, <1>5, Zenon DEF Proc
  <2>3. \A x \in User : pc'[x] = pc[x] \/ pc'[x] = "user_main"
    BY <1>2, <1>5, ThreadsAssumption, Zenon DEF Proc
  <2> QED
    BY <1>5, <2>1, <2>2, <2>3, Unbundle, Zenon DEF Places, UserPCs, InitPCs
<1>10. Good(k1, E')
  BY <1>1, <1>4, <1>8, <1>9, GoodNext, Zenon
<1> QED
  BY <1>1, <1>4, <1>6, <1>10, FinishKeeps, Zenon DEF CanRun

\* user_main keeps it, whether its exec succeeds or not.
LEMMA UserMainStep ==
    ASSUME IInv, UserMain
    PROVE  IInv' /\ ZombieStep
<1>1. /\ Runs("user_main") /\ Goto("user")
      /\ waitPid' = waitPid /\ left' = left /\ due' = due
      /\ stdinQueue' = stdinQueue /\ kbdFlag' = kbdFlag /\ unread' = unread
      /\ intr' = intr /\ cause' = cause
  BY Zenon DEF UserMain, timerVars, stdinVars, intrVars
<1>2. "user_main" \in UserPCs /\ "user" \in UserPCs
  BY Zenon DEF UserPCs
<1>3. /\ current \in User /\ current \in Proc /\ state[current] = "RUNNABLE"
      /\ left[current] = 0 /\ current \notin stdinQueue
  BY <1>1, <1>2, UserRuns, Zenon
<1>4. EnvType' /\ pc'[current] = "user"
  BY <1>1, <1>3, Zenon DEF IInv, EnvType, Goto, PCs
<1>5. Good(K, E')
  BY <1>1, <1>2, <1>3, Unbundle, CallGood, SMTT(60) DEF IInv
<1>6. CASE Become(K)
  <2>1. KeepsZombies(K, K) /\ CanRun(K, E')
    BY <1>3, Unbundle, Zenon DEF KeepsZombies, CanRun
  <2> QED
    BY <1>4, <1>5, <1>6, <2>1, FinishKeeps, Zenon
<1>7. CASE Become(do_exit(K))
  <2>1. /\ Good(do_exit(K), E') /\ KeepsZombies(K, do_exit(K))
        /\ CanRun(do_exit(K), E')
    BY <1>3, <1>4, <1>5, Unbundle, ExitGood, Zenon
  <2> QED
    BY <1>4, <1>7, <2>1, FinishKeeps, Zenon
<1> QED
  BY <1>6, <1>7, Zenon DEF UserMain
-----------------------------------------------------------------------------
(* The rest of init_main. *)

\* do_wait of init_main keeps it up to its schedule().
LEMMA InitWaitStep ==
    ASSUME IInv, InitWait
    PROVE  IInv' /\ ZombieStep
<1> DEFINE kids == Children(K, initproc)
           zombies == {c \in kids : state[c] = "ZOMBIE"}
<1>0. /\ "init_wait" \in InitPCs /\ "init_yield" \in InitPCs
      /\ "init_block" \in InitPCs /\ "init_done" \in InitPCs
      /\ "WT_CHILD" \in WaitStates \ {"none"}
  BY Zenon DEF InitPCs, WaitStates
<1>1. /\ Runs("init_wait")
      /\ UNCHANGED <<waitPid, timerVars, stdinVars, intrVars>>
  BY Zenon DEF InitWait
<1>2. /\ current = initproc /\ initproc \in Proc /\ initproc # idleproc
      /\ state[initproc] = "RUNNABLE" /\ pc[initproc] = "init_wait"
  BY <1>0, <1>1, InitRuns, Zenon
<1>3. ASSUME NEW c \in zombies, Become(reap(K, c)), Goto("init_yield")
      PROVE  IInv' /\ ZombieStep
  <2>1. /\ c \in Children(K, current) /\ K.state[c] = "ZOMBIE"
        /\ parent[c] = current /\ c \in Proc
    BY <1>2, Unbundle, Zenon DEF Children, Proc
  <2>2. /\ Good(reap(K, c), E) /\ reap(K, c).current = current
        /\ reap(K, c).state[current] = "RUNNABLE"
        /\ \A x \in Proc : x # c => reap(K, c).state[x] = state[x]
        /\ reap(K, c).state[c] = "FREE"
    BY <1>2, <2>1, Unbundle, ReapGood, SMTT(60) DEF IInv
  <2>3. Good(reap(K, c), E') /\ EnvType'
    BY <1>0, <1>1, <1>3, <2>2, InitGoto, Zenon
  <2>4. CanRun(reap(K, c), E')
    BY <2>2, Zenon DEF CanRun
  <2>5. IInv'
    BY <1>3, <2>3, <2>4, Finish, Zenon
  <2>6. state' = reap(K, c).state
    BY <1>3, Zenon DEF Become
  <2> QED
    BY <2>1, <2>2, <2>5, <2>6, Zenon DEF ZombieStep
<1>4. ASSUME kids # {}, zombies = {}, Goto("init_block"),
             Become(sleep_on(K, "WT_CHILD"))
      PROVE  IInv' /\ ZombieStep
  <2>1. Good(K, E') /\ EnvType' /\ pc'[initproc] = "init_block"
    BY <1>0, <1>1, <1>4, InitGoto, Zenon DEF IInv
  <2>2. ChildWait(K, E', initproc)
    BY <1>4, Unbundle, Zenon DEF ChildWait, AwaitedBy
  <2>3. /\ Good(sleep_on(K, "WT_CHILD"), E')
        /\ KeepsZombies(K, sleep_on(K, "WT_CHILD"))
        /\ sleep_on(K, "WT_CHILD").current = initproc
    BY <1>0, <1>2, <2>1, <2>2, Unbundle, SleepOnGood, SMTT(60) DEF Good
  <2>4. CanRun(sleep_on(K, "WT_CHILD"), E')
    BY <2>1, <2>3, Unbundle, Zenon DEF CanRun
  <2> QED
    BY <1>4, <2>1, <2>3, <2>4, FinishKeeps, Zenon
<1>5. ASSUME kids = {}, Become(K), Goto("init_done")
      PROVE  IInv' /\ ZombieStep
  <2>1. Good(K, E') /\ EnvType'
    BY <1>0, <1>1, <1>2, <1>5, Unbundle, InitGoto, Zenon DEF IInv
  <2>2. CanRun(K, E') /\ KeepsZombies(K, K)
    BY <1>2, Unbundle, Zenon DEF CanRun, KeepsZombies
  <2> QED
    BY <1>5, <2>1, <2>2, FinishKeeps, Zenon
<1> QED
  BY <1>3, <1>4, <1>5, Zenon DEF InitWait

\* The schedule() in do_wait of init_main keeps it.
LEMMA InitBlockStep ==
    ASSUME IInv, InitBlock
    PROVE  IInv' /\ ZombieStep
<1>0. "init_block" \in InitPCs /\ "init_woken" \in InitPCs
  BY Zenon DEF InitPCs
<1>1. Runs("init_block") /\ Become(schedule(K)) /\ Goto("init_woken")
      /\ UNCHANGED <<waitPid, timerVars, stdinVars, intrVars>>
  BY Zenon DEF InitBlock
<1>2. Good(K, E') /\ EnvType' /\ pc'[initproc] = "init_woken"
  BY <1>0, <1>1, InitGoto, Zenon DEF IInv
<1>3. /\ Good(schedule(K), E') /\ KeepsZombies(K, schedule(K))
      /\ CanRun(schedule(K), E')
  BY <1>2, Unbundle, ScheduleGood, Zenon
<1> QED
  BY <1>1, <1>2, <1>3, FinishKeeps, Zenon

\* The schedule() in the loop of init_main keeps it.
LEMMA InitYieldStep ==
    ASSUME IInv, InitYield
    PROVE  IInv' /\ ZombieStep
<1>0. "init_yield" \in InitPCs /\ "init_wait" \in InitPCs
  BY Zenon DEF InitPCs
<1>1. Runs("init_yield") /\ Become(schedule(K)) /\ Goto("init_wait")
      /\ UNCHANGED <<waitPid, timerVars, stdinVars, intrVars>>
  BY Zenon DEF InitYield
<1>2. Good(K, E') /\ EnvType' /\ pc'[initproc] = "init_wait"
  BY <1>0, <1>1, InitGoto, Zenon DEF IInv
<1>3. /\ Good(schedule(K), E') /\ KeepsZombies(K, schedule(K))
      /\ CanRun(schedule(K), E')
  BY <1>2, Unbundle, ScheduleGood, Zenon
<1> QED
  BY <1>1, <1>2, <1>3, FinishKeeps, Zenon

\* do_exit of initproc stops the kernel, without a failed assert.
LEMMA InitExit ==
    ASSUME NEW k, NEW e, Good(k, e), k.current = initproc
    PROVE  /\ Good(do_exit(k), e) /\ KeepsZombies(k, do_exit(k))
           /\ CanRun(k, e) => CanRun(do_exit(k), e)
<1> DEFINE k2 == [k EXCEPT !.panic = "initproc exit"]
<1>1. do_exit(k) = k2
  BY Zenon DEF do_exit
<1>2. /\ k2 \in KernelStates /\ k2.state = k.state
      /\ k2.waitState = k.waitState /\ k2.parent = k.parent
      /\ k2.runQueue = k.runQueue /\ k2.current = k.current
      /\ k2.panic # "assert"
  BY Zenon DEF Good, Sane, KernelStates
<1> HIDE DEF k2
<1> QED
  BY <1>1, <1>2, PlainGood, Zenon

\* do_wait of init_main after its schedule() keeps it, killed or not.
LEMMA InitWokenStep ==
    ASSUME IInv, InitWoken
    PROVE  IInv' /\ ZombieStep
<1>0. "init_woken" \in InitPCs /\ "init_wait" \in InitPCs
  BY Zenon DEF InitPCs
<1>1. /\ Runs("init_woken") /\ Goto("init_wait")
      /\ UNCHANGED <<waitPid, timerVars, stdinVars, intrVars>>
      /\ Become(IF exiting[current] THEN do_exit(K) ELSE K)
  BY Zenon DEF InitWoken
<1>2. Good(K, E') /\ EnvType' /\ pc'[initproc] = "init_wait"
  BY <1>0, <1>1, InitGoto, Zenon DEF IInv
<1>3. current = initproc /\ state[initproc] = "RUNNABLE"
  BY <1>0, <1>1, InitRuns, Zenon
<1>4. CanRun(K, E') /\ KeepsZombies(K, K)
  BY <1>3, Unbundle, Zenon DEF CanRun, KeepsZombies
<1>5. /\ Good(do_exit(K), E') /\ KeepsZombies(K, do_exit(K))
      /\ CanRun(do_exit(K), E')
  BY <1>2, <1>3, <1>4, Unbundle, InitExit, Zenon
<1> QED
  BY <1>1, <1>2, <1>4, <1>5, FinishKeeps, Zenon

\* When initproc has no child, the forest of processes is empty.
LEMMA InitDoneStep ==
    ASSUME IInv, InitDone
    PROVE  IInv' /\ ZombieStep
<1>0. "init_done" \in InitPCs
  BY Zenon DEF InitPCs
<1>1. Runs("init_done")
  BY Zenon DEF InitDone
<1>2. E' = E /\ EnvType'
  BY Zenon DEF InitDone, E, IInv, EnvType, timerVars, stdinVars, intrVars
<1>3. current = initproc /\ pc[initproc] = "init_done"
  BY <1>0, <1>1, InitRuns, Zenon
<1>4. Children(K, initproc) = {}
  BY <1>3, Unbundle, Zenon DEF IInv, Good, Places
<1>5. \A c \in User : state[c] = "FREE"
  <2> DEFINE S == {c \in User : state[c] # "FREE"}
  <2> SUFFICES ASSUME S # {} PROVE FALSE
    BY Zenon
  <2>1. PICK c \in S : K.parent[c] \notin S
    BY Unbundle, ZenonT(60) DEF IInv, Good, Family
  <2>2. K.parent[c] # idleproc /\ Alive(K, K.parent[c])
    BY <2>1, Unbundle, Zenon DEF IInv, Good, Family
  <2>3. K.parent[c] \in Proc
    BY <2>1, Fields, Zenon DEF IInv, Good, Sane, Proc
  <2>4. K.parent[c] = initproc
    BY <2>1, <2>2, <2>3, Unbundle, Zenon DEF Alive, Proc
  <2> QED
    BY <1>4, <2>1, <2>4, Unbundle, Zenon DEF Children
<1>6. Become(do_exit(K))
  BY <1>5, Zenon DEF InitDone
<1>7. /\ Good(do_exit(K), E) /\ KeepsZombies(K, do_exit(K))
      /\ CanRun(do_exit(K), E)
  BY <1>3, Unbundle, InitExit, Zenon DEF IInv
<1> QED
  BY <1>2, <1>6, <1>7, FinishKeeps, Zenon

-----------------------------------------------------------------------------
(* Interrupts. *)

\* A handler step that leaves pc and waitPid alone.
LEMMA HandlerGood ==
    ASSUME NEW k, Good(k, E), pc' = pc, waitPid' = waitPid,
           \A x \in Proc : left'[x] > 0 \/ x \in due' =>
             left[x] > 0 \/ x \in due,
           \A x \in Proc : x \in stdinQueue' => x \in stdinQueue,
           intr' # "run_timer_list" => due' = {},
           \A x \in Proc : k.state[x] = "SLEEPING" =>
             /\ left[x] > 0 \/ x \in due => left'[x] > 0 \/ x \in due'
             /\ x \in stdinQueue /\ (unread = 0 \/ intr = "wakeup_queue")
                  => x \in stdinQueue' /\ (unread' = 0 \/ intr' = "wakeup_queue")
    PROVE  Good(k, E')
<1>1. Owned(k, E')
  BY Unbundle, Zenon DEF Good, Owned
<1>2. Places(k, E')
  BY Unbundle, Zenon DEF Good, Places
<1> QED
  BY <1>1, <1>2, Unbundle, EnvGood, SMTT(60)

\* CanRun depends on pc only.
LEMMA CanRunPc ==
    ASSUME NEW k, CanRun(k, E), pc' = pc
    PROVE  CanRun(k, E')
BY Unbundle, Zenon DEF CanRun

\* A step that leaves the process state alone.
LEMMA SameK ==
    ASSUME IInv, UNCHANGED procVars, Good(K, E'), EnvType', pc' = pc
    PROVE  IInv' /\ ZombieStep
<1>1. K' = K /\ state' = state
  BY Zenon DEF K, procVars
<1>2. CanRun(K, E')
  BY CanRunPc, Zenon DEF IInv
<1> QED
  BY <1>1, <1>2, Zenon DEF IInv, ZombieStep

\* Taking an interrupt keeps it.
LEMMA InterruptStep ==
    ASSUME IInv, NEW c \in SUBSET {"COM1_IRQ", "TIMER0_IRQ"}, Interrupt(c)
    PROVE  IInv' /\ ZombieStep
<1>1. /\ intr = "none" /\ intr' = "dispatch" /\ cause' = c
      /\ UNCHANGED procVars /\ pc' = pc /\ waitPid' = waitPid
      /\ left' = left /\ due' = due /\ stdinQueue' = stdinQueue
      /\ kbdFlag' = kbdFlag /\ unread' = unread
  BY Zenon DEF Interrupt, timerVars, stdinVars
<1>2. due = {}
  BY <1>1, Unbundle, Zenon DEF IInv, Good, Owned
<1>3. Good(K, E')
  BY <1>1, <1>2, HandlerGood, Zenon DEF IInv
<1>4. EnvType'
  BY <1>1, Zenon DEF IInv, EnvType
<1> QED
  BY <1>1, <1>3, <1>4, SameK, Zenon

\* serial_int_handler and dev_stdin_write keep it up to wakeup_queue.
LEMMA SerialIntStep ==
    ASSUME IInv, SerialInt
    PROVE  IInv' /\ ZombieStep
<1>1. /\ intr = "dispatch" /\ cause' = cause \ {"COM1_IRQ"}
      /\ UNCHANGED procVars /\ pc' = pc /\ waitPid' = waitPid
      /\ left' = left /\ due' = due /\ stdinQueue' = stdinQueue
      /\ kbdFlag' = kbdFlag
      /\ \/ intr' = intr /\ unread' = unread
         \/ /\ intr' = "wakeup_queue"
            /\ unread' = IF unread < BufSize THEN unread + 1 ELSE unread
  BY Zenon DEF SerialInt, Handles, timerVars
<1>2. due = {}
  BY <1>1, Unbundle, Zenon DEF IInv, Good, Owned
<1>3. Good(K, E')
  BY <1>1, <1>2, HandlerGood, Zenon DEF IInv
<1>4. unread' \in 0..BufSize
  BY <1>1, BoundsAssumption DEF IInv, EnvType
<1>5. EnvType'
  BY <1>1, <1>4, Zenon DEF IInv, EnvType
<1> QED
  BY <1>1, <1>3, <1>5, SameK, Zenon

\* An iteration of wakeup_queue keeps it: whoever is queued is alive.
LEMMA WakeupQueueStep ==
    ASSUME IInv, NEW p \in Proc, WakeupQueue(p)
    PROVE  IInv' /\ ZombieStep
<1> DEFINE k1 == wakeup_proc(K, p)
<1>1. /\ intr = "wakeup_queue" /\ p \in stdinQueue
      /\ stdinQueue' = stdinQueue \ {p} /\ Become(k1)
      /\ kbdFlag' = [kbdFlag EXCEPT ![p] = TRUE]
      /\ pc' = pc /\ waitPid' = waitPid /\ left' = left /\ due' = due
      /\ unread' = unread /\ intr' = intr /\ cause' = cause
  BY Zenon DEF WakeupQueue, Handles, timerVars, intrVars
<1>2. Alive(K, p) /\ due = {}
  BY <1>1, Unbundle, Zenon DEF IInv, Good, Owned
<1>3. /\ Good(k1, E) /\ KeepsZombies(K, k1) /\ CanRun(k1, E)
      /\ k1.state[p] = "RUNNABLE"
  BY <1>2, WakeupGood, WakeupSane, Zenon DEF IInv, Good, Alive
<1> HIDE DEF k1
<1>4. Good(k1, E')
  BY <1>1, <1>2, <1>3, HandlerGood, Zenon
<1>5. EnvType'
  BY <1>1, Zenon DEF IInv, EnvType
<1>6. CanRun(k1, E')
  BY <1>1, <1>3, CanRunPc, Zenon
<1> QED
  BY <1>1, <1>3, <1>4, <1>5, <1>6, FinishKeeps, Zenon

\* wakeup_queue leaves the queue empty, so no reader was missed.
LEMMA WakeupQueueEndStep ==
    ASSUME IInv, WakeupQueueEnd
    PROVE  IInv' /\ ZombieStep
<1>1. /\ intr = "wakeup_queue" /\ intr' = "dispatch" /\ stdinQueue = {}
      /\ UNCHANGED procVars /\ pc' = pc /\ waitPid' = waitPid
      /\ left' = left /\ due' = due /\ stdinQueue' = stdinQueue
      /\ kbdFlag' = kbdFlag /\ unread' = unread /\ cause' = cause
  BY Zenon DEF WakeupQueueEnd, Handles, timerVars, stdinVars
<1>2. due = {}
  BY <1>1, Unbundle, Zenon DEF IInv, Good, Owned
<1>3. Good(K, E')
  BY <1>1, <1>2, HandlerGood, Zenon DEF IInv
<1>4. EnvType'
  BY <1>1, Zenon DEF IInv, EnvType
<1> QED
  BY <1>1, <1>3, <1>4, SameK, Zenon

\* clock_int_handler keeps it: each expired timer is due.
LEMMA ClockIntStep ==
    ASSUME IInv, ClockInt
    PROVE  IInv' /\ ZombieStep
<1>1. /\ intr = "dispatch" /\ intr' = "run_timer_list" /\ cause' = {}
      /\ left' = [p \in Proc |-> IF left[p] > 0 THEN left[p] - 1 ELSE 0]
      /\ due' = {p \in Proc : left[p] = 1}
      /\ UNCHANGED procVars /\ pc' = pc /\ waitPid' = waitPid
      /\ stdinQueue' = stdinQueue /\ kbdFlag' = kbdFlag /\ unread' = unread
  BY Zenon DEF ClockInt, Handles, stdinVars
<1>2. due = {}
  BY <1>1, Unbundle, Zenon DEF IInv, Good, Owned
<1>3. \A x \in Proc : left[x] \in 0..MaxSleep
  BY Zenon DEF IInv, EnvType
<1>4. \A x \in Proc : /\ left'[x] \in 0..MaxSleep
                     /\ (left'[x] > 0 \/ x \in due') <=> left[x] > 0
  BY <1>1, <1>3, BoundsAssumption, SMTT(60)
<1>5. Good(K, E')
  BY <1>1, <1>2, <1>4, HandlerGood DEF IInv
<1>6. left' \in [Proc -> 0..MaxSleep]
  <2> DEFINE f(p) == IF left[p] > 0 THEN left[p] - 1 ELSE 0
  <2>1. left' = [p \in Proc |-> f(p)]
    BY <1>1, Zenon
  <2>2. \A p \in Proc : f(p) \in 0..MaxSleep
    BY <1>3, BoundsAssumption
  <2> HIDE DEF f
  <2> QED
    BY <2>1, <2>2, Zenon
<1>7. EnvType'
  BY <1>1, <1>6, Zenon DEF IInv, EnvType
<1> QED
  BY <1>1, <1>5, <1>7, SameK, Zenon

\* A timer run by run_timer_list keeps it: its process is alive.
LEMMA RunTimerStep ==
    ASSUME IInv, NEW p \in Proc, RunTimer(p)
    PROVE  IInv' /\ ZombieStep
<1> DEFINE k1 == wakeup_proc(K, p)
<1>1. /\ intr = "run_timer_list" /\ p \in due
      /\ due' = due \ {p} /\ Become(k1)
      /\ pc' = pc /\ waitPid' = waitPid /\ left' = left
      /\ stdinQueue' = stdinQueue /\ kbdFlag' = kbdFlag
      /\ unread' = unread /\ intr' = intr /\ cause' = cause
  BY Zenon DEF RunTimer, Handles, stdinVars, intrVars
<1>2. Alive(K, p)
  BY <1>1, Unbundle, Zenon DEF IInv, Good, Owned
<1>3. /\ Good(k1, E) /\ KeepsZombies(K, k1) /\ CanRun(k1, E)
      /\ k1.state[p] = "RUNNABLE"
  BY <1>2, WakeupGood, WakeupSane, Zenon DEF IInv, Good, Alive
<1> HIDE DEF k1
<1>4. Good(k1, E')
  BY <1>1, <1>3, HandlerGood, Zenon
<1>5. EnvType'
  BY <1>1, Zenon DEF IInv, EnvType
<1>6. CanRun(k1, E')
  BY <1>1, <1>3, CanRunPc, Zenon
<1> QED
  BY <1>1, <1>3, <1>4, <1>5, <1>6, FinishKeeps, Zenon

\* sched_class_proc_tick keeps it.
LEMMA ProcTickStep ==
    ASSUME IInv, ProcTick
    PROVE  IInv' /\ ZombieStep
<1> DEFINE k1 == sched_class_proc_tick(K)
           ts == IF timeSlice[current] > 0 THEN timeSlice[current] - 1 ELSE 0
<1>1. /\ intr = "run_timer_list" /\ due = {} /\ Become(k1)
      /\ intr' = "dispatch" /\ due' = due
      /\ pc' = pc /\ waitPid' = waitPid /\ left' = left
      /\ stdinQueue' = stdinQueue /\ kbdFlag' = kbdFlag
      /\ unread' = unread /\ cause' = cause
  BY Zenon DEF ProcTick, Handles, timerVars, stdinVars
<1>2. K \in KernelStates /\ current \in Proc /\ K.panic # "assert"
      /\ timeSlice \in [Proc -> 0..MaxTimeSlice]
  BY Fields, Unbundle, ZenonT(60) DEF IInv, Good, Sane
<1>3. ts \in 0..MaxTimeSlice
  BY <1>2, BoundsAssumption
<1>4. k1 = IF current = idleproc
             THEN [K EXCEPT !.needResched[current] = TRUE]
             ELSE [K EXCEPT !.timeSlice[current] = ts,
                            !.needResched[current] = IF ts = 0 THEN TRUE ELSE @]
  BY Unbundle, Zenon DEF sched_class_proc_tick
<1> HIDE DEF ts, k1
<1>5. /\ k1 \in KernelStates /\ k1.state = K.state
      /\ k1.waitState = K.waitState /\ k1.parent = K.parent
      /\ k1.runQueue = K.runQueue /\ k1.current = K.current
      /\ k1.panic = K.panic
  BY <1>2, <1>3, <1>4, ZenonT(60) DEF KernelStates
<1>6. Good(k1, E) /\ KeepsZombies(K, k1) /\ CanRun(k1, E)
  BY <1>2, <1>5, PlainGood, Zenon DEF IInv
<1>7. Good(k1, E')
  BY <1>1, <1>6, HandlerGood, Zenon
<1>8. EnvType' /\ CanRun(k1, E')
  BY <1>1, <1>6, CanRunPc, Zenon DEF IInv, EnvType
<1> QED
  BY <1>1, <1>6, <1>7, <1>8, FinishKeeps, Zenon

\* The return from an interrupt keeps it.
LEMMA InterruptReturnStep ==
    ASSUME IInv, InterruptReturn
    PROVE  IInv' /\ ZombieStep
<1>1. /\ intr = "dispatch" /\ intr' = "none" /\ UNCHANGED procVars
      /\ pc' = pc /\ waitPid' = waitPid /\ left' = left /\ due' = due
      /\ stdinQueue' = stdinQueue /\ kbdFlag' = kbdFlag
      /\ unread' = unread /\ cause' = cause
  BY Zenon DEF InterruptReturn, Handles, timerVars, stdinVars
<1>2. due = {}
  BY <1>1, Unbundle, Zenon DEF IInv, Good, Owned
<1>3. Good(K, E')
  BY <1>1, <1>2, HandlerGood, Zenon DEF IInv
<1>4. EnvType'
  BY <1>1, Zenon DEF IInv, EnvType
<1> QED
  BY <1>1, <1>3, <1>4, SameK, Zenon

\* Nothing changes.
LEMMA StutterStep ==
    ASSUME IInv, UNCHANGED vars
    PROVE  IInv' /\ ZombieStep
<1>1. UNCHANGED procVars /\ E' = E /\ K' = K /\ state' = state
  BY Zenon DEF vars, procVars, timerVars, stdinVars, intrVars, E, K
<1>2. EnvType'
  BY Zenon DEF vars, timerVars, stdinVars, intrVars, IInv, EnvType
<1> QED
  BY <1>1, <1>2, Zenon DEF IInv, ZombieStep

-----------------------------------------------------------------------------
\* Every step keeps the inductive invariant, and reaps zombies rightly.
LEMMA NextStep ==
    ASSUME IInv, Next
    PROVE  IInv' /\ ZombieStep
<1>1. CASE UserNext
  BY <1>1, OtherTrapStep, ForkStep, ExitStep, KillStep, YieldStep, WaitStep,
     SleepStep, ReadStep, Zenon
  DEF UserNext
<1>2. CASE KernelNext
  BY <1>2, WaitResumeStep, SleepResumeStep, ReadResumeStep, CpuIdleStep, InitMainStep,
     UserMainStep, InitWaitStep, InitBlockStep, InitWokenStep, InitYieldStep, InitDoneStep, Zenon
  DEF KernelNext
<1>3. CASE InterruptNext
  BY <1>3, InterruptStep, Zenon DEF InterruptNext
<1>4. CASE HandlerNext
  BY <1>4, SerialIntStep, WakeupQueueStep, WakeupQueueEndStep, ClockIntStep,
     RunTimerStep, ProcTickStep, InterruptReturnStep, Zenon DEF HandlerNext
<1>5. CASE Halted
  BY <1>5, StutterStep, Zenon DEF Halted
<1> QED
  BY <1>1, <1>2, <1>3, <1>4, <1>5, Zenon DEF Next

\* proc_init leaves the kernel in a state with the inductive invariant.
LEMMA InitIInv ==
    ASSUME Init
    PROVE  IInv
<1>1. /\ idleproc \in Proc /\ initproc \in Proc /\ idleproc # initproc
      /\ idleproc \notin User /\ initproc \notin User
      /\ \A x \in Proc : x \notin User => x \in {idleproc, initproc}
  BY ThreadsAssumption, Zenon DEF Proc
<1>2. /\ MaxTimeSlice \in 0..MaxTimeSlice /\ 0 \in 0..MaxTimeSlice
      /\ 0 \in 0..MaxSleep /\ 0 \in 0..BufSize
  BY BoundsAssumption, SMTT(60)
<1>3. /\ \A x \in User : state[x] = "FREE"
      /\ state[idleproc] = "RUNNABLE" /\ state[initproc] = "RUNNABLE"
      /\ \A x \in Proc : waitState[x] = "none" /\ left[x] = 0
      /\ current = idleproc /\ due = {} /\ stdinQueue = {} /\ panic = "none"
      /\ pc[idleproc] = "cpu_idle" /\ pc[initproc] = "init_main"
      /\ \A x \in User : pc[x] = "user"
  BY <1>1, Zenon DEF Init, Proc
<1>4. EnvType
  BY <1>1, <1>2, Zenon DEF Init, EnvType, PCs
<1>5. K \in KernelStates
  <2>1. /\ state \in [Proc -> States] /\ waitState \in [Proc -> WaitStates]
        /\ exiting \in [Proc -> BOOLEAN] /\ parent \in [Proc -> Proc]
        /\ runQueue \in Seq(Proc) /\ current \in Proc
        /\ panic \in {"none", "assert", "initproc exit"}
    BY <1>1 DEF Init, States, WaitStates
  <2>2. needResched \in [Proc -> BOOLEAN]
    BY ZenonT(60) DEF Init
  <2>3. timeSlice \in [Proc -> 0..MaxTimeSlice]
    BY <1>2, Zenon DEF Init
  <2> QED
    BY <2>1, <2>2, <2>3, ZenonT(60) DEF K, KernelStates
<1>6. QueueExact(K)
  <2>1. /\ runQueue = <<initproc>> /\ Len(runQueue) = 1
        /\ runQueue[1] = initproc /\ 1..Len(runQueue) = {1}
    BY SMTT(60) DEF Init
  <2>2. \A x \in Proc : Queued(K, x) <=> x = initproc
    BY <2>1, Unbundle, Zenon DEF Queued
  <2> QED
    BY <1>1, <1>3, <2>1, <2>2, Unbundle, SMTT(60) DEF QueueExact
<1>7. Sane(K)
  BY <1>1, <1>3, <1>5, <1>6, Unbundle, SMTT(60) DEF Sane, Proc
<1>8. Family(K)
  BY <1>1, <1>3, Unbundle, SMTT(60) DEF Family, Proc
<1>9. Waits(K, E)
  BY <1>1, <1>3, Unbundle, Zenon DEF Waits
<1>10. Owned(K, E)
  BY <1>3, Unbundle, SMTT(60) DEF Owned
<1>11. Places(K, E)
  BY <1>1, <1>3, Unbundle, Zenon DEF Places, UserPCs, InitPCs
<1> QED
  BY <1>3, <1>4, <1>7, <1>8, <1>9, <1>10, <1>11, Unbundle, SMTT(60)
  DEF IInv, Good, CanRun

\* The inductive invariant holds in every state the kernel reaches.
THEOREM Inductive == Spec => []IInv
<1>1. Init => IInv
  BY InitIInv, Zenon
<1>2. IInv /\ [Next]_vars => IInv'
  BY NextStep, StutterStep, Zenon
<1> QED
  BY <1>1, <1>2, PTL DEF Spec

-----------------------------------------------------------------------------
\* Every variable of the kernel keeps its type.
THEOREM TypeCorrect == Spec => []TypeOK
<1>1. IInv => TypeOK
  BY Unbundle, Fields, ZenonT(60) DEF IInv, EnvType, Good, Sane, TypeOK
<1> QED
  BY <1>1, Inductive, PTL

\* No assert of wakeup_proc, RR_enqueue or init_main fails, for any number of
\* processes, slices and sleeps.
THEOREM AssertsHold == Spec => []NoAssertFails
<1>1. IInv => NoAssertFails
  BY Unbundle, Zenon DEF IInv, Good, Sane, NoAssertFails
<1> QED
  BY <1>1, Inductive, PTL

\* The run queue of schedule() holds exactly the processes that could run.
THEOREM RunQueueCorrect == Spec => []RunQueueExact
<1>1. IInv => RunQueueExact
  BY Unbundle, Zenon DEF IInv, Good, Sane, QueueExact, RunQueueExact
<1> QED
  BY <1>1, Inductive, PTL

\* No sleeper of do_wait, do_sleep or dev_stdin_read has missed its wake-up.
THEOREM WakeupsKept == Spec => []NoLostWakeup
<1>1. IInv => NoLostWakeup
  <2> SUFFICES ASSUME IInv PROVE NoLostWakeup
    BY Zenon
  <2>1. \A p \in Proc : AwaitedBy(K, E, p) = Awaited(p)
    BY Unbundle, Zenon DEF AwaitedBy, Awaited
  <2> QED
    BY <2>1, Unbundle, Zenon DEF IInv, Good, Waits, ChildWait, NoLostWakeup
<1> QED
  BY <1>1, Inductive, PTL

\* What do_sleep and dev_stdin_read queue is unlinked before they return.
THEOREM StackRecordsSafe == Spec => []StackRecordsOwned
<1>1. IInv => StackRecordsOwned
  BY Unbundle, Zenon DEF IInv, EnvType, Good, Owned, Alive, StackRecordsOwned
<1> QED
  BY <1>1, Inductive, PTL

\* The processes form a forest under initproc, in which do_exit leaves no
\* process without a live parent.
THEOREM ForestKept == Spec => []Forest
<1>1. IInv => ParentAlive
  BY Unbundle, Zenon DEF IInv, Good, Family, Alive, ParentAlive
<1>2. IInv => Forest
  BY <1>1, Unbundle, Zenon DEF IInv, Good, Family, Forest
<1> QED
  BY <1>2, Inductive, PTL

\* Only the parent of a zombie ends it, by reaping it in do_wait.
THEOREM ZombiesReaped == Spec => ZombieReapedByParent
<1>1. IInv /\ [Next]_vars => [ZombieStep]_vars
  BY NextStep, Zenon
<1> QED
  BY <1>1, Inductive, PTL DEF Spec, ZombieReapedByParent, ZombieStep

\* Every step is one of the timers, or leaves them alone.
LEMMA TimersStep ==
    ASSUME IInv, Next
    PROVE  Clock!Next \/ UNCHANGED Clock!timers
<1>1. \A p \in Proc : left[p] > 0 \/ p \in due => pc[p] = "do_sleep"
  BY Unbundle, Zenon DEF IInv, Good, Owned
<1>2. intr # "run_timer_list" => due = {}
  BY Unbundle, Zenon DEF IInv, Good, Owned
<1>3. current \in Proc /\ \A p \in Proc : left[p] \in 0..MaxSleep
  BY Unbundle, Fields, ZenonT(60) DEF IInv, EnvType, Good, Sane
<1>4. ASSUME NEW t \in 1..MaxSleep, Sleep(t)
      PROVE  Clock!Next
  <2>1. left' = [left EXCEPT ![current] = t] /\ due' = due /\ due = {}
    BY <1>2, <1>4, Zenon DEF Sleep, Runs
  <2>2. ~ (left[current] > 0)
    BY <1>1, <1>3, <1>4, Zenon DEF Sleep, Runs
  <2>3. left[current] = 0
    BY <1>3, <2>2
  <2>4. Clock!Add(current, t)
    BY <2>1, <2>3, Zenon DEF Clock!Add
  <2> QED
    BY <1>3, <2>4, Zenon DEF Clock!Next
<1>5. ASSUME SleepResume
      PROVE  Clock!Next
  <2>1. Clock!Del(current)
    BY <1>2, <1>5, Zenon DEF SleepResume, Runs, Clock!Del
  <2> QED
    BY <1>3, <2>1, Zenon DEF Clock!Next
<1>6. ASSUME ClockInt
      PROVE  Clock!Next
  <2>1. Clock!Tick
    BY <1>2, <1>6, Zenon DEF ClockInt, Handles, Clock!Tick
  <2> QED
    BY <2>1, Zenon DEF Clock!Next
<1>7. ASSUME NEW p \in Proc, RunTimer(p)
      PROVE  Clock!Next
  <2>1. Clock!Expire(p)
    BY <1>7, Zenon DEF RunTimer, Clock!Expire
  <2> QED
    BY <2>1, Zenon DEF Clock!Next
<1>8. CASE UserNext
  BY <1>4, <1>8, Zenon DEF UserNext, OtherTrap, Exit, Yield, Read, Fork, Kill, Wait,
                    timerVars, Clock!timers
<1>9. CASE KernelNext
  BY <1>5, <1>9, Zenon DEF KernelNext, WaitResume, ReadResume, CpuIdle, UserMain,
                    InitMain, InitWait, InitBlock, InitWoken, InitYield,
                    InitDone, timerVars, Clock!timers
<1>10. CASE HandlerNext
  BY <1>6, <1>7, <1>10, Zenon
  DEF HandlerNext, SerialInt, WakeupQueueEnd, ProcTick, InterruptReturn,
      WakeupQueue, timerVars, Clock!timers
<1>11. CASE InterruptNext
  BY <1>11, Zenon DEF InterruptNext, Interrupt, timerVars, Clock!timers
<1>12. CASE Halted
  BY <1>12, Zenon DEF Halted, vars, timerVars, Clock!timers
<1> QED
  BY <1>8, <1>9, <1>10, <1>11, <1>12, Zenon DEF Next

\* The kernel uses its timers by the contract that the timer list implements.
THEOREM TimersUsed == Spec => TimersContract
<1>1. Init => Clock!Init
  BY Zenon DEF Init, Clock!Init
<1>2. IInv /\ [Next]_vars => [Clock!Next]_(Clock!timers)
  BY TimersStep, Zenon DEF vars, timerVars, Clock!timers
<1> QED
  BY <1>1, <1>2, Inductive, PTL DEF Spec, TimersContract, Clock!Spec
=============================================================================
