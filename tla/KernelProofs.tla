---------------------------- MODULE KernelProofs ----------------------------
(***************************************************************************)
(* Proofs for two parts that the processes of the kernel rely on: the      *)
(* safety properties of Semaphore, for any number of processes and any     *)
(* initial value; and those of GetPid, for any MAX_PROCESS < MAX_PID: pids *)
(* are unique, in range and handed out in cyclic order.                    *)
(***************************************************************************)
EXTENDS Semaphore, GetPid, FiniteSetTheorems, SequenceTheorems, TLAPS

\* Appending a new process to a queue adds it and keeps the entries distinct.
LEMMA AppendQueue ==
    ASSUME NEW q \in Seq(Proc), NEW p \in Proc,
           \A i, j \in 1..Len(q) : q[i] = q[j] => i = j,
           ~ \E i \in 1..Len(q) : q[i] = p
    PROVE  /\ Append(q, p) \in Seq(Proc)
           /\ \A i, j \in 1..Len(Append(q, p)) :
                Append(q, p)[i] = Append(q, p)[j] => i = j
           /\ \A x \in Proc :
                (\E i \in 1..Len(Append(q, p)) : Append(q, p)[i] = x)
                  <=> (x = p \/ \E i \in 1..Len(q) : q[i] = x)
<1> DEFINE r == Append(q, p)
<1>1. r \in Seq(Proc) /\ Len(r) = Len(q) + 1 /\ Len(q) \in Nat
  OBVIOUS
<1>2. r[Len(q) + 1] = p /\ \A i \in 1..Len(q) : r[i] = q[i]
  OBVIOUS
<1>3. \A i \in 1..Len(r) : i = Len(q) + 1 \/ i \in 1..Len(q)
  BY <1>1
<1> HIDE DEF r
<1>4. \A i, j \in 1..Len(r) : r[i] = r[j] => i = j
  BY <1>1, <1>2, <1>3
<1>5. \A x \in Proc : (\E i \in 1..Len(r) : r[i] = x)
                        <=> (x = p \/ \E i \in 1..Len(q) : q[i] = x)
  BY <1>1, <1>2, <1>3
<1> QED
  BY <1>1, <1>4, <1>5 DEF r

\* Removing the head of a queue of distinct processes removes that process.
LEMMA TailQueue ==
    ASSUME NEW q \in Seq(Proc), q # << >>,
           \A i, j \in 1..Len(q) : q[i] = q[j] => i = j
    PROVE  /\ Tail(q) \in Seq(Proc)
           /\ Head(q) \in Proc
           /\ \E i \in 1..Len(q) : q[i] = Head(q)
           /\ \A i, j \in 1..Len(Tail(q)) : Tail(q)[i] = Tail(q)[j] => i = j
           /\ \A x \in Proc :
                (\E i \in 1..Len(Tail(q)) : Tail(q)[i] = x)
                  <=> (x # Head(q) /\ \E i \in 1..Len(q) : q[i] = x)
<1> DEFINE r == Tail(q)
<1>1. /\ r \in Seq(Proc) /\ Len(r) = Len(q) - 1
      /\ Len(q) \in Nat /\ Len(q) > 0
      /\ Head(q) = q[1] /\ Head(q) \in Proc
  OBVIOUS
<1>2. \A i \in 1..Len(r) : r[i] = q[i + 1]
  OBVIOUS
<1>3. \A i \in 1..Len(q) : i = 1 \/ (i - 1 \in 1..Len(r) /\ r[i - 1] = q[i])
  BY <1>1, <1>2
<1> HIDE DEF r
<1>4. \A i, j \in 1..Len(r) : r[i] = r[j] => i = j
  BY <1>1, <1>2
<1>5. \A x \in Proc : (\E i \in 1..Len(r) : r[i] = x)
                        <=> (x # Head(q) /\ \E i \in 1..Len(q) : q[i] = x)
  BY <1>1, <1>2, <1>3, SMTT(60)
<1> QED
  BY <1>1, <1>4, <1>5 DEF r

-----------------------------------------------------------------------------
\* A sleeper is in __down, and whoever is awake in __down was given a permit
\* by __up: this is what a wake-up by do_kill would break.
Handed ==
    \A p \in Proc :
      /\ wait_state[p] = "WT_KSEM" => place[p] = "down"
      /\ place[p] = "down" /\ wait_state[p] = "none"
           => wakeup_flags[p] = "WT_KSEM"

IInv == TypeOK /\ DownSucceeds /\ PermitsConserved /\ NoLostWakeup /\ Handed

\* The step of NoOvertaking.
FairStep ==
    /\ \A p \in Proc : place[p] = "out" /\ place'[p] = "in"
                         => wait_queue = << >>
    /\ \A i, j \in 1..Len(wait_queue) :
         i < j /\ wait_state'[wait_queue[j]] = "none"
           => wait_state'[wait_queue[i]] = "none"

\* Holders is finite, and its size changes by one when one process does.
LEMMA HoldersSize ==
    /\ IsFiniteSet(Holders) /\ Cardinality(Holders) \in Nat
    /\ \A p : p \notin Holders => Cardinality(Holders \cup {p}) = Cardinality(Holders) + 1
    /\ \A p : p \in Holders => Cardinality(Holders \ {p}) = Cardinality(Holders) - 1
<1>1. Holders \in SUBSET Proc
  BY DEF Holders
<1>2. IsFiniteSet(Holders)
  BY <1>1, ProcAssumption, FS_Subset
<1> QED
  BY <1>2, FS_CardinalityType, FS_AddElement, FS_RemoveElement

\* A process that finds value > 0 in down or try_down takes one permit.
LEMMA Takes ==
    ASSUME IInv, NEW p \in Proc, place[p] = "out", value > 0,
           value' = value - 1, place' = [place EXCEPT ![p] = "in"],
           UNCHANGED <<wait_queue, wait_state, wakeup_flags, exiting, failed>>
    PROVE  IInv' /\ FairStep
<1>1. TypeOK' /\ wait_queue = << >> /\ wait_state[p] = "none"
  <2>1. value \in Nat /\ value' \in 0..Permits
    BY PermitsAssumption DEF IInv, TypeOK
  <2> QED
    BY <2>1 DEF IInv, TypeOK, NoLostWakeup, Handed
<1>2. p \notin Holders /\ Holders' = Holders \cup {p}
  BY <1>1 DEF IInv, TypeOK, Holders
<1>3. PermitsConserved'
  BY <1>2, HoldersSize, PermitsAssumption DEF IInv, TypeOK, PermitsConserved
<1>4. NoLostWakeup' /\ DownSucceeds'
  BY <1>1 DEF IInv, NoLostWakeup, Queued, DownSucceeds
<1>5. Handed'
  BY <1>1 DEF IInv, TypeOK, Handed
<1>6. FairStep
  BY <1>1 DEF FairStep
<1> QED
  BY <1>1, <1>3, <1>4, <1>5, <1>6 DEF IInv

\* A process that finds value = 0 in down queues itself.
LEMMA Queues ==
    ASSUME IInv, NEW p \in Proc, Down(p), ~ (value > 0)
    PROVE  IInv' /\ FairStep
<1>1. /\ place[p] = "out" /\ value' = value
      /\ wait_queue' = Append(wait_queue, p)
      /\ place' = [place EXCEPT ![p] = "down"]
      /\ wait_state' = [wait_state EXCEPT ![p] = "WT_KSEM"]
      /\ wakeup_flags' = [wakeup_flags EXCEPT ![p] = "WT_INTERRUPTED"]
      /\ exiting' = exiting /\ failed' = failed
  BY DEF Down
<1>2. value = 0 /\ wait_state[p] = "none" /\ wait_queue \in Seq(Proc)
  BY <1>1, PermitsAssumption DEF IInv, TypeOK, Handed
<1>3. ~ Queued(p) /\ (\A x \in Proc : Queued(x)' <=> x = p \/ Queued(x))
      /\ wait_queue' \in Seq(Proc)
      /\ \A i, j \in 1..Len(wait_queue') :
           wait_queue'[i] = wait_queue'[j] => i = j
  BY <1>1, <1>2, AppendQueue, SMTT(60) DEF IInv, NoLostWakeup, Queued
<1>4. TypeOK' /\ DownSucceeds'
  BY <1>1, <1>3 DEF IInv, TypeOK, DownSucceeds
<1>5. Holders' = Holders
  BY <1>1, <1>2 DEF IInv, TypeOK, Holders
<1>6. NoLostWakeup'
  BY <1>1, <1>2, <1>3 DEF IInv, TypeOK, NoLostWakeup
<1>7. Handed'
  BY <1>1 DEF IInv, TypeOK, Handed
<1>8. FairStep
  BY <1>1, <1>2, <1>3 DEF IInv, TypeOK, NoLostWakeup, FairStep, Queued
<1> QED
  BY <1>1, <1>4, <1>5, <1>6, <1>7, <1>8 DEF IInv, PermitsConserved

\* A woken process leaves __down with its permit.
LEMMA Resumes ==
    ASSUME IInv, NEW p \in Proc, DownResume(p)
    PROVE  IInv' /\ FairStep
<1>1. ~ Queued(p) /\ wait_state[p] = "none" /\ place[p] = "down"
      /\ wakeup_flags[p] = "WT_KSEM"
  BY DEF DownResume, IInv, NoLostWakeup, Handed
<1>2. /\ wait_queue' = wait_queue /\ value' = value
      /\ place' = [place EXCEPT ![p] = "in"] /\ failed' = FALSE
      /\ wait_state' = wait_state /\ wakeup_flags' = wakeup_flags
      /\ exiting' = exiting
  BY <1>1, Zenon DEF DownResume, wait_current_del
<1>3. TypeOK' /\ DownSucceeds'
  BY <1>2, Zenon DEF IInv, TypeOK, DownSucceeds
<1>4. Holders' = Holders
  BY <1>1, <1>2 DEF IInv, TypeOK, Holders
<1>5. NoLostWakeup' /\ Handed'
  BY <1>1, <1>2 DEF IInv, TypeOK, NoLostWakeup, Handed, Queued
<1>6. FairStep
  BY <1>1, <1>2 DEF IInv, TypeOK, NoLostWakeup, FairStep, Queued
<1> QED
  BY <1>2, <1>3, <1>4, <1>5, <1>6 DEF IInv, PermitsConserved

\* up returns the permit, or hands it to the first waiter.
LEMMA Ups ==
    ASSUME IInv, NEW p \in Proc, Up(p)
    PROVE  IInv' /\ FairStep
<1>1. /\ place[p] = "in" /\ place' = [place EXCEPT ![p] = "out"]
      /\ exiting' = exiting /\ p \in Holders /\ wait_state[p] = "none"
  BY DEF Up, Holders, IInv, TypeOK, Handed
<1>2. CASE wait_queue = << >>
  <2>1. /\ value' = value + 1 /\ wait_queue' = wait_queue
        /\ wait_state' = wait_state /\ wakeup_flags' = wakeup_flags
        /\ failed' = failed
    BY <1>2 DEF Up
  <2>2. Holders' = Holders \ {p}
    BY <1>1, <2>1 DEF IInv, TypeOK, Holders
  <2>3. PermitsConserved' /\ value' \in 0..Permits
    <3>1. Cardinality(Holders \ {p}) \in Nat
      BY HoldersSize, FS_RemoveElement, FS_CardinalityType, Zenon
    <3>2. /\ Cardinality(Holders') = Cardinality(Holders) - 1
          /\ Cardinality(Holders) \in Nat /\ Cardinality(Holders) # 0
      BY <1>1, <2>2, <3>1, HoldersSize
    <3> QED
      <4>1. value \in Nat /\ value + Cardinality(Holders) = Permits
        BY PermitsAssumption DEF IInv, TypeOK, PermitsConserved
      <4>2. /\ value' + Cardinality(Holders') = Permits
            /\ value' \in 0..Permits
        BY <2>1, <3>2, <4>1, PermitsAssumption
      <4> QED
        BY <4>2 DEF PermitsConserved
  <2>4. TypeOK' /\ DownSucceeds'
    BY <1>1, <2>1, <2>3 DEF IInv, TypeOK, DownSucceeds
  <2>5. NoLostWakeup' /\ Handed'
    BY <1>1, <1>2, <2>1 DEF IInv, TypeOK, NoLostWakeup, Handed, Queued
  <2>6. FairStep
    BY <1>1, <1>2, <2>1 DEF FairStep, IInv, TypeOK
  <2> QED
    BY <2>3, <2>4, <2>5, <2>6 DEF IInv
<1>3. CASE wait_queue # << >>
  <2> DEFINE q == Head(wait_queue)
  <2>1. /\ value' = value /\ wait_queue' = Tail(wait_queue)
        /\ wait_state' = [wait_state EXCEPT ![q] = "none"]
        /\ wakeup_flags' = [wakeup_flags EXCEPT ![q] = "WT_KSEM"]
        /\ failed' = (wait_state[q] # "WT_KSEM")
    BY <1>3 DEF Up
  <2>2. /\ q \in Proc /\ Queued(q) /\ wait_queue' \in Seq(Proc)
        /\ \A i, j \in 1..Len(wait_queue') :
             wait_queue'[i] = wait_queue'[j] => i = j
        /\ \A x \in Proc : Queued(x)' <=> x # q /\ Queued(x)
    <3>1. /\ wait_queue \in Seq(Proc)
          /\ \A i, j \in 1..Len(wait_queue) :
               wait_queue[i] = wait_queue[j] => i = j
      BY DEF IInv, TypeOK, NoLostWakeup
    <3> QED
      BY <1>3, <2>1, <3>1, TailQueue, SMTT(60) DEF Queued
  <2>3. wait_state[q] = "WT_KSEM" /\ place[q] = "down" /\ q # p /\ value = 0
    BY <1>1, <1>3, <2>2 DEF IInv, NoLostWakeup, Handed
  <2>4. q = wait_queue[1]
    BY <1>3 DEF IInv, TypeOK
  <2> HIDE DEF q
  <2>5. TypeOK' /\ DownSucceeds'
    BY <1>1, <2>1, <2>2, <2>3 DEF IInv, TypeOK, DownSucceeds
  <2>6. Holders' = (Holders \ {p}) \cup {q} /\ q \notin Holders
    BY <1>1, <2>1, <2>2, <2>3 DEF IInv, TypeOK, Holders
  <2>7. Cardinality(Holders') = Cardinality(Holders)
    <3>1. IsFiniteSet(Holders \ {p}) /\ q \notin Holders \ {p}
      BY <2>6, HoldersSize, FS_RemoveElement
    <3>2. Cardinality(Holders') = Cardinality(Holders \ {p}) + 1
      BY <2>6, <3>1, FS_AddElement, SMTT(60)
    <3> QED
      BY <1>1, <3>2, HoldersSize
  <2>8. NoLostWakeup'
    BY <1>1, <2>1, <2>2, <2>3 DEF IInv, TypeOK, NoLostWakeup
  <2>9. Handed'
    BY <1>1, <2>1, <2>2, <2>3 DEF IInv, TypeOK, Handed
  <2>10. FairStep
    <3>1. \A x \in Proc : x # q => wait_state'[x] = wait_state[x]
      BY <2>1, <2>2 DEF IInv, TypeOK
    <3>2. ASSUME NEW i \in 1..Len(wait_queue), NEW j \in 1..Len(wait_queue),
                 i < j, wait_state'[wait_queue[j]] = "none"
          PROVE  FALSE
      <4>1. wait_queue[j] \in Proc /\ wait_state[wait_queue[j]] = "WT_KSEM"
        BY DEF IInv, TypeOK, NoLostWakeup, Queued
      <4>2. wait_queue[j] = wait_queue[1] /\ 1 \in 1..Len(wait_queue)
        BY <2>4, <3>1, <3>2, <4>1 DEF IInv, TypeOK
      <4>3. j = 1
        BY <4>2 DEF IInv, NoLostWakeup
      <4> QED
        BY <3>2, <4>3
    <3>3. \A x \in Proc : place[x] = "out" => place'[x] = "out"
      BY <1>1 DEF IInv, TypeOK
    <3> QED
      BY <3>2, <3>3 DEF FairStep
  <2> QED
    BY <2>1, <2>5, <2>7, <2>8, <2>9, <2>10 DEF IInv, PermitsConserved
<1> QED
  BY <1>2, <1>3

\* do_kill leaves the waiters of a semaphore asleep.
LEMMA Kills ==
    ASSUME IInv, NEW p \in Proc, Kill(p)
    PROVE  IInv' /\ FairStep
<1>1. /\ value' = value /\ wait_queue' = wait_queue /\ place' = place
      /\ wakeup_flags' = wakeup_flags /\ failed' = failed
      /\ exiting' = [exiting EXCEPT ![p] = TRUE]
  BY DEF Kill
<1>2. wait_state' = wait_state
  BY DEF Kill, Interruptible, IInv, TypeOK
<1>3. TypeOK' /\ Holders' = Holders
  BY <1>1, <1>2 DEF IInv, TypeOK, Holders
<1>4. IInv'
  BY <1>1, <1>2, <1>3
  DEF IInv, DownSucceeds, PermitsConserved, NoLostWakeup, Handed, Queued
<1>5. FairStep
  BY <1>1, <1>2 DEF IInv, TypeOK, NoLostWakeup, FairStep, Queued
<1> QED
  BY <1>4, <1>5

\* Every step keeps the inductive invariant and the order of arrival.
LEMMA NextStep ==
    ASSUME IInv, Next
    PROVE  IInv' /\ FairStep
<1>1. ASSUME NEW p \in Proc, Down(p)
      PROVE  IInv' /\ FairStep
  BY <1>1, Takes, Queues DEF Down
<1>2. ASSUME NEW p \in Proc, TryDown(p)
      PROVE  IInv' /\ FairStep
  BY <1>2, Takes, Zenon DEF TryDown
<1> QED
  BY <1>1, <1>2, Resumes, Ups, Kills DEF Next

\* sem_init leaves the semaphore with all its permits.
LEMMA InitIInv ==
    ASSUME Init
    PROVE  IInv
<1>1. TypeOK /\ DownSucceeds /\ Handed
  <2>1. value \in 0..Permits
    BY PermitsAssumption DEF Init
  <2>2. exiting \in [Proc -> BOOLEAN] /\ failed \in BOOLEAN
    BY Zenon DEF Init
  <2>3. wait_queue \in Seq(Proc)
    BY SMT DEF Init
  <2>4. TypeOK
    BY <2>1, <2>2, <2>3 DEF Init, TypeOK
  <2> QED
    BY <2>4 DEF Init, DownSucceeds, Handed
<1>2. Holders = {}
  BY DEF Init, Holders
<1>3. PermitsConserved
  BY <1>2, FS_EmptySet, PermitsAssumption DEF Init, PermitsConserved
<1>4. NoLostWakeup
  BY DEF Init, NoLostWakeup, Queued
<1> QED
  BY <1>1, <1>3, <1>4 DEF IInv

\* The inductive invariant holds in every state.
THEOREM Inductive == Spec => []IInv
<1>1. Init => IInv
  BY InitIInv
<1>2. IInv /\ UNCHANGED vars => IInv'
  BY DEF IInv, vars, TypeOK, DownSucceeds, PermitsConserved, Holders,
         NoLostWakeup, Queued, Handed
<1>3. IInv /\ [Next]_vars => IInv'
  BY <1>2, NextStep
<1> QED
  BY <1>1, <1>3, PTL DEF Spec

\* The variables keep their types; sem->value stays within 0 and its start.
THEOREM TypeCorrect == Spec => []TypeOK
<1>1. IInv => TypeOK
  BY DEF IInv
<1> QED
  BY <1>1, Inductive, PTL

\* The asserts of down and __up hold, however many processes are killed.
THEOREM DownAlwaysSucceeds == Spec => []DownSucceeds
<1>1. IInv => DownSucceeds
  BY DEF IInv
<1> QED
  BY <1>1, Inductive, PTL

\* Mutual exclusion, for any initial value.
THEOREM PermitsKept == Spec => []PermitsConserved
<1>1. IInv => PermitsConserved
  BY DEF IInv
<1> QED
  BY <1>1, Inductive, PTL

\* No wake-up is lost: nobody sleeps beside a free permit.
THEOREM WakeupsKept == Spec => []NoLostWakeup
<1>1. IInv => NoLostWakeup
  BY DEF IInv
<1> QED
  BY <1>1, Inductive, PTL

\* First come, first served.
THEOREM OrderKept == Spec => NoOvertaking
<1>1. IInv /\ [Next]_vars => [FairStep]_vars
  BY NextStep
<1> QED
  BY <1>1, Inductive, PTL DEF Spec, NoOvertaking, FairStep

-----------------------------------------------------------------------------

\* During the walk last_pid is a candidate below next_safe, and every pid
\* that was passed over since the previous call belongs to a process.
Walking ==
    /\ le = 0 => prev = last_pid
    /\ le > 0 => /\ last_pid < next_safe /\ next_safe <= MAX_PID
                 /\ Allocator!Passed(prev, last_pid) \subseteq Live

PidIInv == PidTypeOK /\ PidsUnique /\ CacheSound /\ Walking

\* What a step of GetPid is for the allocator.
AStep == Allocator!Next \/ (UNCHANGED <<Live, prev>>)

\* Putting a process at the head of the list.
LEMMA Prepend ==
    ASSUME NEW S, NEW s \in Seq(S), NEW x \in S
    PROVE  /\ <<x>> \o s \in Seq(S) /\ Len(<<x>> \o s) = Len(s) + 1
           /\ (<<x>> \o s)[1] = x
           /\ \A i \in 1..Len(s) : (<<x>> \o s)[i + 1] = s[i]
           /\ \A i \in 1..Len(s) + 1 :
                i # 1 => i - 1 \in 1..Len(s) /\ (<<x>> \o s)[i] = s[i - 1]
<1> DEFINE r == <<x>> \o s
<1>1. r \in Seq(S) /\ Len(r) = Len(s) + 1 /\ Len(s) \in Nat
  OBVIOUS
<1>2. r[1] = x /\ \A i \in 1..Len(s) : r[i + 1] = s[i]
  OBVIOUS
<1> HIDE DEF r
<1>3. \A i \in 1..Len(s) + 1 : i # 1 => i - 1 \in 1..Len(s) /\ (i - 1) + 1 = i
  BY <1>1
<1> QED
  BY <1>1, <1>2, <1>3 DEF r

\* Taking the process at place j off the list.
LEMMA Remove ==
    ASSUME NEW S, NEW s \in Seq(S), NEW j \in 1..Len(s)
    PROVE  LET r == SubSeq(s, 1, j - 1) \o SubSeq(s, j + 1, Len(s))
           IN /\ r \in Seq(S) /\ Len(r) = Len(s) - 1
              /\ \A i \in 1..Len(s) - 1 : r[i] = IF i < j THEN s[i] ELSE s[i + 1]
<1> DEFINE a == SubSeq(s, 1, j - 1)
           b == SubSeq(s, j + 1, Len(s))
<1>1. /\ a \in Seq(S) /\ Len(a) = j - 1
      /\ \A i \in 1..j - 1 : a[i] = s[i]
  OBVIOUS
<1>2. /\ b \in Seq(S) /\ Len(b) = Len(s) - j
      /\ \A i \in 1..Len(s) - j : b[i] = s[j + i]
  OBVIOUS
<1> HIDE DEF a, b
<1>3. /\ a \o b \in Seq(S) /\ Len(a \o b) = Len(s) - 1
      /\ \A i \in 1..Len(s) - 1 :
           (a \o b)[i] = IF i < j THEN a[i] ELSE b[i - (j - 1)]
  <2>1. Len(s) \in Nat /\ j \in Nat /\ Len(a) + Len(b) = Len(s) - 1
    BY <1>1, <1>2
  <2>2. a \o b \in Seq(S) /\ Len(a \o b) = Len(a) + Len(b)
    BY <1>1, <1>2, ConcatProperties, Zenon
  <2>3. \A i \in 1..Len(a) + Len(b) :
          (a \o b)[i] = IF i <= Len(a) THEN a[i] ELSE b[i - Len(a)]
    BY <1>1, <1>2, ConcatProperties
  <2> QED
    BY <1>1, <2>1, <2>2, <2>3
<1>4. ASSUME NEW i \in 1..Len(s) - 1
      PROVE  (a \o b)[i] = IF i < j THEN s[i] ELSE s[i + 1]
  <2>1. CASE i < j
    BY <1>1, <1>3, <2>1
  <2>2. CASE ~ (i < j)
    <3>1. i - (j - 1) \in 1..Len(s) - j /\ j + (i - (j - 1)) = i + 1
      BY <2>2
    <3> QED
      BY <1>2, <1>3, <2>2, <3>1, SMTT(60)
  <2> QED
    BY <2>1, <2>2, Zenon
<1> QED
  BY <1>3, <1>4, Zenon DEF a, b

\* A call returns a free pid for which everything passed over is in use.
LEMMA Returns ==
    ASSUME PidIInv, NEW pid \in 1..MAX_PID - 1, Return(pid), last_pid' = pid,
           UNCHANGED next_safe, pid \notin Live,
           \A p \in Live : ~ (pid < p /\ p < next_safe),
           Allocator!Passed(prev, pid) \subseteq Live
    PROVE  PidIInv' /\ AStep
<1>1. /\ proc_list \in Seq(1..MAX_PID - 1) /\ Len(proc_list) \in Nat
      /\ next_safe \in 1..MAX_PID /\ MAX_PID \in Nat
  BY MaxAssumption DEF PidIInv, PidTypeOK
<1>2. /\ proc_list' \in Seq(1..MAX_PID - 1) /\ Len(proc_list') = Len(proc_list) + 1
      /\ proc_list'[1] = pid
      /\ \A i \in 1..Len(proc_list) : proc_list'[i + 1] = proc_list[i]
      /\ \A i \in 1..Len(proc_list') :
           i # 1 => /\ i - 1 \in 1..Len(proc_list)
                    /\ proc_list'[i] = proc_list[i - 1]
  BY <1>1, Prepend DEF Return
<1>3. nr_process' = Len(proc_list) + 2 /\ le' = 0 /\ prev' = pid
  BY <1>1 DEF Return, PidIInv, PidTypeOK
<1>4. PidTypeOK'
  BY <1>1, <1>2, <1>3 DEF PidTypeOK
<1>5. Live' = Live \cup {pid}
  <2>1. \A i \in 1..Len(proc_list) : i + 1 \in 1..Len(proc_list')
    BY <1>1, <1>2
  <2>2. 1 \in 1..Len(proc_list')
    BY <1>1, <1>2
  <2>3. ASSUME NEW p \in Live'
        PROVE  p \in Live \cup {pid}
    <3>1. PICK i \in 1..Len(proc_list') : p = proc_list'[i]
      BY DEF Live
    <3> QED
      BY <1>2, <3>1, ZenonT(60) DEF Live
  <2>4. ASSUME NEW p \in Live
        PROVE  p \in Live'
    <3>1. PICK i \in 1..Len(proc_list) : p = proc_list[i]
      BY DEF Live
    <3> QED
      BY <1>2, <2>1, <3>1, SMTT(60) DEF Live
  <2>5. pid \in Live'
    BY <1>2, <2>2 DEF Live
  <2> QED
    BY <2>3, <2>4, <2>5, Zenon
<1>6. PidsUnique'
  <2>1. ASSUME NEW i \in 1..Len(proc_list'), NEW j \in 1..Len(proc_list'),
               proc_list'[i] = proc_list'[j]
        PROVE  i = j
    <3>1. CASE i = 1 \/ j = 1
      BY <1>2, <2>1, <3>1 DEF Live
    <3>2. CASE i # 1 /\ j # 1
      <4>1. i - 1 \in 1..Len(proc_list) /\ j - 1 \in 1..Len(proc_list)
            /\ proc_list[i - 1] = proc_list[j - 1]
        BY <1>2, <2>1, <3>2
      <4>2. i - 1 = j - 1
        BY <4>1 DEF PidIInv, PidsUnique
      <4>3. i \in Nat /\ j \in Nat
        BY <1>1, <1>2
      <4> QED
        BY <4>2, <4>3
    <3> QED
      BY <3>1, <3>2
  <2> QED
    BY <2>1 DEF PidsUnique
<1>7. CacheSound' /\ Walking'
  BY <1>1, <1>3, <1>5 DEF CacheSound, Walking
<1>8. AStep
  BY <1>3, <1>5 DEF AStep, Allocator!Next, Allocator!Alloc, Allocator!Pids
<1> QED
  BY <1>4, <1>6, <1>7, <1>8 DEF PidIInv

\* The call that trusts next_safe.
LEMMA FastStep ==
    ASSUME PidIInv, Fast
    PROVE  PidIInv' /\ AStep
<1> DEFINE pid == last_pid + 1
<1>1. /\ last_pid \in Nat /\ next_safe \in 1..MAX_PID /\ MAX_PID \in Nat
      /\ pid \in 1..MAX_PID - 1 /\ pid < next_safe /\ le = 0
  BY MaxAssumption DEF PidIInv, PidTypeOK, Fast, ForkAllowed
<1>2. \A p \in Live : p \in Nat /\ ~ (last_pid < p /\ p < next_safe)
  BY <1>1, SMTT(60) DEF PidIInv, PidTypeOK, CacheSound, Live
<1>3. prev = last_pid
  BY <1>1 DEF PidIInv, Walking
<1>4. Allocator!Passed(prev, pid) \subseteq Live
  BY <1>1, <1>3 DEF Allocator!Passed, Allocator!Pids
<1>5. Return(pid) /\ last_pid' = pid /\ UNCHANGED next_safe
  BY DEF Fast
<1>6. pid \notin Live /\ \A p \in Live : ~ (pid < p /\ p < next_safe)
  BY <1>1, <1>2
<1> QED
  BY <1>1, <1>4, <1>5, <1>6, Returns

\* The end of the walk.
LEMMA DoneStep ==
    ASSUME PidIInv, Done
    PROVE  PidIInv' /\ AStep
<1>1. /\ le = Len(proc_list) + 1 /\ Len(proc_list) \in Nat /\ le > 0
      /\ last_pid \in 1..MAX_PID - 1 /\ next_safe \in Nat /\ last_pid < next_safe
      /\ proc_list \in Seq(1..MAX_PID - 1) /\ MAX_PID \in Nat
  BY MaxAssumption DEF PidIInv, PidTypeOK, Done, Walking
<1>2. \A p \in Live : p \in Nat /\ (p < last_pid \/ p >= next_safe)
  BY <1>1, SMTT(60) DEF PidIInv, CacheSound, Live
<1>3. last_pid \notin Live /\ \A p \in Live : ~ (last_pid < p /\ p < next_safe)
  BY <1>1, <1>2, SMTT(60)
<1>4. Allocator!Passed(prev, last_pid) \subseteq Live
  BY <1>1 DEF PidIInv, Walking
<1>5. Return(last_pid) /\ UNCHANGED last_pid /\ UNCHANGED next_safe
  BY DEF Done
<1> QED
  BY <1>1, <1>3, <1>4, <1>5, Returns

\* The start of a walk.
LEMMA InsideStep ==
    ASSUME PidIInv, Inside
    PROVE  PidIInv' /\ AStep
<1>1. /\ MAX_PID \in Nat /\ MAX_PID > 1 /\ last_pid \in 1..MAX_PID
      /\ proc_list \in Seq(1..MAX_PID - 1) /\ Len(proc_list) \in Nat
      /\ le = 0 /\ prev = last_pid
  BY MaxAssumption DEF PidIInv, PidTypeOK, Walking, Inside, ForkAllowed
<1>2. /\ last_pid' \in 1..MAX_PID - 1 /\ next_safe' = MAX_PID /\ le' = 1
      /\ (last_pid' = 1 /\ last_pid >= MAX_PID - 1) \/ last_pid' = last_pid + 1
      /\ UNCHANGED <<proc_list, nr_process, prev>> /\ Live' = Live
  BY <1>1 DEF Inside, Live
<1>3. PidTypeOK' /\ PidsUnique'
  BY <1>1, <1>2 DEF PidIInv, PidTypeOK, PidsUnique
<1>4. CacheSound'
  BY <1>2 DEF CacheSound
<1>5. Allocator!Passed(prev, last_pid') = {}
  BY <1>1, <1>2 DEF Allocator!Passed, Allocator!Pids
<1>6. Walking'
  BY <1>1, <1>2, <1>5 DEF Walking, Allocator!Passed, Allocator!Pids
<1> QED
  BY <1>2, <1>3, <1>4, <1>6 DEF PidIInv, AStep

\* Passing over the pid of a process.
LEMMA PassOne ==
    ASSUME NEW a \in 1..MAX_PID, NEW b \in 1..MAX_PID - 1, NEW c \in 1..MAX_PID - 1,
           c = b + 1 \/ (c = 1 /\ b = MAX_PID - 1)
    PROVE  Allocator!Passed(a, c) \subseteq Allocator!Passed(a, b) \cup {b}
  BY MaxAssumption DEF Allocator!Passed, Allocator!Pids

\* One turn of the loop.
LEMMA StepStep ==
    ASSUME PidIInv, Step
    PROVE  PidIInv' /\ AStep
<1> DEFINE pid == proc_list[le]
<1>1. /\ MAX_PID \in Nat /\ last_pid \in 1..MAX_PID - 1 /\ next_safe \in 1..MAX_PID
      /\ last_pid < next_safe /\ prev \in 1..MAX_PID
      /\ proc_list \in Seq(1..MAX_PID - 1) /\ Len(proc_list) \in Nat
      /\ le \in 1..Len(proc_list) /\ pid \in 1..MAX_PID - 1 /\ pid \in Live
  BY MaxAssumption, SMTT(60) DEF PidIInv, PidTypeOK, Walking, Step, Live
<1>2. UNCHANGED <<proc_list, nr_process, prev>> /\ Live' = Live
  BY DEF Step, Live
<1>3. Allocator!Passed(prev, last_pid) \subseteq Live
  BY <1>1 DEF PidIInv, Walking
<1>4. \A j \in 1..le - 1 : proc_list[j] \in Nat
                           /\ (proc_list[j] < last_pid \/ proc_list[j] >= next_safe)
  BY <1>1, SMTT(60) DEF PidIInv, CacheSound
<1>5. AStep /\ PidsUnique'
  BY <1>2 DEF AStep, PidIInv, PidsUnique
<1> DEFINE New == /\ last_pid' \in 1..MAX_PID - 1 /\ next_safe' \in 1..MAX_PID
                  /\ last_pid' < next_safe' /\ le' \in 1..Len(proc_list) + 1
                  /\ Allocator!Passed(prev, last_pid') \subseteq Live
                  /\ \A j \in 1..le' - 1 :
                       proc_list[j] < last_pid' \/ proc_list[j] >= next_safe'
<1>6. New
  <2>1. CASE pid = last_pid /\ last_pid + 1 >= next_safe
    <3>1. /\ last_pid' = IF last_pid + 1 >= MAX_PID THEN 1 ELSE last_pid + 1
          /\ next_safe' = MAX_PID /\ le' = 1
      BY <1>1, <2>1 DEF Step
    <3>2. /\ last_pid' \in 1..MAX_PID - 1 /\ last_pid' < next_safe'
          /\ last_pid' = last_pid + 1 \/ (last_pid' = 1 /\ last_pid = MAX_PID - 1)
      BY <1>1, <3>1
    <3>3. Allocator!Passed(prev, last_pid') \subseteq Live
      BY <1>1, <1>3, <2>1, <3>2, PassOne
    <3> QED
      BY <1>1, <3>1, <3>2, <3>3
  <2>2. CASE pid = last_pid /\ last_pid + 1 < next_safe
    <3>1. last_pid' = last_pid + 1 /\ next_safe' = next_safe /\ le' = le + 1
      BY <1>1, <2>2 DEF Step
    <3>2. last_pid' \in 1..MAX_PID - 1
      BY <1>1, <2>2, <3>1
    <3>3. Allocator!Passed(prev, last_pid') \subseteq Live
      BY <1>1, <1>3, <2>2, <3>1, <3>2, PassOne
    <3>4. \A j \in 1..le' - 1 :
            proc_list[j] < last_pid' \/ proc_list[j] >= next_safe'
      <4> SUFFICES ASSUME NEW j \in 1..le
                   PROVE  proc_list[j] < last_pid + 1 \/ proc_list[j] >= next_safe
        BY <1>1, <3>1
      <4>1. CASE j = le
        BY <1>1, <2>2, <4>1
      <4>2. CASE j # le
        <5>1. j \in 1..le - 1
          BY <1>1, <4>2
        <5>2. proc_list[j] \in Nat
              /\ (proc_list[j] < last_pid \/ proc_list[j] >= next_safe)
          BY <1>4, <5>1
        <5> HIDE DEF pid
        <5> QED
          BY <1>1, <5>2, SMTT(60)
      <4> QED
        BY <4>1, <4>2
    <3> QED
      BY <1>1, <2>2, <3>1, <3>2, <3>3, <3>4
  <2>3. CASE pid # last_pid
    <3>1. /\ last_pid' = last_pid /\ le' = le + 1
          /\ next_safe' = IF pid > last_pid /\ next_safe > pid THEN pid ELSE next_safe
      BY <1>1, <2>3 DEF Step
    <3>2. \A j \in 1..le' - 1 :
            proc_list[j] < last_pid' \/ proc_list[j] >= next_safe'
      <4>1. next_safe' <= next_safe /\ next_safe' \in Nat
            /\ (pid < last_pid \/ pid >= next_safe')
        BY <1>1, <2>3, <3>1, SMTT(60)
      <4> SUFFICES ASSUME NEW j \in 1..le
                   PROVE  proc_list[j] < last_pid \/ proc_list[j] >= next_safe'
        BY <1>1, <3>1
      <4>2. CASE j = le
        BY <4>1, <4>2
      <4>3. CASE j # le
        <5>1. j \in 1..le - 1
          BY <1>1, <4>3
        <5>2. proc_list[j] \in Nat
              /\ (proc_list[j] < last_pid \/ proc_list[j] >= next_safe)
          BY <1>4, <5>1
        <5> HIDE DEF pid
        <5> QED
          BY <1>1, <4>1, <5>2, SMTT(60)
      <4> QED
        BY <4>2, <4>3
    <3> QED
      BY <1>1, <1>3, <3>1, <3>2, SMTT(60)
  <2> QED
    BY <1>1, <2>1, <2>2, <2>3, SMTT(60)
<1> HIDE DEF pid
<1>7. PidTypeOK'
  BY <1>1, <1>2, <1>6 DEF PidIInv, PidTypeOK
<1>8. CacheSound'
  <2>1. ~ (le' = 0)
    BY <1>1, <1>6
  <2> QED
    BY <1>2, <1>6, <2>1, Zenon DEF CacheSound
<1>9. Walking'
  BY <1>1, <1>2, <1>6, SMTT(60) DEF Walking, Allocator!Passed, Allocator!Pids
<1> QED
  BY <1>5, <1>7, <1>8, <1>9 DEF PidIInv

\* A process is reaped.
LEMMA ReapStep ==
    ASSUME PidIInv, Reap
    PROVE  PidIInv' /\ AStep
<1>1. /\ proc_list \in Seq(1..MAX_PID - 1) /\ Len(proc_list) \in Nat
      /\ \A j \in 1..Len(proc_list) : proc_list[j] \in 1..MAX_PID - 1
      /\ le = 0 /\ nr_process' = nr_process - 1
      /\ last_pid' = last_pid /\ next_safe' = next_safe /\ le' = le /\ prev' = prev
  <2>1. /\ proc_list \in Seq(1..MAX_PID - 1) /\ Len(proc_list) \in Nat
        /\ \A j \in 1..Len(proc_list) : proc_list[j] \in 1..MAX_PID - 1
    BY MaxAssumption DEF PidIInv, PidTypeOK
  <2> QED
    BY <2>1 DEF Reap
<1>2. PICK j \in 1..Len(proc_list) - 1 :
        proc_list' = SubSeq(proc_list, 1, j - 1)
                       \o SubSeq(proc_list, j + 1, Len(proc_list))
  BY Zenon DEF Reap
<1>3. j \in 1..Len(proc_list)
  BY <1>1
<1>4. /\ proc_list' \in Seq(1..MAX_PID - 1) /\ Len(proc_list') = Len(proc_list) - 1
      /\ \A i \in 1..Len(proc_list) - 1 :
           proc_list'[i] = IF i < j THEN proc_list[i] ELSE proc_list[i + 1]
  BY <1>1, <1>2, <1>3, Remove, SMTT(60)
<1>5. PidTypeOK'
  BY <1>1, <1>3, <1>4 DEF PidIInv, PidTypeOK
<1> DEFINE from(i) == IF i < j THEN i ELSE i + 1
<1>6. \A i \in 1..Len(proc_list') :
        /\ from(i) \in 1..Len(proc_list) /\ from(i) # j
        /\ proc_list'[i] = proc_list[from(i)]
  BY <1>1, <1>3, <1>4, SMTT(60)
<1>7. \A h, i \in 1..Len(proc_list') : from(h) = from(i) => h = i
  BY <1>1, <1>3, <1>4
<1>8. \A h \in 1..Len(proc_list) : h # j =>
        \E i \in 1..Len(proc_list') : from(i) = h
  <2>1. ASSUME NEW h \in 1..Len(proc_list), h # j
        PROVE  \E i \in 1..Len(proc_list') : from(i) = h
    <3>1. CASE h < j
      <4>1. h \in 1..Len(proc_list') /\ from(h) = h
        BY <1>1, <1>3, <1>4, <2>1, <3>1
      <4> QED
        BY <4>1
    <3>2. CASE h > j
      <4>1. h - 1 \in 1..Len(proc_list') /\ from(h - 1) = h
        BY <1>1, <1>3, <1>4, <2>1, <3>2
      <4> QED
        BY <4>1
    <3> QED
      BY <1>1, <1>3, <2>1, <3>1, <3>2
  <2> QED
    BY <2>1
<1> HIDE DEF from
<1>9. PidsUnique'
  BY <1>6, <1>7 DEF PidIInv, PidsUnique
<1>10. Live' = Live \ {proc_list[j]} /\ proc_list[j] \in Live
  <2>1. Live' \subseteq Live \ {proc_list[j]}
    BY <1>3, <1>6 DEF Live, PidIInv, PidsUnique
  <2>2. Live \ {proc_list[j]} \subseteq Live'
    <3>1. ASSUME NEW p \in Live, p # proc_list[j]
          PROVE  p \in Live'
      <4>1. PICK h \in 1..Len(proc_list) : p = proc_list[h] /\ h # j
        BY <3>1 DEF Live
      <4>2. PICK i \in 1..Len(proc_list') : from(i) = h
        BY <1>8, <4>1
      <4> QED
        BY <1>6, <4>1, <4>2 DEF Live
    <3> QED
      BY <3>1
  <2>3. proc_list[j] \in Live
    BY <1>3 DEF Live
  <2> QED
    BY <2>1, <2>2, <2>3
<1>11. CacheSound'
  BY <1>1, <1>10 DEF PidIInv, CacheSound
<1>12. Walking'
  BY <1>1 DEF PidIInv, Walking
<1>13. AStep
  BY <1>1, <1>10, SMTT(60) DEF AStep, Allocator!Next, Allocator!Free
<1> QED
  BY <1>5, <1>9, <1>11, <1>12, <1>13 DEF PidIInv

\* Every step keeps the invariant and is a step of the allocator.
LEMMA PidNextStep ==
    ASSUME PidIInv, [PidNext]_pid_vars
    PROVE  PidIInv' /\ AStep
<1>1. CASE UNCHANGED pid_vars
  BY <1>1 DEF pid_vars, PidIInv, PidTypeOK, PidsUnique, CacheSound, Walking, Live, AStep,
              Allocator!Passed, Allocator!Pids
<1> QED
  BY <1>1, FastStep, InsideStep, StepStep, DoneStep, ReapStep DEF PidNext

\* Before the first call.
LEMMA InitPidIInv ==
    ASSUME PidInit
    PROVE  PidIInv /\ Allocator!Init
<1>0. Len(proc_list) = 0 /\ proc_list \in Seq(1..MAX_PID - 1)
  BY DEF PidInit
<1>1. PidTypeOK
  BY <1>0, MaxAssumption DEF PidInit, PidTypeOK
<1>2. Live = {}
  BY <1>0 DEF Live
<1>3. PidsUnique /\ CacheSound /\ Walking
  BY <1>0, <1>2 DEF PidInit, PidsUnique, CacheSound, Walking
<1> QED
  BY <1>1, <1>2, <1>3 DEF PidInit, PidIInv, Allocator!Init

\* The inductive invariant holds in every state.
THEOREM PidInductive == PidSpec => []PidIInv
  BY InitPidIInv, PidNextStep, PTL DEF PidSpec

\* Every pid is in range, and nr_process counts the processes.
THEOREM PidTypeCorrect == PidSpec => []PidTypeOK
<1>1. PidIInv => PidTypeOK
  BY DEF PidIInv
<1> QED
  BY <1>1, PidInductive, PTL

\* get_pid returns a unique pid, however often the numbering wraps.
THEOREM PidsAlwaysUnique == PidSpec => []PidsUnique
<1>1. PidIInv => PidsUnique
  BY DEF PidIInv
<1> QED
  BY <1>1, PidInductive, PTL

\* The static last_pid and next_safe never go stale between calls.
THEOREM CacheAlwaysSound == PidSpec => []CacheSound
<1>1. PidIInv => CacheSound
  BY DEF PidIInv
<1> QED
  BY <1>1, PidInductive, PTL

\* get_pid implements PidAllocator.
THEOREM ImplementsAllocator == PidSpec => CyclicOrder
<1>1. PidInit => Allocator!Init
  BY InitPidIInv
<1>2. PidIInv /\ [PidNext]_pid_vars => [Allocator!Next]_<<Live, prev>>
  BY PidNextStep DEF AStep
<1> QED
  BY <1>1, <1>2, PidInductive, PTL DEF PidSpec, CyclicOrder, Allocator!Spec
=============================================================================
