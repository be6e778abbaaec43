------------------------------ MODULE VmProofs ------------------------------
(***************************************************************************)
(* load_icode and the accesses to memory keep the inductive invariant of   *)
(* Vm; the theorems: who owns the physical pages, what the TLB says, and   *)
(* what every address space reads.                                         *)
(***************************************************************************)
EXTENDS VmInvariant

(* load_icode.                                                             *)

\* The error exits of load_icode keep the invariant.
LEMMA LoadFailsInv ==
    ASSUME IInv, NEW p \in Proc, current = p, NEW id, id = proc[p].load, id # None,
           NEW S, Held(S, Budget(mm, id)), Kept(mm, id, content, S.content), LoadFails(p, id, S)
    PROVE  IInv'
<1> DEFINE T == Destroyed(S)
           N == [mm EXCEPT ![id] = T.m]
<1>1. /\ id \in LiveOf(mm) /\ id \in Mm /\ proc[p].st = "exec" /\ proc[p].mm = None
      /\ (\A q \in Proc : proc[q].mm # id) /\ \A q \in Proc \ {p} : proc[q].load # id
  BY LoadFacts, Zenon DEF LiveOf
<1>2. proc \in [Proc -> Process] /\ ProcsOK(proc, mm) /\ Heap(free, content, mm, view)
  BY Zenon DEF IInv, ProcsOK
<1>3. Gone(S, T, Budget(mm, id))
  BY DestroysAll, Zenon
<1>4. Becomes(id, T) /\ UNCHANGED <<current, index, panic, view>>
  BY Zenon DEF LoadFails
<1> HIDE DEF T
<1>5. Heap(T.free, T.content, N, view)
  BY <1>1, <1>2, <1>3, HeapDrop, SMTT(30)
<1>6. T.m = None /\ T.flush \in BOOLEAN
  BY <1>3, Zenon DEF Gone
<1>7. Put(mm, id, None, N)
  BY <1>1, <1>2, <1>6, PutIn, SMTT(30) DEF Heap
<1>8. /\ PutProc(proc, p, proc'[p], proc') /\ proc'[p].mm = None /\ proc'[p].load = None
      /\ proc'[p].st = "exiting"
  BY <1>1, <1>2, SMTT(30) DEF LoadFails, PutProc, Process
<1>9. ProcOK(proc'[p], N)
  BY <1>8 DEF ProcOK
<1>10. Follow(proc, p, proc'[p], mm, id, None)
  BY <1>1, <1>8, Zenon DEF Follow
<1>11. ProcsOK(proc', N)
  <2> HIDE DEF N
  <2> QED BY <1>1, <1>2, <1>7, <1>8, <1>9, <1>10, ProcsPut, SMTT(30)
<1>12. After(T, id, proc', view')
  BY <1>4, <1>5, <1>6, <1>11, ZenonT(30) DEF After
<1>13. Translation(proc'[current'], current_pgdir', mm', tlb')
  BY <1>4, <1>8 DEF Translation
<1>14. PanicType' /\ current' \in Proc /\ index' \in Slots
  BY <1>4, Zenon DEF IInv, PanicType
<1> QED BY <1>4, <1>12, <1>13, <1>14, BecomesInv, SMTT(30)

\* The start of load_icode keeps the invariant.
LEMMA LoadStartInv ==
    ASSUME IInv, NEW p \in Proc, LoadStart(p) PROVE IInv'
<1>1. /\ proc \in [Proc -> Process] /\ ProcsOK(proc, mm) /\ Heap(free, content, mm, view)
      /\ proc[p].st = "exec" /\ current = p /\ proc[p].load = None /\ ProcOK(proc[p], mm)
  BY Zenon DEF IInv, ProcsOK, LoadStart, Loading
<1>2. proc[p].mm = None
  BY <1>1 DEF ProcOK
<1>3. UNCHANGED <<current, current_pgdir, index, panic>>
  BY Zenon DEF LoadStart
<1>4. PanicType' /\ current' \in Proc /\ index' \in Slots
  BY <1>3, Zenon DEF IInv, PanicType
<1>5. CASE proc' = [proc EXCEPT ![p].st = "exiting"] /\ UNCHANGED <<free, content, mm, tlb, view>>
  <2>1. /\ PutProc(proc, p, proc'[p], proc') /\ proc'[p].mm = proc[p].mm
        /\ proc'[p].load = proc[p].load /\ proc'[p].st = "exiting"
    <3>1. proc \in [Proc -> Process] /\ proc' = [proc EXCEPT ![p].st = "exiting"]
      BY <1>1, <1>5, Zenon
    <3> QED BY <3>1 DEF PutProc, Process
  <2>2. ProcOK(proc'[p], mm)
    BY <1>1, <1>2, <2>1, SMTT(30) DEF ProcOK
  <2>3. ProcsOK(proc', mm)
    BY <1>1, <2>1, <2>2, ProcsSame, SMTT(30)
  <2>4. Translation(proc'[current'], current_pgdir', mm, tlb') /\ TlbType(tlb')
    BY <1>1, <1>3, <1>5, <2>1, SMTT(30) DEF Translation, IInv
  <2> QED BY <1>4, <1>5, <2>3, <2>4, ProcInv, SMTT(30)
<1>6. ASSUME NEW id \in Mm, Unused(id), free # {}, Becomes(id, setup_pgdir),
             view' = [view EXCEPT ![id] = [q \in Pages |-> None]],
             proc' = [proc EXCEPT ![p].load = id, ![p].seg = 1]
      PROVE  IInv'
  <2> DEFINE S == setup_pgdir
             N == [mm EXCEPT ![id] = S.m]
  <2>1. mm[id] = None
    BY <1>6, Zenon DEF Unused
  <2>2. Fresh(S, id)
    BY <1>6, <2>1, SetupFresh, Zenon
  <2>3. Becomes(id, S)
    BY <1>6, Zenon
  <2> HIDE DEF S
  <2>4. /\ Held(S, Budget(mm, id)) /\ Kept(mm, id, content, S.content) /\ S \in Op
        /\ S.m \in mm_struct /\ S.m.vmas = {} /\ S.m.count = 0
    BY <2>2, Zenon DEF Fresh, Begins, Held, SpaceOK
  <2>5. S.flush \in BOOLEAN /\ S.m # None /\ id # None
    BY <2>4, NoneFacts, SMTT(30) DEF Op
  <2>6. Viewed(view, id, view') /\ \A a \in Pages : view'[id][a] = None
    BY <1>1, <1>6 DEF Viewed, Heap
  <2>7. Mapped(S.m) /\ Agrees(S.m, view'[id], S.content)
    BY <2>4, <2>6, ZenonT(30) DEF Mapped, Agrees
  <2>8. Heap(S.free, S.content, N, view')
    BY <1>1, <2>4, <2>6, <2>7, HeapPut, SMTT(30)
  <2>9. Put(mm, id, S.m, N)
    BY <1>1, <2>4, PutIn, SMTT(30) DEF Heap
  <2>10. /\ PutProc(proc, p, proc'[p], proc') /\ proc'[p].mm = None /\ proc'[p].load = id
         /\ proc'[p].st = "exec" /\ proc'[p].prog = proc[p].prog /\ proc'[p].seg = 1
    BY <1>1, <1>2, <1>6, Zenon DEF PutProc, Process
  <2>11. N[id] = S.m /\ id \in LiveOf(N)
    BY <2>5, <2>9, ZenonT(30) DEF Put
  <2>12. ProcOK(proc'[p], N)
    <3>1. proc[p].prog \in Programs
      BY <1>1, Zenon DEF ProcOK
    <3> HIDE DEF N
    <3> QED BY <2>4, <2>10, <2>11, <3>1, SMTT(30) DEF ProcOK
  <2>13. /\ \A q \in Proc : proc[q].mm # id /\ proc[q].load # id
         /\ UsersOf(proc, id) = {}
    BY <2>1, NewFacts, Zenon
  <2>14. Follow(proc, p, proc'[p], mm, id, S.m)
    BY <1>1, <1>2, <2>10, <2>13, Zenon DEF Follow
  <2>15. CountOK(proc', N, id)
    <3>1. UsersOf(proc', id) = UsersOf(proc, id)
      BY <1>2, <2>5, <2>10, UserSame, SMTT(30)
    <3>2. Cardinality(UsersOf(proc', id)) = 0
      BY <2>13, <3>1, FS_EmptySet, Zenon
    <3> QED BY <2>4, <2>10, <2>11, <3>2, ZenonT(30) DEF CountOK
  <2>16. ProcsOK(proc', N)
    <3> HIDE DEF N
    <3> QED BY <1>1, <2>9, <2>10, <2>12, <2>14, <2>15, ProcsPut, SMTT(30)
  <2>17. After(S, id, proc', view')
    BY <2>5, <2>8, <2>16, ZenonT(30) DEF After
  <2>18. Translation(proc'[current'], current_pgdir', mm', tlb')
    BY <1>1, <1>3, <2>10, SMTT(30) DEF Translation
  <2> QED BY <1>4, <2>3, <2>17, <2>18, BecomesInv, SMTT(30)
<1> QED BY <1>5, <1>6, Zenon DEF LoadStart

\* The address space under construction with one more area.
Longer(m, v, k) ==
    [m EXCEPT !.vmas = @ \cup {v}, !.count = k, !.cache = Cached(m, find_vma(m, v.start)).cache]

\* mm_map adds an area where nothing is mapped.
LEMMA LongerOK ==
    ASSUME NEW m, SpaceOK(m), NEW v \in vma_struct, NEW k \in Nat, ~ Refused(m, v),
           v.stack => v.start = UserPages - StackPages /\ v.end = UserPages
    PROVE  LET n == Longer(m, v, k)
           IN  /\ SpaceOK(n) /\ (\A f : Holds(n, f) <=> Holds(m, f))
               /\ n.vmas = m.vmas \cup {v} /\ n.count = k /\ n.pgdir = m.pgdir /\ n.pte = m.pte
               /\ \A a \in Pages : In(a, v) => n.pte[a] = None
<1> DEFINE n == Longer(m, v, k)
           x == find_vma(m, v.start)
           c == Cached(m, x).cache
<1>1. m \in mm_struct /\ AreasOK(m) /\ UserPages \in Nat
  BY PageNumbers, Zenon DEF SpaceOK
<1>2. v.start \in Nat /\ v.end \in Nat
  BY <1>1 DEF vma_struct
<1>3. v.start < v.end /\ \A u \in m.vmas : Apart(u, v)
  BY <1>1, <1>2, NotRefused, Zenon
<1>4. FindIs(m, v.start, x)
  BY <1>1, <1>2, FindsVma, Zenon
<1> HIDE DEF x
<1>5. x \in m.vmas \cup {None} /\ m.cache \in m.vmas \cup {None} /\ m.vmas \subseteq vma_struct
  BY <1>1, <1>4 DEF FindIs, AreasOK, mm_struct
<1>6. c \in m.vmas \cup {None}
  <2>1. CASE x = None
    BY <1>5, <2>1, Zenon DEF Cached
  <2>2. CASE x # None
    BY <1>1, <1>5, <2>2, SMTT(30) DEF Cached, mm_struct
  <2> QED BY <2>1, <2>2, Zenon
<1>7. n = [m EXCEPT !.vmas = @ \cup {v}, !.count = k, !.cache = c]
  BY Zenon DEF Longer, x
<1> HIDE DEF n, c
<1>8. /\ n \in mm_struct /\ n.vmas = m.vmas \cup {v} /\ n.count = k /\ n.pgdir = m.pgdir
      /\ n.pte = m.pte /\ n.pt = m.pt /\ n.cache = c
  BY <1>1, <1>5, <1>6, <1>7, Zenon DEF mm_struct
<1>9. AreasOK(n)
  BY <1>1, <1>3, <1>5, <1>6, <1>8, NewArea, SMTT(30)
<1>10. SpaceOK(n) /\ \A f : Holds(n, f) <=> Holds(m, f)
  BY <1>8, <1>9, MoreAreas, SMTT(30)
<1>11. \A a \in Pages : In(a, v) => n.pte[a] = None
  BY <1>3, <1>8, NewAreaEmpty, SMTT(30)
<1> QED BY <1>8, <1>10, <1>11, Zenon DEF n

\* load_icode goes on with the address space T.m.
LEMMA LoadGoesOn ==
    ASSUME IInv, NEW p \in Proc, current = p, NEW id, id = proc[p].load, id # None,
           NEW T, Held(T, Budget(mm, id)), Mapped(T.m), Kept(mm, id, content, T.content),
           T.m.count = 0, T.flush, Becomes(id, T), Viewed(view, id, view'),
           Agrees(T.m, view'[id], T.content), proc' = [proc EXCEPT ![p].seg = @ + 1],
           UNCHANGED <<current, current_pgdir, index, panic>>
    PROVE  IInv'
<1> DEFINE N == [mm EXCEPT ![id] = T.m]
<1>1. /\ id \in LiveOf(mm) /\ id \in Mm /\ proc[p].st = "exec" /\ proc[p].mm = None
      /\ proc[p].prog \in Programs
      /\ (\A q \in Proc : proc[q].mm # id) /\ \A q \in Proc \ {p} : proc[q].load # id
  BY LoadFacts, Zenon DEF LiveOf
<1>2. proc \in [Proc -> Process] /\ ProcsOK(proc, mm) /\ Heap(free, content, mm, view)
  BY Zenon DEF IInv, ProcsOK
<1>3. T.m \in mm_struct /\ T.m # None
  BY NoneFacts, Zenon DEF Held, SpaceOK
<1>4. Heap(T.free, T.content, N, view')
  BY <1>1, <1>2, HeapPut, SMTT(30)
<1>5. Put(mm, id, T.m, N)
  BY <1>1, <1>2, <1>3, PutIn, SMTT(30) DEF Heap
<1> HIDE DEF N
<1>6. /\ PutProc(proc, p, proc'[p], proc') /\ proc'[p].mm = None /\ proc'[p].load = id
      /\ proc'[p].st = "exec" /\ proc'[p].prog = proc[p].prog /\ proc'[p].seg >= 1
  BY <1>1, <1>2, SMTT(30) DEF PutProc, Process
<1>7. N[id] = T.m /\ id \in LiveOf(N)
  BY <1>3, <1>5, ZenonT(30) DEF Put
<1>8. ProcOK(proc'[p], N)
  BY <1>1, <1>6, <1>7, SMTT(30) DEF ProcOK
<1>9. Follow(proc, p, proc'[p], mm, id, T.m)
  BY <1>1, <1>6, Zenon DEF Follow
<1>10. CountOK(proc', N, id)
  <2>1. UsersOf(proc', id) = {}
    BY <1>1, <1>6, Zenon DEF UsersOf, PutProc
  <2>2. Cardinality(UsersOf(proc', id)) = 0
    BY <2>1, FS_EmptySet, ZenonT(30)
  <2> QED BY <1>6, <1>7, <2>2, Zenon DEF CountOK
<1>11. ProcsOK(proc', N)
  BY <1>1, <1>2, <1>5, <1>6, <1>8, <1>9, <1>10, ProcsPut, SMTT(30)
<1>12. After(T, id, proc', view')
  BY <1>4, <1>11, SMTT(30) DEF After, N
<1>13. tlb' = Flushed
  BY Zenon DEF Becomes
<1>14. Translation(proc'[current'], current_pgdir', mm', tlb')
  BY <1>6, <1>13, SMTT(30) DEF Translation
<1>15. PanicType' /\ current' \in Proc /\ index' \in Slots
  BY Zenon DEF IInv, PanicType
<1> QED BY <1>12, <1>14, <1>15, BecomesInv, Zenon

\* An element of a sequence.
LEMMA InSeq ==
    ASSUME NEW X, NEW s \in Seq(X), NEW i \in Nat, i >= 1, i <= Len(s) PROVE s[i] \in X
OBVIOUS

\* One segment of load_icode keeps the invariant.
LEMMA LoadSegmentInv ==
    ASSUME IInv, NEW p \in Proc, NEW fails \in BOOLEAN, LoadSegment(p, fails) PROVE IInv'
<1> DEFINE id == proc[p].load
           m == mm[id]
           segs == proc[p].prog
           k == proc[p].seg
           perm == \E j \in 1..k : segs[j].w
           v == [start |-> segs[k].start, end |-> segs[k].end, w |-> segs[k].w, stack |-> FALSE]
           n == [m EXCEPT !.vmas = @ \cup {v}, !.cache = Cached(m, find_vma(m, v.start)).cache]
           S == State(n)
           u == [start |-> v.start, end |-> v.end, perm |-> perm]
           T == Filled(S, u)
<1>1. /\ proc[p].st = "exec" /\ current = p /\ id # None /\ k <= Len(segs)
      /\ IF Refused(m, v) THEN LoadFails(p, id, State(m))
         ELSE IF ~ T.ok \/ fails THEN LoadFails(p, id, T)
         ELSE /\ Becomes(id, T)
              /\ proc' = [proc EXCEPT ![p].seg = @ + 1]
              /\ view' = [view EXCEPT ![id] = [q \in Pages |->
                            IF q \in v.start..(v.end - 1) THEN "program" ELSE @[q]]]
              /\ UNCHANGED <<current, current_pgdir, index, panic, forks, execs>>
  BY Zenon DEF LoadSegment, Loading
<1>2. /\ id \in LiveOf(mm) /\ m.count = 0 /\ segs \in Programs /\ ProcOK(proc[p], mm)
  BY <1>1, LoadFacts, Zenon DEF IInv, ProcsOK
<1>3. id \in Mm /\ m \in mm_struct /\ SpaceOK(m) /\ Mapped(m) /\ Agrees(m, view[id], content)
  BY <1>2, LiveFacts, Zenon
<1>4. k \in Nat /\ k >= 1
  <2>1. proc[p] \in Process
    BY Zenon DEF IInv, ProcsOK
  <2> QED BY <1>1, <1>2, <2>1, Zenon DEF Process, ProcOK
<1>5. segs \in Seq([start : Nat, end : Nat, w : BOOLEAN])
  BY <1>2, VmAssumption, Zenon
<1>6. segs[k] \in [start : Nat, end : Nat, w : BOOLEAN]
  <2> HIDE DEF k, segs
  <2> QED BY <1>1, <1>4, <1>5, InSeq, ZenonT(30)
<1>7. v.start \in Nat /\ v.end \in Nat /\ v.w \in BOOLEAN /\ v.stack = FALSE
  BY <1>6, SMTT(30)
<1>8. v.w => perm
  BY <1>4
<1>9. n = Longer(m, v, 0)
  BY <1>2, <1>3, Zenon DEF Longer, mm_struct
<1>10. u.start = v.start /\ u.end = v.end /\ u.perm = perm /\ perm \in BOOLEAN
  <2> HIDE DEF perm, v
  <2>1. perm \in BOOLEAN
    BY Zenon DEF perm
  <2> QED BY <2>1
<1>11. Heap(free, content, mm, view)
  BY Zenon DEF IInv
<1>12. v = [start |-> v.start, end |-> v.end, w |-> v.w, stack |-> FALSE]
  OBVIOUS
<1> HIDE DEF v, n, u, perm, k, segs
<1>13. Begins(State(m), id)
  BY <1>2, <1>3, BeginsNow, ZenonT(30)
<1>14. CASE Refused(m, v)
  <2>1. LoadFails(p, id, State(m))
    BY <1>1, <1>14, Zenon
  <2> QED BY <1>1, <1>13, <2>1, LoadFailsInv, SMTT(30) DEF Begins
<1>15. CASE ~ Refused(m, v)
  <2>1. UserPages \in Nat /\ v.start < v.end /\ v.start <= UserPages /\ v.end <= UserPages
    BY <1>3, <1>7, <1>15, NotRefused, PageNumbers, SMTT(30) DEF SpaceOK
  <2>2. v \in vma_struct
    <3>1. \A a, b \in 0..UserPages, w \in BOOLEAN :
            [start |-> a, end |-> b, w |-> w, stack |-> FALSE] \in vma_struct
      BY DEF vma_struct
    <3>2. v.start \in 0..UserPages /\ v.end \in 0..UserPages
      BY <1>7, <2>1, SMTT(30)
    <3>3. [start |-> v.start, end |-> v.end, w |-> v.w, stack |-> FALSE] \in vma_struct
      BY <1>7, <3>1, <3>2, ZenonT(30)
    <3> QED BY <1>12, <3>3, ZenonT(30)
  <2>3. /\ SpaceOK(n) /\ (\A f : Holds(n, f) <=> Holds(m, f))
        /\ n.vmas = m.vmas \cup {v} /\ n.count = 0 /\ n.pgdir = m.pgdir /\ n.pte = m.pte
        /\ \A a \in Pages : In(a, v) => n.pte[a] = None
    BY <1>3, <1>7, <1>9, <1>15, <2>2, LongerOK, SMTT(30)
  <2>4. Begins(S, id) /\ StateIs(S, n)
    BY <1>2, <2>3, BeginsNow, SMTT(30)
  <2> HIDE DEF S
  <2>5. Held(S, Budget(mm, id)) /\ Kept(mm, id, content, S.content)
        /\ S.ok = TRUE /\ S.m = n /\ S.content = content /\ S.free = free
    BY <2>4, ZenonT(30) DEF Begins, StateIs
  <2>6. FillsFor(S, u, T, Budget(mm, id))
    <3>1. v \in S.m.vmas
      BY <2>3, <2>5, Zenon
    <3>2. \A a \in Pages : In(a, u) => S.m.pte[a] = None
      BY <1>10, <2>3, <2>5, Zenon DEF In
    <3> QED BY <1>7, <1>8, <1>10, <2>1, <2>5, <3>1, <3>2, FillsSegment, SMTT(30)
  <2> HIDE DEF T
  <2>7. /\ Held(T, Budget(mm, id)) /\ Grown(S, T) /\ T.m.vmas = S.m.vmas
        /\ T.ok =>
             /\ T.flush = TRUE
             /\ \A a \in Pages : ~ In(a, u) => T.m.pte[a] = S.m.pte[a]
             /\ \A a \in Pages : In(a, u) =>
                  T.m.pte[a] # None /\ T.content[T.m.pte[a].f] = "program"
    <3> DEFINE P == { a \in Pages : In(a, u) }
               full == [a \in Pages |-> "program"]
    <3>1. Added(S, T, Budget(mm, id), P, full)
      BY <2>6, Zenon DEF FillsFor
    <3>2. P # {}
      <4>1. v.start \in Pages
        BY <1>7, <2>1, SMTT(30) DEF Pages
      <4>2. In(v.start, u)
        BY <1>7, <1>10, <2>1, SMTT(30) DEF In
      <4> QED BY <4>1, <4>2, ZenonT(30)
    <3>3. \A a \in P : full[a] = "program"
      BY Zenon
    <3>4. \A a \in Pages : In(a, u) <=> a \in P
      BY Zenon
    <3>5. T \in Op
      BY <3>1, Zenon DEF Added, Held
    <3>6. T.flush \in BOOLEAN
      BY <3>5 DEF Op
    <3> HIDE DEF P, full
    <3> QED BY <3>1, <3>2, <3>3, <3>4, <3>6, ZenonT(30) DEF Added
  <2>8. Kept(mm, id, content, T.content)
    BY <1>11, <2>5, <2>7, KeptGrown, ZenonT(30)
  <2>9. CASE ~ T.ok \/ fails
    <3>1. LoadFails(p, id, T)
      BY <1>1, <1>15, <2>9, Zenon
    <3> QED BY <1>1, <2>7, <2>8, <3>1, LoadFailsInv, SMTT(30)
  <2>10. CASE T.ok /\ ~ fails
    <3>1. /\ Becomes(id, T)
          /\ proc' = [proc EXCEPT ![p].seg = @ + 1]
          /\ view' = [view EXCEPT ![id] = [q \in Pages |->
                        IF q \in v.start..(v.end - 1) THEN "program" ELSE @[q]]]
          /\ UNCHANGED <<current, current_pgdir, index, panic>>
      BY <1>1, <1>15, <2>10, ZenonT(30)
    <3>2. Viewed(view, id, view')
      <4>1. view \in [Mm -> [Pages -> Contents \cup {None}]] /\ "program" \in Contents
        BY <1>11, ZenonT(30) DEF Heap, Contents
      <4> QED BY <1>3, <3>1, <4>1, SMTT(30) DEF Viewed
    <3>3. \A a \in Pages : view'[id][a] = IF In(a, u) THEN "program" ELSE view[id][a]
      <4>1. view \in [Mm -> [Pages -> Contents \cup {None}]] /\ Pages \subseteq Nat
        BY <1>11, PageNumbers, ZenonT(30) DEF Heap
      <4>2. \A a \in Pages : a \in v.start..(v.end - 1) <=> In(a, u)
        BY <1>7, <1>10, <4>1, SMTT(30) DEF In
      <4> QED BY <1>3, <3>1, <4>1, <4>2, SMTT(30)
    <3>4. Mapped(T.m)
      <4>1. ASSUME NEW x \in T.m.vmas, ~ x.stack, NEW a \in Pages, In(a, x)
            PROVE  T.m.pte[a] # None
        <5>1. CASE x = v
          <6>1. In(a, u)
            BY <1>10, <4>1, <5>1, ZenonT(30) DEF In
          <6> QED BY <2>7, <2>10, <6>1, ZenonT(30)
        <5>2. CASE x # v
          <6>1. x \in m.vmas
            <7>1. T.m.vmas = m.vmas \cup {v}
              BY <2>3, <2>5, <2>7, Zenon
            <7> QED BY <4>1, <5>2, <7>1, Zenon
          <6>2. m.pte[a] # None
            BY <1>3, <4>1, <6>1, Zenon DEF Mapped
          <6> QED BY <2>3, <2>5, <2>7, <2>10, <6>2, ZenonT(30)
        <5> QED BY <5>1, <5>2, Zenon
      <4> QED BY <4>1, Zenon DEF Mapped
    <3>5. Agrees(T.m, view'[id], T.content)
      <4>1. Agrees(S.m, view[id], S.content)
        BY <1>3, <2>3, <2>5, ZenonT(30) DEF Agrees
      <4>2. Agrees(T.m, view[id], T.content)
        BY <2>5, <2>7, <4>1, AgreesGrown, SMTT(30)
      <4>3. ASSUME NEW a \in Pages, view'[id][a] # None
            PROVE  T.m.pte[a] # None /\ T.content[T.m.pte[a].f] = view'[id][a]
        <5>1. CASE In(a, u)
          BY <2>7, <2>10, <3>3, <5>1, Zenon
        <5>2. CASE ~ In(a, u)
          BY <3>3, <4>2, <4>3, <5>2, Zenon DEF Agrees
        <5> QED BY <5>1, <5>2, ZenonT(30)
      <4> QED BY <4>3, Zenon DEF Agrees
    <3>6. T.m.count = 0 /\ T.flush
      BY <2>3, <2>5, <2>7, <2>10, Zenon DEF Grown
    <3> QED BY <1>1, <2>7, <2>8, <3>1, <3>2, <3>4, <3>5, <3>6, LoadGoesOn, ZenonT(30)
  <2> QED BY <2>9, <2>10, ZenonT(30)
<1> QED BY <1>14, <1>15, Zenon

\* The end of load_icode, the stack and the switch to the new tables, keeps the invariant.
LEMMA LoadEndInv ==
    ASSUME IInv, NEW p \in Proc, NEW fails \in BOOLEAN, NEW argc, LoadEnd(p, fails, argc) PROVE IInv'
<1> DEFINE id == proc[p].load
           m == mm[id]
           v == [start |-> UserPages - StackPages, end |-> UserPages, w |-> TRUE, stack |-> TRUE]
           n == Longer(m, v, 1)
           S == State(n)
<1>1. /\ proc[p].st = "exec" /\ current = p /\ id # None /\ proc[p].seg > Len(proc[p].prog)
      /\ IF Refused(m, v) \/ fails THEN LoadFails(p, id, State(m))
         ELSE /\ Becomes(id, S)
              /\ proc' = [proc EXCEPT ![p] = Child(id, S.m.pgdir)]
              /\ current_pgdir' = S.m.pgdir
              /\ UNCHANGED <<current, index, panic, view, forks, execs>>
  BY Zenon DEF LoadEnd, Loading, Longer
<1>2. /\ id \in LiveOf(mm) /\ proc[p].prog \in Programs /\ proc[p].mm = None
      /\ (\A q \in Proc : proc[q].mm # id) /\ \A q \in Proc \ {p} : proc[q].load # id
  BY <1>1, LoadFacts, ZenonT(30)
<1>3. id \in Mm /\ m \in mm_struct /\ SpaceOK(m) /\ Mapped(m) /\ Agrees(m, view[id], content)
  BY <1>2, LiveFacts, ZenonT(30)
<1>4. Heap(free, content, mm, view) /\ proc \in [Proc -> Process]
  BY Zenon DEF IInv, ProcsOK
<1>5. tlb = Flushed
  <2>1. proc[p].prog \in Seq([start : Nat, end : Nat, w : BOOLEAN]) /\ proc[p].prog # <<>>
    BY <1>2, VmAssumption, ZenonT(30)
  <2>2. Len(proc[p].prog) \in Nat \ {0}
    BY <2>1
  <2>3. proc[p] \in Process
    BY <1>4, ZenonT(30)
  <2>4. proc[p].seg > 1
    BY <1>1, <2>2, <2>3, SMTT(30) DEF Process
  <2> QED BY <1>1, <2>4, Zenon DEF IInv, Translation
<1>6. v \in vma_struct /\ v.stack = TRUE /\ v.start = UserPages - StackPages /\ v.end = UserPages
  BY VmAssumption, SMTT(30) DEF vma_struct
<1> HIDE DEF v
<1>7. CASE Refused(m, v) \/ fails
  <2>1. Begins(State(m), id)
    BY <1>2, <1>3, BeginsNow, Zenon
  <2>2. LoadFails(p, id, State(m))
    BY <1>1, <1>7, Zenon
  <2> QED BY <1>1, <2>1, <2>2, LoadFailsInv, SMTT(30) DEF Begins
<1>8. CASE ~ (Refused(m, v) \/ fails)
  <2>1. /\ Becomes(id, S) /\ proc' = [proc EXCEPT ![p] = Child(id, S.m.pgdir)]
        /\ current_pgdir' = S.m.pgdir /\ UNCHANGED <<current, index, panic, view>>
    BY <1>1, <1>8, ZenonT(30)
  <2>2. /\ SpaceOK(n) /\ (\A f : Holds(n, f) <=> Holds(m, f)) /\ n.vmas = m.vmas \cup {v}
        /\ n.count = 1 /\ n.pgdir = m.pgdir /\ n.pte = m.pte
    BY <1>3, <1>6, <1>8, LongerOK, SMTT(30)
  <2> HIDE DEF n
  <2>3. Begins(S, id) /\ StateIs(S, n)
    BY <1>2, <2>2, BeginsNow, SMTT(30)
  <2> HIDE DEF S
  <2>4. /\ Held(S, Budget(mm, id)) /\ Kept(mm, id, content, S.content)
        /\ S.m = n /\ S.content = content /\ S.flush = FALSE
    BY <2>3, Zenon DEF Begins, StateIs
  <2>5. Mapped(S.m)
    BY <1>3, <1>6, <2>2, <2>4, ZenonT(30) DEF Mapped
  <2>6. Agrees(S.m, view[id], S.content) /\ Viewed(view, id, view)
    BY <1>3, <1>4, <2>2, <2>4, ZenonT(30) DEF Agrees, Viewed, Heap
  <2>7. Heap(S.free, S.content, [mm EXCEPT ![id] = S.m], view)
    BY <1>3, <1>4, <2>4, <2>5, <2>6, HeapPut, SMTT(30)
  <2>8. S.m \in mm_struct /\ S.m.count = 1
    BY <2>2, <2>4, ZenonT(30) DEF SpaceOK
  <2>9. S.m.pgdir \in Frames /\ S.m # None
    BY <2>8, NoneFacts, SMTT(30) DEF mm_struct
  <2>10. PutProc(proc, p, Child(id, S.m.pgdir), proc')
    BY <1>3, <1>4, <2>1, <2>9, ChildOK, SMTT(30) DEF PutProc
  <2>11. ProcsOK(proc', [mm EXCEPT ![id] = S.m])
    BY <1>2, <1>3, <2>8, <2>10, FirstUser, SMTT(30)
  <2>12. After(S, id, proc', view')
    BY <2>1, <2>4, <2>7, <2>11, ZenonT(30) DEF After
  <2>13. Translation(proc'[current'], current_pgdir', mm', tlb')
    <3>1. tlb' = Flushed
      BY <1>5, <2>1, <2>4, ZenonT(30) DEF Becomes
    <3>2. proc'[p].st = "user" /\ proc'[p].mm = id /\ proc'[p].load = None
      BY <1>3, <2>9, <2>10, ChildOK, SMTT(30) DEF PutProc
    <3>3. mm' = [mm EXCEPT ![id] = S.m]
      BY <2>1, Zenon DEF Becomes
    <3>4. Put(mm, id, S.m, mm')
      BY <1>3, <1>4, <2>8, <3>3, PutIn, ZenonT(30) DEF Heap
    <3>5. mm'[id] = S.m
      BY <3>4, Zenon DEF Put
    <3> QED BY <1>1, <2>1, <3>1, <3>2, <3>5, FlushedFacts, ZenonT(30) DEF Translation
  <2>14. PanicType' /\ current' \in Proc /\ index' \in Slots
    BY <2>1, ZenonT(30) DEF IInv, PanicType
  <2> QED BY <2>1, <2>12, <2>13, <2>14, BecomesInv, ZenonT(30)
<1> QED BY <1>7, <1>8, ZenonT(30)
-----------------------------------------------------------------------------
(* Memory accesses.                                                        *)

\* The process gets the page.
LEMMA FaultInv ==
    ASSUME IInv, NEW p \in Proc, Running(p), NEW T, NEW a, NEW write,
           Faulted(proc[p].mm, a, write, T), T.ok, Becomes(proc[p].mm, T),
           UNCHANGED <<proc, current, current_pgdir, index, panic, view>>
    PROVE  IInv'
<1> DEFINE id == proc[p].mm
           N == [mm EXCEPT ![id] = T.m]
<1>1. proc[p].st = "user" /\ current = p
  BY Zenon DEF Running
<1>2. /\ id \in LiveOf(mm) /\ id # None /\ proc[p].load = None /\ proc[p].cr3 = mm[id].pgdir
      /\ mm[id].count \in Nat \ {0} /\ mm[id].count = Cardinality(UsersOf(proc, id))
      /\ \A q \in Proc : proc[q].load # id
  BY <1>1, UserFacts, Zenon
<1>3. id \in Mm
  BY <1>2, Zenon DEF LiveOf
<1>4. /\ Heap(free, content, mm, view) /\ ProcsOK(proc, mm) /\ proc \in [Proc -> Process]
      /\ Translation(proc[p], current_pgdir, mm, tlb)
  BY <1>1, Zenon DEF IInv, ProcsOK
<1>5. /\ Held(T, Budget(mm, id)) /\ Kept(mm, id, content, T.content) /\ Mapped(T.m)
      /\ Agrees(T.m, view[id], T.content) /\ T.m.count = mm[id].count
      /\ T.m.pgdir = mm[id].pgdir /\ T.flush
  <2>1. T.ok = TRUE \/ T.ok # FALSE
    BY Zenon
  <2> QED BY <2>1, Zenon DEF Faulted
<1>6. T.m \in mm_struct /\ T.m # None /\ T \in Op
  BY <1>5, NoneFacts, ZenonT(30) DEF Held, SpaceOK
<1>7. Heap(T.free, T.content, N, view)
  <2>1. Viewed(view, id, view)
    BY <1>4, ZenonT(30) DEF Viewed, Heap
  <2> QED BY <1>3, <1>4, <1>5, <2>1, HeapPut, SMTT(30)
<1>8. Put(mm, id, T.m, N)
  BY <1>3, <1>4, <1>6, PutIn, SMTT(30) DEF Heap
<1> HIDE DEF N
<1>9. N[id] = T.m /\ id \in LiveOf(N)
  BY <1>6, <1>8, ZenonT(30) DEF Put
<1>10. PutProc(proc, p, proc[p], proc)
  BY <1>4, Zenon DEF PutProc
<1>11. Follow(proc, p, proc[p], mm, id, T.m)
  BY <1>2, <1>5, <1>6, ZenonT(30) DEF Follow
<1>12. ProcOK(proc[p], N)
  BY <1>1, <1>2, <1>5, <1>9, UserOK, SMTT(30)
<1>13. CountOK(proc, N, id)
  <2>1. N[id].count # 0
    BY <1>2, <1>5, <1>9, SMTT(30)
  <2> QED BY <1>2, <1>5, <1>9, <2>1, ZenonT(30) DEF CountOK
<1>14. ProcsOK(proc, N)
  BY <1>3, <1>4, <1>8, <1>10, <1>11, <1>12, <1>13, ProcsPut, SMTT(30)
<1>15. T.flush \in BOOLEAN
  BY <1>6 DEF Op
<1>16. After(T, id, proc', view')
  <2>1. After(T, id, proc, view)
    BY <1>7, <1>14, <1>15, Zenon DEF After, N
  <2> QED BY <2>1, Zenon
<1>17. Translation(proc'[current'], current_pgdir', mm', tlb')
  <2>1. tlb' = Flushed /\ mm' = N
    BY <1>5, Zenon DEF Becomes, N
  <2>2. current_pgdir = mm[id].pgdir
    BY <1>1, <1>4, Zenon DEF Translation
  <2> QED BY <1>1, <1>5, <1>9, <2>1, <2>2, FlushedFacts, ZenonT(30) DEF Translation
<1>18. PanicType' /\ current' \in Proc /\ index' \in Slots
  BY Zenon DEF IInv, PanicType
<1> QED BY <1>16, <1>17, <1>18, BecomesInv, SMTT(30)

\* No entry held the page.
LEMMA RefillInv ==
    ASSUME IInv, NEW p \in Proc, Running(p), NEW a \in Pages, Matching(a) = {}, tlb_refill(a),
           UNCHANGED <<free, content, mm, proc, current, current_pgdir, panic, view>>
    PROVE  IInv'
<1> DEFINE id == proc[p].mm
           m == mm[id]
           even == 2 * VPN2(a)
           e == [vpn |-> VPN2(a), half |-> <<m.pte[even], m.pte[even + 1]>>]
<1>1. proc[p].st = "user" /\ current = p /\ Translation(proc[p], current_pgdir, mm, tlb)
      /\ TlbType(tlb) /\ index \in Slots /\ ProcsOK(proc, mm)
  BY Zenon DEF Running, IInv
<1>2. current_pgdir = m.pgdir /\ TlbExact(m, tlb) /\ proc[p].load = None
  BY <1>1, UserFacts, Zenon DEF Translation
<1>3. m \in mm_struct
  BY <1>1, UserFacts, LiveFacts, Zenon
<1>4. VPN2(a) \in Nat /\ even \in Pages /\ even + 1 \in Pages
  BY Halves, Zenon
<1>5. Walked(even) = m.pte[even] /\ Walked(even + 1) = m.pte[even + 1]
  BY <1>4, WalkedIs, ZenonT(30)
<1>6. tlb' = [tlb EXCEPT ![index] = e] /\ index' = (index + 1) % Cardinality(Slots)
  BY <1>5, ZenonT(30) DEF tlb_refill
<1>7. m.pte[even] \in PTE \cup {None} /\ m.pte[even + 1] \in PTE \cup {None}
  BY <1>3, <1>4, SMTT(30) DEF mm_struct
<1>8. e.vpn = VPN2(a) /\ e.half[1] = m.pte[even] /\ e.half[2] = m.pte[even + 1]
  BY SMTT(30)
<1>9. e \in Entry
  <2> HIDE DEF even
  <2> QED BY <1>4, <1>7, SMTT(30) DEF Entry
<1> HIDE DEF e
<1>10. /\ TlbType(tlb') /\ tlb'[index] = e /\ \A s \in Slots \ {index} : tlb'[s] = tlb[s]
  BY <1>1, <1>6, <1>9, SMTT(30) DEF TlbType
<1>11. index' \in Slots
  <2>1. Slots = 0..(Cardinality(Slots) - 1) /\ Cardinality(Slots) \in Nat
    BY VmAssumption, FS_CardinalityType, ZenonT(30)
  <2> QED BY <1>1, <1>6, <2>1, SMTT(30)
<1>12. \A s \in Slots : tlb[s].vpn # VPN2(a)
  BY Zenon DEF Matching
<1>13. ASSUME NEW b \in Pages, NEW s \in Slots, tlb'[s].vpn = VPN2(b)
       PROVE  tlb'[s].half[(b % 2) + 1] = m.pte[b]
  <2>1. CASE s = index
    <3>1. VPN2(b) = VPN2(a) /\ tlb'[s] = e
      BY <1>8, <1>10, <1>13, <2>1, ZenonT(30)
    <3>2. \/ b % 2 = 0 /\ b = even
          \/ b % 2 = 1 /\ b = even + 1
      BY <3>1, Halves, ZenonT(30)
    <3>3. CASE b % 2 = 0 /\ b = even
      <4>1. (b % 2) + 1 = 1
        BY <3>3
      <4> QED BY <1>8, <3>1, <3>3, <4>1, Zenon
    <3>4. CASE b % 2 = 1 /\ b = even + 1
      <4>1. (b % 2) + 1 = 2
        BY <3>4, SMTT(30)
      <4> QED BY <1>8, <3>1, <3>4, <4>1, ZenonT(30)
    <3> QED BY <3>2, <3>3, <3>4, ZenonT(30)
  <2>2. CASE s # index
    <3>1. tlb'[s] = tlb[s]
      BY <1>10, <2>2, ZenonT(30)
    <3> QED BY <1>2, <1>13, <3>1, Zenon DEF TlbExact
  <2> QED BY <2>1, <2>2, ZenonT(30)
<1>14. ASSUME NEW s \in Slots, NEW t \in Slots, tlb'[s].vpn # None, tlb'[s].vpn = tlb'[t].vpn
       PROVE  s = t
  <2>1. CASE s # index /\ t # index
    <3>1. tlb'[s] = tlb[s] /\ tlb'[t] = tlb[t]
      BY <1>10, <2>1, Zenon
    <3> QED BY <1>2, <1>14, <3>1, ZenonT(30) DEF TlbExact
  <2>2. CASE s = index /\ t # index
    BY <1>8, <1>10, <1>12, <1>14, <2>2, Zenon
  <2>3. CASE s # index /\ t = index
    BY <1>8, <1>10, <1>12, <1>14, <2>3, Zenon
  <2> QED BY <2>1, <2>2, <2>3, ZenonT(30)
<1>15. TlbExact(m, tlb')
  BY <1>13, <1>14, Zenon DEF TlbExact
<1>16. Translation(proc'[current'], current_pgdir', mm, tlb')
  <2>1. proc'[current'] = proc[p] /\ current_pgdir' = current_pgdir
    BY <1>1, Zenon
  <2> QED BY <1>2, <1>15, <2>1, Zenon DEF Translation
<1>17. PanicType' /\ current' \in Proc /\ ProcsOK(proc', mm)
  BY Zenon DEF IInv, PanicType
<1> QED BY <1>10, <1>11, <1>16, <1>17, ProcInv, SMTT(30)

\* The program writes its own page.
LEMMA WriteInv ==
    ASSUME IInv, NEW p \in Proc, Running(p), NEW a \in Pages,
           mm[proc[p].mm].pte[a] # None,
           content' = [content EXCEPT ![mm[proc[p].mm].pte[a].f] = proc[p].mm],
           view' = [view EXCEPT ![proc[p].mm][a] = proc[p].mm],
           UNCHANGED <<free, mm, tlb, proc, current, current_pgdir, index, panic>>
    PROVE  IInv'
<1> DEFINE id == proc[p].mm
           m == mm[id]
           f == m.pte[a].f
           S == State(m)
           T == [S EXCEPT !.content = content']
<1>1. proc[p].st = "user"
  BY Zenon DEF Running
<1>2. id \in LiveOf(mm)
  BY <1>1, UserFacts, Zenon
<1>3. /\ id \in Mm /\ m \in mm_struct /\ m # None /\ SpaceOK(m) /\ Mapped(m)
      /\ Agrees(m, view[id], content) /\ Once(m)
  BY <1>2, LiveFacts, ZenonT(30) DEF SpaceOK
<1>4. f \in Frames
  BY <1>3, Zenon DEF mm_struct, PTE
<1>5. /\ Heap(free, content, mm, view) /\ content \in [Frames -> Contents]
      /\ view \in [Mm -> [Pages -> Contents \cup {None}]] /\ mm \in [Mm -> mm_struct \cup {None}]
      /\ OwnedBy(free, mm)
  BY Zenon DEF IInv, Heap, Table
<1>6. id \in Contents
  BY <1>3, Zenon DEF Contents
<1>7. Begins(S, id) /\ StateIs(S, m)
  BY <1>2, <1>3, BeginsNow, Zenon
<1> HIDE DEF S
<1>8. Held(S, Budget(mm, id)) /\ S \in Op /\ S.m = m /\ S.free = free
  BY <1>7, Zenon DEF Begins, StateIs
<1>9. /\ content' \in [Frames -> Contents] /\ content'[f] = id
      /\ \A g \in Frames \ {f} : content'[g] = content[g]
  BY <1>4, <1>5, <1>6, Zenon
<1>10. /\ Viewed(view, id, view') /\ view'[id][a] = id
       /\ \A b \in Pages \ {a} : view'[id][b] = view[id][b]
  BY <1>3, <1>5, <1>6, ZenonT(30) DEF Viewed
<1>11. T \in Op /\ T.m = m /\ T.free = free /\ T.content = content'
  BY <1>8, <1>9, ZenonT(30) DEF Op
<1> HIDE DEF T
<1>12. Held(T, Budget(mm, id))
  BY <1>8, <1>11, ZenonT(30) DEF Held
<1>13. Kept(mm, id, content, T.content)
  <2>1. Holds(m, f)
    BY Zenon DEF Holds
  <2>2. f \in Budget(mm, id)
    BY <1>2, <1>4, <1>5, <2>1, ZenonT(30) DEF OwnedBy, Budget
  <2> QED BY <1>9, <1>11, <2>2, Zenon DEF Kept
<1>14. Agrees(T.m, view'[id], T.content)
  <2>1. ASSUME NEW b \in Pages, view'[id][b] # None
        PROVE  m.pte[b] # None /\ content'[m.pte[b].f] = view'[id][b]
    <3>1. CASE b = a
      BY <1>9, <1>10, <3>1, Zenon
    <3>2. CASE b # a
      <4>1. view'[id][b] = view[id][b]
        BY <1>10, <3>2, ZenonT(30)
      <4>2. m.pte[b] # None /\ content[m.pte[b].f] = view[id][b]
        BY <1>3, <2>1, <4>1, Zenon DEF Agrees
      <4>3. m.pte[b].f \in Frames
        BY <1>3, <4>2, Zenon DEF mm_struct, PTE
      <4>4. m.pte[b].f # f
        BY <1>3, <3>2, <4>2, ZenonT(30) DEF Once
      <4> QED BY <1>9, <4>1, <4>2, <4>3, <4>4, ZenonT(30)
    <3> QED BY <3>1, <3>2, ZenonT(30)
  <2> QED BY <1>11, <2>1, Zenon DEF Agrees
<1>15. Heap(T.free, T.content, [mm EXCEPT ![id] = T.m], view')
  BY <1>3, <1>5, <1>10, <1>11, <1>12, <1>13, <1>14, HeapPut, Zenon
<1>16. [mm EXCEPT ![id] = T.m] = mm
  BY <1>3, <1>5, <1>11, Zenon
<1>17. Heap(free', content', mm', view')
  BY <1>11, <1>15, <1>16, ZenonT(30)
<1> QED BY <1>17, Zenon DEF IInv, PanicType

\* The exception that an access raises keeps the invariant.
LEMMA TrapInv ==
    ASSUME IInv, NEW p \in Proc, Running(p), NEW a \in Pages, NEW write \in BOOLEAN,
           NEW in_kernel \in BOOLEAN, Trap(p, a, write, in_kernel), UNCHANGED current
    PROVE  IInv'
<1> DEFINE id == proc[p].mm
           m == mm[id]
           S == do_pgfault(m, a, write)
<1>1. proc[p].st = "user" /\ current = p
  BY Zenon DEF Running
<1>2. id \in LiveOf(mm)
  BY <1>1, UserFacts, ZenonT(30)
<1>3. Walked(a) = m.pte[a]
  BY <1>1, <1>2, WalkedIs, Zenon
<1>4. ASSUME do_exit_mm(p), UNCHANGED <<index, panic, view>> PROVE IInv'
  BY <1>1, <1>4, Exits, ZenonT(30)
<1>5. ASSUME panic' \in {"no memory", "unhandled pgfault", "address error"},
             UNCHANGED <<free, content, mm, tlb, proc, current_pgdir, index, view>>
      PROVE  IInv'
  <2>1. PanicType' /\ ProcsOK(proc', mm) /\ TlbType(tlb')
    BY <1>5, Zenon DEF PanicType, IInv
  <2>2. current' \in Proc /\ index' \in Slots
    BY <1>5, Zenon DEF IInv
  <2>3. Translation(proc'[current'], current_pgdir', mm, tlb')
    BY <1>5, Zenon DEF IInv
  <2> QED BY <1>5, <2>1, <2>2, <2>3, ProcInv, ZenonT(30)
<1>6. CASE Lookup(a, write) = "miss" /\ handle_tlbmiss(p, a, write, in_kernel)
  <2>1. CASE m.pte[a] = None
    <3>1. Faulted(id, a, write, S)
      BY <1>2, <2>1, Faults, Zenon
    <3>2. IF S.ok
            THEN Becomes(id, S) /\ UNCHANGED <<proc, current_pgdir, index, panic, view>>
          ELSE IF in_kernel
            THEN /\ panic' = IF S.free = {} THEN "no memory" ELSE "unhandled pgfault"
                 /\ UNCHANGED <<free, content, mm, tlb, proc, current_pgdir, index, view>>
          ELSE do_exit_mm(p) /\ UNCHANGED <<index, panic, view>>
      BY <1>3, <1>6, <2>1, Zenon DEF handle_tlbmiss
    <3> HIDE DEF S
    <3>3. CASE S.ok
      <4>1. Becomes(id, S) /\ UNCHANGED <<proc, current, current_pgdir, index, panic, view>>
        BY <1>1, <3>2, <3>3, Zenon
      <4> QED BY <1>1, <3>1, <3>3, <4>1, FaultInv, SMTT(30)
    <3>4. CASE ~ S.ok /\ in_kernel
      BY <1>5, <3>2, <3>4, Zenon
    <3>5. CASE ~ S.ok /\ ~ in_kernel
      BY <1>4, <3>2, <3>5, Zenon
    <3> QED BY <3>3, <3>4, <3>5, Zenon
  <2>2. CASE m.pte[a] # None
    <3>1. \/ do_exit_mm(p) /\ UNCHANGED <<index, panic, view>>
          \/ tlb_refill(a) /\ UNCHANGED <<free, content, mm, proc, current_pgdir, panic, view>>
      BY <1>3, <1>6, <2>2, ZenonT(30) DEF handle_tlbmiss
    <3>2. Matching(a) = {}
      BY <1>1, <1>2, <1>6, <2>2, Lookups, ZenonT(30)
    <3>3. CASE tlb_refill(a) /\ UNCHANGED <<free, content, mm, proc, current_pgdir, panic, view>>
      BY <1>1, <1>2, <3>2, <3>3, RefillInv, SMTT(30)
    <3> QED BY <1>4, <3>1, <3>3, Zenon
  <2> QED BY <2>1, <2>2, ZenonT(30)
<1>7. CASE /\ Lookup(a, write) = "error"
           /\ IF in_kernel
                THEN /\ panic' = "address error"
                     /\ UNCHANGED <<free, content, mm, tlb, proc, current_pgdir, index, view>>
                ELSE do_exit_mm(p) /\ UNCHANGED <<index, panic, view>>
  BY <1>4, <1>5, <1>7, ZenonT(30)
<1> QED BY <1>6, <1>7, Zenon DEF Trap

\* A store into a page the TLB knows keeps the invariant.
LEMMA StoreInv ==
    ASSUME IInv, NEW p \in Proc, Running(p), NEW a \in Pages, Store(p, a), UNCHANGED current
    PROVE  IInv'
<1> DEFINE m == mm[proc[p].mm]
<1>1. m.pte[a] # None /\ Half(a) = m.pte[a]
  BY Lookups, ZenonT(30) DEF Store
<1>2. content' = [content EXCEPT ![m.pte[a].f] = proc[p].mm]
  BY <1>1, ZenonT(30) DEF Store
<1> QED BY <1>1, <1>2, WriteInv, ZenonT(30) DEF Store

\* A load or store of the program, or for it, keeps the invariant.
LEMMA AccessInv ==
    ASSUME IInv, NEW p \in Proc, NEW a \in Touched, NEW write \in BOOLEAN, NEW in_kernel \in BOOLEAN,
           Access(p, a, write, in_kernel)
    PROVE  IInv'
<1>1. Running(p) /\ UNCHANGED current /\ (Trap(p, a, write, in_kernel) \/ Store(p, a))
  BY Zenon DEF Access, InUser
<1>2. a \in Pages
  BY VmAssumption, ZenonT(30) DEF Pages
<1> QED BY <1>1, <1>2, TrapInv, StoreInv, ZenonT(30)

-----------------------------------------------------------------------------
(* The arguments of a program.                                             *)

Stack == [start |-> UserPages - StackPages, end |-> UserPages, w |-> TRUE, stack |-> TRUE]

\* While arguments are to be written, the process runs in its new address space,
\* which has a stack.
ArgsOK ==
    /\ args \in Seq(Pages)
    /\ args # <<>> => proc[current].st = "user" /\ Stack \in mm[proc[current].mm].vmas

\* The pages of the arguments are user pages.
LEMMA ArgPagesOK ==
    ASSUME NEW argc \in 1..MaxArgs PROVE ArgPages(argc) \in Seq(Pages)
<1>1. UserPages \in Nat /\ argc \in 1..(UserPages - 1)
  BY VmAssumption
<1>2. ASSUME NEW k \in 1..(2 * argc) PROVE UserPages - argc + k \div 2 \in Pages \/ k % 2 # 1
  BY <1>1, <1>2, SMTT(30) DEF Pages
<1>3. UserPages - argc - 1 \in Pages
  BY <1>1 DEF Pages
<1> QED BY <1>1, <1>2, <1>3, SMTT(30) DEF ArgPages

\* A page of the stack lies in a writable area.
LEMMA StackArea ==
    ASSUME IInv, NEW id \in LiveOf(mm), NEW a \in Pages, Stack \in mm[id].vmas,
           ~ (a < UserPages - StackPages)
    PROVE  /\ ~ BadArea(mm[id], a, TRUE)
           /\ mm[id].pte[a] # None => mm[id].pte[a].w
<1> DEFINE m == mm[id]
           v == find_vma(m, a)
<1>1. /\ m \in mm_struct /\ AreasOK(m) /\ TablesOK(m) /\ a \in Nat
  BY LiveFacts, PageNumbers, Zenon DEF SpaceOK
<1>2. FindIs(m, a, v)
  BY <1>1, FindsVma, Zenon
<1>3. BadArea(m, a, TRUE) <=> v = None \/ v.start > a \/ ~ v.w
  BY Zenon DEF BadArea
<1> HIDE DEF v
<1>4. /\ Stack.start = UserPages - StackPages /\ Stack.end = UserPages /\ Stack.w = TRUE
      /\ UserPages \in Nat /\ StackPages \in 1..UserPages /\ a \in 0..(UserPages - 1)
  BY VmAssumption, SMTT(30) DEF Stack, Pages
<1> HIDE DEF Stack
<1>5. \A u \in m.vmas : u.start \in Nat /\ u.end \in Nat
  BY <1>1, SMTT(30) DEF mm_struct, vma_struct
<1>6. In(a, Stack)
  BY <1>4 DEF In
<1>7. v = Stack
  <2>1. v # None /\ v \in m.vmas /\ v.start <= Stack.start /\ a < v.end
    BY <1>2, <1>4, <1>5, SMTT(30) DEF FindIs
  <2>2. ~ Apart(v, Stack)
    BY <1>4, <1>5, <2>1, SMTT(30) DEF Apart
  <2> QED BY <1>1, <2>1, <2>2, ZenonT(30) DEF AreasOK
<1>8. ~ BadArea(m, a, TRUE)
  <2>1. v # None
    BY <1>5, <1>7, NoneFacts, <1>1 DEF mm_struct
  <2> QED BY <1>3, <1>4, <1>7, <2>1
<1>9. ASSUME m.pte[a] # None PROVE m.pte[a].w
  <2>1. PICK u \in m.vmas : In(a, u) /\ (u.w => m.pte[a].w)
    BY <1>1, <1>9, Zenon DEF TablesOK
  <2>2. ~ Apart(u, Stack)
    BY <1>1, <1>5, <1>6, <2>1, SMTT(30) DEF In, Apart
  <2>3. u = Stack
    BY <1>1, <2>2, Zenon DEF AreasOK
  <2> QED BY <1>4, <2>1, <2>3, Zenon
<1> QED BY <1>8, <1>9, Zenon

\* A trap of the kernel in a good area stops it only for want of memory.
LEMMA TrapStops ==
    ASSUME IInv, NEW p \in Proc, Running(p), NEW a \in Pages, NEW write \in BOOLEAN,
           NEW in_kernel \in BOOLEAN, Trap(p, a, write, in_kernel),
           in_kernel => /\ ~ BadArea(mm[proc[p].mm], a, write)
                        /\ mm[proc[p].mm].pte[a] # None /\ write => mm[proc[p].mm].pte[a].w
    PROVE  panic' \in {None, "no memory"}
<1> DEFINE id == proc[p].mm
           m == mm[id]
           S == do_pgfault(m, a, write)
<1>1. proc[p].st = "user" /\ current = p /\ panic = None
  BY Zenon DEF Running
<1>2. id \in LiveOf(mm)
  BY <1>1, UserFacts, ZenonT(30)
<1>3. Walked(a) = m.pte[a]
  BY <1>1, <1>2, WalkedIs, Zenon
<1>4. CASE Lookup(a, write) = "miss" /\ handle_tlbmiss(p, a, write, in_kernel)
  <2>1. \/ panic' = panic
        \/ /\ in_kernel /\ m.pte[a] = None /\ ~ S.ok
           /\ panic' = IF S.free = {} THEN "no memory" ELSE "unhandled pgfault"
    BY <1>3, <1>4, Zenon DEF handle_tlbmiss
  <2>2. ASSUME in_kernel, m.pte[a] = None, ~ S.ok PROVE S.free = {}
    <3>1. Faulted(id, a, write, S)
      BY <1>2, <2>2, Faults, Zenon
    <3> QED BY <2>2, <3>1, Zenon DEF Faulted
  <2> HIDE DEF S
  <2> QED BY <1>1, <2>1, <2>2, Zenon
<1>5. CASE /\ Lookup(a, write) = "error"
           /\ (in_kernel => panic' = "address error") /\ (~ in_kernel => panic' = panic)
  <2>1. m.pte[a] # None /\ write /\ ~ m.pte[a].w
    BY <1>2, <1>5, Lookups, Zenon
  <2> QED BY <1>1, <1>5, <2>1, Zenon
<1> QED BY <1>4, <1>5, Zenon DEF Trap

-----------------------------------------------------------------------------
(* The theorems.                                                           *)

\* Every step keeps the invariant.
LEMMA NextInv == IInv /\ ArgsOK /\ [Next]_vars => IInv'
<1> SUFFICES ASSUME IInv, ArgsOK, [Next]_vars PROVE IInv'
  OBVIOUS
<1>1. CASE UNCHANGED vars
  BY <1>1, Zenon DEF vars, IInv, PanicType
<1>2. CASE Next
  <2>1. ASSUME NEW p \in Proc, NEW q \in Proc, do_fork(p, q) \/ Zombie(p, q) PROVE IInv'
    BY <2>1, ForkInv, ZombieInv, ZenonT(30)
  <2>2. ASSUME NEW p \in Proc, do_exit(p) \/ LoadStart(p) PROVE IInv'
    BY <2>2, ExitInv, LoadStartInv, ZenonT(30)
  <2>3. ASSUME NEW p \in Proc, WriteArg(p) PROVE IInv'
    <3>1. Running(p) /\ UNCHANGED current /\ args # <<>>
          /\ (Trap(p, Head(args), TRUE, TRUE) \/ Store(p, Head(args)))
      BY <2>3, Zenon DEF WriteArg
    <3>2. Head(args) \in Pages
      BY <3>1 DEF ArgsOK
    <3> QED BY <3>1, <3>2, TrapInv, StoreInv, ZenonT(30)
  <2>4. ASSUME NEW p \in Proc, NEW prog \in Programs, do_execve(p, prog) \/ kernel_execve(p, prog)
        PROVE  IInv'
    BY <2>4, ExecveInv, KernelExecveInv, Zenon
  <2>5. ASSUME NEW p \in Proc, NEW fails \in BOOLEAN, NEW argc \in 1..MaxArgs,
               LoadSegment(p, fails) \/ LoadEnd(p, fails, argc)
        PROVE  IInv'
    BY <2>5, LoadSegmentInv, LoadEndInv, ZenonT(30)
  <2>6. ASSUME NEW p \in Proc, NEW a \in Touched, NEW write \in BOOLEAN, NEW in_kernel \in BOOLEAN,
               Access(p, a, write, in_kernel)
        PROVE  IInv'
    BY <2>6, AccessInv, ZenonT(30)
  <2>7. ASSUME NEW q \in Proc, proc_run(q) PROVE IInv'
    BY <2>7, RunInv, Zenon
  <2>8. 1 \in 1..MaxArgs
    BY VmAssumption
  <2> QED BY <1>2, <2>1, <2>2, <2>3, <2>4, <2>5, <2>6, <2>7, <2>8, Zenon DEF Next
<1> QED BY <1>1, <1>2, Zenon

\* A trap of the kernel leaves the process and the areas of its address space.
LEMMA TrapKeepsAreas ==
    ASSUME IInv, NEW p \in Proc, Running(p), NEW a \in Pages, Trap(p, a, TRUE, TRUE)
    PROVE  proc' = proc /\ mm'[proc[p].mm].vmas = mm[proc[p].mm].vmas
<1> DEFINE id == proc[p].mm
           S == do_pgfault(mm[id], a, TRUE)
<1>1. proc[p].st = "user" /\ current = p
  BY Zenon DEF Running
<1>2. id \in LiveOf(mm)
  BY <1>1, UserFacts, ZenonT(30)
<1>3. Walked(a) = mm[id].pte[a]
  BY <1>1, <1>2, WalkedIs, Zenon
<1>4. \/ proc' = proc /\ mm' = mm
      \/ /\ mm[id].pte[a] = None /\ S.ok /\ Becomes(id, S)
         /\ proc' = proc
  BY <1>3, ZenonT(30) DEF Trap, handle_tlbmiss
<1>5. ASSUME mm[id].pte[a] = None PROVE Faulted(id, a, TRUE, S)
  BY <1>2, <1>5, Faults, Zenon
<1> HIDE DEF S
<1>6. ASSUME mm[id].pte[a] = None, S.ok, Becomes(id, S)
      PROVE  mm'[id].vmas = mm[id].vmas
  <2>1. S.m.vmas = mm[id].vmas
    BY <1>5, <1>6, Zenon DEF Faulted
  <2>2. mm' = [mm EXCEPT ![id] = S.m]
    BY <1>6, Zenon DEF Becomes
  <2>3. mm \in [Mm -> mm_struct \cup {None}] /\ id \in Mm
    BY <1>2, Zenon DEF IInv, Heap, Table, LiveOf
  <2> QED BY <2>1, <2>2, <2>3, SMTT(30)
<1> QED BY <1>4, <1>6, Zenon

\* No argument is a list of arguments.
LEMMA NoneArePages == <<>> \in Seq(Pages)
OBVIOUS

\* Nothing is left to write, and the kernel goes on or is out of memory.
LEMMA NoArgs ==
    ASSUME args = <<>>, args' = args, panic' \in {None, "no memory", "assert npage"}
    PROVE  ArgsOK' /\ PanicsOnlyWithoutMemory'
<1>1. args' = <<>>
  BY Zenon
<1> QED BY <1>1, NoneArePages, Zenon DEF ArgsOK, PanicsOnlyWithoutMemory

\* The step that writes an argument panics without memory or below the stack.
LEMMA WriteArgPanics ==
    ASSUME IInv, ArgsOK, NEW p \in Proc, WriteArg(p)
    PROVE  ArgsOK' /\ PanicsOnlyWithoutMemory'
<1> DEFINE a == Head(args)
           id == proc[p].mm
<1>1. Running(p) /\ current' = current /\ current = p /\ panic = None /\ args # <<>>
  BY Zenon DEF WriteArg, Running
<1>2. a \in Pages /\ Tail(args) \in Seq(Pages) /\ args \in Seq(Pages)
  BY <1>1 DEF ArgsOK
<1>3. proc[p].st = "user" /\ Stack \in mm[id].vmas
  BY <1>1, Zenon DEF ArgsOK
<1>4. id \in LiveOf(mm)
  BY <1>1, <1>3, UserFacts, ZenonT(30)
<1> HIDE DEF a
<1>5. CASE Trap(p, a, TRUE, TRUE) /\ args' = args
  <2>1. proc' = proc /\ mm'[id].vmas = mm[id].vmas
    BY <1>1, <1>2, <1>5, TrapKeepsAreas, ZenonT(30)
  <2>2. ArgsOK'
    BY <1>1, <1>2, <1>3, <1>5, <2>1, Zenon DEF ArgsOK
  <2>3. CASE ~ (a < UserPages - StackPages)
    <3>1. ~ BadArea(mm[id], a, TRUE) /\ (mm[id].pte[a] # None => mm[id].pte[a].w)
      BY <1>2, <1>3, <1>4, <2>3, StackArea, Zenon
    <3>2. panic' \in {None, "no memory"}
      BY <1>1, <1>2, <1>5, <3>1, TrapStops, ZenonT(30)
    <3> QED BY <2>2, <3>2, Zenon DEF PanicsOnlyWithoutMemory
  <2>4. CASE a < UserPages - StackPages
    BY <1>1, <1>5, <2>2, <2>4, Zenon DEF PanicsOnlyWithoutMemory, a
  <2> QED BY <2>3, <2>4, Zenon
<1>6. CASE Store(p, a) /\ args' = Tail(args)
  <2>1. proc' = proc /\ mm' = mm /\ panic' = panic
    BY <1>6, Zenon DEF Store
  <2>2. ArgsOK'
    BY <1>1, <1>2, <1>3, <1>6, <2>1, Zenon DEF ArgsOK
  <2> QED BY <1>1, <2>1, <2>2, Zenon DEF PanicsOnlyWithoutMemory
<1> QED BY <1>5, <1>6, Zenon DEF WriteArg, a

\* The end of load_icode: the new address space has its stack.
LEMMA LoadEndArgs ==
    ASSUME IInv, ArgsOK, NEW p \in Proc, NEW fails, NEW argc \in 1..MaxArgs, LoadEnd(p, fails, argc)
    PROVE  ArgsOK' /\ PanicsOnlyWithoutMemory'
<1> DEFINE id == proc[p].load
           S == State([mm[id] EXCEPT !.vmas = @ \cup {Stack}, !.count = 1,
                                     !.cache = Cached(mm[id], find_vma(mm[id], Stack.start)).cache])
<1>1. /\ proc[p].st = "exec" /\ current = p /\ id # None /\ panic = None
      /\ \/ UNCHANGED <<args, panic>>
         \/ /\ Becomes(id, S) /\ proc' = [proc EXCEPT ![p] = Child(id, S.m.pgdir)]
            /\ args' = ArgPages(argc) /\ UNCHANGED <<current, panic>>
  BY SMTT(30) DEF LoadEnd, Loading, LoadFails, Stack
<1>2. args = <<>>
  BY <1>1 DEF ArgsOK
<1>3. CASE UNCHANGED <<args, panic>>
  BY <1>1, <1>2, <1>3, NoArgs, Zenon
<1>4. CASE /\ Becomes(id, S) /\ proc' = [proc EXCEPT ![p] = Child(id, S.m.pgdir)]
           /\ args' = ArgPages(argc) /\ UNCHANGED <<current, panic>>
  <2>1. id \in LiveOf(mm)
    BY <1>1, LoadFacts, ZenonT(30)
  <2>2. mm \in [Mm -> mm_struct \cup {None}] /\ id \in Mm /\ mm[id] \in mm_struct
    BY <2>1, LiveFacts, Zenon DEF IInv, Heap, Table, LiveOf
  <2>3. mm' = [mm EXCEPT ![id] = S.m]
    BY <1>4, Zenon DEF Becomes
  <2>4. Stack \in S.m.vmas
    BY <2>2 DEF State, mm_struct
  <2> HIDE DEF S
  <2>5. Stack \in mm'[id].vmas
    BY <2>2, <2>3, <2>4
  <2>6. proc \in [Proc -> Process]
    BY Zenon DEF IInv, ProcsOK
  <2>7. proc'[p].st = "user" /\ proc'[p].mm = id
    BY <1>4, <2>6 DEF Child
  <2>8. ArgPages(argc) \in Seq(Pages)
    BY ArgPagesOK, Zenon
  <2>9. ArgsOK'
    BY <1>1, <1>4, <2>5, <2>7, <2>8, Zenon DEF ArgsOK
  <2> QED BY <1>1, <1>4, <2>9, Zenon DEF PanicsOnlyWithoutMemory
<1> QED BY <1>1, <1>3, <1>4, ZenonT(30)

\* A load or store of the program, or for it, panics only without memory.
LEMMA AccessPanics ==
    ASSUME IInv, NEW p \in Proc, NEW a \in Touched, NEW write \in BOOLEAN, NEW in_kernel \in BOOLEAN,
           Access(p, a, write, in_kernel)
    PROVE  ArgsOK' /\ PanicsOnlyWithoutMemory'
<1> DEFINE id == proc[p].mm
<1>1. /\ Running(p) /\ args = <<>> /\ args' = args /\ panic = None /\ proc[p].st = "user"
      /\ in_kernel => user_mem_check(mm[id], a, write)
      /\ Trap(p, a, write, in_kernel) \/ Store(p, a)
  BY Zenon DEF Access, InUser, Running
<1>2. a \in Pages
  BY VmAssumption, ZenonT(30) DEF Pages
<1>3. id \in LiveOf(mm)
  BY <1>1, UserFacts, ZenonT(30)
<1>4. in_kernel => ~ BadArea(mm[id], a, write) /\ (mm[id].pte[a] # None /\ write => mm[id].pte[a].w)
  BY <1>1, <1>2, <1>3, CheckedArea, Zenon
<1>5. CASE Trap(p, a, write, in_kernel)
  <2>1. panic' \in {None, "no memory"}
    BY <1>1, <1>2, <1>4, <1>5, TrapStops, ZenonT(30)
  <2> QED BY <1>1, <2>1, NoArgs, Zenon
<1>6. CASE Store(p, a)
  <2>1. panic' = panic
    BY <1>6, Zenon DEF Store
  <2> QED BY <1>1, <2>1, NoArgs, Zenon
<1> QED BY <1>1, <1>5, <1>6, Zenon

\* Every step keeps what is known of the arguments and of panics.
LEMMA NextPanics ==
    IInv /\ ArgsOK /\ PanicsOnlyWithoutMemory /\ [Next]_vars => ArgsOK' /\ PanicsOnlyWithoutMemory'
<1> DEFINE Goal == ArgsOK' /\ PanicsOnlyWithoutMemory'
<1> SUFFICES ASSUME IInv, ArgsOK, PanicsOnlyWithoutMemory, [Next]_vars PROVE Goal
  OBVIOUS
<1>1. CASE UNCHANGED vars
  BY <1>1, Zenon DEF vars, ArgsOK, PanicsOnlyWithoutMemory
<1>2. CASE Next
  <2>1. ASSUME args = <<>> \/ proc[current].st # "user", UNCHANGED <<args, panic>>, panic = None PROVE Goal
    BY <2>1, NoArgs, Zenon DEF ArgsOK
  <2>2. ASSUME NEW p \in Proc, NEW q \in Proc, do_fork(p, q) \/ Zombie(p, q) PROVE Goal
    <3>1. CASE do_fork(p, q)
      <4>1. args = <<>> /\ args' = args /\ panic = None
        BY <3>1, Zenon DEF do_fork, InUser, Running
      <4>2. panic' = panic \/ panic' = "assert npage"
        BY <3>1, ZenonT(30) DEF do_fork, ForkShare, ForkCopy
      <4> QED BY <4>1, <4>2, NoArgs, Zenon
    <3>2. CASE Zombie(p, q)
      <4>1. proc[current].st = "exiting" /\ panic = None /\ UNCHANGED <<args, panic>>
        BY <3>2, Zenon DEF Zombie
      <4>2. proc[current].st # "user"
        BY <4>1
      <4> QED BY <2>1, <4>1, <4>2, Zenon
    <3> QED BY <2>2, <3>1, <3>2, Zenon
  <2>3. ASSUME NEW p \in Proc, do_exit(p) \/ LoadStart(p) \/ WriteArg(p) PROVE Goal
    <3>1. CASE do_exit(p)
      <4>1. args = <<>> /\ panic = None /\ UNCHANGED <<args, panic>>
        BY <3>1, Zenon DEF do_exit, InUser, Running
      <4> QED BY <2>1, <4>1, Zenon
    <3>2. CASE LoadStart(p)
      <4>1. proc[current].st = "exec" /\ panic = None /\ UNCHANGED <<args, panic>>
        BY <3>2, Zenon DEF LoadStart, Loading
      <4>2. proc[current].st # "user"
        BY <4>1
      <4> QED BY <2>1, <4>1, <4>2, Zenon
    <3> QED BY <2>3, <3>1, <3>2, WriteArgPanics, ZenonT(30)
  <2>4. ASSUME NEW p \in Proc, NEW prog \in Programs, do_execve(p, prog) \/ kernel_execve(p, prog)
        PROVE  Goal
    <3>1. CASE do_execve(p, prog)
      <4>1. args = <<>> /\ panic = None /\ UNCHANGED <<args, panic>>
        BY <3>1, Zenon DEF do_execve, InUser, Running
      <4> QED BY <2>1, <4>1, Zenon
    <3>2. CASE kernel_execve(p, prog)
      <4>1. /\ current = Idle /\ p # Idle /\ panic = None /\ UNCHANGED <<args, panic, mm, current>>
            /\ proc' = [proc EXCEPT ![p] = [Child(None, Boot) EXCEPT !.st = "exec", !.prog = prog]]
        BY <3>2, Zenon DEF kernel_execve
      <4>2. proc \in [Proc -> Process] /\ current \in Proc
        BY Zenon DEF IInv, ProcsOK
      <4>3. proc'[current] = proc[current]
        BY <4>1, <4>2
      <4> QED BY <4>1, <4>3, Zenon DEF ArgsOK, PanicsOnlyWithoutMemory
    <3> QED BY <2>4, <3>1, <3>2, Zenon
  <2>5. ASSUME NEW p \in Proc, NEW fails \in BOOLEAN, LoadSegment(p, fails) PROVE Goal
    <3>1. proc[current].st = "exec" /\ panic = None /\ UNCHANGED <<args, panic>>
      BY <2>5, ZenonT(30) DEF LoadSegment, Loading, LoadFails
    <3>2. proc[current].st # "user"
      BY <3>1
    <3> QED BY <2>1, <3>1, <3>2, Zenon
  <2>6. ASSUME NEW p \in Proc, NEW fails \in BOOLEAN, NEW argc \in 1..MaxArgs, LoadEnd(p, fails, argc)
        PROVE  Goal
    BY <2>6, LoadEndArgs, ZenonT(30)
  <2>7. ASSUME NEW p \in Proc, NEW a \in Touched, NEW write \in BOOLEAN, NEW in_kernel \in BOOLEAN,
               Access(p, a, write, in_kernel)
        PROVE  Goal
    BY <2>7, AccessPanics, ZenonT(30)
  <2>8. ASSUME NEW q \in Proc, proc_run(q) PROVE Goal
    <3>1. args = <<>> /\ panic = None /\ UNCHANGED <<args, panic>>
      BY <2>8, Zenon DEF proc_run
    <3> QED BY <2>1, <3>1, Zenon
  <2> HIDE DEF Goal
  <2> QED BY <1>2, <2>2, <2>3, <2>4, <2>5, <2>6, <2>7, <2>8, ZenonT(30) DEF Next
<1> QED BY <1>1, <1>2, Zenon

\* The invariant, and with it what is known of the arguments and of panics,
\* holds in every state that fork, exit, execve, page faults and context
\* switches reach.
THEOREM Invariant == Spec => [](IInv /\ ArgsOK /\ PanicsOnlyWithoutMemory)
<1>1. Init => ArgsOK /\ PanicsOnlyWithoutMemory
  BY DEF Init, ArgsOK, PanicsOnlyWithoutMemory
<1> QED BY <1>1, InitInv, NextInv, NextPanics, PTL DEF Spec

\* No page is lost or used twice (FramesAccounted), for any number of physical
\* pages, processes, programs and areas.
THEOREM AllFramesAccounted == Spec => []FramesAccounted
<1> QED BY Invariant, Accounted, PTL

\* While a process runs in user mode the TLB says what its own page tables say
\* (TlbCoherent), whatever has been freed, shared or switched.
THEOREM AlwaysTlbCoherent == Spec => []TlbCoherent
<1> QED BY Invariant, Coherent, PTL

\* Every address space reads back what was last written in it (ReadsOwnWrites),
\* across copies by fork.
THEOREM AlwaysReadsOwnWrites == Spec => []ReadsOwnWrites
<1>1. IInv => ReadsOwnWrites
  <2>1. Live = LiveOf(mm)
    BY ZenonT(30) DEF Live, LiveOf
  <2> QED BY <2>1, Zenon DEF IInv, Heap, SpacesOK, Agrees, ReadsOwnWrites
<1> QED BY <1>1, Invariant, PTL

\* Areas are disjoint and hold all that is mapped, and an mm lives as long as
\* its count says that it is used (AreasSound).
THEOREM AlwaysAreasSound == Spec => []AreasSound
<1>1. IInv => AreasSound
  <2> SUFFICES ASSUME IInv PROVE AreasSound
    OBVIOUS
  <2>1. Live = LiveOf(mm)
    BY Zenon DEF Live, LiveOf
  <2>2. ASSUME NEW m \in Live
        PROVE  /\ \A v \in mm[m].vmas : Fits([mm[m] EXCEPT !.vmas = @ \ {v}], v)
               /\ \A a \in Pages : mm[m].pte[a] # None => \E v \in mm[m].vmas : v.start <= a /\ a < v.end
    <3>1. mm[m] \in mm_struct /\ AreasOK(mm[m]) /\ TablesOK(mm[m])
      BY <2>1, LiveFacts, ZenonT(30) DEF SpaceOK
    <3>2. ASSUME NEW v \in mm[m].vmas PROVE Fits([mm[m] EXCEPT !.vmas = @ \ {v}], v)
      <4>1. [mm[m] EXCEPT !.vmas = @ \ {v}].vmas = mm[m].vmas \ {v}
        BY <3>1 DEF mm_struct
      <4>2. v.start < v.end /\ \A u \in mm[m].vmas \ {v} : u.end <= v.start \/ v.end <= u.start
        BY <3>1, ZenonT(30) DEF AreasOK, Apart
      <4> QED BY <4>1, <4>2, ZenonT(30) DEF Fits
    <3>3. \A a \in Pages : mm[m].pte[a] # None => \E v \in mm[m].vmas : v.start <= a /\ a < v.end
      BY <3>1, Zenon DEF TablesOK, In
    <3> QED BY <3>2, <3>3, ZenonT(30)
  <2>3. \A m \in Live : CountOK(proc, mm, m)
    BY <2>1, ZenonT(30) DEF IInv, ProcsOK
  <2>4. \A p \in Proc : proc[p].mm # None => proc[p].mm \in Live
    BY <2>1, ZenonT(30) DEF IInv, ProcsOK, ProcOK
  <2> QED BY <2>2, <2>3, <2>4, ZenonT(30) DEF AreasSound, CountOK, UsersOf
<1> QED BY <1>1, Invariant, PTL

\* The kernel stops only for want of memory, and where load_icode writes
\* arguments below the stack (PanicsOnlyWithoutMemory): every other access that
\* it makes for a process, after user_mem_check or for an argument that has its
\* page on the stack, is served or finds no free page.
THEOREM AlwaysPanicsOnlyWithoutMemory == Spec => []PanicsOnlyWithoutMemory
<1> QED BY Invariant, PTL
=============================================================================
