---------------------------- MODULE VmInvariant -----------------------------
(***************************************************************************)
(* The inductive invariant of Vm, what it says of the physical pages, the  *)
(* TLB and page faults, and the steps of exit, execve, the scheduler and   *)
(* fork, which keep it.                                                    *)
(***************************************************************************)
EXTENDS VmLemmas

(* The inductive invariant.                                                *)

Entry == [vpn : Nat \cup {None}, half : (PTE \cup {None}) \X (PTE \cup {None})]
TlbType(tl) == tl \in [Slots -> Entry]

\* The TLB says what the tables of m say, and says it once.
TlbExact(m, tl) ==
    /\ \A a \in Pages, s \in Slots : tl[s].vpn = VPN2(a) => tl[s].half[(a % 2) + 1] = m.pte[a]
    /\ \A s, t \in Slots : tl[s].vpn # None /\ tl[s].vpn = tl[t].vpn => s = t

\* The running process r is translated by its own tables; the TLB is empty when
\* load_icode has mapped a page.
Translation(r, pgdir, M, tl) ==
    /\ r.st = "user" => pgdir = M[r.mm].pgdir /\ TlbExact(M[r.mm], tl)
    /\ r.load # None /\ r.seg > 1 => tl = Flushed

\* Why the kernel can have stopped.
PanicType == panic \in {None, "no memory", "assert npage", "unhandled pgfault", "address error"}

IInv ==
    /\ Heap(free, content, mm, view)
    /\ ProcsOK(proc, mm)
    /\ current \in Proc /\ TlbType(tlb) /\ index \in Slots
    /\ Translation(proc[current], current_pgdir, mm, tlb)
    /\ PanicType

\* An empty TLB says nothing wrong.
LEMMA FlushedFacts ==
    TlbType(Flushed) /\ \A m : TlbExact(m, Flushed)
<1>1. TlbType(Flushed)
  BY DEF TlbType, Flushed, Entry
<1>2. \A s \in Slots : Flushed[s].vpn = None
  BY DEF Flushed
<1>3. \A a \in Pages : VPN2(a) # None
  <2>1. \A a \in Pages : VPN2(a) \in Nat
    BY PageNumbers DEF VPN2
  <2> QED BY <2>1, NoneFacts, Zenon
<1>4. \A m : TlbExact(m, Flushed)
  BY <1>2, <1>3, Zenon DEF TlbExact
<1> QED BY <1>1, <1>4, Zenon

\* What the invariant says of a live address space.
LEMMA LiveFacts ==
    ASSUME IInv, NEW id \in LiveOf(mm)
    PROVE  /\ id \in Mm /\ mm[id] \in mm_struct /\ mm[id] # None
           /\ SpaceOK(mm[id]) /\ Mapped(mm[id]) /\ Agrees(mm[id], view[id], content)
<1>1. SpaceOK(mm[id]) /\ Mapped(mm[id]) /\ Agrees(mm[id], view[id], content)
  BY Zenon DEF IInv, Heap, SpacesOK
<1> QED BY <1>1, Zenon DEF LiveOf, SpaceOK

StateIs(S, m) ==
    /\ S \in Op /\ S.free = free /\ S.content = content /\ S.m = m
    /\ S.flush = FALSE /\ S.ok = TRUE /\ S.panic = FALSE

\* The fields an operation starts from.
LEMMA StateFields ==
    ASSUME IInv, NEW m \in mm_struct PROVE StateIs(State(m), m)
<1>1. free \subseteq Frames /\ content \in [Frames -> Contents]
  BY Zenon DEF IInv, Heap
<1> QED BY <1>1 DEF StateIs, State, Op

\* The start of an operation on the address space id.
Begins(S, id) == Held(S, Budget(mm, id)) /\ Kept(mm, id, content, S.content)

\* An operation on a live address space starts from a sound state.
LEMMA BeginsNow ==
    ASSUME IInv, NEW id \in LiveOf(mm), NEW n, SpaceOK(n), \A f : Holds(n, f) <=> Holds(mm[id], f)
    PROVE  Begins(State(n), id) /\ StateIs(State(n), n)
<1>1. StateIs(State(n), n)
  BY StateFields, Zenon DEF SpaceOK
<1>2. Held(State(n), Budget(mm, id))
  BY <1>1, HeldNow DEF IInv, Heap, StateIs
<1>3. Kept(mm, id, content, State(n).content)
  BY <1>1, Zenon DEF StateIs, Kept
<1> QED BY <1>1, <1>2, <1>3, Zenon DEF Begins

\* Nobody else uses the address space that load_icode makes.
LEMMA LoadFacts ==
    ASSUME IInv, NEW p \in Proc, proc[p].load # None
    PROVE  /\ proc[p].load \in LiveOf(mm) /\ proc[p].st = "exec" /\ proc[p].mm = None
           /\ mm[proc[p].load].count = 0 /\ proc[p].prog \in Programs
           /\ \A q \in Proc : proc[q].mm # proc[p].load
           /\ \A q \in Proc \ {p} : proc[q].load # proc[p].load
<1>1. ProcOK(proc[p], mm) /\ LoadsOnce(proc)
  BY Zenon DEF IInv, ProcsOK
<1>2. /\ proc[p].load \in LiveOf(mm) /\ proc[p].st = "exec" /\ mm[proc[p].load].count = 0
      /\ proc[p].prog \in Programs
  BY <1>1, Zenon DEF ProcOK
<1>3. proc[p].mm = None
  BY <1>1, <1>2 DEF ProcOK
<1>4. CountOK(proc, mm, proc[p].load)
  BY <1>2, Zenon DEF IInv, ProcsOK
<1>5. Cardinality(UsersOf(proc, proc[p].load)) = 0
  BY <1>2, <1>4, Zenon DEF CountOK
<1>6. UsersOf(proc, proc[p].load) = {}
  BY <1>5, UsersFinite, FS_EmptySet, Zenon
<1>7. \A q \in Proc : proc[q].mm # proc[p].load
  BY <1>6, Zenon DEF UsersOf
<1>8. \A q \in Proc \ {p} : proc[q].load # proc[p].load
  BY <1>1, Zenon DEF LoadsOnce
<1> QED BY <1>2, <1>3, <1>7, <1>8, Zenon

\* A process in user mode and its address space.
LEMMA UserFacts ==
    ASSUME IInv, NEW p \in Proc, proc[p].st = "user"
    PROVE  /\ proc[p].mm \in LiveOf(mm) /\ proc[p].mm # None /\ proc[p].load = None
           /\ proc[p].cr3 = mm[proc[p].mm].pgdir
           /\ mm[proc[p].mm].count \in Nat \ {0}
           /\ mm[proc[p].mm].count = Cardinality(UsersOf(proc, proc[p].mm))
           /\ \A q \in Proc : proc[q].load # proc[p].mm
<1>1. ProcOK(proc[p], mm) /\ LoadsOnce(proc)
  BY Zenon DEF IInv, ProcsOK
<1>2. proc[p].mm # None /\ proc[p].mm \in LiveOf(mm) /\ proc[p].cr3 = mm[proc[p].mm].pgdir
  BY <1>1, Zenon DEF ProcOK
<1>3. proc[p].load = None
  BY <1>1 DEF ProcOK
<1>4. CountOK(proc, mm, proc[p].mm)
  BY <1>2, Zenon DEF IInv, ProcsOK
<1>5. p \in UsersOf(proc, proc[p].mm)
  BY Zenon DEF UsersOf
<1>6. Cardinality(UsersOf(proc, proc[p].mm)) # 0 /\ Cardinality(UsersOf(proc, proc[p].mm)) \in Nat
  BY <1>5, UsersFinite, FS_EmptySet, Zenon
<1>7. mm[proc[p].mm].count = Cardinality(UsersOf(proc, proc[p].mm))
  BY <1>4, Zenon DEF CountOK
<1>8. mm[proc[p].mm].count \in Nat \ {0}
  BY <1>6, <1>7
<1>9. ASSUME NEW q \in Proc, proc[q].load = proc[p].mm PROVE FALSE
  <2>1. ProcOK(proc[q], mm) /\ proc[q].load # None
    BY <1>2, <1>9, Zenon DEF IInv, ProcsOK
  <2>2. mm[proc[q].load].count = 0
    BY <2>1, Zenon DEF ProcOK
  <2> QED BY <1>8, <1>9, <2>2, Zenon
<1> QED BY <1>2, <1>3, <1>7, <1>8, <1>9, Zenon
-----------------------------------------------------------------------------
(* do_exit and do_execve give up the address space.                        *)

\* The heap and the processes, when the address space id has become T.m.
After(T, id, Q, W) ==
    /\ Heap(T.free, T.content, [mm EXCEPT ![id] = T.m], W)
    /\ ProcsOK(Q, [mm EXCEPT ![id] = T.m])
    /\ T.flush \in BOOLEAN

\* A process gives its address space up: the last user frees it (mm_count_dec).
LEMMA DropsUser ==
    ASSUME IInv, NEW p \in Proc, proc[p].st = "user", NEW r, NEW Q, PutProc(proc, p, r, Q),
           r.mm = None, r.load = None, r.st # "user", r.st = "exec" => r.prog \in Programs
    PROVE  After(Dropped(proc[p].mm), proc[p].mm, Q, view)
<1> DEFINE id == proc[p].mm
           m == mm[id]
           n == [m EXCEPT !.count = @ - 1]
           S == State(n)
           T == Dropped(id)
           N == [mm EXCEPT ![id] = T.m]
<1>1. id \in LiveOf(mm) /\ id # None /\ m.count \in Nat \ {0}
      /\ m.count = Cardinality(UsersOf(proc, id)) /\ \A q \in Proc : proc[q].load # id
  BY UserFacts, Zenon
<1>2. /\ id \in Mm /\ m \in mm_struct /\ m # None /\ SpaceOK(m) /\ Mapped(m)
      /\ Agrees(m, view[id], content)
  BY <1>1, LiveFacts, Zenon
<1>3. Heap(free, content, mm, view) /\ ProcsOK(proc, mm)
  BY ZenonT(30) DEF IInv
<1>4. Similar(m, n) /\ n.count = m.count - 1
  <2>1. m.cache \in m.vmas \cup {None}
    BY <1>2, Zenon DEF SpaceOK, AreasOK
  <2> QED BY <1>1, <1>2, <2>1 DEF mm_struct, Similar
<1>5. Cardinality(UsersOf(Q, id)) = m.count - 1
  BY <1>1, UserLeft
<1>6. T = IF S.m.count = 0 THEN Destroyed(S) ELSE S
  BY Zenon DEF Dropped
<1>7. /\ SpaceOK(n) /\ (\A f : Holds(n, f) <=> Holds(m, f)) /\ Mapped(n)
      /\ Agrees(n, view[id], content)
  <2> HIDE DEF n
  <2> QED BY <1>2, <1>4, SimilarOK, ZenonT(30)
<1> HIDE DEF n
<1>8. Begins(S, id) /\ StateIs(S, n)
  BY <1>1, <1>7, BeginsNow
<1> HIDE DEF S, T
<1>9. S.m = n /\ S.content = content /\ S.flush = FALSE
  BY <1>8, Zenon DEF StateIs
<1>10. ~ (r.mm # None) /\ ProcOK(r, N)
  BY Zenon DEF ProcOK
<1>11. CASE m.count - 1 = 0
  <2>1. T = Destroyed(S)
    BY <1>4, <1>6, <1>9, <1>11
  <2>2. Gone(S, T, Budget(mm, id))
    BY <1>8, <2>1, DestroysAll, ZenonT(30) DEF Begins
  <2>3. Heap(T.free, T.content, N, view)
    BY <1>2, <1>3, <1>8, <2>2, HeapDrop DEF Begins
  <2>4. T.m = None /\ T.flush \in BOOLEAN
    BY <2>2, Zenon DEF Gone
  <2>5. Put(mm, id, None, N)
    BY <1>2, <1>3, <2>4, PutIn DEF Heap
  <2>6. UsersOf(Q, id) = {}
    BY <1>5, <1>11, UsersFinite, FS_EmptySet
  <2>7. \A q \in Proc \ {p} : proc[q].mm # id
    BY <2>6, Zenon DEF UsersOf, PutProc
  <2>8. proc[p].load = None
    BY UserFacts, Zenon
  <2>9. Follow(proc, p, r, mm, id, None)
    BY <1>1, <2>7, <2>8, Zenon DEF Follow
  <2>10. ProcsOK(Q, N)
    <3> HIDE DEF N
    <3> QED BY <1>2, <1>3, <1>10, <2>5, <2>9, ProcsPut, SMTT(30)
  <2>11. After(T, id, Q, view)
    BY <2>3, <2>4, <2>10, Zenon DEF After
  <2> QED BY <2>11, Zenon DEF T
<1>12. CASE m.count - 1 # 0
  <2>1. T = S
    BY <1>4, <1>6, <1>9, <1>12, Zenon
  <2>2. T.m = n /\ T.content = content /\ T.flush = FALSE
    BY <1>9, <2>1, Zenon
  <2>3. Viewed(view, id, view)
    BY <1>3, Zenon DEF Viewed, Heap
  <2>4. Heap(T.free, T.content, N, view)
    BY <1>2, <1>3, <1>7, <1>8, <2>1, <2>2, <2>3, HeapPut, SMTT(30) DEF Begins
  <2>5. n \in mm_struct /\ n # None /\ n.pgdir = m.pgdir
    BY <1>4, NoneFacts, Zenon DEF Similar
  <2>6. Put(mm, id, n, N)
    BY <1>2, <1>3, <2>2, <2>5, PutIn, SMTT(30) DEF Heap
  <2>7. proc[p].load = None
    BY UserFacts, Zenon
  <2>8. Follow(proc, p, r, mm, id, n)
    BY <1>1, <2>5, <2>7, ZenonT(30) DEF Follow
  <2>9. CountOK(Q, N, id)
    BY <1>4, <1>5, <1>12, <2>6, Zenon DEF CountOK, Put
  <2>10. ProcsOK(Q, N)
    <3> HIDE DEF N
    <3> QED BY <1>2, <1>3, <1>10, <2>6, <2>8, <2>9, ProcsPut, SMTT(30)
  <2>11. After(T, id, Q, view)
    BY <2>2, <2>4, <2>10, Zenon DEF After
  <2> QED BY <2>11, Zenon DEF T
<1> QED BY <1>1, <1>11, <1>12

-----------------------------------------------------------------------------

(* What the invariant says at the start, and of pages, TLB and faults.     *)

\* The machine starts in the invariant.
LEMMA InitInv == Init => IInv
<1> SUFFICES ASSUME Init PROVE IInv
  OBVIOUS
<1>1. /\ \A m \in Mm : mm[m] = None
      /\ mm \in [Mm -> mm_struct \cup {None}]
  BY DEF Init
<1>2. LiveOf(mm) = {}
  BY <1>1, Zenon DEF LiveOf
<1>3. Heap(free, content, mm, view)
  <2>1. "junk" \in Contents
    BY DEF Contents
  <2>2. content \in [Frames -> Contents] /\ view \in [Mm -> [Pages -> Contents \cup {None}]]
    BY <2>1 DEF Init
  <2>3. free = Frames /\ Table(mm)
    BY <1>1, Zenon DEF Init, Table
  <2>4. OwnedBy(free, mm)
    BY <1>2, <2>3, Zenon DEF OwnedBy
  <2>5. SpacesOK(mm, view, content)
    BY <1>2, Zenon DEF SpacesOK
  <2> QED BY <2>2, <2>3, <2>4, <2>5, Zenon DEF Heap
<1>4. ProcsOK(proc, mm)
  <2>1. /\ proc \in [Proc -> Process]
        /\ \A p \in Proc : /\ proc[p].mm = None /\ proc[p].load = None
                           /\ proc[p].st # "user" /\ proc[p].st # "exec"
    BY DEF Init, Process
  <2>2. \A p \in Proc : ProcOK(proc[p], mm)
    BY <2>1, Zenon DEF ProcOK
  <2>3. LoadsOnce(proc)
    BY <2>1, Zenon DEF LoadsOnce
  <2> QED BY <1>2, <2>1, <2>2, <2>3, Zenon DEF ProcsOK
<1>5. current \in Proc /\ TlbType(tlb) /\ PanicType
  BY VmAssumption, FlushedFacts, Zenon DEF Init, PanicType
<1>6. index \in Slots
  <2>1. Slots = 0..(Cardinality(Slots) - 1) /\ Slots # {} /\ Cardinality(Slots) \in Nat
    BY VmAssumption, FS_CardinalityType, Zenon
  <2>2. 0 \in Slots
    BY <2>1
  <2> QED BY <2>2, Zenon DEF Init
<1>7. Translation(proc[current], current_pgdir, mm, tlb)
  <2>1. proc[current].st = "kernel" /\ proc[current].load = None
    BY VmAssumption DEF Init
  <2> QED BY <2>1 DEF Translation
<1> QED BY <1>3, <1>4, <1>5, <1>6, <1>7, Zenon DEF IInv

\* u is a place of the address space m that holds the page f.
At(u, m, f) ==
    \/ u = <<m, "dir", 0>> /\ f = mm[m].pgdir
    \/ \E t \in Tables : u = <<m, "table", t>> /\ mm[m].pt[t] # None /\ f = mm[m].pt[t]
    \/ \E a \in Pages : u = <<m, "page", a>> /\ mm[m].pte[a] # None /\ f = mm[m].pte[a].f

\* The places that hold a page frame, one by one.
LEMMA PlacesAt ==
    ASSUME IInv
    PROVE  /\ \A u \in Used : \E m \in Live : At(u, m, FrameAt(u))
           /\ \A m \in Live : \A u, f : At(u, m, f) => u \in Used /\ FrameAt(u) = f /\ f \in Frames
<1>1. Live = LiveOf(mm)
  BY Zenon DEF Live, LiveOf
<1>2. ASSUME NEW m \in Live
      PROVE  /\ mm[m].pgdir \in Frames /\ mm[m].pgdir # None
             /\ \A t \in Tables : mm[m].pt[t] # None => mm[m].pt[t] \in Frames
             /\ \A a \in Pages : mm[m].pte[a] # None =>
                  mm[m].pte[a].f \in Frames /\ mm[m].pte[a].f # None
  <2>1. mm[m] \in mm_struct
    BY <1>1, LiveFacts, Zenon
  <2> QED BY <2>1, NoneFacts DEF mm_struct, PTE
<1>3. ASSUME NEW m \in Live PROVE FrameAt(<<m, "dir", 0>>) = mm[m].pgdir
  BY DEF FrameAt
<1>4. ASSUME NEW m \in Live, NEW t \in Tables PROVE FrameAt(<<m, "table", t>>) = mm[m].pt[t]
  BY DEF FrameAt
<1>5. ASSUME NEW m \in Live, NEW a \in Pages
      PROVE  FrameAt(<<m, "page", a>>) = IF mm[m].pte[a] = None THEN None ELSE mm[m].pte[a].f
  BY DEF FrameAt
<1>6. ASSUME NEW u \in Used PROVE \E m \in Live : At(u, m, FrameAt(u))
  <2>1. u \in Places /\ FrameAt(u) # None
    BY Zenon DEF Used
  <2>2. ASSUME NEW m \in Live, u = <<m, "dir", 0>> PROVE At(u, m, FrameAt(u))
    BY <1>3, <2>2, Zenon DEF At
  <2>3. ASSUME NEW m \in Live, NEW t \in Tables, u = <<m, "table", t>> PROVE At(u, m, FrameAt(u))
    BY <1>4, <2>1, <2>3, Zenon DEF At
  <2>4. ASSUME NEW m \in Live, NEW a \in Pages, u = <<m, "page", a>> PROVE At(u, m, FrameAt(u))
    <3>1. mm[m].pte[a] # None /\ FrameAt(u) = mm[m].pte[a].f
      BY <1>5, <2>1, <2>4, Zenon
    <3> QED BY <2>4, <3>1, Zenon DEF At
  <2>5. \/ \E m \in Live : u = <<m, "dir", 0>>
        \/ \E m \in Live, t \in Tables : u = <<m, "table", t>>
        \/ \E m \in Live, a \in Pages : u = <<m, "page", a>>
    BY <2>1 DEF Places
  <2> QED BY <2>2, <2>3, <2>4, <2>5, Zenon
<1>7. ASSUME NEW m \in Live, NEW u, NEW f, At(u, m, f)
      PROVE  u \in Used /\ FrameAt(u) = f /\ f \in Frames
  <2>1. CASE u = <<m, "dir", 0>> /\ f = mm[m].pgdir
    <3>1. u \in Places
      BY <2>1 DEF Places
    <3> QED BY <1>2, <1>3, <2>1, <3>1, Zenon DEF Used
  <2>2. ASSUME NEW t \in Tables, u = <<m, "table", t>>, mm[m].pt[t] # None, f = mm[m].pt[t]
        PROVE  u \in Used /\ FrameAt(u) = f /\ f \in Frames
    <3>1. u \in Places
      BY <2>2 DEF Places
    <3> QED BY <1>2, <1>4, <2>2, <3>1, Zenon DEF Used
  <2>3. ASSUME NEW a \in Pages, u = <<m, "page", a>>, mm[m].pte[a] # None, f = mm[m].pte[a].f
        PROVE  u \in Used /\ FrameAt(u) = f /\ f \in Frames
    <3>1. u \in Places
      BY <2>3 DEF Places
    <3> QED BY <1>2, <1>5, <2>3, <3>1, ZenonT(30) DEF Used
  <2> QED BY <1>7, <2>1, <2>2, <2>3, ZenonT(30) DEF At
<1> QED BY <1>6, <1>7, Zenon

\* The invariant accounts for every frame.
LEMMA Accounted == IInv => FramesAccounted
<1> SUFFICES ASSUME IInv PROVE FramesAccounted
  OBVIOUS
<1> DEFINE B == Frames \ free
           F == [u \in Used |-> FrameAt(u)]
<1>1. Live = LiveOf(mm) /\ free \subseteq Frames /\ OwnedBy(free, mm)
  BY Zenon DEF IInv, Heap, Live, LiveOf
<1>2. \A m, u, f : At(u, m, f) => Holds(mm[m], f)
  BY Zenon DEF At, Holds
<1>3. ASSUME NEW u \in Used PROVE FrameAt(u) \in B
  <2>1. PICK m \in Live : At(u, m, FrameAt(u))
    BY PlacesAt, Zenon
  <2>2. FrameAt(u) \in Frames /\ Holds(mm[m], FrameAt(u))
    BY <1>2, <2>1, PlacesAt, Zenon
  <2> QED BY <1>1, <2>2, Zenon DEF OwnedBy
<1>4. ASSUME NEW f \in B PROVE \E u \in Used : FrameAt(u) = f
  <2>1. PICK m \in Live : Holds(mm[m], f)
    BY <1>1, Zenon DEF OwnedBy
  <2>2. \E u : At(u, m, f)
    BY <2>1, Zenon DEF Holds, At
  <2> QED BY <2>2, PlacesAt, Zenon
<1>5. ASSUME NEW u \in Used, NEW w \in Used, FrameAt(u) = FrameAt(w) PROVE u = w
  <2> DEFINE f == FrameAt(u)
  <2>1. PICK m \in Live : At(u, m, f)
    BY PlacesAt, Zenon
  <2>2. PICK n \in Live : At(w, n, f)
    BY <1>5, PlacesAt, Zenon
  <2>3. f \in Frames /\ Holds(mm[m], f) /\ Holds(mm[n], f)
    BY <1>2, <2>1, <2>2, PlacesAt, Zenon
  <2>4. m = n
    BY <1>1, <2>3, Zenon DEF OwnedBy
  <2>5. SpaceOK(mm[m])
    BY <1>1, LiveFacts, ZenonT(30)
  <2>6. /\ \A t \in Tables : mm[m].pt[t] # mm[m].pgdir
        /\ \A a \in Pages : mm[m].pte[a] # None => mm[m].pte[a].f # mm[m].pgdir
        /\ \A a \in Pages, t \in Tables : mm[m].pte[a] # None => mm[m].pte[a].f # mm[m].pt[t]
        /\ \A t, x \in Tables : mm[m].pt[t] # None /\ mm[m].pt[t] = mm[m].pt[x] => t = x
        /\ \A a, b \in Pages : mm[m].pte[a] # None /\ mm[m].pte[b] # None
                               /\ mm[m].pte[a].f = mm[m].pte[b].f => a = b
    BY <2>5 DEF SpaceOK, Once
  <2> HIDE DEF f
  <2>7. CASE u = <<m, "dir", 0>> /\ f = mm[m].pgdir
    BY <2>2, <2>4, <2>6, <2>7, Zenon DEF At
  <2>8. ASSUME NEW t \in Tables, u = <<m, "table", t>>, mm[m].pt[t] # None, f = mm[m].pt[t]
        PROVE  u = w
    BY <2>2, <2>4, <2>6, <2>8, Zenon DEF At
  <2>9. ASSUME NEW a \in Pages, u = <<m, "page", a>>, mm[m].pte[a] # None, f = mm[m].pte[a].f
        PROVE  u = w
    BY <2>2, <2>4, <2>6, <2>9, Zenon DEF At
  <2> QED BY <2>1, <2>7, <2>8, <2>9, Zenon DEF At
<1>6. { FrameAt(u) : u \in Used } = B
  BY <1>3, <1>4, Zenon
<1>7. Cardinality(Used) = Cardinality(B)
  <2>1. IsFiniteSet(B)
    BY VmAssumption, FS_Subset, Zenon
  <2>2. F \in [Used -> B] /\ (\A u \in Used : F[u] = FrameAt(u)) /\ DOMAIN F = Used
    BY <1>3, Zenon
  <2> HIDE DEF F, B
  <2>3. F \in Injection(Used, B)
    BY <1>5, <2>2, Zenon DEF Injection, IsInjective
  <2>4. F \in Surjection(Used, B)
    BY <1>4, <2>2, Zenon DEF Surjection
  <2> QED BY <2>1, <2>3, <2>4, FS_Injection, Zenon
<1> QED BY <1>6, <1>7, Zenon DEF FramesAccounted

\* The pages of one entry.
LEMMA Halves ==
    ASSUME NEW a \in Pages
    PROVE  /\ VPN2(a) \in Nat /\ 2 * VPN2(a) \in Pages /\ 2 * VPN2(a) + 1 \in Pages
           /\ \A b \in Pages : VPN2(b) = VPN2(a) =>
                \/ b % 2 = 0 /\ b = 2 * VPN2(a)
                \/ b % 2 = 1 /\ b = 2 * VPN2(a) + 1
<1>1. UserPages \in Nat \ {0} /\ UserPages % 2 = 0
  BY VmAssumption, Zenon
<1> QED BY <1>1 DEF Pages, VPN2

\* The tables that current_pgdir points to are those of the running process.
LEMMA WalkedIs ==
    ASSUME IInv, NEW p \in Proc, Running(p), NEW a \in Pages
    PROVE  Walked(a) = mm[proc[p].mm].pte[a]
<1> DEFINE id == proc[p].mm
           owner == { m \in Mm : mm[m] # None /\ mm[m].pgdir = current_pgdir }
<1>1. proc[p].st = "user" /\ current = p
  BY Zenon DEF Running
<1>2. id \in LiveOf(mm)
  BY <1>1, UserFacts, Zenon
<1>3. current_pgdir = mm[id].pgdir
  BY <1>1, Zenon DEF IInv, Translation
<1>4. id \in Mm /\ mm[id] \in mm_struct /\ mm[id] # None
  BY <1>2, LiveFacts, Zenon
<1>5. mm[id].pgdir \in Frames
  BY <1>4 DEF mm_struct
<1>6. current_pgdir # Boot
  BY <1>3, <1>5, NoneAssumption, Zenon
<1>7. \A m \in owner : m = id
  <2> SUFFICES ASSUME NEW m \in Mm, mm[m] # None, mm[m].pgdir = current_pgdir PROVE m = id
    BY Zenon
  <2>1. m \in LiveOf(mm)
    BY Zenon DEF LiveOf
  <2>2. Holds(mm[m], mm[id].pgdir) /\ Holds(mm[id], mm[id].pgdir)
    BY <1>3, Zenon DEF Holds
  <2> QED BY <1>2, <1>5, <2>1, <2>2, Zenon DEF IInv, Heap, OwnedBy
<1>8. id \in owner
  BY <1>3, <1>4, Zenon
<1>9. owner # {} /\ (CHOOSE m \in owner : TRUE) = id
  <2>1. (CHOOSE m \in owner : TRUE) \in owner
    BY <1>8, Zenon
  <2> QED BY <1>7, <1>8, <2>1, Zenon
<1> QED BY <1>6, <1>9, Zenon DEF Walked

\* What the TLB answers is what the tables say.
LEMMA HalfIs ==
    ASSUME IInv, NEW p \in Proc, Running(p), NEW a \in Pages, Matching(a) # {}
    PROVE  Half(a) = mm[proc[p].mm].pte[a]
<1>1. proc[p].st = "user" /\ current = p
  BY Zenon DEF Running
<1>2. TlbExact(mm[proc[p].mm], tlb)
  BY <1>1, Zenon DEF IInv, Translation
<1>3. Matching(a) \in SUBSET Nat
  <2>1. Slots \subseteq Nat
    <3>1. Slots = 0..(Cardinality(Slots) - 1) /\ Cardinality(Slots) \in Nat
      BY VmAssumption, FS_CardinalityType, Zenon
    <3> QED BY <3>1
  <2> QED BY <2>1, Zenon DEF Matching
<1>4. \E x \in Matching(a) : \A y \in Matching(a) : x <= y
  <2> HIDE DEF Matching
  <2> QED BY <1>3, Least, Zenon
<1>5. Min(Matching(a)) \in Matching(a)
  BY <1>4, Zenon DEF Min
<1>6. Min(Matching(a)) \in Slots /\ tlb[Min(Matching(a))].vpn = VPN2(a)
  BY <1>5, Zenon DEF Matching
<1> QED BY <1>2, <1>6, Zenon DEF Half, TlbExact

\* What each answer of the TLB says of the page tables.
LEMMA Lookups ==
    ASSUME IInv, NEW p \in Proc, Running(p), NEW a \in Pages, NEW write \in BOOLEAN
    PROVE  LET e == mm[proc[p].mm].pte[a]
           IN  /\ Lookup(a, write) = "miss" => Matching(a) = {} \/ e = None
               /\ Lookup(a, write) = "error" => e # None /\ write /\ ~ e.w
               /\ Lookup(a, write) = "hit" => e # None /\ Half(a) = e
<1>1. CASE Matching(a) = {}
  BY <1>1, SMTT(30) DEF Lookup
<1>2. CASE Matching(a) # {}
  <2>1. Half(a) = mm[proc[p].mm].pte[a]
    BY <1>2, HalfIs, Zenon
  <2> QED BY <1>2, <2>1 DEF Lookup
<1> QED BY <1>1, <1>2, Zenon

\* The invariant keeps the TLB coherent.
LEMMA Coherent == IInv => TlbCoherent
<1> SUFFICES ASSUME IInv, Running(current)
             PROVE  /\ current_pgdir = mm[proc[current].mm].pgdir
                    /\ \A a \in Pages :
                        /\ Cardinality(Matching(a)) <= 1
                        /\ Lookup(a, FALSE) = "hit" => Half(a) = mm[proc[current].mm].pte[a]
  BY Zenon DEF TlbCoherent
<1>1. current \in Proc /\ proc[current].st = "user"
  BY Zenon DEF IInv, Running
<1>2. current_pgdir = mm[proc[current].mm].pgdir /\ TlbExact(mm[proc[current].mm], tlb)
  BY <1>1, Zenon DEF IInv, Translation
<1>3. ASSUME NEW a \in Pages PROVE Cardinality(Matching(a)) <= 1
  <2>1. VPN2(a) # None
    <3>1. VPN2(a) \in Nat
      BY Halves, Zenon
    <3> QED BY <3>1, NoneFacts, Zenon
  <2>2. \A s, t \in Matching(a) : s = t
    BY <1>2, <2>1, Zenon DEF Matching, TlbExact
  <2>3. CASE Matching(a) = {}
    <3>1. Cardinality(Matching(a)) = 0
      BY <2>3, FS_EmptySet, Zenon
    <3> QED BY <3>1
  <2>4. CASE Matching(a) # {}
    <3>1. PICK s \in Matching(a) : TRUE
      BY <2>4, Zenon
    <3>2. Matching(a) = {s}
      BY <2>2, <3>1, Zenon
    <3>3. Cardinality(Matching(a)) = 1
      BY <3>2, FS_Singleton, Zenon
    <3> QED BY <3>3
  <2> QED BY <2>3, <2>4, Zenon
<1>4. ASSUME NEW a \in Pages, Lookup(a, FALSE) = "hit" PROVE Half(a) = mm[proc[current].mm].pte[a]
  BY <1>1, <1>4, Lookups, Zenon
<1> QED BY <1>2, <1>3, <1>4, Zenon

\* The area find_vma finds for a, when it holds a.
BadArea(m, a, write) ==
    LET v == find_vma(m, a) IN v = None \/ v.start > a \/ (write /\ ~ v.w)

\* T follows a page fault.
Faulted(id, a, write, T) ==
    IF BadArea(mm[id], a, write) THEN T.ok = FALSE
    ELSE /\ Held(T, Budget(mm, id)) /\ Kept(mm, id, content, T.content)
         /\ Mapped(T.m) /\ Agrees(T.m, view[id], T.content)
         /\ T.m.count = mm[id].count /\ T.m.pgdir = mm[id].pgdir /\ T.m.vmas = mm[id].vmas
         /\ T.ok => T.flush
         /\ ~ T.ok => T.free = {}

\* do_pgfault refuses the access, fails for want of memory, or maps an empty page in an area.
LEMMA Faults ==
    ASSUME IInv, NEW id \in LiveOf(mm), NEW a \in Pages, mm[id].pte[a] = None, NEW write
    PROVE  Faulted(id, a, write, do_pgfault(mm[id], a, write))
<1> DEFINE m == mm[id]
           v == find_vma(m, a)
           n == Cached(m, v)
           S == State(n)
           T == get_pte(S, a)
           U == pgdir_alloc_page(T, a, v.w, None)
           G == Budget(mm, id)
<1>1. /\ id \in Mm /\ m \in mm_struct /\ m # None /\ SpaceOK(m) /\ Mapped(m)
      /\ Agrees(m, view[id], content) /\ a \in Nat /\ UserPages \in Nat
  BY LiveFacts, PageNumbers, Zenon
<1>2. FindIs(m, a, v)
  BY <1>1, FindsVma, Zenon DEF SpaceOK
<1>3. do_pgfault(m, a, write) =
        IF BadArea(m, a, write) THEN [S EXCEPT !.ok = FALSE] ELSE IF ~ T.ok THEN T ELSE U
  BY Zenon DEF do_pgfault, BadArea
<1>4. BadArea(m, a, write) <=> v = None \/ v.start > a \/ (write /\ ~ v.w)
  BY Zenon DEF BadArea
<1> HIDE DEF v
<1>5. v \in m.vmas \cup {None} /\ m.cache \in m.vmas \cup {None} /\ m.vmas \subseteq vma_struct
  BY <1>1, <1>2 DEF FindIs, SpaceOK, AreasOK, mm_struct
<1>6. Similar(m, n) /\ n.count = m.count
  <2>1. CASE v = None
    BY <1>1, <1>5, <2>1 DEF Cached, Similar
  <2>2. CASE v # None
    BY <1>1, <1>5, <2>2 DEF Cached, Similar, mm_struct
  <2> QED BY <2>1, <2>2, Zenon
<1> HIDE DEF n
<1>7. /\ SpaceOK(n) /\ (\A f : Holds(n, f) <=> Holds(m, f)) /\ Mapped(n)
      /\ Agrees(n, view[id], content)
  BY <1>1, <1>6, SimilarOK, ZenonT(30)
<1>8. Begins(S, id) /\ StateIs(S, n)
  BY <1>7, BeginsNow
<1> HIDE DEF S
<1>9. /\ Held(S, G) /\ Kept(mm, id, content, S.content) /\ S \in Op
      /\ S.m = n /\ S.content = content /\ S.free = free /\ S.ok = TRUE
  BY <1>8, Zenon DEF Begins, StateIs
<1>10. CASE BadArea(m, a, write)
  <2>1. [S EXCEPT !.ok = FALSE].ok = FALSE
    BY <1>9 DEF Op
  <2> QED BY <1>3, <1>10, <2>1, ZenonT(30) DEF Faulted
<1>11. CASE ~ BadArea(m, a, write)
  <2>1. v \in m.vmas /\ ~ (v.start > a) /\ a < v.end
    BY <1>2, <1>4, <1>5, <1>11, Zenon DEF FindIs
  <2>2. v \in vma_struct /\ v \in S.m.vmas /\ S.m.pte = m.pte
    BY <1>5, <1>6, <1>9, <2>1, Zenon DEF Similar
  <2>3. v.start \in Nat /\ v.w \in BOOLEAN
    BY <1>1, <2>2 DEF vma_struct
  <2>4. In(a, v)
    BY <1>1, <2>1, <2>3 DEF In
  <2>5. GotPte(S, a, T, G)
    BY <1>9, <2>2, <2>4, GetPte
  <2> HIDE DEF T
  <2>6. /\ Held(T, G) /\ Grown(S, T) /\ T.m.vmas = S.m.vmas /\ T.m.pte = S.m.pte
        /\ (T.ok => T.m.pt[PDX(a)] # None) /\ (~ T.ok => T.free = {})
    BY <2>5, Zenon DEF GotPte
  <2>7. Heap(free, content, mm, view) /\ S.free \subseteq free
    BY <1>9, Zenon DEF IInv
  <2>8. ASSUME NEW X, Held(X, G), Grown(S, X), X.m.vmas = S.m.vmas, X.ok => X.flush,
               ~ X.ok => X.free = {}, X = do_pgfault(m, a, write)
        PROVE  Faulted(id, a, write, do_pgfault(m, a, write))
    <3>1. Kept(mm, id, content, X.content)
      BY <1>9, <2>7, <2>8, KeptGrown, Zenon
    <3>2. Mapped(S.m) /\ Agrees(S.m, view[id], S.content)
      BY <1>7, <1>9, Zenon
    <3>3. Mapped(X.m)
      BY <2>8, <3>2, MappedGrown, SMTT(30)
    <3>4. Agrees(X.m, view[id], X.content)
      BY <1>9, <2>8, <3>2, AgreesGrown
    <3>5. X.m.count = m.count /\ X.m.pgdir = m.pgdir /\ X.m.vmas = m.vmas
      BY <1>6, <1>9, <2>8, Zenon DEF Grown, Similar
    <3> QED BY <1>11, <2>8, <3>1, <3>3, <3>4, <3>5, Zenon DEF Faulted
  <2>9. CASE ~ T.ok
    <3>1. T = do_pgfault(m, a, write)
      BY <1>3, <1>11, <2>9, Zenon DEF T
    <3> QED BY <2>6, <2>8, <2>9, <3>1, Zenon
  <2>10. CASE T.ok
    <3>1. T.m.pte[a] = None /\ v \in T.m.vmas
      BY <2>2, <2>6, Zenon
    <3>2. GotPage(T, a, None, U, G)
      BY <2>3, <2>4, <2>6, <2>10, <3>1, AllocPage, SMTT(30)
    <3>3. U = do_pgfault(m, a, write)
      BY <1>3, <1>11, <2>10, Zenon DEF T
    <3> HIDE DEF U
    <3>4. Held(U, G) /\ Grown(T, U) /\ U.m.vmas = S.m.vmas /\ (U.ok => U.flush) /\ (~ U.ok => U.free = {})
      BY <2>6, <2>10, <3>2, Zenon DEF GotPage
    <3>5. Grown(S, U)
      BY <2>6, <3>4, GrownTrans, Zenon
    <3> QED BY <2>8, <3>3, <3>4, <3>5, Zenon
  <2> QED BY <2>9, <2>10, Zenon
<1> QED BY <1>10, <1>11, Zenon

\* A range that user_mem_check accepts lies in an area.
LEMMA CheckedArea ==
    ASSUME IInv, NEW id \in LiveOf(mm), NEW a \in Pages, NEW write, user_mem_check(mm[id], a, write)
    PROVE  /\ ~ BadArea(mm[id], a, write)
           /\ mm[id].pte[a] # None /\ write => mm[id].pte[a].w
<1> DEFINE m == mm[id]
           v == find_vma(m, a)
<1>1. /\ m \in mm_struct /\ SpaceOK(m) /\ AreasOK(m) /\ TablesOK(m) /\ a \in Nat /\ UserPages \in Nat
  BY LiveFacts, PageNumbers, Zenon DEF SpaceOK
<1>2. FindIs(m, a, v)
  BY <1>1, FindsVma, Zenon
<1>3. v # None /\ v.start <= a /\ (write => v.w)
  BY Zenon DEF user_mem_check
<1>4. BadArea(m, a, write) <=> v = None \/ v.start > a \/ (write /\ ~ v.w)
  BY Zenon DEF BadArea
<1> HIDE DEF v
<1>5. v \in m.vmas /\ a < v.end /\ v \in vma_struct
  BY <1>1, <1>2, <1>3, SMTT(30) DEF FindIs, mm_struct
<1>6. \A u \in m.vmas : u.start \in Nat /\ u.end \in Nat
  BY <1>1 DEF mm_struct, vma_struct
<1>7. ~ BadArea(m, a, write)
  <2>1. v.start \in Nat
    BY <1>5, <1>6, Zenon
  <2>2. ~ (v.start > a)
    BY <1>1, <1>3, <2>1
  <2> QED BY <1>3, <1>4, <2>2, Zenon
<1>8. ASSUME m.pte[a] # None, write PROVE m.pte[a].w
  <2>1. PICK u \in m.vmas : In(a, u) /\ (u.w => m.pte[a].w)
    BY <1>1, <1>8, Zenon DEF TablesOK
  <2>2. ~ Apart(u, v)
    BY <1>1, <1>3, <1>5, <1>6, <2>1 DEF In, Apart
  <2>3. u = v
    BY <1>1, <1>5, <2>2, Zenon DEF AreasOK
  <2> QED BY <1>3, <1>8, <2>1, <2>3, Zenon
<1> QED BY <1>7, <1>8, Zenon

-----------------------------------------------------------------------------

(* The steps.                                                              *)

\* A step that changes one address space keeps the invariant.
LEMMA BecomesInv ==
    ASSUME IInv, NEW id, NEW T, Becomes(id, T), After(T, id, proc', view'),
           current' \in Proc, index' \in Slots, PanicType',
           Translation(proc'[current'], current_pgdir', mm', tlb')
    PROVE  IInv'
<1>1. Heap(free', content', mm', view') /\ ProcsOK(proc', mm')
  BY Zenon DEF Becomes, After
<1>2. TlbType(tlb')
  <2>1. tlb' = IF T.flush THEN Flushed ELSE tlb
    BY Zenon DEF Becomes
  <2>2. tlb' = Flushed \/ tlb' = tlb
    BY <2>1, Zenon
  <2> QED BY <2>2, FlushedFacts, Zenon DEF IInv
<1> QED BY <1>1, <1>2, Zenon DEF IInv

\* A step that leaves the address spaces alone.
LEMMA ProcInv ==
    ASSUME IInv, UNCHANGED <<free, content, mm, view>>, ProcsOK(proc', mm),
           current' \in Proc, index' \in Slots, PanicType',
           TlbType(tlb'), Translation(proc'[current'], current_pgdir', mm, tlb')
    PROVE  IInv'
<1>1. Heap(free', content', mm', view') /\ mm' = mm
  BY Zenon DEF IInv
<1> QED BY <1>1, Zenon DEF IInv

\* do_exit gives the address space up, called by the process or after a bad access.
LEMMA Exits ==
    ASSUME IInv, NEW p \in Proc, proc[p].st = "user", current = p, do_exit_mm(p),
           UNCHANGED <<current, index, panic, view>>
    PROVE  IInv'
<1>1. proc \in [Proc -> Process]
  BY Zenon DEF IInv, ProcsOK
<1>2. proc[p].load = None
  BY UserFacts, Zenon
<1>3. /\ PutProc(proc, p, proc'[p], proc') /\ proc'[p].mm = None /\ proc'[p].load = None
      /\ proc'[p].st = "exiting"
  BY <1>1, <1>2 DEF do_exit_mm, PutProc, Process
<1>4. After(Dropped(proc[p].mm), proc[p].mm, proc', view)
  BY <1>3, DropsUser
<1>5. Translation(proc'[current'], current_pgdir', mm', tlb')
  BY <1>3 DEF Translation
<1>6. PanicType' /\ current' \in Proc /\ index' \in Slots
  BY Zenon DEF IInv, PanicType
<1>7. Becomes(proc[p].mm, Dropped(proc[p].mm)) /\ view' = view
  BY Zenon DEF do_exit_mm
<1> QED BY <1>4, <1>5, <1>6, <1>7, BecomesInv, SMTT(30)

\* do_exit keeps the invariant.
LEMMA ExitInv ==
    ASSUME IInv, NEW p \in Proc, do_exit(p) PROVE IInv'
BY Exits, Zenon DEF do_exit, InUser, Running

\* do_execve keeps the invariant.
LEMMA ExecveInv ==
    ASSUME IInv, NEW p \in Proc, NEW prog \in Programs, do_execve(p, prog) PROVE IInv'
<1>1. proc \in [Proc -> Process] /\ proc[p].st = "user" /\ current = p
  BY Zenon DEF IInv, ProcsOK, do_execve, InUser, Running
<1>2. proc[p].load = None
  BY <1>1, UserFacts, Zenon
<1>3. /\ PutProc(proc, p, proc'[p], proc') /\ proc'[p].mm = None /\ proc'[p].load = None
      /\ proc'[p].st = "exec" /\ proc'[p].prog \in Programs
  BY <1>1, <1>2 DEF do_execve, PutProc, Process
<1>4. After(Dropped(proc[p].mm), proc[p].mm, proc', view)
  BY <1>1, <1>3, DropsUser
<1>5. current' = p
  BY <1>1, Zenon DEF do_execve
<1>6. Translation(proc'[current'], current_pgdir', mm', tlb')
  BY <1>3, <1>5 DEF Translation
<1>7. PanicType' /\ current' \in Proc /\ index' \in Slots
  BY Zenon DEF IInv, PanicType, do_execve
<1>8. Becomes(proc[p].mm, Dropped(proc[p].mm)) /\ view' = view
  BY Zenon DEF do_execve
<1> QED BY <1>4, <1>6, <1>7, <1>8, BecomesInv, SMTT(30)

\* The process that is chosen next finds the TLB empty and its own tables.
LEMMA SwitchInv ==
    ASSUME IInv, NEW q \in Proc, ProcsOK(proc', mm), proc'[q] = proc[q], current' = q,
           current_pgdir' = proc[q].cr3, tlb' = Flushed,
           UNCHANGED <<free, content, mm, index, panic, view>>
    PROVE  IInv'
<1>1. TlbType(tlb') /\ \A m : TlbExact(m, tlb')
  BY FlushedFacts, Zenon
<1>2. proc[q].st = "user" => proc[q].cr3 = mm[proc[q].mm].pgdir
  BY UserFacts, Zenon
<1>3. Translation(proc'[current'], current_pgdir', mm, tlb')
  BY <1>1, <1>2, Zenon DEF Translation
<1>4. PanicType' /\ current' \in Proc /\ index' \in Slots
  BY Zenon DEF IInv, PanicType
<1> QED BY <1>1, <1>3, <1>4, ProcInv

\* Reaping a zombie keeps the invariant.
LEMMA ZombieInv ==
    ASSUME IInv, NEW p \in Proc, NEW q \in Proc, Zombie(p, q) PROVE IInv'
<1>1. ProcsOK(proc, mm) /\ proc \in [Proc -> Process] /\ ProcOK(proc[p], mm)
  BY Zenon DEF IInv, ProcsOK
<1>2. proc[p].mm = None /\ proc[p].load = None
  BY <1>1 DEF Zombie, ProcOK
<1>3. /\ PutProc(proc, p, proc'[p], proc') /\ proc'[p].mm = proc[p].mm
      /\ proc'[p].load = proc[p].load /\ proc'[p].st = "unused" /\ proc'[q] = proc[q]
  BY <1>1 DEF Zombie, PutProc, Process
<1>4. ProcOK(proc'[p], mm)
  BY <1>2, <1>3 DEF ProcOK
<1>5. ProcsOK(proc', mm)
  BY <1>1, <1>3, <1>4, ProcsSame
<1> QED BY <1>3, <1>5, SwitchInv, Zenon DEF Zombie

\* proc_run keeps the invariant.
LEMMA RunInv ==
    ASSUME IInv, NEW q \in Proc, proc_run(q) PROVE IInv'
<1>1. ProcsOK(proc', mm) /\ proc'[q] = proc[q]
  BY Zenon DEF IInv, proc_run
<1> QED BY <1>1, SwitchInv, Zenon DEF proc_run

\* kernel_execve keeps the invariant.
LEMMA KernelExecveInv ==
    ASSUME IInv, NEW p \in Proc, NEW prog \in Programs, kernel_execve(p, prog) PROVE IInv'
<1>1. ProcsOK(proc, mm) /\ proc \in [Proc -> Process] /\ ProcOK(proc[p], mm)
  BY Zenon DEF IInv, ProcsOK
<1>2. proc[p].mm = None /\ proc[p].load = None
  BY <1>1 DEF kernel_execve, ProcOK
<1>3. /\ PutProc(proc, p, proc'[p], proc') /\ proc'[p].mm = None
      /\ proc'[p].load = None /\ proc'[p].st = "exec" /\ proc'[p].prog = prog
  BY <1>1, Zenon DEF kernel_execve, PutProc, Process, Child
<1>4. ProcOK(proc'[p], mm)
  BY <1>3 DEF ProcOK
<1>5. ProcsOK(proc', mm)
  BY <1>1, <1>2, <1>3, <1>4, ProcsSame, SMTT(30)
<1>6. current \in Proc /\ current # p /\ current' = current
  BY Zenon DEF IInv, kernel_execve
<1>7. proc'[current'] = proc[current]
  BY <1>3, <1>6, Zenon DEF PutProc
<1>8. Translation(proc'[current'], current_pgdir', mm, tlb')
  BY <1>7, Zenon DEF IInv, kernel_execve
<1>9. PanicType' /\ current' \in Proc /\ index' \in Slots /\ TlbType(tlb')
  BY <1>6, Zenon DEF IInv, PanicType, kernel_execve
<1> QED BY <1>5, <1>8, <1>9, ProcInv, Zenon DEF kernel_execve

-----------------------------------------------------------------------------

(* Fork.                                                                   *)

\* A free proc_struct has no address space.
LEMMA UnusedFacts ==
    ASSUME IInv, NEW q \in Proc, proc[q].st = "unused"
    PROVE  proc[q].mm = None /\ proc[q].load = None
<1>1. ProcOK(proc[q], mm)
  BY Zenon DEF IInv, ProcsOK
<1> QED BY <1>1 DEF ProcOK

\* Nobody uses an mm that is not there.
LEMMA NewFacts ==
    ASSUME IInv, NEW id \in Mm, mm[id] = None
    PROVE  /\ id \notin LiveOf(mm) /\ id # None /\ UsersOf(proc, id) = {}
           /\ \A q \in Proc : proc[q].mm # id /\ proc[q].load # id
           /\ [mm EXCEPT ![id] = None] = mm
<1>1. id \notin LiveOf(mm) /\ id # None
  BY NoneFacts, Zenon DEF LiveOf
<1>2. \A q \in Proc : proc[q].mm # id /\ proc[q].load # id
  BY <1>1, Zenon DEF IInv, ProcsOK, ProcOK
<1>3. mm \in [Mm -> mm_struct \cup {None}]
  BY Zenon DEF IInv, Heap, Table
<1>4. [mm EXCEPT ![id] = None] = mm
  BY <1>3
<1> QED BY <1>1, <1>2, <1>4, Zenon DEF UsersOf

\* The running process goes on with the same tables.
LEMMA TranslationKept ==
    ASSUME IInv, NEW r, r = proc[current], NEW pgdir, pgdir = current_pgdir,
           NEW tl, tl \in {tlb, Flushed}, NEW M,
           proc[current].st = "user" =>
             /\ M[proc[current].mm].pgdir = mm[proc[current].mm].pgdir
             /\ M[proc[current].mm].pte = mm[proc[current].mm].pte
    PROVE  Translation(r, pgdir, M, tl)
<1>1. Translation(proc[current], current_pgdir, mm, tlb)
  BY Zenon DEF IInv
<1>2. ASSUME proc[current].st = "user" PROVE TlbExact(M[proc[current].mm], tl)
  <2>1. CASE tl = Flushed
    BY <2>1, FlushedFacts, Zenon
  <2>2. CASE tl = tlb
    <3>1. TlbExact(mm[proc[current].mm], tlb)
      BY <1>1, <1>2, Zenon DEF Translation
    <3> QED BY <1>2, <2>2, <3>1, Zenon DEF TlbExact
  <2> QED BY <2>1, <2>2, Zenon
<1> QED BY <1>1, <1>2, Zenon DEF Translation

\* The TLB stays or is emptied.
LEMMA BecomesTlb ==
    ASSUME NEW id, NEW T, Becomes(id, T) PROVE tlb' \in {tlb, Flushed}
<1>1. tlb' = IF T.flush THEN Flushed ELSE tlb
  BY Zenon DEF Becomes
<1> QED BY <1>1, Zenon

\* The fields of a new process.
LEMMA ChildOK ==
    ASSUME NEW id \in Mm, NEW f \in Frames
    PROVE  /\ Child(id, f) \in Process /\ Child(id, f).mm = id /\ Child(id, f).load = None
           /\ Child(id, f).st = "user" /\ Child(id, f).cr3 = f
BY DEF Child, Process

\* A process that runs a program.
LEMMA UserOK ==
    ASSUME NEW r, NEW M, r.st = "user", r.load = None, r.mm # None, r.mm \in LiveOf(M),
           r.cr3 = M[r.mm].pgdir
    PROVE  ProcOK(r, M)
<1>1. r.st # "exec"
  OBVIOUS
<1> QED BY <1>1, Zenon DEF ProcOK

\* do_fork with CLONE_VM keeps the invariant.
LEMMA ForkShareInv ==
    ASSUME IInv, NEW p \in Proc, NEW q \in Proc, do_fork(p, q), ForkShare(p, q) PROVE IInv'
<1> DEFINE id == proc[p].mm
           m == mm[id]
           n == [m EXCEPT !.count = @ + 1]
           S == State(n)
           N == [mm EXCEPT ![id] = S.m]
<1>1. /\ proc \in [Proc -> Process] /\ proc[p].st = "user" /\ current = p /\ proc[q].st = "unused"
      /\ ProcsOK(proc, mm) /\ Heap(free, content, mm, view)
  BY Zenon DEF IInv, ProcsOK, do_fork, InUser, Running
<1>2. /\ id \in LiveOf(mm) /\ m.count \in Nat \ {0}
      /\ m.count = Cardinality(UsersOf(proc, id)) /\ \A s \in Proc : proc[s].load # id
  BY <1>1, UserFacts, Zenon
<1>3. /\ id \in Mm /\ m \in mm_struct /\ m # None /\ SpaceOK(m) /\ Mapped(m)
      /\ Agrees(m, view[id], content)
  BY <1>2, LiveFacts, ZenonT(30)
<1>4. Similar(m, n) /\ n.count = m.count + 1
  <2>1. m.cache \in m.vmas \cup {None}
    BY <1>3, Zenon DEF SpaceOK, AreasOK
  <2> QED BY <1>2, <1>3, <2>1 DEF mm_struct, Similar
<1>5. mm' = [mm EXCEPT ![id] = n]
  BY Zenon DEF ForkShare
<1> HIDE DEF n
<1>6. /\ SpaceOK(n) /\ (\A f : Holds(n, f) <=> Holds(m, f)) /\ Mapped(n)
      /\ Agrees(n, view[id], content)
  <2> HIDE DEF id, m
  <2> QED BY <1>3, <1>4, SimilarOK, ZenonT(30)
<1>7. Begins(S, id) /\ StateIs(S, n)
  BY <1>2, <1>6, BeginsNow
<1> HIDE DEF S
<1>8. S.m = n /\ S.content = content /\ S.flush = FALSE /\ S.free = free
  BY <1>7, Zenon DEF StateIs
<1>9. Heap(S.free, S.content, N, view)
  <2>1. Viewed(view, id, view)
    BY <1>1, ZenonT(30) DEF Viewed, Heap
  <2> QED BY <1>1, <1>3, <1>6, <1>7, <1>8, <2>1, HeapPut, SMTT(30) DEF Begins
<1>10. n \in mm_struct /\ n # None /\ n.pgdir = m.pgdir /\ n.pte = m.pte /\ m.pgdir \in Frames
  BY <1>3, <1>4, NoneFacts, SMTT(30) DEF Similar, mm_struct
<1>11. Put(mm, id, n, N)
  BY <1>1, <1>3, <1>8, <1>10, PutIn, SMTT(30) DEF Heap
<1>12. /\ PutProc(proc, q, proc'[q], proc') /\ proc'[q] = Child(id, m.pgdir)
  BY <1>1, <1>3, <1>10, ChildOK, SMTT(30) DEF ForkShare, PutProc
<1>13. /\ proc'[q].mm = id /\ proc'[q].load = None /\ proc'[q].st = "user"
       /\ proc'[q].cr3 = m.pgdir
  <2> HIDE DEF id, m
  <2>1. /\ Child(id, m.pgdir).mm = id /\ Child(id, m.pgdir).load = None
        /\ Child(id, m.pgdir).st = "user" /\ Child(id, m.pgdir).cr3 = m.pgdir
    BY <1>3, <1>10, ChildOK, Zenon
  <2> QED BY <1>12, <2>1, Zenon
<1>14. proc[q].mm = None /\ proc[q].load = None /\ id # None
  BY <1>1, <1>3, UnusedFacts, NoneFacts, ZenonT(30)
<1>15. Follow(proc, q, proc'[q], mm, id, n)
  BY <1>2, <1>10, <1>13, <1>14, Zenon DEF Follow
<1>16. CountOK(proc', N, id)
  <2>1. Cardinality(UsersOf(proc', id)) = m.count + 1
    <3> HIDE DEF id, m
    <3>1. PutProc(proc, q, proc'[q], proc') /\ proc[q].mm # id /\ proc'[q].mm = id
      BY <1>12, <1>13, <1>14, Zenon
    <3>2. Cardinality(UsersOf(proc', id)) = Cardinality(UsersOf(proc, id)) + 1
      BY <3>1, UserNew, SMTT(30)
    <3> QED BY <1>2, <3>2, Zenon
  <2>2. N[id] = n /\ n.count # 0
    BY <1>2, <1>4, <1>11 DEF Put
  <2> QED BY <1>4, <2>1, <2>2, Zenon DEF CountOK
<1>17. ProcOK(proc'[q], N)
  <2>1. id \in LiveOf(N) /\ N[id] = n
    BY <1>10, <1>11, ZenonT(30) DEF Put
  <2> QED BY <1>10, <1>13, <1>14, <2>1, UserOK, Zenon
<1>18. ProcsOK(proc', N)
  <2> HIDE DEF N
  <2> QED BY <1>1, <1>3, <1>11, <1>12, <1>15, <1>16, <1>17, ProcsPut, SMTT(30)
<1>19. Becomes(id, S) /\ view' = view
  BY <1>5, <1>8, Zenon DEF Becomes, ForkShare
<1>20. After(S, id, proc', view')
  BY <1>8, <1>9, <1>18, <1>19, Zenon DEF After
<1>21. current' = p /\ current_pgdir' = current_pgdir /\ proc'[p] = proc[p]
  BY <1>1, <1>12, Zenon DEF do_fork, PutProc
<1>22. mm'[id].pgdir = m.pgdir /\ mm'[id].pte = m.pte
  BY <1>5, <1>8, <1>10, <1>11, ZenonT(30) DEF Put
<1>23. Translation(proc'[current'], current_pgdir', mm', tlb')
  <2>1. tlb' \in {tlb, Flushed}
    BY <1>19, BecomesTlb, Zenon
  <2> QED BY <1>1, <1>21, <1>22, <2>1, TranslationKept, SMTT(30)
<1>24. PanicType' /\ current' \in Proc /\ index' \in Slots
  BY <1>21, Zenon DEF IInv, PanicType, do_fork, ForkShare
<1> QED BY <1>19, <1>20, <1>23, <1>24, BecomesInv, SMTT(30)

\* A new address space with an empty directory.
Fresh(S, id) ==
    /\ Begins(S, id) /\ S.ok /\ S.flush = FALSE /\ S.free \subseteq free
    /\ S.m.vmas = {} /\ S.m.count = 0 /\ S.m.pgdir \in Frames

\* setup_pgdir takes a free page for the directory of an empty address space.
LEMMA SetupFresh ==
    ASSUME IInv, NEW id \in Mm, mm[id] = None, free # {}
    PROVE  Fresh(setup_pgdir, id)
<1> DEFINE f == Some(free)
           m == NewMm(f)
           R == State(m)
           S == setup_pgdir
<1>1. free \subseteq Frames /\ content \in [Frames -> Contents] /\ OwnedBy(free, mm)
  BY Zenon DEF IInv, Heap
<1>2. f \in free /\ f \in Frames
  BY <1>1, SomeFree, Zenon
<1> HIDE DEF f
<1>3. Budget(mm, id) = free
  BY <1>1, NewFacts, BudgetNew, ZenonT(30)
<1>4. /\ m \in mm_struct /\ m.vmas = {} /\ m.count = 0 /\ m.pgdir = f /\ m.cache = None
      /\ (\A t \in Tables : m.pt[t] = None) /\ (\A a \in Pages : m.pte[a] = None)
  BY <1>2 DEF NewMm, mm_struct
<1> HIDE DEF m
<1>5. StateIs(R, m)
  BY <1>4, StateFields, Zenon
<1>6. S = [R EXCEPT !.free = @ \ {Some(@)}, !.content[f] = "table"]
  BY Zenon DEF setup_pgdir, f, m
<1> HIDE DEF S, R
<1>7. R \in Op /\ R.free = free /\ R.content = content /\ R.m = m /\ R.ok = TRUE /\ R.flush = FALSE
  BY <1>5, Zenon DEF StateIs
<1>8. S = [R EXCEPT !.free = free \ {f}, !.content = [content EXCEPT ![f] = "table"]]
  BY <1>6, <1>7, Zenon DEF f, Op
<1>9. "table" \in Contents
  BY DEF Contents
<1>10. [content EXCEPT ![f] = "table"] \in [Frames -> Contents]
       /\ \A g \in Frames \ {f} : [content EXCEPT ![f] = "table"][g] = content[g]
  BY <1>1, <1>9, Zenon
<1>11. /\ S \in Op /\ S.free = free \ {f} /\ S.m = m /\ S.ok = TRUE /\ S.flush = FALSE
       /\ \A g \in Frames \ {f} : S.content[g] = content[g]
  BY <1>1, <1>7, <1>8, <1>10, ZenonT(30) DEF Op
<1>12. SpaceOK(m)
  <2>1. AreasOK(m)
    BY <1>4, FS_EmptySet, Zenon DEF AreasOK
  <2>2. TablesOK(m)
    BY <1>4, Zenon DEF TablesOK
  <2>3. None # f
    BY <1>2, NoneFacts, ZenonT(30)
  <2>4. Once(m)
    BY <1>4, <2>3, SMTT(30) DEF Once
  <2> QED BY <1>4, <2>1, <2>2, <2>4, Zenon DEF SpaceOK
<1>13. \A g : Holds(m, g) <=> g = f
  BY <1>4, Zenon DEF Holds
<1>14. Held(S, Budget(mm, id))
  <2>1. \A g \in S.free : ~ Holds(S.m, g)
    BY <1>11, <1>13, Zenon
  <2>2. \A g \in Frames : g \in free <=> g \in S.free \/ Holds(S.m, g)
    BY <1>2, <1>11, <1>13, Zenon
  <2> QED BY <1>3, <1>11, <1>12, <2>1, <2>2, Zenon DEF Held
<1>15. Kept(mm, id, content, S.content)
  BY <1>2, <1>3, <1>11, Zenon DEF Kept
<1>16. Fresh(S, id)
  BY <1>1, <1>2, <1>4, <1>11, <1>14, <1>15, Zenon DEF Fresh, Begins
<1> QED BY <1>16, Zenon DEF S

\* T is S with another count.
LEMMA Recounted ==
    ASSUME NEW G, NEW S, Held(S, G), NEW k \in Nat
    PROVE  LET T == [S EXCEPT !.m.count = k]
           IN  /\ Held(T, G) /\ T.free = S.free /\ T.content = S.content /\ T.flush = S.flush
               /\ T.m.count = k /\ Similar(S.m, T.m)
<1> DEFINE T == [S EXCEPT !.m.count = k]
<1>1. S \in Op /\ S.m \in mm_struct /\ SpaceOK(S.m) /\ S.m.cache \in S.m.vmas \cup {None}
  BY Zenon DEF Held, SpaceOK, AreasOK
<1>2. /\ T \in Op /\ T.free = S.free /\ T.content = S.content /\ T.flush = S.flush
      /\ T.m = [S.m EXCEPT !.count = k]
  BY <1>1, SMTT(30) DEF Op, mm_struct
<1> HIDE DEF T
<1>3. T.m.count = k /\ Similar(S.m, T.m)
  BY <1>1, <1>2, SMTT(30) DEF mm_struct, Similar
<1>4. SpaceOK(T.m) /\ \A f : Holds(T.m, f) <=> Holds(S.m, f)
  BY <1>1, <1>3, SimilarOK, Zenon
<1>5. Held(T, G)
  BY <1>2, <1>4, Zenon DEF Held
<1> QED BY <1>2, <1>3, <1>5, Zenon DEF T

\* The copy has what the address space has.
LEMMA CopyReads ==
    ASSUME NEW from, Source(from), NEW S, NEW T, NEW G, CopyDone(S, T, G, from), T.ok,
           NEW v, Agrees(from, v, content)
    PROVE  Mapped(T.m) /\ Agrees(T.m, v, T.content)
<1>1. T.m.vmas = from.vmas
  BY Zenon DEF CopyDone
<1>2. ASSUME NEW u \in from.vmas, NEW a \in Pages, In(a, u), from.pte[a] # None
      PROVE  T.m.pte[a] # None /\ T.content[T.m.pte[a].f] = content[from.pte[a].f]
  <2>1. a \in MappedIn(from, u)
    BY <1>2, Zenon DEF MappedIn
  <2>2. T.m.pte[a] # None /\ T.content[T.m.pte[a].f] = Carried(from)[a]
    BY <1>1, <2>1, Zenon DEF CopyDone, Duped
  <2>3. Carried(from)[a] = content[from.pte[a].f]
    BY <1>2, SourcePage, Zenon
  <2> QED BY <2>2, <2>3, Zenon
<1>3. Mapped(T.m)
  BY <1>1, <1>2, Zenon DEF Mapped, Source
<1>4. ASSUME NEW a \in Pages, v[a] # None
      PROVE  T.m.pte[a] # None /\ T.content[T.m.pte[a].f] = v[a]
  <2>1. from.pte[a] # None /\ content[from.pte[a].f] = v[a]
    BY <1>4, Zenon DEF Agrees
  <2>2. PICK u \in from.vmas : In(a, u)
    BY <2>1, Zenon DEF Source, TablesOK
  <2> QED BY <1>2, <2>1, <2>2, Zenon
<1> QED BY <1>3, <1>4, Zenon DEF Agrees

\* A process q gets the new address space T.m.
LEMMA FirstUser ==
    ASSUME IInv, NEW id \in Mm, NEW q \in Proc, proc[q].mm = None,
           NEW x \in mm_struct, x.count = 1,
           NEW Q, PutProc(proc, q, Child(id, x.pgdir), Q),
           \A s \in Proc : proc[s].mm # id, \A s \in Proc \ {q} : proc[s].load # id,
           proc[q].load \in {None, id}
    PROVE  ProcsOK(Q, [mm EXCEPT ![id] = x])
<1> DEFINE N == [mm EXCEPT ![id] = x]
           r == Child(id, x.pgdir)
<1>1. x # None /\ id # None /\ x.pgdir \in Frames
  BY NoneFacts, SMTT(30) DEF mm_struct
<1>2. r.mm = id /\ r.load = None /\ r.st = "user" /\ r.cr3 = x.pgdir
  BY <1>1, ChildOK, SMTT(30)
<1> HIDE DEF r
<1>3. Put(mm, id, x, N)
  BY PutIn DEF IInv, Heap
<1> HIDE DEF N
<1>4. N[id] = x /\ id \in LiveOf(N)
  BY <1>1, <1>3, ZenonT(30) DEF Put
<1>5. ProcOK(r, N)
  BY <1>1, <1>2, <1>4, UserOK, SMTT(30)
<1>6. Follow(proc, q, r, mm, id, x)
  BY <1>1, <1>2, ZenonT(30) DEF Follow
<1>7. CountOK(Q, N, id)
  <2>1. UsersOf(proc, id) = {}
    BY Zenon DEF UsersOf
  <2>2. Cardinality(UsersOf(proc, id)) = 0
    BY <2>1, FS_EmptySet, Zenon
  <2>3. PutProc(proc, q, r, Q)
    BY Zenon DEF r
  <2>4. Cardinality(UsersOf(Q, id)) = Cardinality(UsersOf(proc, id)) + 1
    BY <1>1, <1>2, <2>3, UserNew, SMTT(30)
  <2>5. Cardinality(UsersOf(Q, id)) = 1
    BY <2>2, <2>4, SMTT(30)
  <2> QED BY <1>4, <2>5, SMTT(30) DEF CountOK
<1>8. ProcsOK(proc, mm) /\ PutProc(proc, q, r, Q)
  BY Zenon DEF IInv, r
<1>9. ProcsOK(Q, N)
  BY <1>3, <1>5, <1>6, <1>7, <1>8, ProcsPut, SMTT(30)
<1> QED BY <1>9, Zenon DEF N

\* do_fork with a copy keeps the invariant, also where mm_create, setup_pgdir or dup_mmap fails.
LEMMA ForkCopyInv ==
    ASSUME IInv, NEW p \in Proc, NEW q \in Proc, do_fork(p, q),
           NEW id \in Mm, NEW create, Unused(id), ForkCopy(p, q, id, create)
    PROVE  IInv'
<1> DEFINE pid == proc[p].mm
           from == mm[pid]
           R == setup_pgdir
           S == dup_mmap(R, from, create)
           G == Budget(mm, id)
           T == [S EXCEPT !.m.count = 1]
<1>1. /\ proc \in [Proc -> Process] /\ proc[p].st = "user" /\ current = p /\ proc[q].st = "unused"
      /\ ProcsOK(proc, mm) /\ Heap(free, content, mm, view) /\ mm[id] = None /\ free # {}
      /\ content \in [Frames -> Contents]
  BY Zenon DEF IInv, ProcsOK, do_fork, InUser, Running, Unused, ForkCopy, Heap
<1>2. pid \in LiveOf(mm) /\ pid \in Mm /\ pid # id
  BY <1>1, UserFacts, ZenonT(30) DEF LiveOf
<1>3. SpaceOK(from) /\ Mapped(from) /\ Agrees(from, view[pid], content)
  BY <1>2, LiveFacts, Zenon
<1>4. Source(from)
  BY <1>1, <1>3, Zenon DEF Source, SpaceOK
<1>5. Fresh(R, id)
  BY <1>1, SetupFresh, Zenon
<1>6. /\ IF S.ok
           THEN /\ Becomes(id, T)
                /\ proc' = [proc EXCEPT ![q] = Child(id, S.m.pgdir)]
                /\ view' = [view EXCEPT ![id] = view[pid]]
                /\ UNCHANGED panic
           ELSE IF S.panic
           THEN panic' = "assert npage" /\ UNCHANGED <<free, content, mm, proc, tlb, view>>
           ELSE Becomes(id, Destroyed(S)) /\ UNCHANGED <<proc, view, panic>>
  BY ZenonT(30) DEF ForkCopy
<1> HIDE DEF R, from
<1>7. CopyDone(R, S, G, from)
  BY <1>4, <1>5, DupsAll, SMTT(30) DEF Fresh, Begins
<1> HIDE DEF S
<1>8. Held(S, G) /\ Grown(R, S) /\ Duped(R, S, G, from)
  BY <1>7, Zenon DEF CopyDone, Duped
<1>9. Kept(mm, id, content, S.content)
  BY <1>1, <1>5, <1>8, KeptGrown, Zenon DEF Fresh, Begins
<1>10. current' = current /\ current_pgdir' = current_pgdir /\ index' = index
  BY Zenon DEF do_fork
<1>11. current' \in Proc /\ index' \in Slots
  BY <1>10, Zenon DEF IInv
<1>12. CASE S.ok
  <2>1. /\ Becomes(id, T) /\ proc' = [proc EXCEPT ![q] = Child(id, S.m.pgdir)]
        /\ view' = [view EXCEPT ![id] = view[pid]] /\ panic' = panic
    BY <1>6, <1>12, Zenon
  <2>2. /\ Held(T, G) /\ T.free = S.free /\ T.content = S.content /\ T.flush = S.flush
        /\ T.m.count = 1 /\ Similar(S.m, T.m)
    BY <1>8, Recounted, SMTT(30)
  <2> HIDE DEF T, G
  <2>3. SpaceOK(S.m) /\ T.flush \in BOOLEAN /\ T.m \in mm_struct /\ T.m.pgdir = S.m.pgdir
    <3>1. SpaceOK(S.m) /\ T \in Op /\ T.m \in mm_struct /\ T.m.pgdir = S.m.pgdir
      BY <1>8, <2>2, ZenonT(30) DEF Held, Similar
    <3>2. T.flush \in BOOLEAN
      BY <3>1, SMTT(30) DEF Op
    <3> QED BY <3>1, <3>2, Zenon
  <2>4. Mapped(S.m) /\ Agrees(S.m, view[pid], S.content)
    BY <1>3, <1>4, <1>7, <1>12, CopyReads, SMTT(30)
  <2>5. Mapped(T.m) /\ Agrees(T.m, view[pid], T.content)
    BY <2>2, <2>3, <2>4, SimilarOK, ZenonT(30)
  <2>6. Viewed(view, id, view') /\ view'[id] = view[pid]
    BY <1>1, <1>2, <2>1, SMTT(30) DEF Viewed, Heap
  <2>7. Heap(T.free, T.content, [mm EXCEPT ![id] = T.m], view')
    BY <1>1, <1>9, <2>2, <2>5, <2>6, HeapPut, SMTT(30) DEF G
  <2>8. T.m.pgdir \in Frames
    BY <2>3, SMTT(30) DEF mm_struct
  <2>9. PutProc(proc, q, Child(id, T.m.pgdir), proc')
    BY <1>1, <2>1, <2>3, <2>8, ChildOK, SMTT(30) DEF PutProc
  <2>10. /\ proc[q].mm = None /\ proc[q].load \in {None, id}
         /\ \A s \in Proc : proc[s].mm # id /\ proc[s].load # id
    BY <1>1, UnusedFacts, NewFacts, ZenonT(30)
  <2>11. ProcsOK(proc', [mm EXCEPT ![id] = T.m])
    BY <2>2, <2>3, <2>9, <2>10, FirstUser, SMTT(30)
  <2>12. After(T, id, proc', view')
    BY <2>3, <2>7, <2>11, Zenon DEF After
  <2>13. proc'[current'] = proc[current] /\ proc[current].mm = pid
    BY <1>1, <1>10, <2>9, SMTT(30) DEF PutProc
  <2>14. mm'[pid] = mm[pid]
    <3>1. mm' = [mm EXCEPT ![id] = T.m]
      BY <2>1, ZenonT(30) DEF Becomes
    <3>2. Put(mm, id, T.m, mm')
      BY <1>1, <2>3, <3>1, PutIn, ZenonT(30) DEF Heap
    <3> QED BY <1>2, <3>2, Zenon DEF Put
  <2>15. tlb' \in {tlb, Flushed}
    BY <2>1, BecomesTlb, ZenonT(30)
  <2>16. Translation(proc'[current'], current_pgdir', mm', tlb')
    BY <1>10, <2>13, <2>14, <2>15, TranslationKept, SMTT(30)
  <2>17. PanicType'
    BY <2>1, Zenon DEF IInv, PanicType
  <2> QED BY <1>11, <2>1, <2>12, <2>16, <2>17, BecomesInv, Zenon
<1>13. CASE ~ S.ok /\ S.panic
  <2>1. panic' = "assert npage" /\ UNCHANGED <<free, content, mm, proc, tlb, view>>
    BY <1>6, <1>13, Zenon
  <2>2. PanicType' /\ ProcsOK(proc', mm) /\ TlbType(tlb')
    BY <2>1, Zenon DEF PanicType, IInv
  <2>3. Translation(proc'[current'], current_pgdir', mm, tlb')
    BY <1>10, <2>1, ZenonT(30) DEF IInv
  <2> QED BY <1>11, <2>1, <2>2, <2>3, ProcInv, Zenon
<1>14. CASE ~ S.ok /\ ~ S.panic
  <2>1. Becomes(id, Destroyed(S)) /\ UNCHANGED <<proc, view, panic>>
    BY <1>6, <1>14, Zenon
  <2> DEFINE U == Destroyed(S)
  <2>2. Gone(S, U, G)
    BY <1>8, DestroysAll, ZenonT(30)
  <2> HIDE DEF U
  <2>3. Heap(U.free, U.content, [mm EXCEPT ![id] = U.m], view)
    BY <1>1, <1>9, <2>2, HeapDrop, SMTT(30)
  <2>4. U.m = None /\ U.flush \in BOOLEAN
    BY <2>2, Zenon DEF Gone
  <2>5. [mm EXCEPT ![id] = U.m] = mm
    BY <1>1, <2>4, NewFacts, ZenonT(30)
  <2>6. After(U, id, proc', view')
    BY <1>1, <2>1, <2>3, <2>4, <2>5, Zenon DEF After
  <2>7. Becomes(id, U)
    BY <2>1, Zenon DEF U
  <2>8. mm' = mm
    BY <2>5, <2>7, Zenon DEF Becomes
  <2>9. tlb' \in {tlb, Flushed}
    BY <2>7, BecomesTlb, ZenonT(30)
  <2>10. Translation(proc'[current'], current_pgdir', mm', tlb')
    BY <1>10, <2>1, <2>8, <2>9, TranslationKept, SMTT(30)
  <2>11. PanicType'
    BY <2>1, Zenon DEF IInv, PanicType
  <2> QED BY <1>11, <2>6, <2>7, <2>10, <2>11, BecomesInv, SMTT(30)
<1> QED BY <1>12, <1>13, <1>14, Zenon

\* do_fork keeps the invariant.
LEMMA ForkInv ==
    ASSUME IInv, NEW p \in Proc, NEW q \in Proc, do_fork(p, q) PROVE IInv'
<1>1. CASE ForkShare(p, q)
  BY <1>1, ForkShareInv, Zenon
<1>2. ASSUME NEW id \in Mm, NEW create, Unused(id), ForkCopy(p, q, id, create) PROVE IInv'
  BY <1>2, ForkCopyInv, Zenon
<1> QED BY <1>1, <1>2, Zenon DEF do_fork
=============================================================================
