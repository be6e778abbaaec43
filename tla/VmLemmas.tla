------------------------------ MODULE VmLemmas ------------------------------
(***************************************************************************)
(* What the functions of Vm do to one address space: its areas, its tables *)
(* and the physical pages it holds; then to all of them, when one address  *)
(* space or one process changes.                                           *)
(***************************************************************************)
EXTENDS Vm, FiniteSetTheorems, WellFoundedInduction, TLAPS

\* Induction over the naturals, for a set of them.
LEMMA NatSetInduction ==
    ASSUME NEW T, 0 \in T, \A n \in Nat : n \in T => n + 1 \in T
    PROVE  Nat \subseteq T
<1> DEFINE U == Nat \ T
<1>1. SUFFICES ASSUME U # {} PROVE FALSE
    BY Zenon
<1>2. IsWellFoundedOn(OpToRel(<, Nat), Nat)
    BY NatLessThanWellFounded, Zenon
<1>3. U \subseteq Nat
    BY Zenon
<1> HIDE DEF U
<1>4. \E x \in U : \A y \in U : ~ (<<y, x>> \in OpToRel(<, Nat))
    BY <1>1, <1>2, <1>3, WFMin, Zenon
<1> USE DEF U
<1>5. PICK x \in U : \A y \in U : ~ (<<y, x>> \in OpToRel(<, Nat))
    BY <1>4, Zenon
<1>6. x # 0 /\ x - 1 \in Nat /\ x - 1 \notin U
    <2>1. x # 0 /\ x - 1 \in Nat
        OBVIOUS
    <2>2. x - 1 < x
        OBVIOUS
    <2> QED BY <2>1, <2>2, <1>5, Zenon DEF OpToRel
<1> QED BY <1>6

\* The same up to a bound.
LEMMA BoundedInduction ==
    ASSUME NEW N \in Nat, NEW T, 0 \in T, \A n \in 1..N : n - 1 \in T => n \in T
    PROVE  N \in T /\ 0..N \subseteq T
<1> DEFINE U == {n \in Nat : n <= N => n \in T}
<1>1. 0 \in U
    OBVIOUS
<1>2. \A n \in Nat : n \in U => n + 1 \in U
    OBVIOUS
<1>3. Nat \subseteq U
    <2> HIDE DEF U
    <2> QED BY <1>1, <1>2, NatSetInduction, Zenon
<1> QED BY <1>3

\* A set of naturals has a least element.
LEMMA Least ==
    ASSUME NEW S \in SUBSET Nat, S # {}
    PROVE  \E x \in S : \A y \in S : x <= y
<1>1. IsWellFoundedOn(OpToRel(<, Nat), Nat)
    BY NatLessThanWellFounded, Zenon
<1>2. PICK x \in S : \A y \in S : ~ (<<y, x>> \in OpToRel(<, Nat))
    BY <1>1, WFMin, Zenon
<1>3. \A y \in S : ~ (y < x)
    BY <1>2, Zenon DEF OpToRel
<1> QED BY <1>3

Runs(X, a, N, s) ==
    \E h \in [0..N -> X] : h[0] = a /\ \A n \in 1..N : h[n] = s[n][h[n - 1]]

\* A loop of N steps, each a function of X, has a run.
LEMMA LoopRuns ==
    ASSUME NEW X, NEW a \in X, NEW N \in Nat, NEW s \in [1..N -> [X -> X]]
    PROVE  Runs(X, a, N, s)
<1> DEFINE Run(h, k) == h[0] = a /\ \A n \in 1..k : h[n] = s[n][h[n - 1]]
           T == {k \in 0..N : \E h \in [0..k -> X] : Run(h, k)}
<1>1. 0 \in T
  <2> DEFINE h == [n \in 0..0 |-> a]
  <2>1. h \in [0..0 -> X] /\ h[0] = a /\ 1..0 = {} /\ 0 \in 0..N
    OBVIOUS
  <2> QED BY <2>1, Zenon
<1>2. ASSUME NEW k \in 1..N, k - 1 \in T PROVE k \in T
  <2>1. PICK h \in [0..(k - 1) -> X] : Run(h, k - 1)
    BY <1>2, Zenon
  <2> DEFINE g == [n \in 0..k |-> IF n = k THEN s[k][h[k - 1]] ELSE h[n]]
  <2>2. \A n \in 0..k : n # k => n \in 0..(k - 1)
    OBVIOUS
  <2>3. k - 1 \in 0..(k - 1) /\ 0 \in 0..k /\ 0 # k /\ k \in 0..k /\ k \in 0..N
    OBVIOUS
  <2>4. g \in [0..k -> X]
    BY <2>2, <2>3, ZenonT(30)
  <2>5. \A n \in 1..k : n \in 0..k /\ n - 1 \in 0..k /\ n - 1 # k /\ (n # k => n \in 1..(k - 1))
    OBVIOUS
  <2>6. Run(g, k)
    BY <2>1, <2>3, <2>5, Zenon
  <2> HIDE DEF g, Run
  <2> QED BY <2>3, <2>4, <2>6, Zenon
<1> HIDE DEF Run
<1>3. N \in T
  <2> QED BY <1>1, <1>2, BoundedInduction, Zenon
<1> QED BY <1>3, Zenon DEF Run, Runs
-----------------------------------------------------------------------------
(* Address spaces.                                                         *)

Op == [free : SUBSET Frames, content : [Frames -> Contents], m : mm_struct, flush : BOOLEAN,
       ok : BOOLEAN, panic : BOOLEAN]

In(a, v) == v.start <= a /\ a < v.end
Over(t, v) == PDX(v.start) <= t /\ t <= PDX(v.end - 1)
Apart(u, v) == u.end <= v.start \/ v.end <= u.start

\* Areas are in user space and disjoint; the stack is where it is.
AreasOK(m) ==
    /\ IsFiniteSet(m.vmas) /\ m.cache \in m.vmas \cup {None}
    /\ \A v \in m.vmas :
        /\ v.start < v.end
        /\ v.stack => v.start = UserPages - StackPages /\ v.end = UserPages
    /\ \A u, v \in m.vmas : u # v => Apart(u, v)

\* What is mapped has a table and an area, which is no more writable than it.
TablesOK(m) ==
    /\ \A a \in Pages : m.pte[a] # None =>
        /\ m.pt[PDX(a)] # None
        /\ \E v \in m.vmas : In(a, v) /\ (v.w => m.pte[a].w)
    /\ \A t \in Tables : m.pt[t] # None => \E v \in m.vmas : Over(t, v)

\* No physical page is in two places of the address space.
Once(m) ==
    /\ \A t \in Tables : m.pt[t] # m.pgdir
    /\ \A a \in Pages : m.pte[a] # None => m.pte[a].f # m.pgdir
    /\ \A a \in Pages, t \in Tables : m.pte[a] # None => m.pte[a].f # m.pt[t]
    /\ \A t, u \in Tables : m.pt[t] # None /\ m.pt[t] = m.pt[u] => t = u
    /\ \A a, b \in Pages : m.pte[a] # None /\ m.pte[b] # None /\ m.pte[a].f = m.pte[b].f => a = b

SpaceOK(m) == m \in mm_struct /\ AreasOK(m) /\ TablesOK(m) /\ Once(m)

Holds(m, f) ==
    \/ f = m.pgdir
    \/ \E t \in Tables : m.pt[t] # None /\ f = m.pt[t]
    \/ \E a \in Pages : m.pte[a] # None /\ f = m.pte[a].f

\* Every area but the stack has all its pages.
Mapped(m) ==
    \A v \in m.vmas : ~ v.stack => \A a \in Pages : In(a, v) => m.pte[a] # None

\* Page numbers and the page tables they are in.
LEMMA PageNumbers ==
    /\ UserPages \in Nat /\ PTPages \in Nat \ {0}
    /\ Pages = 0..(UserPages - 1) /\ Pages \subseteq Nat /\ Tables \subseteq Nat
    /\ \A p \in Pages : PDX(p) \in Tables /\ PDX(p) \in Nat
    /\ \A p, q \in Nat : p <= q => PDX(p) <= PDX(q)
    /\ \A p \in Nat : PDX(p) \in Nat
    /\ Tables = 0..PDX(UserPages - 1)
<1>1. UserPages \in Nat \ {0} /\ PTPages \in Nat \ {0}
  BY VmAssumption, Zenon
<1>2. \A p, q \in Nat : p <= q => p \div PTPages <= q \div PTPages
  BY <1>1
<1>3. \A p \in Nat : p \div PTPages \in Nat
  BY <1>1
<1> QED BY <1>1, <1>2, <1>3 DEF Pages, Tables, PDX

\* None is no page, frame, address space, entry or area.
LEMMA NoneFacts ==
    /\ None \notin Nat /\ None \notin Frames /\ None \notin Mm /\ None \notin PTE
    /\ None \notin vma_struct /\ None \notin mm_struct /\ None \notin Contents
<1>1. None \notin Frames
  BY VmAssumption, NoneAssumption, Zenon
<1> QED BY <1>1, NoneAssumption, Zenon DEF Contents

\* A table for a part of an area.
LEMMA AddTable ==
    ASSUME NEW m, SpaceOK(m), NEW t \in Tables, m.pt[t] = None, NEW f \in Frames, ~ Holds(m, f),
           \E v \in m.vmas : Over(t, v)
    PROVE  LET n == [m EXCEPT !.pt[t] = f]
           IN  /\ SpaceOK(n) /\ \A g : Holds(n, g) <=> Holds(m, g) \/ g = f
               /\ n.pt[t] = f
<1> DEFINE n == [m EXCEPT !.pt[t] = f]
<1>1. m \in mm_struct
  BY Zenon DEF SpaceOK
<1>2. /\ n \in mm_struct /\ n.vmas = m.vmas /\ n.cache = m.cache /\ n.pgdir = m.pgdir /\ n.pte = m.pte
      /\ n.pt[t] = f /\ \A u \in Tables : u # t => n.pt[u] = m.pt[u]
  BY <1>1 DEF mm_struct
<1> HIDE DEF n
<1>3. f # None
  BY NoneFacts, Zenon
<1>4. AreasOK(n)
  BY <1>2, Zenon DEF AreasOK, SpaceOK
<1>5. TablesOK(n)
  BY <1>2, <1>3, PageNumbers, Zenon DEF TablesOK, SpaceOK
<1>6. Once(n)
  <2>1. Once(m) /\ f # m.pgdir /\ (\A u \in Tables : m.pt[u] # f)
        /\ \A b \in Pages : m.pte[b] # None => m.pte[b].f # f
    BY <1>3, Zenon DEF SpaceOK, Holds
  <2> QED BY <1>2, <1>3, <2>1 DEF Once
<1>7. \A g : Holds(n, g) <=> Holds(m, g) \/ g = f
  BY <1>2, <1>3, Zenon DEF Holds
<1> QED BY <1>2, <1>4, <1>5, <1>6, <1>7, Zenon DEF SpaceOK, n

\* A page of an area.
LEMMA AddPage ==
    ASSUME NEW m, SpaceOK(m), NEW a \in Pages, m.pte[a] = None, m.pt[PDX(a)] # None,
           NEW f \in Frames, ~ Holds(m, f), NEW w \in BOOLEAN,
           \E v \in m.vmas : In(a, v) /\ (v.w => w)
    PROVE  LET n == [m EXCEPT !.pte[a] = [f |-> f, w |-> w]]
           IN  SpaceOK(n) /\ \A g : Holds(n, g) <=> Holds(m, g) \/ g = f
<1> DEFINE e == [f |-> f, w |-> w]
           n == [m EXCEPT !.pte[a] = e]
<1>1. m \in mm_struct
  BY Zenon DEF SpaceOK
<1>2. e \in PTE /\ e.f = f /\ e.w = w
  BY DEF PTE
<1>3. e # None
  BY <1>2, NoneFacts, Zenon
<1> HIDE DEF e
<1>4. /\ n \in mm_struct /\ n.vmas = m.vmas /\ n.cache = m.cache /\ n.pgdir = m.pgdir /\ n.pt = m.pt
      /\ n.pte[a] = e /\ \A b \in Pages : b # a => n.pte[b] = m.pte[b]
  BY <1>1, <1>2 DEF mm_struct
<1> HIDE DEF n
<1>5. AreasOK(n)
  BY <1>4, Zenon DEF AreasOK, SpaceOK
<1>6. TablesOK(n)
  BY <1>2, <1>3, <1>4, PageNumbers, Zenon DEF TablesOK, SpaceOK
<1>7. Once(n)
  <2>1. Once(m) /\ f # m.pgdir /\ (\A u \in Tables : m.pt[u] # f)
        /\ \A b \in Pages : m.pte[b] # None => m.pte[b].f # f
    BY NoneFacts, Zenon DEF SpaceOK, Holds
  <2> QED BY <1>2, <1>3, <1>4, <2>1 DEF Once
<1>8. \A g : Holds(n, g) <=> Holds(m, g) \/ g = f
  BY <1>2, <1>3, <1>4, ZenonT(30) DEF Holds
<1> QED BY <1>4, <1>5, <1>6, <1>7, <1>8, Zenon DEF SpaceOK, n, e

\* An operation on an address space that has, with what is free, the physical
\* pages G.
Held(S, G) ==
    /\ S \in Op /\ SpaceOK(S.m)
    /\ \A f \in S.free : ~ Holds(S.m, f)
    /\ \A f \in Frames : f \in G <=> f \in S.free \/ Holds(S.m, f)

\* T follows S when pages are added.
Grown(S, T) ==
    /\ T.free \subseteq S.free /\ (S.flush => T.flush)
    /\ \A f \in Frames \ S.free : T.content[f] = S.content[f]
    /\ \A a \in Pages : S.m.pte[a] # None => T.m.pte[a] = S.m.pte[a]
    /\ T.m.count = S.m.count /\ T.m.cache = S.m.cache /\ T.m.pgdir = S.m.pgdir

\* alloc_page takes a page that is free.
LEMMA SomeFree ==
    ASSUME NEW F \in SUBSET Frames, F # {}
    PROVE  Some(F) \in F
<1>1. F \in SUBSET Nat
  BY VmAssumption, Zenon
<1>2. \E f \in F : \A g \in F : f <= g
  BY <1>1, Least, Zenon
<1> QED BY <1>2, Zenon DEF Some

GetPteIs(S, p, T) ==
    /\ T \in Op
    /\ \/ S.m.pt[PDX(p)] # None /\ T = S
       \/ /\ S.m.pt[PDX(p)] = None /\ S.free = {} /\ T.free = {} /\ T.content = S.content
          /\ T.m = S.m /\ T.flush = S.flush /\ T.panic = S.panic /\ T.ok = FALSE
       \/ /\ S.m.pt[PDX(p)] = None
          /\ \E f \in S.free :
               /\ T.free = S.free \ {f} /\ T.content = [S.content EXCEPT ![f] = "table"]
               /\ T.m = [S.m EXCEPT !.pt[PDX(p)] = f]
               /\ T.flush = S.flush /\ T.panic = S.panic /\ T.ok = S.ok

\* get_pte finds a table, makes one of a free page, or fails when there is none.
LEMMA GetPteFields ==
    ASSUME NEW S \in Op, NEW p \in Pages
    PROVE  GetPteIs(S, p, get_pte(S, p))
<1> DEFINE T == get_pte(S, p)
<1>1. CASE S.m.pt[PDX(p)] # None
  BY <1>1, Zenon DEF get_pte, GetPteIs
<1>2. CASE S.m.pt[PDX(p)] = None /\ S.free = {}
  <2>1. T = [S EXCEPT !.ok = FALSE]
    BY <1>2, Zenon DEF get_pte
  <2> HIDE DEF T
  <2>2. /\ T \in Op /\ T.free = {} /\ T.content = S.content /\ T.m = S.m /\ T.flush = S.flush
        /\ T.panic = S.panic /\ T.ok = FALSE
    BY <1>2, <2>1, Zenon DEF Op
  <2>3. GetPteIs(S, p, T)
    BY <1>2, <2>2, Zenon DEF GetPteIs
  <2> QED BY <2>3, Zenon DEF T
<1>3. CASE S.m.pt[PDX(p)] = None /\ S.free # {}
  <2> DEFINE f == Some(S.free)
             t == PDX(p)
  <2>1. T = [S EXCEPT !.free = @ \ {Some(@)}, !.m.pt[t] = f, !.content[f] = "table"]
    BY <1>3, Zenon DEF get_pte
  <2>2. f \in S.free /\ t \in Tables
    BY <1>3, SomeFree, PageNumbers, Zenon DEF Op
  <2>3. T = [S EXCEPT !.free = @ \ {f}, !.m.pt[t] = f, !.content[f] = "table"]
    BY <2>1, Zenon
  <2> HIDE DEF T, f, t
  <2>4. /\ T \in Op /\ T.free = S.free \ {f} /\ T.content = [S.content EXCEPT ![f] = "table"]
        /\ T.m = [S.m EXCEPT !.pt[t] = f]
        /\ T.flush = S.flush /\ T.panic = S.panic /\ T.ok = S.ok
    BY <2>2, <2>3, Zenon DEF Op, mm_struct, Contents
  <2>5. GetPteIs(S, p, T)
    BY <1>3, <2>2, <2>4, Zenon DEF GetPteIs, t
  <2> QED BY <2>5, Zenon DEF T
<1> QED BY <1>1, <1>2, <1>3, Zenon

AllocIs(S, p, w, fill, T) ==
    /\ T \in Op /\ T.panic = S.panic
    /\ \/ /\ ~ T.ok /\ T.free = S.free /\ T.content = S.content /\ T.m = S.m
          /\ T.flush = S.flush /\ (S.free = {} \/ S.m.pt[PDX(p)] = None)
       \/ /\ T.ok /\ T.flush
          /\ \E f \in S.free :
               LET Q == [S EXCEPT !.free = @ \ {f}]
                   R == get_pte(Q, p)
               IN  /\ R.ok /\ T.free = R.free
                   /\ T.m = [R.m EXCEPT !.pte[p] = [f |-> f, w |-> w]]
                   /\ \A h \in Frames \ {f} : T.content[h] = R.content[h]
                   /\ fill # None => T.content[f] = fill

\* pgdir_alloc_page changes nothing when it fails, else it maps a free page.
LEMMA AllocFields ==
    ASSUME NEW S \in Op, NEW p \in Pages, NEW w \in BOOLEAN, NEW fill \in Contents \cup {None}, S.ok
    PROVE  AllocIs(S, p, w, fill, pgdir_alloc_page(S, p, w, fill))
<1> DEFINE T == pgdir_alloc_page(S, p, w, fill)
<1>1. CASE S.free = {}
  <2>1. T = [S EXCEPT !.ok = FALSE]
    BY <1>1, Zenon DEF pgdir_alloc_page
  <2> HIDE DEF T
  <2>2. /\ T \in Op /\ T.free = S.free /\ T.content = S.content /\ T.m = S.m /\ T.flush = S.flush
        /\ T.panic = S.panic /\ T.ok = FALSE
    BY <1>1, <2>1, Zenon DEF Op
  <2>3. AllocIs(S, p, w, fill, T)
    BY <1>1, <2>2, Zenon DEF AllocIs
  <2> QED BY <2>3, Zenon DEF T
<1>2. CASE S.free # {}
  <2> DEFINE f == Some(S.free)
             Q == [S EXCEPT !.free = @ \ {f}]
             R == get_pte(Q, p)
  <2>1. f \in S.free /\ f \in Frames
    BY <1>2, SomeFree, Zenon DEF Op
  <2>2. T = IF ~ R.ok THEN [R EXCEPT !.free = @ \cup {f}]
            ELSE [R EXCEPT !.m.pte[p] = [f |-> f, w |-> w], !.flush = TRUE,
                           !.content[f] = IF fill = None THEN @ ELSE fill]
    BY <1>2, Zenon DEF pgdir_alloc_page
  <2> HIDE DEF T, f
  <2>3. /\ Q \in Op /\ Q.free = S.free \ {f} /\ Q.content = S.content /\ Q.m = S.m
        /\ Q.flush = S.flush /\ Q.panic = S.panic /\ Q.ok = S.ok
    BY <2>1, Zenon DEF Op
  <2> HIDE DEF Q
  <2>4. GetPteIs(Q, p, R)
    BY <2>3, GetPteFields, Zenon
  <2> HIDE DEF R
  <2>5. R \in Op /\ R.panic = S.panic
    BY <2>3, <2>4, Zenon DEF GetPteIs
  <2>6. CASE ~ R.ok
    <3>1. /\ S.m.pt[PDX(p)] = None /\ Q.free = {} /\ R.free = {} /\ R.content = S.content
          /\ R.m = S.m /\ R.flush = S.flush
      BY <2>3, <2>4, <2>6, Zenon DEF GetPteIs
    <3>2. T = [R EXCEPT !.free = @ \cup {f}]
      BY <2>2, <2>6, Zenon
    <3>3. /\ T \in Op /\ T.free = R.free \cup {f} /\ T.content = R.content /\ T.m = R.m
          /\ T.flush = R.flush /\ T.panic = R.panic /\ T.ok = R.ok
      BY <2>1, <2>5, <3>2 DEF Op
    <3>4. T.free = S.free
      BY <2>1, <2>3, <3>1, <3>3
    <3>5. AllocIs(S, p, w, fill, T)
      BY <2>5, <2>6, <3>1, <3>3, <3>4, Zenon DEF AllocIs
    <3> QED BY <3>5, Zenon DEF T
  <2>7. CASE R.ok
    <3> DEFINE e == [f |-> f, w |-> w]
               c == IF fill = None THEN R.content[f] ELSE fill
    <3>1. T = [R EXCEPT !.m.pte[p] = e, !.flush = TRUE,
                        !.content[f] = IF fill = None THEN @ ELSE fill]
      BY <2>2, <2>7, Zenon
    <3>2. e \in PTE
      BY <2>1 DEF PTE
    <3> HIDE DEF e
    <3>3. T = [R EXCEPT !.m.pte[p] = e, !.flush = TRUE, !.content[f] = c]
      BY <3>1, Zenon
    <3>4. c \in Contents
      BY <2>1, <2>5 DEF Op
    <3> HIDE DEF c
    <3>5. /\ T \in Op /\ T.free = R.free /\ T.m = [R.m EXCEPT !.pte[p] = e]
          /\ T.flush = TRUE /\ T.panic = R.panic /\ T.ok = R.ok
          /\ T.content = [R.content EXCEPT ![f] = c]
      BY <2>1, <2>5, <3>2, <3>3, <3>4, Zenon DEF Op, mm_struct
    <3>6. (\A h \in Frames \ {f} : T.content[h] = R.content[h]) /\ T.content[f] = c
      BY <2>1, <2>5, <3>5 DEF Op
    <3>7. fill # None => T.content[f] = fill
      BY <3>6, Zenon DEF c
    <3>8. T.ok /\ T.flush
      BY <2>7, <3>5, Zenon
    <3>9. AllocIs(S, p, w, fill, T)
      BY <2>1, <2>5, <2>7, <3>5, <3>6, <3>7, <3>8, Zenon DEF AllocIs, R, Q, e
    <3> QED BY <3>9, Zenon DEF T
  <2> QED BY <2>6, <2>7, Zenon
<1> QED BY <1>1, <1>2, Zenon

GotPte(S, p, T, G) ==
    /\ Held(T, G) /\ Grown(S, T) /\ T.m.vmas = S.m.vmas /\ T.m.pte = S.m.pte
    /\ T.flush = S.flush /\ T.panic = S.panic
    /\ T.ok => T.m.pt[PDX(p)] # None
    /\ ~ T.ok => T.free = {}

\* The table of a page of an area is there, or memory has run out.
LEMMA GetPte ==
    ASSUME NEW G, NEW S, Held(S, G), S.ok, NEW p \in Pages, \E v \in S.m.vmas : In(p, v)
    PROVE  GotPte(S, p, get_pte(S, p), G)
<1> DEFINE T == get_pte(S, p)
           t == PDX(p)
<1>1. S \in Op /\ SpaceOK(S.m) /\ S.m \in mm_struct
  BY Zenon DEF Held, SpaceOK
<1>2. t \in Tables
  BY PageNumbers, Zenon
<1>3. Grown(S, S)
  BY <1>1 DEF Grown
<1>4. GetPteIs(S, p, T)
  BY <1>1, GetPteFields, Zenon
<1> HIDE DEF T
<1>5. CASE S.m.pt[t] # None
  <2>1. T = S
    BY <1>4, <1>5, Zenon DEF GetPteIs
  <2>2. GotPte(S, p, T, G)
    BY <1>3, <1>5, <2>1, Zenon DEF GotPte
  <2> QED BY <2>2, Zenon DEF T
<1>6. CASE S.m.pt[t] = None /\ S.free = {}
  <2>1. /\ T \in Op /\ T.free = {} /\ T.content = S.content
        /\ T.m = S.m /\ T.flush = S.flush /\ T.panic = S.panic /\ T.ok = FALSE
    BY <1>4, <1>6, Zenon DEF GetPteIs
  <2>2. Held(T, G)
    BY <1>1, <1>6, <2>1, Zenon DEF Held
  <2>3. Grown(S, T)
    BY <1>3, <1>6, <2>1, Zenon DEF Grown
  <2>4. GotPte(S, p, T, G)
    BY <2>1, <2>2, <2>3, Zenon DEF GotPte
  <2> QED BY <2>4, Zenon DEF T
<1>7. CASE S.m.pt[t] = None /\ S.free # {}
  <2>1. T \in Op
    BY <1>4, Zenon DEF GetPteIs
  <2>2. PICK f \in S.free :
          /\ T.free = S.free \ {f} /\ T.content = [S.content EXCEPT ![f] = "table"]
          /\ T.m = [S.m EXCEPT !.pt[t] = f]
          /\ T.flush = S.flush /\ T.panic = S.panic /\ T.ok = S.ok
    BY <1>4, <1>7, Zenon DEF GetPteIs
  <2>3. f \in Frames /\ ~ Holds(S.m, f)
    BY <1>1, Zenon DEF Held, Op
  <2>4. \E v \in S.m.vmas : Over(t, v)
    <3>1. PICK v \in S.m.vmas : In(p, v)
      OBVIOUS
    <3>2. v \in vma_struct
      BY <1>1 DEF mm_struct
    <3> HIDE DEF t
    <3>3. p \in Nat /\ UserPages \in Nat
      BY PageNumbers, Zenon
    <3>4. v.start \in Nat /\ v.end - 1 \in Nat /\ v.start <= p /\ p <= v.end - 1
      BY <3>1, <3>2, <3>3 DEF vma_struct, In
    <3> QED BY <3>3, <3>4, PageNumbers, Zenon DEF Over, t
  <2>5. SpaceOK(T.m) /\ (\A g : Holds(T.m, g) <=> Holds(S.m, g) \/ g = f) /\ T.m.pt[t] = f
    BY <1>1, <1>2, <1>7, <2>2, <2>3, <2>4, AddTable
  <2>6. Held(T, G)
    BY <2>1, <2>2, <2>3, <2>5, Zenon DEF Held
  <2>7. /\ T.m.pte = S.m.pte /\ T.m.count = S.m.count /\ T.m.vmas = S.m.vmas
        /\ T.m.cache = S.m.cache /\ T.m.pgdir = S.m.pgdir
    BY <1>1, <2>2 DEF mm_struct
  <2>8. T.free \subseteq S.free /\ \A h \in Frames \ S.free : T.content[h] = S.content[h]
    BY <1>1, <2>2 DEF Op
  <2>9. Grown(S, T)
    BY <2>2, <2>7, <2>8, Zenon DEF Grown
  <2>10. f # None
    BY <2>3, NoneFacts, Zenon
  <2>11. GotPte(S, p, T, G)
    BY <2>2, <2>5, <2>6, <2>7, <2>9, <2>10, Zenon DEF GotPte
  <2> QED BY <2>11, Zenon DEF T
<1> QED BY <1>5, <1>6, <1>7, Zenon

\* Growth over two calls.
LEMMA GrownTrans ==
    ASSUME NEW R, NEW S, NEW T, Grown(R, S), Grown(S, T)
    PROVE  Grown(R, T)
<1>1. /\ S.free \subseteq R.free /\ (R.flush => S.flush)
      /\ \A f \in Frames \ R.free : S.content[f] = R.content[f]
      /\ \A a \in Pages : R.m.pte[a] # None => S.m.pte[a] = R.m.pte[a]
      /\ S.m.count = R.m.count /\ S.m.cache = R.m.cache /\ S.m.pgdir = R.m.pgdir
  BY Zenon DEF Grown
<1>2. /\ T.free \subseteq S.free /\ (S.flush => T.flush)
      /\ \A f \in Frames \ S.free : T.content[f] = S.content[f]
      /\ \A a \in Pages : S.m.pte[a] # None => T.m.pte[a] = S.m.pte[a]
      /\ T.m.count = S.m.count /\ T.m.cache = S.m.cache /\ T.m.pgdir = S.m.pgdir
  BY Zenon DEF Grown
<1>3. T.free \subseteq R.free /\ \A f \in Frames \ R.free : T.content[f] = R.content[f]
  <2>1. \A f \in Frames : f \notin R.free => f \notin S.free
    BY <1>1, Zenon
  <2> QED BY <1>1, <1>2, <2>1
<1>4. \A a \in Pages : R.m.pte[a] # None => T.m.pte[a] = R.m.pte[a]
  BY <1>1, <1>2, Zenon
<1> QED BY <1>1, <1>2, <1>3, <1>4, Zenon DEF Grown

\* A call that does nothing.
LEMMA GrownSame ==
    ASSUME NEW S PROVE Grown(S, S)
BY Zenon DEF Grown

GotPage(S, p, fill, T, G) ==
    /\ Held(T, G) /\ Grown(S, T) /\ T.m.vmas = S.m.vmas /\ T.panic = S.panic
    /\ ~ T.ok => T.m.pte = S.m.pte /\ (S.m.pt[PDX(p)] # None => T.free = {})
    /\ T.ok => /\ T.flush /\ T.m.pte[p] # None
               /\ \A b \in Pages \ {p} : T.m.pte[b] = S.m.pte[b]
               /\ fill # None => T.content[T.m.pte[p].f] = fill

\* A new page of an area is there, filled, or memory has run out.
LEMMA AllocPage ==
    ASSUME NEW G, NEW S, Held(S, G), S.ok, NEW p \in Pages, S.m.pte[p] = None,
           NEW w \in BOOLEAN, NEW fill \in Contents \cup {None},
           \E v \in S.m.vmas : In(p, v) /\ (v.w => w)
    PROVE  GotPage(S, p, fill, pgdir_alloc_page(S, p, w, fill), G)
<1> DEFINE T == pgdir_alloc_page(S, p, w, fill)
<1>1. S \in Op /\ SpaceOK(S.m) /\ S.m \in mm_struct
  BY Zenon DEF Held, SpaceOK
<1>2. AllocIs(S, p, w, fill, T)
  BY <1>1, AllocFields
<1> HIDE DEF T
<1>3. T \in Op /\ T.panic = S.panic
  BY <1>2, Zenon DEF AllocIs
<1>4. CASE ~ T.ok
  <2>1. /\ T.free = S.free /\ T.content = S.content /\ T.m = S.m /\ T.flush = S.flush
        /\ (S.free = {} \/ S.m.pt[PDX(p)] = None)
    BY <1>2, <1>4, Zenon DEF AllocIs
  <2>2. Held(T, G) /\ Grown(S, T)
    BY <1>1, <1>3, <2>1, Zenon DEF Held, Grown
  <2>3. GotPage(S, p, fill, T, G)
    BY <1>3, <1>4, <2>1, <2>2, Zenon DEF GotPage
  <2> QED BY <2>3, Zenon DEF T
<1>5. CASE T.ok
  <2>1. /\ T.flush
        /\ \E f \in S.free :
               LET Q == [S EXCEPT !.free = @ \ {f}]
                   R == get_pte(Q, p)
               IN  /\ R.ok /\ T.free = R.free
                   /\ T.m = [R.m EXCEPT !.pte[p] = [f |-> f, w |-> w]]
                   /\ \A h \in Frames \ {f} : T.content[h] = R.content[h]
                   /\ fill # None => T.content[f] = fill
    BY <1>2, <1>5, Zenon DEF AllocIs
  <2>2. PICK f \in S.free :
               LET Q == [S EXCEPT !.free = @ \ {f}]
                   R == get_pte(Q, p)
               IN  /\ R.ok /\ T.free = R.free
                   /\ T.m = [R.m EXCEPT !.pte[p] = [f |-> f, w |-> w]]
                   /\ \A h \in Frames \ {f} : T.content[h] = R.content[h]
                   /\ fill # None => T.content[f] = fill
    BY <2>1, Zenon
  <2> DEFINE Q == [S EXCEPT !.free = @ \ {f}]
             R == get_pte(Q, p)
  <2>3. /\ R.ok /\ T.free = R.free
        /\ T.m = [R.m EXCEPT !.pte[p] = [f |-> f, w |-> w]]
        /\ \A h \in Frames \ {f} : T.content[h] = R.content[h]
        /\ fill # None => T.content[f] = fill
    BY <2>2, Zenon
  <2>4. f \in Frames /\ ~ Holds(S.m, f)
    BY <1>1, Zenon DEF Held, Op
  <2>5. /\ Q \in Op /\ Q.free = S.free \ {f} /\ Q.content = S.content /\ Q.m = S.m
        /\ Q.flush = S.flush /\ Q.panic = S.panic /\ Q.ok = S.ok
    BY <1>1, Zenon DEF Op
  <2> HIDE DEF Q
  <2>6. Held(Q, G \ {f})
    BY <2>4, <2>5, Zenon DEF Held
  <2>7. Q.ok /\ \E v \in Q.m.vmas : In(p, v)
    BY <2>5, Zenon
  <2>8. GotPte(Q, p, R, G \ {f})
    BY <2>6, <2>7, GetPte, Zenon
  <2> HIDE DEF R
  <2>9. /\ Held(R, G \ {f}) /\ Grown(Q, R) /\ R.m.vmas = S.m.vmas /\ R.m.pte = S.m.pte
        /\ R.m.pt[PDX(p)] # None
    BY <2>3, <2>5, <2>8, Zenon DEF GotPte
  <2>10. SpaceOK(R.m) /\ ~ Holds(R.m, f) /\ R.m \in mm_struct
    BY <2>4, <2>9, Zenon DEF Held, SpaceOK
  <2> DEFINE e == [f |-> f, w |-> w]
  <2>11. SpaceOK(T.m) /\ \A g : Holds(T.m, g) <=> Holds(R.m, g) \/ g = f
    <3>1. R.m.pte[p] = None /\ \E v \in R.m.vmas : In(p, v) /\ (v.w => w)
      BY <2>9, Zenon
    <3> QED BY <2>3, <2>4, <2>9, <2>10, <3>1, AddPage
  <2>12. e # None /\ e.f = f
    <3>1. e \in PTE /\ e.f = f
      BY <2>4 DEF PTE
    <3> QED BY <3>1, NoneFacts, Zenon
  <2> HIDE DEF e
  <2>13. Held(T, G)
    BY <1>3, <2>3, <2>4, <2>9, <2>11, Zenon DEF Held
  <2>14. /\ T.m.vmas = R.m.vmas /\ T.m.count = R.m.count /\ T.m.cache = R.m.cache
         /\ T.m.pgdir = R.m.pgdir /\ T.m.pte[p] = e
         /\ \A b \in Pages \ {p} : T.m.pte[b] = R.m.pte[b]
    <3>1. T.m = [R.m EXCEPT !.pte[p] = e]
      BY <2>3, Zenon DEF e
    <3> QED BY <2>10, <3>1 DEF mm_struct
  <2>15. T.free \subseteq S.free /\ \A h \in Frames \ S.free : T.content[h] = S.content[h]
    <3>1. R.free \subseteq S.free \ {f} /\ \A h \in Frames \ (S.free \ {f}) : R.content[h] = S.content[h]
      <4>1. R.free \subseteq Q.free /\ \A h \in Frames \ Q.free : R.content[h] = Q.content[h]
        BY <2>9, Zenon DEF Grown
      <4> QED BY <2>5, <4>1
    <3>2. \A h \in Frames \ S.free : h # f /\ h \in Frames \ (S.free \ {f})
      OBVIOUS
    <3> QED BY <2>3, <3>1, <3>2
  <2>16. /\ T.m.count = S.m.count /\ T.m.cache = S.m.cache /\ T.m.pgdir = S.m.pgdir
    BY <2>5, <2>9, <2>14, Zenon DEF Grown
  <2>17. Grown(S, T)
    <3>1. \A a \in Pages : S.m.pte[a] # None => T.m.pte[a] = S.m.pte[a]
      BY <2>9, <2>14, Zenon
    <3> QED BY <2>1, <2>15, <2>16, <3>1, Zenon DEF Grown
  <2>18. GotPage(S, p, fill, T, G)
    BY <1>3, <1>5, <2>1, <2>3, <2>9, <2>12, <2>13, <2>14, <2>17, ZenonT(30) DEF GotPage
  <2> QED BY <2>18, Zenon DEF T
<1> QED BY <1>4, <1>5, Zenon
-----------------------------------------------------------------------------
(* The loops of unmap_range and copy_range look at the pages of the range  *)
(* that have a table.                                                      *)

Visits(m, c, p, end, next) ==
    c[p] = IF p >= end THEN {}
           ELSE IF m.pt[PDX(p)] = None THEN c[next]
           ELSE {p} \cup c[p + 1]

WithTable(m, start, end) == { q \in start..(end - 1) : m.pt[PDX(q)] # None }

Follows(m, c, start, N, end, next) ==
    /\ next \in [start..N -> Nat]
    /\ \A p \in start..N : p < end => next[p] > p /\ next[p] <= N /\ p + 1 <= N
    /\ \A p \in start..N : Visits(m, c, p, end, next[p])

\* The loop goes up, so that it has one result.
LEMMA Walk ==
    ASSUME NEW m, NEW start \in Nat, NEW N \in Nat, NEW end \in Nat, NEW c, NEW V, NEW next,
           Follows(m, c, start, N, end, next), Follows(m, V, start, N, end, next)
    PROVE  \A p \in start..N : c[p] = V[p]
<1>0. /\ next \in [start..N -> Nat]
      /\ \A p \in start..N : p < end => next[p] > p /\ next[p] <= N /\ p + 1 <= N
      /\ \A p \in start..N : Visits(m, c, p, end, next[p])
      /\ \A p \in start..N : Visits(m, V, p, end, next[p])
  BY Zenon DEF Follows
<1> DEFINE T == {k \in Nat : \A p \in start..N : N - p <= k => c[p] = V[p]}
<1>1. ASSUME NEW p \in start..N,
             \A q \in start..N : p < q => c[q] = V[q]
      PROVE  c[p] = V[p]
  <2>1. CASE p >= end
    BY <1>0, <2>1, Zenon DEF Visits
  <2>2. CASE ~ (p >= end)
    <3>1. /\ next[p] \in start..N /\ p < next[p] /\ p + 1 \in start..N /\ p < p + 1
      BY <1>0, <2>2
    <3>2. c[next[p]] = V[next[p]] /\ c[p + 1] = V[p + 1]
      BY <1>1, <3>1, Zenon
    <3> QED BY <1>0, <2>2, <3>2, Zenon DEF Visits
  <2> QED BY <2>1, <2>2, Zenon
<1>2. 0 \in T
  <2>1. SUFFICES ASSUME NEW p \in start..N, N - p <= 0 PROVE c[p] = V[p]
    OBVIOUS
  <2>2. \A q \in start..N : ~ (p < q)
    BY <2>1
  <2> QED BY <1>1, <2>2, Zenon
<1>3. ASSUME NEW k \in Nat, k \in T PROVE k + 1 \in T
  <2>1. SUFFICES ASSUME NEW p \in start..N, N - p <= k + 1 PROVE c[p] = V[p]
    OBVIOUS
  <2>2. \A q \in start..N : p < q => N - q <= k
    BY <2>1
  <2>3. \A q \in start..N : p < q => c[q] = V[q]
    BY <1>3, <2>2, Zenon
  <2> QED BY <1>1, <2>3, Zenon
<1>4. Nat \subseteq T
  <2> HIDE DEF T
  <2> QED BY <1>2, <1>3, NatSetInduction, Zenon
<1>5. SUFFICES ASSUME NEW p \in start..N PROVE c[p] = V[p]
  OBVIOUS
<1>6. N - p \in Nat /\ N - p <= N - p
  OBVIOUS
<1> QED BY <1>4, <1>6, Zenon

\* Where unmap_range goes on when a table is missing.
LEMMA NextTable ==
    ASSUME NEW p \in Nat
    PROVE  LET n == (p + PTPages) - ((p + PTPages) % PTPages)
           IN  /\ n \in Nat /\ p < n /\ n <= p + PTPages
               /\ \A q \in p..(n - 1) : PDX(q) = PDX(p)
<1>1. PTPages \in Nat \ {0}
  BY PageNumbers, Zenon
<1> DEFINE n == (p + PTPages) - ((p + PTPages) % PTPages)
           k == p \div PTPages
           r == p % PTPages
<1>2. k \in Nat /\ r \in Nat /\ r < PTPages /\ p = PTPages * k + r
  BY <1>1
<1>3. (p + PTPages) % PTPages = r
  <2> DEFINE y == p + PTPages
  <2>1. y \in Nat /\ y \div PTPages = k + 1
    BY <1>1
  <2>2. y = PTPages * (y \div PTPages) + (y % PTPages)
    BY <1>1
  <2> HIDE DEF y, k, r
  <2>3. y = PTPages * (k + 1) + (y % PTPages)
    BY <2>1, <2>2
  <2>4. PTPages * (k + 1) = PTPages * k + PTPages /\ PTPages * k \in Nat
    BY <1>1, <1>2
  <2>5. y % PTPages \in Int /\ y = PTPages * k + r + PTPages
    BY <1>1, <1>2, <2>1, <2>4 DEF y
  <2>6. y % PTPages = r
    BY <1>1, <1>2, <2>1, <2>3, <2>4, <2>5
  <2> QED BY <2>6 DEF y
<1> HIDE DEF k, r
<1>4. n \in Nat /\ p < n /\ n <= p + PTPages /\ n = PTPages * k + PTPages
  BY <1>1, <1>2, <1>3
<1> HIDE DEF n
<1>5. ASSUME NEW q \in p..(n - 1) PROVE q \div PTPages = k
  <2> DEFINE x == PTPages * k
  <2>1. x \in Nat
    BY <1>1, <1>2
  <2>2. x <= q /\ q < x + PTPages /\ q \in Nat
    <3> HIDE DEF x
    <3>1. p = x + r /\ n = x + PTPages
      BY <1>2, <1>4, Zenon DEF x
    <3> QED BY <1>1, <1>2, <2>1, <3>1
  <2> QED BY <1>1, <1>2, <2>2
<1> QED BY <1>4, <1>5 DEF PDX, n, k

\* A range that ends beyond the page, at or after the next page to be seen.
LEMMA WithTableNext ==
    ASSUME NEW m, NEW p \in Nat, NEW end \in Nat, NEW n \in Nat
    PROVE  /\ p >= end => WithTable(m, p, end) = {}
           /\ p < end /\ m.pt[PDX(p)] # None =>
                WithTable(m, p, end) = {p} \cup WithTable(m, p + 1, end)
           /\ p < n /\ (\A q \in p..(n - 1) : q < end => m.pt[PDX(q)] = None) =>
                WithTable(m, p, end) = WithTable(m, n, end)
<1>1. p >= end => p..(end - 1) = {}
  OBVIOUS
<1>2. p < end => p \in p..(end - 1) /\ \A q \in Int : q \in p..(end - 1) <=> q = p \/ q \in (p + 1)..(end - 1)
  OBVIOUS
<1>3. p < n => \A q \in Int : q \in p..(end - 1) <=> (q \in p..(n - 1) /\ q < end) \/ q \in n..(end - 1)
  OBVIOUS
<1>4. p..(end - 1) \subseteq Int /\ (p + 1)..(end - 1) \subseteq Int /\ n..(end - 1) \subseteq Int /\ p..(n - 1) \subseteq Int
  OBVIOUS
<1> QED BY <1>1, <1>2, <1>3, <1>4 DEF WithTable

Visited(m, start, end) == [p \in start..(UserPages + PTPages) |-> WithTable(m, p, end)]

\* The next page to look at is beyond pages without a table.
Skips(m, start, end, next) ==
    /\ next \in [start..(UserPages + PTPages) -> Nat]
    /\ \A p \in start..(UserPages + PTPages) :
        /\ p < next[p] /\ next[p] <= p + PTPages
        /\ m.pt[PDX(p)] = None => \A q \in p..(next[p] - 1) : q < end => m.pt[PDX(q)] = None

\* What such a loop computes, and that it computes nothing else.
LEMMA VisitsTables ==
    ASSUME NEW m, NEW start \in 0..UserPages, NEW end \in 0..UserPages, NEW next,
           Skips(m, start, end, next)
    PROVE  /\ \A p \in start..(UserPages + PTPages) :
                Visits(m, Visited(m, start, end), p, end, next[p])
           /\ \A c : (\A p \in start..(UserPages + PTPages) : Visits(m, c, p, end, next[p]))
                        => c[start] = WithTable(m, start, end)
<1> DEFINE N == UserPages + PTPages
           D == start..N
           V == [p \in D |-> WithTable(m, p, end)]
<1>1. UserPages \in Nat /\ PTPages \in Nat \ {0} /\ N \in Nat /\ end \in Nat /\ start \in Nat
      /\ start \in D
  BY PageNumbers
<1>2. ASSUME NEW p \in D
      PROVE  /\ p \in Nat /\ next[p] \in Nat /\ p < next[p] /\ next[p] <= p + PTPages
             /\ p < end => p + 1 \in D /\ next[p] \in D
             /\ m.pt[PDX(p)] = None => \A q \in p..(next[p] - 1) : q < end => m.pt[PDX(q)] = None
  <2>1. /\ next[p] \in Nat /\ p < next[p] /\ next[p] <= p + PTPages
        /\ m.pt[PDX(p)] = None => \A q \in p..(next[p] - 1) : q < end => m.pt[PDX(q)] = None
    BY Zenon DEF Skips
  <2> QED BY <1>1, <2>1
<1>3. next \in [D -> Nat] /\ \A p \in D : p < end => next[p] > p /\ next[p] <= N /\ p + 1 <= N
  <2>1. next \in [D -> Nat]
    BY Zenon DEF Skips
  <2> QED BY <1>1, <1>2, <2>1, SMTT(30)
<1>4. ASSUME NEW p \in D PROVE Visits(m, V, p, end, next[p])
  <2>1. CASE p >= end
    BY <1>1, <1>2, <2>1, WithTableNext, Zenon DEF Visits
  <2>2. CASE ~ (p >= end) /\ m.pt[PDX(p)] = None
    <3>1. p < end
      BY <1>1, <1>2, <2>2
    <3>2. V[next[p]] = WithTable(m, next[p], end)
      BY <1>2, <3>1, Zenon
    <3>3. WithTable(m, p, end) = WithTable(m, next[p], end)
      BY <1>1, <1>2, <2>2, WithTableNext, ZenonT(30)
    <3> QED BY <2>2, <3>2, <3>3, Zenon DEF Visits
  <2>3. CASE ~ (p >= end) /\ m.pt[PDX(p)] # None
    <3>1. p < end
      BY <1>1, <1>2, <2>3
    <3>2. V[p + 1] = WithTable(m, p + 1, end)
      BY <1>2, <3>1, Zenon
    <3>3. WithTable(m, p, end) = {p} \cup WithTable(m, p + 1, end)
      BY <1>1, <1>2, <2>3, <3>1, WithTableNext, Zenon
    <3> QED BY <2>3, <3>2, <3>3, Zenon DEF Visits
  <2> QED BY <2>1, <2>2, <2>3, Zenon
<1>5. ASSUME NEW c, \A p \in D : Visits(m, c, p, end, next[p])
      PROVE  c[start] = WithTable(m, start, end)
  <2>1. V[start] = WithTable(m, start, end)
    BY <1>1, Zenon
  <2> HIDE DEF V, N
  <2>2. Follows(m, V, start, N, end, next) /\ Follows(m, c, start, N, end, next)
    BY <1>3, <1>4, <1>5, Zenon DEF Follows
  <2>3. \A p \in start..N : c[p] = V[p]
    <3>1. N \in Nat /\ start \in Nat /\ end \in Nat
      BY <1>1, Zenon
    <3> HIDE DEF D
    <3>2. Follows(m, c, start, N, end, next) /\ Follows(m, V, start, N, end, next)
      BY <2>2, Zenon
    <3> QED BY <3>1, <3>2, Walk
  <2> QED BY <1>1, <2>1, <2>3, Zenon
<1> QED BY <1>4, <1>5, Zenon DEF Visited

\* The loop of unmap_range.
LEMMA UnmappedIs ==
    ASSUME NEW m, NEW start \in 0..UserPages, NEW end \in 0..UserPages
    PROVE  Unmapped(m, start, end) = WithTable(m, start, end)
<1> DEFINE D == start..(UserPages + PTPages)
           next == [p \in D |-> (p + PTPages) - ((p + PTPages) % PTPages)]
           V == Visited(m, start, end)
           Body(c) == [p \in D |->
                             IF p >= end THEN {}
                             ELSE IF m.pt[PDX(p)] = None
                                    THEN c[(p + PTPages) - ((p + PTPages) % PTPages)]
                             ELSE {p} \cup c[p + 1]]
           c == CHOOSE c : c = Body(c)
<1>1. ASSUME NEW p \in D PROVE p \in Nat
  BY PageNumbers
<1>2. Skips(m, start, end, next)
  <2>1. ASSUME NEW p \in D
        PROVE  /\ next[p] \in Nat /\ p < next[p] /\ next[p] <= p + PTPages
               /\ \A q \in p..(next[p] - 1) : PDX(q) = PDX(p)
    BY <1>1, NextTable
  <2>2. next \in [D -> Nat]
    BY <2>1
  <2> HIDE DEF next
  <2> QED BY <2>1, <2>2, Zenon DEF Skips
<1>3. \A p \in D : Visits(m, V, p, end, next[p])
  <2> HIDE DEF next
  <2> QED BY <1>2, VisitsTables, Zenon
<1>4. V = Body(V)
  <2>1. V = [p \in D |-> V[p]]
    BY Zenon DEF Visited
  <2> HIDE DEF V
  <2> QED BY <1>3, <2>1, Zenon DEF Visits
<1>5. c = Body(c)
  BY <1>4, Zenon
<1>6. Unmapped(m, start, end) = c[start]
  BY Zenon DEF Unmapped
<1> HIDE DEF c
<1>7. \A p \in D : Visits(m, c, p, end, next[p])
  BY <1>5, Zenon DEF Visits
<1> HIDE DEF next
<1> QED BY <1>2, <1>6, <1>7, VisitsTables

\* A range all of whose pages have tables, or which has only one table.
NoGap(m, start, end) ==
    \/ \A q \in start..(end - 1) : m.pt[PDX(q)] # None
    \/ PDX(start) = PDX(end - 1)

\* The loop of copy_range.
LEMMA CopiedIs ==
    ASSUME NEW m, NEW start \in 0..UserPages, NEW end \in 0..UserPages, start < end,
           NoGap(m, start, end)
    PROVE  Copied(m, start, end) = { p \in WithTable(m, start, end) : m.pte[p] # None }
<1> DEFINE D == start..(UserPages + PTPages)
           next == [p \in D |-> p + PTPages]
           V == Visited(m, start, end)
           Body(c) == [p \in D |->
                             IF p >= end THEN {}
                             ELSE IF m.pt[PDX(p)] = None THEN c[p + PTPages]
                             ELSE {p} \cup c[p + 1]]
           c == CHOOSE c : c = Body(c)
<1>1. ASSUME NEW p \in D PROVE p \in Nat
  BY PageNumbers
<1>2. Skips(m, start, end, next)
  <2>1. ASSUME NEW p \in D
        PROVE  next[p] \in Nat /\ p < next[p] /\ next[p] <= p + PTPages
    BY <1>1, PageNumbers
  <2>2. next \in [D -> Nat]
    BY <2>1
  <2>3. ASSUME NEW p \in D, m.pt[PDX(p)] = None, NEW q \in p..(next[p] - 1), q < end
        PROVE  m.pt[PDX(q)] = None
    <3>1. p \in Nat /\ q \in Nat /\ p <= q /\ start <= p /\ start \in Nat /\ end - 1 \in Nat
          /\ q <= end - 1 /\ p \in start..(end - 1) /\ p <= end - 1 /\ start <= q
      BY <1>1, <2>1, <2>3
    <3>2. PDX(start) = PDX(end - 1)
      BY <2>3, <3>1, Zenon DEF NoGap
    <3> HIDE DEF next
    <3>3. \A x \in Nat : start <= x /\ x <= end - 1 => PDX(x) = PDX(start)
      <4>1. \A x \in Nat : start <= x /\ x <= end - 1 => PDX(start) <= PDX(x) /\ PDX(x) <= PDX(start)
        BY <3>1, <3>2, PageNumbers, Zenon
      <4>2. \A x \in Nat : PDX(x) \in Nat
        BY PageNumbers, Zenon
      <4> QED BY <3>1, <4>1, <4>2
    <3> QED BY <2>3, <3>1, <3>3, Zenon
  <2> HIDE DEF next
  <2> QED BY <2>1, <2>2, <2>3, Zenon DEF Skips
<1>3. \A p \in D : Visits(m, V, p, end, next[p])
  <2> HIDE DEF next
  <2> QED BY <1>2, VisitsTables, Zenon
<1>4. V = Body(V)
  <2>1. V = [p \in D |-> V[p]]
    BY Zenon DEF Visited
  <2> HIDE DEF V
  <2> QED BY <1>3, <2>1, Zenon DEF Visits
<1>5. c = Body(c)
  BY <1>4, Zenon
<1>6. Copied(m, start, end) = { p \in c[start] : m.pte[p] # None }
  BY Zenon DEF Copied
<1> HIDE DEF c
<1>7. \A p \in D : Visits(m, c, p, end, next[p])
  BY <1>5, Zenon DEF Visits
<1> HIDE DEF next
<1>8. c[start] = WithTable(m, start, end)
  BY <1>2, <1>7, VisitsTables
<1> QED BY <1>6, <1>8, Zenon
-----------------------------------------------------------------------------
(* The loops that add pages.                                               *)

\* T follows S when the pages P have been added and hold c, or when memory has
\* run out.
Added(S, T, G, P, c) ==
    /\ Held(T, G) /\ Grown(S, T) /\ T.m.vmas = S.m.vmas
    /\ T.ok =>
        /\ P # {} => T.flush
        /\ \A a \in Pages \ P : T.m.pte[a] = S.m.pte[a]
        /\ \A a \in P : T.m.pte[a] # None /\ T.content[T.m.pte[a].f] = c[a]

SameAt(S, T, a) ==
    T.m.pte[a] = S.m.pte[a] /\ T.content[T.m.pte[a].f] = S.content[S.m.pte[a].f]

\* What is mapped stays and keeps what it holds.
LEMMA KeepsContent ==
    ASSUME NEW G, NEW S, NEW T, Held(S, G), Grown(S, T), NEW a \in Pages, S.m.pte[a] # None
    PROVE  SameAt(S, T, a)
<1>1. T.m.pte[a] = S.m.pte[a]
  BY Zenon DEF Grown
<1>2. S.m \in mm_struct
  BY Zenon DEF Held, SpaceOK
<1>3. S.m.pte[a].f \in Frames
  BY <1>2 DEF mm_struct, PTE
<1>4. Holds(S.m, S.m.pte[a].f)
  BY Zenon DEF Holds
<1>5. S.m.pte[a].f \in Frames \ S.free
  BY <1>3, <1>4, Zenon DEF Held
<1> QED BY <1>1, <1>5, Zenon DEF Grown, SameAt

\* Nothing has been added yet.
LEMMA AddedNone ==
    ASSUME NEW G, NEW S, Held(S, G), NEW c
    PROVE  Added(S, S, G, {}, c)
BY GrownSame, Zenon DEF Added

\* The loop stops at a page it cannot get.
LEMMA AddedFails ==
    ASSUME NEW G, NEW S, NEW T, NEW P, NEW Q, NEW c, Added(S, T, G, P, c),
           NEW U, Held(U, G), Grown(T, U), U.m.vmas = T.m.vmas, ~ U.ok
    PROVE  Added(S, U, G, Q, c)
<1>1. Grown(S, U)
  BY GrownTrans, Zenon DEF Added
<1> QED BY <1>1, Zenon DEF Added

\* A table that get_pte has made adds no page.
LEMMA AddedTable ==
    ASSUME NEW G, NEW S, NEW T, NEW P \in SUBSET Pages, NEW c, Added(S, T, G, P, c), T.ok,
           NEW p, NEW U, GotPte(T, p, U, G)
    PROVE  Added(S, U, G, P, c)
<1>1. Held(T, G) /\ Held(U, G) /\ Grown(T, U) /\ U.m.vmas = T.m.vmas /\ U.m.pte = T.m.pte
      /\ U.flush = T.flush
  BY Zenon DEF Added, GotPte
<1>2. Grown(S, U)
  BY <1>1, GrownTrans, Zenon DEF Added
<1>3. ASSUME NEW a \in P PROVE U.m.pte[a] # None /\ U.content[U.m.pte[a].f] = c[a]
  <2>1. a \in Pages /\ T.m.pte[a] # None /\ T.content[T.m.pte[a].f] = c[a]
    BY Zenon DEF Added
  <2>2. SameAt(T, U, a)
    BY <1>1, <2>1, KeepsContent, Zenon
  <2> QED BY <2>1, <2>2, Zenon DEF SameAt
<1> QED BY <1>1, <1>2, <1>3, Zenon DEF Added

\* One more page.
LEMMA AddedPage ==
    ASSUME NEW G, NEW S, NEW T, NEW P \in SUBSET Pages, NEW c, Added(S, T, G, P, c), T.ok,
           NEW p \in Pages, NEW U, c[p] # None, GotPage(T, p, c[p], U, G)
    PROVE  Added(S, U, G, P \cup {p}, c)
<1>1. Held(T, G) /\ Held(U, G) /\ Grown(T, U) /\ U.m.vmas = T.m.vmas
  BY Zenon DEF Added, GotPage
<1>2. CASE ~ U.ok
  BY <1>1, <1>2, AddedFails, Zenon
<1>3. CASE U.ok
  <2>1. Grown(S, U) /\ U.m.vmas = S.m.vmas
    BY <1>1, GrownTrans, Zenon DEF Added
  <2>2. /\ U.flush /\ U.m.pte[p] # None /\ U.content[U.m.pte[p].f] = c[p]
        /\ \A b \in Pages \ {p} : U.m.pte[b] = T.m.pte[b]
    BY <1>3, Zenon DEF GotPage
  <2>3. ASSUME NEW a \in P PROVE U.m.pte[a] # None /\ U.content[U.m.pte[a].f] = c[a]
    <3>1. a \in Pages /\ T.m.pte[a] # None /\ T.content[T.m.pte[a].f] = c[a]
      BY Zenon DEF Added
    <3>2. SameAt(T, U, a)
      BY <1>1, <3>1, KeepsContent, Zenon
    <3> QED BY <3>1, <3>2, Zenon DEF SameAt
  <2>4. ASSUME NEW a \in Pages \ (P \cup {p}) PROVE U.m.pte[a] = S.m.pte[a]
    <3>1. T.m.pte[a] = S.m.pte[a]
      BY Zenon DEF Added
    <3> QED BY <2>2, <3>1, Zenon
  <2>5. \A a \in P \cup {p} : U.m.pte[a] # None /\ U.content[U.m.pte[a].f] = c[a]
    BY <2>2, <2>3, Zenon
  <2> QED BY <1>1, <2>1, <2>2, <2>4, <2>5, Zenon DEF Added
<1> QED BY <1>2, <1>3, Zenon

\* A segment gets all its pages.
FillsFor(S, v, T, G) ==
    Added(S, T, G, { a \in Pages : In(a, v) }, [a \in Pages |-> "program"])

\* pgdir_alloc_page keeps the types.
LEMMA AllocOp ==
    ASSUME NEW S \in Op, NEW p \in Pages, NEW w \in BOOLEAN, NEW fill \in Contents \cup {None}, S.ok
    PROVE  pgdir_alloc_page(S, p, w, fill) \in Op
BY AllocFields, Zenon DEF AllocIs

\* load_icode gives every page of a segment a frame with what the program has there.
LEMMA FillsSegment ==
    ASSUME NEW G, NEW S, Held(S, G), S.ok, NEW v, v.start \in Nat, v.end \in Nat,
           v.start < v.end, v.end <= UserPages, v.perm \in BOOLEAN,
           \E u \in S.m.vmas : u.start = v.start /\ u.end = v.end /\ (u.w => v.perm),
           \A a \in Pages : In(a, v) => S.m.pte[a] = None
    PROVE  FillsFor(S, v, Filled(S, v), G)
<1> DEFINE N == v.end - v.start
           Step(T, n) == IF ~ T.ok THEN T
                         ELSE pgdir_alloc_page(T, v.start + n - 1, v.perm, "program")
           Body(c) == [n \in 0..N |-> IF n = 0 THEN S ELSE Step(c[n - 1], n)]
           c == CHOOSE c : c = Body(c)
           s == [n \in 1..N |-> [T \in Op |-> Step(T, n)]]
           full == [a \in Pages |-> "program"]
           P(n) == { a \in Pages : v.start <= a /\ a < v.start + n }
<1>1. N \in Nat /\ Pages = 0..(UserPages - 1) /\ UserPages \in Nat
  BY PageNumbers
<1>2. ASSUME NEW n \in 1..N
      PROVE  /\ v.start + n - 1 \in Pages /\ v.start + (n - 1) = v.start + n - 1
             /\ v.start <= v.start + n - 1 /\ v.start + n - 1 < v.end
             /\ n - 1 \in 0..N /\ n \in 0..N /\ n # 0
             /\ \A a \in Pages : a < v.start + n <=> a < v.start + (n - 1) \/ a = v.start + n - 1
             /\ ~ (v.start + n - 1 < v.start + (n - 1))
  BY <1>1, SMTT(30)
<1>3. "program" \in Contents \cup {None} /\ "program" # None
  BY NoneFacts DEF Contents
<1>4. s \in [1..N -> [Op -> Op]]
  <2>1. ASSUME NEW n \in 1..N, NEW T \in Op PROVE Step(T, n) \in Op
    <3>1. CASE ~ T.ok
      BY <3>1, Zenon
    <3>2. CASE T.ok
      BY <1>2, <1>3, <3>2, AllocOp
    <3> QED BY <3>1, <3>2, Zenon
  <2> HIDE DEF Step, N
  <2> QED BY <2>1, Zenon
<1>5. S \in Op
  BY Zenon DEF Held
<1>6. Runs(Op, S, N, s)
  <2> HIDE DEF s, N
  <2> QED BY <1>1, <1>4, <1>5, LoopRuns, Zenon
<1>7. PICK h \in [0..N -> Op] : h[0] = S /\ \A n \in 1..N : h[n] = s[n][h[n - 1]]
  BY <1>6, Zenon DEF Runs
<1>8. h = Body(h)
  <2>1. \A n \in 0..N : n # 0 => n \in 1..N
    BY <1>1
  <2>2. \A n \in 1..N : h[n] = Step(h[n - 1], n)
    <3> HIDE DEF Step, N
    <3> QED BY <1>2, <1>7, Zenon
  <2>3. h = [n \in 0..N |-> h[n]]
    BY Zenon
  <2> HIDE DEF Step, N
  <2> QED BY <1>7, <2>1, <2>2, <2>3, Zenon
<1>9. c = Body(c)
  <2> HIDE DEF Body
  <2> QED BY <1>8, Zenon
<1>10. Filled(S, v) = c[N]
  BY Zenon DEF Filled
<1> HIDE DEF c
<1>11. c[0] = S /\ \A n \in 1..N : c[n] = Step(c[n - 1], n)
  <2>1. 0 \in 0..N
    BY <1>1
  <2> HIDE DEF Step, N
  <2> QED BY <1>2, <1>9, <2>1, Zenon
<1> HIDE DEF N, Body
<1> DEFINE Good == { n \in 0..N : Added(S, c[n], G, P(n), full) }
<1>12. 0 \in Good
  <2>1. P(0) = {} /\ 0 \in 0..N
    BY <1>1
  <2> HIDE DEF P
  <2>2. Added(S, c[0], G, P(0), full)
    BY <1>11, <2>1, AddedNone, Zenon
  <2> QED BY <2>1, <2>2, Zenon
<1>13. ASSUME NEW n \in 1..N, n - 1 \in Good PROVE n \in Good
  <2> DEFINE p == v.start + n - 1
             T == c[n - 1]
             U == c[n]
  <2>1. Added(S, T, G, P(n - 1), full)
    BY <1>13, Zenon
  <2>2. U = Step(T, n)
    BY <1>11, Zenon
  <2>3. P(n) = P(n - 1) \cup {p} /\ P(n - 1) \subseteq Pages /\ p \in Pages /\ p \notin P(n - 1) /\ In(p, v)
    <3>1. P(n) = P(n - 1) \cup {p}
      <4> HIDE DEF N
      <4>1. \A a : a \in P(n) <=> a \in P(n - 1) \/ a = p
        BY <1>2
      <4> QED BY <4>1, Zenon
    <3>2. P(n - 1) \subseteq Pages /\ p \in Pages /\ p \notin P(n - 1)
      BY <1>2, Zenon
    <3> QED BY <1>2, <3>1, <3>2, Zenon DEF In
  <2> HIDE DEF P, p, U, T
  <2>4. Held(T, G) /\ T.m.vmas = S.m.vmas
    BY <2>1, Zenon DEF Added
  <2>5. CASE ~ T.ok
    <3>1. U = T
      BY <2>2, <2>5, Zenon
    <3>2. Added(S, U, G, P(n), full)
      BY <2>1, <2>4, <2>5, <3>1, AddedFails, GrownSame, Zenon
    <3> QED BY <1>2, <3>2, Zenon DEF U
  <2>6. CASE T.ok
    <3>1. U = pgdir_alloc_page(T, p, v.perm, "program")
      BY <2>2, <2>6, Zenon DEF p
    <3>2. T.m.pte[p] = None
      BY <2>1, <2>3, <2>6, Zenon DEF Added
    <3>3. \E u \in T.m.vmas : In(p, u) /\ (u.w => v.perm)
      BY <2>3, <2>4, Zenon DEF In
    <3>4. GotPage(T, p, "program", U, G)
      BY <1>3, <2>3, <2>4, <2>6, <3>1, <3>2, <3>3, AllocPage
    <3>5. full[p] = "program"
      BY <2>3, Zenon
    <3> HIDE DEF full
    <3>6. GotPage(T, p, full[p], U, G) /\ full[p] # None
      BY <1>3, <3>4, <3>5, Zenon
    <3>7. Added(S, U, G, P(n), full)
      BY <2>1, <2>3, <2>6, <3>6, AddedPage
    <3> QED BY <1>2, <3>7, Zenon DEF U
  <2> QED BY <2>5, <2>6, Zenon
<1>14. N \in Good
  <2> HIDE DEF Good
  <2> QED BY <1>1, <1>12, <1>13, BoundedInduction
<1>15. P(N) = { a \in Pages : In(a, v) }
  BY <1>1 DEF In, N
<1> HIDE DEF P
<1> QED BY <1>10, <1>14, <1>15, Zenon DEF FillsFor

-----------------------------------------------------------------------------

\* from is the address space that is copied, c what its pages hold.
Source(from) ==
    /\ from \in mm_struct /\ AreasOK(from) /\ TablesOK(from) /\ Mapped(from)
    /\ content \in [Frames -> Contents]

Carried(from) == [a \in Pages |-> IF from.pte[a] = None THEN None ELSE content[from.pte[a].f]]

\* A page of the address space that is copied.
LEMMA SourcePage ==
    ASSUME NEW from, Source(from), NEW p \in Pages, from.pte[p] # None
    PROVE  /\ from.pte[p].w \in BOOLEAN /\ content[from.pte[p].f] \in Contents
           /\ content[from.pte[p].f] # None /\ Carried(from)[p] = content[from.pte[p].f]
<1>1. from.pte[p] \in PTE /\ content \in [Frames -> Contents]
  BY DEF Source, mm_struct
<1>2. from.pte[p].f \in Frames /\ from.pte[p].w \in BOOLEAN
  BY <1>1 DEF PTE
<1>3. content[from.pte[p].f] \in Contents
  BY <1>1, <1>2, Zenon
<1>4. None \notin Contents
  BY NoneFacts, Zenon
<1> QED BY <1>2, <1>3, <1>4, Zenon DEF Carried

\* copy_page keeps the types.
LEMMA CopyPageOp ==
    ASSUME NEW from, Source(from), NEW p \in Pages, from.pte[p] # None, NEW T \in Op
    PROVE  copy_page(T, p, from) \in Op
<1> DEFINE R == get_pte(T, p)
           w == from.pte[p].w
           fill == content[from.pte[p].f]
<1>1. R \in Op
  BY GetPteFields, Zenon DEF GetPteIs
<1>2. w \in BOOLEAN /\ fill \in Contents \cup {None}
  BY SourcePage, Zenon
<1>3. copy_page(T, p, from) =
        IF ~ T.ok THEN T
        ELSE IF ~ R.ok THEN R
        ELSE IF R.free = {} THEN [R EXCEPT !.ok = FALSE, !.panic = TRUE]
        ELSE pgdir_alloc_page(R, p, w, fill)
  BY Zenon DEF copy_page
<1> HIDE DEF R, w, fill
<1>4. [R EXCEPT !.ok = FALSE, !.panic = TRUE] \in Op
  BY <1>1, Zenon DEF Op
<1>5. R.ok => pgdir_alloc_page(R, p, w, fill) \in Op
  BY <1>1, <1>2, AllocOp
<1> QED BY <1>1, <1>3, <1>4, <1>5, Zenon

\* One page of the loop of copy_range.
LEMMA CopiesPage ==
    ASSUME NEW from, Source(from), NEW p \in Pages, from.pte[p] # None,
           NEW G, NEW S, NEW T, NEW P \in SUBSET Pages, Added(S, T, G, P, Carried(from)),
           p \notin P, S.m.pte[p] = None,
           \E v \in S.m.vmas : In(p, v) /\ (v.w => from.pte[p].w)
    PROVE  Added(S, copy_page(T, p, from), G, P \cup {p}, Carried(from))
<1> DEFINE R == get_pte(T, p)
           w == from.pte[p].w
           c == Carried(from)
           U == copy_page(T, p, from)
<1>1. w \in BOOLEAN /\ content[from.pte[p].f] = c[p] /\ c[p] \in Contents \cup {None} /\ c[p] # None
  BY SourcePage, Zenon
<1>2. U = IF ~ T.ok THEN T
          ELSE IF ~ R.ok THEN R
          ELSE IF R.free = {} THEN [R EXCEPT !.ok = FALSE, !.panic = TRUE]
          ELSE pgdir_alloc_page(R, p, w, c[p])
  BY <1>1, Zenon DEF copy_page
<1>3. Held(T, G) /\ T.m.vmas = S.m.vmas
  BY Zenon DEF Added
<1> HIDE DEF U, c, w
<1>4. CASE ~ T.ok
  <2>1. U = T
    BY <1>2, <1>4, Zenon
  <2>2. Added(S, U, G, P \cup {p}, c)
    BY <1>3, <1>4, <2>1, AddedFails, GrownSame DEF c
  <2> QED BY <2>2, Zenon DEF U, c
<1>5. CASE T.ok
  <2>1. \E v \in T.m.vmas : In(p, v)
    BY <1>3, Zenon
  <2>2. GotPte(T, p, R, G)
    BY <1>3, <1>5, <2>1, GetPte, Zenon
  <2> HIDE DEF R
  <2>3. Held(R, G) /\ Grown(T, R) /\ R.m.vmas = T.m.vmas
    BY <2>2, Zenon DEF GotPte
  <2>4. CASE ~ R.ok
    <3>1. U = R
      BY <1>2, <1>5, <2>4, Zenon
    <3>2. Added(S, U, G, P \cup {p}, c)
      BY <1>3, <2>3, <2>4, <3>1, AddedFails DEF c
    <3> QED BY <3>2, Zenon DEF U, c
  <2>5. CASE R.ok /\ R.free = {}
    <3>1. U = [R EXCEPT !.ok = FALSE, !.panic = TRUE]
      BY <1>2, <1>5, <2>5, Zenon
    <3>2. R \in Op
      BY <2>3, Zenon DEF Held
    <3>3. /\ U \in Op /\ U.free = R.free /\ U.content = R.content /\ U.m = R.m
          /\ U.flush = R.flush /\ U.ok = FALSE
      BY <3>1, <3>2, Zenon DEF Op
    <3>4. Held(U, G)
      BY <2>3, <3>3, Zenon DEF Held
    <3>5. Grown(T, U) /\ U.m.vmas = T.m.vmas /\ ~ U.ok
      BY <2>3, <3>3, Zenon DEF Grown
    <3>6. Added(S, U, G, P \cup {p}, c)
      BY <1>3, <3>4, <3>5, AddedFails DEF c
    <3> QED BY <3>6, Zenon DEF U, c
  <2>6. CASE R.ok /\ R.free # {}
    <3>1. U = pgdir_alloc_page(R, p, w, c[p])
      BY <1>2, <1>5, <2>6, Zenon
    <3>2. Added(S, R, G, P, c)
      BY <1>5, <2>2, AddedTable DEF c
    <3>3. R.m.pte[p] = None
      BY <2>6, <3>2, Zenon DEF Added
    <3>4. \E v \in R.m.vmas : In(p, v) /\ (v.w => w)
      BY <1>3, <2>3, Zenon DEF w
    <3>5. GotPage(R, p, c[p], U, G)
      BY <1>1, <2>3, <2>6, <3>1, <3>3, <3>4, AllocPage
    <3>6. Added(S, U, G, P \cup {p}, c)
      BY <1>1, <2>6, <3>2, <3>5, AddedPage, Zenon
    <3> QED BY <3>6, Zenon DEF U, c
  <2> QED BY <2>4, <2>5, <2>6, Zenon
<1> QED BY <1>4, <1>5, Zenon

MappedIn(from, v) == { a \in Pages : In(a, v) /\ from.pte[a] # None }

\* copy_range finds every mapped page of an area.
LEMMA CopiedAll ==
    ASSUME NEW from, Source(from), NEW v \in from.vmas
    PROVE  Copied(from, v.start, v.end) = MappedIn(from, v)
<1>1. v \in vma_struct /\ v.start < v.end
  BY DEF Source, mm_struct, AreasOK
<1>2. v.start \in 0..UserPages /\ v.end \in 0..UserPages /\ v.stack \in BOOLEAN
  BY <1>1 DEF vma_struct
<1>3. UserPages \in Nat /\ Pages = 0..(UserPages - 1)
  BY PageNumbers, Zenon
<1>4. \A q : q \in v.start..(v.end - 1) <=> q \in Pages /\ In(q, v)
  BY <1>1, <1>2, <1>3 DEF In
<1>5. \A q \in Pages : from.pte[q] # None => from.pt[PDX(q)] # None
  BY Zenon DEF Source, TablesOK
<1>6. \/ \A q \in v.start..(v.end - 1) : from.pt[PDX(q)] # None
      \/ PDX(v.start) = PDX(v.end - 1)
  <2>1. CASE ~ v.stack
    BY <1>4, <1>5, <2>1, Zenon DEF Source, Mapped
  <2>2. CASE v.stack
    <3>1. v.start = UserPages - StackPages /\ v.end = UserPages
      BY <2>2, Zenon DEF Source, AreasOK
    <3> QED BY <3>1, VmAssumption, Zenon DEF PDX
  <2> QED BY <1>2, <2>1, <2>2, Zenon
<1>7. Copied(from, v.start, v.end) = { p \in WithTable(from, v.start, v.end) : from.pte[p] # None }
  <2>1. NoGap(from, v.start, v.end)
    BY <1>6, Zenon DEF NoGap
  <2> QED BY <1>1, <1>2, <2>1, CopiedIs
<1> QED BY <1>4, <1>5, <1>7, Zenon DEF WithTable, MappedIn

\* copy_range copies every mapped page of an area.
LEMMA CopiesRange ==
    ASSUME NEW from, Source(from), NEW v \in from.vmas, NEW G, NEW S, Held(S, G),
           v \in S.m.vmas, \A a \in Pages : In(a, v) => S.m.pte[a] = None
    PROVE  Added(S, copy_range(S, from, v), G, MappedIn(from, v), Carried(from))
<1> DEFINE N == UserPages
           pages == Copied(from, v.start, v.end)
           Step(T, n) == IF n - 1 \in pages THEN copy_page(T, n - 1, from) ELSE T
           Body(c) == [n \in 0..N |-> IF n = 0 THEN S ELSE Step(c[n - 1], n)]
           c == CHOOSE c : c = Body(c)
           s == [n \in 1..N |-> [T \in Op |-> Step(T, n)]]
           P(n) == { a \in pages : a < n }
<1>1. N \in Nat /\ Pages = 0..(N - 1)
  BY PageNumbers, Zenon
<1>2. ASSUME NEW n \in 1..N PROVE n - 1 \in 0..N /\ n \in 0..N /\ n # 0
  BY <1>1
<1>3. pages \subseteq Pages /\ \A a \in pages : In(a, v) /\ from.pte[a] # None
  BY CopiedAll, Zenon DEF MappedIn
<1>0. \A a \in pages : a \in Nat /\ a < N /\ ~ (a < 0)
  <2> HIDE DEF pages
  <2> QED BY <1>1, <1>3
<1>4. s \in [1..N -> [Op -> Op]]
  <2>1. ASSUME NEW n \in 1..N, NEW T \in Op PROVE Step(T, n) \in Op
    <3>1. n - 1 \in pages => copy_page(T, n - 1, from) \in Op
      BY <1>3, CopyPageOp
    <3> QED BY <3>1, Zenon
  <2> HIDE DEF Step
  <2> QED BY <2>1, Zenon
<1>5. S \in Op
  BY Zenon DEF Held
<1>6. Runs(Op, S, N, s)
  <2> HIDE DEF s, N
  <2> QED BY <1>1, <1>4, <1>5, LoopRuns
<1>7. PICK h \in [0..N -> Op] : h[0] = S /\ \A n \in 1..N : h[n] = s[n][h[n - 1]]
  BY <1>6, Zenon DEF Runs
<1>8. h = Body(h)
  <2>1. \A n \in 0..N : n # 0 => n \in 1..N
    BY <1>1
  <2>2. \A n \in 1..N : h[n] = Step(h[n - 1], n)
    <3> HIDE DEF Step, N
    <3> QED BY <1>2, <1>7, Zenon
  <2>3. h = [n \in 0..N |-> h[n]]
    BY Zenon
  <2> HIDE DEF Step, N
  <2> QED BY <1>7, <2>1, <2>2, <2>3, Zenon
<1>9. c = Body(c)
  <2> HIDE DEF Body
  <2> QED BY <1>8, Zenon
<1>10. copy_range(S, from, v) = c[N]
  BY Zenon DEF copy_range
<1> HIDE DEF c
<1>11. c[0] = S /\ \A n \in 1..N : c[n] = Step(c[n - 1], n)
  <2>1. 0 \in 0..N
    BY <1>1
  <2> HIDE DEF Step, N
  <2> QED BY <1>2, <1>9, <2>1, Zenon
<1> HIDE DEF N, Body, pages
<1> DEFINE Good == { n \in 0..N : Added(S, c[n], G, P(n), Carried(from)) }
<1>12. 0 \in Good
  <2>1. P(0) = {}
    BY <1>0, Zenon
  <2>2. 0 \in 0..N
    BY <1>1
  <2> HIDE DEF P
  <2>3. Added(S, c[0], G, P(0), Carried(from))
    BY <1>11, <2>1, AddedNone, ZenonT(30)
  <2> QED BY <2>2, <2>3, Zenon
<1>13. ASSUME NEW n \in 1..N, n - 1 \in Good PROVE n \in Good
  <2> DEFINE p == n - 1
             T == c[n - 1]
             U == c[n]
  <2>1. Added(S, T, G, P(n - 1), Carried(from))
    BY <1>13, Zenon
  <2>2. U = IF p \in pages THEN copy_page(T, p, from) ELSE T
    BY <1>11, Zenon
  <2>3. \A a \in Pages : a < n <=> a < n - 1 \/ a = p
    BY <1>1
  <2>4. P(n - 1) \subseteq Pages /\ p \notin P(n - 1)
        /\ P(n) = IF p \in pages THEN P(n - 1) \cup {p} ELSE P(n - 1)
    <3>1. P(n - 1) \subseteq Pages
      BY <1>3, Zenon
    <3>2. p \notin P(n - 1)
      BY <1>1
    <3> HIDE DEF p
    <3>3. P(n) = IF p \in pages THEN P(n - 1) \cup {p} ELSE P(n - 1)
      BY <1>3, <2>3, Zenon
    <3> QED BY <3>1, <3>2, <3>3, Zenon
  <2> HIDE DEF P, p, U, T
  <2>5. Added(S, U, G, P(n), Carried(from))
    <3>1. CASE p \notin pages
      BY <2>1, <2>2, <2>4, <3>1, Zenon
    <3>2. CASE p \in pages
      <4>1. p \in Pages /\ In(p, v) /\ from.pte[p] # None
        BY <1>3, <3>2, Zenon
      <4>2. \E u \in S.m.vmas : In(p, u) /\ (u.w => from.pte[p].w)
        <5>1. PICK u \in from.vmas : In(p, u) /\ (u.w => from.pte[p].w)
          BY <4>1, Zenon DEF Source, TablesOK
        <5>2. u = v
          <6>1. u \in vma_struct /\ v \in vma_struct /\ p \in Nat /\ UserPages \in Nat
            BY <4>1, PageNumbers DEF Source, mm_struct
          <6>2. u.start \in Nat /\ u.end \in Nat /\ v.start \in Nat /\ v.end \in Nat
            BY <6>1 DEF vma_struct
          <6>3. ~ Apart(u, v)
            BY <4>1, <5>1, <6>1, <6>2 DEF In, Apart
          <6> QED BY <6>3, Zenon DEF Source, AreasOK
        <5> QED BY <4>1, <5>1, <5>2, Zenon
      <4>3. S.m.pte[p] = None
        BY <4>1, Zenon
      <4>4. U = copy_page(T, p, from) /\ P(n) = P(n - 1) \cup {p}
        BY <2>2, <2>4, <3>2, Zenon
      <4> QED BY <2>1, <2>4, <4>1, <4>2, <4>3, <4>4, CopiesPage
    <3> QED BY <3>1, <3>2, Zenon
  <2> QED BY <1>2, <2>5, Zenon DEF U
<1>14. N \in Good
  <2> HIDE DEF Good
  <2> QED BY <1>1, <1>12, <1>13, BoundedInduction
<1>15. P(N) = pages
  BY <1>0, Zenon
<1>16. pages = MappedIn(from, v)
  BY CopiedAll, Zenon DEF pages
<1> HIDE DEF P
<1> QED BY <1>10, <1>14, <1>15, <1>16, Zenon

-----------------------------------------------------------------------------

\* More areas over the same tables.
LEMMA MoreAreas ==
    ASSUME NEW m, SpaceOK(m), NEW n \in mm_struct, n.pgdir = m.pgdir, n.pt = m.pt, n.pte = m.pte,
           m.vmas \subseteq n.vmas, AreasOK(n)
    PROVE  SpaceOK(n) /\ \A f : Holds(n, f) <=> Holds(m, f)
<1>1. TablesOK(n)
  <2>1. TablesOK(m)
    BY Zenon DEF SpaceOK
  <2> QED BY <2>1, Zenon DEF TablesOK
<1>2. Once(n)
  <2>1. Once(m)
    BY Zenon DEF SpaceOK
  <2> QED BY <2>1 DEF Once
<1>3. \A f : Holds(n, f) <=> Holds(m, f)
  BY Zenon DEF Holds
<1> QED BY <1>1, <1>2, <1>3, Zenon DEF SpaceOK

\* An area that is apart from the others.
LEMMA NewArea ==
    ASSUME NEW m, AreasOK(m), m.vmas \subseteq vma_struct, NEW v \in vma_struct, v.start < v.end,
           v.stack => v.start = UserPages - StackPages /\ v.end = UserPages,
           \A u \in m.vmas : Apart(u, v),
           NEW n, n.vmas = m.vmas \cup {v}, n.cache \in n.vmas \cup {None}
    PROVE  AreasOK(n)
<1>1. IsFiniteSet(n.vmas)
  <2>1. IsFiniteSet(m.vmas)
    BY Zenon DEF AreasOK
  <2>2. IsFiniteSet(m.vmas \cup {v})
    BY <2>1, FS_AddElement
  <2> QED BY <2>2, Zenon
<1>2. \A u : Apart(u, v) => Apart(v, u)
  BY Zenon DEF Apart
<1>3. \A u, x \in n.vmas : u # x => Apart(u, x)
  BY <1>2, Zenon DEF AreasOK
<1> QED BY <1>1, <1>3, Zenon DEF AreasOK

\* In a new area nothing is mapped.
LEMMA NewAreaEmpty ==
    ASSUME NEW m, SpaceOK(m), NEW v \in vma_struct, \A u \in m.vmas : Apart(u, v),
           NEW a \in Pages, In(a, v)
    PROVE  m.pte[a] = None
<1>1. SUFFICES ASSUME m.pte[a] # None PROVE FALSE
  BY Zenon
<1>2. PICK u \in m.vmas : In(a, u)
  BY <1>1, Zenon DEF SpaceOK, TablesOK
<1>3. u \in vma_struct /\ a \in Nat /\ UserPages \in Nat
  BY PageNumbers DEF SpaceOK, mm_struct
<1>4. u.start \in Nat /\ u.end \in Nat /\ v.start \in Nat /\ v.end \in Nat
  BY <1>3 DEF vma_struct
<1>5. Apart(u, v)
  BY Zenon
<1> QED BY <1>2, <1>3, <1>4, <1>5 DEF Apart, In

\* The list of areas has a last one.
LEMMA LastArea ==
    ASSUME NEW V, V \subseteq vma_struct, V # {}
    PROVE  Last(V) \in V
<1> DEFINE D == { UserPages - v.start : v \in V }
<1>1. UserPages \in Nat
  BY PageNumbers, Zenon
<1>2. \A v \in V : v.start \in 0..UserPages
  BY DEF vma_struct
<1>3. D \in SUBSET Nat /\ D # {}
  BY <1>1, <1>2
<1>4. PICK d \in D : \A e \in D : d <= e
  <2> HIDE DEF D
  <2> QED BY <1>3, Least, Zenon
<1>5. PICK v \in V : d = UserPages - v.start
  BY Zenon
<1>6. ASSUME NEW u \in V PROVE u.start <= v.start
  <2>1. UserPages - u.start \in D
    BY Zenon
  <2>2. UserPages - v.start <= UserPages - u.start
    BY <1>4, <1>5, <2>1, Zenon
  <2> QED BY <1>1, <1>2, <2>2
<1> QED BY <1>6, Zenon DEF Last

\* T is on its way to being a copy of from.
Duped(S, T, G, from) ==
    /\ Held(T, G) /\ Grown(S, T) /\ T.m.vmas \subseteq from.vmas
    /\ T.ok => \A v \in T.m.vmas : \A a \in MappedIn(from, v) :
                 T.m.pte[a] # None /\ T.content[T.m.pte[a].f] = Carried(from)[a]

DupedMore(S, T, U, G, from) ==
    /\ Duped(S, U, G, from)
    /\ U.ok => T.ok /\ Cardinality(U.m.vmas) = Cardinality(T.m.vmas) + 1

\* One turn of the loop of dup_mmap copies one more area.
LEMMA DupsArea ==
    ASSUME NEW from, Source(from), NEW G, NEW S, NEW T, Duped(S, T, G, from),
           T.ok => T.m.vmas # from.vmas, NEW fails
    PROVE  DupedMore(S, T, dup_area(T, from, fails), G, from)
<1> DEFINE U == dup_area(T, from, fails)
           v == Last(from.vmas \ T.m.vmas)
           n == [T.m EXCEPT !.vmas = @ \cup {v}]
           R == [T EXCEPT !.m.vmas = @ \cup {v}]
<1>1. U = IF ~ T.ok THEN T
          ELSE IF fails THEN [T EXCEPT !.ok = FALSE]
          ELSE copy_range(R, from, v)
  BY Zenon DEF dup_area
<1> HIDE DEF U
<1>2. /\ Held(T, G) /\ T \in Op /\ SpaceOK(T.m) /\ T.m \in mm_struct /\ T.m.vmas \subseteq from.vmas
      /\ Grown(S, T)
  BY Zenon DEF Duped, Held, SpaceOK
<1>3. CASE ~ T.ok
  <2>1. U = T
    BY <1>1, <1>3, Zenon
  <2>2. DupedMore(S, T, U, G, from)
    BY <1>3, <2>1, Zenon DEF DupedMore
  <2> QED BY <2>2, Zenon DEF U
<1>4. CASE T.ok /\ fails
  <2>1. U = [T EXCEPT !.ok = FALSE]
    BY <1>1, <1>4, Zenon
  <2>2. /\ U \in Op /\ U.free = T.free /\ U.content = T.content /\ U.m = T.m
        /\ U.flush = T.flush /\ U.ok = FALSE
    BY <1>2, <2>1, Zenon DEF Op
  <2>3. Held(U, G)
    BY <1>2, <2>2, Zenon DEF Held
  <2>4. Grown(S, U)
    BY <1>2, <2>2, Zenon DEF Grown
  <2>5. DupedMore(S, T, U, G, from)
    BY <1>2, <2>2, <2>3, <2>4, Zenon DEF DupedMore, Duped
  <2> QED BY <2>5, Zenon DEF U
<1>5. CASE T.ok /\ ~ fails
  <2>1. U = copy_range(R, from, v)
    BY <1>1, <1>5, Zenon
  <2>2. v \in from.vmas /\ v \notin T.m.vmas
    <3>1. from.vmas \ T.m.vmas # {}
      BY <1>2, <1>5, Zenon
    <3>2. from.vmas \subseteq vma_struct
      BY DEF Source, mm_struct
    <3>3. from.vmas \ T.m.vmas \subseteq vma_struct
      BY <3>2, Zenon
    <3>4. v \in from.vmas \ T.m.vmas
      BY <3>1, <3>3, LastArea
    <3> QED BY <3>4, Zenon
  <2> HIDE DEF v
  <2>3. v \in vma_struct /\ v.start < v.end /\ T.m.vmas \subseteq vma_struct
        /\ (v.stack => v.start = UserPages - StackPages /\ v.end = UserPages)
        /\ \A u \in T.m.vmas : Apart(u, v)
    <3>1. from.vmas \subseteq vma_struct
      BY DEF Source, mm_struct
    <3> QED BY <1>2, <2>2, <3>1, Zenon DEF Source, AreasOK
  <2>4. /\ n \in mm_struct /\ n.vmas = T.m.vmas \cup {v} /\ n.cache = T.m.cache /\ n.pgdir = T.m.pgdir
        /\ n.count = T.m.count /\ n.pt = T.m.pt /\ n.pte = T.m.pte
    BY <1>2, <2>3 DEF mm_struct
  <2>5. /\ R \in Op /\ R.free = T.free /\ R.content = T.content /\ R.m = n
        /\ R.flush = T.flush /\ R.ok = T.ok
    <3>1. R = [T EXCEPT !.m = n]
      BY <1>2 DEF Op, mm_struct
    <3> HIDE DEF n, R
    <3> QED BY <1>2, <2>4, <3>1 DEF Op
  <2> HIDE DEF n, R
  <2>6. AreasOK(n)
    <3>1. AreasOK(T.m) /\ n.cache \in n.vmas \cup {None}
      BY <1>2, <2>4, ZenonT(30) DEF SpaceOK, AreasOK
    <3> QED BY <2>3, <2>4, <3>1, NewArea
  <2>7. SpaceOK(n) /\ \A f : Holds(n, f) <=> Holds(T.m, f)
    <3>1. T.m.vmas \subseteq n.vmas
      BY <2>4, Zenon
    <3> QED BY <1>2, <2>4, <2>6, <3>1, MoreAreas
  <2>8. Held(R, G) /\ Grown(T, R) /\ v \in R.m.vmas
    <3>1. Held(R, G)
      BY <1>2, <2>5, <2>7, Zenon DEF Held
    <3>2. Grown(T, R)
      BY <2>4, <2>5, GrownSame, Zenon DEF Grown
    <3> QED BY <2>4, <2>5, <3>1, <3>2, Zenon
  <2>9. \A a \in Pages : In(a, v) => R.m.pte[a] = None
    <3>1. \A a \in Pages : In(a, v) => T.m.pte[a] = None
      BY <1>2, <2>3, NewAreaEmpty, SMTT(30)
    <3> QED BY <2>4, <2>5, <3>1, ZenonT(30)
  <2>10. Added(R, U, G, MappedIn(from, v), Carried(from))
    BY <2>1, <2>2, <2>8, <2>9, CopiesRange
  <2>11. Held(U, G) /\ Grown(R, U) /\ U.m.vmas = T.m.vmas \cup {v}
    BY <2>4, <2>5, <2>10, ZenonT(30) DEF Added
  <2>12. Grown(S, U)
    BY <1>2, <2>8, <2>11, GrownTrans
  <2>13. ASSUME U.ok, NEW u \in U.m.vmas, NEW a \in MappedIn(from, u)
         PROVE  U.m.pte[a] # None /\ U.content[U.m.pte[a].f] = Carried(from)[a]
    <3>1. CASE u = v
      BY <2>10, <2>13, <3>1, Zenon DEF Added
    <3>2. CASE u # v
      <4>1. u \in T.m.vmas /\ a \in Pages
        BY <2>11, <3>2, Zenon DEF MappedIn
      <4>2. T.m.pte[a] # None /\ T.content[T.m.pte[a].f] = Carried(from)[a]
        BY <1>5, <4>1, Zenon DEF Duped
      <4>3. R.m.pte[a] # None /\ R.content[R.m.pte[a].f] = Carried(from)[a]
        BY <2>4, <2>5, <4>2, Zenon
      <4>4. Held(R, G) /\ Grown(R, U) /\ R.m.pte[a] # None
        BY <2>8, <2>11, <4>3, Zenon
      <4>5. SameAt(R, U, a)
        BY <4>1, <4>4, KeepsContent, Zenon
      <4> QED BY <4>3, <4>5, Zenon DEF SameAt
    <3> QED BY <3>1, <3>2, Zenon
  <2>14. U.m.vmas \subseteq from.vmas
    BY <1>2, <2>2, <2>11, Zenon
  <2>15. Cardinality(U.m.vmas) = Cardinality(T.m.vmas) + 1
    <3>1. IsFiniteSet(T.m.vmas)
      BY <1>2, Zenon DEF SpaceOK, AreasOK
    <3> QED BY <2>2, <2>11, <3>1, FS_AddElement, Zenon
  <2>16. DupedMore(S, T, U, G, from)
    BY <1>5, <2>11, <2>12, <2>13, <2>14, <2>15, Zenon DEF DupedMore, Duped
  <2> QED BY <2>16, Zenon DEF U
<1> QED BY <1>3, <1>4, <1>5, Zenon

CopyDone(S, T, G, from) == Duped(S, T, G, from) /\ (T.ok => T.m.vmas = from.vmas)

\* dup_mmap makes a copy with the same areas, or fails.
LEMMA DupsAll ==
    ASSUME NEW from, Source(from), NEW G, NEW S, Held(S, G), S.m.vmas = {}, NEW create
    PROVE  CopyDone(S, dup_mmap(S, from, create), G, from)
<1> DEFINE N == Cardinality(from.vmas)
           X == { T \in Op : Duped(S, T, G, from) }
           Step(T, n) == dup_area(T, from, n = create)
           Body(c) == [n \in 0..N |-> IF n = 0 THEN S ELSE Step(c[n - 1], n)]
           c == CHOOSE c : c = Body(c)
           Safe(T, n) == IF T.ok /\ T.m.vmas = from.vmas THEN T ELSE Step(T, n)
           s == [n \in 1..N |-> [T \in X |-> Safe(T, n)]]
           Counts(T, n) == T.ok => Cardinality(T.m.vmas) = n
<1>1. IsFiniteSet(from.vmas) /\ N \in Nat
  <2>1. IsFiniteSet(from.vmas)
    BY Zenon DEF Source, AreasOK
  <2> QED BY <2>1, FS_CardinalityType, Zenon
<1>2. ASSUME NEW n \in 1..N
      PROVE  n - 1 \in 0..N /\ n \in 0..N /\ n # 0 /\ n - 1 # N /\ (n - 1) + 1 = n
  BY <1>1
<1>3. S \in X /\ Counts(S, 0)
  <2>1. S \in Op
    BY Zenon DEF Held
  <2>2. Duped(S, S, G, from)
    BY GrownSame, Zenon DEF Duped
  <2>3. Cardinality(S.m.vmas) = 0
    BY FS_EmptySet
  <2> QED BY <2>1, <2>2, <2>3, Zenon
<1>4. ASSUME NEW n \in 1..N, NEW T \in X, T.ok => T.m.vmas # from.vmas
      PROVE  Step(T, n) \in X /\ (Counts(T, n - 1) => Counts(Step(T, n), n))
  <2> DEFINE U == Step(T, n)
  <2>1. DupedMore(S, T, U, G, from)
    BY <1>4, DupsArea, Zenon
  <2> HIDE DEF U
  <2>2. Duped(S, U, G, from) /\ U \in Op
    BY <2>1, Zenon DEF DupedMore, Duped, Held
  <2>3. Counts(T, n - 1) => Counts(U, n)
    BY <1>2, <2>1, Zenon DEF DupedMore
  <2> QED BY <2>2, <2>3, Zenon DEF U
<1> HIDE DEF Step
<1>5. s \in [1..N -> [X -> X]]
  <2>1. ASSUME NEW n \in 1..N, NEW T \in X PROVE Safe(T, n) \in X
    BY <1>4, Zenon
  <2> HIDE DEF Safe, N, X
  <2> QED BY <2>1, Zenon
<1>6. Runs(X, S, N, s)
  <2> HIDE DEF s, N, X
  <2> QED BY <1>1, <1>3, <1>5, LoopRuns
<1>7. PICK h \in [0..N -> X] : h[0] = S /\ \A n \in 1..N : h[n] = s[n][h[n - 1]]
  BY <1>6, Zenon DEF Runs
<1>8. ASSUME NEW T \in X, NEW n \in 1..N, Counts(T, n - 1) PROVE T.ok => T.m.vmas # from.vmas
  BY <1>2, <1>8, Zenon
<1> HIDE DEF X, N
<1>9. \A n \in 1..N : h[n - 1] \in X /\ h[n] = Safe(h[n - 1], n)
  <2> HIDE DEF Safe
  <2> QED BY <1>2, <1>7, Zenon
<1>10. ASSUME NEW g, g[0] = S,
              \A n \in 1..N : (g[n - 1] \in X /\ Counts(g[n - 1], n - 1))
                                => g[n] \in X /\ Counts(g[n], n)
       PROVE  \A n \in 0..N : g[n] \in X /\ Counts(g[n], n)
  <2> HIDE DEF Counts
  <2> DEFINE Good == { n \in 0..N : g[n] \in X /\ Counts(g[n], n) }
  <2>1. 0 \in Good
    <3>1. 0 \in 0..N
      BY <1>1
    <3> QED BY <1>3, <1>10, <3>1, Zenon
  <2>2. ASSUME NEW n \in 1..N, n - 1 \in Good PROVE n \in Good
    BY <1>2, <1>10, <2>2, Zenon
  <2>3. 0..N \subseteq Good
    <3> HIDE DEF Good
    <3> QED BY <1>1, <2>1, <2>2, BoundedInduction
  <2> QED BY <2>3, Zenon
<1>11. \A n \in 1..N : (h[n - 1] \in X /\ Counts(h[n - 1], n - 1)) => h[n] \in X /\ Counts(h[n], n)
  BY <1>4, <1>8, <1>9
<1>12. \A n \in 0..N : h[n] \in X /\ Counts(h[n], n)
  <2> HIDE DEF Counts
  <2> QED BY <1>7, <1>10, <1>11, Zenon
<1>13. \A n \in 1..N : h[n] = Step(h[n - 1], n)
  BY <1>2, <1>8, <1>9, <1>12
<1>14. h = Body(h)
  <2>1. \A n \in 0..N : n # 0 => n \in 1..N
    BY <1>1
  <2>2. h = [n \in 0..N |-> h[n]]
    BY <1>7, Zenon
  <2> QED BY <1>7, <1>13, <2>1, <2>2, Zenon
<1>15. c = Body(c)
  <2> HIDE DEF Body
  <2> QED BY <1>14, Zenon
<1>16. dup_mmap(S, from, create) = c[N]
  BY Zenon DEF dup_mmap, N, Step
<1> HIDE DEF c
<1>17. c[0] = S /\ \A n \in 1..N : c[n] = Step(c[n - 1], n)
  <2>1. 0 \in 0..N
    BY <1>1
  <2> QED BY <1>2, <1>15, <2>1, ZenonT(30)
<1>18. \A n \in 1..N : (c[n - 1] \in X /\ Counts(c[n - 1], n - 1)) => c[n] \in X /\ Counts(c[n], n)
  BY <1>4, <1>8, <1>17
<1>19. \A n \in 0..N : c[n] \in X /\ Counts(c[n], n)
  <2> HIDE DEF Counts
  <2> QED BY <1>10, <1>17, <1>18
<1>20. c[N] \in X /\ Counts(c[N], N)
  <2>1. N \in 0..N
    BY <1>1
  <2> QED BY <1>19, <2>1, Zenon
<1> DEFINE T == c[N]
<1>21. Duped(S, T, G, from) /\ (T.ok => Cardinality(T.m.vmas) = Cardinality(from.vmas))
  BY <1>20, Zenon DEF X, N
<1>22. T.m.vmas \subseteq from.vmas
  BY <1>21, Zenon DEF Duped
<1> HIDE DEF T
<1>23. T.ok => T.m.vmas = from.vmas
  BY <1>1, <1>21, <1>22, FS_Subset
<1> QED BY <1>16, <1>21, <1>23, Zenon DEF CopyDone, T

-----------------------------------------------------------------------------

\* What exit_mmap gives back.
Looked(m) == UNION { Unmapped(m, v.start, v.end) : v \in m.vmas }
Freed(m) ==
    { m.pte[p].f : p \in { p \in Looked(m) : m.pte[p] # None } }
    \cup { m.pt[t] : t \in UNION { exit_range(m, v.start, v.end) : v \in m.vmas } }

\* It is all that the address space holds but for its directory.
LEMMA FreesAll ==
    ASSUME NEW m, SpaceOK(m)
    PROVE  Freed(m) \subseteq Frames /\ \A f : Holds(m, f) <=> f \in Freed(m) \/ f = m.pgdir
<1>1. m \in mm_struct
  BY Zenon DEF SpaceOK
<1>2. UserPages \in Nat /\ Pages = 0..(UserPages - 1)
  BY PageNumbers, Zenon
<1>3. ASSUME NEW v \in m.vmas
      PROVE  /\ v.start \in 0..UserPages /\ v.end \in 0..UserPages /\ v.start < v.end
             /\ \A q : q \in v.start..(v.end - 1) <=> q \in Pages /\ In(q, v)
  <2>1. v \in vma_struct /\ v.start < v.end
    BY <1>1 DEF SpaceOK, AreasOK, mm_struct
  <2>2. v.start \in 0..UserPages /\ v.end \in 0..UserPages
    BY <2>1 DEF vma_struct
  <2> QED BY <1>2, <2>1, <2>2 DEF In
<1>4. \A p : p \in Looked(m) <=> p \in Pages /\ m.pt[PDX(p)] # None /\ \E v \in m.vmas : In(p, v)
  <2>1. ASSUME NEW v \in m.vmas
        PROVE  \A p : p \in Unmapped(m, v.start, v.end) <=> p \in Pages /\ m.pt[PDX(p)] # None /\ In(p, v)
    <3>1. Unmapped(m, v.start, v.end) = WithTable(m, v.start, v.end)
      BY <1>3, UnmappedIs
    <3> QED BY <1>3, <3>1, Zenon DEF WithTable
  <2> QED BY <2>1, Zenon DEF Looked
<1>5. \A p : p \in Looked(m) /\ m.pte[p] # None <=> p \in Pages /\ m.pte[p] # None
  BY <1>4, Zenon DEF SpaceOK, TablesOK
<1>6. ASSUME NEW v \in m.vmas
      PROVE  \A t : t \in exit_range(m, v.start, v.end) <=> t \in Tables /\ m.pt[t] # None /\ Over(t, v)
  <2>1. v.start \in Nat /\ v.end - 1 \in Nat /\ v.start <= v.end - 1 /\ v.end - 1 <= UserPages - 1
        /\ UserPages - 1 \in Nat
    BY <1>2, <1>3
  <2>2. PDX(v.start) \in Nat /\ PDX(v.end - 1) \in Nat /\ PDX(v.end - 1) <= PDX(UserPages - 1)
        /\ PDX(UserPages - 1) \in Nat
    BY <2>1, PageNumbers, Zenon
  <2>3. Tables = 0..PDX(UserPages - 1)
    BY PageNumbers, Zenon
  <2>4. \A t : t \in PDX(v.start)..PDX(v.end - 1) <=> t \in Tables /\ Over(t, v)
    BY <2>2, <2>3 DEF Over
  <2> QED BY <2>4, Zenon DEF exit_range
<1>7. \A t : t \in UNION { exit_range(m, v.start, v.end) : v \in m.vmas } <=>
               t \in Tables /\ m.pt[t] # None
  <2>1. \A t \in Tables : m.pt[t] # None => \E v \in m.vmas : Over(t, v)
    BY Zenon DEF SpaceOK, TablesOK
  <2> QED BY <1>6, <2>1, Zenon
<1>8. \A f : f \in Freed(m) <=> \/ \E t \in Tables : m.pt[t] # None /\ f = m.pt[t]
                                \/ \E a \in Pages : m.pte[a] # None /\ f = m.pte[a].f
  <2> DEFINE A == { p \in Looked(m) : m.pte[p] # None }
             B == UNION { exit_range(m, v.start, v.end) : v \in m.vmas }
  <2>1. \A p : p \in A <=> p \in Pages /\ m.pte[p] # None
    BY <1>5, Zenon
  <2>2. \A t : t \in B <=> t \in Tables /\ m.pt[t] # None
    BY <1>7, Zenon
  <2>3. Freed(m) = { m.pte[p].f : p \in A } \cup { m.pt[t] : t \in B }
    BY Zenon DEF Freed
  <2> HIDE DEF A, B
  <2> QED BY <2>1, <2>2, <2>3, Zenon
<1>9. (\A t \in Tables : m.pt[t] # None => m.pt[t] \in Frames)
      /\ \A a \in Pages : m.pte[a] # None => m.pte[a].f \in Frames
  BY <1>1 DEF mm_struct, PTE
<1> QED BY <1>8, <1>9, ZenonT(30) DEF Holds

\* T follows S when the address space has been destroyed.
Gone(S, T, G) ==
    /\ T.free = { f \in Frames : f \in G } /\ T.m = None /\ T.content \in [Frames -> Contents]
    /\ \A f \in Frames : f \notin G => T.content[f] = S.content[f]
    /\ T.flush \in BOOLEAN

\* exit_mmap, put_pgdir and mm_destroy give back all that the address space holds.
LEMMA DestroysAll ==
    ASSUME NEW G, NEW S, Held(S, G)
    PROVE  Gone(S, Destroyed(S), G)
<1> DEFINE m == S.m
           R1 == [S EXCEPT !.flush = @ \/ { p \in Looked(m) : m.pte[p] # None } # {}]
           F1 == Freed(m)
           R2 == GivenBack(R1, F1)
           F2 == {m.pgdir}
           R3 == GivenBack(R2, F2)
           T == Destroyed(S)
<1>1. exit_mmap(S) = R2
  BY Zenon DEF exit_mmap, Freed, Looked
<1>2. T = [R3 EXCEPT !.m = None]
  BY <1>1, Zenon DEF Destroyed, mm_destroy
<1>3. S \in Op /\ SpaceOK(m) /\ m \in mm_struct
  BY Zenon DEF Held, SpaceOK
<1>4. F1 \subseteq Frames /\ (\A f : Holds(m, f) <=> f \in F1 \/ f = m.pgdir) /\ F2 \subseteq Frames
  <2>1. m.pgdir \in Frames
    BY <1>3 DEF mm_struct
  <2> QED BY <1>3, <2>1, FreesAll, Zenon
<1>5. ASSUME NEW Q \in Op, NEW F \in SUBSET Frames
      PROVE  LET U == GivenBack(Q, F)
             IN  /\ U \in Op /\ U.free = Q.free \cup F
                 /\ \A f \in Frames : U.content[f] = IF f \in F THEN "junk" ELSE Q.content[f]
  <2> DEFINE d == [f \in Frames |-> IF f \in F THEN "junk" ELSE Q.content[f]]
             U == GivenBack(Q, F)
  <2>1. "junk" \in Contents
    BY DEF Contents
  <2>2. d \in [Frames -> Contents]
    BY <2>1 DEF Op
  <2>3. U = [Q EXCEPT !.free = @ \cup F, !.content = d]
    BY Zenon DEF GivenBack
  <2>4. \A f \in Frames : d[f] = IF f \in F THEN "junk" ELSE Q.content[f]
    BY Zenon
  <2> HIDE DEF d, U
  <2>5. U \in Op /\ U.free = Q.free \cup F /\ U.content = d
    BY <2>2, <2>3, Zenon DEF Op
  <2> QED BY <2>4, <2>5, Zenon DEF U
<1>6. R1 \in Op /\ R1.free = S.free /\ R1.content = S.content
  <2> DEFINE b == S.flush \/ { p \in Looked(m) : m.pte[p] # None } # {}
  <2>1. b \in BOOLEAN
    BY Zenon
  <2>2. R1 = [S EXCEPT !.flush = b]
    BY <1>3 DEF Op
  <2> HIDE DEF b, R1
  <2> QED BY <1>3, <2>1, <2>2 DEF Op
<1> HIDE DEF R1, F1, F2
<1>7. /\ R2 \in Op /\ R2.free = S.free \cup F1
      /\ \A f \in Frames : R2.content[f] = IF f \in F1 THEN "junk" ELSE S.content[f]
  BY <1>4, <1>5, <1>6
<1> HIDE DEF R2
<1>8. /\ R3 \in Op /\ R3.free = S.free \cup F1 \cup F2
      /\ \A f \in Frames : f \notin F1 \cup F2 => R3.content[f] = S.content[f]
  BY <1>4, <1>5, <1>7
<1> HIDE DEF R3, T
<1>9. /\ T.free = R3.free /\ T.m = None /\ T.content = R3.content /\ T.flush = R3.flush
      /\ R3.content \in [Frames -> Contents] /\ R3.flush \in BOOLEAN
  BY <1>2, <1>8 DEF Op
<1>10. T.free = { f \in Frames : f \in G }
  <2>1. \A f \in Frames : f \in G <=> f \in S.free \/ f \in F1 \/ f \in F2
    BY <1>4, Zenon DEF Held, F2
  <2>2. T.free = S.free \cup F1 \cup F2
    BY <1>8, <1>9, Zenon
  <2>3. S.free \subseteq Frames
    BY <1>3 DEF Op
  <2>4. \A f : f \in T.free <=> f \in Frames /\ f \in G
    BY <1>4, <2>1, <2>2, <2>3, Zenon
  <2> QED BY <2>4, Zenon
<1>11. \A f \in Frames : f \notin G => f \notin F1 \cup F2
  BY <1>4, Zenon DEF Held, F2
<1>12. Gone(S, T, G)
  BY <1>8, <1>9, <1>10, <1>11, Zenon DEF Gone
<1> QED BY <1>12, Zenon DEF T

-----------------------------------------------------------------------------

(* The areas that find_vma finds.                                          *)

FindIs(m, p, v) ==
    /\ v \in m.vmas \cup {None}
    /\ v = None => \A u \in m.vmas : u.end <= p
    /\ v # None => p < v.end /\ \A u \in m.vmas : p < u.end => v.start <= u.start

\* find_vma finds the first area that ends above the address.
LEMMA FindsVma ==
    ASSUME NEW m, m \in mm_struct, AreasOK(m), NEW p \in Nat
    PROVE  FindIs(m, p, find_vma(m, p))
<1> DEFINE after == { v \in m.vmas : p < v.end }
           v == find_vma(m, p)
<1>1. UserPages \in Nat /\ None \notin vma_struct
  BY PageNumbers, NoneFacts, Zenon
<1>2. ASSUME NEW u \in m.vmas PROVE u \in vma_struct /\ u.start \in Nat /\ u.end \in Nat /\ u # None
  <2>1. u \in vma_struct
    BY DEF mm_struct
  <2>2. u.start \in Nat /\ u.end \in Nat
    BY <1>1, <2>1 DEF vma_struct
  <2> QED BY <1>1, <2>1, <2>2, Zenon
<1>3. CASE m.cache # None /\ m.cache.start <= p /\ p < m.cache.end
  <2>1. v = m.cache
    BY <1>3, Zenon DEF find_vma
  <2> HIDE DEF v
  <2>2. m.cache \in m.vmas
    BY <1>3, Zenon DEF AreasOK
  <2>3. ASSUME NEW u \in m.vmas, p < u.end PROVE m.cache.start <= u.start
    <3>1. u = m.cache \/ Apart(u, m.cache)
      BY <2>2, Zenon DEF AreasOK
    <3> QED BY <1>2, <1>3, <2>2, <2>3, <3>1 DEF Apart
  <2>4. FindIs(m, p, v)
    BY <1>2, <1>3, <2>1, <2>2, <2>3, ZenonT(30) DEF FindIs
  <2> QED BY <2>4, Zenon DEF v
<1>4. CASE ~ (m.cache # None /\ m.cache.start <= p /\ p < m.cache.end) /\ after = {}
  <2>1. v = None
    BY <1>4, Zenon DEF find_vma
  <2> HIDE DEF v
  <2>2. \A u \in m.vmas : ~ (p < u.end)
    BY <1>4, Zenon
  <2>3. \A u \in m.vmas : u.end <= p
    BY <1>2, <2>2
  <2>4. FindIs(m, p, v)
    BY <2>1, <2>3, Zenon DEF FindIs
  <2> QED BY <2>4, Zenon DEF v
<1>5. CASE ~ (m.cache # None /\ m.cache.start <= p /\ p < m.cache.end) /\ after # {}
  <2>1. v = CHOOSE x \in after : \A u \in after : x.start <= u.start
    BY <1>5, Zenon DEF find_vma
  <2> HIDE DEF v
  <2>2. \E x \in after : \A u \in after : x.start <= u.start
    <3> DEFINE D == { u.start : u \in after }
    <3>1. D \in SUBSET Nat /\ D # {}
      BY <1>2, <1>5, Zenon
    <3>2. PICK d \in D : \A e \in D : d <= e
      <4> HIDE DEF D
      <4> QED BY <3>1, Least, Zenon
    <3>3. PICK x \in after : d = x.start
      BY Zenon
    <3>4. \A u \in after : x.start <= u.start
      BY <3>2, <3>3, Zenon
    <3> QED BY <3>4, Zenon
  <2>3. v \in after /\ \A u \in after : v.start <= u.start
    BY <2>1, <2>2, Zenon
  <2>4. FindIs(m, p, v)
    BY <1>2, <2>3, Zenon DEF FindIs
  <2> QED BY <2>4, Zenon DEF v
<1> QED BY <1>3, <1>4, <1>5, Zenon

\* An area that mm_map does not refuse.
LEMMA NotRefused ==
    ASSUME NEW m, m \in mm_struct, AreasOK(m), NEW v, v.start \in Nat, v.end \in Nat,
           ~ Refused(m, v)
    PROVE  /\ v.start \in 0..UserPages /\ v.end \in 0..UserPages /\ v.start < v.end
           /\ \A u \in m.vmas : Apart(u, v)
<1> DEFINE x == find_vma(m, v.start)
<1>1. USER_ACCESS(v.start, v.end) /\ ~ (x # None /\ v.end > x.start)
  BY Zenon DEF Refused
<1>2. FindIs(m, v.start, x)
  BY FindsVma, Zenon
<1> HIDE DEF x
<1>3. UserPages \in Nat
  BY PageNumbers, Zenon
<1>4. v.start \in 0..UserPages /\ v.end \in 0..UserPages /\ v.start < v.end
  BY <1>1, <1>3 DEF USER_ACCESS
<1>5. \A u \in m.vmas : u.start \in Nat /\ u.end \in Nat
  BY <1>3 DEF mm_struct, vma_struct
<1>6. CASE x = None
  <2>1. \A u \in m.vmas : Apart(u, v)
    BY <1>2, <1>6, Zenon DEF FindIs, Apart
  <2> QED BY <1>4, <2>1, Zenon
<1>7. CASE x # None
  <2>1. x \in m.vmas /\ v.end <= x.start
    <3>1. x \in m.vmas
      BY <1>2, <1>7, Zenon DEF FindIs
    <3> QED BY <1>1, <1>5, <1>7, <3>1
  <2>2. ASSUME NEW u \in m.vmas PROVE Apart(u, v)
    <3>1. v.start < u.end => x.start <= u.start
      BY <1>2, <1>7, Zenon DEF FindIs
    <3>2. u.start \in Nat /\ u.end \in Nat /\ x.start \in Nat
      BY <1>5, <2>1, Zenon
    <3> QED BY <2>1, <3>1, <3>2 DEF Apart
  <2> QED BY <1>4, <2>2, Zenon
<1> QED BY <1>4, <1>6, <1>7, Zenon
-----------------------------------------------------------------------------
(* All address spaces: F is free, M the address spaces, C what the pages   *)
(* hold, V what the programs have written.                                 *)

LiveOf(M) == { m \in Mm : M[m] # None }

\* Every physical page is free or held by one address space.
OwnedBy(F, M) ==
    /\ \A f \in Frames : f \in F <=> \A m \in LiveOf(M) : ~ Holds(M[m], f)
    /\ \A m, n \in LiveOf(M), f \in Frames : Holds(M[m], f) /\ Holds(M[n], f) => m = n

Agrees(m, v, c) ==
    \A a \in Pages : v[a] # None => m.pte[a] # None /\ c[m.pte[a].f] = v[a]

SpacesOK(M, V, C) ==
    \A m \in LiveOf(M) : SpaceOK(M[m]) /\ Mapped(M[m]) /\ Agrees(M[m], V[m], C)

\* The physical pages that no other address space holds.
Budget(M, id) == { f \in Frames : \A n \in LiveOf(M) \ {id} : ~ Holds(M[n], f) }

Table(M) == M \in [Mm -> mm_struct \cup {None}]

Put(M, id, x, N) ==
    /\ Table(N)
    /\ N[id] = x
    /\ \A n \in Mm \ {id} : N[n] = M[n]
    /\ LiveOf(N) = IF x = None THEN LiveOf(M) \ {id} ELSE LiveOf(M) \cup {id}

\* One address space changes.
LEMMA PutIn ==
    ASSUME NEW M, Table(M), NEW id \in Mm, NEW x \in mm_struct \cup {None}
    PROVE  Put(M, id, x, [M EXCEPT ![id] = x])
<1> DEFINE N == [M EXCEPT ![id] = x]
<1>1. Table(N) /\ N[id] = x /\ \A n \in Mm \ {id} : N[n] = M[n]
  BY DEF Table
<1> HIDE DEF N
<1>2. LiveOf(N) = IF x = None THEN LiveOf(M) \ {id} ELSE LiveOf(M) \cup {id}
  BY <1>1, Zenon DEF LiveOf
<1>3. Put(M, id, x, N)
  BY <1>1, <1>2, Zenon DEF Put
<1> QED BY <1>3, Zenon DEF N

\* An operation on a live address space starts with its own pages and the free ones.
LEMMA HeldNow ==
    ASSUME NEW M, NEW F, OwnedBy(F, M), NEW id \in LiveOf(M), NEW S \in Op, S.free = F,
           SpaceOK(S.m), \A f : Holds(S.m, f) <=> Holds(M[id], f)
    PROVE  Held(S, Budget(M, id))
<1>1. S.free \subseteq Frames
  BY DEF Op
<1>2. \A f \in S.free : ~ Holds(S.m, f)
  BY <1>1, Zenon DEF OwnedBy
<1>3. ASSUME NEW f \in Frames PROVE f \in Budget(M, id) <=> f \in S.free \/ Holds(S.m, f)
  <2>1. f \in S.free <=> \A m \in LiveOf(M) : ~ Holds(M[m], f)
    BY Zenon DEF OwnedBy
  <2>2. Holds(M[id], f) => \A n \in LiveOf(M) \ {id} : ~ Holds(M[n], f)
    BY Zenon DEF OwnedBy
  <2> QED BY <2>1, <2>2, Zenon DEF Budget
<1> QED BY <1>2, <1>3, Zenon DEF Held

\* A new address space may have what is free.
LEMMA BudgetNew ==
    ASSUME NEW M, NEW F \in SUBSET Frames, OwnedBy(F, M), NEW id, id \notin LiveOf(M)
    PROVE  Budget(M, id) = F
<1>1. \A f \in Frames : f \in F <=> \A m \in LiveOf(M) : ~ Holds(M[m], f)
  BY Zenon DEF OwnedBy
<1>2. LiveOf(M) \ {id} = LiveOf(M)
  BY Zenon
<1> QED BY <1>1, <1>2, Zenon DEF Budget

\* What is free is in everybody's reach.
LEMMA FreeInBudget ==
    ASSUME NEW M, NEW F \in SUBSET Frames, OwnedBy(F, M), NEW id
    PROVE  F \subseteq Budget(M, id)
BY Zenon DEF OwnedBy, Budget

\* An address space changes, or is made.
LEMMA OwnedPut ==
    ASSUME NEW M, Table(M), NEW F, OwnedBy(F, M), NEW id \in Mm, NEW T, Held(T, Budget(M, id))
    PROVE  OwnedBy(T.free, [M EXCEPT ![id] = T.m])
<1> DEFINE N == [M EXCEPT ![id] = T.m]
<1>1. T.m \in mm_struct /\ T.m # None
  <2>1. T.m \in mm_struct
    BY Zenon DEF Held, SpaceOK
  <2> QED BY <2>1, NoneFacts, Zenon
<1>P. Put(M, id, T.m, N)
  BY <1>1, PutIn, Zenon
<1> HIDE DEF N
<1>2. /\ N[id] = T.m /\ (\A n \in Mm \ {id} : N[n] = M[n]) /\ LiveOf(N) = LiveOf(M) \cup {id}
  BY <1>1, <1>P, Zenon DEF Put
<1>3. LiveOf(M) \subseteq Mm
  BY Zenon DEF LiveOf
<1>4. ASSUME NEW f \in Frames PROVE f \in T.free <=> \A m \in LiveOf(N) : ~ Holds(N[m], f)
  <2>1. f \in Budget(M, id) <=> f \in T.free \/ Holds(T.m, f)
    BY Zenon DEF Held
  <2>2. f \in T.free => ~ Holds(T.m, f)
    BY Zenon DEF Held
  <2>3. f \in Budget(M, id) <=> \A n \in LiveOf(M) \ {id} : ~ Holds(M[n], f)
    BY Zenon DEF Budget
  <2>4. \A n \in LiveOf(M) \ {id} : N[n] = M[n]
    BY <1>2, <1>3, Zenon
  <2> QED BY <1>2, <2>1, <2>2, <2>3, <2>4, Zenon
<1>5. ASSUME NEW m \in LiveOf(N), NEW n \in LiveOf(N), NEW f \in Frames,
             Holds(N[m], f), Holds(N[n], f)
      PROVE  m = n
  <2>1. ASSUME NEW k \in LiveOf(M) \ {id}, Holds(N[k], f) PROVE ~ Holds(T.m, f) /\ Holds(M[k], f)
    <3>1. N[k] = M[k]
      BY <1>2, <1>3, Zenon
    <3>2. f \notin Budget(M, id)
      BY <2>1, <3>1, Zenon DEF Budget
    <3> QED BY <2>1, <3>1, <3>2, Zenon DEF Held
  <2>2. m \in LiveOf(M) \ {id} /\ n \in LiveOf(M) \ {id} => m = n
    BY <1>5, <2>1, Zenon DEF OwnedBy
  <2> QED BY <1>2, <1>5, <2>1, <2>2, Zenon
<1> QED BY <1>4, <1>5, Zenon DEF OwnedBy, N

\* An address space goes.
LEMMA OwnedDrop ==
    ASSUME NEW M, Table(M), NEW F, OwnedBy(F, M), NEW id \in Mm
    PROVE  OwnedBy(Budget(M, id), [M EXCEPT ![id] = None])
<1> DEFINE N == [M EXCEPT ![id] = None]
<1>P. Put(M, id, None, N)
  BY PutIn
<1> HIDE DEF N
<1>1. /\ (\A n \in Mm \ {id} : N[n] = M[n]) /\ LiveOf(N) = LiveOf(M) \ {id}
  BY <1>P, Zenon DEF Put
<1>2. \A n \in LiveOf(N) : n \in LiveOf(M) \ {id} /\ N[n] = M[n]
  BY <1>1, Zenon DEF LiveOf
<1>3. ASSUME NEW f \in Frames PROVE f \in Budget(M, id) <=> \A m \in LiveOf(N) : ~ Holds(N[m], f)
  BY <1>1, <1>2, Zenon DEF Budget
<1>4. \A m, n \in LiveOf(N), f \in Frames : Holds(N[m], f) /\ Holds(N[n], f) => m = n
  BY <1>2, Zenon DEF OwnedBy
<1> QED BY <1>3, <1>4, Zenon DEF OwnedBy, N

\* Only pages that id holds or that are free change.
Kept(M, id, C, D) == \A f \in Frames : f \notin Budget(M, id) => D[f] = C[f]

\* What the programs of the other address spaces have written stays.
Viewed(V, id, W) ==
    W \in [Mm -> [Pages -> Contents \cup {None}]] /\ \A n \in Mm \ {id} : W[n] = V[n]

\* The other address spaces keep what their pages hold.
LEMMA SpacesPut ==
    ASSUME NEW M, Table(M), NEW V, NEW C, SpacesOK(M, V, C), NEW id \in Mm,
           NEW x \in mm_struct \cup {None}, NEW W, NEW D,
           Viewed(V, id, W), Kept(M, id, C, D),
           x # None => SpaceOK(x) /\ Mapped(x) /\ Agrees(x, W[id], D)
    PROVE  SpacesOK([M EXCEPT ![id] = x], W, D)
<1> DEFINE N == [M EXCEPT ![id] = x]
<1>P. Put(M, id, x, N)
  BY PutIn, Zenon
<1> HIDE DEF N
<1>1. /\ N[id] = x /\ (\A n \in Mm \ {id} : N[n] = M[n])
      /\ LiveOf(N) = IF x = None THEN LiveOf(M) \ {id} ELSE LiveOf(M) \cup {id}
  BY <1>P, Zenon DEF Put
<1>2. ASSUME NEW m \in LiveOf(N), m # id
      PROVE  SpaceOK(N[m]) /\ Mapped(N[m]) /\ Agrees(N[m], W[m], D)
  <2>1. m \in LiveOf(M) /\ N[m] = M[m] /\ W[m] = V[m]
    BY <1>1, <1>2, Zenon DEF LiveOf, Viewed
  <2>2. SpaceOK(M[m]) /\ Mapped(M[m]) /\ Agrees(M[m], V[m], C)
    BY <2>1, Zenon DEF SpacesOK
  <2>3. ASSUME NEW a \in Pages, V[m][a] # None
        PROVE  M[m].pte[a] # None /\ D[M[m].pte[a].f] = V[m][a]
    <3>1. M[m].pte[a] # None /\ C[M[m].pte[a].f] = V[m][a]
      BY <2>2, <2>3, Zenon DEF Agrees
    <3>2. Holds(M[m], M[m].pte[a].f)
      BY <3>1, Zenon DEF Holds
    <3>3. M[m] \in mm_struct
      BY <2>2, ZenonT(30) DEF SpaceOK
    <3>4. M[m].pte[a].f \in Frames
      BY <3>1, <3>3 DEF mm_struct, PTE
    <3>5. M[m].pte[a].f \notin Budget(M, id)
      BY <1>2, <2>1, <3>2, Zenon DEF Budget
    <3> QED BY <3>1, <3>4, <3>5, Zenon DEF Kept
  <2> QED BY <2>1, <2>2, <2>3, Zenon DEF Agrees
<1>3. ASSUME NEW m \in LiveOf(N), m = id
      PROVE  SpaceOK(N[m]) /\ Mapped(N[m]) /\ Agrees(N[m], W[m], D)
  BY <1>1, <1>3, Zenon
<1> QED BY <1>2, <1>3, Zenon DEF SpacesOK, N

-----------------------------------------------------------------------------

(* The pages and the address spaces of the whole system.                   *)

Heap(F, C, M, V) ==
    /\ F \subseteq Frames /\ C \in [Frames -> Contents] /\ Table(M)
    /\ V \in [Mm -> [Pages -> Contents \cup {None}]]
    /\ OwnedBy(F, M) /\ SpacesOK(M, V, C)

\* One address space becomes T.m, the others keep what they have.
LEMMA HeapPut ==
    ASSUME NEW F, NEW C, NEW M, NEW V, Heap(F, C, M, V), NEW id \in Mm,
           NEW T, Held(T, Budget(M, id)), Mapped(T.m), Kept(M, id, C, T.content),
           NEW W, Viewed(V, id, W), Agrees(T.m, W[id], T.content)
    PROVE  Heap(T.free, T.content, [M EXCEPT ![id] = T.m], W)
<1>1. T \in Op /\ SpaceOK(T.m) /\ T.m \in mm_struct
  BY Zenon DEF Held, SpaceOK
<1>2. T.free \subseteq Frames /\ T.content \in [Frames -> Contents]
  BY <1>1 DEF Op
<1>3. Table([M EXCEPT ![id] = T.m])
  BY <1>1, PutIn, Zenon DEF Put, Heap
<1>4. OwnedBy(T.free, [M EXCEPT ![id] = T.m])
  BY OwnedPut, ZenonT(30) DEF Heap
<1>5. SpacesOK([M EXCEPT ![id] = T.m], W, T.content)
  BY <1>1, SpacesPut DEF Heap
<1> QED BY <1>2, <1>3, <1>4, <1>5, Zenon DEF Heap, Viewed

\* One address space is given up, the others keep what they have.
LEMMA HeapDrop ==
    ASSUME NEW F, NEW C, NEW M, NEW V, Heap(F, C, M, V), NEW id \in Mm,
           NEW S, NEW T, Gone(S, T, Budget(M, id)), Kept(M, id, C, S.content)
    PROVE  Heap(T.free, T.content, [M EXCEPT ![id] = T.m], V)
<1>1. T.m = None /\ T.content \in [Frames -> Contents]
  BY Zenon DEF Gone
<1>2. T.free = Budget(M, id)
  BY Zenon DEF Gone, Budget
<1>3. Table([M EXCEPT ![id] = T.m])
  BY <1>1, PutIn, Zenon DEF Put, Heap
<1>4. OwnedBy(T.free, [M EXCEPT ![id] = T.m])
  BY <1>1, <1>2, OwnedDrop, Zenon DEF Heap
<1>5. \A f \in Frames : f \notin Budget(M, id) => T.content[f] = C[f]
  BY ZenonT(30) DEF Gone, Kept
<1>6. SpacesOK([M EXCEPT ![id] = T.m], V, T.content)
  <2>1. Kept(M, id, C, T.content)
    BY <1>5, Zenon DEF Kept
  <2>2. Viewed(V, id, V)
    BY Zenon DEF Viewed, Heap
  <2> QED BY <1>1, <2>1, <2>2, SpacesPut, Zenon DEF Heap
<1>7. T.free \subseteq Frames
  BY <1>2, Zenon DEF Budget
<1> QED BY <1>1, <1>3, <1>4, <1>6, <1>7, ZenonT(30) DEF Heap

\* An operation that adds pages touches no page of others.
LEMMA KeptGrown ==
    ASSUME NEW F, NEW C, NEW M, NEW V, Heap(F, C, M, V), NEW id,
           NEW S, S.free \subseteq F, Kept(M, id, C, S.content), NEW T, Grown(S, T)
    PROVE  Kept(M, id, C, T.content)
<1>1. F \subseteq Budget(M, id)
  BY FreeInBudget, Zenon DEF Heap
<1>2. ASSUME NEW f \in Frames, f \notin Budget(M, id) PROVE T.content[f] = C[f]
  <2>1. f \in Frames \ S.free
    BY <1>1, <1>2, Zenon
  <2>2. T.content[f] = S.content[f]
    BY <2>1, Zenon DEF Grown
  <2> QED BY <1>2, <2>2, Zenon DEF Kept
<1> QED BY <1>2, Zenon DEF Kept

\* What an address space reads stays when pages are added.
LEMMA AgreesGrown ==
    ASSUME NEW G, NEW S, NEW T, Held(S, G), Grown(S, T), NEW v, Agrees(S.m, v, S.content)
    PROVE  Agrees(T.m, v, T.content)
<1>1. ASSUME NEW a \in Pages, v[a] # None
      PROVE  T.m.pte[a] # None /\ T.content[T.m.pte[a].f] = v[a]
  <2>1. S.m.pte[a] # None /\ S.content[S.m.pte[a].f] = v[a]
    BY <1>1, Zenon DEF Agrees
  <2>2. SameAt(S, T, a)
    BY <2>1, KeepsContent, Zenon
  <2> QED BY <2>1, <2>2, Zenon DEF SameAt
<1> QED BY <1>1, Zenon DEF Agrees

\* Pages that are added leave what is mapped inside the areas.
LEMMA MappedGrown ==
    ASSUME NEW S, NEW T, Grown(S, T), T.m.vmas = S.m.vmas, Mapped(S.m)
    PROVE  Mapped(T.m)
BY Zenon DEF Grown, Mapped

\* m and n differ at most in the count and in the cached area.
Similar(m, n) ==
    /\ n \in mm_struct /\ n.vmas = m.vmas /\ n.pgdir = m.pgdir /\ n.pt = m.pt /\ n.pte = m.pte
    /\ n.cache \in m.vmas \cup {None}

\* A changed count or cache changes nothing else.
LEMMA SimilarOK ==
    ASSUME NEW m, NEW n, SpaceOK(m), Similar(m, n)
    PROVE  /\ SpaceOK(n) /\ (\A f : Holds(n, f) <=> Holds(m, f)) /\ (Mapped(m) => Mapped(n))
           /\ \A v, c : Agrees(m, v, c) => Agrees(n, v, c)
<1>1. AreasOK(n)
  BY Zenon DEF AreasOK, Similar, SpaceOK
<1>2. SpaceOK(n) /\ \A f : Holds(n, f) <=> Holds(m, f)
  BY <1>1, MoreAreas, Zenon DEF Similar
<1>3. Mapped(m) => Mapped(n)
  BY Zenon DEF Mapped, Similar
<1>4. \A v, c : Agrees(m, v, c) => Agrees(n, v, c)
  BY Zenon DEF Agrees, Similar
<1> QED BY <1>2, <1>3, <1>4, Zenon
-----------------------------------------------------------------------------
(* Processes: P.                                                           *)

Process == [st : {"unused", "kernel", "user", "exec", "exiting"}, mm : Mm \cup {None},
            cr3 : Frames \cup {Boot}, load : Mm \cup {None}, seg : Nat, prog : Programs \cup {<<>>}]

UsersOf(P, m) == { p \in Proc : P[p].mm = m }

\* Only a process in user mode has an mm, only execve makes one.
ProcOK(r, M) ==
    /\ r.mm # None <=> r.st = "user"
    /\ r.mm # None => r.mm \in LiveOf(M) /\ r.cr3 = M[r.mm].pgdir
    /\ r.load # None =>
        r.st = "exec" /\ r.load \in LiveOf(M) /\ M[r.load].count = 0 /\ r.seg >= 1
    /\ r.st = "exec" => r.prog \in Programs

LoadsOnce(P) == \A p, q \in Proc : P[p].load # None /\ P[p].load = P[q].load => p = q

CountOK(P, M, m) ==
    /\ M[m].count = Cardinality(UsersOf(P, m))
    /\ M[m].count = 0 => \E p \in Proc : P[p].load = m

ProcsOK(P, M) ==
    /\ P \in [Proc -> Process]
    /\ \A p \in Proc : ProcOK(P[p], M)
    /\ LoadsOnce(P)
    /\ \A m \in LiveOf(M) : CountOK(P, M, m)

PutProc(P, p, r, Q) ==
    Q \in [Proc -> Process] /\ Q[p] = r /\ \A q \in Proc \ {p} : Q[q] = P[q]

\* The users of an address space that the process neither takes nor leaves.
LEMMA UserSame ==
    ASSUME NEW P, NEW p \in Proc, NEW r, NEW Q, PutProc(P, p, r, Q), NEW m,
           P[p].mm = m <=> r.mm = m
    PROVE  UsersOf(Q, m) = UsersOf(P, m)
BY Zenon DEF PutProc, UsersOf

\* The users of an address space can be counted.
LEMMA UsersFinite ==
    ASSUME NEW P, NEW m PROVE IsFiniteSet(UsersOf(P, m)) /\ Cardinality(UsersOf(P, m)) \in Nat
<1>1. UsersOf(P, m) \subseteq Proc /\ IsFiniteSet(Proc)
  BY VmAssumption, Zenon DEF UsersOf
<1>2. IsFiniteSet(UsersOf(P, m))
  BY <1>1, FS_Subset, ZenonT(30)
<1> QED BY <1>2, FS_CardinalityType, Zenon

\* A process that takes an address space is one user more.
LEMMA UserNew ==
    ASSUME NEW P, NEW p \in Proc, NEW r, NEW Q, PutProc(P, p, r, Q), NEW m,
           P[p].mm # m, r.mm = m
    PROVE  Cardinality(UsersOf(Q, m)) = Cardinality(UsersOf(P, m)) + 1
<1>1. UsersOf(Q, m) = UsersOf(P, m) \cup {p} /\ p \notin UsersOf(P, m)
  BY DEF PutProc, UsersOf
<1>2. IsFiniteSet(UsersOf(P, m))
  BY UsersFinite, Zenon
<1> QED BY <1>1, <1>2, FS_AddElement, ZenonT(30)

\* A process that leaves an address space is one user less.
LEMMA UserLeft ==
    ASSUME NEW P, NEW p \in Proc, NEW r, NEW Q, PutProc(P, p, r, Q), NEW m,
           P[p].mm = m, r.mm # m
    PROVE  Cardinality(UsersOf(Q, m)) = Cardinality(UsersOf(P, m)) - 1
<1>1. UsersOf(Q, m) = UsersOf(P, m) \ {p} /\ p \in UsersOf(P, m)
  BY DEF PutProc, UsersOf
<1>2. IsFiniteSet(UsersOf(P, m))
  BY UsersFinite, Zenon
<1> QED BY <1>1, <1>2, FS_RemoveElement, Zenon

\* A process changes, the address spaces do not.
LEMMA ProcsSame ==
    ASSUME NEW P, NEW M, ProcsOK(P, M), NEW p \in Proc, NEW r, NEW Q, PutProc(P, p, r, Q),
           ProcOK(r, M), r.mm = P[p].mm, r.load = P[p].load
    PROVE  ProcsOK(Q, M)
<1>1. \A q \in Proc : Q[q].load = P[q].load /\ Q[q].mm = P[q].mm
  BY Zenon DEF PutProc
<1>2. \A q \in Proc : ProcOK(Q[q], M)
  BY Zenon DEF ProcsOK, PutProc
<1>3. LoadsOnce(Q)
  BY <1>1, ZenonT(30) DEF ProcsOK, LoadsOnce
<1>4. \A m : UsersOf(Q, m) = UsersOf(P, m)
  BY <1>1, Zenon DEF UsersOf
<1>5. \A m \in LiveOf(M) : CountOK(Q, M, m)
  BY <1>1, <1>4, ZenonT(30) DEF CountOK, ProcsOK
<1> QED BY <1>2, <1>3, <1>5, Zenon DEF ProcsOK, PutProc

\* A process and the address space id change.
Follow(P, p, r, M, id, x) ==
    /\ \A q \in Proc \ {p} :
        /\ P[q].mm = id => x # None /\ x.pgdir = M[id].pgdir
        /\ P[q].load = id => x # None /\ x.count = 0
        /\ r.load # None => P[q].load # r.load
    /\ P[p].mm = r.mm \/ (P[p].mm \in {id, None} /\ r.mm \in {id, None})
    /\ P[p].load = r.load \/ (P[p].load \in {id, None} /\ r.load \in {id, None})

\* One process and one address space change.
LEMMA ProcsPut ==
    ASSUME NEW P, NEW M, ProcsOK(P, M), NEW p \in Proc, NEW r, NEW Q, PutProc(P, p, r, Q),
           NEW id \in Mm, NEW x, NEW N, Put(M, id, x, N), Follow(P, p, r, M, id, x),
           ProcOK(r, N), x # None => CountOK(Q, N, id)
    PROVE  ProcsOK(Q, N)
<1>1. ASSUME NEW q \in Proc PROVE ProcOK(Q[q], N)
  <2>1. CASE q = p
    BY <2>1, Zenon DEF PutProc
  <2>2. CASE q # p
    <3>1. Q[q] = P[q] /\ ProcOK(P[q], M)
      BY <2>2, Zenon DEF PutProc, ProcsOK
    <3>2. ASSUME NEW m \in LiveOf(M), m # id PROVE m \in LiveOf(N) /\ N[m] = M[m]
      BY <3>2, Zenon DEF Put, LiveOf
    <3>3. id \in LiveOf(M) /\ x # None => id \in LiveOf(N) /\ N[id] = x
      BY Zenon DEF Put
    <3>4. P[q].mm # None => P[q].mm \in LiveOf(N) /\ P[q].cr3 = N[P[q].mm].pgdir
      <4>1. CASE P[q].mm = id
        BY <2>2, <3>1, <3>3, <4>1, ZenonT(30) DEF ProcOK, Follow
      <4>2. CASE P[q].mm # id
        BY <2>2, <3>1, <3>2, <4>2, ZenonT(30) DEF ProcOK
      <4> QED BY <4>1, <4>2, Zenon
    <3>5. P[q].load # None => P[q].load \in LiveOf(N) /\ N[P[q].load].count = 0
      <4>1. CASE P[q].load = id
        BY <2>2, <3>1, <3>3, <4>1, ZenonT(30) DEF ProcOK, Follow
      <4>2. CASE P[q].load # id
        BY <2>2, <3>1, <3>2, <4>2, ZenonT(30) DEF ProcOK
      <4> QED BY <4>1, <4>2, Zenon
    <3>6. ProcOK(P[q], N)
      BY <3>1, <3>4, <3>5, ZenonT(30) DEF ProcOK
    <3> QED BY <3>1, <3>6, Zenon
  <2> QED BY <2>1, <2>2, Zenon
<1>2. LoadsOnce(Q)
  <2>1. ASSUME NEW q \in Proc \ {p}, NEW s \in Proc, Q[q].load # None, Q[q].load = Q[s].load
        PROVE  q = s
    <3>1. Q[q] = P[q] /\ Q[p] = r
      BY Zenon DEF PutProc
    <3>2. s # p
      BY <2>1, <3>1, Zenon DEF Follow
    <3>3. Q[s] = P[s]
      BY <3>2, Zenon DEF PutProc
    <3> QED BY <2>1, <3>1, <3>3, Zenon DEF ProcsOK, LoadsOnce
  <2>2. \A s \in Proc \ {p} : Q[p].load # None => Q[p].load # Q[s].load
    BY Zenon DEF PutProc, Follow
  <2> QED BY <2>1, <2>2, Zenon DEF LoadsOnce
<1>3. ASSUME NEW m \in LiveOf(N) PROVE CountOK(Q, N, m)
  <2>1. CASE m = id
    BY <2>1, Zenon DEF Put, LiveOf
  <2>2. CASE m # id
    <3>1. m \in LiveOf(M) /\ N[m] = M[m] /\ m \in Mm /\ m # None
      BY <2>2, NoneFacts, Zenon DEF Put, LiveOf
    <3>2. CountOK(P, M, m)
      BY <3>1, Zenon DEF ProcsOK
    <3>3. P[p].mm = m <=> r.mm = m
      BY <2>2, <3>1, ZenonT(30) DEF Follow
    <3>4. UsersOf(Q, m) = UsersOf(P, m)
      BY <3>3, UserSame
    <3>5. P[p].load = m <=> r.load = m
      BY <2>2, <3>1, Zenon DEF Follow
    <3>6. \A q \in Proc : P[q].load = m => Q[q].load = m
      BY <3>5, Zenon DEF PutProc
    <3> QED BY <3>1, <3>2, <3>4, <3>6, ZenonT(30) DEF CountOK
  <2> QED BY <2>1, <2>2, ZenonT(30)
<1> QED BY <1>1, <1>2, <1>3, Zenon DEF ProcsOK, PutProc
=============================================================================
