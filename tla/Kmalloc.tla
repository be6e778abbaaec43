------------------------------- MODULE Kmalloc -------------------------------
(***************************************************************************)
(* The slab allocator (mm/kmalloc.c) on the buddy system, next to the      *)
(* kernel's direct users of pages (kernel stacks, page tables, frames).    *)
(* A slab is named by its first page.  The control part of an off-slab     *)
(* slab is itself an object of another cache, so that growing and          *)
(* destroying recurse.  The kernel is not preempted and no interrupt       *)
(* handler allocates: a call is one step.                                  *)
(***************************************************************************)
EXTENDS Buddy

CONSTANTS
    Cache,          \* cache -> [num, page_order, off_slab, slab_cachep]
    MaxHeld,        \* objects the callers hold at a time
    MaxRuns,        \* runs of pages the callers hold at a time
    MaxRun          \* pages of the longest of them

ASSUME Requests == MaxRun \in 1..(2^MAX_ORDER)

VARIABLES
    slab,           \* first page -> the slab_t and its bufctl array, or NoSlab
    full, notfull,  \* cache -> its two lists
    pageslab,       \* page -> the slab it is marked with (PageSlab), or None
    held,           \* objects the callers hold: <<slab, index>>
    runs            \* runs of pages the callers hold: <<first page, length>>

vars == <<free_list, nr_free, property, panic, slab, full, notfull, pageslab, held, runs>>

END == -1           \* BUFCTL_END
Caches == DOMAIN Cache
NoObject == <<None, None>>

State ==
    [slab |-> slab, full |-> full, notfull |-> notfull, ps |-> pageslab] @@ AllocState

Becomes(S) ==
    /\ AllocBecomes(S) /\ slab' = S.slab /\ full' = S.full /\ notfull' = S.notfull
    /\ pageslab' = S.ps

NoSlab == [cache |-> None, inuse |-> 0, free |-> END, bufctl |-> <<>>, at |-> NoObject]

Init ==
    /\ AllocInit
    /\ slab = [p \in Pages |-> NoSlab] /\ pageslab = [p \in Pages |-> None]
    /\ full = [c \in Caches |-> <<>>] /\ notfull = [c \in Caches |-> <<>>]
    /\ held = {} /\ runs = {}
-----------------------------------------------------------------------------
\* The layout of the caches of objects of 2^shift bytes (slab_init).
PGSIZE == 4096
SizeofSlab == 24
SizeofBufctl == 4
KMALLOC_MAX_ORDER == 10
SizeOrders == 5..17

\* Mutant: room for the bufctl array only.
slab_mgmt_size_Array(num) == ((num * SizeofBufctl + 15) \div 16) * 16

slab_mgmt_size(num) == ((SizeofSlab + num * SizeofBufctl + 15) \div 16) * 16

\* __slab_div_table[order][shift - 5]: one row, four of its eight entries.
slab_div_table == <<113, 59, 30, 15, 0, 0, 0, 0>>

cache_estimate(order, shift, off_slab) ==
    LET slab_size == PGSIZE * 2^order
        fits == { n \in 0..slab_div_table[shift - 4] : slab_mgmt_size(n) + n * 2^shift <= slab_size }
        num == IF off_slab THEN slab_size \div 2^shift ELSE Max(fits)
    IN  [num |-> num,
         remainder |-> slab_size - num * 2^shift - (IF off_slab THEN 0 ELSE slab_mgmt_size(num))]

calculate_slab_order(shift, off_slab) ==
    Min({ o \in 0..KMALLOC_MAX_ORDER :
            LET e == cache_estimate(o, shift, off_slab)
            IN  e.num # 0 /\ e.remainder * 8 <= PGSIZE * 2^o })

\* kmalloc.c has a getorder of its own.
size_order(n) == Min({ o \in SizeOrders : n <= 2^o })

init_kmem_cache(shift) ==
    LET off == 2^shift >= PGSIZE \div 8
        order == calculate_slab_order(shift, off)
        e == cache_estimate(order, shift, off)
        mgmt_size == slab_mgmt_size(e.num)
        off_slab == off /\ e.remainder < mgmt_size
    IN  [num |-> e.num, page_order |-> order, off_slab |-> off_slab,
         offset |-> IF off_slab THEN 0 ELSE mgmt_size, slab_cachep |-> size_order(mgmt_size)]
-----------------------------------------------------------------------------
\* The pages of a slab of cache c that starts at p, marked with s.
Mark(S, c, p, s) ==
    [S EXCEPT !.ps = [q \in Pages |-> IF q \in Run(p, 2^Cache[c].page_order) THEN s ELSE @[q]]]

RECURSIVE kmem_cache_alloc(_, _), kmem_cache_free(_, _, _)

\* kmem_cache_slabmgmt: where the control part lives, for an off-slab cache an
\* object of slab_cachep.
kmem_cache_slabmgmt(S, c) ==
    IF Cache[c].off_slab THEN kmem_cache_alloc(S, Cache[c].slab_cachep) ELSE [S |-> S, obj |-> NoObject]

\* Mutant: the pages are kept when there is no control part.
kmem_cache_grow_Oops(S, c) ==
    LET n == Cache[c].num
        got == alloc_pages(S, 2^Cache[c].page_order)
        ctl == kmem_cache_slabmgmt(got.S, c)
    IN  IF got.p = None THEN [S |-> S, ok |-> FALSE]
        ELSE IF Cache[c].off_slab /\ ctl.obj = NoObject THEN [S |-> ctl.S, ok |-> FALSE]
        ELSE [ok |-> TRUE,
              S |-> [Mark(ctl.S, c, got.p, got.p) EXCEPT
                      !.slab[got.p] = [cache |-> c, inuse |-> 0, free |-> 0, at |-> ctl.obj,
                                       bufctl |-> [i \in 0..(n - 1) |-> IF i = n - 1 THEN END ELSE i + 1]],
                      !.notfull[c] = <<got.p>> \o @]]

\* A new slab on pages of the buddy system; they go back when the control part
\* cannot be had.
kmem_cache_grow(S, c) ==
    LET n == Cache[c].num
        got == alloc_pages(S, 2^Cache[c].page_order)
        ctl == kmem_cache_slabmgmt(got.S, c)
    IN  IF got.p = None THEN [S |-> S, ok |-> FALSE]
        ELSE IF Cache[c].off_slab /\ ctl.obj = NoObject
          THEN [S |-> free_pages(ctl.S, got.p, 2^Cache[c].page_order), ok |-> FALSE]
        ELSE [ok |-> TRUE,
              S |-> [Mark(ctl.S, c, got.p, got.p) EXCEPT
                      !.slab[got.p] = [cache |-> c, inuse |-> 0, free |-> 0, at |-> ctl.obj,
                                       bufctl |-> [i \in 0..(n - 1) |-> IF i = n - 1 THEN END ELSE i + 1]],
                      !.notfull[c] = <<got.p>> \o @]]

kmem_cache_alloc_one(S, c, s) ==
    LET i == S.slab[s].free
        next == S.slab[s].bufctl[i]
        taken == [S EXCEPT !.slab[s].inuse = @ + 1, !.slab[s].free = next]
    IN  [obj |-> <<s, i>>,
         S |-> IF next # END THEN taken
               ELSE [taken EXCEPT !.notfull[c] = Remove(@, s), !.full[c] = <<s>> \o @]]

\* The first slab with a free object, after growing if there is none.
kmem_cache_alloc(S, c) ==
    IF S.notfull[c] # <<>> THEN kmem_cache_alloc_one(S, c, Head(S.notfull[c]))
    ELSE LET g == kmem_cache_grow(S, c)
         IN  IF g.ok THEN kmem_cache_alloc(g.S, c) ELSE [S |-> g.S, obj |-> NoObject]

kmem_slab_destroy(S, c, s) ==
    LET n == 2^Cache[c].page_order
        clear == [Mark(S, c, s, None) EXCEPT !.ok = @ /\ \A q \in Run(s, n) : S.ps[q] # None,
                                             !.slab[s] = NoSlab]
        gone == free_pages(clear, s, n)
    IN  IF Cache[c].off_slab THEN kmem_cache_free(gone, Cache[c].slab_cachep, S.slab[s].at) ELSE gone

\* Mutant: a slab that was full stays on the list of the full ones.
kmem_cache_free_one_Late(S, c, s, i) ==
    LET put == [S EXCEPT !.slab[s].bufctl[i] = S.slab[s].free, !.slab[s].free = i, !.slab[s].inuse = @ - 1]
        off == [put EXCEPT !.full[c] = Remove(@, s), !.notfull[c] = Remove(@, s)]
    IN  IF put.slab[s].inuse = 0 THEN kmem_slab_destroy(off, c, s) ELSE put

kmem_cache_free_one(S, c, s, i) ==
    LET put == [S EXCEPT !.slab[s].bufctl[i] = S.slab[s].free, !.slab[s].free = i, !.slab[s].inuse = @ - 1]
        off == [put EXCEPT !.full[c] = Remove(@, s), !.notfull[c] = Remove(@, s)]
    IN  IF put.slab[s].inuse = 0 THEN kmem_slab_destroy(off, c, s)
        ELSE IF put.slab[s].inuse = Cache[c].num - 1 THEN [off EXCEPT !.notfull[c] = <<s>> \o @]
        ELSE put

kmem_cache_free(S, c, obj) ==
    IF S.ps[obj[1]] = None THEN [S EXCEPT !.ok = FALSE]
    ELSE kmem_cache_free_one(S, c, S.ps[obj[1]], obj[2])

kmalloc(c) ==
    LET r == kmem_cache_alloc(State, c)
    IN  /\ ~ panic /\ Cardinality(held) < MaxHeld
        /\ Becomes(r.S) /\ held' = held \cup ({r.obj} \ {NoObject}) /\ UNCHANGED runs

\* kfree finds the cache through the page of the object.
kfree(obj) ==
    /\ ~ panic /\ obj \in held /\ held' = held \ {obj} /\ UNCHANGED runs
    /\ Becomes(kmem_cache_free(State, slab[pageslab[obj[1]]].cache, obj))

\* A caller takes n pages from the buddy system itself, and gives them back.
TakePages(n) ==
    LET r == alloc_pages(State, n)
    IN  /\ ~ panic /\ Cardinality(runs) < MaxRuns /\ r.p # None
        /\ Becomes(r.S) /\ runs' = runs \cup {<<r.p, n>>} /\ UNCHANGED held

GivePages(run) ==
    /\ ~ panic /\ run \in runs /\ runs' = runs \ {run} /\ UNCHANGED held
    /\ Becomes(free_pages(State, run[1], run[2]))

Next ==
    \/ \E c \in Caches : kmalloc(c)
    \/ \E obj \in held : kfree(obj)
    \/ \E n \in 1..MaxRun : TakePages(n)
    \/ \E run \in runs : GivePages(run)

Spec == Init /\ [][Next]_vars
-----------------------------------------------------------------------------
Slabs == { p \in Pages : slab[p].cache # None }

\* The control objects of the off-slab slabs.
Controls == { slab[s].at : s \in { t \in Slabs : Cache[slab[t].cache].off_slab } }

\* The objects reached from s's free index through bufctl.
Chain(s) ==
    LET n == Cache[slab[s].cache].num
        go[k \in 0..n] ==       \* after k links
            IF k = 0 THEN <<>>
            ELSE LET prev == go[k - 1]
                     i == IF prev = <<>> THEN slab[s].free ELSE slab[s].bufctl[Last(prev)]
                 IN  IF Len(prev) < k - 1 \/ i = END THEN prev ELSE Append(prev, i)
    IN  go[n]

\* A slab is on the list of its cache that its use calls for, once, and no
\* empty slab is kept.
SlabsListed ==
    \A c \in Caches :
        /\ IsInjective(full[c] \o notfull[c])
        /\ ToSet(full[c]) = { s \in Slabs : slab[s].cache = c /\ slab[s].inuse = Cache[c].num }
        /\ ToSet(notfull[c]) = { s \in Slabs : slab[s].cache = c /\ slab[s].inuse \in 1..(Cache[c].num - 1) }

\* Every object of a slab is either on its free chain, once, or in use by
\* exactly one owner: a caller, or the one slab whose control part it holds;
\* and the two lists of a cache hold its slabs by their use.
EveryObjectOnce ==
    /\ SlabsListed
    /\ held \cap Controls = {}
    /\ Cardinality(Controls) = Cardinality({ t \in Slabs : Cache[slab[t].cache].off_slab })
    /\ \A s \in Slabs :
        /\ IsInjective(Chain(s)) /\ Len(Chain(s)) = Cache[slab[s].cache].num - slab[s].inuse
        /\ { i \in 0..(Cache[slab[s].cache].num - 1) : <<s, i>> \in held \cup Controls }
             = (0..(Cache[slab[s].cache].num - 1)) \ ToSet(Chain(s))

\* Whatever allocation fails on the way: no assertion fails, and every page has
\* exactly one owner, the free blocks, one slab (which it is marked with) or one
\* caller.  The free blocks are as large as they can be, so that the memory is
\* as it was at the start once the callers hold nothing.
PagesOwned ==
    LET slabrun(s) == Run(s, 2^Cache[slab[s].cache].page_order)
        owned == { slabrun(s) : s \in Slabs } \cup { Run(r[1], r[2]) : r \in runs }
    IN  /\ ~ panic /\ ListsSound /\ Merged
        /\ Free \cup UNION owned = Pages
        /\ \A R \in owned : R \cap Free = {} /\ \A Q \in owned \ {R} : R \cap Q = {}
        /\ { Run(r[1], r[2]) : r \in runs } \cap { slabrun(s) : s \in Slabs } = {}
        /\ \A p \in Pages : pageslab[p] = Max({None} \cup { s \in Slabs : p \in slabrun(s) })
        /\ held = {} /\ runs = {} =>
            \A o \in Orders : ToSet(free_list[o]) = ToSet(buddy_init_memmap.list[o])

\* The thirteen caches as slab_init lays them out: objects and control part fit, the precomputed table is
\* read only where it has an entry and wastes no object, at most an eighth is
\* lost, and the control part of an off-slab cache fits an object of a cache
\* that is not off-slab itself (so that growing cannot recurse for ever).
LayoutSound ==
    held = {} => \A shift \in SizeOrders :
        LET c == init_kmem_cache(shift)
            size == PGSIZE * 2^c.page_order
            control(n) == SizeofSlab + n * SizeofBufctl
        IN  /\ c.num > 0 /\ c.offset + c.num * 2^shift <= size
            /\ ~ c.off_slab =>
                /\ c.page_order = 0 /\ shift <= 8 /\ c.offset >= control(c.num)
                /\ (c.num + 1) * 2^shift + control(c.num + 1) > size
            /\ (size - c.num * 2^shift - c.offset) * 8 <= size
            /\ c.off_slab =>
                /\ control(c.num) <= 2^c.slab_cachep /\ ~ init_kmem_cache(c.slab_cachep).off_slab
                /\ c.num <= (2^shift - SizeofSlab) \div SizeofBufctl
=============================================================================
