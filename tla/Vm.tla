--------------------------------- MODULE Vm ---------------------------------
(***************************************************************************)
(* Address spaces: the TLB (tlb.v, thumips_tlb.c), page tables (pmm.c),    *)
(* memory areas and page faults (vmm.c, trap.c), and the way processes     *)
(* get, copy, share and give back address spaces (proc.c).  Addresses are  *)
(* page numbers.  A TLB entry holds an even page and the odd one after it; *)
(* a page table holds PTPages pages.  The kernel runs without preemption,  *)
(* but execve and exit may sleep, in the file system, between two steps.   *)
(***************************************************************************)
EXTENDS Integers, FiniteSets, FiniteSetsExt, Sequences

CONSTANTS
    Proc,           \* process slots
    Idle,           \* idleproc, one of Proc
    Mm,             \* memory descriptors
    Frames,         \* physical pages, numbers
    Slots,          \* entries of the TLB: 0..n-1
    PTPages,        \* pages per page table
    UserPages,      \* user pages are 0..UserPages-1
    StackPages,     \* USTACKPAGE
    MaxArgs,        \* EXEC_MAX_ARG_NUM
    Programs,       \* the segments of the programs: sequences of [start, end, w]
    Touched,        \* the pages the programs access
    MaxForks, MaxExecs,
    None,           \* NULL
    Boot            \* boot_pgdir, which maps no user page

\* A program has a segment; the stack lies within one page table (memlayout.h:
\* 16 pages below an address that is a multiple of 4M).
ASSUME VmAssumption ==
    /\ IsFiniteSet(Proc) /\ Idle \in Proc
    /\ Frames \subseteq Nat /\ IsFiniteSet(Frames)
    /\ IsFiniteSet(Slots) /\ Slots # {} /\ Slots = 0..(Cardinality(Slots) - 1)
    /\ PTPages \in Nat \ {0} /\ UserPages \in Nat \ {0} /\ UserPages % 2 = 0
    /\ StackPages \in 1..UserPages /\ MaxArgs \in 1..(UserPages - 1)
    /\ (UserPages - StackPages) \div PTPages = (UserPages - 1) \div PTPages
    /\ \A prog \in Programs :
        prog # <<>> /\ prog \in Seq([start : Nat, end : Nat, w : BOOLEAN])
    /\ Touched \subseteq 0..(UserPages - 1)
    /\ MaxForks \in Nat /\ MaxExecs \in Nat

VARIABLES
    free,           \* free physical pages
    content,        \* what each physical page holds
    mm,             \* the live mm_structs
    proc,           \* state, mm, cr3; and mm and segment under construction in load_icode
    args,           \* the pages load_icode still has to write arguments to
    current, current_pgdir,
    tlb, index,     \* the TLB and tlb_refill's static index
    panic,          \* why the kernel has stopped
    view,           \* history: what the program in each mm last wrote to each page
    forks, execs

vars == <<free, content, mm, proc, args, current, current_pgdir, tlb, index, panic, view, forks, execs>>

Pages == 0..(UserPages - 1)
PDX(p) == p \div PTPages
VPN2(p) == p \div 2
Tables == 0..PDX(UserPages - 1)

\* What a physical page holds: what a program wrote is told apart by its mm.
Contents == {"junk", "table", "program"} \cup Mm
PTE == [f : Frames, w : BOOLEAN]
vma_struct == [start : 0..UserPages, end : 0..UserPages, w : BOOLEAN, stack : BOOLEAN]
mm_struct ==
    [count : Nat, vmas : SUBSET vma_struct, cache : vma_struct \cup {None}, pgdir : Frames,
     pt : [Tables -> Frames \cup {None}], pte : [Pages -> PTE \cup {None}]]

\* NULL is nothing else, and boot_pgdir is no page of a process.
ASSUME NoneAssumption ==
    /\ None \notin Nat \cup Contents \cup PTE \cup vma_struct \cup mm_struct
    /\ None \notin {"no memory", "assert npage", "unhandled pgfault", "address error"}
    /\ Boot \notin Frames

NewMm(pgdir) ==
    [count |-> 0, vmas |-> {}, cache |-> None, pgdir |-> pgdir,
     pt |-> [i \in Tables |-> None], pte |-> [p \in Pages |-> None]]

\* tlb_invalidate_all: no entry is valid, none matches a user page.
Flushed == [s \in Slots |-> [vpn |-> None, half |-> <<None, None>>]]

Init ==
    /\ free = Frames
    /\ content = [f \in Frames |-> "junk"]
    /\ mm = [m \in Mm |-> None]
    /\ proc = [p \in Proc |-> [st |-> IF p = Idle THEN "kernel" ELSE "unused", mm |-> None,
                              cr3 |-> Boot, load |-> None, seg |-> 0, prog |-> <<>>]]
    /\ args = <<>>
    /\ current = Idle /\ current_pgdir = Boot
    /\ tlb = Flushed /\ index = 0
    /\ panic = None
    /\ view = [m \in Mm |-> [p \in Pages |-> None]]
    /\ forks = 0 /\ execs = 0
-----------------------------------------------------------------------------
(* Memory areas.  The list of areas is kept sorted by its insertion, so    *)
(* that it is a set here.                                                  *)

\* find_vma: the cached area if it holds p, else the first that ends after p.
find_vma(m, p) ==
    LET after == { v \in m.vmas : p < v.end }
    IN  IF m.cache # None /\ m.cache.start <= p /\ p < m.cache.end THEN m.cache
        ELSE IF after = {} THEN None
        ELSE CHOOSE v \in after : \A u \in after : v.start <= u.start

Cached(m, v) == IF v = None THEN m ELSE [m EXCEPT !.cache = v]

\* The asserts of insert_vma_struct and check_vma_overlap.
Fits(m, v) ==
    v.start < v.end /\ \A u \in m.vmas : u.end <= v.start \/ v.end <= u.start

\* Page 0 is the first of user space.
USER_ACCESS(start, end) == 0 <= start /\ start < end /\ end <= UserPages

\* mm_map fails before it creates the area.
Refused(m, v) ==
    \/ ~ USER_ACCESS(v.start, v.end)
    \/ LET u == find_vma(m, v.start) IN u # None /\ v.end > u.start

\* Mutant: any area will do for a write.
user_mem_check_Any(m, p, write) ==
    LET v == find_vma(m, p) IN v # None /\ v.start <= p

user_mem_check(m, p, write) ==
    LET v == find_vma(m, p)
    IN  /\ v # None /\ v.start <= p
        /\ write => v.w
        /\ write /\ v.stack => p >= v.start + 1
-----------------------------------------------------------------------------
(* Page tables.  S is the part of the state that an operation on one       *)
(* address space changes, whether the TLB was emptied, and how it ended.   *)

Some(frames) == CHOOSE f \in frames : \A g \in frames : f <= g

\* get_pte with create.
get_pte(S, p) ==
    IF S.m.pt[PDX(p)] # None THEN S
    ELSE IF S.free = {} THEN [S EXCEPT !.ok = FALSE]
    ELSE [S EXCEPT !.free = @ \ {Some(@)}, !.m.pt[PDX(p)] = Some(S.free),
                   !.content[Some(S.free)] = "table"]

\* pgdir_alloc_page and page_insert; the page may then be filled.
pgdir_alloc_page(S, p, w, fill) ==
    IF S.free = {} THEN [S EXCEPT !.ok = FALSE]
    ELSE LET f == Some(S.free)
             T == get_pte([S EXCEPT !.free = @ \ {f}], p)
         IN  IF ~ T.ok THEN [T EXCEPT !.free = @ \cup {f}]
             ELSE [T EXCEPT !.m.pte[p] = [f |-> f, w |-> w], !.flush = TRUE,
                            !.content[f] = IF fill = None THEN @ ELSE fill]

\* The pages the loop of unmap_range looks at, between start and end.
Unmapped(m, start, end) ==
    LET visit[p \in start..(UserPages + PTPages)] ==
            IF p >= end THEN {}
            ELSE IF m.pt[PDX(p)] = None THEN visit[(p + PTPages) - ((p + PTPages) % PTPages)]
            ELSE {p} \cup visit[p + 1]
    IN  visit[start]

\* Mutant: the last page is not copied.
Copied_Short(m, start, end) ==
    { p \in start..(end - 2) : m.pt[PDX(p)] # None /\ m.pte[p] # None }

\* The pages copy_range looks at: a missing table is not skipped to its end.
Copied(m, start, end) ==
    LET visit[p \in start..(UserPages + PTPages)] ==
            IF p >= end THEN {}
            ELSE IF m.pt[PDX(p)] = None THEN visit[p + PTPages]
            ELSE {p} \cup visit[p + 1]
    IN  { p \in visit[start] : m.pte[p] # None }

\* free_page; what a free page holds does not matter.
GivenBack(S, frames) ==
    [S EXCEPT !.free = @ \cup frames,
              !.content = [f \in Frames |-> IF f \in frames THEN "junk" ELSE @[f]]]

\* The tables that exit_range gives back.
exit_range(m, start, end) == { t \in PDX(start)..PDX(end - 1) : m.pt[t] # None }

\* exit_mmap: unmap_range of every area, then exit_range of every area.
exit_mmap(S) ==
    LET pages == UNION { Unmapped(S.m, v.start, v.end) : v \in S.m.vmas }
        gone == { p \in pages : S.m.pte[p] # None }
        tables == UNION { exit_range(S.m, v.start, v.end) : v \in S.m.vmas }
    IN  GivenBack([S EXCEPT !.flush = @ \/ gone # {}],
                  { S.m.pte[p].f : p \in gone } \cup { S.m.pt[t] : t \in tables })

\* The areas go with the mm; every caller has count 0, as the assertion wants.
mm_destroy(S) == [S EXCEPT !.m = None]

\* exit_mmap, put_pgdir and mm_destroy.
Destroyed(S) == mm_destroy(GivenBack(exit_mmap(S), {S.m.pgdir}))

State(m) == [free |-> free, content |-> content, m |-> m, flush |-> FALSE, ok |-> TRUE, panic |-> FALSE]

\* setup_pgdir: a page for an empty directory.
setup_pgdir ==
    [State(NewMm(Some(free))) EXCEPT !.free = @ \ {Some(@)}, !.content[Some(free)] = "table"]

\* Takes over what an operation has done to the address space of id.
Becomes(id, S) ==
    /\ free' = S.free /\ content' = S.content
    /\ mm' = [mm EXCEPT ![id] = S.m]
    /\ tlb' = IF S.flush THEN Flushed ELSE tlb
-----------------------------------------------------------------------------
(* Fork.                                                                   *)

\* A page of copy_range; the assertion that a page is left is "panic".
copy_page(S, p, from) ==
    LET T == get_pte(S, p)
    IN  IF ~ S.ok THEN S
        ELSE IF ~ T.ok THEN T
        ELSE IF T.free = {} THEN [T EXCEPT !.ok = FALSE, !.panic = TRUE]
        ELSE pgdir_alloc_page(T, p, from.pte[p].w, content[from.pte[p].f])

copy_range(S, from, v) ==
    LET pages == Copied(from, v.start, v.end)
        go[n \in 0..UserPages] ==
            IF n = 0 THEN S
            ELSE IF n - 1 \in pages THEN copy_page(go[n - 1], n - 1, from) ELSE go[n - 1]
    IN  go[UserPages]

\* The next area of dup_mmap, which begins at the end of the list.
Last(vmas) == CHOOSE v \in vmas : \A u \in vmas : u.start <= v.start

dup_area(S, from, fails) ==
    LET v == Last(from.vmas \ S.m.vmas)
    IN  IF ~ S.ok THEN S
        ELSE IF fails THEN [S EXCEPT !.ok = FALSE]
        ELSE copy_range([S EXCEPT !.m.vmas = @ \cup {v}], from, v)

\* dup_mmap; the create-th vma_create fails.
dup_mmap(S, from, create) ==
    LET go[n \in 0..Cardinality(from.vmas)] ==
            IF n = 0 THEN S ELSE dup_area(go[n - 1], from, n = create)
    IN  go[Cardinality(from.vmas)]

Child(m, cr3) ==
    [st |-> "user", mm |-> m, cr3 |-> cr3, load |-> None, seg |-> 0, prog |-> <<>>]

\* copy_mm with CLONE_VM.
ForkShare(p, q) ==
    /\ mm' = [mm EXCEPT ![proc[p].mm].count = @ + 1]
    /\ proc' = [proc EXCEPT ![q] = Child(proc[p].mm, mm[proc[p].mm].pgdir)]
    /\ UNCHANGED <<free, content, tlb, view, panic>>

\* Mutant: the new mm is given up without its pages when dup_mmap fails.
ForkCopy_Leak(p, q, id, create) ==
    LET from == mm[proc[p].mm]
        S == dup_mmap(setup_pgdir, from, create)
    IN  /\ free # {}
        /\ IF S.ok
             THEN /\ Becomes(id, [S EXCEPT !.m.count = 1])
                  /\ proc' = [proc EXCEPT ![q] = Child(id, S.m.pgdir)]
                  /\ view' = [view EXCEPT ![id] = view[proc[p].mm]]
                  /\ UNCHANGED panic
             ELSE /\ Becomes(id, [S EXCEPT !.m = None, !.flush = TRUE])
                  /\ UNCHANGED <<proc, view, panic>>

\* copy_mm without it: mm_create and setup_pgdir have succeeded, dup_mmap may
\* fail and is undone.
ForkCopy(p, q, id, create) ==
    LET from == mm[proc[p].mm]
        S == dup_mmap(setup_pgdir, from, create)
    IN  /\ free # {}
        /\ IF S.ok
             THEN /\ Becomes(id, [S EXCEPT !.m.count = 1])
                  /\ proc' = [proc EXCEPT ![q] = Child(id, S.m.pgdir)]
                  /\ view' = [view EXCEPT ![id] = view[proc[p].mm]]
                  /\ UNCHANGED panic
             ELSE IF S.panic
             THEN panic' = "assert npage" /\ UNCHANGED <<free, content, mm, proc, tlb, view>>
             ELSE Becomes(id, Destroyed(S)) /\ UNCHANGED <<proc, view, panic>>

Unused(id) == mm[id] = None /\ \A p \in Proc : proc[p].load # id

Running(p) == panic = None /\ current = p /\ proc[p].st = "user"

\* The process has left load_icode: it runs, and makes system calls.
InUser(p) == Running(p) /\ args = <<>>

do_fork(p, q) ==
    /\ InUser(p) /\ proc[q].st = "unused" /\ forks < MaxForks
    /\ \/ ForkShare(p, q)
       \/ \E id \in Mm, create \in 0..3 : Unused(id) /\ ForkCopy(p, q, id, create)
    /\ forks' = forks + 1
    /\ UNCHANGED <<args, current, current_pgdir, index, execs>>
-----------------------------------------------------------------------------
(* Exit and execve.                                                        *)

\* Mutant: the count is compared before it is decremented.
Dropped_Early(id) ==
    LET S == State([mm[id] EXCEPT !.count = @ - 1])
    IN  IF mm[id].count = 0 THEN Destroyed(S) ELSE S

\* What do_exit and do_execve do with the address space of the process: S is
\* its part of the state, with the mm gone if this was its last user.
Dropped(id) ==
    LET S == State([mm[id] EXCEPT !.count = @ - 1])
    IN  IF S.m.count = 0 THEN Destroyed(S) ELSE S

\* do_exit until put_fs, in which it may sleep; cr3 keeps its value.
do_exit_mm(p) ==
    /\ Becomes(proc[p].mm, Dropped(proc[p].mm))
    /\ current_pgdir' = Boot
    /\ proc' = [proc EXCEPT ![p].mm = None, ![p].st = "exiting"]

do_exit(p) ==
    /\ InUser(p)
    /\ do_exit_mm(p)
    /\ UNCHANGED <<args, current, index, panic, view, forks, execs>>

\* The process becomes a zombie, another one runs and the parent reclaims it.
Zombie(p, q) ==
    /\ panic = None /\ current = p /\ proc[p].st = "exiting"
    /\ proc[q].st \in {"user", "exec", "kernel", "exiting"} /\ q # p
    /\ proc' = [proc EXCEPT ![p].st = "unused"]
    /\ current' = q /\ current_pgdir' = proc[q].cr3 /\ tlb' = Flushed
    /\ UNCHANGED <<free, content, mm, args, index, panic, view, forks, execs>>

\* do_execve: the old address space is given up; load_icode makes an mm, which
\* may fail, and starts to read the file.
do_execve(p, prog) ==
    /\ InUser(p) /\ execs < MaxExecs
    /\ Becomes(proc[p].mm, Dropped(proc[p].mm))
    /\ current_pgdir' = Boot
    /\ proc' = [proc EXCEPT ![p].mm = None, ![p].st = "exec", ![p].prog = prog]
    /\ execs' = execs + 1
    /\ UNCHANGED <<args, current, index, panic, view, forks>>

\* kernel_execve by a kernel thread, which has no mm.
kernel_execve(p, prog) ==
    /\ panic = None /\ current = Idle /\ proc[p].st = "unused" /\ p # Idle /\ execs < MaxExecs
    /\ proc' = [proc EXCEPT ![p] = [Child(None, Boot) EXCEPT !.st = "exec", !.prog = prog]]
    /\ execs' = execs + 1
    /\ UNCHANGED <<free, content, mm, args, current, current_pgdir, tlb, index, panic, view, forks>>

Loading(p) == panic = None /\ current = p /\ proc[p].st = "exec"

\* The failing exits of load_icode, and do_exit after them.
LoadFails(p, id, S) ==
    /\ Becomes(id, Destroyed(S))
    /\ proc' = [proc EXCEPT ![p].load = None, ![p].st = "exiting"]
    /\ UNCHANGED <<args, current, current_pgdir, index, panic, view, forks, execs>>

\* mm_create and setup_pgdir.
LoadStart(p) ==
    /\ Loading(p) /\ proc[p].load = None
    /\ \/ /\ proc' = [proc EXCEPT ![p].st = "exiting"]
          /\ UNCHANGED <<free, content, mm, tlb, view>>
       \/ \E id \in Mm :
            /\ Unused(id) /\ free # {}
            /\ Becomes(id, setup_pgdir)
            /\ view' = [view EXCEPT ![id] = [q \in Pages |-> None]]
            /\ proc' = [proc EXCEPT ![p].load = id, ![p].seg = 1]
    /\ UNCHANGED <<args, current, current_pgdir, index, panic, forks, execs>>

\* The pages of a segment, each filled from the file or with zeros.
Filled(S, v) ==
    LET go[n \in 0..(v.end - v.start)] ==
            IF n = 0 THEN S
            ELSE IF ~ go[n - 1].ok THEN go[n - 1]
            ELSE pgdir_alloc_page(go[n - 1], v.start + n - 1, v.perm, "program")
    IN  go[v.end - v.start]

\* One segment.  perm keeps PTE_W from an earlier writable segment.
LoadSegment(p, fails) ==
    LET id == proc[p].load
        segs == proc[p].prog
        k == proc[p].seg
        perm == \E j \in 1..k : segs[j].w
        v == [start |-> segs[k].start, end |-> segs[k].end, w |-> segs[k].w, stack |-> FALSE]
        S == State([mm[id] EXCEPT !.vmas = @ \cup {v},
                                  !.cache = Cached(mm[id], find_vma(mm[id], v.start)).cache])
        T == Filled(S, [start |-> v.start, end |-> v.end, perm |-> perm])
    IN  /\ Loading(p) /\ id # None /\ k <= Len(segs)
        /\ IF Refused(mm[id], v) THEN LoadFails(p, id, State(mm[id]))
           ELSE IF ~ T.ok \/ fails THEN LoadFails(p, id, T)
           ELSE /\ Becomes(id, T)
                /\ proc' = [proc EXCEPT ![p].seg = @ + 1]
                /\ view' = [view EXCEPT ![id] = [q \in Pages |->
                              IF q \in v.start..(v.end - 1) THEN "program" ELSE @[q]]]
                /\ UNCHANGED <<args, current, current_pgdir, index, panic, forks, execs>>

\* The pages of the arguments, in the order in which load_icode writes to them:
\* each string has a page of its own at the top of the stack, the pointers to
\* them are in the page below.  Nobody asks whether the stack has so many.
ArgPages(argc) ==
    [k \in 1..(2 * argc) |-> IF k % 2 = 1 THEN UserPages - argc + k \div 2
                             ELSE UserPages - argc - 1]

\* The area of the stack; the process gets its new address space, and has its
\* arguments, which do_execve has counted, still to come.
LoadEnd(p, fails, argc) ==
    LET id == proc[p].load
        v == [start |-> UserPages - StackPages, end |-> UserPages, w |-> TRUE, stack |-> TRUE]
        S == State([mm[id] EXCEPT !.vmas = @ \cup {v}, !.count = 1,
                                  !.cache = Cached(mm[id], find_vma(mm[id], v.start)).cache])
    IN  /\ Loading(p) /\ id # None /\ proc[p].seg > Len(proc[p].prog)
        /\ IF Refused(mm[id], v) \/ fails THEN LoadFails(p, id, State(mm[id]))
           ELSE /\ Becomes(id, S)
                /\ proc' = [proc EXCEPT ![p] = Child(id, S.m.pgdir)]
                /\ current_pgdir' = S.m.pgdir
                /\ args' = ArgPages(argc)
                /\ UNCHANGED <<current, index, panic, view, forks, execs>>

\* Mutant: the TLB is not emptied.
proc_run_NoFlush(q) ==
    /\ panic = None /\ args = <<>> /\ q # current /\ proc[q].st # "unused"
    /\ current' = q
    /\ current_pgdir' = proc[q].cr3
    /\ UNCHANGED <<free, content, mm, proc, args, tlb, index, panic, view, forks, execs>>

\* proc_run: the process yields or sleeps, which load_icode does not do after
\* it has read the file.
proc_run(q) ==
    /\ panic = None /\ args = <<>> /\ q # current /\ proc[q].st # "unused"
    /\ current' = q
    /\ current_pgdir' = proc[q].cr3
    /\ tlb' = Flushed
    /\ UNCHANGED <<free, content, mm, proc, args, index, panic, view, forks, execs>>
-----------------------------------------------------------------------------
(* Memory accesses.                                                        *)

\* tlb.v: the first entry that matches decides.
Matching(p) == { s \in Slots : tlb[s].vpn = VPN2(p) }
Half(p) == tlb[Min(Matching(p))].half[(p % 2) + 1]
Lookup(p, write) ==
    IF Matching(p) = {} THEN "miss"
    ELSE IF Half(p) = None THEN "miss"
    ELSE IF write /\ ~ Half(p).w THEN "error"
    ELSE "hit"

\* The page table that current_pgdir points to; a freed one holds anything.
Walked(p) ==
    LET owner == { m \in Mm : mm[m] # None /\ mm[m].pgdir = current_pgdir }
    IN  IF current_pgdir = Boot \/ owner = {} THEN None
        ELSE mm[CHOOSE m \in owner : TRUE].pte[p]

tlb_refill(p) ==
    LET even == 2 * VPN2(p)
    IN  /\ tlb' = [tlb EXCEPT ![index] =
                     [vpn |-> VPN2(p), half |-> <<Walked(even), Walked(even + 1)>>]]
        /\ index' = (index + 1) % Cardinality(Slots)

\* do_pgfault on a page without an entry: the new state, or why it failed.
do_pgfault(m, p, write) ==
    LET v == find_vma(m, p)
        S == State(Cached(m, v))
        T == get_pte(S, p)
    IN  IF v = None \/ v.start > p \/ (write /\ ~ v.w) THEN [S EXCEPT !.ok = FALSE]
        ELSE IF ~ T.ok THEN T
        ELSE pgdir_alloc_page(T, p, v.w, None)

\* handle_tlbmiss.  A user process that may not make the access is killed; the
\* kernel panics.
handle_tlbmiss(p, a, write, in_kernel) ==
    LET S == do_pgfault(mm[proc[p].mm], a, write)
    IN  IF Walked(a) = None
          THEN IF S.ok
                 THEN Becomes(proc[p].mm, S) /\ UNCHANGED <<proc, current_pgdir, index, panic, view>>
               ELSE IF in_kernel
                 THEN /\ panic' = IF S.free = {} THEN "no memory" ELSE "unhandled pgfault"
                      /\ UNCHANGED <<free, content, mm, tlb, proc, current_pgdir, index, view>>
               ELSE do_exit_mm(p) /\ UNCHANGED <<index, panic, view>>
        ELSE IF ~ in_kernel /\ write /\ ~ Walked(a).w
          THEN do_exit_mm(p) /\ UNCHANGED <<index, panic, view>>
        ELSE /\ tlb_refill(a)
             /\ UNCHANGED <<free, content, mm, proc, current_pgdir, panic, view>>

\* The exception that an access raises: the access is made again after it, or
\* never.
Trap(p, a, write, in_kernel) ==
    \/ /\ Lookup(a, write) = "miss"
       /\ handle_tlbmiss(p, a, write, in_kernel)
    \/ /\ Lookup(a, write) = "error"
       /\ IF in_kernel
            THEN /\ panic' = "address error"
                 /\ UNCHANGED <<free, content, mm, tlb, proc, current_pgdir, index, view>>
            ELSE do_exit_mm(p) /\ UNCHANGED <<index, panic, view>>

Store(p, a) ==
    /\ Lookup(a, TRUE) = "hit"
    /\ content' = [content EXCEPT ![Half(a).f] = proc[p].mm]
    /\ view' = [view EXCEPT ![proc[p].mm][a] = proc[p].mm]
    /\ UNCHANGED <<free, mm, tlb, proc, current_pgdir, index, panic>>

\* A load or store of the program, or of the kernel on its behalf after a
\* check of the range.
Access(p, a, write, in_kernel) ==
    /\ InUser(p)
    /\ in_kernel => user_mem_check(mm[proc[p].mm], a, write)
    /\ Trap(p, a, write, in_kernel) \/ (write /\ Store(p, a))
    /\ UNCHANGED <<args, current, forks, execs>>

\* load_icode writes the next argument, or its pointer, by its user address and
\* without a check.
WriteArg(p) ==
    /\ Running(p) /\ args # <<>>
    /\ \/ Trap(p, Head(args), TRUE, TRUE) /\ args' = args
       \/ Store(p, Head(args)) /\ args' = Tail(args)
    /\ UNCHANGED <<current, forks, execs>>

Next ==
    \/ \E p \in Proc :
        \/ \E q \in Proc : do_fork(p, q) \/ Zombie(p, q)
        \/ do_exit(p) \/ LoadStart(p) \/ WriteArg(p)
        \/ \E prog \in Programs : do_execve(p, prog) \/ kernel_execve(p, prog)
        \/ \E fails \in BOOLEAN : LoadSegment(p, fails)
        \/ \E fails \in BOOLEAN, argc \in 1..MaxArgs : LoadEnd(p, fails, argc)
        \/ \E a \in Touched, write, in_kernel \in BOOLEAN : Access(p, a, write, in_kernel)
    \/ \E q \in Proc : proc_run(q)

Spec == Init /\ [][Next]_vars
-----------------------------------------------------------------------------
Live == { m \in Mm : mm[m] # None }

\* Where a live address space may have a physical page, and the one that is there.
Places == { <<m, "dir", 0>> : m \in Live }
          \cup { <<m, "table", t>> : m \in Live, t \in Tables }
          \cup { <<m, "page", p>> : m \in Live, p \in Pages }
FrameAt(u) ==
    CASE u[2] = "dir" -> mm[u[1]].pgdir
      [] u[2] = "table" -> mm[u[1]].pt[u[3]]
      [] OTHER -> IF mm[u[1]].pte[u[3]] = None THEN None ELSE mm[u[1]].pte[u[3]].f
Used == { u \in Places : FrameAt(u) # None }

\* Every physical page is free or in exactly one place: a directory, a table or
\* a page of one live address space.  The failing exits of fork and execve lose
\* none and give none back twice.
FramesAccounted ==
    /\ { FrameAt(u) : u \in Used } = Frames \ free
    /\ Cardinality(Used) = Cardinality(Frames \ free)

\* While a process runs in user mode, page tables are looked up in its own live
\* directory, whatever was freed, shared or switched in between; what the TLB
\* answers is what they say, and at most one entry answers.
TlbCoherent ==
    Running(current) =>
        /\ current_pgdir = mm[proc[current].mm].pgdir
        /\ \A a \in Pages :
            /\ Cardinality(Matching(a)) <= 1
            /\ Lookup(a, FALSE) = "hit" => Half(a) = mm[proc[current].mm].pte[a]

\* Each address space reads back what was last written in it: fork copies every
\* page, no process writes into the pages of another.
ReadsOwnWrites ==
    \A m \in Live, a \in Pages :
        view[m][a] # None /\ panic = None =>
            mm[m].pte[a] # None /\ content[mm[m].pte[a].f] = view[m][a]

\* Areas are disjoint and hold every mapped page; an mm lives as long as a
\* process or load_icode uses it.
AreasSound ==
    /\ \A m \in Live :
        /\ \A v \in mm[m].vmas : Fits([mm[m] EXCEPT !.vmas = @ \ {v}], v)
        /\ \A a \in Pages : mm[m].pte[a] # None => \E v \in mm[m].vmas : v.start <= a /\ a < v.end
        /\ mm[m].count = Cardinality({ p \in Proc : proc[p].mm = m })
        /\ mm[m].count = 0 => \E p \in Proc : proc[p].load = m
    /\ \A p \in Proc : proc[p].mm # None => proc[p].mm \in Live

\* The kernel stops when memory has run out, and else only when load_icode
\* writes arguments below the stack, for a program that gets as many of them as
\* the stack has pages (proc.c:678-683): no other access it makes for a process
\* faults for good, neither after user_mem_check nor for fewer arguments.
PanicsOnlyWithoutMemory ==
    \/ panic \in {None, "no memory", "assert npage"}
    \/ args # <<>> /\ Head(args) < UserPages - StackPages
=============================================================================
