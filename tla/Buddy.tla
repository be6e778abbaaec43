-------------------------------- MODULE Buddy --------------------------------
(***************************************************************************)
(* The buddy system (mm/buddy_pmm.c) on one zone of NPages pages, numbered *)
(* from the start of the zone.  property[p] is the order of the free block *)
(* that starts at p (PageProperty), or None.  A call runs with interrupts   *)
(* off: it is one function of the allocator's state S, a record with the   *)
(* fields of AllocState, to which users of the pages add fields of theirs. *)
(***************************************************************************)
EXTENDS Integers, Sequences, SequencesExt, FiniteSets, FiniteSetsExt

CONSTANTS
    NPages,         \* pages of the zone, not a power of two
    MAX_ORDER       \* the order of the largest block

ASSUME Zone == NPages \in Nat \ {0} /\ MAX_ORDER \in Nat

VARIABLES
    free_list,      \* per order: the free blocks, newest first
    nr_free,        \* per order
    property,
    panic           \* an assertion has failed

None == -1
Orders == 0..MAX_ORDER
Pages == 0..(NPages - 1)
Run(base, n) == base..(base + n - 1)

\* list_add and list_del of a block of S, with its counter and its mark.
Add(S, p, order) ==
    [S EXCEPT !.list[order] = <<p>> \o @, !.nr[order] = @ + 1, !.prop[p] = order]
Del(S, p, order) ==
    [S EXCEPT !.list[order] = SelectSeq(@, LAMBDA q : q # p), !.nr[order] = @ - 1,
              !.prop[p] = None]

\* buddy_init_memmap: as many blocks of the largest order as fit, then the rest.
buddy_init_memmap ==
    LET k == NPages \div 2^MAX_ORDER
        list == [o \in Orders |->
                  IF o = MAX_ORDER THEN [i \in 1..k |-> (k - i) * 2^o]
                  ELSE IF (NPages \div 2^o) % 2 = 0 THEN <<>>
                  ELSE <<(NPages \div 2^(o + 1)) * 2^(o + 1)>>]
    IN  [list |-> list, nr |-> [o \in Orders |-> Len(list[o])], ok |-> TRUE,
         prop |-> [p \in Pages |-> Max({None} \cup { o \in Orders : p \in ToSet(list[o]) })]]

getorder(n) == Min({ o \in Orders : n <= 2^o })

AllocState == [list |-> free_list, nr |-> nr_free, prop |-> property, ok |-> TRUE]

AllocBecomes(S) ==
    free_list' = S.list /\ nr_free' = S.nr /\ property' = S.prop /\ panic' = ~ S.ok

AllocInit ==
    /\ free_list = buddy_init_memmap.list /\ nr_free = buddy_init_memmap.nr
    /\ property = buddy_init_memmap.prop /\ panic = FALSE
-----------------------------------------------------------------------------
\* page_is_buddy; a page past the zone is reserved or of another zone.
page_is_buddy(S, p, order) == p \in Pages /\ S.prop[p] = order

BuddyOf(p, order) == IF (p \div 2^order) % 2 = 0 THEN p + 2^order ELSE p - 2^order

\* Frees an aligned block and merges it with its buddy as often as that is
\* free as a whole.
buddy_free_pages_sub(S, base, order0) ==
    LET asserts == base % 2^order0 = 0
                   /\ \A p \in Run(base, 2^order0) : p \in Pages /\ S.prop[p] = None
        up[o \in Orders] ==
            IF o <= order0 THEN [S |-> S, p |-> base, o |-> order0, stop |-> FALSE]
            ELSE LET prev == up[o - 1]
                     b == BuddyOf(prev.p, o - 1)
                 IN  IF prev.stop \/ ~ page_is_buddy(prev.S, b, o - 1)
                       THEN [prev EXCEPT !.stop = TRUE]
                       ELSE [S |-> Del(prev.S, b, o - 1), p |-> Min({prev.p, b}), o |-> o,
                             stop |-> FALSE]
        top == up[MAX_ORDER]
    IN  IF asserts THEN Add(top.S, top.p, top.o) ELSE [S EXCEPT !.ok = FALSE]

\* free_pages: first the blocks that bring base to the alignment of ever larger
\* orders, then ever smaller ones.
free_pages(S, base, n) ==
    LET rise[o \in 0..(MAX_ORDER + 1)] ==       \* after the orders below o
            IF o = 0 THEN [S |-> S, base |-> base, n |-> n, o |-> 0]
            ELSE LET r == rise[o - 1]
                 IN  IF r.o # o - 1 \/ r.n < 2^(o - 1) THEN r
                     ELSE IF (r.base \div 2^(o - 1)) % 2 = 0 THEN [r EXCEPT !.o = o]
                     ELSE [S |-> buddy_free_pages_sub(r.S, r.base, o - 1),
                           base |-> r.base + 2^(o - 1), n |-> r.n - 2^(o - 1), o |-> o]
        top == rise[MAX_ORDER + 1]
        fall[o \in 0..(MAX_ORDER + 1)] ==       \* after the orders from o up
            IF o >= top.o THEN [S |-> top.S, base |-> top.base, n |-> top.n]
            ELSE LET f == fall[o + 1]
                 IN  IF f.n < 2^o THEN f
                     ELSE [S |-> buddy_free_pages_sub(f.S, f.base, o),
                           base |-> f.base + 2^o, n |-> f.n - 2^o]
    IN  IF n = 1 THEN buddy_free_pages_sub(S, base, 0) ELSE fall[0].S

\* The first block of the smallest order that will do, its upper halves given
\* back on the way down.
buddy_alloc_pages_sub(S, order) ==
    LET found == { o \in order..MAX_ORDER : S.list[o] # <<>> }
        cur == Min(found)
        p == Head(S.list[cur])
        split[o \in order..cur] ==
            IF o = cur THEN Del(S, p, cur) ELSE Add(split[o + 1], p + 2^o, o)
    IN  IF found = {} THEN [S |-> S, p |-> None] ELSE [S |-> split[order], p |-> p]

\* alloc_pages: a run of n pages, or None; what is too much goes back at once.
alloc_pages(S, n) ==
    LET order == getorder(n)
        r == buddy_alloc_pages_sub(S, order)
    IN  IF r.p # None /\ n # 2^order
          THEN [r EXCEPT !.S = free_pages(@, r.p + n, 2^order - n)]
          ELSE r

Free == UNION { Run(p, 2^property[p]) : p \in { q \in Pages : property[q] # None } }

\* The lists, the counters and the marks on the pages say the same, and the
\* blocks are aligned and overlap nowhere.
ListsSound ==
    /\ \A o \in Orders :
        /\ ToSet(free_list[o]) = { p \in Pages : property[p] = o }
        /\ nr_free[o] = Len(free_list[o]) /\ IsInjective(free_list[o])
    /\ \A p \in Pages : property[p] # None =>
        /\ p % 2^property[p] = 0 /\ p + 2^property[p] <= NPages
        /\ \A q \in (p + 1)..(p + 2^property[p] - 1) : property[q] = None

\* Two free buddies are always merged.
Merged ==
    \A o \in 0..(MAX_ORDER - 1), p \in Pages :
        property[p] = o => ~ (BuddyOf(p, o) \in Pages /\ property[BuddyOf(p, o)] = o)
=============================================================================
