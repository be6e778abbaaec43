------------------------------ MODULE MCKmalloc ------------------------------
(***************************************************************************)
(* Kmalloc with one cache of each shape the kernel has: several objects    *)
(* and the control part on the slab; two objects and the control part      *)
(* elsewhere; one object of two pages, control part elsewhere.             *)
(***************************************************************************)
EXTENDS Kmalloc

Shapes ==
    << [num |-> 3, page_order |-> 0, off_slab |-> FALSE, slab_cachep |-> 1],
       [num |-> 2, page_order |-> 0, off_slab |-> TRUE, slab_cachep |-> 1],
       [num |-> 1, page_order |-> 1, off_slab |-> TRUE, slab_cachep |-> 1] >>
=============================================================================
