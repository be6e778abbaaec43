-------------------------------- MODULE MCVm --------------------------------
EXTENDS Vm, TLC

\* Processes other than idleproc, and memory descriptors, are interchangeable.
Symmetry == Permutations(Proc \ {Idle}) \cup Permutations(Mm)

Segment(start, end, w) == [start |-> start, end |-> end, w |-> w]

\* Text and data next to each other, data alone, and bad files: segments that
\* overlap, one that ends beyond user space.
MCPrograms ==
    { << Segment(1, 2, FALSE), Segment(2, 3, TRUE) >>,
      << Segment(2, 3, TRUE) >>,
      << Segment(1, 2, FALSE), Segment(1, 3, TRUE) >>,
      << Segment(7, 9, TRUE) >> }
=============================================================================
