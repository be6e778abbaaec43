------------------------------ MODULE MCFiles ------------------------------
(* Each way a path can start, and each thing it can lead to.                *)
EXTENDS Files

T == INSTANCE TLC

\* Init alone tells FirstProc from the other processes: no call and no property
\* does.
Symmetry == T!Permutations(Procs)

MCPaths == { [start |-> "", name |-> "file"], [start |-> "/", name |-> "missing"],
             [start |-> ":", name |-> "."], [start |-> "disk0:", name |-> ""],
             [start |-> "stdin:", name |-> ""], [start |-> "stdout:", name |-> ""],
             [start |-> "stdout:", name |-> "file"], [start |-> "disk1:", name |-> "file"] }
=============================================================================
