------------------------------ MODULE FileStore ------------------------------
(***************************************************************************)
(* What a file system promises its callers: each file is a sequence of     *)
(* words of its own; a write stores a prefix of what it is given; what lies*)
(* between the old end and the place written to, or the new end, is zero.  *)
(***************************************************************************)
EXTENDS Integers, Sequences, FiniteSetsExt

CONSTANTS Files, Words, MaxSize

VARIABLE content        \* file -> sequence of words

Overlay(old, pos, n, w) ==
    [i \in 1..Max({Len(old), pos + n}) |->
        IF i \in (pos + 1)..(pos + n) THEN w ELSE IF i <= Len(old) THEN old[i] ELSE 0]

Init == content = [f \in Files |-> <<>>]

Written(old, new) ==
    \E pos \in 0..MaxSize, n \in 1..MaxSize, w \in Words : new = Overlay(old, pos, n, w)

Extended(old, new) == \E len \in 0..MaxSize : new = Overlay(old, len, 0, 0)

Discarded(new) == new = <<>>

Next ==
    \E f \in Files : \E old \in {content[f]}, new \in {content'[f]} :
        /\ Discarded(new) \/ Extended(old, new) \/ Written(old, new)
        /\ \A g \in Files \ {f} : content'[g] = content[g]

Spec == Init /\ [][Next]_content
=============================================================================
