------------------------------- MODULE MkSfs --------------------------------
(***************************************************************************)
(* The tool that makes the image of the simple file system from a          *)
(* directory of the host (tools/mksfs.c).  It walks the directory in the   *)
(* order readdir has, which is arbitrary: a step takes one entry of the    *)
(* directory it is in, or ends it.  A symbolic link has one name.          *)
(***************************************************************************)
EXTENDS Integers, Sequences, FiniteSets, FiniteSetsExt

CONSTANTS
    Home, Trees,            \* the root, and directory -> name -> file, of each input
    Kind,                   \* file -> "file", "dir", "link" or "other"
    Sizes, ImageSizes,      \* sizes of files, and of the image in blocks
    NameLen, Hidden,        \* name -> its length; the names that start with a dot
    SFS_BLKSIZE, SFS_BLKBITS, SFS_BLK_NENTRY, SFS_NDIRECT,
    SFS_MAX_NBLKS,          \* blocks of the largest image
    SFS_LN_NBLKS,           \* blocks of the largest file
    SFS_MAX_FNAME_LEN

VARIABLES
    tree, size,             \* the input
    S,                      \* next_ino and unused_blocks, the inodes and index blocks in
                            \* memory, the blocks written, and whether an assertion failed
    work,                   \* the directories that are open, with the names still to come
    result                  \* "running", "done", or the reason of bug()

vars == <<tree, size, S, work, result>>

SFS_L1_NBLKS == SFS_BLK_NENTRY + SFS_NDIRECT
Zero == [t |-> "zero"]
Ninos == Cardinality(DOMAIN S.disk)
NoInode == [ino |-> 0]

RoundUpDiv(a, b) == (a + b - 1) \div b

alloc_cache_inode(T, r, ino, type) ==
    [T EXCEPT !.ci[r] = [t |-> "inode", ino |-> ino, type |-> type, size |-> 0, nlinks |-> 0,
                         nblks |-> 0, direct |-> <<>>, indirect |-> 0, db_indirect |-> 0,
                         l1 |-> 0, l2 |-> 0]]

\* More of the image than SFS_MAX_NBLKS is not used.
create_sfs(blocks) ==
    LET ninos == Min({blocks, SFS_MAX_NBLKS})
        next == 2 + RoundUpDiv(ninos, SFS_BLKBITS)
    IN  alloc_cache_inode(
          [next |-> next, unused |-> ninos - next, ci |-> [r \in DOMAIN Kind |-> NoInode],
           cache |-> [b \in {} |-> 0], disk |-> [b \in 0..(ninos - 1) |-> Zero],
           big |-> FALSE, asserts |-> TRUE],
          Home, 1, "dir")

Init ==
    /\ tree \in Trees
    /\ size \in [{r \in DOMAIN Kind : Kind[r] = "file"} -> Sizes]
    /\ S \in {create_sfs(n) : n \in ImageSizes}
    /\ work = <<>>
    /\ result = IF S.next >= Ninos THEN "img file is too small" ELSE "running"
-----------------------------------------------------------------------------
\* The number is T.next.  When the image is full the tool quits: see Goes.
sfs_alloc_ino(T) == [T EXCEPT !.next = @ + 1, !.unused = @ - 1]

write_block(T, content, ino) ==
    IF ino \in DOMAIN T.disk THEN [T EXCEPT !.disk[ino] = content] ELSE T

\* A block of zeros in memory, whose number is T.next.
alloc_cache_block(T) ==
    [sfs_alloc_ino(T) EXCEPT
       !.cache = [b \in DOMAIN @ \cup {T.next} |->
                    IF b = T.next THEN [i \in 0..(SFS_BLK_NENTRY - 1) |-> 0] ELSE @[b]]]

\* A block in memory is found again under its number only if that hashes like
\* 0, under which alloc_cache_block puts it: the search counts as failed.
update_cache(T, cb, ino) ==
    IF ino = 0 THEN [S |-> alloc_cache_block(T), ino |-> T.next]
    ELSE [S |-> [T EXCEPT !.asserts = @ /\ cb = ino], ino |-> ino]

\* The next block of a file: direct, by an index block, or by an index of those.
append_block(T, r, len, ino) ==
    LET ci == T.ci[r]
        n == ci.nblks
        counted(U, c) == [U EXCEPT !.ci[r] = [c EXCEPT !.nblks = @ + 1, !.size = @ + len]]
        m == n - SFS_L1_NBLKS
        one == update_cache(T, ci.l1, ci.indirect)
        two == update_cache(T, ci.l2, ci.db_indirect)
        sub == update_cache(two.S, ci.l1, two.S.cache[two.ino][m \div SFS_BLK_NENTRY])
    IN  IF n >= SFS_LN_NBLKS THEN [T EXCEPT !.big = TRUE]
        ELSE IF n < SFS_NDIRECT THEN counted(T, [ci EXCEPT !.direct = Append(@, ino)])
        ELSE IF n < SFS_L1_NBLKS
        THEN counted([one.S EXCEPT !.cache[one.ino][n - SFS_NDIRECT] = ino],
                     [ci EXCEPT !.l1 = one.ino, !.indirect = one.ino])
        ELSE counted([sub.S EXCEPT !.cache[two.ino][m \div SFS_BLK_NENTRY] = sub.ino,
                                   !.cache[sub.ino][m % SFS_BLK_NENTRY] = ino],
                     [ci EXCEPT !.l1 = sub.ino, !.l2 = two.ino, !.db_indirect = two.ino])

\* An entry is four bytes of number and the name, but only as many bytes as
\* the name has room for are written.
Stored(name) == <<name, Min({NameLen[name], SFS_MAX_FNAME_LEN + 1 - 4})>>

add_entry(T, dir, r, name) ==
    LET U == write_block(sfs_alloc_ino(T), [t |-> "entry", ino |-> T.ci[r].ino, name |-> Stored(name)],
                         T.next)
    IN  [append_block(U, dir, SFS_MAX_FNAME_LEN + 1, T.next) EXCEPT !.ci[r].nlinks = @ + 1]

open_file(T, r) ==
    LET n == RoundUpDiv(size[r], SFS_BLKSIZE)
        filled[i \in 0..n] ==
          IF i = 0 THEN T
          ELSE LET U == filled[i - 1]
               IN  append_block(write_block(sfs_alloc_ino(U), [t |-> "data", of |-> r, index |-> i - 1],
                                            U.next),
                                r, Min({SFS_BLKSIZE, size[r] - (i - 1) * SFS_BLKSIZE}), U.next)
    IN  filled[n]

open_link(T, r) ==
    append_block(write_block(sfs_alloc_ino(T), [t |-> "data", of |-> r, index |-> 0], T.next),
                 r, 1, T.next)

NewInode(T, r, type) == alloc_cache_inode(sfs_alloc_ino(T), r, T.next, type)

\* A file that has been stored under another name is only linked.
add_file(T, dir, name, r) ==
    add_entry(IF T.ci[r] # NoInode THEN T ELSE open_file(NewInode(T, r, "file"), r), dir, r, name)

add_link(T, dir, name, r) == add_entry(open_link(NewInode(T, r, "link"), r), dir, r, name)

\* The start of open_dir.
Entered(T, dir, parent) == add_entry(add_entry(T, dir, dir, "."), dir, parent, "..")

\* The tool goes on, unless it has run out of blocks or a file is too big.
Goes(T, w) ==
    /\ S' = T
    /\ result' = IF T.next > Ninos THEN "out of disk space"
                 ELSE IF T.big THEN "file is too big" ELSE "running"
    /\ work' = w
    /\ UNCHANGED <<tree, size>>
-----------------------------------------------------------------------------
Frame(dir, name) == [dir |-> dir, name |-> name, left |-> DOMAIN tree[dir]]

create_img ==
    /\ result = "running" /\ work = <<>>
    /\ Goes(Entered(S, Home, Home), <<Frame(Home, "")>>)

\* The next entry of the directory the tool is in.
open_dir(name) ==
    LET dir == Head(work).dir
        r == tree[dir][name]
        rest == <<[Head(work) EXCEPT !.left = @ \ {name}]>> \o Tail(work)
    IN  /\ result = "running" /\ work # <<>> /\ name \in Head(work).left
        /\ \/ /\ name \in Hidden \/ Kind[r] = "other"
              /\ Goes(S, rest)
           \/ /\ name \notin Hidden /\ Kind[r] = "link"
              /\ Goes(add_link(S, dir, name, r), rest)
           \/ /\ name \notin Hidden /\ Kind[r] = "file"
              /\ Goes(add_file(S, dir, name, r), rest)
           \/ /\ name \notin Hidden /\ Kind[r] = "dir"
              /\ Goes([Entered(NewInode(S, r, "dir"), r, dir) EXCEPT
                         !.asserts = @ /\ S.ci[r] = NoInode],
                      <<Frame(r, name)>> \o rest)

\* The end of add_dir: the directory gets its own entry after what it holds.
add_dir ==
    /\ result = "running" /\ Len(work) > 1 /\ Head(work).left = {}
    /\ Goes(add_entry(S, work[2].dir, Head(work).dir, Head(work).name), Tail(work))

\* Mutant: the last block of the free map is filled to its end.
freemap_Full(i) ==
    {j \in 0..(SFS_BLKBITS - 1) : i + j >= S.next}

\* The bits of the block of the free map that starts with block i: free are
\* the blocks from next_ino to the end of the image.
freemap(i) ==
    {j \in 0..(SFS_BLKBITS - 1) : i + j >= S.next /\ i + j < Ninos}

\* Free map, super block, and all that was kept in memory.
close_sfs ==
    LET inodes == {r \in DOMAIN S.ci : S.ci[r] # NoInode}
        block(b) ==
          IF b = 0 THEN [t |-> "super", blocks |-> Ninos, unused |-> S.unused]
          ELSE IF b \in DOMAIN S.cache THEN [t |-> "index", ents |-> S.cache[b]]
          ELSE IF \E r \in inodes : S.ci[r].ino = b
          THEN S.ci[CHOOSE r \in inodes : S.ci[r].ino = b]
          ELSE IF b \in 2..(1 + RoundUpDiv(Ninos, SFS_BLKBITS))
          THEN [t |-> "map", bits |-> freemap((b - 2) * SFS_BLKBITS)]
          ELSE S.disk[b]
    IN  /\ result = "running" /\ Len(work) = 1 /\ Head(work).left = {}
        /\ S' = [S EXCEPT !.disk = [b \in DOMAIN @ |-> block(b)]]
        /\ result' = "done" /\ work' = <<>>
        /\ UNCHANGED <<tree, size>>

Next ==
    \/ create_img \/ add_dir \/ close_sfs
    \/ work # <<>> /\ \E name \in Head(work).left : open_dir(name)

Spec == Init /\ [][Next]_vars
-----------------------------------------------------------------------------
\* The blocks of a file as its inode and index blocks in memory list them: the
\* reference for append_block.
Listed(r) ==
    LET ci == S.ci[r]
        sub(i) == S.cache[S.cache[ci.db_indirect][i \div SFS_BLK_NENTRY]][i % SFS_BLK_NENTRY]
    IN  [i \in 0..(ci.nblks - 1) |->
           IF i < SFS_NDIRECT THEN ci.direct[i + 1]
           ELSE IF i < SFS_L1_NBLKS THEN S.cache[ci.indirect][i - SFS_NDIRECT]
           ELSE sub(i - SFS_L1_NBLKS)]

\* The assertions hold (in particular update_cache never has to search), and
\* block i of every file stored is listed as its i-th.
BlocksListed ==
    result \in {"running", "done"} =>
      /\ S.asserts
      /\ \A r \in DOMAIN size : S.ci[r] # NoInode =>
           /\ S.ci[r].size = size[r]
           /\ \A i \in 0..(S.ci[r].nblks - 1) :
                S.disk[Listed(r)[i]] = [t |-> "data", of |-> r, index |-> i]
=============================================================================
