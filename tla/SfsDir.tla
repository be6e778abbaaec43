------------------------------- MODULE SfsDir -------------------------------
(***************************************************************************)
(* What the kernel reads from an image that MkSfs made: mounting it        *)
(* (sfs_fs.c) and the operations on directories (sfs_inode.c), as          *)
(* functions of the blocks of the image.                                   *)
(***************************************************************************)
EXTENDS MkSfs

CONSTANT MaxPath            \* bytes of the buffer of getcwd

Disk == S.disk
Absent == 0                 \* -E_NOENT: block 0 is never an inode
Panic == -1

\* sfs_do_mount: the bits set in all blocks of the free map.
Unused ==
    FoldSet(LAMBDA b, n : n + Cardinality(Disk[b].bits), 0,
            2..(1 + RoundUpDiv(Disk[0].blocks, SFS_BLKBITS)))

sfs_block_inuse(ino) ==
    /\ ino # 0 /\ ino < Disk[0].blocks
    /\ ino % SFS_BLKBITS \notin Disk[2 + ino \div SFS_BLKBITS].bits

\* The blocks a file may get at index, which is less than its number of blocks.
\* The kernel knows no double indirect blocks: past the indirect ones it goes on
\* from a variable it has not set, and may panic or find any block.
sfs_bmap_get_nolock(din, index) ==
    IF index < SFS_NDIRECT THEN {din.direct[index + 1]}
    ELSE IF index < SFS_L1_NBLKS THEN {Disk[din.indirect].ents[index - SFS_NDIRECT]}
    ELSE {Panic} \cup DOMAIN Disk

sfs_bmap_load_nolock(din, index) ==
    {IF b # Panic /\ sfs_block_inuse(b) THEN b ELSE Panic : b \in sfs_bmap_get_nolock(din, index)}

\* The inputs have directories without double indirect blocks.
sfs_dirent_read_nolock(dir, slot) ==
    Disk[CHOOSE b \in sfs_bmap_load_nolock(Disk[dir], slot) : TRUE]
Slots(dir) == 0..(Disk[dir].nblks - 1)

\* The inode of a name, from the first slot that has it.
sfs_dirent_search_nolock(dir, name) ==
    LET found == {s \in Slots(dir) : sfs_dirent_read_nolock(dir, s).name = name}
    IN  IF found = {} THEN Absent ELSE sfs_dirent_read_nolock(dir, Min(found)).ino

\* The name of an inode, from the first slot that has it.
sfs_dirent_findino_nolock(dir, ino) ==
    sfs_dirent_read_nolock(dir, Min({s \in Slots(dir) : sfs_dirent_read_nolock(dir, s).ino = ino})).name

\* The assertions on an inode that is read; sfs_get_ops has no operations for a
\* symbolic link, and panics.
sfs_load_inode(ino) ==
    IF sfs_block_inuse(ino) /\ Disk[ino].nlinks # 0 /\ Disk[ino].type \in {"dir", "file"}
    THEN ino ELSE Panic

\* The whole path is looked up as one name; no name has a slash in it.
sfs_lookup_once(dir, path) ==
    LET ino == IF Len(path) # 1 THEN Absent ELSE sfs_dirent_search_nolock(dir, path[1])
    IN  IF ino = Absent THEN Absent ELSE sfs_load_inode(ino)

sfs_lookup(dir, path) ==
    IF Disk[dir].type # "dir" THEN Absent ELSE sfs_lookup_once(dir, path)

\* Mutant: the count of slots includes the one that is returned.
sfs_getdirentry_Skip(dir, slot) ==
    IF slot > Disk[dir].nblks THEN <<>>
    ELSE LET used == {s \in Slots(dir) : sfs_dirent_read_nolock(dir, s).ino # 0}
             nth == {s \in used : Cardinality({u \in used : u <= s}) = slot}
         IN  IF nth = {} THEN <<>> ELSE sfs_dirent_read_nolock(dir, Min(nth)).name

\* The name in the slot-th of the slots that are used.
sfs_getdirentry(dir, slot) ==
    IF slot > Disk[dir].nblks THEN <<>>
    ELSE LET used == {s \in Slots(dir) : sfs_dirent_read_nolock(dir, s).ino # 0}
             nth == {s \in used : Cardinality({u \in used : u < s}) = slot}
         IN  IF nth = {} THEN <<>> ELSE sfs_dirent_read_nolock(dir, Min(nth)).name

\* The way up from a directory to the root; each name and its slash take room
\* from the end of the buffer, of which two bytes are kept.
sfs_namefile(dir) ==
    LET up[ino \in DOMAIN Disk, resid \in Int, path \in Seq(STRING \X Nat)] ==
          LET parent == sfs_lookup_once(ino, <<<<"..", 2>>>>)
              name == sfs_dirent_findino_nolock(parent, ino)
          IN  IF parent = ino THEN path
              ELSE IF name[2] + 1 > resid THEN <<"E_NO_MEM">>
              ELSE up[parent, resid - (name[2] + 1), <<name>> \o path]
    IN  up[dir, MaxPath - 2, <<>>]
-----------------------------------------------------------------------------
Done == result = "done"
Dirs == {r \in DOMAIN S.ci : S.ci[r] # NoInode /\ Kind[r] = "dir"}
Full(name) == <<name, NameLen[name]>>
Visible(dir) == {n \in DOMAIN tree[dir] : n \notin Hidden /\ Kind[tree[dir][n]] # "other"}

\* All blocks that something refers to, with repetitions, as a function to the
\* number of references.
References(b) ==
    LET inodes == {r \in DOMAIN S.ci : S.ci[r] # NoInode}
        index(i) == Disk[i].ents
        in(i) == Cardinality({e \in DOMAIN index(i) : index(i)[e] = b})
    IN  (IF b <= 1 + RoundUpDiv(Ninos, SFS_BLKBITS) /\ b # 1 THEN 1 ELSE 0)
        + Cardinality({r \in inodes : S.ci[r].ino = b})
        + Cardinality({<<r, i>> \in inodes \X (1..SFS_NDIRECT) :
                         i <= Len(S.ci[r].direct) /\ S.ci[r].direct[i] = b})
        + Cardinality({r \in inodes : S.ci[r].indirect = b /\ b # 0})
        + Cardinality({r \in inodes : S.ci[r].db_indirect = b /\ b # 0})
        + FoldSet(LAMBDA i, n : n + in(i), 0, {i \in DOMAIN Disk : Disk[i].t = "index" /\ b # 0})

\* The image is one the kernel mounts: the assertion of sfs_do_mount on the
\* unused blocks holds, a block is in use exactly if one thing refers to it, and
\* while the tool works block i of every file stored is listed as its i-th.
ImageMounts ==
    /\ BlocksListed
    /\ Done =>
        /\ Unused = Disk[0].unused
        /\ \A b \in 1..(Ninos - 1) : References(b) = IF sfs_block_inuse(b) THEN 1 ELSE 0

\* Every block of a file is read back.
ReadsBack(r, ino) ==
    \A i \in 0..(RoundUpDiv(size[r], SFS_BLKSIZE) - 1) :
      \A b \in sfs_bmap_load_nolock(Disk[ino], i) :
        b # Panic /\ Disk[b] = [t |-> "data", of |-> r, index |-> i]

\* Every name of a file or directory of the input leads to an inode of its kind,
\* and two names to the same one exactly if they do in the input.  A file has its
\* size and as many links as names, and is read back, all of it, exactly if it
\* needs no double indirect block.  To look up a symbolic link is a panic.
SameFiles ==
    \A d \in Dirs : \A n \in Visible(d) :
      LET r == tree[d][n]
          ino == sfs_lookup(S.ci[d].ino, <<Full(n)>>)
      IN  IF Kind[r] = "link" THEN ino = Panic
          ELSE /\ ino = S.ci[r].ino /\ Disk[ino].type = Kind[r]
               /\ Kind[r] = "file" =>
                    /\ Disk[ino].nlinks = Cardinality({<<e, m>> \in Dirs \X DOMAIN NameLen :
                                                         m \in Visible(e) /\ tree[e][m] = r})
                    /\ Disk[ino].size = size[r]
                    /\ ReadsBack(r, ino) <=> size[r] <= SFS_L1_NBLKS * SFS_BLKSIZE

\* Reading the entries of a directory from offset 0 until there are none gives
\* the two dots and every name once.
ListsAll ==
    \A d \in Dirs :
      LET count == Cardinality(Visible(d)) + 2
          got == [s \in 0..(count - 1) |-> sfs_getdirentry(S.ci[d].ino, s)]
      IN  /\ {got[s] : s \in DOMAIN got}
               = {Full(n) : n \in Visible(d) \cup {".", ".."}}
          /\ sfs_getdirentry(S.ci[d].ino, count) = <<>>

\* The name of a directory, unless there is no room for it, leads from the root
\* back to it, and fits the buffer with its slashes and the zero.
NameLeadsBack ==
    \A d \in Dirs :
      LET path == sfs_namefile(S.ci[d].ino)
          at[i \in 0..Len(path)] ==
            IF i = 0 THEN 1 ELSE sfs_lookup(at[i - 1], <<path[i]>>)
          bytes == FoldSet(LAMBDA i, n : n + path[i][2] + 1, 2, DOMAIN path)
      IN  path # <<"E_NO_MEM">> => at[Len(path)] = S.ci[d].ino /\ bytes <= MaxPath

\* What the kernel reads from the finished image is the tree the tool was given,
\* but for what the tool writes and the kernel does not support: lookup finds every
\* file under each of its names, a file without double indirect blocks has its
\* contents, getdirentry lists every name once, and namefile's path leads back to
\* the directory.  A larger file does not read back, and a link is a panic.
TreeReadsBack == Done => SameFiles /\ ListsAll /\ NameLeadsBack
=============================================================================
