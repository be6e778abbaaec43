--------------------------------- MODULE Sfs ---------------------------------
(***************************************************************************)
(* The simple file system (fs/sfs): the free map, the direct and indirect  *)
(* block map of a file, reading, writing, seeking and truncating it, and   *)
(* the in-memory inode that is written back when the last opening of the   *)
(* file is closed.  The disk is memory (ramdisk.c), its operations do not  *)
(* fail and nothing blocks in the file system, so a call is one step.  The *)
(* counts of an inode are in Files; here an inode is in memory as long as  *)
(* somebody has the file open.                                             *)
(***************************************************************************)
EXTENDS Integers, Sequences, SequencesExt, FiniteSets, FiniteSetsExt

CONSTANTS
    Files, Openings,
    DataBlocks,         \* blocks past the super block, the free map, the directory and the inodes
    SFS_NDIRECT,
    SFS_BLK_NENTRY,     \* block numbers in an indirect block
    SFS_BLKSIZE,        \* pieces of data in a block, each the size of a number or larger
    SFS_MAX_FILE_SIZE,
    Words               \* pieces of data that are written

VARIABLES
    disk,               \* block -> its words
    dinode,             \* file -> its inode on disk
    sin,                \* file -> its inode in memory
    sfs,                \* freemap (a set), unused_blocks, super_dirty
    image,              \* the super block and the free map on disk
    fd,                 \* opening -> the file and position
    panic               \* "none", or the function whose assertion failed

vars == <<disk, dinode, sin, sfs, image, fd, panic>>

NoFile == "none"
ZeroBlock == [i \in 1..SFS_BLK_NENTRY |-> 0]
EmptyInode == [size |-> 0, blocks |-> 0, direct |-> [i \in 1..SFS_NDIRECT |-> 0], indirect |-> 0]
NotLoaded == [din |-> EmptyInode, dirty |-> FALSE, loaded |-> FALSE]
Closed == [file |-> NoFile, pos |-> 0]
Built == [unused |-> Cardinality(DataBlocks), freemap |-> DataBlocks, cleaned |-> FALSE]

\* An image of empty files.
Init ==
    /\ disk = [b \in DataBlocks |-> ZeroBlock]
    /\ dinode = [f \in Files |-> EmptyInode]
    /\ sin = [f \in Files |-> NotLoaded]
    /\ sfs = [freemap |-> Built.freemap, unused |-> Built.unused, dirty |-> FALSE]
    /\ image = Built
    /\ fd = [o \in Openings |-> Closed]
    /\ panic = "none"
-----------------------------------------------------------------------------
\* S is the state of the file system; a call yields [S, ok, ino].
State == [disk |-> disk, dinode |-> dinode, sin |-> sin, sfs |-> sfs, panic |-> panic]

Becomes(S) ==
    /\ disk' = S.disk /\ dinode' = S.dinode /\ sin' = S.sin /\ sfs' = S.sfs /\ panic' = S.panic

Check(S, condition, where) ==
    IF condition \/ S.panic # "none" THEN S ELSE [S EXCEPT !.panic = where]

Result(S, ino) == [S |-> S, ok |-> S.panic = "none", ino |-> ino]
Fails(S) == [S |-> S, ok |-> FALSE, ino |-> 0]

\* sfs_block_inuse panics on a number that is not a block.
sfs_block_inuse(S, ino) == ino \in DataBlocks /\ ino \notin S.sfs.freemap

\* bitmap_alloc: the lowest free block.
bitmap_alloc(S) == Min(S.sfs.freemap)

\* Mutant: the block keeps what it last held.
sfs_block_alloc_Dirty(S) ==
    IF S.sfs.freemap = {} THEN Fails(S)
    ELSE Result([S EXCEPT !.sfs.freemap = @ \ {bitmap_alloc(S)}, !.sfs.unused = @ - 1,
                          !.sfs.dirty = TRUE], bitmap_alloc(S))

sfs_block_alloc(S) ==
    IF S.sfs.freemap = {} THEN Fails(S)
    ELSE LET ino == bitmap_alloc(S)
         IN  Result([Check(S, S.sfs.unused > 0, "sfs_block_alloc") EXCEPT
                       !.sfs.freemap = @ \ {ino}, !.sfs.unused = @ - 1, !.sfs.dirty = TRUE,
                       !.disk[ino] = ZeroBlock], ino)

sfs_block_free(S, ino) ==
    [Check(S, sfs_block_inuse(S, ino), "sfs_block_free") EXCEPT
        !.sfs.freemap = @ \cup {ino}, !.sfs.unused = @ + 1, !.sfs.dirty = TRUE]

\* Mutant: an indirect block taken for a block that is not to be had is kept.
sfs_bmap_get_sub_nolock_Leak(S, ent, index, create) ==
    LET old == IF ent # 0 THEN S.disk[ent][index + 1] ELSE 0
        entry(e, b) ==
            IF b.ok THEN [S |-> [b.S EXCEPT !.disk[e.ino][index + 1] = b.ino],
                          ok |-> TRUE, ent |-> e.ino, ino |-> b.ino]
            ELSE [S |-> b.S,
                  ok |-> FALSE, ent |-> ent, ino |-> 0]
        table(e) == IF e.ok THEN entry(e, sfs_block_alloc(e.S))
                    ELSE [S |-> e.S, ok |-> FALSE, ent |-> ent, ino |-> 0]
    IN  IF old # 0 \/ ~ create THEN [S |-> S, ok |-> TRUE, ent |-> ent, ino |-> old]
        ELSE table(IF ent # 0 THEN Result(S, ent) ELSE sfs_block_alloc(S))

\* The block an indirect block (ent, or none) has at index.
sfs_bmap_get_sub_nolock(S, ent, index, create) ==
    LET old == IF ent # 0 THEN S.disk[ent][index + 1] ELSE 0
        entry(e, b) ==
            IF b.ok THEN [S |-> [b.S EXCEPT !.disk[e.ino][index + 1] = b.ino],
                          ok |-> TRUE, ent |-> e.ino, ino |-> b.ino]
            ELSE [S |-> IF ent # 0 THEN b.S ELSE sfs_block_free(b.S, e.ino),
                  ok |-> FALSE, ent |-> ent, ino |-> 0]
        table(e) == IF e.ok THEN entry(e, sfs_block_alloc(e.S))
                    ELSE [S |-> e.S, ok |-> FALSE, ent |-> ent, ino |-> 0]
    IN  IF old # 0 \/ ~ create THEN [S |-> S, ok |-> TRUE, ent |-> ent, ino |-> old]
        ELSE table(IF ent # 0 THEN Result(S, ent) ELSE sfs_block_alloc(S))

\* The block a file has at index.  Past the indirect block the code reads an
\* uninitialized block number; DataBlocks are too few for a file to get there.
sfs_bmap_get_nolock(S, f, index, create) ==
    LET din == S.sin[f].din
        direct(b) ==
            IF ~ b.ok THEN Fails(b.S)
            ELSE Result([b.S EXCEPT !.sin[f].din.direct[index + 1] = b.ino,
                                    !.sin[f].dirty = TRUE], b.ino)
        indirect(sub) ==
            IF ~ sub.ok THEN Fails(sub.S)
            ELSE Result(IF sub.ent = din.indirect THEN sub.S
                        ELSE [sub.S EXCEPT !.sin[f].din.indirect = sub.ent,
                                           !.sin[f].dirty = TRUE], sub.ino)
    IN  IF index >= SFS_NDIRECT
          THEN indirect(sfs_bmap_get_sub_nolock(S, din.indirect, index - SFS_NDIRECT, create))
        ELSE IF din.direct[index + 1] # 0 \/ ~ create THEN Result(S, din.direct[index + 1])
        ELSE direct(sfs_block_alloc(S))

\* With sfs_bmap_free_sub_nolock.  The indirect block itself is kept.
sfs_bmap_free_nolock(S, f, index) ==
    LET din == S.sin[f].din
        ino == IF index < SFS_NDIRECT THEN din.direct[index + 1]
               ELSE IF din.indirect # 0 THEN S.disk[din.indirect][index - SFS_NDIRECT + 1] ELSE 0
    IN  IF ino = 0 THEN S
        ELSE IF index < SFS_NDIRECT
          THEN [sfs_block_free(S, ino) EXCEPT !.sin[f].din.direct[index + 1] = 0, !.sin[f].dirty = TRUE]
        ELSE sfs_block_free([S EXCEPT !.disk[din.indirect][index - SFS_NDIRECT + 1] = 0], ino)

\* A block is added exactly at the end.
sfs_bmap_load_nolock(S, f, index) ==
    LET blocks == S.sin[f].din.blocks
        checked == Check(S, index <= blocks, "sfs_bmap_load_nolock")
        counted(T) == IF index = blocks THEN [T EXCEPT !.sin[f].din.blocks = @ + 1] ELSE T
        load(got) ==
            IF ~ got.ok THEN got
            ELSE Result(counted(Check(got.S, sfs_block_inuse(got.S, got.ino), "sfs_block_inuse")),
                        got.ino)
    IN  IF checked.panic # "none" THEN Fails(checked)
        ELSE load(sfs_bmap_get_nolock(S, f, index, index = blocks))

sfs_bmap_truncate_nolock(S, f) ==
    [sfs_bmap_free_nolock(S, f, S.sin[f].din.blocks - 1) EXCEPT
        !.sin[f].din.blocks = @ - 1, !.sin[f].dirty = TRUE]
-----------------------------------------------------------------------------
\* How sfs_io_nolock cuts a transfer: the rest of a block, whole blocks, and
\* the start of a block.
Pieces(offset, endpos) ==
    LET blkno == offset \div SFS_BLKSIZE
        nblks == endpos \div SFS_BLKSIZE - blkno
        blkoff == offset % SFS_BLKSIZE
        first == IF blkoff = 0 THEN 0 ELSE 1
    IN  (IF blkoff = 0 THEN <<>>
         ELSE << [blkno |-> blkno, off |-> blkoff,
                  size |-> IF nblks # 0 THEN SFS_BLKSIZE - blkoff ELSE endpos - offset] >>)
        \o [i \in 1..(nblks - first) |-> [blkno |-> blkno + first + i - 1, off |-> 0, size |-> SFS_BLKSIZE]]
        \o (IF endpos % SFS_BLKSIZE = 0 \/ (blkoff # 0 /\ nblks = 0) THEN <<>>
            ELSE << [blkno |-> endpos \div SFS_BLKSIZE, off |-> 0, size |-> endpos % SFS_BLKSIZE] >>)

\* sfs_wbuf and sfs_wblock.
Store(S, ino, piece, w) ==
    [S EXCEPT !.disk[ino] =
        [i \in 1..SFS_BLK_NENTRY |-> IF i \in (piece.off + 1)..(piece.off + piece.size) THEN w ELSE @[i]]]

\* The transfer goes up to the first piece that fails; a position past the end
\* becomes the end, even if nothing was transferred.  [S, alen]
sfs_io_nolock(S, f, offset, len, write, w) ==
    LET size == S.sin[f].din.size
        limit == IF write THEN SFS_MAX_FILE_SIZE ELSE size
        endpos == Min({offset + len, SFS_MAX_FILE_SIZE, limit})
        transfer(acc, piece, l) ==
            IF ~ l.ok THEN [acc EXCEPT !.S = l.S, !.ok = FALSE]
            ELSE [S |-> IF write THEN Store(l.S, l.ino, piece, w) ELSE l.S,
                  alen |-> acc.alen + piece.size, ok |-> TRUE]
        step(acc, piece) ==
            IF ~ acc.ok THEN acc
            ELSE transfer(acc, piece, sfs_bmap_load_nolock(acc.S, f, piece.blkno))
        out(T, alen) ==
            [alen |-> alen,
             S |-> IF T.panic # "none" \/ offset + alen <= size THEN T
                   ELSE [T EXCEPT !.sin[f].din.size = offset + alen, !.sin[f].dirty = TRUE]]
        done(acc) == out(acc.S, acc.alen)
    IN  IF offset >= SFS_MAX_FILE_SIZE \/ len = 0 \/ (~ write /\ offset >= size)
          THEN [S |-> S, alen |-> 0]
        ELSE done(FoldLeft(step, [S |-> S, alen |-> 0, ok |-> TRUE], Pieces(offset, endpos)))

\* [S, ok].  Blocks that were added before one was not to be had stay.
sfs_truncfile(S, f, len) ==
    LET din == S.sin[f].din
        tblks == (len + SFS_BLKSIZE - 1) \div SFS_BLKSIZE
        add(r, i) == IF r.ok THEN sfs_bmap_load_nolock(r.S, f, din.blocks + i - 1) ELSE r
        drop(r, i) == Result(sfs_bmap_truncate_nolock(r.S, f), 0)
        r == IF din.blocks < tblks
               THEN FoldLeft(add, Result(S, 0), [i \in 1..(tblks - din.blocks) |-> i])
               ELSE FoldLeft(drop, Result(S, 0), [i \in 1..(din.blocks - tblks) |-> i])
    IN  IF din.size = len THEN Result(Check(S, tblks = din.blocks, "sfs_truncfile"), 0)
        ELSE IF ~ r.ok THEN r
        ELSE Result([r.S EXCEPT !.sin[f].din.size = len, !.sin[f].dirty = TRUE], 0)

sfs_tryseek(S, f, pos) ==
    IF pos >= SFS_MAX_FILE_SIZE THEN Fails(S)
    ELSE IF pos > S.sin[f].din.size THEN sfs_truncfile(S, f, pos) ELSE Result(S, 0)

sfs_fsync(S, f) ==
    IF S.sin[f].dirty THEN [S EXCEPT !.sin[f].dirty = FALSE, !.dinode[f] = S.sin[f].din] ELSE S

sfs_load_inode(S, f) ==
    IF S.sin[f].loaded THEN S
    ELSE [S EXCEPT !.sin[f] = [din |-> S.dinode[f], dirty |-> FALSE, loaded |-> TRUE]]
-----------------------------------------------------------------------------
Running == panic = "none" /\ image = Built

\* vfs_open with or without O_TRUNC.
Open(o, f, trunc) ==
    LET loaded == sfs_load_inode(State, f)
    IN  /\ Running /\ fd[o] = Closed
        /\ Becomes(IF trunc THEN sfs_truncfile(loaded, f, 0).S ELSE loaded)
        /\ fd' = [fd EXCEPT ![o] = [file |-> f, pos |-> 0]]
        /\ UNCHANGED image

\* vfs_close: the last opening of a file runs sfs_close and sfs_reclaim, which
\* write the inode back; no inode here has lost its last link.
Close(o) ==
    LET f == fd[o].file
        synced == sfs_fsync(State, f)
    IN  /\ Running /\ f # NoFile
        /\ fd' = [fd EXCEPT ![o] = Closed]
        /\ Becomes(IF \E p \in Openings \ {o} : fd[p].file = f THEN State
                   ELSE [synced EXCEPT !.sin[f] = NotLoaded])
        /\ UNCHANGED image

ReadWrite(o, len, write, w) ==
    LET io == sfs_io_nolock(State, fd[o].file, fd[o].pos, len, write, w)
    IN  /\ Running /\ fd[o].file # NoFile
        /\ Becomes(io.S)
        /\ fd' = [fd EXCEPT ![o].pos = @ + io.alen]
        /\ UNCHANGED image

Seek(o, pos) ==
    LET r == sfs_tryseek(State, fd[o].file, pos)
    IN  /\ Running /\ fd[o].file # NoFile
        /\ Becomes(r.S)
        /\ fd' = [fd EXCEPT ![o].pos = IF r.ok THEN pos ELSE @]
        /\ UNCHANGED image

Fsync(o) ==
    /\ Running /\ fd[o].file # NoFile
    /\ Becomes(sfs_fsync(State, fd[o].file))
    /\ UNCHANGED <<fd, image>>

\* sfs_cleanup, when all processes have quit: sfs_sync writes the super block
\* and the free map if they have changed.
Cleanup ==
    /\ Running /\ \A o \in Openings : fd[o] = Closed
    /\ image' = IF sfs.dirty THEN [unused |-> sfs.unused, freemap |-> sfs.freemap, cleaned |-> TRUE]
                ELSE [image EXCEPT !.cleaned = TRUE]
    /\ sfs' = [sfs EXCEPT !.dirty = FALSE]
    /\ UNCHANGED <<disk, dinode, sin, fd, panic>>

Next ==
    \/ \E o \in Openings :
        \/ \E f \in Files, trunc \in BOOLEAN : Open(o, f, trunc)
        \/ Close(o)
        \/ \E len \in 1..SFS_BLKSIZE + 1, w \in Words : ReadWrite(o, len, TRUE, w)
        \/ ReadWrite(o, SFS_BLKSIZE + 1, FALSE, 0)
        \/ \E pos \in 0..SFS_MAX_FILE_SIZE : Seek(o, pos)
        \/ Fsync(o)
    \/ Cleanup

Spec == Init /\ [][Next]_vars
-----------------------------------------------------------------------------
Din(f) == IF sin[f].loaded THEN sin[f].din ELSE dinode[f]

\* The places a file has block numbers in.
Pointers(f) ==
    Din(f).direct \o <<Din(f).indirect>> \o
        (IF Din(f).indirect = 0 THEN <<>> ELSE disk[Din(f).indirect])

InUse(f) == SelectSeq(Pointers(f), LAMBDA b : b # 0)

\* The image that is left is one sfs_do_mount accepts, and its free map is
\* that of the inodes on disk.
ImageClean ==
    image.cleaned =>
        /\ image.unused = Cardinality(image.freemap)
        /\ image.freemap = DataBlocks \ UNION { Range(InUse(f)) : f \in Files }

\* Every block is either free or in exactly one place of one file, and
\* unused_blocks counts the free ones: no sequence of writes, extensions and
\* truncations, of which any may meet a full disk, loses or shares a block,
\* the assertions about the free map hold, and the image of a clean unmount
\* says the same.
BlocksOwned ==
    /\ panic \notin {"sfs_block_alloc", "sfs_block_free", "sfs_block_inuse"}
    /\ UNION { Range(InUse(f)) : f \in Files } = DataBlocks \ sfs.freemap
    /\ Cardinality(DataBlocks \ sfs.freemap) =
         MapThenSumSet(LAMBDA f : Len(InUse(f)), Files)
    /\ sfs.unused = Cardinality(sfs.freemap)
    /\ ImageClean

\* What a read of word i finds.
WordAt(f, i) ==
    LET din == Din(f)
        index == i \div SFS_BLKSIZE
        ino == IF index < SFS_NDIRECT THEN din.direct[index + 1]
               ELSE IF din.indirect = 0 THEN 0 ELSE disk[din.indirect][index - SFS_NDIRECT + 1]
    IN  IF ino = 0 THEN 0 ELSE disk[ino][(i % SFS_BLKSIZE) + 1]

Abstract == INSTANCE FileStore WITH
    MaxSize <- SFS_MAX_FILE_SIZE,
    content <- [f \in Files |-> [i \in 1..Din(f).size |-> WordAt(f, i - 1)]]

\* The block map, the partial transfers and the inodes that come and go from
\* memory implement files that are sequences of words.
ImplementsStore == Abstract!Spec
=============================================================================
