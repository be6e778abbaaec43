---------------------------- MODULE FilesProofs -----------------------------
(***************************************************************************)
(* The inductive invariant of Files, kept by every system call, and the    *)
(* theorem: the counts of the inodes agree with the tables and with the    *)
(* references that vfs_open has kept.                                      *)
(***************************************************************************)
EXTENDS FilesLemmas

\* An entry counts its table and the call that waits for input on it.
Reads ==
    /\ \A p \in Procs : reading[p] # NoFd =>
         reading[p] \in Fds /\ fs[p].live /\ fs[p].filemap[reading[p]] # FD_NONE
    /\ \A p \in Procs, fd \in Fds : fs[p].filemap[fd] # FD_NONE =>
         fs[p].filemap[fd].open_count = IF reading[p] = fd THEN 2 ELSE 1

Sound ==
    /\ FsOK(fs) /\ inode = Copies(O(fs), R(fs, {}, kept))
    /\ fs[initproc] = fs_create(Root)
    /\ \A p \in Procs : fs[p].live \/ fs[p] = Absent
    /\ reading = [p \in Procs |-> reading[p]]
    /\ kept \in [Inodes -> Nat]
    /\ Reads

IInv == panic # "assert" /\ (panic = "none" => Sound)

\* In a sound state the counts of the inodes are those the tables give.
LEMMA SoundState ==
    ASSUME Sound
    PROVE  State = Whole(fs, {}, kept, size, panic) /\ FsOK(fs)
BY Zenon DEF Sound, State, Whole, St

\* Nobody but itself holds an entry of a process that is not in a read.
LEMMA IdleQuiet ==
    ASSUME Sound, NEW p \in Procs, reading[p] = NoFd
    PROVE  Quiet(fs, p)
BY ProcsAreTables DEF Sound, Reads, Quiet

\* What a call leaves behind when it changed one table only, that of a process
\* that does not wait.
LEMMA Preserves ==
    ASSUME Sound, NEW p \in Procs, reading[p] = NoFd, NEW g, NEW z, NEW q, q # "assert",
           FsOK(g), Quiet(g, p), Same(fs, g, p), Alive(g, p),
           Becomes(Whole(g, {}, kept, z, q)), UNCHANGED <<reading, kept>>
    PROVE  IInv'
<1>1. fs' = g /\ inode' = Copies(O(g), R(g, {}, kept)) /\ panic' = q /\ reading' = reading
      /\ kept' = kept
  BY Fields DEF Becomes, Whole
<1>2. FsOK(fs') /\ inode' = Copies(O(fs'), R(fs', {}, kept'))
  BY <1>1, Zenon
<1>3. fs'[initproc] = fs_create(Root)
  BY <1>1, ProcsAreTables, Zenon DEF Sound, Same
<1>4. \A x \in Procs : fs'[x].live \/ fs'[x] = Absent
  BY <1>1, ProcsAreTables DEF Sound, Same, Alive
<1>5. Reads'
  <2>1. ASSUME NEW x \in Procs, reading[x] # NoFd
        PROVE  reading[x] \in Fds /\ g[x].live /\ g[x].filemap[reading[x]] # FD_NONE
    BY <2>1, ProcsAreTables, Zenon DEF Sound, Reads, Same
  <2>2. ASSUME NEW x \in Procs, NEW fd \in Fds, g[x].filemap[fd] # FD_NONE
        PROVE  g[x].filemap[fd].open_count = IF reading[x] = fd THEN 2 ELSE 1
    <3>1. CASE x = p
      BY <2>2, <3>1, ProcsAreTables, SMTT(30) DEF Quiet
    <3>2. CASE x # p
      BY <2>2, <3>2, ProcsAreTables, SMTT(30) DEF Sound, Reads, Same
    <3> QED BY <3>1, <3>2
  <2> QED BY <1>1, <2>1, <2>2 DEF Reads
<1>6. reading' = [x \in Procs |-> reading'[x]]
  BY <1>1, Zenon DEF Sound
<1>8. kept' \in [Inodes -> Nat]
  BY <1>1, Zenon DEF Sound
<1>7. Sound'
  BY <1>8, <1>2, <1>3, <1>4, <1>5, <1>6, Zenon DEF Sound
<1> QED BY <1>1, <1>7, Zenon DEF IInv

\* Put starts and ends no process.
LEMMA PutLive ==
    ASSUME NEW f, NEW p \in Tables, NEW fd, NEW e
    PROVE  Put(f, p, fd, e)[p].live = f[p].live
BY Zenon DEF Put

\* The same, for changes of entries of the process.
LEMMA PreservesPut ==
    ASSUME Sound, NEW p \in Procs, Idle(p), NEW fd \in Fds, NEW e, NEW z, NEW q, q # "assert",
           EntryOK(e), e # FD_NONE => e.open_count = 1,
           Becomes(Whole(Put(fs, p, fd, e), {}, kept, z, q)), UNCHANGED <<reading, kept>>
    PROVE  IInv'
<1> DEFINE g == Put(fs, p, fd, e)
<1>1. FsOK(fs) /\ p \in Tables /\ reading[p] = NoFd /\ Quiet(fs, p)
  BY SoundState, IdleQuiet, ProcsAreTables, Zenon DEF Idle
<1>2. Alive(fs, p) /\ fs[p] # Absent
  BY DEF Idle, Alive, Absent
<1>3. FsOK(g) /\ Same(fs, g, p) /\ OneEntry(fs, g, p, fd, e) /\ Alive(g, p)
  BY <1>1, <1>2, PutParts, Zenon
<1>4. Becomes(Whole(g, {}, kept, z, q))
  BY Zenon
<1> HIDE DEF g
<1>5. Quiet(g, p)
  BY <1>1, <1>3, Zenon DEF Quiet, OneEntry
<1> QED BY <1>1, <1>3, <1>4, <1>5, Preserves, SMTT(30)

\* The same, for a call that changes at most the size of the file.
LEMMA PreservesSame ==
    ASSUME Sound, NEW p \in Procs, Idle(p), NEW z, NEW q, q # "assert",
           Becomes(Whole(fs, {}, kept, z, q)), UNCHANGED <<reading, kept>>
    PROVE  IInv'
<1>1. FsOK(fs) /\ Quiet(fs, p) /\ reading[p] = NoFd
  BY SoundState, IdleQuiet, Zenon DEF Idle
<1>2. Same(fs, fs, p) /\ Alive(fs, p)
  BY Zenon DEF Same, Alive, Idle
<1> QED BY <1>1, <1>2, Preserves, Zenon

\* The same, for the end of a process.
LEMMA PreservesEnd ==
    ASSUME Sound, NEW p \in Procs, Idle(p), NEW f, NEW z, NEW q, q # "assert",
           FsOK(f), Quiet(f, p), Same(fs, f, p),
           Becomes(fs_destroy(Whole(f, {}, kept, z, q), p)), UNCHANGED <<reading, kept>>
    PROVE  IInv'
<1> DEFINE g == PutTable(f, p, Absent)
<1>1. p \in Tables /\ reading[p] = NoFd
  BY ProcsAreTables, Zenon DEF Idle
<1>2. Becomes(Whole(g, {}, kept, z, q))
  <2>1. fs_destroy(Whole(f, {}, kept, z, q), p) = Whole(g, {}, kept, z, q)
    BY <1>1, Destroys
  <2> QED BY <2>1, Zenon
<1>3. FsOK(g) /\ g[p] = Absent
  BY <1>1, PutTableOK, EmptyTables, SMTT(30)
<1>4. Same(fs, g, p)
  BY Zenon DEF Same, PutTable
<1> HIDE DEF g
<1>5. Quiet(g, p) /\ Alive(g, p)
  BY <1>3, EmptyTables, Zenon DEF Quiet, Alive
<1> QED BY <1>1, <1>2, <1>3, <1>4, <1>5, Preserves, SMTT(30)
-----------------------------------------------------------------------------
\* Calling an operation of an inode changes no counts.
LEMMA VopWhole ==
    ASSUME NEW f, NEW L, NEW K, NEW z, NEW q, NEW n \in Inodes, NEW op, FsOK(f)
    PROVE  \E q2 \in {q, op} : Vop(Whole(f, L, K, z, q), n, op) = Whole(f, L, K, z, q2)
<1>1. Fine(O(f), R(f, L, K))
  BY CountsFine, Zenon
<1>2. CASE HasOp(n, op) \/ q # "none"
  BY <1>1, <1>2, VopHas, SMTT(30) DEF Whole
<1>3. CASE ~ HasOp(n, op) /\ q = "none"
  BY <1>3, VopMissing, Zenon DEF Whole
<1> QED BY <1>2, <1>3, Zenon

\* Changing the size of the file.
LEMMA Resized ==
    ASSUME NEW f, NEW L, NEW K, NEW z, NEW q, NEW len
    PROVE  SetSize(Whole(f, L, K, z, q), len) = Whole(f, L, K, len, q)
BY Fields, SMTT(30) DEF Whole

\* vop_truncate changes no counts.
LEMMA TruncatesWhole ==
    ASSUME NEW f, NEW L, NEW K, NEW z, NEW q, NEW n \in Inodes, NEW len, FsOK(f)
    PROVE  \E z2, q2 : /\ q2 \in {q, "truncate"}
                       /\ vop_truncate(Whole(f, L, K, z, q), n, len) = Whole(f, L, K, z2, q2)
BY CountsFine, Truncates, SMTT(30) DEF Whole

\* The entry a call begins with.
LEMMA OpenEntry ==
    ASSUME Sound, NEW p \in Procs, Idle(p), NEW fd \in Fds, Opened(p, fd)
    PROVE  /\ p \in Tables /\ FsOK(fs) /\ State = Whole(fs, {}, kept, size, "none")
           /\ Entry(State, p, fd) = fs[p].filemap[fd]
           /\ EntryOK(fs[p].filemap[fd]) /\ fs[p].filemap[fd].node \in Inodes
           /\ Ready(fs[p].filemap[fd])
<1>1. p \in Tables /\ FsOK(fs) /\ State = Whole(fs, {}, kept, size, "none") /\ Quiet(fs, p)
  BY SoundState, IdleQuiet, ProcsAreTables, SMTT(30) DEF Idle
<1>2. Entry(State, p, fd) = fs[p].filemap[fd]
  BY <1>1, WholeEntry
<1>3. fs[p].filemap[fd].status = "FD_OPENED"
  BY <1>2, Zenon DEF Opened
<1> QED BY <1>1, <1>2, <1>3, OpenedOK, SMTT(30) DEF Quiet, Ready

\* Moving the position of an entry.
LEMMA Moved ==
    ASSUME NEW e, EntryOK(e), e.status = "FD_OPENED", NEW pos
    PROVE  LET m == [e EXCEPT !.pos = pos]
           IN  EntryOK(m) /\ m.status = "FD_OPENED" /\ m.node = e.node
               /\ m.open_count = e.open_count
BY NoneIsFree DEF EntryOK

\* Moving the position of an open entry changes no counts.
LEMMA Moves ==
    ASSUME NEW f, NEW L, NEW K, NEW z, NEW q, NEW p \in Tables, NEW fd \in Fds, FsOK(f),
           Ready(f[p].filemap[fd]), NEW pos
    PROVE  \E e : /\ EntryOK(e) /\ e.open_count = 1
                  /\ SetPos(Whole(f, L, K, z, q), p, fd, pos) = Whole(Put(f, p, fd, e), L, K, z, q)
<1> DEFINE e == f[p].filemap[fd]
           m == [e EXCEPT !.pos = pos]
<1>1. EntryOK(e) /\ e.status = "FD_OPENED" /\ e.open_count = 1
  BY OpenedOK, Zenon DEF Ready
<1>2. EntryOK(m) /\ m.status = "FD_OPENED" /\ m.node = e.node /\ m.open_count = e.open_count
  <2> HIDE DEF e
  <2> QED BY <1>1, Moved, Zenon
<1>3. SetPos(Whole(f, L, K, z, q), p, fd, pos) = SetEntry(Whole(f, L, K, z, q), p, fd, m)
  <2>1. Entry(Whole(f, L, K, z, q), p, fd) = e
    BY WholeEntry
  <2> HIDE DEF e
  <2> QED BY <2>1, Zenon DEF SetPos
<1> HIDE DEF m
<1>4. SetEntry(Whole(f, L, K, z, q), p, fd, m) = Whole(Put(f, p, fd, m), L, K, z, q)
  <2>1. Changed(f, p, fd, m)
    BY <1>1, <1>2, Zenon DEF Changed
  <2> QED BY <2>1, Changes
<1> QED BY <1>1, <1>2, <1>3, <1>4, Zenon
-----------------------------------------------------------------------------
\* sys_open keeps the invariant, whatever fails on the way.
LEMMA SysOpen ==
    ASSUME Sound, NEW p \in Procs, NEW path \in Paths, NEW flags \in Flags,
           sys_open(p, path, flags)
    PROVE  IInv'
<1> DEFINE S == Whole(fs, {}, kept, size, "none")
           w == file_open(S, p, path, flags)
           x == KeptBy(S, p, path, flags)
<1>1. p \in Tables /\ FsOK(fs) /\ State = S /\ Idle(p) /\ reading' = reading
      /\ kept \in [Inodes -> Nat] /\ reading[p] = NoFd
  BY SoundState, ProcsAreTables, Zenon DEF sys_open, Idle, Sound
<1>2. /\ Becomes(w.S)
      /\ x = "none" => kept' = kept
      /\ x # "none" => kept' = [kept EXCEPT ![x] = @ + 1]
  BY <1>1, Zenon DEF sys_open
<1>3. Installs(fs, {}, kept, size, "none", p, w, flags, x)
  BY <1>1, FileOpen
<1> HIDE DEF w, x
<1>4. CASE x = "none" /\ w = [S |-> S, fd |-> NoFd]
  <2>1. Becomes(Whole(fs, {}, kept, size, "none")) /\ UNCHANGED <<reading, kept>>
    BY <1>1, <1>2, <1>4, Zenon
  <2> QED BY <1>1, <2>1, PreservesSame
<1>7. CASE x \in Inodes
           /\ w = [S |-> St(fs, Copies(O(fs), Inc(R(fs, {}, kept), x)), size, "none"), fd |-> NoFd]
  <2>1. fs' = fs /\ inode' = Copies(O(fs), Inc(R(fs, {}, kept), x)) /\ panic' = "none"
    BY <1>2, <1>7, Fields DEF Becomes
  <2>2. kept' = [kept EXCEPT ![x] = @ + 1]
    BY <1>2, <1>7, NodesAreInodes, Zenon
  <2>3. kept' \in [Inodes -> Nat]
    BY <1>1, <1>7, <2>2, SMTT(30)
  <2>4. R(fs, {}, kept') = Inc(R(fs, {}, kept), x)
    <3>1. OneMore(kept, kept', x)
      BY <1>1, <2>2, Zenon DEF OneMore
    <3> QED BY <1>7, <3>1, KeepsOne, SMTT(30)
  <2>5. FsOK(fs') /\ inode' = Copies(O(fs'), R(fs', {}, kept'))
    BY <1>1, <2>1, <2>4, Zenon
  <2>6. Reads'
    BY <1>1, <2>1, ZenonT(30) DEF Sound, Reads
  <2> QED BY <1>1, <2>1, <2>3, <2>5, <2>6, Zenon DEF Sound, IInv
<1>5. ASSUME NEW fd \in Fds, NEW e, NEW z2, NEW q2, x = "none",
             q2 \in {"none", "truncate"}, EntryOK(e), Ready(e),
             w = [S |-> Whole(Put(fs, p, fd, e), {}, kept, z2, q2), fd |-> fd]
      PROVE  IInv'
  <2>1. Becomes(Whole(Put(fs, p, fd, e), {}, kept, z2, q2)) /\ UNCHANGED <<reading, kept>>
    BY <1>1, <1>2, <1>5, ZenonT(30)
  <2>2. e.open_count = 1 /\ q2 # "assert"
    BY <1>5, Zenon DEF Ready
  <2> QED BY <1>1, <1>5, <2>1, <2>2, PreservesPut
<1>6. ASSUME NEW i, w = [S |-> St(fs, i, size, "create"), fd |-> NoFd]
      PROVE  IInv'
  <2>1. panic' = "create"
    BY <1>2, <1>6, Fields, SMTT(30) DEF Becomes
  <2> QED BY <2>1, Zenon DEF IInv
<1> QED BY <1>3, <1>4, <1>5, <1>6, <1>7, Zenon DEF Installs

\* sys_close keeps the invariant.
LEMMA SysClose ==
    ASSUME Sound, NEW p \in Procs, NEW fd \in Fds, sys_close(p, fd)
    PROVE  IInv'
<1>1. Idle(p) /\ Opened(p, fd) /\ UNCHANGED <<reading, kept>>
  BY Zenon DEF sys_close
<1>2. filemap_close(State, p, fd) = Whole(Put(fs, p, fd, FD_NONE), {}, kept, size, "none")
  <2>1. p \in Tables /\ FsOK(fs) /\ State = Whole(fs, {}, kept, size, "none") /\ Ready(fs[p].filemap[fd])
    BY <1>1, OpenEntry, ZenonT(30)
  <2> QED BY <2>1, Closes, SMTT(30)
<1>3. Becomes(Whole(Put(fs, p, fd, FD_NONE), {}, kept, size, "none"))
  BY <1>2, Zenon DEF sys_close
<1> QED BY <1>1, <1>3, NoneIsFree, PreservesPut, Zenon

\* sys_read of a file or a device that does not wait keeps the invariant.
LEMMA SysRead ==
    ASSUME Sound, NEW p \in Procs, NEW fd \in Fds, NEW len, sys_read(p, fd, len)
    PROVE  IInv'
<1> DEFINE n == fs[p].filemap[fd].node
           to == Max({fs[p].filemap[fd].pos, Min({fs[p].filemap[fd].pos + len, State.size})})
<1>1. Idle(p) /\ Opened(p, fd) /\ UNCHANGED <<reading, kept>>
  BY Zenon DEF sys_read
<1>2. PICK q \in {"none", "read"} : Vop(State, n, "read") = Whole(fs, {}, kept, size, q)
  <2>1. FsOK(fs) /\ State = Whole(fs, {}, kept, size, "none") /\ n \in Inodes
    BY <1>1, OpenEntry, Zenon
  <2> HIDE DEF n
  <2> QED BY <2>1, VopWhole
<1>3. file_read(State, p, fd, len) = SetPos(Vop(State, n, "read"), p, fd, to)
  BY <1>1, OpenEntry, Zenon DEF file_read
<1> HIDE DEF to
<1>4. PICK e : /\ EntryOK(e) /\ e.open_count = 1
               /\ file_read(State, p, fd, len) = Whole(Put(fs, p, fd, e), {}, kept, size, q)
  <2>1. p \in Tables /\ FsOK(fs) /\ Ready(fs[p].filemap[fd])
    BY <1>1, OpenEntry, Zenon
  <2> QED BY <1>2, <1>3, <2>1, Moves
<1>5. Becomes(Whole(Put(fs, p, fd, e), {}, kept, size, q))
  BY <1>4, Zenon DEF sys_read
<1> QED BY <1>1, <1>4, <1>5, PreservesPut, Zenon

\* sys_write keeps the invariant.
LEMMA SysWrite ==
    ASSUME Sound, NEW p \in Procs, NEW fd \in Fds, NEW len, sys_write(p, fd, len)
    PROVE  IInv'
<1> DEFINE file == fs[p].filemap[fd]
           end == file.pos + len
           r == Vop(State, file.node, "write")
<1>1. Idle(p) /\ Opened(p, fd) /\ UNCHANGED <<reading, kept>>
  BY Zenon DEF sys_write
<1>2. PICK q \in {"none", "write"} : r = Whole(fs, {}, kept, size, q)
  <2>1. FsOK(fs) /\ State = Whole(fs, {}, kept, size, "none") /\ file.node \in Inodes
    BY <1>1, OpenEntry, Zenon
  <2> HIDE DEF file
  <2> QED BY <2>1, VopWhole
<1>3. file_write(State, p, fd, len) =
        IF file.node # File THEN r ELSE SetSize(SetPos(r, p, fd, end), Max({State.size, end}))
  BY <1>1, OpenEntry, Zenon DEF file_write
<1>4. Becomes(file_write(State, p, fd, len))
  BY Zenon DEF sys_write
<1> HIDE DEF end, r
<1>5. CASE file.node # File
  BY <1>1, <1>2, <1>3, <1>4, <1>5, PreservesSame, SMTT(30)
<1>6. CASE file.node = File
  <2>1. PICK e : /\ EntryOK(e) /\ e.open_count = 1
                 /\ SetPos(r, p, fd, end) = Whole(Put(fs, p, fd, e), {}, kept, size, q)
    <3>1. p \in Tables /\ FsOK(fs) /\ Ready(fs[p].filemap[fd])
      BY <1>1, OpenEntry, ZenonT(30)
    <3> QED BY <1>2, <3>1, Moves, SMTT(30)
  <2>2. Becomes(Whole(Put(fs, p, fd, e), {}, kept, Max({State.size, end}), q))
    BY <1>3, <1>4, <1>6, <2>1, Resized, SMTT(30)
  <2> QED BY <1>1, <1>2, <2>1, <2>2, PreservesPut, SMTT(30)
<1> QED BY <1>5, <1>6, Zenon

\* sys_seek keeps the invariant.
LEMMA SysSeek ==
    ASSUME Sound, NEW p \in Procs, NEW fd \in Fds, NEW pos, sys_seek(p, fd, pos)
    PROVE  IInv'
<1> DEFINE n == fs[p].filemap[fd].node
           r == Vop(State, n, "tryseek")
           sought == vop_tryseek(State, n, pos)
<1>1. Idle(p) /\ Opened(p, fd) /\ UNCHANGED <<reading, kept>>
  BY Zenon DEF sys_seek
<1>2. p \in Tables /\ FsOK(fs) /\ Ready(fs[p].filemap[fd]) /\ n \in Inodes
  BY <1>1, OpenEntry, Zenon
<1>3. PICK q \in {"none", "tryseek"} : r = Whole(fs, {}, kept, size, q)
  <2>1. State = Whole(fs, {}, kept, size, "none")
    BY <1>1, OpenEntry, Zenon
  <2> HIDE DEF n
  <2> QED BY <1>2, <2>1, VopWhole, SMTT(30)
<1>4. Becomes(Seek(sought, p, fd, pos))
  BY <1>1, OpenEntry, Zenon DEF sys_seek, file_seek
<1>5. PICK z, q2 : q2 \in {q, "truncate"} /\ sought.S = Whole(fs, {}, kept, z, q2)
  <2>1. r.size = size
    <3>1. Whole(fs, {}, kept, size, q).size = size
      BY Fields DEF Whole
    <3> HIDE DEF r
    <3> QED BY <1>3, <3>1, Zenon
  <2>2. CASE n \in Devices
    <3>1. sought.S = r
      BY <2>2, Zenon DEF vop_tryseek, dev_tryseek
    <3> QED BY <1>3, <3>1, Zenon
  <2>3. CASE n \notin Devices /\ ~ (pos > size)
    <3>1. sought.S = r
      BY <2>1, <2>3, Zenon DEF vop_tryseek, sfs_tryseek
    <3> QED BY <1>3, <3>1, Zenon
  <2>4. CASE n \notin Devices /\ pos > size
    <3>1. sought.S = vop_truncate(r, n, pos)
      BY <2>1, <2>4, Zenon DEF vop_tryseek, sfs_tryseek
    <3>2. PICK z, q2 : q2 \in {q, "truncate"} /\ vop_truncate(r, n, pos) = Whole(fs, {}, kept, z, q2)
      <4> HIDE DEF n, r
      <4> QED BY <1>2, <1>3, TruncatesWhole, SMTT(30)
    <3> QED BY <3>1, <3>2, Zenon
  <2> QED BY <2>2, <2>3, <2>4, Zenon
<1> HIDE DEF sought, n, r
<1>6. q2 # "assert"
  BY <1>3, <1>5, Zenon
<1>7. CASE sought.ok
  <2>1. Becomes(SetPos(Whole(fs, {}, kept, z, q2), p, fd, pos))
    BY <1>4, <1>5, <1>7, Zenon DEF Seek
  <2>2. PICK e : /\ EntryOK(e) /\ e.open_count = 1
                 /\ SetPos(Whole(fs, {}, kept, z, q2), p, fd, pos) = Whole(Put(fs, p, fd, e), {}, kept, z, q2)
    BY <1>2, Moves
  <2> QED BY <1>1, <1>6, <2>1, <2>2, PreservesPut, Zenon
<1>8. CASE ~ sought.ok
  <2>1. Becomes(Whole(fs, {}, kept, z, q2))
    BY <1>4, <1>5, <1>8, Zenon DEF Seek
  <2> QED BY <1>1, <1>6, <2>1, PreservesSame, Zenon
<1> QED BY <1>7, <1>8, Zenon

\* sys_fstat keeps the invariant.
LEMMA SysFstat ==
    ASSUME Sound, NEW p \in Procs, NEW fd \in Fds, sys_fstat(p, fd)
    PROVE  IInv'
<1>1. Idle(p) /\ Opened(p, fd) /\ UNCHANGED <<reading, kept>>
  BY Zenon DEF sys_fstat
<1>2. file_fstat(State, p, fd) = Whole(fs, {}, kept, size, "none")
  BY <1>1, OpenEntry, CountsFine, InodeCheck, SMTT(30) DEF file_fstat, Whole
<1>3. Becomes(Whole(fs, {}, kept, size, "none"))
  BY <1>2, Zenon DEF sys_fstat
<1> QED BY <1>1, <1>3, PreservesSame, SMTT(30)

\* sys_fsync and sys_getdirentry keep the invariant.
LEMMA SysVop ==
    ASSUME Sound, NEW p \in Procs, NEW fd \in Fds,
           sys_fsync(p, fd) \/ sys_getdirentry(p, fd)
    PROVE  IInv'
<1> DEFINE n == fs[p].filemap[fd].node
<1>1. Idle(p) /\ Opened(p, fd) /\ UNCHANGED <<reading, kept>>
  BY Zenon DEF sys_fsync, sys_getdirentry
<1>2. PICK op \in {"fsync", "getdirentry"} : Becomes(Vop(State, n, op))
  BY <1>1, OpenEntry, Zenon DEF sys_fsync, sys_getdirentry, file_fsync, file_getdirentry
<1>3. PICK q \in {"none", op} : Vop(State, n, op) = Whole(fs, {}, kept, size, q)
  <2>1. FsOK(fs) /\ State = Whole(fs, {}, kept, size, "none") /\ n \in Inodes
    BY <1>1, OpenEntry, Zenon
  <2> HIDE DEF n
  <2> QED BY <2>1, VopWhole
<1>4. Becomes(Whole(fs, {}, kept, size, q))
  BY <1>2, <1>3, Zenon
<1>5. q # "assert"
  BY <1>3, Zenon
<1> QED BY <1>1, <1>4, <1>5, PreservesSame, Zenon

\* sys_dup keeps the invariant.
LEMMA SysDup ==
    ASSUME Sound, NEW p \in Procs, NEW fd1 \in Fds, NEW fd2, sys_dup(p, fd1, fd2)
    PROVE  IInv'
<1> DEFINE to == IF fd2 = NoFd THEN FreeFds(State, p) ELSE {fd2} \cap FreeFds(State, p)
           e == Duplicate(fs[p].filemap[fd1])
           fd == Min(to)
<1>1. Idle(p) /\ Opened(p, fd1) /\ UNCHANGED <<reading, kept>> /\ to # {}
  BY Zenon DEF sys_dup
<1>2. p \in Tables /\ FsOK(fs) /\ State = Whole(fs, {}, kept, size, "none")
      /\ Entry(State, p, fd1) = fs[p].filemap[fd1] /\ EntryOK(fs[p].filemap[fd1])
  BY <1>1, OpenEntry, Zenon
<1>3. fs[p].filemap[fd1] # FD_NONE
  BY <1>1, OpenEntry, NoneIsFree, SMTT(30) DEF Ready
<1>4. EntryOK(e) /\ e.open_count = 1
  BY <1>2, <1>3, DuplicateOK, SMTT(30) DEF Ready
<1>5. fd \in Fds /\ fs[p].filemap[fd] = FD_NONE
  <2>1. to \subseteq FreeFds(State, p)
    BY Zenon
  <2>2. FreeFds(State, p) \in SUBSET Nat
    BY DEF FreeFds, Fds
  <2>3. fd \in FreeFds(State, p)
    <3> HIDE DEF to
    <3> QED BY <1>1, <2>1, <2>2, MinIn, Zenon
  <2> HIDE DEF fd
  <2>4. fd \in Fds /\ Entry(State, p, fd).status = "FD_NONE"
    BY <2>3, Zenon DEF FreeFds
  <2>5. fs[p].filemap[fd].status = "FD_NONE"
    BY <1>2, <2>4, WholeEntry, SMTT(30)
  <2> QED BY <1>2, <2>4, <2>5, OpenedOK, SMTT(30)
<1>6. Becomes(filemap_dup(State, p, fd, fs[p].filemap[fd1]))
  BY <1>2, Zenon DEF sys_dup
<1> HIDE DEF fd
<1>7. Becomes(Whole(Put(fs, p, fd, e), {}, kept, size, "none"))
  <2> DEFINE file == fs[p].filemap[fd1]
  <2>1. EntryOK(file) /\ file # FD_NONE /\ fs[p].filemap[fd] = FD_NONE
    BY <1>2, <1>3, <1>5, SMTT(30)
  <2> HIDE DEF file
  <2>2. filemap_dup(Whole(fs, {}, kept, size, "none"), p, fd, file) =
          Whole(Put(fs, p, fd, Duplicate(file)), {}, kept, size, "none")
    BY <1>2, <1>5, <2>1, Dups, SMTT(30)
  <2> QED BY <1>2, <1>6, <2>2, ZenonT(30) DEF file
<1> HIDE DEF e
<1> QED BY <1>1, <1>4, <1>5, <1>7, PreservesPut, SMTT(30)

\* The directory of a table is the root, or there is none.
LEMMA PwdOK ==
    ASSUME NEW f, NEW p \in Tables, FsOK(f)
    PROVE  f[p].pwd \in {"none", Root}
<1>1. TableOK(f[p])
  BY Zenon DEF FsOK
<1> QED BY <1>1, Zenon DEF TableOK

\* sfs_namefile lets go of everything it takes.
LEMMA SysGetcwd ==
    ASSUME Sound, NEW p \in Procs, sys_getcwd(p)
    PROVE  IInv'
<1> DEFINE o == O(fs)
           r == R(fs, {}, kept)
           A(c) == St(fs, Copies(o, c), size, "none")
           r1 == Inc(r, Root)
           r2 == Inc(r1, Root)
           r3 == Inc(r2, Root)
<1>1. Idle(p) /\ UNCHANGED <<reading, kept>> /\ FsOK(fs) /\ p \in Tables /\ State = A(r)
      /\ Becomes(vfs_getcwd(A(r), p))
  BY SoundState, ProcsAreTables, Zenon DEF sys_getcwd, Idle, Whole
<1>2. fs[p].pwd \in {"none", Root} /\ A(r).fs = fs
  <2>1. fs[p].pwd \in {"none", Root}
    BY <1>1, PwdOK, Zenon
  <2> QED BY <2>1, Fields, SMTT(30)
<1>3. Fine(o, r) /\ Fine(o, r1) /\ Fine(o, r2) /\ Fine(o, r3)
  BY <1>1, CountsFine, RefInc, NodesAreInodes, ZenonT(30)
<1>4. Dec(r1, Root) = r /\ Dec(r2, Root) = r1 /\ Dec(r3, Root) = r2
  BY <1>3, IncDec, NodesAreInodes, SMTT(30) DEF Fine
<1> HIDE DEF o, r
<1>5. /\ ref_inc(A(r), Root) = A(r1) /\ ref_inc(A(r1), Root) = A(r2)
      /\ ref_inc(A(r2), Root) = A(r3)
  BY <1>3, RefInc, NodesAreInodes, SMTT(30)
<1> HIDE DEF r1, r2, r3
<1>6. /\ ref_dec(A(r3), Root) = A(r2) /\ ref_dec(A(r2), Root) = A(r1)
      /\ ref_dec(A(r1), Root) = A(r)
  BY <1>3, <1>4, RefDec, NodesAreInodes, SMTT(30)
<1>7. Vop(A(r1), Root, "namefile") = A(r1)
  <2>1. HasOp(Root, "namefile")
    BY NodesAreInodes, Zenon DEF HasOp
  <2> QED BY <1>3, <2>1, VopHas, NodesAreInodes, SMTT(30)
<1> HIDE DEF A
<1>8. vfs_getcwd(A(r), p) = A(r)
  <2>1. CASE fs[p].pwd = "none"
    BY <1>2, <2>1, FailsParts, Zenon DEF vfs_getcwd, vfs_get_curdir, NameOf
  <2>2. CASE fs[p].pwd = Root
    <3>1. vfs_get_curdir(A(r), p) = [S |-> A(r1), node |-> Root]
      BY <1>2, <1>5, <2>2, NodesAreInodes, Zenon DEF vfs_get_curdir, Found
    <3>2. sfs_lookup_once(A(r2), ".").S = A(r3)
      BY <1>5, Zenon DEF sfs_lookup_once, Found
    <3>3. sfs_namefile(A(r1), Root) = A(r1)
      BY <1>5, <1>6, <3>2, Zenon DEF sfs_namefile
    <3>4. NameOf([S |-> A(r1), node |-> Root]) = A(r)
      BY <1>6, <1>7, <3>3, NodesAreInodes, SMTT(30) DEF NameOf
    <3> QED BY <3>1, <3>4, Zenon DEF vfs_getcwd
  <2> QED BY <1>2, <2>1, <2>2, Zenon
<1>9. Becomes(Whole(fs, {}, kept, size, "none"))
  BY <1>1, <1>8, Zenon DEF A, Whole, o, r
<1> QED BY <1>1, <1>9, PreservesSame, SMTT(30)

\* sys_fork keeps the invariant.
LEMMA SysFork ==
    ASSUME Sound, NEW p \in Procs, NEW child \in Procs, sys_fork(p, child)
    PROVE  IInv'
<1> DEFINE g == Copied(fs, p, child, NENTRY - 1)
<1>1. Idle(p) /\ UNCHANGED <<reading, kept>> /\ FsOK(fs) /\ p \in Tables /\ child \in Tables
      /\ State = Whole(fs, {}, kept, size, "none") /\ ~ fs[child].live
  BY SoundState, ProcsAreTables, Zenon DEF sys_fork, Idle
<1>2. fs[child] = Absent /\ reading[child] = NoFd /\ p # child
  BY <1>1, Zenon DEF Sound, Reads, Idle
<1>3. Becomes(Whole(g, {}, kept, size, "none"))
  BY <1>1, <1>2, DupTable DEF sys_fork
<1>4. FsOK(g) /\ Quiet(g, child) /\ Same(fs, g, child) /\ Alive(g, child)
  BY <1>1, CopiedParts, Zenon
<1> HIDE DEF g
<1> QED BY <1>1, <1>2, <1>3, <1>4, Preserves, SMTT(30)

\* sys_exit keeps the invariant.
LEMMA SysExit ==
    ASSUME Sound, NEW p \in Procs, sys_exit(p)
    PROVE  IInv'
<1>1. Idle(p) /\ UNCHANGED <<reading, kept>> /\ FsOK(fs) /\ Quiet(fs, p)
      /\ Becomes(fs_destroy(Whole(fs, {}, kept, size, "none"), p))
  BY SoundState, IdleQuiet, Zenon DEF sys_exit, Idle
<1>2. Same(fs, fs, p)
  BY Zenon DEF Same
<1> QED BY <1>1, <1>2, PreservesEnd, Zenon

\* Whatever became of the program, the process has its table or none.
LEMMA SysExec ==
    ASSUME Sound, NEW p \in Procs, NEW path, NEW loads, NEW end, sys_exec(p, path, loads, end)
    PROVE  IInv'
<1> DEFINE f == Cleared(fs, p, 2, NENTRY - 1)
           w == file_open(Whole(f, {}, kept, size, "none"), p, path, {})
<1>1. Idle(p) /\ UNCHANGED <<reading, kept>> /\ FsOK(fs) /\ Quiet(fs, p) /\ p \in Tables
      /\ State = Whole(fs, {}, kept, size, "none")
  BY SoundState, IdleQuiet, ProcsAreTables, SMTT(30) DEF sys_exec, Idle
<1>2. fs_closeall(State, p) = Whole(f, {}, kept, size, "none")
  BY <1>1, CloseLoop, SMTT(30) DEF fs_closeall
<1>3. FsOK(f) /\ Quiet(f, p) /\ Same(fs, f, p)
  BY <1>1, ClearedParts, Zenon
<1>4. f[p].live = fs[p].live
  BY <1>1, ClearedParts
<1>5. Becomes(Execute(w, p, loads, end))
  BY <1>2, Zenon DEF sys_exec
<1> HIDE DEF f
<1>6. Alive(f, p) /\ f[p] # Absent
  <2>1. f[p].live
    BY <1>1, <1>4, Zenon DEF Idle
  <2> QED BY <2>1, SMTT(30) DEF Alive, Absent
<1>7. Installs(f, {}, kept, size, "none", p, w, {}, "none")
  <2> DEFINE x == KeptBy(Whole(f, {}, kept, size, "none"), p, path, {})
  <2>1. Installs(f, {}, kept, size, "none", p, w, {}, x)
    BY <1>1, <1>3, FileOpen, SMTT(30)
  <2>2. x = "none"
    BY Zenon DEF KeptBy, Existing
  <2> HIDE DEF x, w
  <2> QED BY <2>1, <2>2, Zenon
<1> HIDE DEF w
<1>8. CASE w = [S |-> Whole(f, {}, kept, size, "none"), fd |-> NoFd]
  <2>1. Becomes(fs_destroy(Whole(f, {}, kept, size, "none"), p))
    BY <1>5, <1>8, Zenon DEF Execute
  <2> QED BY <1>1, <1>3, <2>1, PreservesEnd
<1>9. ASSUME NEW fd \in Fds, NEW e, NEW z, NEW q, q \in {"none", "truncate"},
             EntryOK(e), Ready(e), w = [S |-> Whole(Put(f, p, fd, e), {}, kept, z, q), fd |-> fd]
      PROVE  IInv'
  <2> DEFINE g == Put(f, p, fd, e)
             S == Whole(g, {}, kept, z, q)
  <2>1. FsOK(g) /\ Same(f, g, p) /\ OneEntry(f, g, p, fd, e) /\ Alive(g, p)
    BY <1>1, <1>3, <1>6, <1>9, PutParts, SMTT(30)
  <2>2. Becomes(load_icode(S, p, fd, loads, end))
    <3>1. w.S = S /\ w.fd = fd
      BY <1>9, Zenon
    <3>2. fd # NoFd
      BY ProcsAreTables, Zenon
    <3> QED BY <1>5, <3>1, <3>2, Zenon DEF Execute
  <2> HIDE DEF g
  <2>3. Same(fs, g, p)
    BY <1>3, <2>1, Zenon DEF Same
  <2>4. Quiet(g, p)
    <3>1. e.open_count = 1
      BY <1>9, ZenonT(30) DEF Ready
    <3> QED BY <1>3, <2>1, <3>1, SMTT(30) DEF Quiet, OneEntry
  <2>5. Entry(S, p, fd) = e /\ g[p].filemap[fd] = e
    BY <2>1, WholeEntry, SMTT(30) DEF OneEntry
  <2>6. e.node \in Inodes /\ q # "assert"
    BY <1>9, NoneIsFree, Zenon DEF EntryOK, Ready
  <2>7. SetSize(S, Max({S.size, end})) = Whole(g, {}, kept, Max({S.size, end}), q)
    BY Resized
  <2>8. CASE e.node # File
    <3> HIDE DEF S
    <3>1. PICK q2 \in {q, "tryseek"} : Vop(S, e.node, "tryseek") = Whole(g, {}, kept, z, q2)
      <4> DEFINE n == e.node
      <4>1. FsOK(g) /\ n \in Inodes
        BY <2>1, <2>6, Zenon
      <4> HIDE DEF n
      <4>2. \E q2 \in {q, "tryseek"} : Vop(S, n, "tryseek") = Whole(g, {}, kept, z, q2)
        BY <4>1, VopWhole DEF S
      <4> QED BY <4>2, Zenon DEF n
    <3>2. Becomes(fs_destroy(Whole(g, {}, kept, z, q2), p))
      BY <2>2, <2>5, <2>8, <3>1, Zenon DEF load_icode
    <3>3. q2 # "assert"
      BY <2>6, Zenon
    <3> QED BY <1>1, <2>1, <2>3, <2>4, <3>2, <3>3, PreservesEnd, Zenon
  <2>9. CASE e.node = File /\ loads
    <3> DEFINE h == Put(g, p, fd, FD_NONE)
    <3>1. filemap_close(S, p, fd) = Whole(h, {}, kept, z, q)
      <4>1. p \in Tables /\ Ready(g[p].filemap[fd])
        BY <1>1, <1>9, <2>5, Zenon
      <4> QED BY <2>1, <4>1, Closes, SMTT(30)
    <3>2. FsOK(h) /\ Same(g, h, p) /\ OneEntry(g, h, p, fd, FD_NONE)
      BY <1>1, <2>1, PutParts, NoneIsFree, SMTT(30)
    <3>3. Alive(h, p)
      <4>1. h[p].live = g[p].live /\ g[p].live = f[p].live
        BY <1>1, Zenon DEF g, Put
      <4> HIDE DEF h
      <4> QED BY <1>1, <1>4, <4>1, Zenon DEF Alive, Idle
    <3> HIDE DEF h, S
    <3>4. Becomes(Whole(h, {}, kept, z, q))
      BY <2>2, <2>5, <2>9, <3>1, Zenon DEF load_icode
    <3>5. Quiet(h, p) /\ Same(fs, h, p)
      BY <2>3, <2>4, <3>2, SMTT(30) DEF Quiet, OneEntry, Same
    <3>6. reading[p] = NoFd
      BY <1>1, Zenon DEF Idle
    <3> QED BY <1>1, <2>6, <3>2, <3>3, <3>4, <3>5, <3>6, Preserves, SMTT(30)
  <2>10. CASE e.node = File /\ ~ loads
    <3> DEFINE z2 == Max({S.size, end})
    <3>1. load_icode(S, p, fd, loads, end) = fs_destroy(SetSize(S, z2), p)
      BY <2>5, <2>10, Zenon DEF load_icode
    <3>2. Becomes(fs_destroy(Whole(g, {}, kept, z2, q), p))
      BY <2>2, <2>7, <3>1, Zenon
    <3> HIDE DEF z2
    <3> QED BY <1>1, <2>1, <2>3, <2>4, <2>6, <3>2, PreservesEnd, SMTT(30)
  <2> QED BY <2>8, <2>9, <2>10, SMTT(30)
<1> QED BY <1>7, <1>8, <1>9, NodesAreInodes, Zenon DEF Installs
-----------------------------------------------------------------------------
\* A call that waits holds an entry of its process, and gives it back.
LEMMA PreservesHeld ==
    ASSUME Sound, panic = "none", NEW p \in Procs, fs[p].live, NEW fd \in Fds,
           reading[p] \in {NoFd, fd}, NEW k \in {NoFd, fd}, NEW e, EntryOK(e), e # FD_NONE,
           e.open_count = (IF k = fd THEN 2 ELSE 1),
           Becomes(Whole(Put(fs, p, fd, e), {}, kept, size, "none")),
           reading' = [reading EXCEPT ![p] = k], kept' = kept
    PROVE  IInv'
<1> DEFINE g == Put(fs, p, fd, e)
<1>1. FsOK(fs) /\ p \in Tables /\ NoFd \notin Fds
  BY SoundState, ProcsAreTables
<1>2. Alive(fs, p) /\ fs[p] # Absent
  BY DEF Alive, Absent
<1>3. FsOK(g) /\ Same(fs, g, p) /\ OneEntry(fs, g, p, fd, e)
  BY <1>1, PutParts, Zenon
<1>4. g[p].live = fs[p].live
  <2>1. p \in Tables
    BY <1>1, Zenon
  <2> QED BY <2>1, PutLive, Zenon
<1>5. Becomes(Whole(g, {}, kept, size, "none"))
  BY ZenonT(30)
<1> HIDE DEF g
<1>6. fs' = g /\ inode' = Copies(O(g), R(g, {}, kept)) /\ panic' = "none"
  BY <1>5, Fields DEF Becomes, Whole
<1>7. \A x \in Procs : reading'[x] = IF x = p THEN k ELSE reading[x]
  BY Zenon DEF Sound
<1>8. reading' = [x \in Procs |-> reading'[x]]
  BY Zenon DEF Sound
<1>9. Reads'
  <2>1. ASSUME NEW x \in Procs, reading'[x] # NoFd
        PROVE  reading'[x] \in Fds /\ g[x].live /\ g[x].filemap[reading'[x]] # FD_NONE
    <3>1. CASE x = p
      <4>1. reading'[x] = fd
        BY <1>7, <2>1, <3>1, SMTT(30)
      <4>2. g[p].filemap[fd] = e
        BY <1>3, Zenon DEF OneEntry
      <4> QED BY <1>4, <3>1, <4>1, <4>2, Zenon
    <3>2. CASE x # p
      <4>1. reading'[x] = reading[x] /\ g[x] = fs[x]
        BY <1>3, <1>7, <3>2, ProcsAreTables, ZenonT(30) DEF Same
      <4> QED BY <2>1, <4>1, Zenon DEF Sound, Reads
    <3> QED BY <3>1, <3>2, SMTT(30)
  <2>2. ASSUME NEW x \in Procs, NEW j \in Fds, g[x].filemap[j] # FD_NONE
        PROVE  g[x].filemap[j].open_count = IF reading'[x] = j THEN 2 ELSE 1
    <3>1. CASE x = p /\ j = fd
      <4>1. g[x].filemap[j] = e /\ reading'[x] = k
        BY <1>3, <1>7, <3>1, SMTT(30) DEF OneEntry
      <4> QED BY <3>1, <4>1, ZenonT(30)
    <3>2. CASE x = p /\ j # fd
      <4>1. g[x].filemap[j] = fs[x].filemap[j]
        BY <1>3, <3>2, Zenon DEF OneEntry
      <4>2. reading[x] # j /\ reading'[x] # j
        BY <1>1, <1>7, <3>2, SMTT(30)
      <4> QED BY <2>2, <4>1, <4>2, SMTT(30) DEF Sound, Reads
    <3>3. CASE x # p
      <4>1. g[x] = fs[x] /\ reading'[x] = reading[x]
        BY <1>3, <1>7, <3>3, ProcsAreTables, ZenonT(30) DEF Same
      <4> QED BY <2>2, <4>1, SMTT(30) DEF Sound, Reads
    <3> QED BY <3>1, <3>2, <3>3, SMTT(30)
  <2> QED BY <1>6, <2>1, <2>2, ZenonT(30) DEF Reads
<1>10. g[initproc] = fs_create(Root)
  BY <1>3, ProcsAreTables, SMTT(30) DEF Sound, Same
<1>11. \A x \in Procs : g[x].live \/ g[x] = Absent
  <2>1. g[p].live
    BY <1>4, Zenon
  <2> QED BY <1>3, <2>1, ProcsAreTables DEF Sound, Same
<1>12. kept' \in [Inodes -> Nat] /\ FsOK(fs') /\ inode' = Copies(O(fs'), R(fs', {}, kept'))
  BY <1>3, <1>6, Zenon DEF Sound
<1> QED BY <1>6, <1>8, <1>9, <1>10, <1>11, <1>12, Zenon DEF Sound, IInv

\* Taking or giving back an entry.
LEMMA Held ==
    ASSUME NEW e, EntryOK(e), e.status = "FD_OPENED", NEW c \in Nat \ {0}
    PROVE  LET m == [e EXCEPT !.open_count = c]
           IN  EntryOK(m) /\ m.status = "FD_OPENED" /\ m.node = e.node /\ m.open_count = c
               /\ m # FD_NONE
<1> DEFINE m == [e EXCEPT !.open_count = c]
<1>1. e = [status |-> e.status, node |-> e.node, pos |-> e.pos, readable |-> e.readable,
           writable |-> e.writable, open_count |-> e.open_count] /\ e.node \in Inodes
  BY NoneIsFree, Zenon DEF EntryOK
<1>2. m = [status |-> e.status, node |-> e.node, pos |-> e.pos, readable |-> e.readable,
           writable |-> e.writable, open_count |-> c]
  BY <1>1, SMTT(30)
<1> HIDE DEF m
<1>3. m.status = "FD_OPENED" /\ m.node = e.node /\ m.open_count = c
  BY <1>2, Zenon
<1>4. EntryOK(m) /\ m # FD_NONE
  BY <1>1, <1>2, <1>3, NoneIsFree, SMTT(30) DEF EntryOK
<1> QED BY <1>3, <1>4, Zenon DEF m

\* The entry with c users.
Holds(f, K, z, q, p, fd, c) ==
    \E e : /\ EntryOK(e) /\ e # FD_NONE /\ e.open_count = c
           /\ e = [f[p].filemap[fd] EXCEPT !.open_count = c]
           /\ SetEntry(Whole(f, {}, K, z, q), p, fd, e) = Whole(Put(f, p, fd, e), {}, K, z, q)

\* Changing the count of an open entry changes no counts of inodes.
LEMMA HeldChanges ==
    ASSUME NEW f, NEW K, NEW z, NEW q, NEW p \in Tables, NEW fd \in Fds, FsOK(f),
           IsOpen(f[p].filemap[fd]), NEW c \in Nat \ {0}
    PROVE  Holds(f, K, z, q, p, fd, c)
<1> DEFINE file == f[p].filemap[fd]
           m == [file EXCEPT !.open_count = c]
<1>1. EntryOK(file) /\ file.status = "FD_OPENED"
  BY OpenedOK, Zenon DEF IsOpen
<1>2. EntryOK(m) /\ m.status = "FD_OPENED" /\ m.node = file.node /\ m.open_count = c
      /\ m # FD_NONE
  <2> HIDE DEF file
  <2> QED BY <1>1, Held, SMTT(30)
<1>3. m = [f[p].filemap[fd] EXCEPT !.open_count = c]
  BY Zenon
<1> HIDE DEF m
<1>4. Changed(f, p, fd, m)
  BY <1>1, <1>2, ZenonT(30) DEF Changed
<1>5. SetEntry(Whole(f, {}, K, z, q), p, fd, m) = Whole(Put(f, p, fd, m), {}, K, z, q)
  BY <1>4, Changes, SMTT(30)
<1> QED BY <1>2, <1>3, <1>5, Zenon DEF Holds

\* A read of stdin that begins to wait keeps the invariant.
LEMMA SysReadStdin ==
    ASSUME Sound, NEW p \in Procs, NEW fd \in Fds, sys_read_stdin(p, fd)
    PROVE  IInv'
<1> DEFINE file == fs[p].filemap[fd]
<1>1. Idle(p) /\ Opened(p, fd) /\ reading' = [reading EXCEPT ![p] = fd]
      /\ Becomes(filemap_acquire(State, p, fd)) /\ kept' = kept
  BY Zenon DEF sys_read_stdin
<1>2. p \in Tables /\ FsOK(fs) /\ State = Whole(fs, {}, kept, size, "none")
      /\ Entry(State, p, fd) = file
  BY <1>1, OpenEntry, Zenon
<1>3. file.status = "FD_OPENED" /\ file.open_count = 1
  BY <1>1, OpenEntry, SMTT(30) DEF Ready
<1>4. filemap_acquire(State, p, fd) =
        SetEntry(State, p, fd, [file EXCEPT !.open_count = 2])
  <2>1. file.open_count + 1 = 2
    BY <1>3
  <2>2. Assert(State, file.status = "FD_OPENED") = State
    BY <1>3, Zenon DEF Assert
  <2> HIDE DEF file
  <2> QED BY <1>2, <2>1, <2>2, Zenon DEF filemap_acquire
<1>5. PICK e : /\ EntryOK(e) /\ e # FD_NONE /\ e.open_count = 2
               /\ e = [file EXCEPT !.open_count = 2]
               /\ SetEntry(Whole(fs, {}, kept, size, "none"), p, fd, e) =
                    Whole(Put(fs, p, fd, e), {}, kept, size, "none")
  <2>1. 2 \in Nat \ {0}
    OBVIOUS
  <2>2. IsOpen(fs[p].filemap[fd]) /\ p \in Tables /\ FsOK(fs) /\ fd \in Fds
    BY <1>2, <1>3, Zenon DEF IsOpen
  <2>3. Holds(fs, kept, size, "none", p, fd, 2)
    BY <2>1, <2>2, HeldChanges
  <2> QED BY <2>3, Zenon DEF Holds
<1>6. Becomes(Whole(Put(fs, p, fd, e), {}, kept, size, "none"))
  <2> HIDE DEF file
  <2> QED BY <1>1, <1>2, <1>4, <1>5, Zenon
<1>7. panic = "none" /\ fs[p].live /\ reading[p] \in {NoFd, fd} /\ fd \in {NoFd, fd}
      /\ e.open_count = (IF fd = fd THEN 2 ELSE 1)
  BY <1>1, <1>5, SMTT(30) DEF Idle
<1> HIDE DEF file
<1> QED BY <1>1, <1>5, <1>6, <1>7, PreservesHeld, ZenonT(30)

\* The end of such a read keeps the invariant.
LEMMA SysReadDone ==
    ASSUME Sound, NEW p \in Procs, sys_read_done(p)
    PROVE  IInv'
<1> DEFINE fd == reading[p]
           file == fs[p].filemap[fd]
<1>1. panic = "none" /\ fd # NoFd /\ reading' = [reading EXCEPT ![p] = NoFd]
      /\ Becomes(filemap_release(State, p, fd)) /\ kept' = kept
  BY Zenon DEF sys_read_done
<1>2. p \in Tables /\ FsOK(fs) /\ State = Whole(fs, {}, kept, size, "none")
      /\ Entry(State, p, fd) = file
  <2>1. p \in Tables /\ FsOK(fs) /\ State = Whole(fs, {}, kept, size, "none")
    BY <1>1, SoundState, ProcsAreTables, SMTT(30)
  <2> HIDE DEF fd
  <2>2. Entry(Whole(fs, {}, kept, size, "none"), p, fd) = file
    BY WholeEntry
  <2> QED BY <2>1, <2>2, Zenon
<1>3. fd \in Fds /\ fs[p].live /\ file # FD_NONE /\ file.open_count = 2
  BY <1>1, ZenonT(30) DEF Sound, Reads
<1> HIDE DEF fd
<1>4. file.status = "FD_OPENED"
  BY <1>2, <1>3, OpenedOK, SMTT(30)
<1>5. filemap_release(State, p, fd) =
        SetEntry(State, p, fd, [file EXCEPT !.open_count = 1])
  <2>1. file.open_count - 1 = 1 /\ file.open_count # 1 /\ file.open_count > 0
    BY <1>3
  <2>2. Assert(State, file.status \in {"FD_OPENED", "FD_CLOSED"} /\ file.open_count > 0) = State
    BY <1>4, <2>1, Zenon DEF Assert
  <2> HIDE DEF file
  <2>3. Drop(State, p, fd, file) = SetEntry(State, p, fd, [file EXCEPT !.open_count = 1])
    BY <2>1, Zenon DEF Drop
  <2> QED BY <1>2, <2>2, <2>3, ZenonT(30) DEF filemap_release
<1>6. PICK e : /\ EntryOK(e) /\ e # FD_NONE /\ e.open_count = 1
               /\ e = [file EXCEPT !.open_count = 1]
               /\ SetEntry(Whole(fs, {}, kept, size, "none"), p, fd, e) =
                    Whole(Put(fs, p, fd, e), {}, kept, size, "none")
  <2>1. 1 \in Nat \ {0}
    OBVIOUS
  <2>2. IsOpen(fs[p].filemap[fd]) /\ p \in Tables /\ FsOK(fs) /\ fd \in Fds
    BY <1>2, <1>3, <1>4, Zenon DEF IsOpen
  <2>3. Holds(fs, kept, size, "none", p, fd, 1)
    BY <2>1, <2>2, HeldChanges
  <2> QED BY <2>3, Zenon DEF Holds
<1>7. Becomes(Whole(Put(fs, p, fd, e), {}, kept, size, "none"))
  <2> HIDE DEF file
  <2> QED BY <1>1, <1>2, <1>5, <1>6, Zenon
<1>8. NoFd # fd
  BY <1>1, Zenon
<1>9. reading[p] \in {NoFd, fd} /\ NoFd \in {NoFd, fd}
      /\ e.open_count = (IF NoFd = fd THEN 2 ELSE 1)
  BY <1>6, <1>8, Zenon DEF fd
<1> HIDE DEF file
<1> QED BY <1>1, <1>3, <1>6, <1>7, <1>9, PreservesHeld, Zenon
-----------------------------------------------------------------------------
\* Booting establishes the invariant.
LEMMA InitInv == Init => IInv
<1> SUFFICES ASSUME Init PROVE IInv
  BY Zenon
<1> DEFINE g == Copied(Booted, initproc, FirstProc, NENTRY - 1)
<1>1. FirstProc \in Tables /\ initproc \in Tables /\ FirstProc # initproc
      /\ Booted[FirstProc] = Absent
  BY ProcsAreTables, BootedOK, Zenon
<1>2. init_main(size) = Whole(g, {}, NoneKept, size, "none")
  <2>1. dup_fs(Whole(Booted, {}, NoneKept, size, "none"), initproc, FirstProc) = Whole(g, {}, NoneKept, size, "none")
    BY <1>1, BootedOK, DupTable, SMTT(30)
  <2>2. vfs_set_bootfs(Created(size), initproc, [start |-> "disk0:", name |-> ""])
          = Whole(Booted, {}, NoneKept, size, "none")
    BY BootfsSet, Zenon
  <2> HIDE DEF g
  <2> QED BY <2>1, <2>2, ZenonT(30) DEF init_main
<1>3. FsOK(g) /\ Quiet(g, FirstProc) /\ Alive(g, FirstProc) /\ Same(Booted, g, FirstProc)
  BY <1>1, BootedOK, CopiedParts, SMTT(30)
<1>4. \A x \in Tables \ {FirstProc} : g[x] = Booted[x]
  BY <1>3, Zenon DEF Same
<1>5. fs = init_main(size).fs /\ inode = init_main(size).inode
      /\ panic = init_main(size).panic /\ reading = [p \in Procs |-> NoFd]
      /\ kept = NoneKept
  BY Zenon DEF Init, NoneKept
<1> HIDE DEF g
<1>6. fs = g /\ inode = Copies(O(g), R(g, {}, kept)) /\ panic = "none"
  BY <1>2, <1>5, Fields, SMTT(30) DEF Whole
<1>7. fs[initproc] = fs_create(Root)
  BY <1>1, <1>4, <1>6, BootedOK, Zenon
<1>8. \A p \in Procs : fs[p].live \/ fs[p] = Absent
  BY <1>3, <1>4, <1>6, BootedOK, ProcsAreTables, SMTT(30) DEF Alive
<1>9. Reads
  <2>1. ASSUME NEW p \in Procs, NEW fd \in Fds, fs[p].filemap[fd] # FD_NONE
        PROVE  fs[p].filemap[fd].open_count = 1
    <3>1. CASE p = FirstProc
      BY <1>3, <1>6, <2>1, <3>1, SMTT(30) DEF Quiet
    <3>2. CASE p # FirstProc
      BY <1>4, <1>6, <2>1, <3>2, BootedOK, EmptyTables, ProcsAreTables, SMTT(30)
    <3> QED BY <3>1, <3>2, Zenon
  <2> QED BY <1>5, <2>1, ProcsAreTables, SMTT(30) DEF Reads
<1>10. reading = [p \in Procs |-> reading[p]]
  BY <1>5, Zenon
<1>11. kept \in [Inodes -> Nat]
  BY <1>5 DEF NoneKept
<1> QED BY <1>3, <1>11, <1>6, <1>7, <1>8, <1>9, <1>10, SMTT(30) DEF IInv, Sound

\* Every call keeps the invariant.
LEMMA NextInv == IInv /\ [Next]_vars => IInv'
<1> SUFFICES ASSUME IInv, [Next]_vars PROVE IInv'
  BY Zenon
<1>1. CASE UNCHANGED vars
  <2>1. fs' = fs /\ inode' = inode /\ panic' = panic /\ reading' = reading
        /\ kept' = kept
    BY <1>1, Zenon DEF vars
  <2> QED BY <2>1, SMTT(30) DEF IInv, Sound, Reads
<1>2. ASSUME NEW p \in Procs, Sound, syscall(p) \/ sys_read_done(p)
      PROVE  IInv'
  <2>1. CASE \E path \in Paths, flags \in Flags : sys_open(p, path, flags)
    BY <1>2, <2>1, SysOpen, Zenon
  <2>2. ASSUME NEW fd \in Fds,
               \/ sys_close(p, fd) \/ sys_read_stdin(p, fd)
               \/ sys_read(p, fd, 1) \/ sys_write(p, fd, 1)
               \/ \E pos \in 0..MaxSize : sys_seek(p, fd, pos)
               \/ sys_fstat(p, fd) \/ sys_fsync(p, fd) \/ sys_getdirentry(p, fd)
               \/ \E fd2 \in Fds \cup {NoFd} : sys_dup(p, fd, fd2)
        PROVE  IInv'
    BY <1>2, <2>2, SysClose, SysReadStdin, SysRead, SysWrite, SysSeek, SysFstat, SysVop,
       SysDup, Zenon
  <2>3. CASE sys_read_done(p) \/ sys_getcwd(p) \/ sys_exit(p)
    BY <1>2, <2>3, SysReadDone, SysGetcwd, SysExit, ZenonT(30)
  <2>4. CASE \E child \in Procs : sys_fork(p, child)
    BY <1>2, <2>4, SysFork, Zenon
  <2>5. CASE \E path \in Paths, loads \in BOOLEAN, end \in 0..MaxSize :
               sys_exec(p, path, loads, end)
    BY <1>2, <2>5, SysExec, Zenon
  <2>6. CASE sys_undefined(p)
    BY <2>6, Zenon DEF sys_undefined, IInv
  <2> QED BY <1>2, <2>1, <2>2, <2>3, <2>4, <2>5, <2>6, Zenon DEF syscall
<1>3. Next => panic = "none"
  <2>1. \A p : Idle(p) => panic = "none"
    BY Zenon DEF Idle
  <2>2. \A p, path, flags : sys_open(p, path, flags) => Idle(p)
    BY Zenon DEF sys_open
  <2>3. \A p, fd, len : sys_read(p, fd, len) \/ sys_write(p, fd, len) \/ sys_seek(p, fd, len)
                          \/ sys_dup(p, fd, len) => Idle(p)
    BY DEF sys_read, sys_write, sys_seek, sys_dup
  <2>4. \A p, fd : sys_close(p, fd) \/ sys_read_stdin(p, fd) \/ sys_fstat(p, fd)
                     \/ sys_fsync(p, fd) \/ sys_getdirentry(p, fd) => Idle(p)
    BY Zenon DEF sys_close, sys_read_stdin, sys_fstat, sys_fsync, sys_getdirentry
  <2>5. \A p : sys_read_done(p) => panic = "none"
    BY Zenon DEF sys_read_done
  <2>6. \A p, child : sys_getcwd(p) \/ sys_exit(p) \/ sys_undefined(p)
                        \/ sys_fork(p, child) => Idle(p)
    BY Zenon DEF sys_getcwd, sys_exit, sys_undefined, sys_fork
  <2>7. \A p, path, loads, end : sys_exec(p, path, loads, end) => Idle(p)
    BY Zenon DEF sys_exec
  <2> QED BY <2>1, <2>2, <2>3, <2>4, <2>5, <2>6, <2>7, ZenonT(30) DEF Next, syscall
<1>4. Next => Sound
  BY <1>3, Zenon DEF IInv
<1> QED BY <1>1, <1>2, <1>3, <1>4, Zenon DEF Next

\* The counts are those of the state, so that they agree with it.
LEMMA InvAgrees == IInv => RefsAgree
<1> SUFFICES ASSUME IInv, panic = "none", NEW n \in Inodes
             PROVE  /\ inode[n].open = Cardinality(Uses(n))
                    /\ inode[n].ref = inode[n].open + Cardinality({ p \in Tables : fs[p].pwd = n })
                                        + (IF n = File THEN 0 ELSE 1) + kept[n]
                    /\ inode[n].reclaim = IF inode[n].ref > 0 THEN 1 ELSE 0
  BY Zenon DEF IInv, RefsAgree
<1>1. Uses(n) = UsesOf(fs, n)
  BY Zenon DEF Uses, UsesOf
<1>2. DirsOf(fs, {}, n) = { p \in Tables : fs[p].pwd = n }
  BY Zenon DEF DirsOf
<1>3. inode[n] = Counts(O(fs)[n], R(fs, {}, kept)[n])
  BY Zenon DEF IInv, Sound, Copies
<1>4. inode[n].open = O(fs)[n] /\ inode[n].ref = R(fs, {}, kept)[n]
      /\ inode[n].reclaim = IF R(fs, {}, kept)[n] > 0 THEN 1 ELSE 0
  BY <1>3 DEF Counts
<1>5. O(fs)[n] = Cardinality(Uses(n))
  BY <1>1, Zenon DEF O
<1>6. R(fs, {}, kept)[n] = Cardinality(Uses(n)) + Cardinality({ p \in Tables : fs[p].pwd = n })
                       + (IF n = File THEN 0 ELSE 1) + kept[n]
  <2>1. KeptOf(kept, n) = kept[n]
    BY DEF IInv, Sound, KeptOf
  <2> QED BY <1>1, <1>2, <2>1, Zenon DEF R
<1> QED BY <1>4, <1>5, <1>6, Zenon

\* Along every sequence of system calls of every number of processes, with any
\* number of entries, the counts of an inode (inode_ref_inc, inode_open_inc,
\* sfs_load_inode) are those of the entries and directories that refer to it
\* and of the opens with O_CREAT and O_EXCL that vfs_open refused, each of which
\* keeps one reference for good, and no assertion of inode.c, file.c or
\* sfs_inode.c about them fails.
THEOREM CountsAgree == Spec => []RefsAgree
<1>1. Spec => []IInv
  BY InitInv, NextInv, PTL DEF Spec
<1> QED BY <1>1, InvAgrees, PTL
=============================================================================
