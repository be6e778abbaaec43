-------------------------------- MODULE Files --------------------------------
(***************************************************************************)
(* The file tables of the processes (fs/file.c, fs/fs.c), the virtual file *)
(* system below them (fs/vfs/*.c), the devices (fs/devs/*.c) and the       *)
(* in-memory inodes they count references to (sfs_load_inode,              *)
(* sfs_reclaim).  A process has a table of its own: CLONE_FS is never      *)
(* given.  System calls do not block inside the file system, except a read *)
(* of stdin, which is two steps.  The files are in the root directory,     *)
(* smaller than a block; their data is their size.                         *)
(***************************************************************************)
EXTENDS Integers, FiniteSets, FiniteSetsExt

CONSTANTS
    Procs,
    initproc,           \* has a table of its own and makes no calls
    FirstProc,          \* user_main, which init starts
    NENTRY,             \* FS_STRUCT_NENTRY
    MaxSize,            \* bound on positions and sizes
    MaxKept,            \* bound on the references that refused openings keep
    Flags,              \* sets of open flags the processes use
    Paths               \* paths the processes use

VARIABLES
    fs,                 \* process -> its fs_struct
    inode,              \* inode -> its in-memory copy
    size,               \* of the regular file
    reading,            \* process -> fd of stdin it waits on, or NoFd
    kept,               \* history: inode -> references that refused openings have kept
    panic               \* "none", "assert", "syscall", or the inode operation that is missing

vars == <<fs, inode, size, reading, kept, panic>>

NoFd == -1
Root == "root"
File == "file"
Stdin == "stdin"
Stdout == "stdout"
Devices == {Stdin, Stdout}
Inodes == {Root, File} \cup Devices
Fds == 0..(NENTRY - 1)
Tables == Procs \cup {initproc}

\* A path begins with a device name and a colon, with "/" (the boot file
\* system), with ":" (the file system of the current directory) or with none of
\* these (the current directory); then comes a name, or nothing.
PathSyntax == [start : {"", "/", ":", "stdin:", "stdout:", "disk0:", "disk1:"},
               name : {"", ".", "file", "missing"}]

ASSUME FilesAssumption ==
    /\ IsFiniteSet(Procs) /\ FirstProc \in Procs /\ initproc \notin Procs
    /\ NENTRY \in Nat \ {0}
    /\ MaxSize \in Nat /\ MaxKept \in Nat
    /\ Paths \subseteq PathSyntax

\* The operations in dev_node_ops, sfs_node_dirops and sfs_node_fileops that
\* not every inode has; calling one that is missing fails an assertion.
HasOp(n, op) ==
    CASE n \in Devices -> op \in {"read", "write", "tryseek", "lookup"}
      [] n = Root -> op \in {"fsync", "namefile", "getdirentry", "reclaim", "lookup"}
      [] OTHER -> op \in {"read", "write", "fsync", "tryseek", "truncate", "reclaim"}

\* filemap_init: FD_NONE is an unopened entry; FD_INIT does not outlast a system call.
FD_NONE == [status |-> "FD_NONE", node |-> "none", pos |-> 0, readable |-> FALSE,
            writable |-> FALSE, open_count |-> 0]
fs_create(pwd) == [live |-> TRUE, pwd |-> pwd, filemap |-> [fd \in Fds |-> FD_NONE]]
Absent == [live |-> FALSE, pwd |-> "none", filemap |-> [fd \in Fds |-> FD_NONE]]
\* An inode of the file system is in memory while its reclaim_count is positive.
NotLoaded == [ref |-> 0, open |-> 0, reclaim |-> 0]
-----------------------------------------------------------------------------
\* S is the state of the kernel: [fs, inode, size, panic].
State == [fs |-> fs, inode |-> inode, size |-> size, panic |-> panic]

Becomes(S) == fs' = S.fs /\ inode' = S.inode /\ size' = S.size /\ panic' = S.panic

Assert(S, condition) == IF condition \/ S.panic # "none" THEN S ELSE [S EXCEPT !.panic = "assert"]

inode_check(S, n) == Assert(S, S.inode[n].ref >= S.inode[n].open /\ S.inode[n].open >= 0)

\* __vop_op.
Vop(S, n, op) ==
    IF HasOp(n, op) \/ S.panic # "none" THEN inode_check(S, n) ELSE [S EXCEPT !.panic = op]

SetInode(S, n, copy) == [S EXCEPT !.inode[n] = copy]

\* inode_ref_inc, and sfs_load_inode for an inode that nobody had.
ref_inc(S, n) ==
    LET c == S.inode[n]
    IN  SetInode(S, n, [ref |-> c.ref + 1, open |-> c.open,
                        reclaim |-> IF c.ref = 0 THEN c.reclaim + 1 ELSE c.reclaim])

\* The inode is killed unless it was looked up again.
sfs_reclaim(S, n) ==
    LET c == S.inode[n]
    IN  IF c.reclaim - 1 # 0 \/ c.ref # 0
          THEN SetInode(Assert(S, c.reclaim > 0), n, [c EXCEPT !.reclaim = c.reclaim - 1])
          ELSE SetInode(Assert(S, c.open = 0), n, NotLoaded)

ref_dec(S, n) ==
    LET c == S.inode[n]
        less == SetInode(Assert(S, c.ref > 0), n, [c EXCEPT !.ref = c.ref - 1])
    IN  IF c.ref = 1 THEN sfs_reclaim(Vop(less, n, "reclaim"), n) ELSE less

open_inc(S, n) ==
    LET c == S.inode[n] IN SetInode(S, n, [c EXCEPT !.open = c.open + 1])
open_dec(S, n) ==
    LET c == S.inode[n] IN SetInode(Assert(S, c.open > 0), n, [c EXCEPT !.open = c.open - 1])

vfs_close(S, n) == ref_dec(open_dec(S, n), n)
-----------------------------------------------------------------------------
\* What a lookup answers: the state, and the inode it got a reference to.
Found(S, n) == [S |-> ref_inc(S, n), node |-> n]
Fails(S) == [S |-> S, node |-> "none"]

\* The inode the lookup began at is let go.
Leaving(n, l) == [S |-> ref_dec(l.S, n), node |-> l.node]

\* vfs_do_add: a name is added once.
vfs_do_add(list, devname, devnode, mountable) ==
    IF \E v \in list : v.devname = devname THEN list
    ELSE list \cup {[devname |-> devname, devnode |-> devnode, mountable |-> mountable,
                     fs |-> "none"]}

\* vfs_mount; what mountfunc gives is known by its root.
vfs_mount(list, devname, root) ==
    { IF v.devname = devname /\ v.mountable /\ v.fs = "none" THEN [v EXCEPT !.fs = root] ELSE v
        : v \in list }

\* dev_init and sfs_init: the devices, and the file system on the disk.
dev_init_stdin(list) == vfs_do_add(list, "stdin:", Stdin, FALSE)
dev_init_stdout(list) == vfs_do_add(list, "stdout:", Stdout, FALSE)
dev_init_disk0(list) == vfs_do_add(list, "disk0:", "disk0", TRUE)
dev_init == dev_init_disk0(dev_init_stdout(dev_init_stdin({})))
vdev_list == vfs_mount(dev_init, "disk0:", Root)

vfs_get_root(S, devname) ==
    LET v == CHOOSE v \in vdev_list : v.devname = devname
    IN  IF \A w \in vdev_list : w.devname # devname THEN Fails(S)
        ELSE IF v.fs # "none" THEN Found(S, v.fs)
        ELSE IF ~ v.mountable THEN Found(S, v.devnode)
        ELSE Fails(S)

vfs_get_bootfs(S) == Found(S, Root)
vfs_get_curdir(S, p) == IF S.fs[p].pwd = "none" THEN Fails(S) ELSE Found(S, S.fs[p].pwd)

\* fsop_get_root of the file system the directory is in.
RootOf(dir) ==
    IF dir.node = "none" THEN dir
    ELSE Leaving(dir.node, Found(dir.S, Root))

\* Where a path starts.
get_device(S, p, start) ==
    CASE start = "" -> vfs_get_curdir(S, p)
      [] start = "/" -> vfs_get_bootfs(S)
      [] start = ":" -> RootOf(vfs_get_curdir(S, p))
      [] OTHER -> vfs_get_root(S, start)

\* In the root "." leads to itself, and so does "..".
sfs_lookup_once(S, name) ==
    CASE name = "." -> Found(S, Root) [] name = "file" -> Found(S, File) [] OTHER -> Fails(S)

sfs_lookup(S, n, name) == Leaving(n, sfs_lookup_once(ref_inc(S, n), name))

\* A name after a device that holds no file system leads nowhere.
dev_lookup(S, n, name) == IF name # "" THEN Fails(S) ELSE Found(S, n)

vop_lookup(S, n, name) ==
    IF n \in Devices THEN dev_lookup(S, n, name) ELSE sfs_lookup(S, n, name)

LookupFrom(d, name) ==
    IF d.node = "none" \/ name = "" THEN d
    ELSE Leaving(d.node, vop_lookup(Vop(d.S, d.node, "lookup"), d.node, name))

vfs_lookup(S, p, path) == LookupFrom(get_device(S, p, path.start), path.name)
-----------------------------------------------------------------------------
\* vop_gettype: only the root is a directory.
S_ISDIR(n) == n = Root

SetTable(S, p, table) == [S EXCEPT !.fs[p] = table]

vfs_set_curdir(S, p, dir) ==
    LET entered == SetTable(ref_inc(S, dir), p, [S.fs[p] EXCEPT !.pwd = dir])
    IN  IF S.fs[p].pwd = dir \/ ~ S_ISDIR(dir) THEN S
        ELSE IF S.fs[p].pwd = "none" THEN entered
        ELSE ref_dec(entered, S.fs[p].pwd)

\* Only vfs_set_bootfs calls it: there is no system call for it.
ChangeTo(l, p) ==
    IF l.node = "none" THEN l.S ELSE ref_dec(vfs_set_curdir(l.S, p, l.node), l.node)
vfs_chdir(S, p, path) == ChangeTo(vfs_lookup(S, p, path), p)

\* bootfs_node, which was NULL, keeps the reference of vfs_get_curdir.
vfs_set_bootfs(S, p, path) == vfs_get_curdir(vfs_chdir(S, p, path), p).S

\* The way up from the root ends at once.
sfs_namefile(S, n) == ref_dec(ref_dec(sfs_lookup_once(ref_inc(S, n), ".").S, n), n)

NameOf(dir) ==
    IF dir.node = "none" THEN dir.S
    ELSE ref_dec(sfs_namefile(Vop(dir.S, dir.node, "namefile"), dir.node), dir.node)
vfs_getcwd(S, p) == NameOf(vfs_get_curdir(S, p))
-----------------------------------------------------------------------------
stdin_open(flags) == flags = {}
stdout_open(flags) == flags = {"O_WRONLY"}
dev_open(n, flags) ==
    /\ flags \cap {"O_CREAT", "O_TRUNC", "O_EXCL", "O_APPEND"} = {}
    /\ IF n = Stdin THEN stdin_open(flags) ELSE stdout_open(flags)
sfs_opendir(flags) == flags \cap {"O_WRONLY", "O_RDWR", "O_APPEND"} = {}
vop_open(n, flags) ==
    CASE n \in Devices -> dev_open(n, flags) [] n = Root -> sfs_opendir(flags) [] OTHER -> TRUE

SetSize(S, len) == [S EXCEPT !.size = len]
vop_truncate(S, n, len) ==
    IF n = File THEN SetSize(Vop(S, n, "truncate"), len) ELSE Vop(S, n, "truncate")

can_write(flags) == flags \cap {"O_WRONLY", "O_RDWR"} # {}

\* O_CREAT of a missing file takes its directory and calls vop_create, which no
\* inode has.  O_CREAT | O_EXCL of a file returns with the reference it looked up.
OpenMissing(S, dir, flags) ==
    Fails(IF "O_CREAT" \notin flags \/ dir.node = "none" THEN S ELSE Vop(dir.S, dir.node, "create"))

\* Mutant: an inode that refuses the flags keeps the reference, too.
OpenNode_Refused(S, n, flags) ==
    IF {"O_CREAT", "O_EXCL"} \subseteq flags \/ ~ vop_open(n, flags) THEN Fails(S)
    ELSE [node |-> n,
          S |-> IF flags \cap {"O_TRUNC", "O_CREAT"} # {} THEN vop_truncate(open_inc(S, n), n, 0)
                ELSE open_inc(S, n)]

OpenNode(S, n, flags) ==
    IF {"O_CREAT", "O_EXCL"} \subseteq flags THEN Fails(S)
    ELSE IF ~ vop_open(n, flags) THEN Fails(ref_dec(S, n))
    ELSE [node |-> n,
          S |-> IF flags \cap {"O_TRUNC", "O_CREAT"} # {} THEN vop_truncate(open_inc(S, n), n, 0)
                ELSE open_inc(S, n)]

Open(l, dir, flags) ==
    IF l.node = "none" THEN OpenMissing(l.S, dir, flags) ELSE OpenNode(l.S, l.node, flags)

BadFlags(flags) ==
    {"O_WRONLY", "O_RDWR"} \subseteq flags \/ ("O_TRUNC" \in flags /\ ~ can_write(flags))

vfs_open(S, p, path, flags) ==
    IF BadFlags(flags) THEN Fails(S)
    ELSE Open(vfs_lookup(S, p, path), get_device(S, p, path.start), flags)

\* The inode for which vfs_open answers -E_EXISTS, or "none".
Existing(S, p, path, flags) ==
    IF BadFlags(flags) \/ ~ ({"O_CREAT", "O_EXCL"} \subseteq flags) THEN "none"
    ELSE vfs_lookup(S, p, path).node
-----------------------------------------------------------------------------
Entry(S, p, fd) == S.fs[p].filemap[fd]

\* fd2file.
Opened(p, fd) == fd \in Fds /\ Entry(State, p, fd).status = "FD_OPENED"

\* filemap_alloc(NO_FD): the lowest entry that is not in use, if any.
FreeFds(S, p) == { fd \in Fds : Entry(S, p, fd).status = "FD_NONE" }

SetEntry(S, p, fd, file) == [S EXCEPT !.fs[p].filemap[fd] = file]

\* What a file keeps while a call uses it.  Calls that do not wait acquire and
\* release in one step, which is left out.
filemap_acquire(S, p, fd) ==
    LET file == Entry(S, p, fd)
    IN  SetEntry(Assert(S, file.status = "FD_OPENED"), p, fd,
                 [file EXCEPT !.open_count = file.open_count + 1])

filemap_free(S, p, fd, file) ==
    SetEntry(IF file.status = "FD_CLOSED" THEN vfs_close(S, file.node) ELSE S, p, fd, FD_NONE)

\* fopen_count_dec: the entry is free when nobody uses it any more.
Drop(S, p, fd, file) ==
    IF file.open_count = 1 THEN filemap_free(S, p, fd, file)
    ELSE SetEntry(S, p, fd, [file EXCEPT !.open_count = file.open_count - 1])

filemap_release(S, p, fd) ==
    LET file == Entry(S, p, fd)
    IN  Drop(Assert(S, file.status \in {"FD_OPENED", "FD_CLOSED"} /\ file.open_count > 0),
             p, fd, file)

filemap_close(S, p, fd) ==
    LET file == Entry(S, p, fd)
    IN  Drop(Assert(S, file.status = "FD_OPENED" /\ file.open_count > 0),
             p, fd, [file EXCEPT !.status = "FD_CLOSED"])

\* A duplicate has its own position.
Duplicate(file) == [file EXCEPT !.open_count = 1]
filemap_dup(S, to, tofd, file) ==
    SetEntry(open_inc(ref_inc(S, file.node), file.node), to, tofd, Duplicate(file))

\* The fd, or NoFd.
Install(v, p, fd, flags) ==
    IF v.node = "none" THEN [S |-> v.S, fd |-> NoFd]
    ELSE [fd |-> fd,
          S |-> SetEntry(v.S, p, fd,
                  [status |-> "FD_OPENED", node |-> v.node, readable |-> "O_WRONLY" \notin flags,
                   writable |-> can_write(flags),
                   pos |-> IF "O_APPEND" \in flags THEN v.S.size ELSE 0, open_count |-> 1])]

file_open(S, p, path, flags) ==
    IF FreeFds(S, p) = {} THEN [S |-> S, fd |-> NoFd]
    ELSE Install(vfs_open(S, p, path, flags), p, Min(FreeFds(S, p)), flags)

\* The inode of which a refused file_open keeps a reference, or "none".
KeptBy(S, p, path, flags) ==
    IF FreeFds(S, p) = {} THEN "none" ELSE Existing(S, p, path, flags)

SetPos(S, p, fd, pos) == SetEntry(S, p, fd, [Entry(S, p, fd) EXCEPT !.pos = pos])

\* Up to the end of the file.
file_read(S, p, fd, len) ==
    LET file == Entry(S, p, fd)
    IN  SetPos(Vop(S, file.node, "read"), p, fd, Max({file.pos, Min({file.pos + len, S.size})}))

\* stdout takes everything; where it is, nobody asks.
file_write(S, p, fd, len) ==
    LET file == Entry(S, p, fd)
        end == file.pos + len
        r == Vop(S, file.node, "write")
    IN  IF file.node # File THEN r
        ELSE SetSize(SetPos(r, p, fd, end), Max({S.size, end}))

\* A seek past the end makes the file longer; a device without blocks has no positions.
dev_tryseek(S, n, pos) == [S |-> S, ok |-> FALSE]
sfs_tryseek(S, n, pos) ==
    [S |-> IF pos > S.size THEN vop_truncate(S, n, pos) ELSE S, ok |-> TRUE]

vop_tryseek(S, n, pos) ==
    IF n \in Devices THEN dev_tryseek(Vop(S, n, "tryseek"), n, pos)
    ELSE sfs_tryseek(Vop(S, n, "tryseek"), n, pos)

Seek(sought, p, fd, pos) == IF sought.ok THEN SetPos(sought.S, p, fd, pos) ELSE sought.S
file_seek(S, p, fd, pos) == Seek(vop_tryseek(S, Entry(S, p, fd).node, pos), p, fd, pos)

\* vop_fsync and vop_getdirentry change nothing here; vop_fstat neither, and
\* every inode has it.
file_fstat(S, p, fd) == inode_check(S, Entry(S, p, fd).node)
file_fsync(S, p, fd) == Vop(S, Entry(S, p, fd).node, "fsync")
file_getdirentry(S, p, fd) == Vop(S, Entry(S, p, fd).node, "getdirentry")
-----------------------------------------------------------------------------
\* copy_fs: the child has the directory and duplicates of all open entries.
dup_fs(S, from, to) ==
    LET pwd == S.fs[from].pwd
        begun == SetTable(IF pwd = "none" THEN S ELSE ref_inc(S, pwd), to, fs_create(pwd))
        dup[fd \in -1..(NENTRY - 1)] ==
            IF fd = -1 THEN begun
            ELSE IF Entry(S, from, fd).status = "FD_OPENED"
                   THEN filemap_dup(dup[fd - 1], to, fd, Entry(S, from, fd))
            ELSE dup[fd - 1]
    IN  dup[NENTRY - 1]

CloseFrom(S, p, first) ==
    LET close[fd \in (first - 1)..(NENTRY - 1)] ==
            IF fd < first THEN S
            ELSE IF Entry(close[fd - 1], p, fd).status = "FD_OPENED"
                   THEN filemap_close(close[fd - 1], p, fd)
            ELSE close[fd - 1]
    IN  IF first < NENTRY THEN close[NENTRY - 1] ELSE S

\* stdin and stdout stay.
fs_closeall(S, p) == CloseFrom(S, p, 2)

\* The last process of a table lets go of its directory and files.
Freed(S, p) ==
    SetTable(Assert(S, \A fd \in Fds : Entry(S, p, fd).status = "FD_NONE"), p, Absent)
fs_destroy(S, p) ==
    Freed(CloseFrom(IF S.fs[p].pwd = "none" THEN S ELSE ref_dec(S, S.fs[p].pwd), p, 0), p)
-----------------------------------------------------------------------------
\* The devices exist; init_main makes the disk its directory and the boot file
\* system, and starts user_main.
Created(len) ==
    [fs |-> [p \in Tables |-> IF p = initproc THEN fs_create("none") ELSE Absent],
     inode |-> [n \in Inodes |-> IF n \in Devices
                                   THEN [ref |-> 1, open |-> 0, reclaim |-> 1]
                                   ELSE NotLoaded],
     size |-> len, panic |-> "none"]

init_main(len) ==
    dup_fs(vfs_set_bootfs(Created(len), initproc, [start |-> "disk0:", name |-> ""]),
           initproc, FirstProc)

Init ==
    /\ size \in 0..MaxSize
    /\ fs = init_main(size).fs
    /\ inode = init_main(size).inode
    /\ reading = [p \in Procs |-> NoFd]
    /\ kept = [n \in Inodes |-> 0]
    /\ panic = init_main(size).panic

Idle(p) == panic = "none" /\ fs[p].live /\ reading[p] = NoFd

sys_open(p, path, flags) ==
    LET n == KeptBy(State, p, path, flags)
    IN  /\ Idle(p) /\ Becomes(file_open(State, p, path, flags).S) /\ UNCHANGED reading
        /\ \/ n = "none" /\ UNCHANGED kept
           \/ /\ n # "none" /\ kept[Root] + kept[File] + kept[Stdin] + kept[Stdout] < MaxKept
              /\ kept' = [kept EXCEPT ![n] = @ + 1]

sys_close(p, fd) ==
    /\ Idle(p) /\ Opened(p, fd) /\ Becomes(filemap_close(State, p, fd)) /\ UNCHANGED <<reading, kept>>

sys_read(p, fd, len) ==
    LET file == Entry(State, p, fd)
    IN  /\ Idle(p) /\ Opened(p, fd) /\ file.readable /\ file.node # Stdin
        /\ Becomes(file_read(State, p, fd, len)) /\ UNCHANGED <<reading, kept>>

\* A read of stdin holds the entry while it waits.
sys_read_stdin(p, fd) ==
    /\ Idle(p) /\ Opened(p, fd) /\ Entry(State, p, fd).node = Stdin
    /\ reading' = [reading EXCEPT ![p] = fd]
    /\ Becomes(filemap_acquire(State, p, fd)) /\ UNCHANGED kept

sys_read_done(p) ==
    /\ panic = "none" /\ reading[p] # NoFd
    /\ reading' = [reading EXCEPT ![p] = NoFd]
    /\ Becomes(filemap_release(State, p, reading[p])) /\ UNCHANGED kept

sys_write(p, fd, len) ==
    LET file == Entry(State, p, fd)
    IN  /\ Idle(p) /\ Opened(p, fd) /\ file.writable
        /\ file.node = File => file.pos + len <= MaxSize
        /\ Becomes(file_write(State, p, fd, len)) /\ UNCHANGED <<reading, kept>>

\* pos is where whence and the offset lead.
sys_seek(p, fd, pos) ==
    /\ Idle(p) /\ Opened(p, fd) /\ Becomes(file_seek(State, p, fd, pos)) /\ UNCHANGED <<reading, kept>>

sys_fstat(p, fd) ==
    /\ Idle(p) /\ Opened(p, fd) /\ Becomes(file_fstat(State, p, fd)) /\ UNCHANGED <<reading, kept>>

sys_fsync(p, fd) ==
    /\ Idle(p) /\ Opened(p, fd) /\ Becomes(file_fsync(State, p, fd)) /\ UNCHANGED <<reading, kept>>

sys_getdirentry(p, fd) ==
    /\ Idle(p) /\ Opened(p, fd) /\ Becomes(file_getdirentry(State, p, fd)) /\ UNCHANGED <<reading, kept>>

sys_getcwd(p) == Idle(p) /\ Becomes(vfs_getcwd(State, p)) /\ UNCHANGED <<reading, kept>>

\* file_dup: fd2 is an entry, which must be unused, or NO_FD.
sys_dup(p, fd1, fd2) ==
    LET to == IF fd2 = NoFd THEN FreeFds(State, p) ELSE {fd2} \cap FreeFds(State, p)
    IN  /\ Idle(p) /\ Opened(p, fd1) /\ to # {}
        /\ Becomes(filemap_dup(State, p, Min(to), Entry(State, p, fd1)))
        /\ UNCHANGED <<reading, kept>>

sys_fork(p, child) ==
    /\ Idle(p) /\ ~ fs[child].live /\ Becomes(dup_fs(State, p, child)) /\ UNCHANGED <<reading, kept>>

sys_exit(p) == Idle(p) /\ Becomes(fs_destroy(State, p)) /\ UNCHANGED <<reading, kept>>

\* do_execve: all but stdin and stdout are closed before the program is opened;
\* what cannot be opened or loaded ends the process.  A program header past the
\* end makes the file longer, as any seek does.
load_icode(S, p, fd, loads, end) ==
    IF Entry(S, p, fd).node # File THEN fs_destroy(Vop(S, Entry(S, p, fd).node, "tryseek"), p)
    ELSE IF loads THEN filemap_close(S, p, fd)
    ELSE fs_destroy(SetSize(S, Max({S.size, end})), p)

Execute(o, p, loads, end) ==
    IF o.fd = NoFd THEN fs_destroy(o.S, p) ELSE load_icode(o.S, p, o.fd, loads, end)

sys_exec(p, path, loads, end) ==
    /\ Idle(p)
    /\ Becomes(Execute(file_open(fs_closeall(State, p), p, path, {}), p, loads, end))
    /\ UNCHANGED <<reading, kept>>

\* A number that is not in the table of syscall.c stops the kernel.
sys_undefined(p) ==
    /\ Idle(p) /\ panic' = "syscall"
    /\ UNCHANGED <<fs, inode, size, reading, kept>>

\* The calls on files, and those that change a process's table of files; chdir
\* is not in the table of calls.  Any process may make any of them next.
syscall(p) ==
    \/ \E path \in Paths, flags \in Flags : sys_open(p, path, flags)
    \/ \E fd \in Fds :
        \/ sys_close(p, fd) \/ sys_read_stdin(p, fd)
        \/ sys_read(p, fd, 1) \/ sys_write(p, fd, 1)
        \/ \E pos \in 0..MaxSize : sys_seek(p, fd, pos)
        \/ sys_fstat(p, fd) \/ sys_fsync(p, fd) \/ sys_getdirentry(p, fd)
        \/ \E fd2 \in Fds \cup {NoFd} : sys_dup(p, fd, fd2)
    \/ sys_getcwd(p)
    \/ \E child \in Procs : sys_fork(p, child)
    \/ sys_exit(p) \/ sys_undefined(p)
    \/ \E path \in Paths, loads \in BOOLEAN, end \in 0..MaxSize : sys_exec(p, path, loads, end)

Next == \E p \in Procs : syscall(p) \/ sys_read_done(p)

Spec == Init /\ [][Next]_vars
-----------------------------------------------------------------------------
\* The entries, in all processes, of an inode.
Uses(n) == { u \in Tables \X Fds :
               LET file == fs[u[1]].filemap[u[2]] IN file.status # "FD_NONE" /\ file.node = n }

\* The counts of an inode are the entries and directories that refer to it, in
\* all processes, plus the boot file system's or the device list's own, plus one
\* for each O_CREAT | O_EXCL that was refused because it exists
\* (vfsfile.c:44-46): every other way through open, close, dup, fork, exec and
\* exit, the failing ones included, gives back what it took.  An inode is in
\* memory as long as it has a reference, and no longer.  No assertion about
\* counts and entries fails in any sequence of calls.
RefsAgree ==
    /\ panic # "assert"
    /\ panic = "none" =>
        \A n \in Inodes :
          /\ inode[n].open = Cardinality(Uses(n))
          /\ inode[n].ref = inode[n].open + Cardinality({ p \in Tables : fs[p].pwd = n })
                              + (IF n = File THEN 0 ELSE 1) + kept[n]
          /\ inode[n].reclaim = IF inode[n].ref > 0 THEN 1 ELSE 0
=============================================================================
