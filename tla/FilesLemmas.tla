---------------------------- MODULE FilesLemmas -----------------------------
(***************************************************************************)
(* What the functions of Files do to a state whose inodes have the counts  *)
(* the tables of open files give them: the counts of an inode, looking a   *)
(* path up, one entry of a table, opening a file; then the functions that  *)
(* go over a whole table: closing its entries (fs_closeall, fs_destroy),   *)
(* copying it for a child (dup_fs), and the tables that init_main starts   *)
(* from.                                                                   *)
(***************************************************************************)
EXTENDS Files, FiniteSetTheorems, WellFoundedInduction, TLAPS

\* Induction over the naturals, for a set of them.
LEMMA NatSetInduction ==
    ASSUME NEW T, 0 \in T, \A n \in Nat : n \in T => n + 1 \in T
    PROVE  Nat \subseteq T
<1> DEFINE U == Nat \ T
<1>1. SUFFICES ASSUME U # {} PROVE FALSE
    BY Zenon
<1>2. IsWellFoundedOn(OpToRel(<, Nat), Nat)
    BY NatLessThanWellFounded, Zenon
<1>3. U \subseteq Nat
    BY Zenon
<1> HIDE DEF U
<1>4. \E x \in U : \A y \in U : ~ (<<y, x>> \in OpToRel(<, Nat))
    BY <1>1, <1>2, <1>3, WFMin, Zenon
<1> USE DEF U
<1>5. PICK x \in U : \A y \in U : ~ (<<y, x>> \in OpToRel(<, Nat))
    BY <1>4, Zenon
<1>6. x # 0 /\ x - 1 \in Nat /\ x - 1 \notin U
    <2>1. x # 0 /\ x - 1 \in Nat
        OBVIOUS
    <2>2. x - 1 < x
        OBVIOUS
    <2> QED BY <2>1, <2>2, <1>5, Zenon DEF OpToRel
<1> QED BY <1>6
-----------------------------------------------------------------------------
St(f, i, z, q) == [fs |-> f, inode |-> i, size |-> z, panic |-> q]

Counts(o, r) == [ref |-> r, open |-> o, reclaim |-> IF r > 0 THEN 1 ELSE 0]
Copies(o, r) == [n \in Inodes |-> Counts(o[n], r[n])]

Inc(c, n) == [c EXCEPT ![n] = @ + 1]
Dec(c, n) == [c EXCEPT ![n] = @ - 1]

Fine(o, r) ==
    /\ o \in [Inodes -> Nat] /\ r \in [Inodes -> Nat]
    /\ \A n \in Inodes : o[n] <= r[n] /\ (n \in Devices => r[n] > 0)

Copy == [ref : Int, open : Int, reclaim : Int]

\* The parts of a state.
LEMMA Fields ==
    ASSUME NEW f, NEW i, NEW z, NEW q
    PROVE  /\ St(f, i, z, q).fs = f /\ St(f, i, z, q).inode = i
           /\ St(f, i, z, q).size = z /\ St(f, i, z, q).panic = q
           /\ \A x : SetSize(St(f, i, z, q), x) = St(f, i, x, q)
BY DEF St, SetSize

\* The copies of inodes have counts, open never above ref.
LEMMA CopiesType ==
    ASSUME NEW o, NEW r, Fine(o, r)
    PROVE  /\ Copies(o, r) \in [Inodes -> Copy]
           /\ \A n \in Inodes : /\ Copies(o, r)[n] = Counts(o[n], r[n])
                                /\ o[n] \in Nat /\ r[n] \in Nat /\ o[n] <= r[n]
BY DEF Copies, Fine, Counts, Copy

\* Setting the copy of n to other counts.
LEMMA SetCounts ==
    ASSUME NEW f, NEW o, NEW r, NEW z, NEW q, NEW n \in Inodes, Fine(o, r),
           NEW x \in Nat, NEW y \in Nat
    PROVE  SetInode(St(f, Copies(o, r), z, q), n, Counts(x, y)) =
             St(f, Copies([o EXCEPT ![n] = x], [r EXCEPT ![n] = y]), z, q)
<1>1. SetInode(St(f, Copies(o, r), z, q), n, Counts(x, y)) =
        St(f, [Copies(o, r) EXCEPT ![n] = Counts(x, y)], z, q)
  BY CopiesType DEF SetInode, St, Copy
<1>2. [Copies(o, r) EXCEPT ![n] = Counts(x, y)] =
        Copies([o EXCEPT ![n] = x], [r EXCEPT ![n] = y])
  BY Zenon DEF Copies, Fine
<1> QED BY <1>1, <1>2, Zenon

\* inode_ref_inc adds one to the reference count, and nothing else.
LEMMA RefInc ==
    ASSUME NEW f, NEW o, NEW r, NEW z, NEW q, NEW n \in Inodes, Fine(o, r)
    PROVE  /\ ref_inc(St(f, Copies(o, r), z, q), n) = St(f, Copies(o, Inc(r, n)), z, q)
           /\ Fine(o, Inc(r, n))
<1> DEFINE i == Copies(o, r)
           S == St(f, i, z, q)
<1>1. i[n] = Counts(o[n], r[n]) /\ o[n] \in Nat /\ r[n] \in Nat /\ o[n] <= r[n] /\ S.inode = i
  BY CopiesType, Fields
<1>2. ref_inc(S, n) = SetInode(S, n, Counts(o[n], r[n] + 1))
  <2> HIDE DEF S, i
  <2> QED BY <1>1 DEF Counts, ref_inc
<1>3. Fine(o, Inc(r, n)) /\ [o EXCEPT ![n] = o[n]] = o
  BY DEF Inc, Fine
<1> QED BY <1>1, <1>2, <1>3, SetCounts, SMT DEF Inc

\* inode_open_inc adds one to the open count.
LEMMA OpenInc ==
    ASSUME NEW f, NEW o, NEW r, NEW z, NEW q, NEW n \in Inodes, Fine(o, r)
    PROVE  open_inc(St(f, Copies(o, r), z, q), n) = St(f, Copies(Inc(o, n), r), z, q)
<1> DEFINE i == Copies(o, r)
           S == St(f, i, z, q)
<1>1. i[n] = Counts(o[n], r[n]) /\ o[n] \in Nat /\ r[n] \in Nat /\ o[n] <= r[n] /\ S.inode = i
  BY CopiesType, Fields
<1>2. open_inc(S, n) = SetInode(S, n, Counts(o[n] + 1, r[n]))
  <2> HIDE DEF S, i
  <2> QED BY <1>1 DEF Counts, open_inc
<1>3. [r EXCEPT ![n] = r[n]] = r
  BY Zenon DEF Fine
<1>4. o[n] + 1 \in Nat
  BY <1>1
<1>5. SetInode(S, n, Counts(o[n] + 1, r[n])) =
        St(f, Copies([o EXCEPT ![n] = o[n] + 1], [r EXCEPT ![n] = r[n]]), z, q)
  BY <1>1, <1>4, SetCounts
<1> QED BY <1>2, <1>3, <1>5, Zenon DEF Inc

\* inode_open_dec takes one from an open count that is not 0: its assertion
\* holds.
LEMMA OpenDec ==
    ASSUME NEW f, NEW o, NEW r, NEW z, NEW q, NEW n \in Inodes, Fine(o, r), o[n] > 0
    PROVE  /\ open_dec(St(f, Copies(o, r), z, q), n) = St(f, Copies(Dec(o, n), r), z, q)
           /\ Fine(Dec(o, n), r)
<1> DEFINE i == Copies(o, r)
           S == St(f, i, z, q)
<1>1. i[n] = Counts(o[n], r[n]) /\ o[n] \in Nat /\ r[n] \in Nat /\ o[n] <= r[n] /\ S.inode = i
  BY CopiesType, Fields
<1>2. open_dec(S, n) = SetInode(S, n, Counts(o[n] - 1, r[n]))
  <2> HIDE DEF S, i
  <2> QED BY <1>1 DEF Counts, open_dec, Assert
<1>3. [r EXCEPT ![n] = r[n]] = r /\ Fine(Dec(o, n), r)
  BY DEF Fine, Dec
<1>4. o[n] - 1 \in Nat
  BY <1>1
<1>5. SetInode(S, n, Counts(o[n] - 1, r[n])) =
        St(f, Copies([o EXCEPT ![n] = o[n] - 1], [r EXCEPT ![n] = r[n]]), z, q)
  BY <1>1, <1>4, SetCounts
<1> QED BY <1>2, <1>3, <1>5, Zenon DEF Dec

\* inode_check finds nothing wrong with counts that are fine.
LEMMA InodeCheck ==
    ASSUME NEW f, NEW o, NEW r, NEW z, NEW q, NEW n \in Inodes, Fine(o, r)
    PROVE  inode_check(St(f, Copies(o, r), z, q), n) = St(f, Copies(o, r), z, q)
<1> DEFINE i == Copies(o, r)
           S == St(f, i, z, q)
<1>1. i[n] = Counts(o[n], r[n]) /\ o[n] \in Nat /\ r[n] \in Nat /\ o[n] <= r[n] /\ S.inode = i
  BY CopiesType, Fields
<1>2. S.inode[n].ref >= S.inode[n].open /\ S.inode[n].open >= 0
  BY <1>1 DEF Counts
<1> HIDE DEF S
<1> QED BY <1>2, Zenon DEF inode_check, Assert, S

\* Calling an operation that the inode has changes no counts.
LEMMA VopHas ==
    ASSUME NEW f, NEW o, NEW r, NEW z, NEW q, NEW n \in Inodes, NEW op, Fine(o, r),
           HasOp(n, op) \/ q # "none"
    PROVE  Vop(St(f, Copies(o, r), z, q), n, op) = St(f, Copies(o, r), z, q)
<1> DEFINE S == St(f, Copies(o, r), z, q)
<1>1. S.panic = q
  BY Fields
<1>2. inode_check(S, n) = S
  BY InodeCheck
<1> QED BY <1>1, <1>2, Zenon DEF Vop

\* An operation of an inode: what it has not got stops the kernel.
LEMMA VopMissing ==
    ASSUME NEW f, NEW i, NEW z, NEW n, NEW op, ~ HasOp(n, op)
    PROVE  Vop(St(f, i, z, "none"), n, op) = St(f, i, z, op)
<1>1. [St(f, i, z, "none") EXCEPT !.panic = op] = St(f, i, z, op)
  BY DEF St
<1>2. St(f, i, z, "none").panic = "none"
  BY Zenon DEF St
<1> QED BY <1>1, <1>2, Zenon DEF Vop

\* inode_ref_dec takes one from the reference count; the copy goes with the
\* last.
LEMMA RefDec ==
    ASSUME NEW f, NEW o, NEW r, NEW z, NEW q, NEW n \in Inodes,
           Fine(o, r), Fine(o, Dec(r, n))
    PROVE  ref_dec(St(f, Copies(o, r), z, q), n) = St(f, Copies(o, Dec(r, n)), z, q)
<1> DEFINE i == Copies(o, r)
           S == St(f, i, z, q)
           less == SetInode(S, n, [Counts(o[n], r[n]) EXCEPT !.ref = r[n] - 1])
<1>1. i[n] = Counts(o[n], r[n]) /\ o[n] \in Nat /\ r[n] \in Nat /\ o[n] <= r[n] - 1 /\ S.inode = i
        /\ (n \in Devices => r[n] > 1) /\ S.panic = q
  BY CopiesType, Fields DEF Fine, Dec
<1>2. S = Assert(S, i[n].ref > 0)
  <2> HIDE DEF S, i
  <2> QED BY <1>1 DEF Assert, Counts
<1>3. [o EXCEPT ![n] = o[n]] = o
  BY Zenon DEF Fine
<1>4. CASE r[n] > 1
  <2>1. ref_dec(S, n) = SetInode(S, n, Counts(o[n], r[n] - 1))
    <3> HIDE DEF S, i
    <3> QED BY <1>1, <1>2, <1>4 DEF Counts, ref_dec
  <2> QED BY <1>1, <1>3, <1>4, <2>1, SetCounts DEF Dec
<1>5. CASE r[n] = 1
  <2> DEFINE c == [ref |-> 0, open |-> 0, reclaim |-> 1]
             T == St(f, [i EXCEPT ![n] = c], z, q)
  <2>1. ref_dec(S, n) = sfs_reclaim(Vop(SetInode(S, n, c), n, "reclaim"), n)
    <3>1. [Counts(o[n], r[n]) EXCEPT !.ref = Counts(o[n], r[n]).ref - 1] = c /\ Counts(o[n], r[n]).ref = 1
      BY <1>1, <1>5 DEF Counts
    <3> HIDE DEF S, i, c
    <3> QED BY <1>1, <1>2, <3>1, Zenon DEF ref_dec
  <2>2. SetInode(S, n, c) = T
    BY <1>1, CopiesType DEF SetInode, St
  <2>3. T.inode[n] = c /\ T.panic = q
    BY <1>1, CopiesType, Fields
  <2>4. Vop(T, n, "reclaim") = T
    <3> HIDE DEF T
    <3>1. HasOp(n, "reclaim")
      BY <1>1, <1>5 DEF HasOp, Inodes, Devices, Root, File, Stdin, Stdout
    <3> QED BY <2>3, <3>1 DEF Vop, inode_check, Assert
  <2>5. sfs_reclaim(T, n) = SetInode(T, n, NotLoaded)
    <3> HIDE DEF T
    <3> QED BY <2>3 DEF sfs_reclaim, Assert
  <2>6. SetInode(T, n, NotLoaded) = SetInode(S, n, NotLoaded)
    BY CopiesType DEF SetInode, St
  <2>7. NotLoaded = Counts(o[n], r[n] - 1)
    BY <1>1, <1>5 DEF NotLoaded, Counts
  <2> QED BY <1>1, <1>3, <1>5, <2>1, <2>2, <2>4, <2>5, <2>6, <2>7, SetCounts DEF Dec
<1> QED BY <1>1, <1>4, <1>5
-----------------------------------------------------------------------------
\* Closing gives back what opening took.
LEMMA VfsClose ==
    ASSUME NEW f, NEW o, NEW r, NEW z, NEW q, NEW n \in Inodes,
           Fine(o, r), Fine(Dec(o, n), Dec(r, n))
    PROVE  vfs_close(St(f, Copies(o, r), z, q), n) =
             St(f, Copies(Dec(o, n), Dec(r, n)), z, q)
<1>1. o[n] > 0
  BY DEF Fine, Dec
<1> QED BY <1>1, OpenDec, RefDec DEF vfs_close

\* Giving back what was taken, at once or after another was taken.
LEMMA IncDec ==
    ASSUME NEW r \in [Inodes -> Nat], NEW n \in Inodes
    PROVE  /\ Dec(Inc(r, n), n) = r
           /\ \A m \in Inodes : Dec(Inc(Inc(r, n), m), n) = Inc(r, m)
<1>1. Inc(r, n) \in [Inodes -> Nat] /\ \A m \in Inodes : Inc(Inc(r, n), m) \in [Inodes -> Nat]
  BY DEF Inc
<1>2. Dec(Inc(r, n), n) = r
  <2>1. Dec(Inc(r, n), n) = [m \in Inodes |-> r[m]]
    BY <1>1 DEF Inc, Dec
  <2> QED BY <2>1, Zenon
<1>3. ASSUME NEW m \in Inodes PROVE Dec(Inc(Inc(r, n), m), n) = Inc(r, m)
  BY <1>1 DEF Inc, Dec
<1> QED BY <1>2, <1>3, Zenon

Lookup(f, o, r, z, q, l, nodes) ==
    \/ l = Fails(St(f, Copies(o, r), z, q))
    \/ \E n \in nodes : l = [S |-> St(f, Copies(o, Inc(r, n)), z, q), node |-> n]

\* A lookup that failed.
LEMMA FailsParts == \A S : Fails(S).node = "none" /\ Fails(S).S = S
BY Zenon DEF Fails

Dirs == {Root} \cup Devices

\* A lookup that found n has taken a reference to it.
LEMMA Finds ==
    ASSUME NEW f, NEW o, NEW r, NEW z, NEW q, NEW n \in Inodes, Fine(o, r)
    PROVE  Found(St(f, Copies(o, r), z, q), n) =
             [S |-> St(f, Copies(o, Inc(r, n)), z, q), node |-> n]
BY RefInc DEF Found

\* The devices that vfs_add_dev registers at boot.
LEMMA VdevList ==
    vdev_list = {[devname |-> "stdin:", devnode |-> Stdin, mountable |-> FALSE, fs |-> "none"],
                 [devname |-> "stdout:", devnode |-> Stdout, mountable |-> FALSE, fs |-> "none"],
                 [devname |-> "disk0:", devnode |-> "disk0", mountable |-> TRUE, fs |-> Root]}
<1> DEFINE a == [devname |-> "stdin:", devnode |-> Stdin, mountable |-> FALSE, fs |-> "none"]
           b == [devname |-> "stdout:", devnode |-> Stdout, mountable |-> FALSE, fs |-> "none"]
           c == [devname |-> "disk0:", devnode |-> "disk0", mountable |-> TRUE, fs |-> "none"]
           d == [devname |-> "disk0:", devnode |-> "disk0", mountable |-> TRUE, fs |-> Root]
<1>1. dev_init_stdin({}) = {a}
  BY Zenon DEF dev_init_stdin, vfs_do_add
<1>2. dev_init_stdout({a}) = {a, b}
  BY DEF dev_init_stdout, vfs_do_add
<1>3. dev_init_disk0({a, b}) = {a, b, c}
  BY DEF dev_init_disk0, vfs_do_add
<1>4. [c EXCEPT !.fs = Root] = d
  <2>1. \A x, y, m : [[devname |-> x, devnode |-> y, mountable |-> m, fs |-> "none"] EXCEPT !.fs = Root]
                        = [devname |-> x, devnode |-> y, mountable |-> m, fs |-> Root]
    OBVIOUS
  <2> QED BY <2>1, Zenon
<1>5. a.devname = "stdin:" /\ b.devname = "stdout:" /\ c.devname = "disk0:"
        /\ c.mountable /\ c.fs = "none"
  BY Zenon
<1> HIDE DEF a, b, c, d
<1>6. vfs_mount({a, b, c}, "disk0:", Root) = {a, b, d}
  BY <1>4, <1>5, Zenon DEF vfs_mount
<1> QED BY <1>1, <1>2, <1>3, <1>6, Zenon DEF vdev_list, dev_init, a, b, d

\* The inodes are all different.
LEMMA NodesAreInodes ==
    /\ Root \in Inodes /\ File \in Inodes /\ Devices \subseteq Inodes /\ Dirs \subseteq Inodes
    /\ Root \in Dirs /\ Root \notin Devices /\ "none" \notin Inodes /\ File \notin Dirs
    /\ Root # "none" /\ Root # File /\ File \notin Devices
BY Zenon DEF Inodes, Dirs, Devices, Root, File, Stdin, Stdout

\* Every process, and init, has a table.
LEMMA ProcsAreTables ==
    Procs \subseteq Tables /\ initproc \in Tables \ Procs /\ FirstProc \in Procs
    /\ NoFd \notin Fds
BY FilesAssumption DEF Tables, NoFd, Fds

\* vfs_get_root takes one reference, to the root it returns.
LEMMA GetRoot ==
    ASSUME NEW f, NEW o, NEW r, NEW z, NEW q, NEW devname, Fine(o, r)
    PROVE  Lookup(f, o, r, z, q, vfs_get_root(St(f, Copies(o, r), z, q), devname), Dirs)
<1> DEFINE S == St(f, Copies(o, r), z, q)
           v == CHOOSE v \in vdev_list : v.devname = devname
<1>1. ASSUME NEW w \in vdev_list
      PROVE  w.fs = Root \/ (w.fs = "none" /\ ~ w.mountable /\ w.devnode \in Devices)
  BY VdevList, SMTT(30) DEF Devices
<1>2. ASSUME NEW n \in Dirs PROVE Lookup(f, o, r, z, q, Found(S, n), Dirs)
  BY NodesAreInodes, Finds DEF Lookup
<1>3. CASE \A w \in vdev_list : w.devname # devname
  BY <1>3, Zenon DEF vfs_get_root, Lookup
<1>4. CASE \E w \in vdev_list : w.devname = devname
  <2>1. v \in vdev_list
    BY <1>4, Zenon
  <2>2. CASE v.fs = Root
    <3>1. vfs_get_root(S, devname) = Found(S, Root)
      BY <1>4, <2>2, NodesAreInodes, Zenon DEF vfs_get_root
    <3> QED BY <1>2, <3>1, NodesAreInodes, Zenon
  <2>3. CASE v.fs = "none" /\ ~ v.mountable /\ v.devnode \in Devices
    <3>1. vfs_get_root(S, devname) = Found(S, v.devnode)
      BY <1>4, <2>3, Zenon DEF vfs_get_root
    <3> QED BY <1>2, <2>3, <3>1, Zenon DEF Dirs
  <2> QED BY <1>1, <2>1, <2>2, <2>3, Zenon
<1> QED BY <1>3, <1>4, Zenon

\* A lookup that lets go of the directory it started from.
LEMMA Leaves ==
    ASSUME NEW f, NEW o, NEW r, NEW z, NEW q, NEW n \in Inodes, NEW nodes \in SUBSET Inodes,
           NEW l, Fine(o, r), Lookup(f, o, Inc(r, n), z, q, l, nodes)
    PROVE  Lookup(f, o, r, z, q, Leaving(n, l), nodes)
<1>0. r \in [Inodes -> Nat] /\ Fine(o, Inc(r, n))
  BY RefInc, Zenon DEF Fine
<1>1. CASE l = Fails(St(f, Copies(o, Inc(r, n)), z, q))
  <2>1. ref_dec(St(f, Copies(o, Inc(r, n)), z, q), n) = St(f, Copies(o, r), z, q)
    BY <1>0, IncDec, RefDec
  <2> QED BY <1>1, <2>1, Zenon DEF Leaving, Fails, Lookup
<1>2. CASE \E m \in nodes : l = [S |-> St(f, Copies(o, Inc(Inc(r, n), m)), z, q), node |-> m]
  <2>1. PICK m \in nodes : l = [S |-> St(f, Copies(o, Inc(Inc(r, n), m)), z, q), node |-> m]
    BY <1>2, Zenon
  <2>2. Fine(o, Inc(Inc(r, n), m)) /\ Fine(o, Inc(r, m))
    BY <1>0, RefInc, Zenon
  <2>3. ref_dec(St(f, Copies(o, Inc(Inc(r, n), m)), z, q), n) = St(f, Copies(o, Inc(r, m)), z, q)
    BY <1>0, <2>2, IncDec, RefDec
  <2> QED BY <2>1, <2>3, Zenon DEF Leaving, Lookup
<1> QED BY <1>1, <1>2, Zenon DEF Lookup

\* Where a path starts: at a directory or a device, with one more reference to it.
LEMMA GetDevice ==
    ASSUME NEW f, NEW o, NEW r, NEW z, NEW q, NEW p, NEW start, Fine(o, r),
           f[p].pwd \in {"none", Root}
    PROVE  Lookup(f, o, r, z, q, get_device(St(f, Copies(o, r), z, q), p, start), Dirs)
<1> DEFINE S == St(f, Copies(o, r), z, q)
           cwd == vfs_get_curdir(S, p)
<1>1. S.fs = f
  BY Fields
<1>2. Lookup(f, o, r, z, q, Found(S, Root), Dirs)
  BY NodesAreInodes, Finds DEF Lookup
<1>3. IF f[p].pwd = "none" THEN cwd = Fails(S) ELSE cwd = Found(S, Root)
  <2> HIDE DEF S
  <2> QED BY <1>1, Zenon DEF vfs_get_curdir
<1>4. Lookup(f, o, r, z, q, cwd, Dirs)
  BY <1>2, <1>3, Zenon DEF Lookup
<1>5. Lookup(f, o, r, z, q, RootOf(cwd), Dirs)
  <2>1. CASE f[p].pwd = "none"
    BY <1>3, <1>4, <2>1 DEF RootOf, Fails
  <2>2. CASE f[p].pwd # "none"
    <3> DEFINE T == St(f, Copies(o, Inc(r, Root)), z, q)
    <3>1. cwd = [S |-> T, node |-> Root]
      BY <1>3, <2>2, NodesAreInodes, Finds
    <3>2. RootOf(cwd) = Leaving(Root, Found(T, Root))
      BY <3>1, NodesAreInodes DEF RootOf
    <3>3. Lookup(f, o, Inc(r, Root), z, q, Found(T, Root), Dirs)
      BY NodesAreInodes, Finds, RefInc DEF Lookup
    <3> QED BY <3>2, <3>3, NodesAreInodes, Leaves, Zenon
  <2> QED BY <2>1, <2>2, Zenon
<1>6. Lookup(f, o, r, z, q, vfs_get_root(S, start), Dirs)
  BY GetRoot, Zenon
<1> HIDE DEF S
<1> QED BY <1>2, <1>4, <1>5, <1>6, Zenon DEF get_device, vfs_get_bootfs, S

\* A lookup has a reference to what it found, and to nothing else.
LEMMA VfsLookup ==
    ASSUME NEW f, NEW o, NEW r, NEW z, NEW q, NEW p, NEW path, Fine(o, r),
           f[p].pwd \in {"none", Root}
    PROVE  Lookup(f, o, r, z, q, vfs_lookup(St(f, Copies(o, r), z, q), p, path), Inodes)
<1> DEFINE S == St(f, Copies(o, r), z, q)
           d == get_device(S, p, path.start)
<1>1. Lookup(f, o, r, z, q, d, Dirs)
  BY GetDevice, Zenon
<1>2. vfs_lookup(S, p, path) = LookupFrom(d, path.name)
  BY Zenon DEF vfs_lookup
<1> SUFFICES Lookup(f, o, r, z, q, LookupFrom(d, path.name), Inodes)
  BY <1>2, Zenon
<1> HIDE DEF d
<1>4. CASE d.node = "none" \/ path.name = ""
  BY <1>1, <1>4, NodesAreInodes, Zenon DEF LookupFrom, Lookup
<1>3. CASE d.node # "none" /\ path.name # ""
  <2>1. PICK n \in Dirs : d = [S |-> St(f, Copies(o, Inc(r, n)), z, q), node |-> n]
    <3>1. d # Fails(S)
      BY <1>3, FailsParts, Zenon
    <3> QED BY <1>1, <3>1, Zenon DEF Lookup
  <2> DEFINE T == St(f, Copies(o, Inc(r, n)), z, q)
  <2>2. n \in Inodes /\ Fine(o, Inc(r, n))
    BY NodesAreInodes, RefInc, Zenon
  <2>3. HasOp(n, "lookup")
    BY Zenon DEF HasOp, Dirs, Root, Devices, Stdin, Stdout
  <2>4. Vop(d.S, d.node, "lookup") = T
    <3>1. Vop(T, n, "lookup") = T
      BY <2>2, <2>3, VopHas
    <3> QED BY <2>1, <3>1, ZenonT(30)
  <2>5. Lookup(f, o, Inc(r, n), z, q, vop_lookup(T, n, path.name), Inodes)
    <3>1. CASE n \in Devices
      BY <1>3, <3>1, Zenon DEF vop_lookup, dev_lookup, Lookup
    <3>2. CASE n \notin Devices
      <4> DEFINE U == ref_inc(T, n)
      <4>1. U = St(f, Copies(o, Inc(Inc(r, n), n)), z, q) /\ Fine(o, Inc(Inc(r, n), n))
        BY <2>2, RefInc
      <4>2. Lookup(f, o, Inc(Inc(r, n), n), z, q, sfs_lookup_once(U, path.name), Inodes)
        BY <4>1, NodesAreInodes, Finds DEF sfs_lookup_once, Lookup
      <4> QED BY <2>2, <3>2, <4>2, Leaves, Zenon DEF vop_lookup, sfs_lookup
    <3> QED BY <3>1, <3>2, Zenon
  <2>6. LookupFrom(d, path.name) = Leaving(n, vop_lookup(T, n, path.name))
    BY <1>3, <2>1, <2>4, Zenon DEF LookupFrom
  <2> QED BY <2>2, <2>5, <2>6, Leaves, Zenon
<1> QED BY <1>3, <1>4, Zenon
-----------------------------------------------------------------------------
EntryOK(e) ==
    /\ e = [status |-> e.status, node |-> e.node, pos |-> e.pos, readable |-> e.readable,
            writable |-> e.writable, open_count |-> e.open_count]
    /\ \/ e = FD_NONE
       \/ e.status = "FD_OPENED" /\ e.node \in Inodes /\ e.open_count \in Nat \ {0}

\* An open entry, and one that no call is using.
IsOpen(e) == e.status = "FD_OPENED"
Ready(e) == e.status = "FD_OPENED" /\ e.open_count = 1

TableOK(t) ==
    /\ t = [live |-> t.live, pwd |-> t.pwd, filemap |-> t.filemap]
    /\ t.pwd \in {"none", Root}
    /\ t.filemap = [fd \in Fds |-> t.filemap[fd]]
    /\ \A fd \in Fds : EntryOK(t.filemap[fd])

FsOK(f) == f = [p \in Tables |-> f[p]] /\ \A p \in Tables : TableOK(f[p])

UsesOf(f, n) == { u \in Tables \X Fds : /\ f[u[1]].filemap[u[2]].status # "FD_NONE"
                                        /\ f[u[1]].filemap[u[2]].node = n }

DirsOf(f, L, n) == { p \in Tables \ L : f[p].pwd = n }

O(f) == [n \in Inodes |-> Cardinality(UsesOf(f, n))]

\* K says how many references to an inode have been kept.
KeptOf(K, n) == IF K[n] \in Nat THEN K[n] ELSE 0
R(f, L, K) == [n \in Inodes |-> Cardinality(UsesOf(f, n)) + Cardinality(DirsOf(f, L, n))
                                  + (IF n = File THEN 0 ELSE 1) + KeptOf(K, n)]

\* It is a number.
LEMMA KeptNat == ASSUME NEW K, NEW n PROVE KeptOf(K, n) \in Nat
BY DEF KeptOf

Put(f, p, fd, e) ==
    [x \in Tables |-> IF x = p
        THEN [live |-> f[p].live, pwd |-> f[p].pwd,
              filemap |-> [k \in Fds |-> IF k = fd THEN e ELSE f[p].filemap[k]]]
        ELSE f[x]]

\* The entries and the directories that refer to an inode are finitely many.
LEMMA FiniteUses ==
    ASSUME NEW f, NEW L, NEW n
    PROVE  /\ IsFiniteSet(UsesOf(f, n)) /\ Cardinality(UsesOf(f, n)) \in Nat
           /\ IsFiniteSet(DirsOf(f, L, n)) /\ Cardinality(DirsOf(f, L, n)) \in Nat
<1>1. IsFiniteSet(Tables)
  BY FilesAssumption, FS_AddElement, Zenon DEF Tables
<1>2. IsFiniteSet(Fds)
  <2>1. NENTRY - 1 \in Int
    BY FilesAssumption
  <2> QED BY <2>1, FS_Interval DEF Fds
<1>3. IsFiniteSet(Tables \X Fds)
  BY <1>1, <1>2, FS_Product, Zenon
<1>4. UsesOf(f, n) \in SUBSET (Tables \X Fds)
  BY Zenon DEF UsesOf
<1>5. DirsOf(f, L, n) \in SUBSET Tables
  BY Zenon DEF DirsOf
<1> QED BY <1>1, <1>3, <1>4, <1>5, FS_Subset, FS_CardinalityType, Zenon

\* The counts the tables give are ones the kernel can work with.
LEMMA CountsFine ==
    ASSUME NEW f, NEW L, NEW K
    PROVE  Fine(O(f), R(f, L, K)) /\ \A n \in Dirs : R(f, L, K)[n] > O(f)[n]
<1>1. ASSUME NEW n \in Inodes
      PROVE  /\ O(f)[n] \in Nat /\ R(f, L, K)[n] \in Nat /\ O(f)[n] <= R(f, L, K)[n]
             /\ n # File => R(f, L, K)[n] > O(f)[n]
  <2> DEFINE u == Cardinality(UsesOf(f, n))
             d == Cardinality(DirsOf(f, L, n))
             k == KeptOf(K, n)
  <2>1. u \in Nat /\ d \in Nat /\ k \in Nat
    BY FiniteUses, KeptNat, Zenon
  <2>2. O(f)[n] = u /\ R(f, L, K)[n] = u + d + (IF n = File THEN 0 ELSE 1) + k
    BY Zenon DEF O, R
  <2> HIDE DEF u, d, k
  <2> QED BY <2>1, <2>2
<1>2. O(f) = [n \in Inodes |-> O(f)[n]] /\ R(f, L, K) = [n \in Inodes |-> R(f, L, K)[n]]
  BY Zenon DEF O, R
<1>3. O(f) \in [Inodes -> Nat] /\ R(f, L, K) \in [Inodes -> Nat]
  BY <1>1, <1>2, Zenon
<1>4. \A n \in Inodes : (n \in Devices \/ n \in Dirs) => n # File
  BY NodesAreInodes DEF Dirs
<1>5. \A n \in Devices \cup Dirs : n \in Inodes /\ R(f, L, K)[n] > O(f)[n]
  BY <1>1, <1>4, NodesAreInodes, Zenon DEF Dirs
<1>6. \A n \in Devices : R(f, L, K)[n] > 0
  BY <1>1, <1>5
<1> QED BY <1>1, <1>3, <1>5, <1>6, Zenon DEF Fine

\* One more reference is kept.
OneMore(K, M, x) == K \in [Inodes -> Nat] /\ M = [K EXCEPT ![x] = @ + 1]

LEMMA KeepsOne ==
    ASSUME NEW f, NEW L, NEW K, NEW M, NEW x \in Inodes, OneMore(K, M, x)
    PROVE  R(f, L, M) = Inc(R(f, L, K), x)
<1>1. \A n \in Inodes : KeptOf(M, n) = KeptOf(K, n) + IF n = x THEN 1 ELSE 0
  BY DEF KeptOf, OneMore
<1>2. R(f, L, K) \in [Inodes -> Nat]
  BY CountsFine, Zenon DEF Fine
<1>3. ASSUME NEW n \in Inodes
      PROVE  R(f, L, M)[n] = IF n = x THEN R(f, L, K)[n] + 1 ELSE R(f, L, K)[n]
  <2> DEFINE u == Cardinality(UsesOf(f, n))
             d == Cardinality(DirsOf(f, L, n))
             k == KeptOf(K, n)
  <2>1. u \in Nat /\ d \in Nat /\ k \in Nat
    BY FiniteUses, KeptNat, Zenon
  <2>2. /\ R(f, L, K)[n] = u + d + (IF n = File THEN 0 ELSE 1) + k
        /\ R(f, L, M)[n] = u + d + (IF n = File THEN 0 ELSE 1) + (k + IF n = x THEN 1 ELSE 0)
    BY <1>1, Zenon DEF R
  <2> HIDE DEF u, d, k
  <2> QED BY <2>1, <2>2
<1>4. R(f, L, M) = [n \in Inodes |-> R(f, L, M)[n]]
  BY Zenon DEF R
<1> QED BY <1>2, <1>3, <1>4, Zenon DEF Inc

\* What Put changes and what it leaves alone.
LEMMA PutOK ==
    ASSUME NEW f, NEW p \in Tables, NEW fd \in Fds, NEW e, FsOK(f), EntryOK(e)
    PROVE  /\ FsOK(Put(f, p, fd, e))
           /\ \A x \in Tables : /\ Put(f, p, fd, e)[x].live = f[x].live
                                /\ Put(f, p, fd, e)[x].pwd = f[x].pwd
           /\ \A x \in Tables, k \in Fds : Put(f, p, fd, e)[x].filemap[k] =
                IF x = p /\ k = fd THEN e ELSE f[x].filemap[k]
           /\ \A x \in Tables \ {p} : Put(f, p, fd, e)[x] = f[x]
<1> DEFINE g == Put(f, p, fd, e)
           t == [live |-> f[p].live, pwd |-> f[p].pwd,
                 filemap |-> [k \in Fds |-> IF k = fd THEN e ELSE f[p].filemap[k]]]
<1>1. g[p] = t /\ \A x \in Tables \ {p} : g[x] = f[x]
  BY Zenon DEF Put
<1>2. TableOK(t)
  BY Zenon DEF FsOK, TableOK
<1>3. FsOK(g)
  BY <1>1, <1>2, Zenon DEF FsOK, Put
<1> HIDE DEF g
<1> QED BY <1>1, <1>3 DEF g

\* SetEntry is Put, of the tables of a state.
LEMMA SetEntryPut ==
    ASSUME NEW f, NEW i, NEW z, NEW q, NEW p \in Tables, NEW fd \in Fds, NEW e, FsOK(f)
    PROVE  SetEntry(St(f, i, z, q), p, fd, e) = St(Put(f, p, fd, e), i, z, q)
<1> DEFINE t == f[p]
           u == [live |-> t.live, pwd |-> t.pwd,
                 filemap |-> [k \in Fds |-> IF k = fd THEN e ELSE t.filemap[k]]]
<1>1. t = [live |-> t.live, pwd |-> t.pwd, filemap |-> t.filemap]
        /\ t.filemap = [k \in Fds |-> t.filemap[k]] /\ f = [x \in Tables |-> f[x]]
  BY Zenon DEF FsOK, TableOK
<1>2. [t.filemap EXCEPT ![fd] = e] = [k \in Fds |-> IF k = fd THEN e ELSE t.filemap[k]]
  BY <1>1, Zenon
<1>3. [t EXCEPT !.filemap = [t.filemap EXCEPT ![fd] = e]] = u
  BY <1>1, <1>2
<1>4. [f EXCEPT ![p] = u] = Put(f, p, fd, e)
  BY <1>1, Zenon DEF Put
<1>5. SetEntry(St(f, i, z, q), p, fd, e) =
        St([f EXCEPT ![p] = [t EXCEPT !.filemap = [t.filemap EXCEPT ![fd] = e]]], i, z, q)
  BY DEF SetEntry, St
<1> QED BY <1>3, <1>4, <1>5, Zenon

\* The unused entry.
LEMMA NoneIsFree == FD_NONE.status = "FD_NONE" /\ EntryOK(FD_NONE)
BY Zenon DEF FD_NONE, EntryOK

\* Opening an unused entry.
LEMMA PutOpened ==
    ASSUME NEW f, NEW L, NEW K, NEW p \in Tables, NEW fd \in Fds, NEW e, FsOK(f),
           f[p].filemap[fd] = FD_NONE, EntryOK(e), IsOpen(e)
    PROVE  /\ O(Put(f, p, fd, e)) = Inc(O(f), e.node)
           /\ R(Put(f, p, fd, e), L, K) = Inc(R(f, L, K), e.node)
<1> DEFINE g == Put(f, p, fd, e)
<1>1. /\ \A x \in Tables : g[x].pwd = f[x].pwd
      /\ \A x \in Tables, k \in Fds : g[x].filemap[k] =
                IF x = p /\ k = fd THEN e ELSE f[x].filemap[k]
  BY PutOK
<1> HIDE DEF g
<1>2. ASSUME NEW n \in Inodes PROVE DirsOf(g, L, n) = DirsOf(f, L, n)
  BY <1>1, Zenon DEF DirsOf
<1>3. UsesOf(g, e.node) = UsesOf(f, e.node) \cup {<<p, fd>>} /\ <<p, fd>> \notin UsesOf(f, e.node)
  BY <1>1, NoneIsFree, SMTT(30) DEF UsesOf, IsOpen
<1>4. ASSUME NEW n \in Inodes, n # e.node PROVE UsesOf(g, n) = UsesOf(f, n)
  BY <1>1, <1>4, NoneIsFree, SMTT(30) DEF UsesOf
<1>5. Cardinality(UsesOf(g, e.node)) = Cardinality(UsesOf(f, e.node)) + 1
  BY <1>3, FiniteUses, FS_AddElement, Zenon
<1>6. O(f) \in [Inodes -> Nat] /\ R(f, L, K) \in [Inodes -> Nat]
  BY CountsFine, Zenon DEF Fine
<1>7. O(g) = Inc(O(f), e.node)
  BY <1>4, <1>5, <1>6, Zenon DEF O, Inc
<1>8. R(g, L, K) = Inc(R(f, L, K), e.node)
  BY <1>2, <1>4, <1>5, <1>6, FiniteUses, KeptNat DEF R, Inc
<1> QED BY <1>7, <1>8, Zenon DEF g

\* Freeing one that is open.
LEMMA PutNone ==
    ASSUME NEW f, NEW L, NEW K, NEW p \in Tables, NEW fd \in Fds, FsOK(f),
           f[p].filemap[fd].status = "FD_OPENED"
    PROVE  /\ O(Put(f, p, fd, FD_NONE)) = Dec(O(f), f[p].filemap[fd].node)
           /\ R(Put(f, p, fd, FD_NONE), L, K) = Dec(R(f, L, K), f[p].filemap[fd].node)
<1> DEFINE g == Put(f, p, fd, FD_NONE)
           e == f[p].filemap[fd]
<1>1. /\ \A x \in Tables : g[x].pwd = f[x].pwd
      /\ \A x \in Tables, k \in Fds : g[x].filemap[k] =
                IF x = p /\ k = fd THEN FD_NONE ELSE f[x].filemap[k]
  BY PutOK, NoneIsFree
<1> HIDE DEF g
<1>2. ASSUME NEW n \in Inodes PROVE DirsOf(g, L, n) = DirsOf(f, L, n)
  BY <1>1, Zenon DEF DirsOf
<1>3. UsesOf(g, e.node) = UsesOf(f, e.node) \ {<<p, fd>>} /\ <<p, fd>> \in UsesOf(f, e.node)
  BY <1>1, NoneIsFree, SMTT(30) DEF UsesOf
<1>4. ASSUME NEW n \in Inodes, n # e.node PROVE UsesOf(g, n) = UsesOf(f, n)
  BY <1>1, <1>4, NoneIsFree, SMTT(30) DEF UsesOf
<1>5. Cardinality(UsesOf(g, e.node)) = Cardinality(UsesOf(f, e.node)) - 1
  BY <1>3, FiniteUses, FS_RemoveElement, SMTT(30)
<1>6. O(f) \in [Inodes -> Nat] /\ R(f, L, K) \in [Inodes -> Nat]
  BY CountsFine, Zenon DEF Fine
<1>7. O(g) = Dec(O(f), e.node)
  BY <1>4, <1>5, <1>6, Zenon DEF O, Dec
<1>8. R(g, L, K) = Dec(R(f, L, K), e.node)
  BY <1>2, <1>4, <1>5, <1>6, FiniteUses, KeptNat DEF R, Dec
<1> QED BY <1>7, <1>8, Zenon DEF g

\* Changing one that stays open on the same inode.
LEMMA PutSame ==
    ASSUME NEW f, NEW L, NEW K, NEW p \in Tables, NEW fd \in Fds, NEW e, FsOK(f), EntryOK(e),
           f[p].filemap[fd].status = "FD_OPENED", e.status = "FD_OPENED",
           e.node = f[p].filemap[fd].node
    PROVE  O(Put(f, p, fd, e)) = O(f) /\ R(Put(f, p, fd, e), L, K) = R(f, L, K)
<1> DEFINE g == Put(f, p, fd, e)
<1>1. /\ \A x \in Tables : g[x].pwd = f[x].pwd
      /\ \A x \in Tables, k \in Fds : g[x].filemap[k] =
                IF x = p /\ k = fd THEN e ELSE f[x].filemap[k]
  BY PutOK
<1> HIDE DEF g
<1>2. ASSUME NEW n \in Inodes PROVE DirsOf(g, L, n) = DirsOf(f, L, n)
  BY <1>1, Zenon DEF DirsOf
<1>3. ASSUME NEW n \in Inodes PROVE UsesOf(g, n) = UsesOf(f, n)
  BY <1>1, SMTT(30) DEF UsesOf
<1> QED BY <1>2, <1>3, Zenon DEF g, O, R
-----------------------------------------------------------------------------
Whole(f, L, K, z, q) == St(f, Copies(O(f), R(f, L, K)), z, q)

\* The entries of a whole state are those of its tables.
LEMMA WholeEntry ==
    ASSUME NEW f, NEW L, NEW K, NEW z, NEW q, NEW p, NEW fd
    PROVE  /\ Entry(Whole(f, L, K, z, q), p, fd) = f[p].filemap[fd]
           /\ Whole(f, L, K, z, q).fs = f /\ Whole(f, L, K, z, q).panic = q
           /\ Whole(f, L, K, z, q).size = z
BY Fields DEF Whole, Entry

\* An entry of a table is unused, or open on an inode with a count above 0.
LEMMA OpenedOK ==
    ASSUME NEW f, NEW p \in Tables, NEW fd \in Fds, FsOK(f)
    PROVE  /\ EntryOK(f[p].filemap[fd])
           /\ f[p].filemap[fd].status = "FD_OPENED" <=> f[p].filemap[fd] # FD_NONE
           /\ f[p].filemap[fd].status = "FD_NONE" <=> f[p].filemap[fd] = FD_NONE
           /\ f[p].filemap[fd] # FD_NONE =>
                f[p].filemap[fd].node \in Inodes /\ f[p].filemap[fd].open_count \in Nat \ {0}
BY NoneIsFree, Zenon DEF FsOK, TableOK, EntryOK

\* filemap_close of an entry that only its process holds lets go of the inode.
LEMMA Closes ==
    ASSUME NEW f, NEW L, NEW K, NEW z, NEW q, NEW p \in Tables, NEW fd \in Fds, FsOK(f),
           Ready(f[p].filemap[fd])
    PROVE  filemap_close(Whole(f, L, K, z, q), p, fd) = Whole(Put(f, p, fd, FD_NONE), L, K, z, q)
<1> DEFINE e == f[p].filemap[fd]
           g == Put(f, p, fd, FD_NONE)
           S == Whole(f, L, K, z, q)
           c == [e EXCEPT !.status = "FD_CLOSED"]
<1>1. e \in [status : {"FD_OPENED"}, node : Inodes, pos : {e.pos}, readable : {e.readable},
             writable : {e.writable}, open_count : {1}]
  <2>1. EntryOK(e) /\ e.node \in Inodes
    BY OpenedOK, Zenon DEF Ready
  <2>2. e = [status |-> e.status, node |-> e.node, pos |-> e.pos, readable |-> e.readable,
             writable |-> e.writable, open_count |-> e.open_count]
    BY <2>1, Zenon DEF EntryOK
  <2> HIDE DEF e
  <2>3. e.status = "FD_OPENED" /\ e.open_count = 1
    BY Zenon DEF e, Ready
  <2> QED BY <2>1, <2>2, <2>3, Zenon
<1>2. c.status = "FD_CLOSED" /\ c.node = e.node /\ c.open_count = 1 /\ e.node \in Inodes
  <2> HIDE DEF e
  <2> QED BY <1>1, Zenon
<1>3. Entry(S, p, fd) = e
  BY WholeEntry
<1>4. Assert(S, e.status = "FD_OPENED" /\ e.open_count > 0) = S
  <2>1. e.open_count > 0
    BY DEF Ready
  <2> QED BY <2>1, Zenon DEF Assert, Ready
<1>5. vfs_close(S, e.node) = St(f, Copies(O(g), R(g, L, K)), z, q)
  <2>1. Fine(O(f), R(f, L, K)) /\ Fine(O(g), R(g, L, K))
    BY CountsFine, Zenon
  <2>2. O(g) = Dec(O(f), e.node) /\ R(g, L, K) = Dec(R(f, L, K), e.node)
    <3>1. f[p].filemap[fd].status = "FD_OPENED"
      BY Zenon DEF Ready
    <3> HIDE DEF S, c
    <3> QED BY <3>1, PutNone
  <2> QED BY <1>2, <2>1, <2>2, VfsClose DEF Whole
<1>6. SetEntry(St(f, Copies(O(g), R(g, L, K)), z, q), p, fd, FD_NONE) = Whole(g, L, K, z, q)
  BY SetEntryPut DEF Whole
<1>7. filemap_close(S, p, fd) = Drop(S, p, fd, c)
  BY <1>3, <1>4, Zenon DEF filemap_close
<1> HIDE DEF c, S, e
<1>8. Drop(S, p, fd, c) = SetEntry(vfs_close(S, e.node), p, fd, FD_NONE)
  BY <1>2, Zenon DEF Drop, filemap_free
<1> QED BY <1>5, <1>6, <1>7, <1>8, Zenon DEF S

\* e is the open entry after a change of its position or its count.
Changed(f, p, fd, e) ==
    /\ EntryOK(e) /\ e.status = "FD_OPENED" /\ e.node = f[p].filemap[fd].node
    /\ f[p].filemap[fd].status = "FD_OPENED"

\* Changing the position or the count of an open entry.
LEMMA Changes ==
    ASSUME NEW f, NEW L, NEW K, NEW z, NEW q, NEW p \in Tables, NEW fd \in Fds, FsOK(f),
           NEW e, Changed(f, p, fd, e)
    PROVE  SetEntry(Whole(f, L, K, z, q), p, fd, e) = Whole(Put(f, p, fd, e), L, K, z, q)
<1>1. O(Put(f, p, fd, e)) = O(f) /\ R(Put(f, p, fd, e), L, K) = R(f, L, K)
  BY PutSame, SMTT(30) DEF Changed
<1>2. SetEntry(Whole(f, L, K, z, q), p, fd, e) = St(Put(f, p, fd, e), Copies(O(f), R(f, L, K)), z, q)
  BY SetEntryPut DEF Whole, Changed
<1> QED BY <1>1, <1>2, Zenon DEF Whole

\* What filemap_dup makes of an entry.
LEMMA DuplicateOK ==
    ASSUME NEW e, EntryOK(e), e # FD_NONE
    PROVE  /\ EntryOK(Duplicate(e)) /\ Ready(Duplicate(e))
           /\ Duplicate(e).node = e.node /\ e.node \in Inodes
BY NoneIsFree, SMTT(30) DEF EntryOK, Duplicate, Ready

\* filemap_dup takes a reference and opens the inode once more.
LEMMA Dups ==
    ASSUME NEW f, NEW L, NEW K, NEW z, NEW q, NEW p \in Tables, NEW fd \in Fds, FsOK(f),
           f[p].filemap[fd] = FD_NONE, NEW file, EntryOK(file), file # FD_NONE
    PROVE  filemap_dup(Whole(f, L, K, z, q), p, fd, file) =
             Whole(Put(f, p, fd, Duplicate(file)), L, K, z, q)
<1> DEFINE e == Duplicate(file)
           n == file.node
<1>1. EntryOK(e) /\ IsOpen(e) /\ e.node = n /\ n \in Inodes
  BY DuplicateOK, Zenon DEF Ready, IsOpen
<1>2. Fine(O(f), R(f, L, K)) /\ Fine(O(f), Inc(R(f, L, K), n))
  BY <1>1, CountsFine, RefInc, Zenon
<1>3. open_inc(ref_inc(Whole(f, L, K, z, q), n), n) =
        St(f, Copies(Inc(O(f), n), Inc(R(f, L, K), n)), z, q)
  BY <1>1, <1>2, RefInc, OpenInc DEF Whole
<1>4. O(Put(f, p, fd, e)) = Inc(O(f), n) /\ R(Put(f, p, fd, e), L, K) = Inc(R(f, L, K), n)
  <2> HIDE DEF e
  <2> QED BY <1>1, PutOpened
<1>5. filemap_dup(Whole(f, L, K, z, q), p, fd, file) =
        SetEntry(open_inc(ref_inc(Whole(f, L, K, z, q), n), n), p, fd, e)
  BY Zenon DEF filemap_dup
<1> QED BY <1>3, <1>4, <1>5, SetEntryPut DEF Whole

\* A set of naturals has its least member.
LEMMA MinIn ==
    ASSUME NEW T \in SUBSET Nat, T # {}
    PROVE  Min(T) \in T
<1>1. PICK x \in T : \A y \in T : ~ (<<y, x>> \in OpToRel(<, Nat))
  BY NatLessThanWellFounded, WFMin, Zenon
<1>2. ASSUME NEW y \in T PROVE x <= y
  <2>1. y < x => <<y, x>> \in OpToRel(<, Nat)
    BY Zenon DEF OpToRel
  <2>2. ~ (y < x)
    BY <1>1, <2>1, Zenon
  <2> QED BY <2>2
<1> QED BY <1>2, Zenon DEF Min

\* What vfs_open answers; x is the inode that exists although it should not.
Opens(f, o, r, z, q, v, flags, x) ==
    \/ x = "none" /\ v = Fails(St(f, Copies(o, r), z, q))
    \/ x \in Inodes /\ v = Fails(St(f, Copies(o, Inc(r, x)), z, q))
    \/ \E n \in Inodes : \E z2, q2 :
         /\ q2 \in {q, "truncate"} /\ x = "none"
         /\ v = [node |-> n, S |-> St(f, Copies(Inc(o, n), Inc(r, n)), z2, q2)]
    \/ /\ "O_CREAT" \in flags
       /\ \E i : v = Fails(St(f, i, z, "create"))

\* Truncating an inode, which changes no counts.
LEMMA Truncates ==
    ASSUME NEW f, NEW o, NEW r, NEW z, NEW q, NEW n \in Inodes, NEW len, Fine(o, r)
    PROVE  \E z2, q2 : /\ q2 \in {q, "truncate"}
                       /\ vop_truncate(St(f, Copies(o, r), z, q), n, len) =
                            St(f, Copies(o, r), z2, q2)
<1> DEFINE S == St(f, Copies(o, r), z, q)
<1>1. \E q2 \in {q, "truncate"} : Vop(S, n, "truncate") = St(f, Copies(o, r), z, q2)
  <2>1. CASE HasOp(n, "truncate") \/ q # "none"
    BY <2>1, VopHas
  <2>2. CASE ~ HasOp(n, "truncate") /\ q = "none"
    BY <2>2, VopMissing, Zenon
  <2> QED BY <2>1, <2>2, Zenon
<1>2. PICK q2 \in {q, "truncate"} : Vop(S, n, "truncate") = St(f, Copies(o, r), z, q2)
  BY <1>1, Zenon
<1>3. SetSize(St(f, Copies(o, r), z, q2), len) = St(f, Copies(o, r), len, q2)
  BY Fields
<1> QED BY <1>2, <1>3, Zenon DEF vop_truncate

\* vfs_open holds the inode it returns, opened once, or nothing when it fails,
\* except for what exists and should not.
LEMMA VfsOpen ==
    ASSUME NEW f, NEW o, NEW r, NEW z, NEW p, NEW path, NEW flags, Fine(o, r),
           f[p].pwd \in {"none", Root}, NEW q, q = "none"
    PROVE  LET S == St(f, Copies(o, r), z, q)
           IN  Opens(f, o, r, z, q, vfs_open(S, p, path, flags), flags, Existing(S, p, path, flags))
<1> DEFINE S == St(f, Copies(o, r), z, q)
           l == vfs_lookup(S, p, path)
           dir == get_device(S, p, path.start)
           excl == {"O_CREAT", "O_EXCL"} \subseteq flags
           x == IF excl THEN l.node ELSE "none"
<1>1. Lookup(f, o, r, z, q, l, Inodes) /\ Lookup(f, o, r, z, q, dir, Dirs)
  BY VfsLookup, GetDevice, Zenon
<1>4. SUFFICES Opens(f, o, r, z, q, Open(l, dir, flags), flags, x)
  <2>1. CASE BadFlags(flags)
    <3>1. vfs_open(S, p, path, flags) = Fails(S) /\ Existing(S, p, path, flags) = "none"
      BY <2>1, Zenon DEF vfs_open, Existing
    <3> QED BY <3>1, Zenon DEF Opens
  <2>2. CASE ~ BadFlags(flags)
    <3>1. vfs_open(S, p, path, flags) = Open(l, dir, flags) /\ Existing(S, p, path, flags) = x
      BY <2>2, Zenon DEF vfs_open, Existing
    <3> QED BY <1>4, <3>1, Zenon
  <2> QED BY <2>1, <2>2, Zenon
<1> HIDE DEF l, dir
<1>2. CASE l = Fails(S)
  <2>1. Open(l, dir, flags) = OpenMissing(S, dir, flags) /\ x = "none"
    BY <1>2, FailsParts, Zenon DEF Open
  <2>2. CASE "O_CREAT" \notin flags \/ dir.node = "none"
    <3>1. OpenMissing(S, dir, flags) = Fails(S)
      BY <2>2, Zenon DEF OpenMissing
    <3> QED BY <2>1, <3>1, Zenon DEF Opens
  <2>3. CASE "O_CREAT" \in flags /\ dir.node # "none"
    <3>1. PICK n \in Dirs : dir = [S |-> St(f, Copies(o, Inc(r, n)), z, q), node |-> n]
      BY <1>1, <2>3, FailsParts, Zenon DEF Lookup
    <3>2. ~ HasOp(n, "create")
      BY Zenon DEF HasOp
    <3>3. Vop(dir.S, dir.node, "create") = St(f, Copies(o, Inc(r, n)), z, "create")
      BY <3>1, <3>2, VopMissing
    <3>4. OpenMissing(S, dir, flags) = Fails(St(f, Copies(o, Inc(r, n)), z, "create"))
      BY <2>3, <3>3, Zenon DEF OpenMissing
    <3> QED BY <2>1, <2>3, <3>4, Zenon DEF Opens
  <2> QED BY <2>2, <2>3, Zenon
<1>3. CASE \E n \in Inodes : l = [S |-> St(f, Copies(o, Inc(r, n)), z, q), node |-> n]
  <2>1. PICK n \in Inodes : l = [S |-> St(f, Copies(o, Inc(r, n)), z, q), node |-> n]
    BY <1>3, Zenon
  <2> DEFINE T == St(f, Copies(o, Inc(r, n)), z, q)
             U == St(f, Copies(Inc(o, n), Inc(r, n)), z, q)
  <2>2. Fine(o, Inc(r, n)) /\ Fine(Inc(o, n), Inc(r, n)) /\ r \in [Inodes -> Nat]
    BY RefInc DEF Fine, Inc
  <2>3. Open(l, dir, flags) = OpenNode(T, n, flags) /\ l.node = n
    BY <2>1, NodesAreInodes, ZenonT(30) DEF Open
  <2>4. ref_dec(T, n) = S
    BY <2>2, IncDec, RefDec, SMTT(30)
  <2>5. open_inc(T, n) = U
    BY <2>2, OpenInc, SMTT(30)
  <2>6. PICK z2, q2 : q2 \in {q, "truncate"}
                        /\ vop_truncate(U, n, 0) = St(f, Copies(Inc(o, n), Inc(r, n)), z2, q2)
    BY <2>2, Truncates
  <2>7. Opens(f, o, r, z, q, OpenNode(T, n, flags), flags, x)
    <3> HIDE DEF T, U, S
    <3>0. CASE excl
      <4>1. OpenNode(T, n, flags) = Fails(T) /\ x = n
        BY <2>3, <3>0, Zenon DEF OpenNode
      <4> QED BY <4>1, Zenon DEF Opens, T
    <3>1. CASE ~ excl /\ ~ vop_open(n, flags)
      <4>1. OpenNode(T, n, flags) = Fails(S)
        BY <2>4, <3>1, Zenon DEF OpenNode
      <4> QED BY <3>1, <4>1, Zenon DEF Opens, S
    <3>2. CASE ~ excl /\ vop_open(n, flags) /\ flags \cap {"O_TRUNC", "O_CREAT"} # {}
      <4>1. OpenNode(T, n, flags) =
              [node |-> n, S |-> St(f, Copies(Inc(o, n), Inc(r, n)), z2, q2)]
        BY <2>5, <2>6, <3>2, Zenon DEF OpenNode
      <4> QED BY <2>6, <3>2, <4>1, Zenon DEF Opens
    <3>3. CASE ~ excl /\ vop_open(n, flags) /\ flags \cap {"O_TRUNC", "O_CREAT"} = {}
      <4>1. OpenNode(T, n, flags) = [node |-> n, S |-> U]
        BY <2>5, <3>3, ZenonT(30) DEF OpenNode
      <4> QED BY <3>3, <4>1, Zenon DEF Opens, U
    <3> QED BY <3>0, <3>1, <3>2, <3>3, Zenon
  <2> QED BY <2>3, <2>7, Zenon
<1> QED BY <1>1, <1>2, <1>3, Zenon DEF Lookup

\* A file that is opened gets the lowest unused entry; x is the inode of which a
\* reference is kept.
Installs(f, L, K, z, q, p, w, flags, x) ==
    \/ x = "none" /\ w = [S |-> Whole(f, L, K, z, q), fd |-> NoFd]
    \/ /\ x \in Inodes
       /\ w = [S |-> St(f, Copies(O(f), Inc(R(f, L, K), x)), z, q), fd |-> NoFd]
    \/ \E fd \in Fds : \E e, z2, q2 :
         /\ f[p].filemap[fd] = FD_NONE /\ q2 \in {q, "truncate"} /\ x = "none"
         /\ EntryOK(e) /\ Ready(e)
         /\ w = [S |-> Whole(Put(f, p, fd, e), L, K, z2, q2), fd |-> fd]
    \/ /\ "O_CREAT" \in flags
       /\ \E i : w = [S |-> St(f, i, z, "create"), fd |-> NoFd]

\* The entry that Install makes.
LEMMA NewEntryOK ==
    ASSUME NEW n \in Inodes, NEW readable, NEW writable, NEW pos
    PROVE  LET e == [status |-> "FD_OPENED", node |-> n, readable |-> readable,
                     writable |-> writable, pos |-> pos, open_count |-> 1]
           IN  EntryOK(e) /\ Ready(e) /\ e.node = n
BY DEF EntryOK, Ready

\* file_open leaves an open entry, or the state as it was, but for a kept reference.
LEMMA FileOpen ==
    ASSUME NEW f, NEW L, NEW K, NEW z, NEW q, NEW p \in Tables, NEW path, NEW flags, FsOK(f),
           q = "none"
    PROVE  LET S == Whole(f, L, K, z, q)
           IN  Installs(f, L, K, z, q, p, file_open(S, p, path, flags), flags, KeptBy(S, p, path, flags))
<1> DEFINE S == Whole(f, L, K, z, q)
           v == vfs_open(S, p, path, flags)
           fd == Min(FreeFds(S, p))
           x == Existing(S, p, path, flags)
<1>1. CASE FreeFds(S, p) = {}
  BY <1>1, Zenon DEF file_open, KeptBy, Installs
<1>2. CASE FreeFds(S, p) # {}
  <2>1. fd \in Fds /\ f[p].filemap[fd] = FD_NONE
    <3>1. FreeFds(S, p) \in SUBSET Nat
      BY FilesAssumption DEF FreeFds, Fds
    <3>2. fd \in FreeFds(S, p)
      BY <1>2, <3>1, MinIn, Zenon
    <3> HIDE DEF fd
    <3> QED BY <3>2, WholeEntry, OpenedOK, SMTT(30) DEF FreeFds
  <2>2. file_open(S, p, path, flags) = Install(v, p, fd, flags) /\ KeptBy(S, p, path, flags) = x
    BY <1>2, Zenon DEF file_open, KeptBy
  <2>3. Opens(f, O(f), R(f, L, K), z, q, v, flags, x)
    <3>1. f[p].pwd \in {"none", Root}
      BY Zenon DEF FsOK, TableOK
    <3> QED BY <3>1, CountsFine, VfsOpen, Zenon DEF Whole
  <2> SUFFICES Installs(f, L, K, z, q, p, Install(v, p, fd, flags), flags, x)
    BY <2>2, Zenon
  <2> HIDE DEF fd, v, x
  <2>4. CASE x = "none" /\ v = Fails(S)
    <3>1. Install(v, p, fd, flags) = [S |-> S, fd |-> NoFd]
      BY <2>4, FailsParts, Zenon DEF Install
    <3> QED BY <2>4, <3>1, Zenon DEF Installs
  <2>7. CASE x \in Inodes /\ v = Fails(St(f, Copies(O(f), Inc(R(f, L, K), x)), z, q))
    <3>1. Install(v, p, fd, flags) = [S |-> St(f, Copies(O(f), Inc(R(f, L, K), x)), z, q), fd |-> NoFd]
      BY <2>7, FailsParts, Zenon DEF Install
    <3> QED BY <2>7, <3>1, Zenon DEF Installs
  <2>5. ASSUME NEW n \in Inodes, NEW z2, NEW q2, q2 \in {q, "truncate"}, x = "none",
               v = [node |-> n, S |-> St(f, Copies(Inc(O(f), n), Inc(R(f, L, K), n)), z2, q2)]
        PROVE  Installs(f, L, K, z, q, p, Install(v, p, fd, flags), flags, x)
    <3> DEFINE T == St(f, Copies(Inc(O(f), n), Inc(R(f, L, K), n)), z2, q2)
               readable == "O_WRONLY" \notin flags
               writable == can_write(flags)
               pos == IF "O_APPEND" \in flags THEN T.size ELSE 0
               e == [status |-> "FD_OPENED", node |-> n, readable |-> readable,
                     writable |-> writable, pos |-> pos, open_count |-> 1]
    <3>1. Install(v, p, fd, flags) = [S |-> SetEntry(T, p, fd, e), fd |-> fd]
      BY <2>5, NodesAreInodes, Zenon DEF Install
    <3> HIDE DEF readable, writable, pos
    <3>2. EntryOK(e) /\ Ready(e) /\ e.node = n
      BY NewEntryOK, Zenon
    <3> HIDE DEF e
    <3>3. SetEntry(T, p, fd, e) = Whole(Put(f, p, fd, e), L, K, z2, q2)
      <4>1. IsOpen(e)
        BY <3>2, Zenon DEF Ready, IsOpen
      <4>2. O(Put(f, p, fd, e)) = Inc(O(f), n) /\ R(Put(f, p, fd, e), L, K) = Inc(R(f, L, K), n)
        BY <2>1, <3>2, <4>1, PutOpened, SMTT(30)
      <4> QED BY <2>1, <4>2, SetEntryPut, SMTT(30) DEF Whole
    <3> QED BY <2>1, <2>5, <3>1, <3>2, <3>3, ZenonT(30) DEF Installs
  <2>6. ASSUME "O_CREAT" \in flags, NEW i, v = Fails(St(f, i, z, "create"))
        PROVE  Installs(f, L, K, z, q, p, Install(v, p, fd, flags), flags, x)
    <3>1. Install(v, p, fd, flags) = [S |-> St(f, i, z, "create"), fd |-> NoFd]
      BY <2>6, FailsParts, ZenonT(30) DEF Install
    <3> QED BY <2>6, <3>1, Zenon DEF Installs
  <2> QED BY <2>3, <2>4, <2>5, <2>6, <2>7, Zenon DEF Opens, Whole
<1> QED BY <1>1, <1>2, Zenon

-----------------------------------------------------------------------------

Cleared(f, p, first, last) ==
    [x \in Tables |-> IF x = p
        THEN [live |-> f[p].live, pwd |-> f[p].pwd,
              filemap |-> [k \in Fds |-> IF first <= k /\ k <= last THEN FD_NONE
                                         ELSE f[p].filemap[k]]]
        ELSE f[x]]

\* No call that waits is using an entry of the process.
Quiet(f, p) == \A fd \in Fds : f[p].filemap[fd] # FD_NONE => f[p].filemap[fd].open_count = 1

\* What Cleared changes and what it leaves alone.
LEMMA ClearedOK ==
    ASSUME NEW f, NEW p \in Tables, NEW first, NEW last, FsOK(f), Quiet(f, p)
    PROVE  LET g == Cleared(f, p, first, last)
           IN  /\ FsOK(g) /\ Quiet(g, p)
               /\ g[p].live = f[p].live /\ g[p].pwd = f[p].pwd
               /\ \A k \in Fds : g[p].filemap[k] =
                    IF first <= k /\ k <= last THEN FD_NONE ELSE f[p].filemap[k]
               /\ \A x \in Tables \ {p} : g[x] = f[x]
<1> DEFINE g == Cleared(f, p, first, last)
           t == [live |-> f[p].live, pwd |-> f[p].pwd,
              filemap |-> [k \in Fds |-> IF first <= k /\ k <= last THEN FD_NONE
                                         ELSE f[p].filemap[k]]]
<1>1. g[p] = t /\ \A x \in Tables \ {p} : g[x] = f[x]
  BY Zenon DEF Cleared
<1>2. TableOK(t)
  BY NoneIsFree, Zenon DEF FsOK, TableOK
<1>3. FsOK(g)
  BY <1>1, <1>2, Zenon DEF FsOK, Cleared
<1> HIDE DEF g
<1> QED BY <1>1, <1>3 DEF g, Quiet

CloseStep(T, p, fd) ==
    IF Entry(T, p, fd).status = "FD_OPENED" THEN filemap_close(T, p, fd) ELSE T

\* A round of the loop frees one entry.
LEMMA StepCloses ==
    ASSUME NEW f, NEW L, NEW K, NEW z, NEW q, NEW p \in Tables, NEW fd \in Fds, FsOK(f), Quiet(f, p)
    PROVE  CloseStep(Whole(f, L, K, z, q), p, fd) = Whole(Put(f, p, fd, FD_NONE), L, K, z, q)
<1>1. Entry(Whole(f, L, K, z, q), p, fd) = f[p].filemap[fd]
  BY WholeEntry
<1>2. CASE f[p].filemap[fd].status = "FD_OPENED"
  <2>1. Ready(f[p].filemap[fd])
    BY <1>2, OpenedOK, Zenon DEF Quiet, Ready
  <2>2. filemap_close(Whole(f, L, K, z, q), p, fd) = Whole(Put(f, p, fd, FD_NONE), L, K, z, q)
    BY <2>1, Closes
  <2> QED BY <1>1, <1>2, <2>2, Zenon DEF CloseStep
<1>3. CASE f[p].filemap[fd].status # "FD_OPENED"
  <2>1. f[p].filemap[fd] = FD_NONE
    BY <1>3, OpenedOK, Zenon
  <2>2. Put(f, p, fd, FD_NONE) = f
    <3> DEFINE m == [k \in Fds |-> IF k = fd THEN FD_NONE ELSE f[p].filemap[k]]
    <3>1. TableOK(f[p])
      BY Zenon DEF FsOK
    <3>2. m = f[p].filemap
      BY <2>1, <3>1, Zenon DEF TableOK
    <3> HIDE DEF m
    <3>3. f[p] = [live |-> f[p].live, pwd |-> f[p].pwd, filemap |-> m]
      BY <3>1, <3>2, Zenon DEF TableOK
    <3>4. \A x \in Tables :
            f[x] = IF x = p THEN [live |-> f[p].live, pwd |-> f[p].pwd, filemap |-> m] ELSE f[x]
      BY <3>3, Zenon
    <3> QED BY <3>4, Zenon DEF Put, FsOK, m
  <2> QED BY <1>1, <1>3, <2>2, Zenon DEF CloseStep
<1> QED BY <1>2, <1>3, Zenon

\* One entry more is cleared by clearing that entry.
LEMMA ClearsOne ==
    ASSUME NEW f, NEW p \in Tables, NEW first \in Nat, NEW fd \in Fds, first <= fd,
           FsOK(f), Quiet(f, p)
    PROVE  Put(Cleared(f, p, first, fd - 1), p, fd, FD_NONE) = Cleared(f, p, first, fd)
<1> DEFINE g == Cleared(f, p, first, fd - 1)
<1>1. fd \in Int /\ first \in Int /\ \A k \in Fds : k \in Int
  BY FilesAssumption, SMTT(30) DEF Fds
<1>2. g[p].live = f[p].live /\ g[p].pwd = f[p].pwd
        /\ (\A x \in Tables \ {p} : g[x] = f[x])
        /\ \A k \in Fds : g[p].filemap[k] =
                    IF first <= k /\ k <= fd - 1 THEN FD_NONE ELSE f[p].filemap[k]
  BY ClearedOK
<1> HIDE DEF g
<1>3. ASSUME NEW k \in Fds
        PROVE  (IF first <= k /\ k <= fd THEN FD_NONE ELSE f[p].filemap[k]) =
               (IF k = fd THEN FD_NONE ELSE g[p].filemap[k])
  <2>1. k \in Int
    BY <1>1, Zenon
  <2>2. g[p].filemap[k] = IF first <= k /\ k <= fd - 1 THEN FD_NONE ELSE f[p].filemap[k]
    BY <1>2, Zenon
  <2> QED BY <1>1, <2>1, <2>2, SMTT(30)
<1>4. Put(g, p, fd, FD_NONE) = Cleared(f, p, first, fd)
  BY <1>2, <1>3, SMTT(30) DEF Cleared, Put
<1> QED BY <1>4, Zenon DEF g

\* The loop of fs_closeall and fs_destroy frees the entries from first on.
LEMMA CloseLoop ==
    ASSUME NEW f, NEW L, NEW K, NEW z, NEW q, NEW p \in Tables, NEW first \in Nat,
           FsOK(f), Quiet(f, p)
    PROVE  CloseFrom(Whole(f, L, K, z, q), p, first) =
             Whole(Cleared(f, p, first, NENTRY - 1), L, K, z, q)
<1> DEFINE S == Whole(f, L, K, z, q)
           D == (first - 1)..(NENTRY - 1)
           Loop(c) == c = [fd \in D |->
                             IF fd < first THEN S
                             ELSE IF Entry(c[fd - 1], p, fd).status = "FD_OPENED"
                                    THEN filemap_close(c[fd - 1], p, fd)
                             ELSE c[fd - 1]]
           h == [fd \in D |-> Whole(Cleared(f, p, first, fd), L, K, z, q)]
<1>0. NENTRY \in Nat \ {0} /\ Fds = 0..(NENTRY - 1) /\ D \subseteq Int
  BY FilesAssumption DEF Fds
<1>1. ASSUME NEW last, \A k \in Fds : ~ (first <= k /\ k <= last)
      PROVE  Cleared(f, p, first, last) = f
  <2>1. \A x \in Tables : f[x] = IF x = p
        THEN [live |-> f[p].live, pwd |-> f[p].pwd,
              filemap |-> [k \in Fds |-> IF first <= k /\ k <= last THEN FD_NONE
                                         ELSE f[p].filemap[k]]]
        ELSE f[x]
    BY <1>1, Zenon DEF FsOK, TableOK
  <2> QED BY <2>1, Zenon DEF Cleared, FsOK
<1>2. Cleared(f, p, first, first - 1) = f
  <2>1. \A k \in Fds : ~ (first <= k /\ k <= first - 1)
    BY <1>0
  <2> QED BY <1>1, <2>1, Zenon
<1>3. ASSUME NEW fd \in D, ~ (fd < first)
      PROVE  fd \in Fds /\ first <= fd /\ fd - 1 \in D
  BY <1>0, <1>3
<1>4. Loop(h)
  <2>1. ASSUME NEW fd \in D
        PROVE  h[fd] = IF fd < first THEN S ELSE CloseStep(h[fd - 1], p, fd)
    <3>1. CASE fd < first
      <4>1. fd = first - 1
        BY <1>0, <3>1, SMTT(30)
      <4> QED BY <1>2, <3>1, <4>1, ZenonT(30)
    <3>2. CASE ~ (fd < first)
      <4>1. h[fd - 1] = Whole(Cleared(f, p, first, fd - 1), L, K, z, q)
        BY <1>3, <3>2, ZenonT(30)
      <4>2. h[fd] = Whole(Cleared(f, p, first, fd), L, K, z, q)
        BY Zenon
      <4> HIDE DEF h
      <4>3. fd \in Fds /\ first <= fd
        BY <1>3, <3>2, Zenon
      <4> HIDE DEF D
      <4> DEFINE g == Cleared(f, p, first, fd - 1)
      <4>4. FsOK(g) /\ Quiet(g, p)
        BY ClearedOK, Zenon
      <4>5. Put(g, p, fd, FD_NONE) = Cleared(f, p, first, fd)
        BY <4>3, ClearsOne, Zenon
      <4> HIDE DEF g
      <4>6. CloseStep(Whole(g, L, K, z, q), p, fd) = Whole(Put(g, p, fd, FD_NONE), L, K, z, q)
        BY <4>3, <4>4, StepCloses, SMTT(30)
      <4> QED BY <3>2, <4>1, <4>2, <4>5, <4>6, SMTT(30) DEF g
    <3> QED BY <3>1, <3>2, Zenon
  <2>2. h = [fd \in D |-> h[fd]]
    BY Zenon
  <2> HIDE DEF h
  <2> QED BY <2>1, <2>2, ZenonT(30) DEF CloseStep
<1> HIDE DEF h
<1>5. CASE ~ (first < NENTRY)
  <2>1. \A k \in Fds : ~ (first <= k /\ k <= NENTRY - 1)
    BY <1>0, <1>5, SMTT(30)
  <2>2. CloseFrom(S, p, first) = S
    BY <1>5, Zenon DEF CloseFrom
  <2> QED BY <1>1, <2>1, <2>2, Zenon
<1>6. CASE first < NENTRY
  <2> DEFINE c == CHOOSE c : Loop(c)
             T == {n \in Nat : first - 1 + n \in D => c[first - 1 + n] = h[first - 1 + n]}
  <2>1. Loop(c)
    BY <1>4, Zenon
  <2>2. CloseFrom(S, p, first) = c[NENTRY - 1]
    BY <1>6, Zenon DEF CloseFrom
  <2>3. ASSUME NEW fd \in D
        PROVE  /\ c[fd] = IF fd < first THEN S ELSE CloseStep(c[fd - 1], p, fd)
               /\ h[fd] = IF fd < first THEN S ELSE CloseStep(h[fd - 1], p, fd)
    BY <1>4, <2>1, Zenon DEF CloseStep
  <2> HIDE DEF c, Loop, D
  <2>4. 0 \in T
    <3>1. first - 1 + 0 = first - 1 /\ first - 1 < first
      OBVIOUS
    <3> QED BY <2>3, <3>1, Zenon
  <2>5. ASSUME NEW n \in Nat, n \in T PROVE n + 1 \in T
    <3> DEFINE fd == first - 1 + (n + 1)
    <3>1. SUFFICES ASSUME fd \in D PROVE c[fd] = h[fd]
      OBVIOUS
    <3>2. ~ (fd < first) /\ fd - 1 = first - 1 + n
      OBVIOUS
    <3>3. fd - 1 \in D
      BY <1>3, <3>1, <3>2, Zenon
    <3>4. c[fd - 1] = h[fd - 1]
      BY <2>5, <3>2, <3>3, Zenon
    <3> HIDE DEF fd
    <3> QED BY <2>3, <3>1, <3>2, <3>4, ZenonT(30)
  <2>6. Nat \subseteq T
    <3> HIDE DEF T
    <3> QED BY <2>4, <2>5, NatSetInduction, Zenon
  <2>7. NENTRY - 1 \in D /\ NENTRY - first \in Nat /\ first - 1 + (NENTRY - first) = NENTRY - 1
    BY <1>0, <1>6, SMTT(30) DEF D
  <2>8. c[NENTRY - 1] = h[NENTRY - 1]
    BY <2>6, <2>7, Zenon
  <2> QED BY <2>2, <2>7, <2>8, Zenon DEF h
<1> QED BY <1>5, <1>6, Zenon
-----------------------------------------------------------------------------
PutTable(f, p, t) == [x \in Tables |-> IF x = p THEN t ELSE f[x]]

\* SetTable is PutTable, of the tables of a state.
LEMMA SetTablePut ==
    ASSUME NEW f, NEW i, NEW z, NEW q, NEW p \in Tables, NEW t, FsOK(f)
    PROVE  SetTable(St(f, i, z, q), p, t) = St(PutTable(f, p, t), i, z, q)
<1>1. f = [x \in Tables |-> f[x]]
  BY Zenon DEF FsOK
<1>2. [f EXCEPT ![p] = t] = PutTable(f, p, t)
  BY <1>1, Zenon DEF PutTable
<1>3. SetTable(St(f, i, z, q), p, t) = St([f EXCEPT ![p] = t], i, z, q)
  BY DEF SetTable, St
<1> QED BY <1>2, <1>3, Zenon

\* What PutTable changes and what it leaves alone.
LEMMA PutTableOK ==
    ASSUME NEW f, NEW p \in Tables, NEW t, FsOK(f), TableOK(t)
    PROVE  /\ FsOK(PutTable(f, p, t)) /\ PutTable(f, p, t)[p] = t
           /\ \A x \in Tables \ {p} : PutTable(f, p, t)[x] = f[x]
BY Zenon DEF PutTable, FsOK

\* The tables that have nothing open.
LEMMA EmptyTables ==
    /\ TableOK(Absent) /\ TableOK(fs_create("none")) /\ TableOK(fs_create(Root))
    /\ \A fd \in Fds : Absent.filemap[fd] = FD_NONE
    /\ \A pwd : fs_create(pwd).pwd = pwd /\ \A fd \in Fds : fs_create(pwd).filemap[fd] = FD_NONE
    /\ Absent.pwd = "none"
BY NoneIsFree, Zenon DEF Absent, fs_create, TableOK

\* Tables without open entries make no difference to the open counts.
LEMMA PutEmpty ==
    ASSUME NEW f, NEW p \in Tables, NEW t, FsOK(f), TableOK(t),
           \A fd \in Fds : f[p].filemap[fd] = FD_NONE /\ t.filemap[fd] = FD_NONE
    PROVE  \A n \in Inodes : UsesOf(PutTable(f, p, t), n) = UsesOf(f, n)
<1> DEFINE g == PutTable(f, p, t)
<1>1. g[p] = t /\ \A x \in Tables \ {p} : g[x] = f[x]
  BY PutTableOK
<1> HIDE DEF g
<1>2. \A x \in Tables, fd \in Fds : g[x].filemap[fd] = f[x].filemap[fd]
  BY <1>1, ZenonT(30)
<1>3. \A n \in Inodes : UsesOf(g, n) = UsesOf(f, n)
  BY <1>2, SMTT(30) DEF UsesOf
<1> QED BY <1>3, Zenon DEF g

\* The directory of a table counts for one reference.
LEMMA PwdCounts ==
    ASSUME NEW f, NEW K, NEW p \in Tables, FsOK(f)
    PROVE  /\ f[p].pwd = Root => R(f, {p}, K) = Dec(R(f, {}, K), Root)
           /\ f[p].pwd = "none" => R(f, {p}, K) = R(f, {}, K)
<1>0. R(f, {}, K) \in [Inodes -> Nat]
  BY CountsFine, Zenon DEF Fine
<1>1. ASSUME f[p].pwd = Root PROVE R(f, {p}, K) = Dec(R(f, {}, K), Root)
  <2>1. DirsOf(f, {p}, Root) = DirsOf(f, {}, Root) \ {p} /\ p \in DirsOf(f, {}, Root)
    BY <1>1, Zenon DEF DirsOf
  <2>2. Cardinality(DirsOf(f, {p}, Root)) = Cardinality(DirsOf(f, {}, Root)) - 1
    BY <2>1, FiniteUses, FS_RemoveElement, Zenon
  <2>3. ASSUME NEW n \in Inodes, n # Root PROVE DirsOf(f, {p}, n) = DirsOf(f, {}, n)
    BY <1>1, <2>3, Zenon DEF DirsOf
  <2>4. ASSUME NEW n \in Inodes
        PROVE  R(f, {p}, K)[n] = IF n = Root THEN R(f, {}, K)[n] - 1 ELSE R(f, {}, K)[n]
    <3>1. CASE n = Root
      BY <2>2, <3>1, FiniteUses, KeptNat, NodesAreInodes, SMTT(30) DEF R
    <3>2. CASE n # Root
      BY <2>3, <3>2, Zenon DEF R
    <3> QED BY <3>1, <3>2, Zenon
  <2>5. R(f, {p}, K) \in [Inodes -> Nat]
    BY CountsFine, Zenon DEF Fine
  <2> QED BY <1>0, <2>4, <2>5, Zenon DEF Dec
<1>2. ASSUME f[p].pwd = "none" PROVE R(f, {p}, K) = R(f, {}, K)
  <2>1. ASSUME NEW n \in Inodes PROVE DirsOf(f, {p}, n) = DirsOf(f, {}, n)
    BY <1>2, NodesAreInodes, ZenonT(30) DEF DirsOf
  <2> QED BY <2>1, Zenon DEF R
<1> QED BY <1>1, <1>2, Zenon

\* Giving up a table whose entries are free and whose directory was let go.
LEMMA Gone ==
    ASSUME NEW f, NEW K, NEW z, NEW q, NEW p \in Tables, FsOK(f),
           \A fd \in Fds : f[p].filemap[fd] = FD_NONE
    PROVE  Freed(Whole(f, {p}, K, z, q), p) = Whole(PutTable(f, p, Absent), {}, K, z, q)
<1> DEFINE S == Whole(f, {p}, K, z, q)
           g == PutTable(f, p, Absent)
<1>1. \A fd \in Fds : Entry(S, p, fd).status = "FD_NONE"
  BY WholeEntry, NoneIsFree, SMTT(30)
<1>2. Freed(S, p) = SetTable(S, p, Absent)
  <2> HIDE DEF S
  <2> QED BY <1>1, Zenon DEF Freed, Assert
<1>3. SetTable(S, p, Absent) = St(g, Copies(O(f), R(f, {p}, K)), z, q)
  BY SetTablePut DEF Whole
<1>4. g[p].pwd = "none" /\ \A x \in Tables \ {p} : g[x] = f[x]
  BY PutTableOK, EmptyTables, SMTT(30)
<1>5. \A n \in Inodes : UsesOf(g, n) = UsesOf(f, n)
  BY PutEmpty, EmptyTables, Zenon
<1> HIDE DEF g
<1>6. ASSUME NEW n \in Inodes PROVE DirsOf(g, {}, n) = DirsOf(f, {p}, n)
  BY <1>4, NodesAreInodes, Zenon DEF DirsOf
<1>7. O(g) = O(f) /\ R(g, {}, K) = R(f, {p}, K)
  BY <1>5, <1>6, Zenon DEF O, R
<1> QED BY <1>2, <1>3, <1>7, Zenon DEF Whole, g

\* A process that ends lets go of its directory and of all its files.
LEMMA Destroys ==
    ASSUME NEW f, NEW K, NEW z, NEW q, NEW p \in Tables, FsOK(f), Quiet(f, p)
    PROVE  fs_destroy(Whole(f, {}, K, z, q), p) = Whole(PutTable(f, p, Absent), {}, K, z, q)
<1> DEFINE S == Whole(f, {}, K, z, q)
           g == Cleared(f, p, 0, NENTRY - 1)
<1>1. f[p].pwd \in {"none", Root} /\ S.fs = f
  <2>1. f[p].pwd \in {"none", Root}
    BY Zenon DEF FsOK, TableOK
  <2>2. S.fs = f
    BY Fields, SMTT(30) DEF Whole
  <2> QED BY <2>1, <2>2, ZenonT(30)
<1>2. (IF S.fs[p].pwd = "none" THEN S ELSE ref_dec(S, S.fs[p].pwd)) = Whole(f, {p}, K, z, q)
  <2>1. CASE f[p].pwd = "none"
    BY <1>1, <2>1, PwdCounts, Zenon DEF Whole
  <2>2. CASE f[p].pwd = Root
    <3>1. R(f, {p}, K) = Dec(R(f, {}, K), Root)
      BY <2>2, PwdCounts, Zenon
    <3>2. Fine(O(f), R(f, {}, K)) /\ Fine(O(f), Dec(R(f, {}, K), Root))
      BY <3>1, CountsFine, Zenon
    <3>3. ref_dec(St(f, Copies(O(f), R(f, {}, K)), z, q), Root)
            = St(f, Copies(O(f), Dec(R(f, {}, K), Root)), z, q)
      <4>1. Root \in Inodes
        BY NodesAreInodes, Zenon
      <4> HIDE DEF S, g
      <4> QED BY <3>2, <4>1, RefDec, SMTT(30)
    <3>4. ref_dec(S, Root) = Whole(f, {p}, K, z, q)
      BY <3>1, <3>3, Zenon DEF Whole
    <3> QED BY <1>1, <2>2, <3>4, NodesAreInodes, Zenon
  <2> QED BY <1>1, <2>1, <2>2, Zenon
<1>3. CloseFrom(Whole(f, {p}, K, z, q), p, 0) = Whole(g, {p}, K, z, q)
  BY CloseLoop
<1>4. FsOK(g) /\ (\A x \in Tables \ {p} : g[x] = f[x])
        /\ \A k \in Fds : g[p].filemap[k] = FD_NONE
  <2>1. \A k \in Fds : 0 <= k /\ k <= NENTRY - 1
    BY FilesAssumption DEF Fds
  <2> QED BY <2>1, ClearedOK
<1>5. PutTable(g, p, Absent) = PutTable(f, p, Absent)
  BY <1>4, Zenon DEF PutTable
<1>6. Freed(Whole(g, {p}, K, z, q), p) = Whole(PutTable(g, p, Absent), {}, K, z, q)
  BY <1>4, Gone, ZenonT(30)
<1> HIDE DEF g, S
<1> QED BY <1>2, <1>3, <1>5, <1>6, Zenon DEF fs_destroy, S
-----------------------------------------------------------------------------
Copied(f, from, to, last) ==
    [x \in Tables |-> IF x = to
        THEN [live |-> TRUE, pwd |-> f[from].pwd,
              filemap |-> [k \in Fds |-> IF k <= last /\ f[from].filemap[k] # FD_NONE
                                           THEN Duplicate(f[from].filemap[k])
                                         ELSE FD_NONE]]
        ELSE f[x]]

\* What Copied changes and what it leaves alone.
LEMMA CopiedOK ==
    ASSUME NEW f, NEW from \in Tables, NEW to \in Tables, NEW last, FsOK(f)
    PROVE  LET g == Copied(f, from, to, last)
           IN  /\ FsOK(g) /\ Quiet(g, to)
               /\ g[to].live /\ g[to].pwd = f[from].pwd
               /\ \A k \in Fds : g[to].filemap[k] =
                    IF k <= last /\ f[from].filemap[k] # FD_NONE
                      THEN Duplicate(f[from].filemap[k]) ELSE FD_NONE
               /\ \A x \in Tables \ {to} : g[x] = f[x]
<1> DEFINE g == Copied(f, from, to, last)
           t == [live |-> TRUE, pwd |-> f[from].pwd,
                 filemap |-> [k \in Fds |-> IF k <= last /\ f[from].filemap[k] # FD_NONE
                                              THEN Duplicate(f[from].filemap[k]) ELSE FD_NONE]]
<1>1. g[to] = t /\ \A x \in Tables \ {to} : g[x] = f[x]
  BY Zenon DEF Copied
<1>2. ASSUME NEW k \in Fds, f[from].filemap[k] # FD_NONE
      PROVE  EntryOK(Duplicate(f[from].filemap[k])) /\ Duplicate(f[from].filemap[k]).open_count = 1
  <2>1. EntryOK(f[from].filemap[k])
    BY OpenedOK, Zenon
  <2> QED BY <1>2, <2>1, DuplicateOK, Zenon DEF Ready
<1>3. \A k \in Fds : EntryOK(t.filemap[k]) /\ (t.filemap[k] # FD_NONE => t.filemap[k].open_count = 1)
  BY <1>2, NoneIsFree, Zenon
<1>4. TableOK(t)
  <2>1. f[from].pwd \in {"none", Root}
    BY Zenon DEF FsOK, TableOK
  <2> QED BY <1>3, <2>1, Zenon DEF TableOK
<1>5. FsOK(g)
  BY <1>1, <1>4, Zenon DEF FsOK, Copied
<1>6. t.live /\ t.pwd = f[from].pwd
        /\ \A k \in Fds : t.filemap[k] = IF k <= last /\ f[from].filemap[k] # FD_NONE
                                           THEN Duplicate(f[from].filemap[k]) ELSE FD_NONE
  BY Zenon
<1> HIDE DEF g, t
<1>7. Quiet(g, to)
  BY <1>1, <1>3, Zenon DEF Quiet
<1> QED BY <1>1, <1>5, <1>6, <1>7, Zenon DEF g

DupStep(T, from, to, fd, e) ==
    IF e.status = "FD_OPENED" THEN filemap_dup(T, to, fd, e) ELSE T

\* A round of the loop of dup_fs duplicates one entry.
LEMMA StepDups ==
    ASSUME NEW g, NEW K, NEW z, NEW q, NEW from, NEW to \in Tables, NEW fd \in Fds, NEW e, FsOK(g),
           g[to].filemap[fd] = FD_NONE, EntryOK(e)
    PROVE  DupStep(Whole(g, {}, K, z, q), from, to, fd, e) =
             Whole(Put(g, to, fd, IF e # FD_NONE THEN Duplicate(e) ELSE FD_NONE),
                   {}, K, z, q)
<1>1. CASE e # FD_NONE
  <2>1. e.status = "FD_OPENED"
    BY <1>1, Zenon DEF EntryOK
  <2>2. filemap_dup(Whole(g, {}, K, z, q), to, fd, e) =
          Whole(Put(g, to, fd, Duplicate(e)), {}, K, z, q)
    BY <1>1, Dups
  <2> QED BY <1>1, <2>1, <2>2, Zenon DEF DupStep
<1>2. CASE e = FD_NONE
  <2>1. e.status # "FD_OPENED"
    BY <1>2, NoneIsFree, Zenon
  <2>2. Put(g, to, fd, FD_NONE) = g
    <3>1. \A x \in Tables : g[x] = IF x = to
        THEN [live |-> g[to].live, pwd |-> g[to].pwd,
              filemap |-> [k \in Fds |-> IF k = fd THEN FD_NONE ELSE g[to].filemap[k]]]
        ELSE g[x]
      BY Zenon DEF FsOK, TableOK
    <3> QED BY <3>1, Zenon DEF Put, FsOK
  <2> QED BY <1>2, <2>1, <2>2, Zenon DEF DupStep
<1> QED BY <1>1, <1>2, Zenon

\* One entry more is copied by putting its duplicate.
LEMMA CopiesOne ==
    ASSUME NEW f, NEW from \in Tables, NEW to \in Tables, NEW fd \in Fds, FsOK(f)
    PROVE  /\ Copied(f, from, to, fd - 1)[to].filemap[fd] = FD_NONE
           /\ Put(Copied(f, from, to, fd - 1), to, fd,
                  IF f[from].filemap[fd] # FD_NONE
                    THEN Duplicate(f[from].filemap[fd]) ELSE FD_NONE) =
                Copied(f, from, to, fd)
<1> DEFINE g == Copied(f, from, to, fd - 1)
           e == IF f[from].filemap[fd] # FD_NONE THEN Duplicate(f[from].filemap[fd]) ELSE FD_NONE
<1>1. fd \in Int /\ \A k \in Fds : k \in Int
  BY FilesAssumption DEF Fds
<1>2. g[to].live = TRUE /\ g[to].pwd = f[from].pwd
        /\ (\A x \in Tables \ {to} : g[x] = f[x])
        /\ \A k \in Fds : g[to].filemap[k] =
             IF k <= fd - 1 /\ f[from].filemap[k] # FD_NONE THEN Duplicate(f[from].filemap[k]) ELSE FD_NONE
  BY Zenon DEF Copied
<1> HIDE DEF g
<1>3. ASSUME NEW k \in Fds
      PROVE  (IF k <= fd /\ f[from].filemap[k] # FD_NONE THEN Duplicate(f[from].filemap[k]) ELSE FD_NONE) =
             (IF k = fd THEN e ELSE g[to].filemap[k])
  <2>1. k \in Int
    BY <1>1, Zenon
  <2>2. g[to].filemap[k] = IF k <= fd - 1 /\ f[from].filemap[k] # FD_NONE THEN Duplicate(f[from].filemap[k]) ELSE FD_NONE
    BY <1>2, Zenon
  <2> QED BY <1>1, <2>1, <2>2
<1>4. g[to].filemap[fd] = FD_NONE
  <2>1. g[to].filemap[fd] = IF fd <= fd - 1 /\ f[from].filemap[fd] # FD_NONE THEN Duplicate(f[from].filemap[fd]) ELSE FD_NONE
    BY <1>2, ZenonT(30)
  <2>2. ~ (fd <= fd - 1)
    BY <1>1, SMTT(30)
  <2> QED BY <2>1, <2>2, Zenon
<1> HIDE DEF e
<1>5. Put(g, to, fd, e) =
        [x \in Tables |-> IF x = to
          THEN [live |-> TRUE, pwd |-> f[from].pwd,
              filemap |-> [k \in Fds |-> IF k <= fd /\ f[from].filemap[k] # FD_NONE THEN Duplicate(f[from].filemap[k])
                                         ELSE FD_NONE]]
          ELSE f[x]]
  BY <1>2, <1>3, Zenon DEF Put
<1> QED BY <1>4, <1>5, Zenon DEF g, e, Copied

\* What a fork copies before the loop: the directory.
LEMMA Begins ==
    ASSUME NEW f, NEW K, NEW z, NEW q, NEW from \in Tables, NEW to \in Tables, FsOK(f),
           f[to] = Absent
    PROVE  SetTable(IF f[from].pwd = "none" THEN Whole(f, {}, K, z, q)
                    ELSE ref_inc(Whole(f, {}, K, z, q), f[from].pwd), to, fs_create(f[from].pwd)) =
             Whole(Copied(f, from, to, -1), {}, K, z, q)
<1> DEFINE pwd == f[from].pwd
           t == fs_create(pwd)
           g == PutTable(f, to, t)
<1>1. pwd \in {"none", Root}
  BY Zenon DEF FsOK, TableOK
<1>2. TableOK(t) /\ t.pwd = pwd /\ \A fd \in Fds : t.filemap[fd] = FD_NONE
  BY <1>1, EmptyTables, ZenonT(30)
<1>3. FsOK(g) /\ g[to] = t /\ \A x \in Tables \ {to} : g[x] = f[x]
  BY <1>2, PutTableOK, SMTT(30)
<1>4. \A n \in Inodes : UsesOf(g, n) = UsesOf(f, n)
  BY <1>2, EmptyTables, PutEmpty, ZenonT(30)
<1>5. g = Copied(f, from, to, -1)
  <2>1. t = [live |-> TRUE, pwd |-> f[from].pwd,
              filemap |-> [k \in Fds |-> IF k <= -1 /\ f[from].filemap[k] # FD_NONE
                                           THEN Duplicate(f[from].filemap[k])
                                         ELSE FD_NONE]]
    <3>1. \A k \in Fds : ~ (k <= -1)
      BY FilesAssumption, SMTT(30) DEF Fds
    <3>2. [k \in Fds |-> FD_NONE] = [k \in Fds |-> IF k <= -1 /\ f[from].filemap[k] # FD_NONE
                                           THEN Duplicate(f[from].filemap[k])
                                         ELSE FD_NONE]
      BY <3>1, Zenon
    <3> QED BY <3>2, Zenon DEF fs_create
  <2> HIDE DEF t
  <2> QED BY <2>1, Zenon DEF PutTable, Copied
<1>6. to \notin DirsOf(f, {}, Root)
  BY EmptyTables, NodesAreInodes, Zenon DEF DirsOf
<1> HIDE DEF g, t, pwd
<1>7. CASE pwd = "none"
  <2>1. \A n \in Inodes : DirsOf(g, {}, n) = DirsOf(f, {}, n)
    BY <1>2, <1>3, <1>7, EmptyTables, NodesAreInodes, SMTT(30) DEF DirsOf
  <2>2. O(g) = O(f) /\ R(g, {}, K) = R(f, {}, K)
    BY <1>4, <2>1, Zenon DEF O, R
  <2>3. SetTable(Whole(f, {}, K, z, q), to, t) = Whole(g, {}, K, z, q)
    BY <2>2, SetTablePut DEF Whole, g
  <2> QED BY <1>5, <1>7, <2>3, Zenon DEF pwd, t
<1>8. CASE pwd = Root
  <2>1. DirsOf(g, {}, Root) = DirsOf(f, {}, Root) \cup {to}
    BY <1>2, <1>3, <1>8, ZenonT(30) DEF DirsOf
  <2>2. ASSUME NEW n \in Inodes, n # Root PROVE DirsOf(g, {}, n) = DirsOf(f, {}, n)
    BY <1>2, <1>3, <1>8, <2>2, EmptyTables, NodesAreInodes, SMTT(30) DEF DirsOf
  <2>3. Cardinality(DirsOf(g, {}, Root)) = Cardinality(DirsOf(f, {}, Root)) + 1
    BY <1>6, <2>1, FiniteUses, FS_AddElement, Zenon
  <2>4. ASSUME NEW n \in Inodes
        PROVE  R(g, {}, K)[n] = IF n = Root THEN R(f, {}, K)[n] + 1 ELSE R(f, {}, K)[n]
    <3>1. CASE n = Root
      BY <1>4, <2>3, <3>1, FiniteUses, KeptNat, NodesAreInodes, SMTT(30) DEF R
    <3>2. CASE n # Root
      BY <1>4, <2>2, <3>2, SMTT(30) DEF R
    <3> QED BY <3>1, <3>2, Zenon
  <2>5. R(f, {}, K) \in [Inodes -> Nat] /\ R(g, {}, K) \in [Inodes -> Nat] /\ Fine(O(f), R(f, {}, K))
    BY CountsFine, Zenon DEF Fine
  <2>6. R(g, {}, K) = Inc(R(f, {}, K), Root)
    BY <2>4, <2>5, Zenon DEF Inc
  <2>7. O(g) = O(f)
    BY <1>4, SMTT(30) DEF O
  <2>8. ref_inc(Whole(f, {}, K, z, q), Root) = St(f, Copies(O(g), R(g, {}, K)), z, q)
    BY <2>5, <2>6, <2>7, RefInc, NodesAreInodes, SMTT(30) DEF Whole
  <2>9. SetTable(ref_inc(Whole(f, {}, K, z, q), Root), to, t) = Whole(g, {}, K, z, q)
    BY <2>8, SetTablePut, SMTT(30) DEF Whole, g
  <2> QED BY <1>5, <1>8, <2>9, NodesAreInodes, Zenon DEF pwd, t
<1> QED BY <1>1, <1>7, <1>8, Zenon DEF pwd

\* A fork gives the child the directory and a duplicate of every open entry.
LEMMA DupTable ==
    ASSUME NEW f, NEW K, NEW z, NEW q, NEW from \in Tables, NEW to \in Tables, from # to, FsOK(f),
           f[to] = Absent
    PROVE  dup_fs(Whole(f, {}, K, z, q), from, to) = Whole(Copied(f, from, to, NENTRY - 1), {}, K, z, q)
<1> DEFINE S == Whole(f, {}, K, z, q)
           D == -1..(NENTRY - 1)
           begun == SetTable(IF S.fs[from].pwd = "none" THEN S ELSE ref_inc(S, S.fs[from].pwd),
                             to, fs_create(S.fs[from].pwd))
           Loop(c) == c = [fd \in D |->
                             IF fd = -1 THEN begun
                             ELSE IF Entry(S, from, fd).status = "FD_OPENED"
                                    THEN filemap_dup(c[fd - 1], to, fd, Entry(S, from, fd))
                             ELSE c[fd - 1]]
           Step(T, fd) == DupStep(T, from, to, fd, Entry(S, from, fd))
           h == [fd \in D |-> Whole(Copied(f, from, to, fd), {}, K, z, q)]
<1>0. NENTRY \in Nat \ {0} /\ Fds = 0..(NENTRY - 1) /\ D \subseteq Int
  BY FilesAssumption, SMTT(30) DEF Fds
<1>1. S.fs = f
  BY Fields, SMTT(30) DEF Whole
<1>2. begun = Whole(Copied(f, from, to, -1), {}, K, z, q)
  <2>1. begun = SetTable(IF f[from].pwd = "none" THEN S ELSE ref_inc(S, f[from].pwd),
                         to, fs_create(f[from].pwd))
    BY <1>1, Zenon
  <2> QED BY <2>1, Begins, SMTT(30)
<1>3. ASSUME NEW fd \in D, fd # -1 PROVE fd \in Fds /\ fd - 1 \in D
  BY <1>0, <1>3, SMTT(30)
<1> HIDE DEF begun
<1>4. ASSUME NEW fd \in D
      PROVE  h[fd] = IF fd = -1 THEN begun ELSE Step(h[fd - 1], fd)
  <2>1. CASE fd = -1
    BY <1>2, <2>1, Zenon
  <2>2. CASE fd # -1
    <3> DEFINE g == Copied(f, from, to, fd - 1)
               e == f[from].filemap[fd]
               d == IF e # FD_NONE THEN Duplicate(e) ELSE FD_NONE
    <3>1. h[fd - 1] = Whole(g, {}, K, z, q) /\ h[fd] = Whole(Copied(f, from, to, fd), {}, K, z, q)
      BY <1>3, <2>2, Zenon
    <3>2. fd \in Fds
      BY <1>3, <2>2, ZenonT(30)
    <3> HIDE DEF h, D
    <3>3. EntryOK(e) /\ FsOK(g)
      BY <3>2, OpenedOK, CopiedOK
    <3>4. g[to].filemap[fd] = FD_NONE /\ Put(g, to, fd, d) = Copied(f, from, to, fd)
      BY <3>2, CopiesOne, Zenon
    <3>5. Entry(S, from, fd) = e
      BY <1>1, Zenon DEF Entry
    <3> HIDE DEF g, e
    <3>6. DupStep(Whole(g, {}, K, z, q), from, to, fd, e) = Whole(Put(g, to, fd, d), {}, K, z, q)
      BY <3>2, <3>3, <3>4, StepDups, SMTT(30)
    <3> QED BY <2>2, <3>1, <3>4, <3>5, <3>6, SMTT(30)
  <2> QED BY <2>1, <2>2, Zenon
<1>5. Loop(h)
  <2>1. h = [fd \in D |-> h[fd]]
    BY Zenon
  <2> HIDE DEF h
  <2> QED BY <1>4, <2>1, Zenon DEF DupStep
<1> HIDE DEF h
<1> DEFINE c == CHOOSE c : Loop(c)
           T == {n \in Nat : -1 + n \in D => c[-1 + n] = h[-1 + n]}
<1>6. Loop(c)
  BY <1>5, ZenonT(30)
<1>7. dup_fs(S, from, to) = c[NENTRY - 1]
  BY ZenonT(30) DEF dup_fs, begun
<1>8. ASSUME NEW fd \in D
      PROVE  c[fd] = IF fd = -1 THEN begun ELSE Step(c[fd - 1], fd)
  BY <1>6, ZenonT(30) DEF DupStep
<1> HIDE DEF c, Loop, D, Step
<1>9. 0 \in T
  <2>1. -1 + 0 = -1
    OBVIOUS
  <2> QED BY <1>4, <1>8, <2>1, Zenon
<1>10. ASSUME NEW n \in Nat, n \in T PROVE n + 1 \in T
  <2> DEFINE fd == -1 + (n + 1)
  <2>1. SUFFICES ASSUME fd \in D PROVE c[fd] = h[fd]
    BY SMTT(30)
  <2>2. fd # -1 /\ fd - 1 = -1 + n
    OBVIOUS
  <2>3. fd - 1 \in D
    BY <1>3, <2>1, <2>2, ZenonT(30)
  <2>4. c[fd - 1] = h[fd - 1]
    BY <1>10, <2>2, <2>3, Zenon
  <2> HIDE DEF fd
  <2> QED BY <1>4, <1>8, <2>1, <2>2, <2>4, SMTT(30)
<1>11. Nat \subseteq T
  <2> HIDE DEF T
  <2> QED BY <1>9, <1>10, NatSetInduction, SMTT(30)
<1>12. NENTRY - 1 \in D /\ NENTRY \in Nat /\ -1 + NENTRY = NENTRY - 1
  BY <1>0 DEF D
<1>13. c[NENTRY - 1] = h[NENTRY - 1]
  BY <1>11, <1>12, Zenon
<1> QED BY <1>7, <1>12, <1>13, Zenon DEF h
-----------------------------------------------------------------------------
\* g is f but for the table of p, whose process lives or has gone.
Same(f, g, p) == \A x \in Tables \ {p} : g[x] = f[x]
Alive(f, p) == f[p].live \/ f[p] = Absent
OneEntry(f, g, p, fd, e) ==
    \A k \in Fds : g[p].filemap[k] = IF k = fd THEN e ELSE f[p].filemap[k]

\* What the steps need to know of Put.
LEMMA PutParts ==
    ASSUME NEW f, NEW p \in Tables, NEW fd \in Fds, NEW e, FsOK(f), EntryOK(e)
    PROVE  /\ FsOK(Put(f, p, fd, e)) /\ Same(f, Put(f, p, fd, e), p)
           /\ OneEntry(f, Put(f, p, fd, e), p, fd, e)
           /\ Alive(f, p) => f[p] = Absent \/ Alive(Put(f, p, fd, e), p)
<1> DEFINE g == Put(f, p, fd, e)
<1>1. FsOK(g)
  BY PutOK, Zenon
<1>2. \A x \in Tables \ {p} : g[x] = f[x]
  BY PutOK, SMTT(30)
<1>3. \A x \in Tables, k \in Fds : g[x].filemap[k] = IF x = p /\ k = fd THEN e ELSE f[x].filemap[k]
  BY PutOK, SMTT(30)
<1>4. g[p].live = f[p].live
  BY Zenon DEF Put
<1> HIDE DEF g
<1>5. Same(f, g, p) /\ OneEntry(f, g, p, fd, e)
  BY <1>2, <1>3, Zenon DEF Same, OneEntry
<1>6. Alive(f, p) => f[p] = Absent \/ Alive(g, p)
  BY <1>4, Zenon DEF Alive
<1> QED BY <1>1, <1>5, <1>6, Zenon DEF g

\* What the steps need to know of Cleared.
LEMMA ClearedParts ==
    ASSUME NEW f, NEW p \in Tables, NEW first, NEW last, FsOK(f), Quiet(f, p)
    PROVE  /\ FsOK(Cleared(f, p, first, last)) /\ Quiet(Cleared(f, p, first, last), p)
           /\ Same(f, Cleared(f, p, first, last), p)
           /\ Cleared(f, p, first, last)[p].live = f[p].live
<1> DEFINE g == Cleared(f, p, first, last)
<1>1. FsOK(g) /\ Quiet(g, p)
  BY ClearedOK, Zenon
<1>2. Same(f, g, p)
  BY Zenon DEF Same, Cleared
<1>3. g[p].live = f[p].live
  BY Zenon DEF Cleared
<1> QED BY <1>1, <1>2, <1>3, Zenon

\* What the steps need to know of Copied.
LEMMA CopiedParts ==
    ASSUME NEW f, NEW from \in Tables, NEW to \in Tables, NEW last, FsOK(f)
    PROVE  /\ FsOK(Copied(f, from, to, last)) /\ Quiet(Copied(f, from, to, last), to)
           /\ Same(f, Copied(f, from, to, last), to) /\ Alive(Copied(f, from, to, last), to)
<1> DEFINE g == Copied(f, from, to, last)
<1>1. FsOK(g) /\ Quiet(g, to)
  BY CopiedOK, Zenon
<1>2. Same(f, g, to)
  BY Zenon DEF Same, Copied
<1>3. Alive(g, to)
  BY Zenon DEF Alive, Copied
<1> QED BY <1>1, <1>2, <1>3, Zenon
-----------------------------------------------------------------------------
\* The tables when init has its directory, and when only the kernel has.
Booting == [p \in Tables |-> IF p = initproc THEN fs_create("none") ELSE Absent]
Booted == [p \in Tables |-> IF p = initproc THEN fs_create(Root) ELSE Absent]

\* The tables while the kernel boots.
LEMMA BootedOK ==
    /\ FsOK(Booting) /\ FsOK(Booted) /\ PutTable(Booting, initproc, fs_create(Root)) = Booted
    /\ Booted[initproc] = fs_create(Root) /\ \A p \in Procs : Booted[p] = Absent
    /\ Booting[initproc] = fs_create("none")
BY EmptyTables, ProcsAreTables, Zenon DEF FsOK, Booting, Booted, PutTable

\* Nothing is open, and only init has a directory.
LEMMA BootedCounts ==
    \A n \in Inodes : UsesOf(Booted, n) = {}
                      /\ DirsOf(Booted, {}, n) = IF n = Root THEN {initproc} ELSE {}
<1>1. ASSUME NEW n \in Inodes, NEW p \in Tables, NEW fd \in Fds
      PROVE  Booted[p].filemap[fd].status = "FD_NONE"
  BY EmptyTables, NoneIsFree, Zenon DEF Booted
<1>2. ASSUME NEW n \in Inodes PROVE UsesOf(Booted, n) = {}
  BY <1>1, <1>2, Zenon DEF UsesOf
<1>3. \A p \in Tables : Booted[p].pwd = IF p = initproc THEN Root ELSE "none"
  BY EmptyTables, Zenon DEF Booted
<1>4. ASSUME NEW n \in Inodes
      PROVE  DirsOf(Booted, {}, n) = IF n = Root THEN {initproc} ELSE {}
  BY <1>3, <1>4, NodesAreInodes, ProcsAreTables, SMTT(30) DEF DirsOf
<1> QED BY <1>2, <1>4, Zenon

NoneKept == [n \in Inodes |-> 0]

\* vfs_set_bootfs gives init the root as its directory, and holds nothing
\* else.
LEMMA BootfsSet ==
    ASSUME NEW len
    PROVE  vfs_set_bootfs(Created(len), initproc, [start |-> "disk0:", name |-> ""])
             = Whole(Booted, {}, NoneKept, len, "none")
<1> DEFINE o == [n \in Inodes |-> 0]
           r == [n \in Inodes |-> IF n \in Devices THEN 1 ELSE 0]
           r1 == Inc(r, Root)
           r2 == Inc(r1, Root)
           A(f, c) == St(f, Copies(o, c), len, "none")
           path == [start |-> "disk0:", name |-> ""]
<1>1. Created(len) = A(Booting, r)
  <2>1. Copies(o, r) = [n \in Inodes |-> IF n \in Devices
                                           THEN [ref |-> 1, open |-> 0, reclaim |-> 1]
                                           ELSE NotLoaded]
    BY DEF Copies, Counts, NotLoaded
  <2> HIDE DEF o, r
  <2> QED BY <2>1, Zenon DEF Created, St, Booting
<1>2. Fine(o, r)
  BY DEF Fine
<1>3. o = O(Booted) /\ r2 = R(Booted, {}, NoneKept)
  <2>1. \A n \in Inodes : /\ Cardinality(UsesOf(Booted, n)) = 0
                          /\ Cardinality(DirsOf(Booted, {}, n)) = IF n = Root THEN 1 ELSE 0
    BY BootedCounts, FS_EmptySet, FS_Singleton, Zenon
  <2>2. r2 = [n \in Inodes |-> IF n = Root THEN 2 ELSE IF n \in Devices THEN 1 ELSE 0]
    BY NodesAreInodes DEF Inc
  <2>3. \A n \in Inodes : n = File \/ n = Root \/ n \in Devices
    BY Zenon DEF Inodes
  <2>4. o = O(Booted)
    BY <2>1, Zenon DEF O
  <2>5. \A n \in Inodes : KeptOf(NoneKept, n) = 0
    BY SMTT(30) DEF KeptOf, NoneKept
  <2>6. R(Booted, {}, NoneKept) = [n \in Inodes |-> IF n = Root THEN 2 ELSE IF n \in Devices THEN 1 ELSE 0]
    BY <2>1, <2>3, <2>5, NodesAreInodes, SMTT(30) DEF R
  <2> QED BY <2>2, <2>4, <2>6, Zenon
<1> HIDE DEF o, r
<1>4. Fine(o, r1) /\ Fine(o, r2) /\ Dec(r2, Root) = r1
  <2>1. Fine(o, r1)
    BY <1>2, RefInc, NodesAreInodes, Zenon
  <2>2. Fine(o, r2)
    BY <2>1, RefInc, NodesAreInodes, Zenon
  <2>3. r1 \in [Inodes -> Nat]
    BY <2>1, Zenon DEF Fine
  <2> HIDE DEF r1
  <2>4. Dec(r2, Root) = r1
    BY <2>3, IncDec, NodesAreInodes, ZenonT(30)
  <2> QED BY <2>1, <2>2, <2>4, Zenon
<1>5. \A f : ref_inc(A(f, r), Root) = A(f, r1) /\ ref_inc(A(f, r1), Root) = A(f, r2)
  BY <1>2, <1>4, RefInc, NodesAreInodes, SMTT(30)
<1> HIDE DEF r1, r2
<1>6. \A f : ref_dec(A(f, r2), Root) = A(f, r1)
  BY <1>4, RefDec, NodesAreInodes, SMTT(30)
<1>7. SetTable(A(Booting, r2), initproc, fs_create(Root)) = A(Booted, r2)
  BY BootedOK, SetTablePut, ProcsAreTables, SMTT(30)
<1>8. \A f, c : A(f, c).fs = f
  BY Fields
<1> HIDE DEF A
<1>9. vfs_lookup(A(Booting, r), initproc, path) = [S |-> A(Booting, r1), node |-> Root]
  <2>1. vfs_get_root(A(Booting, r), "disk0:") = Found(A(Booting, r), Root)
    <3> DEFINE v == CHOOSE v \in vdev_list : v.devname = "disk0:"
               d == [devname |-> "disk0:", devnode |-> "disk0", mountable |-> TRUE, fs |-> Root]
    <3>1. d \in vdev_list /\ d.devname = "disk0:"
      BY VdevList, Zenon
    <3>2. \A w \in vdev_list : w.devname = "disk0:" => w.fs = Root
      BY VdevList
    <3>3. v \in vdev_list /\ v.devname = "disk0:"
      BY <3>1, Zenon
    <3> HIDE DEF v
    <3>4. v.fs # "none" /\ v.fs = Root
      BY <3>2, <3>3, NodesAreInodes, SMTT(30)
    <3> QED BY <3>1, <3>4, Zenon DEF vfs_get_root, v
  <2>2. Found(A(Booting, r), Root) = [S |-> A(Booting, r1), node |-> Root]
    BY <1>5, Zenon DEF Found
  <2>3. get_device(A(Booting, r), initproc, "disk0:") = vfs_get_root(A(Booting, r), "disk0:")
    BY Zenon DEF get_device
  <2>4. path.start = "disk0:" /\ path.name = ""
    BY Zenon
  <2> HIDE DEF path
  <2> QED BY <2>1, <2>2, <2>3, <2>4, Zenon DEF vfs_lookup, LookupFrom
<1>10. vfs_set_curdir(A(Booting, r1), initproc, Root) = A(Booted, r2)
  <2>1. [fs_create("none") EXCEPT !.pwd = Root] = fs_create(Root)
    <3>1. \A l, m, x, y : [[live |-> l, pwd |-> x, filemap |-> m] EXCEPT !.pwd = y]
                            = [live |-> l, pwd |-> y, filemap |-> m]
      OBVIOUS
    <3> QED BY <3>1, ZenonT(30) DEF fs_create
  <2>2. fs_create("none").pwd = "none" /\ S_ISDIR(Root)
    BY EmptyTables, Zenon DEF S_ISDIR
  <2> QED BY <1>5, <1>7, <1>8, <2>1, <2>2, BootedOK, NodesAreInodes, ZenonT(30) DEF vfs_set_curdir
<1>11. vfs_chdir(A(Booting, r), initproc, path) = A(Booted, r1)
  <2>1. ChangeTo([S |-> A(Booting, r1), node |-> Root], initproc) = A(Booted, r1)
    BY <1>6, <1>10, NodesAreInodes, ZenonT(30) DEF ChangeTo
  <2> HIDE DEF path
  <2> QED BY <1>9, <2>1, Zenon DEF vfs_chdir
<1>12. vfs_get_curdir(A(Booted, r1), initproc).S = A(Booted, r2)
  <2>1. Booted[initproc].pwd = Root
    BY BootedOK, EmptyTables, Zenon
  <2>2. vfs_get_curdir(A(Booted, r1), initproc) = Found(A(Booted, r1), Root)
    BY <1>8, <2>1, NodesAreInodes, Zenon DEF vfs_get_curdir
  <2> QED BY <1>5, <2>2, SMTT(30) DEF Found
<1>13. A(Booted, r2) = Whole(Booted, {}, NoneKept, len, "none")
  BY <1>3, Zenon DEF A, Whole
<1> HIDE DEF path
<1> QED BY <1>1, <1>11, <1>12, <1>13, Zenon DEF vfs_set_bootfs, path
=============================================================================
