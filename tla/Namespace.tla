----------------------------- MODULE Namespace ------------------------------
(***************************************************************************)
(* The name space: dentries (crates/libkernel/src/fs/dentry.rs), the mount *)
(* table and the path walk (fs/mod.rs), the directories of the FAT32       *)
(* volume behind them (crates/fs/fat32_vfs/src/dir.rs), tmpfs, and the     *)
(* system calls on paths (crates/kernel/src/syscall/fs.rs).                *)
(*                                                                         *)
(* Every section under a lock is a step; a call is a sequence of them and  *)
(* the calls of different processes interleave.  FAT operations are one    *)
(* step each.  Dentries and inodes are numbered in the order of their      *)
(* creation; the number of a dentry is also its address.                   *)
(***************************************************************************)
EXTENDS Fat32

CONSTANTS Procs,     \* processes, one thread each
          RootChain, \* the clusters of the root directory
          Calls,     \* the system calls programs make
          MaxCalls   \* bound: calls in a behaviour

VARIABLES
    fs,      \* volume, dentries, their children, inodes, whether the kernel panicked
    mounts,  \* mount_table: root dentry -> mounted_dentry, 0 for None
    cwd,     \* inner.cwd
    base,    \* the directory open in each process, 0 if none
    lock,    \* lock -> holder, for the locks held from one step to the next
    call,    \* the call under way in each process
    made,    \* names an exclusive creation made and nothing removed since
    calls    \* calls so far

vars == <<fs, mounts, cwd, base, lock, call, made, calls>>

Root == 1
TABLE == 0               \* the lock of the mount table; others are dentries
Dot == <<".">>
DotDot == <<"..">>
Dentry(d) == fs.dent[d]
IsDir(e) == fs.dent[e].dir
\* DEntry::eq compares addresses: of the dentry for a directory, of the inode
\* for a file.
SameEntry(s, e, f) ==
    IF s.dent[e].dir \/ s.dent[f].dir THEN e = f ELSE s.dent[e].ino = s.dent[f].ino

\* The state of the dentry cache as a record, so that a call may change it
\* more than once.
Push(s, dir, parent, name, i) ==
    [s EXCEPT !.dent = Append(@, [dir |-> dir, parent |-> parent, name |-> name, ino |-> i]),
              !.kids = Append(@, <<>>)]
Insert(s, d, n, e) == [s EXCEPT !.kids[d] = (n :> e) @@ @]
Drop(s, d, n) == [s EXCEPT !.kids[d] = Restrict(@, DOMAIN @ \ {n})]
Panic(s) == [s EXCEPT !.panicked = TRUE]
NewInode(s, tmp, chain, size) ==
    [s EXCEPT !.ino = Append(@, [tmp |-> tmp, chain |-> chain, size |-> size])]

\* A new dentry with a new inode under d.
Create(s, dir, tmp, d, n, chain, size) ==
    LET t == Push(NewInode(s, tmp, chain, size), dir, d, n, Len(s.ino) + 1)
    IN Insert(t, d, n, Len(t.dent))

\* FatDir and FatFile::from_dir_entry follow the chain in the in-memory FAT.
\* A file must not be larger than its clusters (an assertion).
from_dir_entry(s, d, e) ==
    LET chain == cluster_chain(s.vol.fat, e.first)
        t == Create(s, e.dir, FALSE, d, e.name, chain, e.size)
    IN IF Endless(s.vol.fat, e.first) \/ (~ e.dir /\ e.size > Len(chain)) THEN Panic(s) ELSE t

\* What the inode of directory d finds on the disk: its clusters are read
\* even if the directory is new.
Entries(s, d) ==
    LET i == s.ino[s.dent[d].ino]
    IN IF i.tmp THEN <<>> ELSE dir_entry_iter(FlattenSeq([k \in DOMAIN i.chain |-> Content[i.chain[k]]]))

\* DEntryDir::lookup: the cache and the dentry found, 0 if there is none.
lookup(s, d, n) ==
    LET found == SelectSeq(Entries(s, d), LAMBDA e : e.name = n)
        t == from_dir_entry(s, d, Head(found))
    IN CASE n = Dot -> [s |-> s, e |-> d]
         [] n = DotDot -> [s |-> s, e |-> IF s.dent[d].parent = 0 THEN d ELSE s.dent[d].parent]
         [] n \notin {Dot, DotDot} /\ n \in DOMAIN s.kids[d] -> [s |-> s, e |-> s.kids[d][n]]
         [] OTHER -> IF found = <<>> THEN [s |-> s, e |-> 0]
                     ELSE [s |-> t, e |-> IF t.panicked THEN 0 ELSE Len(t.dent)]

\* DirInodeBackend::read_dir caches every entry not yet in the cache.
read_dir(s, d) ==
    FoldLeft(LAMBDA t, e : IF e.name \in DOMAIN t.kids[d] THEN t ELSE from_dir_entry(t, d, e),
             s, Entries(s, d))

\* mkdir and mknod of the inode of d: a FAT directory needs a free cluster,
\* tmpfs cannot make files yet.
make(s, d, n, dir) ==
    LET tmp == s.ino[s.dent[d].ino].tmp
        c == FreeCluster(s.vol)
        fat == [s EXCEPT !.vol = alloc_cluster(@, c)]
    IN CASE tmp /\ dir -> Create(s, TRUE, TRUE, d, n, <<>>, 0)
         [] tmp /\ ~ dir -> Panic(s)
         [] ~ tmp /\ c = 0 -> s
         [] ~ tmp /\ c /= 0 -> Create(fat, dir, FALSE, d, n, <<c>>, 0)

\* The ancestors of d, itself included.
Ancestors(s, d) ==
    LET up[k \in 0..Len(s.dent)] ==
          IF k = 0 THEN {d} ELSE up[k - 1] \cup {s.dent[e].parent : e \in up[k - 1] \ {0}}
    IN up[Len(s.dent)] \ {0}
\* The nearest one that is the root of a mounted file system, 0 if there is none.
mounted_root_of(d) ==
    LET A == Ancestors(fs, d) \cap DOMAIN mounts
        near == {e \in A : \A f \in A : f \in Ancestors(fs, e)}
    IN IF A = {} THEN 0 ELSE CHOOSE e \in near : TRUE
-----------------------------------------------------------------------------
Idle == [pc |-> "idle", op |-> "none", dir |-> 0, path |-> <<>>, from2 |-> "root",
         path2 |-> <<>>, create |-> FALSE, excl |-> FALSE, write |-> FALSE, trunc |-> FALSE,
         replace |-> FALSE, ent |-> 0, dir2 |-> 0, ent2 |-> 0]
At(p, label) == call[p].pc = label /\ ~ fs.panicked
Free(l) == l \notin DOMAIN lock
Goto(p, label) == call' = [call EXCEPT ![p].pc = label]
Return(p) == call' = [call EXCEPT ![p] = Idle]

\* The last component and its LastComponentType; the root path has ".".
LastOf(path) == IF path = <<>> THEN Dot ELSE path[Len(path)]
Normal(path) == path /= <<>> /\ LastOf(path) \notin {Dot, DotDot}

\* The root file system is mounted; nothing is cached.
Init ==
    /\ \E info \in FsInfos :
         fs = [vol |-> maintain_alloc_meta(DiskFat, info),
               dent |-> <<[dir |-> TRUE, parent |-> 0, name |-> <<"/">>, ino |-> 1]>>,
               kids |-> << <<>> >>,
               ino |-> <<[tmp |-> FALSE, chain |-> RootChain, size |-> 0]>>,
               panicked |-> FALSE]
    /\ mounts = (Root :> 0)
    /\ cwd = [p \in Procs |-> Root] /\ base = [p \in Procs |-> 0]
    /\ lock = <<>> /\ call = [p \in Procs |-> Idle] /\ made = {} /\ calls = 0

\* resolve_path_with_dir_fd: where a path starts.
StartDir(p, from) == CASE from = "root" -> Root [] from = "cwd" -> cwd[p] [] from = "fd" -> base[p]

Start(p, c) ==
    /\ At(p, "idle") /\ calls < MaxCalls /\ calls' = calls + 1
    /\ StartDir(p, c.from) /= 0 /\ StartDir(p, c.from2) /= 0
    /\ call' = [call EXCEPT ![p] =
         [Idle EXCEPT !.pc = IF c.op = "getdents" THEN "readdir" ELSE "walk", !.op = c.op,
                      !.dir = StartDir(p, c.from), !.path = c.path,
                      !.from2 = c.from2, !.path2 = c.path2, !.create = c.create, !.excl = c.excl,
                      !.write = c.write, !.trunc = c.trunc, !.replace = c.replace]]
    /\ UNCHANGED <<fs, mounts, cwd, base, lock, made>>

\* path_walk: one lookup per component, then the last component.
Walk(p) ==
    LET c == call[p] r == lookup(fs, c.dir, Head(c.path)) IN
    /\ At(p, "walk")
    /\ IF Len(c.path) <= 1 THEN Goto(p, "last") /\ UNCHANGED fs
       ELSE /\ Free(c.dir)
            /\ fs' = r.s
            /\ IF r.e /= 0 /\ r.s.dent[r.e].dir
               THEN call' = [call EXCEPT ![p].dir = r.e, ![p].path = Tail(c.path)]
               ELSE Return(p)
    /\ UNCHANGED <<mounts, cwd, base, lock, made, calls>>

\* The lookup of the last component, and what the call does with the result.
Found(c, s, e) ==
    CASE c.op = "openat" ->
           IF e = 0 THEN IF c.create THEN "mknod" ELSE "idle"
           ELSE IF c.create /\ c.excl THEN "idle"
           ELSE IF s.dent[e].dir THEN IF c.write THEN "idle" ELSE "opendir"
           ELSE IF c.trunc /\ c.write THEN "resize" ELSE "idle"
      [] c.op = "chdir" -> IF e /= 0 /\ s.dent[e].dir THEN "chdir" ELSE "idle"
      [] c.op = "statfs" -> IF e /= 0 THEN "statfs" ELSE "idle"
      [] c.op \in {"unlink", "rmdir", "rename"} -> IF e /= 0 THEN "check" ELSE "idle"
      [] c.op = "umount" -> IF e /= 0 THEN "umount" ELSE "idle"
      [] c.op = "stat" -> "idle"

LookupLast(p) ==
    LET c == call[p] n == LastOf(c.path) r == lookup(fs, c.dir, n) next == Found(c, r.s, r.e) IN
    /\ At(p, "last") /\ c.op \notin {"mkdir", "mount"}
    /\ c.op \in {"unlink", "rmdir", "rename"} => Normal(c.path)
    /\ Free(c.dir) \/ n \in {Dot, DotDot}
    /\ fs' = r.s
    /\ call' = [call EXCEPT ![p] = IF next = "idle" THEN Idle ELSE [c EXCEPT !.pc = next, !.ent = r.e]]
    /\ UNCHANGED <<mounts, cwd, base, lock, made, calls>>

\* EISDIR, EINVAL, ENOTEMPTY or EBUSY for ".", ".." and the root.
BadLast(p) ==
    /\ At(p, "last") /\ call[p].op \in {"unlink", "rmdir", "rename"} /\ ~ Normal(call[p].path)
    /\ Return(p)
    /\ UNCHANGED <<fs, mounts, cwd, base, lock, made, calls>>
-----------------------------------------------------------------------------
\* DEntryDir::mknod and mkdir: only the cache is looked at for the name.
\* Mutant: the entry found is replaced.
CanMakeBug(d, n) == n \notin {Dot, DotDot}
CanMake(d, n) == n \notin {Dot, DotDot} /\ n \notin DOMAIN fs.kids[d]

mknod(p) ==
    LET c == call[p] n == LastOf(c.path) IN
    /\ At(p, "mknod") /\ Free(c.dir)
    /\ IF CanMake(c.dir, n)
       THEN LET s == make(fs, c.dir, n, FALSE) IN
            /\ fs' = s
            /\ made' = IF Len(s.dent) > Len(fs.dent) /\ c.excl
                       THEN made \cup {<<c.dir, n, Len(s.dent)>>} ELSE made
       ELSE UNCHANGED <<fs, made>>
    /\ Return(p)
    /\ UNCHANGED <<mounts, cwd, base, lock, calls>>

sys_mkdirat(p) ==
    LET c == call[p] n == LastOf(c.path) IN
    /\ At(p, "last") /\ c.op = "mkdir" /\ Free(c.dir)
    /\ fs' = IF CanMake(c.dir, n) THEN make(fs, c.dir, n, TRUE) ELSE fs
    /\ Return(p)
    /\ UNCHANGED <<mounts, cwd, base, lock, made, calls>>

\* The end of openat of a directory: a descriptor to start paths from.
OpenDir(p) ==
    /\ At(p, "opendir")
    /\ base' = [base EXCEPT ![p] = call[p].ent] /\ Return(p)
    /\ UNCHANGED <<fs, mounts, cwd, lock, made, calls>>

\* O_TRUNC: resize(0) of the inode gives its clusters back.
Truncate(p) ==
    LET i == Dentry(call[p].ent).ino IN
    /\ At(p, "resize")
    /\ fs' = IF fs.ino[i].size = 0 THEN fs
             ELSE [fs EXCEPT !.vol = free_clusters(@, fs.ino[i].chain),
                             !.ino[i].chain = <<>>, !.ino[i].size = 0]
    /\ Return(p)
    /\ UNCHANGED <<mounts, cwd, base, lock, made, calls>>

sys_chdir(p) ==
    /\ At(p, "chdir")
    /\ cwd' = [cwd EXCEPT ![p] = call[p].ent] /\ Return(p)
    /\ UNCHANGED <<fs, mounts, base, lock, made, calls>>

\* The file system is searched upwards under the lock of the mount table.
sys_statfs64(p) ==
    /\ At(p, "statfs") /\ Free(TABLE)
    /\ fs' = IF mounted_root_of(call[p].ent) = 0 THEN Panic(fs) ELSE fs
    /\ Return(p)
    /\ UNCHANGED <<mounts, cwd, base, lock, made, calls>>

\* sys_getdents64 on the open directory.
getdirents(p) ==
    /\ At(p, "readdir") /\ Free(call[p].dir)
    /\ fs' = read_dir(fs, call[p].dir)
    /\ Return(p)
    /\ UNCHANGED <<mounts, cwd, base, lock, made, calls>>
-----------------------------------------------------------------------------
\* is_mount_root of the first dentry; then what kind it must be.
Check(p) ==
    LET c == call[p] IN
    /\ At(p, "check") /\ Free(TABLE)
    /\ LET ok == /\ c.ent \notin DOMAIN mounts
                 /\ c.op = "unlink" => ~ IsDir(c.ent)
                 /\ c.op = "rmdir" => IsDir(c.ent)
       IN call' = [call EXCEPT ![p] =
            CASE ~ ok -> Idle
              [] ok /\ c.op = "rename" -> [c EXCEPT !.pc = "walk2", !.dir2 = StartDir(p, c.from2)]
              [] ok /\ c.op /= "rename" -> [c EXCEPT !.pc = "remove"]]
    /\ UNCHANGED <<fs, mounts, cwd, base, lock, made, calls>>

\* unlink and remove_dir take the name away, whatever it stands for by now.
\* remove_dir counts the entries of the directory it removes from.  The
\* backends do nothing.
remove(p) ==
    LET c == call[p] d == Dentry(c.ent).parent n == Dentry(c.ent).name IN
    /\ At(p, "remove") /\ Free(d)
    /\ IF c.op = "rmdir" /\ Cardinality(DOMAIN fs.kids[d]) = 2
       THEN UNCHANGED <<fs, made>>
       ELSE fs' = Drop(fs, d, n) /\ made' = {m \in made : <<m[1], m[2]>> /= <<d, n>>}
    /\ Return(p)
    /\ UNCHANGED <<mounts, cwd, base, lock, calls>>

\* renameat2 walks the second path ...
Walk2(p) ==
    LET c == call[p] r == lookup(fs, c.dir2, Head(c.path2)) IN
    /\ At(p, "walk2")
    /\ IF Len(c.path2) <= 1 THEN Goto(p, "last2") /\ UNCHANGED fs
       ELSE /\ Free(c.dir2)
            /\ fs' = r.s
            /\ IF r.e /= 0 /\ r.s.dent[r.e].dir
               THEN call' = [call EXCEPT ![p].dir2 = r.e, ![p].path2 = Tail(c.path2)]
               ELSE Return(p)
    /\ UNCHANGED <<mounts, cwd, base, lock, made, calls>>

LookupNew(p) ==
    LET c == call[p] r == lookup(fs, c.dir2, LastOf(c.path2)) IN
    /\ At(p, "last2")
    /\ IF ~ Normal(c.path2) THEN Return(p) /\ UNCHANGED fs
       ELSE /\ Free(c.dir2)
            /\ fs' = r.s
            /\ call' = [call EXCEPT ![p] =
                   IF r.e /= 0 /\ SameEntry(r.s, c.ent, r.e) THEN Idle
                   ELSE [c EXCEPT !.pc = "check2", !.ent2 = r.e]]
    /\ UNCHANGED <<mounts, cwd, base, lock, made, calls>>

\* ... checks that the target is no mount root ...
CheckNew(p) ==
    /\ At(p, "check2") /\ Free(TABLE)
    /\ IF call[p].ent2 \in DOMAIN mounts THEN Return(p) ELSE Goto(p, "same")
    /\ UNCHANGED <<fs, mounts, cwd, base, lock, made, calls>>

\* ... and that both are in one file system, that a directory does not go
\* below itself, and that the target may be replaced.
MayRename(c) ==
    IF IsDir(c.ent) THEN c.ent \notin Ancestors(fs, c.dir2) /\ c.ent2 = 0
    ELSE c.ent2 = 0 \/ (c.replace /\ ~ IsDir(c.ent2))
same_mounted_fs(p) ==
    LET c == call[p]
        a == mounted_root_of(c.ent)
        b == mounted_root_of(IF c.ent2 = 0 THEN c.dir2 ELSE c.ent2)
    IN
    /\ At(p, "same") /\ Free(TABLE)
    /\ fs' = IF a = 0 \/ b = 0 THEN Panic(fs) ELSE fs
    /\ IF a = b /\ MayRename(c) /\ Dentry(c.ent).parent /= 0 THEN Goto(p, "lock1") ELSE Return(p)
    /\ UNCHANGED <<mounts, cwd, base, lock, made, calls>>

\* rename locks the two directories in the order of their addresses.
\* Mutant: the old directory first.
FirstLockBug(a, b) == a
FirstLock(a, b) == IF a < b THEN a ELSE b
LockFirst(p) ==
    LET c == call[p] l == FirstLock(Dentry(c.ent).parent, c.dir2) IN
    /\ At(p, "lock1") /\ Free(l)
    /\ lock' = (l :> p) @@ lock
    /\ Goto(p, "lock2")
    /\ UNCHANGED <<fs, mounts, cwd, base, made, calls>>

\* With both locks held: the old name is removed, a new dentry with the same
\* inode, and no cached children, is inserted.
\* Mutant: the dentry itself is inserted under the new name.
MovedBug(s, e, d, n) == Insert(Drop(s, s.dent[e].parent, s.dent[e].name), d, n, e)
Moved(s, e, d, n) ==
    LET old == s.dent[e]
        t == Push(Drop(s, old.parent, old.name), old.dir, d, n, old.ino)
    IN Insert(t, d, n, Len(t.dent))
rename(p) ==
    LET c == call[p] old == Dentry(c.ent) held == {l \in DOMAIN lock : lock[l] = p} IN
    /\ At(p, "lock2") /\ \A l \in {old.parent, c.dir2} \ held : Free(l)
    /\ fs' = Moved(fs, c.ent, c.dir2, LastOf(c.path2))
    /\ made' = {m \in made : <<m[1], m[2]>> \notin {<<old.parent, old.name>>, <<c.dir2, LastOf(c.path2)>>}}
    /\ lock' = Restrict(lock, DOMAIN lock \ held)
    /\ Return(p)
    /\ UNCHANGED <<mounts, cwd, base, calls>>
-----------------------------------------------------------------------------
\* mount holds the mount table over the lookup of the mount point ...
MountLock(p) ==
    /\ At(p, "last") /\ call[p].op = "mount" /\ Free(TABLE)
    /\ lock' = (TABLE :> p) @@ lock
    /\ Goto(p, "mountpoint")
    /\ UNCHANGED <<fs, mounts, cwd, base, made, calls>>

Unlocked == Restrict(lock, DOMAIN lock \ {TABLE})

MountPoint(p) ==
    LET c == call[p] n == LastOf(c.path) r == lookup(fs, c.dir, n) IN
    /\ At(p, "mountpoint") /\ (Free(c.dir) \/ n \in {Dot, DotDot})
    /\ IF r.e \in DOMAIN mounts \/ r.s.panicked
       THEN fs' = r.s /\ lock' = Unlocked /\ Return(p)
       ELSE /\ fs' = IF r.e /= 0 /\ r.s.dent[r.e].parent = 0 THEN Panic(r.s) ELSE r.s
            /\ call' = [call EXCEPT ![p].pc = "attach", ![p].ent = r.e]
            /\ UNCHANGED lock
    /\ UNCHANGED <<mounts, cwd, base, made, calls>>

\* ... and the insertion of the new root into the parent directory.
Attach(p) ==
    LET c == call[p]
        d == IF c.ent = 0 THEN c.dir ELSE Dentry(c.ent).parent
        s == Create(fs, TRUE, TRUE, d, LastOf(c.path), <<>>, 0)
    IN
    /\ At(p, "attach") /\ Free(d)
    /\ fs' = s
    /\ mounts' = (Len(s.dent) :> c.ent) @@ mounts
    /\ made' = {m \in made : <<m[1], m[2]>> /= <<d, LastOf(c.path)>>}
    /\ lock' = Unlocked /\ Return(p)
    /\ UNCHANGED <<cwd, base, calls>>

\* unmount takes the file system out of the table ...
unmount(p) ==
    LET e == call[p].ent IN
    /\ At(p, "umount") /\ Free(TABLE)
    /\ IF e \in DOMAIN mounts
       THEN /\ mounts' = Restrict(mounts, DOMAIN mounts \ {e})
            /\ IF mounts[e] = 0 THEN Return(p)
               ELSE call' = [call EXCEPT ![p].pc = "restore", ![p].ent2 = mounts[e]]
       ELSE UNCHANGED mounts /\ Return(p)
    /\ UNCHANGED <<fs, cwd, base, lock, made, calls>>

\* ... and puts the covered dentry back; its name must be there (unwrap).
Restore(p) ==
    LET c == call[p] d == Dentry(c.ent).parent n == Dentry(c.ent2).name IN
    /\ At(p, "restore") /\ Free(d)
    /\ fs' = IF n \in DOMAIN fs.kids[d] THEN Insert(fs, d, n, c.ent2) ELSE Panic(fs)
    /\ made' = {m \in made : <<m[1], m[2]>> /= <<d, n>>}
    /\ Return(p)
    /\ UNCHANGED <<mounts, cwd, base, lock, calls>>
-----------------------------------------------------------------------------
Step(p) ==
    \/ Walk(p) \/ LookupLast(p) \/ BadLast(p)
    \/ mknod(p) \/ sys_mkdirat(p) \/ OpenDir(p) \/ Truncate(p)
    \/ sys_chdir(p) \/ sys_statfs64(p) \/ getdirents(p)
    \/ Check(p) \/ remove(p)
    \/ Walk2(p) \/ LookupNew(p) \/ CheckNew(p) \/ same_mounted_fs(p) \/ LockFirst(p) \/ rename(p)
    \/ MountLock(p) \/ MountPoint(p) \/ Attach(p) \/ unmount(p) \/ Restore(p)

Next == \E p \in Procs : Step(p) \/ \E c \in Calls : Start(p, c)
Spec == Init /\ [][Next]_vars
-----------------------------------------------------------------------------
\* A dentry is found only where it says it is: lookups, creations, renames,
\* mounts and unmounts racing with each other never leave an entry under a
\* name or in a directory other than its own (unlink, remove_dir, rename and
\* getcwd rely on it: dentry.rs:160, 194, 239).
EntryMatches ==
    \A d \in DOMAIN fs.kids : \A n \in DOMAIN fs.kids[d] :
        LET e == fs.dent[fs.kids[d][n]] IN e.parent = d /\ e.name = n

\* openat with O_CREAT and O_EXCL excludes: between the lookup that finds
\* nothing and mknod another process may make the file, but never do two such
\* calls both succeed while the first file is still there (fs.rs:230, 264).
ExclOnce ==
    \A m, k \in made : m[1] = k[1] /\ m[2] = k[2] => m[3] = k[3]

\* The locks of directories and of the mount table are never waited for in a
\* circle (rename locks in the order of addresses, dentry.rs:219; mount holds
\* the table while it locks directories).
WaitsFor(p) ==
    LET c == call[p] IN
    CASE c.pc = "lock1" -> {FirstLock(Dentry(c.ent).parent, c.dir2)}
      [] c.pc = "lock2" -> {Dentry(c.ent).parent, c.dir2} \ {l \in DOMAIN lock : lock[l] = p}
      [] c.pc = "mountpoint" -> {c.dir}
      [] c.pc = "attach" -> {IF c.ent = 0 THEN c.dir ELSE Dentry(c.ent).parent}
      [] c.pc \in {"check", "check2", "same", "umount", "statfs"} -> {TABLE}
      [] OTHER -> {}
NoLockCycle ==
    ~ fs.panicked => \A S \in SUBSET Procs \ {{}} :
        \E p \in S : \A l \in WaitsFor(p) : Free(l) \/ lock[l] \notin S

\* alloc_cluster finds a free cluster exactly if there is one, from any hint
\* the volume can have: stale, past the end or unknown (fat.rs:113, 133).
AllocFindsFree ==
    LET c == FreeCluster(fs.vol)
    IN IF FreeClusters(fs.vol.fat) = {} THEN c = 0 ELSE c \in FreeClusters(fs.vol.fat)

\* Every live file of a directory is found under its long name, or its short
\* one if it has no other (dir_entry.rs:33), whatever deleted entries lie
\* between them: the parser resynchronises after each error.
NamesFound == calls = 0 => ParserFinds
=============================================================================
