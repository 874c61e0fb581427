------------------------------- MODULE Inode --------------------------------
(***************************************************************************)
(* Reading, writing, seeking in and truncating one regular file: the       *)
(* shared offset of a SeekableFile (crates/libkernel/src/fs/file.rs),      *)
(* read_at, write_at and resize of an inode (fs/inode.rs), its page cache  *)
(* (fs/page_cache.rs) and the FAT32 file behind it                         *)
(* (crates/fs/fat32_vfs/src/file.rs).                                      *)
(*                                                                         *)
(* Tasks run on different harts and every await is a point where others    *)
(* go on, so a call is a sequence of steps.  One byte of the model stands  *)
(* for one sector.  The disk never changes: pages are never written back.  *)
(***************************************************************************)
EXTENDS Naturals, FiniteSets

CONSTANTS Tasks,            \* threads inside a call
          Opens,            \* SeekableFile objects, shared by fork and dup
          None,
          PAGE_SIZE,        \* in sectors
          SectorPerCluster,
          DiskLen,          \* the length of the file when it is opened
          ReadLens, WriteLens, Seeks,  \* arguments programs pass
          AppendOpens,      \* the open files with O_APPEND
          MaxPos,           \* bound: largest file length
          MaxCalls          \* bound: system calls in a behaviour

ASSUME InodeAssumption ==
    /\ IsFiniteSet(Tasks)
    /\ None \notin Tasks \cup Opens \cup Nat /\ AppendOpens \subseteq Opens
    /\ PAGE_SIZE \in Nat \ {0} /\ SectorPerCluster \in Nat \ {0}
    /\ DiskLen \in Nat /\ MaxPos \in Nat /\ DiskLen <= MaxPos
    /\ ReadLens \cup WriteLens \subseteq Nat /\ Seeks \subseteq 0..MaxPos
    /\ MaxCalls \in Nat

VARIABLES
    offset,    \* SeekableFile::offset
    olock,     \* the task holding that SleepMutex
    dataLen,   \* meta.inner.data_len
    clusters,  \* number of clusters of the FatFile
    pages,     \* PageCache::pages: page id -> page object, None if absent
    page,      \* the BackedPage objects: state, state_guard and frame
    call,      \* the call of each task
    panicked,  \* whether the assertion of PageCache::create failed
    values,    \* per position: what a read may find there (see Begin, Finish)
    calls      \* system calls so far

fileVars == <<offset, olock>>
cacheVars == <<pages, page>>
vars == <<fileVars, dataLen, clusters, cacheVars, call, panicked, values, calls>>

Positions == 0..(MaxPos - 1)
PageIds == 0..((MaxPos - 1) \div PAGE_SIZE)
PageObjs == 1..(Cardinality(PageIds) + Cardinality(Tasks))
PageState == {"Invalid", "Synced", "Dirty"}

\* What the disk holds at position i, unlike the numbers 1..MaxCalls of the
\* writes and 0, the zero of a cleared frame.
Disk(i) == MaxCalls + 1 + i
Blank == [state |-> "Invalid", guard |-> None, data |-> [s \in 0..(PAGE_SIZE - 1) |-> 0]]

\* A call: its operation and open file, the first position and the one after
\* the last, the position reached, the page object in use, the last page of
\* the file when a write began, the number written, the value of each position
\* that this write makes obsolete.
Idle == [pc |-> "idle", op |-> "none", file |-> None, arg |-> 0, start |-> 0, end |-> 0,
         pos |-> 0, obj |-> 0, last |-> 0, num |-> 0, old |-> [i \in Positions |-> {}]]
At(t, label) == call[t].pc = label /\ ~ panicked

PageId(i) == i \div PAGE_SIZE
Pos(c) == PageId(c.pos)
Cached == {o \in PageObjs : \E id \in PageIds : pages[id] = o}
Held == {call[t].obj : t \in Tasks}
Min2(a, b) == IF a < b THEN a ELSE b

Goto(t, label) == call' = [call EXCEPT ![t].pc = label]
Keep(c) == [c EXCEPT !.pc = "page", !.pos = c.start]
-----------------------------------------------------------------------------
\* from_dir_entry: the length and the cluster chain come from the disk.
Init ==
    /\ offset = [f \in Opens |-> 0] /\ olock = [f \in Opens |-> None]
    /\ dataLen = DiskLen
    /\ clusters = (DiskLen + SectorPerCluster - 1) \div SectorPerCluster
    /\ pages = [id \in PageIds |-> None] /\ page = [o \in PageObjs |-> Blank]
    /\ call = [t \in Tasks |-> Idle] /\ panicked = FALSE
    /\ values = [i \in Positions |-> {0, Disk(i)}]
    /\ calls = 0

Call(t, c) ==
    /\ At(t, "idle") /\ calls < MaxCalls /\ calls' = calls + 1
    /\ call' = [call EXCEPT ![t] = c]
    /\ UNCHANGED <<fileVars, dataLen, clusters, cacheVars, panicked, values>>

\* FileDescriptor::read and write take the offset first; a sendfile with an
\* offset (read_at) does not look at it.
StartRead(t, f, n) ==
    Call(t, [Idle EXCEPT !.pc = "lock", !.op = "read", !.file = f, !.arg = n])
StartReadAt(t, i, n) ==
    Call(t, [Idle EXCEPT !.pc = "begin", !.op = "read", !.start = i, !.arg = n])
StartWrite(t, f, n) ==
    Call(t, [Idle EXCEPT !.pc = "lock", !.op = "write", !.file = f, !.arg = n, !.num = calls + 1])

\* The offset is locked for the whole transfer; O_APPEND moves it to the end.
\* Mutant: the lock is only held while the offset is read.
LockOffsetBug(t) ==
    LET c == call[t] IN
    /\ At(t, "lock") /\ olock[c.file] = None
    /\ LET start == IF c.op = "write" /\ c.file \in AppendOpens THEN dataLen ELSE offset[c.file]
       IN /\ offset' = [offset EXCEPT ![c.file] = start]
          /\ call' = [call EXCEPT ![t].pc = "begin", ![t].start = start]
    /\ UNCHANGED <<olock, dataLen, clusters, cacheVars, panicked, values, calls>>
LockOffset(t) ==
    LET c == call[t] IN
    /\ At(t, "lock") /\ olock[c.file] = None
    /\ olock' = [olock EXCEPT ![c.file] = t]
    /\ LET start == IF c.op = "write" /\ c.file \in AppendOpens THEN dataLen ELSE offset[c.file]
       IN /\ offset' = [offset EXCEPT ![c.file] = start]
          /\ call' = [call EXCEPT ![t].pc = "begin", ![t].start = start]
    /\ UNCHANGED <<dataLen, clusters, cacheVars, panicked, values, calls>>

\* lseek: SEEK_SET and SEEK_CUR work under the lock; SEEK_END reads the length
\* before it waits for the lock.  A negative result is EOVERFLOW.
StartSeek(t, f, i) ==
    \/ Call(t, [Idle EXCEPT !.pc = "seek", !.op = "set", !.file = f, !.arg = i])
    \/ Call(t, [Idle EXCEPT !.pc = "seek", !.op = "forward", !.file = f, !.arg = i])
    \/ Call(t, [Idle EXCEPT !.pc = "seek", !.op = "back", !.file = f, !.arg = i])
    \/ i <= dataLen /\ Call(t, [Idle EXCEPT !.pc = "seek", !.op = "set", !.file = f, !.arg = dataLen - i])

SetOffset(t) ==
    LET c == call[t] IN
    /\ At(t, "seek") /\ olock[c.file] = None
    /\ c.op = "forward" => offset[c.file] + c.arg <= MaxPos
    /\ offset' = [offset EXCEPT ![c.file] =
                    CASE c.op = "set" -> c.arg
                      [] c.op = "forward" -> @ + c.arg
                      [] c.op = "back" -> IF c.arg <= @ THEN @ - c.arg ELSE @]
    /\ call' = [call EXCEPT ![t] = Idle]
    /\ UNCHANGED <<olock, dataLen, clusters, cacheVars, panicked, values, calls>>

\* read_at: nothing to read past the end, else up to the end of the file as
\* it is now.
BeginRead(t) ==
    LET c == call[t] IN
    /\ At(t, "begin") /\ c.op = "read"
    /\ call' = [call EXCEPT ![t] = [Keep(c) EXCEPT
                  !.end = IF c.start > dataLen THEN c.start
                          ELSE c.start + Min2(c.arg, dataLen - c.start)]]
    /\ UNCHANGED <<fileVars, dataLen, clusters, cacheVars, panicked, values, calls>>

\* The numbers of the writes under way.
InProgress == {call[t].num : t \in Tasks} \ {0}

\* write_at, of a buffer that does not reach beyond the bound MaxPos.  From
\* here on a read may find the new value.
BeginWrite(t) ==
    LET c == call[t] end == Min2(c.start + c.arg, MaxPos) range == c.start..(end - 1) IN
    /\ At(t, "begin") /\ c.op = "write"
    /\ call' = [call EXCEPT ![t] = [Keep(c) EXCEPT !.end = end,
                  !.last = PageId(dataLen),
                  !.old = [i \in Positions |-> IF i \in range THEN values[i] \ InProgress ELSE {}]]]
    /\ values' = [i \in Positions |-> values[i] \cup (IF i \in range THEN {c.num} ELSE {})]
    /\ UNCHANGED <<fileVars, dataLen, clusters, cacheVars, panicked, calls>>
-----------------------------------------------------------------------------
\* With the page in hand its state is looked at.  It can only leave Invalid.
Use(t, o, state) ==
    call' = [call EXCEPT ![t].pc = IF state = "Invalid" THEN "guard" ELSE "copy", ![t].obj = o]

\* get_or_init_page looks the page up under the read lock ...
GetPage(t) ==
    LET c == call[t] o == pages[Pos(c)] IN
    /\ At(t, "page") /\ c.pos < c.end
    /\ IF o = None THEN Goto(t, "create") ELSE Use(t, o, page[o].state)
    /\ UNCHANGED <<fileVars, dataLen, clusters, cacheVars, panicked, values, calls>>

\* ... and inserts a new one under the write lock, asserting that there is
\* none: another task may have been faster.
CreatePage(t) ==
    LET c == call[t] o == CHOOSE o \in PageObjs : o \notin Cached \cup Held IN
    /\ At(t, "create")
    /\ IF pages[Pos(c)] /= None
       THEN panicked' = TRUE /\ UNCHANGED <<cacheVars, call>>
       ELSE /\ pages' = [pages EXCEPT ![Pos(c)] = o]
            /\ page' = [page EXCEPT ![o] = Blank]
            /\ Use(t, o, "Invalid")
            /\ UNCHANGED panicked
    /\ UNCHANGED <<fileVars, dataLen, clusters, values, calls>>

LockGuard(t) ==
    /\ At(t, "guard") /\ page[call[t].obj].guard = None
    /\ page' = [page EXCEPT ![call[t].obj].guard = t]
    /\ Goto(t, "fill")
    /\ UNCHANGED <<fileVars, dataLen, clusters, pages, panicked, values, calls>>

\* FatFile::read_page: the sectors of the clusters the file still has.
read_page(id, data) ==
    [s \in DOMAIN data |->
        LET i == id * PAGE_SIZE + s
        IN IF i \div SectorPerCluster < clusters THEN Disk(i) ELSE data[s]]

\* Whether a write reads the page first.  full_page_range is a range of
\* positions, but the page number is looked up in it.
InRange(c) ==
    /\ PageId(c.start) * PAGE_SIZE <= Pos(c)
    /\ Pos(c) < ((c.end + PAGE_SIZE - 1) \div PAGE_SIZE) * PAGE_SIZE

\* Under the guard the state is looked at again.
\* Mutant: a write that waited for the guard reads the page unconditionally.
MustFillBug(c) ==
    \/ c.op = "read" /\ page[c.obj].state = "Invalid"
    \/ c.op = "write" /\ Pos(c) <= c.last /\ InRange(c)
MustFill(c) ==
    /\ page[c.obj].state = "Invalid"
    /\ c.op = "write" => Pos(c) <= c.last /\ InRange(c)

\* The page is read, its new state stored, and the guard dropped.
\* Mutant: the guard of a page that needed no read is never dropped.
FillBug(t) ==
    LET c == call[t] o == c.obj IN
    /\ At(t, "fill")
    /\ page' = [page EXCEPT ![o] = [state |-> IF c.op = "write" THEN "Dirty" ELSE "Synced",
                                    guard |-> IF MustFill(c) THEN None ELSE @.guard,
                                    data |-> IF MustFill(c) THEN read_page(Pos(c), @.data) ELSE @.data]]
    /\ Goto(t, "copy")
    /\ UNCHANGED <<fileVars, dataLen, clusters, pages, panicked, values, calls>>
Fill(t) ==
    LET c == call[t] o == c.obj IN
    /\ At(t, "fill")
    /\ page' = [page EXCEPT ![o] =
         [state |-> IF c.op = "write" THEN "Dirty" ELSE IF @.state = "Invalid" THEN "Synced" ELSE @.state,
          guard |-> None,
          data |-> IF MustFill(c) THEN read_page(Pos(c), @.data) ELSE @.data]]
    /\ Goto(t, "copy")
    /\ UNCHANGED <<fileVars, dataLen, clusters, pages, panicked, values, calls>>

\* The positions of the current page the call still has to move.
Chunk(c) == c.pos..(Min2(c.end, (Pos(c) + 1) * PAGE_SIZE) - 1)

\* Mutant: the position advances to the next page even when the buffer ends.
CopyBug(t) ==
    LET c == call[t] IN
    /\ At(t, "copy")
    /\ page' = IF c.op = "read" THEN page
               ELSE [page EXCEPT ![c.obj].data =
                        [s \in DOMAIN @ |-> IF Pos(c) * PAGE_SIZE + s \in Chunk(c)
                                            THEN c.num ELSE @[s]]]
    /\ call' = [call EXCEPT ![t].pc = "page", ![t].obj = 0, ![t].pos = (Pos(c) + 1) * PAGE_SIZE]
    /\ UNCHANGED <<fileVars, dataLen, clusters, pages, panicked, values, calls>>
Copy(t) ==
    LET c == call[t] IN
    /\ At(t, "copy")
    /\ page' = IF c.op = "read" THEN page
               ELSE [page EXCEPT ![c.obj].data =
                        [s \in DOMAIN @ |-> IF Pos(c) * PAGE_SIZE + s \in Chunk(c)
                                            THEN c.num ELSE @[s]]]
    /\ call' = [call EXCEPT ![t].pc = "page", ![t].obj = 0,
                            ![t].pos = Min2(c.end, (Pos(c) + 1) * PAGE_SIZE)]
    /\ UNCHANGED <<fileVars, dataLen, clusters, pages, panicked, values, calls>>

Unlock(c) == olock' = IF c.file = None THEN olock ELSE [olock EXCEPT ![c.file] = None]

\* The user buffer of this page is invalid: the call fails, the offset stays
\* and what was copied before stays too, without growing the file.
Fault(t) ==
    /\ At(t, "copy")
    /\ Unlock(call[t])
    /\ call' = [call EXCEPT ![t] = Idle]
    /\ UNCHANGED <<offset, dataLen, clusters, cacheVars, panicked, values, calls>>

\* The end of the transfer: a write grows the file, the offset moves on and is
\* unlocked.  What a finished write replaced may no longer be read.
Finish(t) ==
    LET c == call[t] IN
    /\ At(t, "page") /\ c.pos = c.end
    /\ IF c.op = "write"
       THEN /\ dataLen' = IF dataLen < c.end THEN c.end ELSE dataLen
            /\ values' = [i \in Positions |-> values[i] \ (c.old[i] \ {c.num})]
       ELSE UNCHANGED <<dataLen, values>>
    /\ offset' = IF c.file = None THEN offset ELSE [offset EXCEPT ![c.file] = c.end]
    /\ Unlock(c)
    /\ call' = [call EXCEPT ![t] = Idle]
    /\ UNCHANGED <<clusters, cacheVars, panicked, calls>>
-----------------------------------------------------------------------------
\* openat with O_TRUNC: resize(0) looks at the length ...
Resize(t) ==
    Call(t, [Idle EXCEPT !.pc = "free", !.op = "truncate", !.last = PageId(dataLen)])

\* ... and frees the pages after the first if the file reached beyond it.  A
\* task may still hold one of them: its write may be lost.
FreePages(t) ==
    LET freed == IF call[t].last > 0 THEN PageIds \ {0} ELSE {} IN
    /\ At(t, "free")
    /\ pages' = [id \in PageIds |-> IF id \in freed THEN None ELSE pages[id]]
    /\ values' = [i \in Positions |-> values[i] \cup {0, Disk(i)}]
    /\ call' = [u \in Tasks |-> IF u = t THEN [call[t] EXCEPT !.pc = "truncate"]
                                ELSE [call[u] EXCEPT !.old = Idle.old]]
    /\ UNCHANGED <<fileVars, dataLen, clusters, page, panicked, calls>>

\* FatFile::truncate gives the clusters back ...
FreeClusters(t) ==
    /\ At(t, "truncate")
    /\ IF dataLen > 0
       THEN clusters' = 0 /\ Goto(t, "setlen")
       ELSE UNCHANGED clusters /\ call' = [call EXCEPT ![t] = Idle]
    /\ UNCHANGED <<fileVars, dataLen, cacheVars, panicked, values, calls>>

\* ... and then sets the length.
SetLen(t) ==
    /\ At(t, "setlen")
    /\ dataLen' = 0
    /\ call' = [call EXCEPT ![t] = Idle]
    /\ UNCHANGED <<fileVars, clusters, cacheVars, panicked, values, calls>>
-----------------------------------------------------------------------------
Start(t) ==
    \/ \E f \in Opens :
         \/ \E n \in ReadLens : StartRead(t, f, n)
         \/ \E n \in WriteLens : StartWrite(t, f, n)
         \/ \E i \in Seeks : StartSeek(t, f, i)
    \/ \E i \in Seeks, n \in ReadLens : StartReadAt(t, i, n)
    \/ Resize(t)

\* A thread inside a call goes on; the two SleepMutexes are waited for.
Step(t) ==
    \/ BeginRead(t) \/ BeginWrite(t) \/ GetPage(t) \/ CreatePage(t)
    \/ Fill(t) \/ Copy(t) \/ Fault(t) \/ Finish(t)
    \/ FreePages(t) \/ FreeClusters(t) \/ SetLen(t)
Acquire(t) == LockOffset(t) \/ SetOffset(t) \/ LockGuard(t)

Next == \E t \in Tasks : Start(t) \/ Step(t) \/ Acquire(t)
Spec == Init /\ [][Next]_vars
-----------------------------------------------------------------------------
\* The type invariant: pages, locks and the positions of the calls.
TypeOK ==
    /\ offset \in [Opens -> 0..MaxPos] /\ olock \in [Opens -> Tasks \cup {None}]
    /\ dataLen \in 0..MaxPos /\ clusters \in 0..MaxPos
    /\ pages \in [PageIds -> PageObjs \cup {None}]
    /\ \A o \in PageObjs : page[o].state \in PageState /\ page[o].guard \in Tasks \cup {None}
    /\ \A id1, id2 \in PageIds : pages[id1] = pages[id2] /\ id1 /= id2 => pages[id1] = None
    /\ \A t \in Tasks : call[t].pos \in 0..call[t].end /\ call[t].end <= MaxPos

\* A completed write is what later reads find (inode.rs:158, 221): while tasks
\* fill, dirty and free pages around each other, what a read is about to copy
\* from a cached page is at every position a value no completed write has
\* replaced.  (A page freed under the reader belongs to the time before.)  A
\* position never written, or truncated, holds the disk's byte or zero.
WritesSurvive ==
    \A t \in Tasks : call[t].pc = "copy" /\ call[t].op = "read" /\ call[t].obj \in Cached =>
        \A i \in Chunk(call[t]) :
            page[call[t].obj].data[i % PAGE_SIZE] \in values[i]

\* Two tasks sharing an open file never transfer the same bytes: the offset
\* stays locked over the awaits of a transfer (file.rs:267, 292).
NoSharedRange ==
    \A t, u \in Tasks :
        LET c == call[t] d == call[u] IN
        t /= u /\ c.file = d.file /\ c.file /= None =>
            (c.start..(c.end - 1)) \cap (d.start..(d.end - 1)) = {}

\* No call hangs: whoever waits for the offset of a file or the state_guard of
\* a page waits for a task that runs, or that itself waits for a state_guard
\* whose holder runs.  (The offset is taken first, at most one guard after it,
\* and every return and error path gives both back.)
Waiting(t) == call[t].pc \in {"lock", "seek", "guard"}
Running(t) == call[t].pc /= "idle" /\ ~ Waiting(t)
GuardHolder(t) == page[call[t].obj].guard
WaitsEnd ==
    /\ \A o \in PageObjs : page[o].guard /= None => Running(page[o].guard)
    /\ \A f \in Opens : olock[f] /= None =>
         LET u == olock[f]
         IN Running(u) \/ (call[u].pc = "guard" /\ (GuardHolder(u) /= None => Running(GuardHolder(u))))

\* The assertion of PageCache::create (page_cache.rs:35): a page is never
\* inserted twice.
NoPanic == ~ panicked
=============================================================================
