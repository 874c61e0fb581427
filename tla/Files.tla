------------------------------- MODULE Files --------------------------------
(***************************************************************************)
(* Descriptor tables and pipes: FdTable and FileDescriptor                 *)
(* (crates/libkernel/src/fs/file.rs), Pipe (fs/pipe.rs) and the system     *)
(* calls on them (crates/kernel/src/syscall/fs.rs), with fork, exec, exit  *)
(* and reaping, which decide how long the ends of a pipe stay open.        *)
(*                                                                         *)
(* A process has one thread, so only one call of it is under way.  The     *)
(* table is changed under the process's inner lock in one step.  A call    *)
(* that moves bytes works on a clone of the descriptor and interleaves     *)
(* with the other processes byte by byte.  Bytes are numbered by pipe.     *)
(***************************************************************************)
EXTENDS Naturals, SequencesExt

CONSTANTS Procs,        \* process objects
          Shell,        \* the process that exists at the start
          Pipes,        \* pipe objects (channel and InodeMeta)
          None,         \* no pipe, no process
          PIPE_CAPACITY,
          RlimCurr,     \* the soft limit on open descriptors
          FdArgs,       \* descriptor numbers programs pass
          Lens,         \* lengths programs pass to read and write
          OpenAcc,      \* access modes programs pass to openat
          CloArgs,      \* values of CLOEXEC they pass to openat, pipe2 and dup3
          MaxOps,       \* bound: table operations in a behaviour
          MaxSent       \* bound: bytes sent through one pipe

ASSUME FilesAssumption ==
    /\ Shell \in Procs /\ None \notin Procs \cup Pipes
    /\ PIPE_CAPACITY \in Nat \ {0} /\ RlimCurr \in Nat /\ FdArgs \subseteq Nat
    /\ Lens \subseteq Nat /\ OpenAcc \subseteq {"r", "w", "rw"}
    /\ CloArgs \subseteq BOOLEAN /\ MaxOps \in Nat /\ MaxSent \in Nat

VARIABLES
    table,    \* inner.fd_table.files: descriptor number -> FileDescriptor
    proc,     \* "none", "run" or "zombie"
    parent,   \* inner.parent; a process without one belongs to init
    chan,     \* the bytes in the channel of each pipe
    sent,     \* number of bytes the channel has accepted
    call,     \* the call under way in each process
    ended,    \* pipes on which a read reported the end of the data
    ops       \* table operations so far

vars == <<table, proc, parent, chan, sent, call, ended, ops>>
ioVars == <<chan, sent, ended>>

\* FileDescriptor: a pipe end is a reader or a writer, never both; every
\* other kind of file has pipe None.  Of the flags only CLOEXEC matters here.
Descriptor == [pipe : Pipes \cup {None}, acc : {"r", "w", "rw"}, cloexec : BOOLEAN]
Desc(k, acc, cloexec) == [pipe |-> k, acc |-> acc, cloexec |-> cloexec]
NoDesc == Desc(None, "none", FALSE)
readable(d) == d.acc \in {"r", "rw"}
writable(d) == d.acc \in {"w", "rw"}

with_stdio == [fd \in 0..2 |-> Desc(None, IF fd = 0 THEN "r" ELSE "w", FALSE)]

\* A descriptor already at fd is dropped.
insert(t, fd, d) == [x \in DOMAIN t \cup {fd} |-> IF x = fd THEN d ELSE t[x]]

\* The numbers of S in increasing order, as a BTreeMap iterates them.
Sorted(S) == [i \in 1..Cardinality(S) |->
                 CHOOSE k \in S : Cardinality({j \in S : j < k}) = i - 1]

\* The smallest free number from `from` on, by one walk over the used ones.
\* Mutant: the walk starts at the first used number instead of at `from`.
FreeFromBug(t, from) ==
    LET keys == Sorted({k \in DOMAIN t : k >= from})
    IN FoldLeft(LAMBDA fd, k : IF fd = k THEN fd + 1 ELSE fd,
                IF keys = <<>> THEN from ELSE Head(keys), keys)
FreeFrom(t, from) ==
    LET keys == Sorted({k \in DOMAIN t : k >= from})
    IN FoldLeft(LAMBDA fd, k : IF fd = k THEN fd + 1 ELSE fd, from, keys)

HasRoom(t, n) == Cardinality(DOMAIN t) + n <= RlimCurr

\* The table after a successful add_from.
add_from(t, d, from) == insert(t, FreeFrom(t, from), d)

\* The two numbers add_many hands out: the candidate goes up by one with
\* every used number, whether it was equal to it or not, so after a gap it
\* falls behind and may name a number in use.
PairFrom(t) ==
    LET step(acc, k) ==
          IF acc.fd /= k /\ Len(acc.ret) >= 2 THEN acc
          ELSE [fd |-> acc.fd + 1,
                ret |-> IF acc.fd /= k THEN Append(acc.ret, acc.fd) ELSE acc.ret]
        walk == FoldLeft(step, [fd |-> 0, ret |-> <<>>], Sorted(DOMAIN t))
    IN SubSeq(walk.ret \o <<walk.fd, walk.fd + 1>>, 1, 2)
add_many(t, d, e) == LET fds == PairFrom(t) IN insert(insert(t, fds[1], d), fds[2], e)

close_on_exec(t) == Restrict(t, {fd \in DOMAIN t : ~ t[fd].cloexec})

\* A call under way: the cloned descriptor, the target of a sendfile, the
\* length of the current segment and what is done of it, the lengths of the
\* segments to come and the bytes counted so far.
Idle == [op |-> "idle", desc |-> NoDesc, out |-> NoDesc, want |-> 0, got |-> 0,
         rest |-> <<>>, count |-> 0]
Busy(p) == call[p].op /= "idle"

\* Who holds a Sender or a Receiver of pipe k: a descriptor in the table of a
\* process that is not yet dropped, or the clone a call works on.
Holds(p, k, acc) ==
    \/ \E fd \in DOMAIN table[p] : table[p][fd].pipe = k /\ table[p][fd].acc = acc
    \/ \E d \in {call[p].desc, call[p].out} : d.pipe = k /\ d.acc = acc
Senders(k) == {p \in Procs : Holds(p, k, "w")}
Receivers(k) == {p \in Procs : Holds(p, k, "r")}
-----------------------------------------------------------------------------
Init ==
    /\ table = [p \in Procs |-> IF p = Shell THEN with_stdio ELSE <<>>]
    /\ proc = [p \in Procs |-> IF p = Shell THEN "run" ELSE "none"]
    /\ parent = [p \in Procs |-> None]
    /\ chan = [k \in Pipes |-> <<>>] /\ sent = [k \in Pipes |-> 0]
    /\ call = [p \in Procs |-> Idle] /\ ended = {} /\ ops = 0

\* A process between two calls.
User(p) == proc[p] = "run" /\ ~ Busy(p)

\* A table operation of p with the result t.
SetTable(p, t) ==
    /\ User(p) /\ ops < MaxOps /\ ops' = ops + 1
    /\ table' = [table EXCEPT ![p] = t]
    /\ UNCHANGED <<proc, parent, chan, sent, call, ended>>

\* sys_openat once the file is found: EMFILE leaves the table alone.
sys_openat(p, acc, cloexec) ==
    /\ HasRoom(table[p], 1)
    /\ SetTable(p, add_from(table[p], Desc(None, acc, cloexec), 0))

sys_close(p, fd) ==
    /\ fd \in DOMAIN table[p]
    /\ SetTable(p, Restrict(table[p], DOMAIN table[p] \ {fd}))

sys_pipe2(p, cloexec) ==
    /\ User(p) /\ ops < MaxOps /\ HasRoom(table[p], 2)
    /\ \E k \in Pipes :
         /\ Senders(k) \cup Receivers(k) = {}
         /\ table' = [table EXCEPT ![p] =
                        add_many(@, Desc(k, "r", cloexec), Desc(k, "w", cloexec))]
         /\ chan' = [chan EXCEPT ![k] = <<>>] /\ sent' = [sent EXCEPT ![k] = 0]
         /\ ended' = ended \ {k}
    /\ ops' = ops + 1
    /\ UNCHANGED <<proc, parent, call>>

\* F_DUPFD and F_DUPFD_CLOEXEC, F_SETFD.
sys_fcntl64(p, fd) ==
    /\ fd \in DOMAIN table[p]
    /\ \/ \E from \in FdArgs, cloexec \in BOOLEAN :
            /\ HasRoom(table[p], 1)
            /\ SetTable(p, add_from(table[p],
                             [table[p][fd] EXCEPT !.cloexec = @ \/ cloexec], from))
       \/ \E set \in BOOLEAN :
            SetTable(p, [table[p] EXCEPT ![fd].cloexec = set])

sys_dup(p, fd) ==
    /\ fd \in DOMAIN table[p] /\ HasRoom(table[p], 1)
    /\ SetTable(p, add_from(table[p], table[p][fd], 0))

\* No look at the limit; a descriptor already at `new` is dropped.
sys_dup3(p, old, new, cloexec) ==
    /\ old \in DOMAIN table[p] /\ old /= new
    /\ SetTable(p, insert(table[p], new, [table[p][old] EXCEPT !.cloexec = cloexec]))
-----------------------------------------------------------------------------
\* The table is cloned, so every end the parent holds gets a second holder.
fork(p, c) ==
    /\ User(p) /\ proc[c] = "none"
    /\ proc' = [proc EXCEPT ![c] = "run"] /\ parent' = [parent EXCEPT ![c] = p]
    /\ table' = [table EXCEPT ![c] = table[p]]
    /\ UNCHANGED <<ioVars, call, ops>>

\* exec asserts that the process has no children; an error after the old
\* address space is gone ends the process (exit).
exec(p) ==
    /\ User(p) /\ \A c \in Procs : parent[c] /= p
    /\ table' = [table EXCEPT ![p] = close_on_exec(@)]
    /\ UNCHANGED <<proc, parent, ioVars, call, ops>>

\* exit_thread frees the address space but not the table: the descriptors of
\* a zombie stay open until it is reaped.  The children go to init.
exit_thread(p) ==
    /\ User(p)
    /\ proc' = [proc EXCEPT ![p] = "zombie"]
    /\ parent' = [c \in Procs |-> IF parent[c] = p THEN None ELSE parent[c]]
    /\ UNCHANGED <<table, ioVars, call, ops>>

\* sys_wait4 of the parent, or of init for a process that lost its parent,
\* removes the last reference: the table is dropped.
drop(c) ==
    /\ proc[c] = "zombie" /\ (parent[c] /= None => User(parent[c]))
    /\ proc' = [proc EXCEPT ![c] = "none"] /\ parent' = [parent EXCEPT ![c] = None]
    /\ table' = [table EXCEPT ![c] = <<>>]
    /\ UNCHANGED <<ioVars, call, ops>>
-----------------------------------------------------------------------------
\* prepare_io clones the descriptor under the lock and checks its mode.
\* Only pipes move bytes in this module: a call on another file is one of
\* Inode or Tty.
prepare_io(p, fd, acc) ==
    /\ fd \in DOMAIN table[p]
    /\ CASE acc = "r" -> readable(table[p][fd]) [] acc = "w" -> writable(table[p][fd])

Start(p, op, d, out, lens) ==
    call' = [call EXCEPT ![p] = [Idle EXCEPT !.op = op, !.desc = d, !.out = out,
                                    !.want = Head(lens), !.rest = Tail(lens)]]

\* sys_read, and sys_readv of two segments.
sys_read(p, fd, lens) ==
    /\ User(p) /\ prepare_io(p, fd, "r") /\ table[p][fd].pipe /= None
    /\ Start(p, "read", table[p][fd], NoDesc, lens)
    /\ UNCHANGED <<table, proc, parent, ioVars, ops>>

sys_write(p, fd, lens) ==
    /\ User(p) /\ prepare_io(p, fd, "w") /\ table[p][fd].pipe /= None
    /\ Start(p, "write", table[p][fd], NoDesc, lens)
    /\ UNCHANGED <<table, proc, parent, ioVars, ops>>

\* From a pipe to any writable file, or from a file, which delivers up to n
\* bytes at once, to a pipe.
sys_sendfile64(p, out, in, n) ==
    /\ User(p) /\ prepare_io(p, in, "r") /\ prepare_io(p, out, "w")
    /\ LET d == table[p][in] e == table[p][out] IN
         \/ d.pipe /= None /\ Start(p, "read", d, e, <<n>>)
         \/ /\ d.pipe = None /\ e.pipe /= None
            /\ \E m \in 1..n : Start(p, "write", e, NoDesc, <<m>>)
    /\ UNCHANGED <<table, proc, parent, ioVars, ops>>

\* recv().await yields a byte if there is one.
\* The user buffer may turn out invalid only now: the byte is gone.
RecvByte(p) ==
    LET c == call[p] k == c.desc.pipe IN
    /\ c.op = "read" /\ c.got < c.want /\ chan[k] /= <<>>
    /\ chan' = [chan EXCEPT ![k] = Tail(@)]
    /\ \/ call' = [call EXCEPT ![p].got = @ + 1, ![p].count = @ + 1]
       \/ /\ c.out = NoDesc
          /\ call' = [call EXCEPT ![p] = Idle]
    /\ UNCHANGED <<table, proc, parent, sent, ended, ops>>

\* recv() fails once the channel is empty and its last Sender is dropped.
\* Mutant: an empty channel is taken for the end of the data.
ChannelEndBug(k) == chan[k] = <<>>
ChannelEnd(k) == chan[k] = <<>> /\ Senders(k) = {}

\* A read that ran into the end of the data, before it had all it asked for.
\* Mutant: a read that has no byte yet keeps waiting for one.
ReadEndBug(p) ==
    LET c == call[p] k == c.desc.pipe IN
    /\ c.op = "read" /\ 0 < c.got /\ c.got < c.want /\ ChannelEnd(k)
    /\ ended' = ended \cup {k}
    /\ call' = [call EXCEPT ![p].want = c.got]
    /\ UNCHANGED <<table, proc, parent, chan, sent, ops>>
ReadEnd(p) ==
    LET c == call[p] k == c.desc.pipe IN
    /\ c.op = "read" /\ c.got < c.want /\ ChannelEnd(k)
    /\ ended' = ended \cup {k}
    /\ call' = [call EXCEPT ![p] = [c EXCEPT !.want = c.got,
                                    !.rest = IF c.got = 0 THEN <<>> ELSE c.rest]]
    /\ UNCHANGED <<table, proc, parent, chan, sent, ops>>

\* try_send fails when the channel is full or has no Receiver left.
Accepts(k) == Len(chan[k]) < PIPE_CAPACITY /\ Receivers(k) /= {}

\* A byte that was refused is counted too, and the segment ends.
write(p) ==
    LET c == call[p] k == c.desc.pipe IN
    /\ c.op = "write" /\ c.got < c.want
    /\ IF Accepts(k)
       THEN /\ sent[k] < MaxSent
            /\ chan' = [chan EXCEPT ![k] = Append(@, sent[k] + 1)]
            /\ sent' = [sent EXCEPT ![k] = @ + 1]
            /\ call' = [call EXCEPT ![p].got = @ + 1, ![p].count = @ + 1]
       ELSE /\ call' = [call EXCEPT ![p].want = c.got + 1, ![p].got = @ + 1,
                                    ![p].count = @ + 1]
            /\ UNCHANGED <<chan, sent>>
    /\ UNCHANGED <<table, proc, parent, ended, ops>>

\* The segment is done: the next one (whose buffer may be invalid), the write
\* of a sendfile, or the return.
NextSegment(p) ==
    LET c == call[p] IN
    /\ c.op \in {"read", "write"} /\ c.got = c.want
    /\ \/ /\ c.rest /= <<>>
          /\ call' = [call EXCEPT ![p] = [c EXCEPT !.want = Head(c.rest), !.got = 0,
                                                   !.rest = Tail(c.rest)]]
       \/ /\ c.rest /= <<>>
          /\ call' = [call EXCEPT ![p] = Idle]
       \/ /\ c.rest = <<>> /\ c.out.pipe /= None
          /\ call' = [call EXCEPT ![p] = [Idle EXCEPT !.op = "write", !.desc = c.out,
                                                      !.want = c.count]]
       \/ /\ c.rest = <<>> /\ c.out.pipe = None
          /\ call' = [call EXCEPT ![p].op = "ret"]
    /\ UNCHANGED <<table, proc, parent, ioVars, ops>>

\* The count goes to a0 and the cloned descriptor is dropped.
Return(p) ==
    /\ call[p].op = "ret"
    /\ call' = [call EXCEPT ![p] = Idle]
    /\ UNCHANGED <<table, proc, parent, ioVars, ops>>
-----------------------------------------------------------------------------
TableOp(p) ==
    \/ \E acc \in OpenAcc, cloexec \in CloArgs : sys_openat(p, acc, cloexec)
    \/ \E cloexec \in CloArgs : sys_pipe2(p, cloexec)
    \/ \E fd \in FdArgs : sys_close(p, fd) \/ sys_dup(p, fd) \/ sys_fcntl64(p, fd)
    \/ \E old, new \in FdArgs, cloexec \in CloArgs : sys_dup3(p, old, new, cloexec)

LifeCycle(p) == (\E c \in Procs : fork(p, c)) \/ exec(p) \/ exit_thread(p) \/ drop(p)

Segments == {<<n>> : n \in Lens} \cup {<<1, n>> : n \in Lens}
StartIo(p) ==
    \/ \E fd \in FdArgs, lens \in Segments : sys_read(p, fd, lens) \/ sys_write(p, fd, lens)
    \/ \E out, in \in FdArgs, n \in Lens : sys_sendfile64(p, out, in, n)

\* What a call under way does next.
Step(p) == RecvByte(p) \/ ReadEnd(p) \/ write(p) \/ NextSegment(p) \/ Return(p)

Next == \E p \in Procs : TableOp(p) \/ LifeCycle(p) \/ StartIo(p) \/ Step(p)

Spec == Init /\ [][Next]_vars

\* A thread inside the kernel whose await can go on is polled again: recv()
\* registers a listener that a send and the drop of the last Sender notify.
Fairness == \A p \in Procs : WF_vars(Step(p))
FairSpec == Spec /\ Fairness
-----------------------------------------------------------------------------
\* Pipe::read gives up before its buffer is full only at the end of the data
\* (pipe.rs:31): from then on, whatever fork, dup, exec, exit and calls still
\* under way do with their copies of the descriptors, nobody holds a write
\* end and no byte is left, so no later read can get one.
EofIsFinal == \A k \in ended : chan[k] = <<>> /\ Senders(k) = {}

\* FdTable::add_from (file.rs:188) promises the smallest free descriptor from
\* `from` on: in every table a process can build the walk over the sorted
\* keys finds it.
FreeFromIsLeast ==
    \A p \in Procs : \A from \in FdArgs \cup {0} :
        LET fd == FreeFrom(table[p], from)
        IN fd >= from /\ fd \notin DOMAIN table[p] /\ from..(fd - 1) \subseteq DOMAIN table[p]

\* A call that waits for bytes from a pipe nobody can write to any more comes
\* back, even if the last write end goes away while it is asleep (the drop of
\* a Sender in a reaped process, in an exec or in a call of another process).
ReaderEnds ==
    \A p \in Procs, k \in Pipes :
        (call[p].op = "read" /\ call[p].desc.pipe = k /\ Senders(k) = {}) ~> ~ Busy(p)
=============================================================================
