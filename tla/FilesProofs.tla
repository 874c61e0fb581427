---------------------------- MODULE FilesProofs -----------------------------
(***************************************************************************)
(* The end of the data of a pipe is final, for any number of processes,    *)
(* pipes and descriptors, whatever their limits and capacity.              *)
(***************************************************************************)
EXTENDS Files, TLAPS

\* A descriptor of a pipe is one of its two ends.
GoodDesc(d) ==
    /\ d = Desc(d.pipe, d.acc, d.cloexec)
    /\ d.pipe \in Pipes \cup {None}
    /\ d.pipe # None => d.acc \in {"r", "w"}
GoodTable(t) == \A fd \in DOMAIN t : GoodDesc(t[fd])

\* A call that writes to a pipe, now or later, holds its write end.
GoodCall(c) ==
    /\ {"op", "desc", "out", "want", "got", "rest", "count"} \subseteq DOMAIN c
    /\ c.op = "read" => c.desc.pipe \in Pipes
    /\ c.op = "write" => c.desc.pipe \in Pipes /\ c.desc.acc = "w"
    /\ c.out.pipe # None => c.out.pipe \in Pipes /\ c.out.acc = "w"

FilesTypes ==
    /\ DOMAIN table = Procs /\ table = [p \in Procs |-> table[p]]
    /\ DOMAIN call = Procs /\ call = [p \in Procs |-> call[p]]
    /\ DOMAIN chan = Pipes /\ chan = [k \in Pipes |-> chan[k]]
    /\ ended \subseteq Pipes
    /\ \A p \in Procs : GoodTable(table[p]) /\ GoodCall(call[p])

FilesInv == FilesTypes /\ EofIsFinal

\* An end that some table holds; anything that is not a pipe counts as held.
InTables(d) ==
    d.pipe = None \/ \E p \in Procs : \E fd \in DOMAIN table[p] :
                         table[p][fd].pipe = d.pipe /\ table[p][fd].acc = d.acc

\* A pipe that nobody can write to stays so.
NoNewSender == \A k \in Pipes : Senders(k) = {} => Senders(k)' = {}

\* What a step leaves alone is still right.
LEMMA Quiet ==
    ASSUME FilesInv, FilesTypes', NoNewSender, chan' = chan, ended' = ended
    PROVE  FilesInv'
BY Zenon DEF FilesInv, FilesTypes, EofIsFinal, NoNewSender, Senders, Holds

LEMMA Unmoved ==
    ASSUME FilesInv, UNCHANGED <<table, call, chan, ended>>
    PROVE  FilesInv'
<1>1. FilesTypes' BY Zenon DEF FilesInv, FilesTypes, GoodTable, GoodDesc
<1>2. \A q, k, acc : Holds(q, k, acc)' <=> Holds(q, k, acc) BY Zenon DEF Holds
<1>3. NoNewSender BY <1>2, Zenon DEF NoNewSender, Senders
<1> QED BY <1>1, <1>3, Quiet, Zenon

\* A step that gives process p a table of descriptors that are in tables.
LEMMA TableStep ==
    ASSUME FilesInv, NEW p \in Procs, NEW t, table' = [table EXCEPT ![p] = t],
           UNCHANGED <<call, chan, ended>>,
           GoodTable(t), \A fd \in DOMAIN t : InTables(t[fd])
    PROVE  FilesInv'
<1>1. FilesTypes' BY DEF FilesInv, FilesTypes, GoodTable, GoodDesc
<1>2. NoNewSender
  <2> SUFFICES ASSUME NEW k \in Pipes, NEW q \in Procs, Holds(q, k, "w")'
               PROVE  \E r \in Procs : Holds(r, k, "w")
    BY Zenon DEF NoNewSender, Senders
  <2>1. CASE \E fd \in DOMAIN table'[q] : table'[q][fd].pipe = k /\ table'[q][fd].acc = "w"
    <3>1. CASE q = p
      <4>1. table'[q] = t BY <3>1, Zenon DEF FilesInv, FilesTypes
      <4>2. PICK fd \in DOMAIN t : t[fd].pipe = k /\ t[fd].acc = "w" BY <2>1, <4>1, Zenon
      <4>3. InTables(t[fd]) /\ k # None BY <4>2, FilesAssumption, Zenon
      <4> QED BY <4>2, <4>3, Zenon DEF InTables, Holds
    <3>2. CASE q # p
      <4>1. table'[q] = table[q] BY <3>2, Zenon DEF FilesInv, FilesTypes
      <4> QED BY <2>1, <4>1, Zenon DEF Holds
    <3> QED BY <3>1, <3>2, Zenon
  <2>2. CASE \E d \in {call'[q].desc, call'[q].out} : d.pipe = k /\ d.acc = "w"
    BY <2>2, Zenon DEF Holds
  <2> QED BY <2>1, <2>2, Zenon DEF Holds
<1> QED BY <1>1, <1>2, Quiet, Zenon

\* Only the call of p moves on; what it then works on is held by p already.
CallMoves(p) ==
    /\ DOMAIN call' = Procs /\ call' = [q \in Procs |-> call'[q]]
    /\ \A q \in Procs : q # p => call'[q] = call[q]
    /\ GoodCall(call'[p])
    /\ \A d \in {call'[p].desc, call'[p].out} : d.pipe = None \/ Holds(p, d.pipe, d.acc)

LEMMA CallStep ==
    ASSUME FilesInv, NEW p \in Procs, CallMoves(p), UNCHANGED table,
           DOMAIN chan' = Pipes /\ chan' = [k \in Pipes |-> chan'[k]], ended' \subseteq Pipes
    PROVE  NoNewSender /\ FilesTypes'
<1>1. NoNewSender
  <2> SUFFICES ASSUME NEW k \in Pipes, NEW q \in Procs, Holds(q, k, "w")'
               PROVE  \E r \in Procs : Holds(r, k, "w")
    BY Zenon DEF NoNewSender, Senders
  <2>1. CASE q # p BY <2>1 DEF Holds, CallMoves
  <2>2. CASE q = p
    <3>1. CASE \E d \in {call'[p].desc, call'[p].out} : d.pipe = k /\ d.acc = "w"
      BY <3>1, FilesAssumption DEF CallMoves
    <3>2. CASE \E fd \in DOMAIN table[p] : table[p][fd].pipe = k /\ table[p][fd].acc = "w"
      BY <3>2, Zenon DEF Holds
    <3> QED BY <2>2, <3>1, <3>2, Zenon DEF Holds
  <2> QED BY <2>1, <2>2, Zenon
<1>2. \A q \in Procs : GoodTable(table'[q]) /\ GoodCall(call'[q])
  BY Zenon DEF FilesInv, FilesTypes, CallMoves
<1>3. /\ DOMAIN table' = Procs /\ table' = [q \in Procs |-> table'[q]]
      /\ DOMAIN call' = Procs /\ call' = [q \in Procs |-> call'[q]]
  BY Zenon DEF FilesInv, FilesTypes, CallMoves
<1>4. FilesTypes' BY <1>2, <1>3, Zenon DEF FilesTypes, GoodTable, GoodDesc, GoodCall
<1> QED BY <1>1, <1>4, Zenon

\* A table with one descriptor more, a table cut down, an end in a table.
LEMMA AddOne ==
    ASSUME FilesInv, NEW p \in Procs, NEW fd, NEW d, GoodDesc(d), InTables(d)
    PROVE  LET t == insert(table[p], fd, d)
           IN GoodTable(t) /\ \A x \in DOMAIN t : InTables(t[x])
<1> DEFINE t == insert(table[p], fd, d)
<1>1. DOMAIN t = {fd} \cup DOMAIN table[p] BY Zenon DEF insert
<1>2. \A x \in DOMAIN t : t[x] = IF x = fd THEN d ELSE table[p][x] BY Zenon DEF insert
<1>3. \A x \in DOMAIN table[p] : GoodDesc(table[p][x]) /\ InTables(table[p][x])
  BY Zenon DEF FilesInv, FilesTypes, GoodTable, InTables
<1> HIDE DEF t
<1>4. GoodTable(t) /\ \A x \in DOMAIN t : InTables(t[x])
  BY <1>1, <1>2, <1>3, Zenon DEF GoodTable
<1> QED BY <1>4, Zenon DEF t

LEMMA CutDown ==
    ASSUME FilesInv, NEW p \in Procs, NEW S \in SUBSET DOMAIN table[p]
    PROVE  LET t == Restrict(table[p], S)
           IN GoodTable(t) /\ \A x \in DOMAIN t : InTables(t[x])
BY Zenon DEF FilesInv, FilesTypes, GoodTable, InTables, Restrict

LEMMA TableHolds ==
    ASSUME FilesInv, NEW p \in Procs, NEW fd \in DOMAIN table[p]
    PROVE  /\ GoodDesc(table[p][fd]) /\ InTables(table[p][fd])
           /\ Holds(p, table[p][fd].pipe, table[p][fd].acc)
BY Zenon DEF FilesInv, FilesTypes, GoodTable, InTables, Holds

LEMMA Recloexec ==
    ASSUME NEW d, NEW b, GoodDesc(d), InTables(d)
    PROVE  GoodDesc([d EXCEPT !.cloexec = b]) /\ InTables([d EXCEPT !.cloexec = b])
<1>1. [d EXCEPT !.cloexec = b] = Desc(d.pipe, d.acc, b) BY DEF GoodDesc, Desc
<1> QED BY <1>1, Zenon DEF GoodDesc, InTables, Desc

-----------------------------------------------------------------------------
LEMMA FilesInit == Init => FilesInv
<1> SUFFICES ASSUME Init PROVE FilesInv BY Zenon
<1>1. GoodTable(with_stdio)
  BY FilesAssumption, Zenon DEF GoodTable, GoodDesc, with_stdio, Desc
<1>2. GoodTable(<<>>) BY DEF GoodTable
<1>3. GoodCall(Idle) BY Zenon DEF GoodCall, Idle, NoDesc, Desc
<1> QED BY <1>1, <1>2, <1>3, Zenon DEF Init, FilesInv, FilesTypes, EofIsFinal

LEMMA OpenKeeps ==
    ASSUME FilesInv, NEW p \in Procs, NEW acc, NEW cloexec, sys_openat(p, acc, cloexec)
    PROVE  FilesInv'
<1> DEFINE d == Desc(None, acc, cloexec)
<1>1. GoodDesc(d) /\ InTables(d) BY Zenon DEF GoodDesc, InTables, Desc
<1> QED BY <1>1, AddOne, TableStep, Zenon DEF sys_openat, SetTable, add_from

LEMMA CloseKeeps ==
    ASSUME FilesInv, NEW p \in Procs, NEW fd, sys_close(p, fd)
    PROVE  FilesInv'
BY CutDown, TableStep, Zenon DEF sys_close, SetTable

LEMMA DupKeeps ==
    ASSUME FilesInv, NEW p \in Procs, NEW fd, sys_dup(p, fd)
    PROVE  FilesInv'
BY TableHolds, AddOne, TableStep, Zenon DEF sys_dup, SetTable, add_from

LEMMA Dup3Keeps ==
    ASSUME FilesInv, NEW p \in Procs, NEW old, NEW new, NEW cloexec,
           sys_dup3(p, old, new, cloexec)
    PROVE  FilesInv'
<1> DEFINE d == [table[p][old] EXCEPT !.cloexec = cloexec]
<1>1. GoodDesc(d) /\ InTables(d) BY TableHolds, Recloexec, Zenon DEF sys_dup3
<1> HIDE DEF d
<1>2. table' = [table EXCEPT ![p] = insert(table[p], new, d)] /\ UNCHANGED <<call, chan, ended>>
  BY Zenon DEF sys_dup3, SetTable, d
<1> QED BY <1>1, <1>2, AddOne, TableStep, Zenon

LEMMA FcntlKeeps ==
    ASSUME FilesInv, NEW p \in Procs, NEW fd, sys_fcntl64(p, fd)
    PROVE  FilesInv'
<1> USE DEF SetTable
<1>1. ASSUME NEW from, NEW cloexec,
             SetTable(p, add_from(table[p], [table[p][fd] EXCEPT !.cloexec = @ \/ cloexec], from))
      PROVE  FilesInv'
  <2> DEFINE d == [table[p][fd] EXCEPT !.cloexec = @ \/ cloexec]
  <2>1. GoodDesc(d) /\ InTables(d) BY TableHolds, Recloexec, Zenon DEF sys_fcntl64
  <2>2. table' = [table EXCEPT ![p] = add_from(table[p], d, from)] /\ UNCHANGED <<call, chan, ended>>
    BY <1>1, Zenon
  <2> HIDE DEF d
  <2> QED BY <2>1, <2>2, AddOne, TableStep, Zenon DEF add_from
<1>2. ASSUME NEW set, SetTable(p, [table[p] EXCEPT ![fd].cloexec = set])
      PROVE  FilesInv'
  <2> DEFINE t == [table[p] EXCEPT ![fd].cloexec = set]
  <2>1. DOMAIN t = DOMAIN table[p] BY Zenon
  <2>2. \A x \in DOMAIN t : t[x] = IF x = fd THEN [table[p][fd] EXCEPT !.cloexec = set]
                                          ELSE table[p][x]
    BY Zenon
  <2>3. table' = [table EXCEPT ![p] = t] /\ UNCHANGED <<call, chan, ended>> BY <1>2, Zenon
  <2> HIDE DEF t
  <2>4. \A x \in DOMAIN t : GoodDesc(t[x]) /\ InTables(t[x])
    BY <2>1, <2>2, TableHolds, Recloexec
  <2> QED BY <2>3, <2>4, TableStep, Zenon DEF GoodTable
<1> QED BY <1>1, <1>2, Zenon DEF sys_fcntl64

\* Only pipe2 makes an end that no table had, and only of an unheld pipe.
LEMMA PipeKeeps ==
    ASSUME FilesInv, NEW p \in Procs, NEW cloexec, sys_pipe2(p, cloexec)
    PROVE  FilesInv'
<1>1. PICK k \in Pipes :
        /\ table' = [table EXCEPT ![p] =
                       add_many(@, Desc(k, "r", cloexec), Desc(k, "w", cloexec))]
        /\ chan' = [chan EXCEPT ![k] = <<>>] /\ ended' = ended \ {k}
  BY Zenon DEF sys_pipe2
<1>2. call' = call BY Zenon DEF sys_pipe2
<1> DEFINE r == Desc(k, "r", cloexec)
           w == Desc(k, "w", cloexec)
           fds == PairFrom(table[p])
           t == insert(insert(table[p], fds[1], r), fds[2], w)
<1>3. table' = [table EXCEPT ![p] = t] BY <1>1, Zenon DEF FilesInv, FilesTypes, add_many
<1>4. GoodDesc(r) /\ GoodDesc(w) BY Zenon DEF GoodDesc, Desc
<1>5. \A x \in DOMAIN t : t[x] \in {r, w} \/ (x \in DOMAIN table[p] /\ t[x] = table[p][x])
  BY Zenon DEF insert
<1>6. r.pipe = k /\ w.pipe = k BY Zenon DEF Desc
<1> HIDE DEF r, w, fds, t
<1>7. GoodTable(t) BY <1>4, <1>5, Zenon DEF FilesInv, FilesTypes, GoodTable
<1>8. FilesTypes'
  <2>1. /\ DOMAIN table' = Procs /\ table' = [q \in Procs |-> table'[q]]
        /\ DOMAIN chan' = Pipes /\ chan' = [j \in Pipes |-> chan'[j]]
        /\ ended' \subseteq Pipes
    BY <1>1, <1>3 DEF FilesInv, FilesTypes
  <2>2. \A q \in Procs : table'[q] = IF q = p THEN t ELSE table[q]
    BY <1>3, Zenon DEF FilesInv, FilesTypes
  <2>3. \A q \in Procs : GoodTable(table'[q]) /\ GoodCall(call'[q])
    BY <1>2, <1>7, <2>2, Zenon DEF FilesInv, FilesTypes
  <2>4. DOMAIN call' = Procs /\ call' = [q \in Procs |-> call'[q]]
    BY <1>2, Zenon DEF FilesInv, FilesTypes
  <2> QED BY <2>1, <2>3, <2>4, Zenon DEF FilesTypes, GoodTable, GoodDesc, GoodCall
<1>9. ASSUME NEW j \in Pipes, j # k, Senders(j) = {}
      PROVE  Senders(j)' = {}
  <2> SUFFICES ASSUME NEW q \in Procs, Holds(q, j, "w")' PROVE Holds(q, j, "w")
    BY <1>9, Zenon DEF Senders
  <2>1. \A x \in DOMAIN table'[q] : table'[q][x].pipe = j =>
            x \in DOMAIN table[q] /\ table'[q][x] = table[q][x]
    <3>1. CASE q = p
      <4>1. table'[q] = t BY <1>3, <3>1, Zenon DEF FilesInv, FilesTypes
      <4> QED BY <1>5, <1>6, <1>9, <3>1, <4>1, Zenon
    <3>2. CASE q # p
      <4>1. table'[q] = table[q] BY <1>3, <3>2, Zenon DEF FilesInv, FilesTypes
      <4> QED BY <4>1, Zenon
    <3> QED BY <3>1, <3>2, Zenon
  <2> QED BY <1>2, <2>1, Zenon DEF Holds
<1>10. EofIsFinal'
  <2> SUFFICES ASSUME NEW j \in ended' PROVE chan'[j] = <<>> /\ Senders(j)' = {}
    BY Zenon DEF EofIsFinal
  <2>1. j \in ended /\ j # k /\ j \in Pipes BY <1>1, Zenon DEF FilesInv, FilesTypes
  <2>2. chan[j] = <<>> /\ Senders(j) = {} BY <2>1, Zenon DEF FilesInv, EofIsFinal
  <2>3. chan'[j] = chan[j] BY <1>1, <2>1, Zenon DEF FilesInv, FilesTypes
  <2> QED BY <1>9, <2>1, <2>2, <2>3, Zenon
<1> QED BY <1>8, <1>10, Zenon DEF FilesInv

LEMMA LifeCycleKeeps ==
    ASSUME FilesInv, NEW p \in Procs, LifeCycle(p)
    PROVE  FilesInv'
<1>1. ASSUME NEW c \in Procs, fork(p, c) PROVE FilesInv'
  <2>1. GoodTable(table[p]) /\ \A x \in DOMAIN table[p] : InTables(table[p][x])
    BY TableHolds, Zenon DEF FilesInv, FilesTypes
  <2>2. table' = [table EXCEPT ![c] = table[p]] /\ UNCHANGED <<call, chan, ended>>
    BY <1>1, Zenon DEF fork, ioVars
  <2> QED BY <2>1, <2>2, TableStep, Zenon
<1>2. CASE exec(p)
  <2> DEFINE S == {fd \in DOMAIN table[p] : ~ table[p][fd].cloexec}
  <2>1. table' = [table EXCEPT ![p] = Restrict(table[p], S)] /\ UNCHANGED <<call, chan, ended>>
    BY <1>2, Zenon DEF exec, close_on_exec, ioVars, FilesInv, FilesTypes
  <2>2. S \in SUBSET DOMAIN table[p] BY Zenon
  <2> HIDE DEF S
  <2> QED BY <2>1, <2>2, CutDown, TableStep, Zenon
<1>3. CASE exit_thread(p)
  <2>1. UNCHANGED <<table, call, chan, ended>> BY <1>3, Zenon DEF exit_thread, ioVars
  <2> QED BY <2>1, Unmoved, Zenon
<1>4. CASE drop(p)
  <2>1. table' = [table EXCEPT ![p] = <<>>] /\ UNCHANGED <<call, chan, ended>>
    BY <1>4, Zenon DEF drop, ioVars
  <2>2. GoodTable(<<>>) /\ \A x \in DOMAIN <<>> : InTables(<<>>[x]) BY DEF GoodTable
  <2> QED BY <2>1, <2>2, TableStep, Zenon
<1> QED BY <1>1, <1>2, <1>3, <1>4, Zenon DEF LifeCycle

-----------------------------------------------------------------------------
\* A step of a call that leaves the channels alone.
LEMMA CallOnly ==
    ASSUME FilesInv, NEW p \in Procs, CallMoves(p), UNCHANGED <<table, chan, ended>>
    PROVE  FilesInv'
<1>1. DOMAIN chan' = Pipes /\ chan' = [k \in Pipes |-> chan'[k]] /\ ended' \subseteq Pipes
  BY Zenon DEF FilesInv, FilesTypes
<1> QED BY <1>1, CallStep, Quiet, Zenon

\* Bytes come and go only in a channel that has not ended.
LEMMA ByteStep ==
    ASSUME FilesInv, NEW p \in Procs, CallMoves(p), UNCHANGED <<table, ended>>,
           NEW k \in Pipes, k \notin ended, NEW s, chan' = [chan EXCEPT ![k] = s]
    PROVE  FilesInv'
<1>1. DOMAIN chan' = Pipes /\ chan' = [j \in Pipes |-> chan'[j]] /\ ended' \subseteq Pipes
  BY Zenon DEF FilesInv, FilesTypes
<1>2. NoNewSender /\ FilesTypes' BY <1>1, CallStep, Zenon
<1>3. \A j \in ended : j \in Pipes /\ chan'[j] = chan[j] BY Zenon DEF FilesInv, FilesTypes
<1>4. \A j \in ended : chan[j] = <<>> /\ Senders(j) = {} BY Zenon DEF FilesInv, EofIsFinal
<1>5. EofIsFinal'
  <2> SUFFICES ASSUME NEW j \in ended PROVE chan'[j] = <<>> /\ Senders(j)' = {}
    BY Zenon DEF EofIsFinal
  <2> QED BY <1>2, <1>3, <1>4, Zenon DEF NoNewSender
<1> QED BY <1>2, <1>5, Zenon DEF FilesInv

LEMMA IdleMoves ==
    ASSUME FilesInv, NEW p \in Procs, call' = [call EXCEPT ![p] = Idle]
    PROVE  CallMoves(p)
<1>1. /\ DOMAIN call' = Procs /\ call' = [q \in Procs |-> call'[q]] /\ call'[p] = Idle
      /\ \A q \in Procs : q # p => call'[q] = call[q]
  BY Zenon DEF FilesInv, FilesTypes
<1>2. GoodCall(Idle) /\ \A d \in {Idle.desc, Idle.out} : d.pipe = None
  BY DEF GoodCall, Idle, NoDesc, Desc
<1> QED BY <1>1, <1>2, Zenon DEF CallMoves

\* The call of p goes on with the descriptors it has, or is at its end.
LEMMA SameMoves ==
    ASSUME FilesInv, NEW p \in Procs, NEW c, call' = [call EXCEPT ![p] = c],
           DOMAIN c = DOMAIN call[p], c.op \in {call[p].op, "ret"},
           c.desc = call[p].desc, c.out = call[p].out
    PROVE  CallMoves(p)
<1>1. /\ DOMAIN call' = Procs /\ call' = [q \in Procs |-> call'[q]] /\ call'[p] = c
      /\ \A q \in Procs : q # p => call'[q] = call[q]
  BY Zenon DEF FilesInv, FilesTypes
<1>2. GoodCall(c) BY Zenon DEF FilesInv, FilesTypes, GoodCall
<1>3. \A d \in {c.desc, c.out} : Holds(p, d.pipe, d.acc) BY Zenon DEF Holds
<1> QED BY <1>1, <1>2, <1>3, Zenon DEF CallMoves

\* A call starts with a clone of a descriptor of the table, and of a second
\* one if it is a sendfile.
LEMMA StartKeeps ==
    ASSUME FilesInv, NEW p \in Procs, NEW op \in {"read", "write"}, NEW fd \in DOMAIN table[p],
           NEW out, NEW lens, Start(p, op, table[p][fd], out, lens),
           table[p][fd].pipe # None,
           op = "write" => writable(table[p][fd]),
           \/ out = NoDesc
           \/ \E g \in DOMAIN table[p] : out = table[p][g] /\ writable(out),
           UNCHANGED <<table, chan, ended>>
    PROVE  FilesInv'
<1> DEFINE d == table[p][fd]
           c == [Idle EXCEPT !.op = op, !.desc = d, !.out = out,
                             !.want = Head(lens), !.rest = Tail(lens)]
<1>1. GoodDesc(d) /\ Holds(p, d.pipe, d.acc) BY TableHolds, Zenon
<1>2. out.pipe # None => out.pipe \in Pipes /\ out.acc = "w" /\ Holds(p, out.pipe, out.acc)
  <2>1. CASE out = NoDesc BY <2>1, Zenon DEF NoDesc, Desc
  <2>2. CASE \E g \in DOMAIN table[p] : out = table[p][g] /\ writable(out)
    BY <2>2, TableHolds, Zenon DEF GoodDesc, writable
  <2> QED BY <2>1, <2>2, Zenon
<1>3. d.pipe \in Pipes /\ (op = "write" => d.acc = "w") BY <1>1, Zenon DEF GoodDesc, writable
<1>4. /\ {"op", "desc", "out", "want", "got", "rest", "count"} \subseteq DOMAIN c
      /\ c.op = op /\ c.desc = d /\ c.out = out
  BY Zenon DEF Idle
<1>5. call' = [call EXCEPT ![p] = c] BY Zenon DEF Start
<1> HIDE DEF c, d
<1>6. GoodCall(c) BY <1>2, <1>3, <1>4, Zenon DEF GoodCall
<1>7. \A e \in {c.desc, c.out} : e.pipe = None \/ Holds(p, e.pipe, e.acc) BY <1>1, <1>2, <1>4, Zenon
<1>8. CallMoves(p) BY <1>5, <1>6, <1>7, Zenon DEF CallMoves, FilesInv, FilesTypes
<1> QED BY <1>8, CallOnly, Zenon

LEMMA StartIoKeeps ==
    ASSUME FilesInv, NEW p \in Procs, StartIo(p)
    PROVE  FilesInv'
<1>1. ASSUME NEW fd, NEW lens, sys_read(p, fd, lens) PROVE FilesInv'
  BY <1>1, StartKeeps, Zenon DEF sys_read, prepare_io, ioVars
<1>2. ASSUME NEW fd, NEW lens, sys_write(p, fd, lens) PROVE FilesInv'
  BY <1>2, StartKeeps, Zenon DEF sys_write, prepare_io, ioVars
<1>3. ASSUME NEW out, NEW in, NEW n, sys_sendfile64(p, out, in, n) PROVE FilesInv'
  <2>1. in \in DOMAIN table[p] /\ out \in DOMAIN table[p] /\ writable(table[p][out])
    BY <1>3, Zenon DEF sys_sendfile64, prepare_io
  <2>2. UNCHANGED <<table, chan, ended>> BY <1>3, Zenon DEF sys_sendfile64, ioVars
  <2>3. CASE table[p][in].pipe # None /\ Start(p, "read", table[p][in], table[p][out], <<n>>)
    BY <2>1, <2>2, <2>3, StartKeeps, Zenon
  <2>4. CASE table[p][out].pipe # None
             /\ \E m \in 1..n : Start(p, "write", table[p][out], NoDesc, <<m>>)
    BY <2>1, <2>2, <2>4, StartKeeps, Zenon
  <2> QED BY <1>3, <2>3, <2>4, Zenon DEF sys_sendfile64
<1> QED BY <1>1, <1>2, <1>3, Zenon DEF StartIo

-----------------------------------------------------------------------------
\* A byte is taken from a channel that has one, so that had not ended.
LEMMA RecvKeeps ==
    ASSUME FilesInv, NEW p \in Procs, RecvByte(p)
    PROVE  FilesInv'
<1> DEFINE k == call[p].desc.pipe
           c == [call[p] EXCEPT !.got = @ + 1, !.count = @ + 1]
<1>1. k \in Pipes /\ k \notin ended /\ UNCHANGED <<table, ended>>
  BY Zenon DEF RecvByte, FilesInv, FilesTypes, GoodCall, EofIsFinal
<1>2. chan' = [chan EXCEPT ![k] = Tail(chan[k])]
  BY Zenon DEF RecvByte, FilesInv, FilesTypes
<1>3. CallMoves(p)
  <2>1. CASE call' = [call EXCEPT ![p].got = @ + 1, ![p].count = @ + 1]
    <3>1. call' = [call EXCEPT ![p] = c] BY <2>1, Zenon DEF FilesInv, FilesTypes, GoodCall
    <3>2. DOMAIN c = DOMAIN call[p] /\ c.op = call[p].op /\ c.desc = call[p].desc
          /\ c.out = call[p].out
      BY Zenon DEF FilesInv, FilesTypes, GoodCall
    <3> HIDE DEF c
    <3> QED BY <3>1, <3>2, SameMoves, Zenon
  <2>2. CASE call' = [call EXCEPT ![p] = Idle] BY <2>2, IdleMoves, Zenon
  <2> QED BY <2>1, <2>2, Zenon DEF RecvByte
<1> HIDE DEF k
<1> QED BY <1>1, <1>2, <1>3, ByteStep, Zenon

\* The read reports the end of a channel that is empty and has no Sender, and
\* its own step gives it none.
LEMMA ReadEndKeeps ==
    ASSUME FilesInv, NEW p \in Procs, ReadEnd(p)
    PROVE  FilesInv'
<1> DEFINE k == call[p].desc.pipe
           c == [call[p] EXCEPT !.want = call[p].got,
                                !.rest = IF call[p].got = 0 THEN <<>> ELSE call[p].rest]
<1>1. k \in Pipes /\ chan[k] = <<>> /\ Senders(k) = {}
  BY Zenon DEF ReadEnd, ChannelEnd, FilesInv, FilesTypes, GoodCall
<1>2. ended' = ended \cup {k} /\ UNCHANGED <<table, chan>> BY Zenon DEF ReadEnd
<1>3. CallMoves(p)
  <2>1. call' = [call EXCEPT ![p] = c] BY Zenon DEF ReadEnd, FilesInv, FilesTypes
  <2>2. DOMAIN c = DOMAIN call[p] /\ c.op = call[p].op /\ c.desc = call[p].desc
        /\ c.out = call[p].out
    BY Zenon DEF FilesInv, FilesTypes, GoodCall
  <2> HIDE DEF c
  <2> QED BY <2>1, <2>2, SameMoves, Zenon
<1> HIDE DEF k
<1>4. DOMAIN chan' = Pipes /\ chan' = [j \in Pipes |-> chan'[j]] /\ ended' \subseteq Pipes
  BY <1>1, <1>2, Zenon DEF FilesInv, FilesTypes
<1>5. NoNewSender /\ FilesTypes' BY <1>2, <1>3, <1>4, CallStep, Zenon
<1>6. \A j \in ended' : j \in Pipes /\ chan[j] = <<>> /\ Senders(j) = {}
  BY <1>1, <1>2, Zenon DEF FilesInv, FilesTypes, EofIsFinal
<1>7. EofIsFinal'
  <2> SUFFICES ASSUME NEW j \in ended' PROVE chan'[j] = <<>> /\ Senders(j)' = {}
    BY Zenon DEF EofIsFinal
  <2> QED BY <1>2, <1>5, <1>6, Zenon DEF NoNewSender
<1> QED BY <1>5, <1>7, Zenon DEF FilesInv

\* The call that writes holds a write end, so its pipe had not ended.
LEMMA WriteKeeps ==
    ASSUME FilesInv, NEW p \in Procs, write(p)
    PROVE  FilesInv'
<1> DEFINE k == call[p].desc.pipe
           c == [call[p] EXCEPT !.got = @ + 1, !.count = @ + 1]
           e == [call[p] EXCEPT !.want = call[p].got + 1, !.got = @ + 1, !.count = @ + 1]
<1>1. k \in Pipes /\ Holds(p, k, "w") BY Zenon DEF write, FilesInv, FilesTypes, GoodCall, Holds
<1>2. k \notin ended BY <1>1, Zenon DEF FilesInv, EofIsFinal, Senders
<1>3. UNCHANGED <<table, ended>> BY Zenon DEF write
<1>4. CASE Accepts(k)
  <2>1. chan' = [chan EXCEPT ![k] = Append(chan[k], sent[k] + 1)]
    BY <1>4, Zenon DEF write, FilesInv, FilesTypes
  <2>2. call' = [call EXCEPT ![p] = c] BY <1>4, Zenon DEF write, FilesInv, FilesTypes, GoodCall
  <2>3. DOMAIN c = DOMAIN call[p] /\ c.op = call[p].op /\ c.desc = call[p].desc
        /\ c.out = call[p].out
    BY Zenon DEF FilesInv, FilesTypes, GoodCall
  <2> HIDE DEF c, k
  <2>4. CallMoves(p) BY <2>2, <2>3, SameMoves, Zenon
  <2> QED BY <1>1, <1>2, <1>3, <2>1, <2>4, ByteStep, Zenon
<1>5. CASE ~ Accepts(k)
  <2>1. UNCHANGED chan BY <1>5, Zenon DEF write
  <2>2. call' = [call EXCEPT ![p] = e] BY <1>5, Zenon DEF write, FilesInv, FilesTypes, GoodCall
  <2>3. DOMAIN e = DOMAIN call[p] /\ e.op = call[p].op /\ e.desc = call[p].desc
        /\ e.out = call[p].out
    BY Zenon DEF FilesInv, FilesTypes, GoodCall
  <2> HIDE DEF e
  <2>4. CallMoves(p) BY <2>2, <2>3, SameMoves, Zenon
  <2> QED BY <1>3, <2>1, <2>4, CallOnly, Zenon
<1> QED BY <1>4, <1>5, Zenon

\* The next segment keeps the descriptors, a sendfile goes over to its target.
LEMMA NextSegmentKeeps ==
    ASSUME FilesInv, NEW p \in Procs, NextSegment(p)
    PROVE  FilesInv'
<1> DEFINE c == [call[p] EXCEPT !.want = Head(call[p].rest), !.got = 0,
                                !.rest = Tail(call[p].rest)]
           o == [Idle EXCEPT !.op = "write", !.desc = call[p].out, !.want = call[p].count]
           e == [call[p] EXCEPT !.op = "ret"]
<1>1. UNCHANGED <<table, chan, ended>> BY Zenon DEF NextSegment, ioVars
<1>2. CASE call' = [call EXCEPT ![p] = c]
  <2>1. DOMAIN c = DOMAIN call[p] /\ c.op = call[p].op /\ c.desc = call[p].desc
        /\ c.out = call[p].out
    BY Zenon DEF FilesInv, FilesTypes, GoodCall
  <2> HIDE DEF c
  <2>2. CallMoves(p) BY <1>2, <2>1, SameMoves, Zenon
  <2> QED BY <1>1, <2>2, CallOnly, Zenon
<1>3. CASE call' = [call EXCEPT ![p] = Idle] BY <1>1, <1>3, IdleMoves, CallOnly, Zenon
<1>4. CASE call[p].out.pipe # None /\ call' = [call EXCEPT ![p] = o]
  <2>1. /\ {"op", "desc", "out", "want", "got", "rest", "count"} \subseteq DOMAIN o
        /\ o.op = "write" /\ o.desc = call[p].out /\ o.out = NoDesc
    BY Zenon DEF Idle
  <2> HIDE DEF o
  <2>2. call[p].out.pipe \in Pipes /\ call[p].out.acc = "w"
    BY <1>4, Zenon DEF FilesInv, FilesTypes, GoodCall
  <2>3. NoDesc.pipe = None BY Zenon DEF NoDesc, Desc
  <2>4. GoodCall(o) BY <2>1, <2>2, <2>3, Zenon DEF GoodCall
  <2>5. \A d \in {o.desc, o.out} : d.pipe = None \/ Holds(p, d.pipe, d.acc)
    BY <2>1, <2>3, Zenon DEF Holds
  <2>6. CallMoves(p) BY <1>4, <2>4, <2>5, Zenon DEF CallMoves, FilesInv, FilesTypes
  <2> QED BY <1>1, <2>6, CallOnly, Zenon
<1>5. CASE call' = [call EXCEPT ![p].op = "ret"]
  <2>1. call' = [call EXCEPT ![p] = e] BY <1>5, Zenon DEF FilesInv, FilesTypes
  <2>2. DOMAIN e = DOMAIN call[p] /\ e.op = "ret" /\ e.desc = call[p].desc
        /\ e.out = call[p].out
    BY Zenon DEF FilesInv, FilesTypes, GoodCall
  <2> HIDE DEF e
  <2>3. CallMoves(p) BY <2>1, <2>2, SameMoves, Zenon
  <2> QED BY <1>1, <2>3, CallOnly, Zenon
<1> QED BY <1>2, <1>3, <1>4, <1>5, Zenon DEF NextSegment

LEMMA ReturnKeeps ==
    ASSUME FilesInv, NEW p \in Procs, Return(p)
    PROVE  FilesInv'
BY IdleMoves, CallOnly, Zenon DEF Return, ioVars
-----------------------------------------------------------------------------
\* Once Pipe::read (pipe.rs:31) has reported the end of the data nobody holds
\* a write end of that pipe and its channel stays empty, for any number of
\* processes and pipes and any mixture of dup, fork, exec, exit, reaping and
\* calls under way: an end comes only from an end, a call holds what it uses,
\* and pipe2 takes a pipe that nobody holds.
THEOREM EndOfFileIsFinal == Spec => []EofIsFinal
<1>1. FilesInv /\ [Next]_vars => FilesInv'
  <2> SUFFICES ASSUME FilesInv, [Next]_vars PROVE FilesInv' BY Zenon
  <2>1. CASE UNCHANGED vars BY <2>1, Unmoved, Zenon DEF vars
  <2>2. ASSUME NEW p \in Procs, TableOp(p) PROVE FilesInv'
    BY <2>2, OpenKeeps, PipeKeeps, CloseKeeps, DupKeeps, FcntlKeeps, Dup3Keeps, Zenon DEF TableOp
  <2>3. ASSUME NEW p \in Procs, LifeCycle(p) PROVE FilesInv' BY <2>3, LifeCycleKeeps, Zenon
  <2>4. ASSUME NEW p \in Procs, StartIo(p) PROVE FilesInv' BY <2>4, StartIoKeeps, Zenon
  <2>5. ASSUME NEW p \in Procs, Step(p) PROVE FilesInv'
    BY <2>5, RecvKeeps, ReadEndKeeps, WriteKeeps, NextSegmentKeeps, ReturnKeeps, Zenon DEF Step
  <2> QED BY <2>1, <2>2, <2>3, <2>4, <2>5, Zenon DEF Next
<1>2. FilesInv => EofIsFinal BY Zenon DEF FilesInv
<1> QED BY FilesInit, <1>1, <1>2, PTL DEF Spec
=============================================================================
