---------------------------- MODULE InodeSteps ------------------------------
(***************************************************************************)
(* The inductive invariant of Inode, and the actions that move bytes and   *)
(* locks: each keeps it.  Pages come and go in InodeProofs.                *)
(***************************************************************************)
EXTENDS Inode, Integers, TLAPS

Fields == {"pc", "op", "file", "arg", "start", "end", "pos", "obj", "last", "num", "old"}

\* The labels at which a call has the offset, if it uses one, and those at
\* which it moves bytes.
Moving == {"page", "create", "guard", "fill", "copy"}
Transfer == Moving \cup {"begin"}
CallPc == Transfer \cup {"idle", "lock", "seek", "free", "truncate", "setlen"}

\* What a position may ever have held.
Known(i, n) == {0, Disk(i)} \cup 1..n

\* The fields of a call when n calls have been made.
CallType(c, n) ==
    /\ DOMAIN c = Fields
    /\ c.pc \in CallPc
    /\ c.file \in Opens \cup {None}
    /\ c.arg \in Nat
    /\ c.start \in 0..MaxPos /\ c.end \in 0..MaxPos /\ c.pos \in 0..c.end
    /\ c.obj \in PageObjs \cup {0}
    /\ c.last \in Nat
    /\ c.num \in 0..n
    /\ c.old \in [Positions -> SUBSET Nat] /\ \A i \in Positions : c.old[i] \subseteq Known(i, n)

\* What the label of a call says about its fields.
CallShape(c) ==
    /\ c.pc \in Transfer \cup {"lock"} => c.op \in {"read", "write"}
    /\ c.pc = "seek" => c.op \in {"set", "forward", "back"} /\ (c.op = "set" => c.arg <= MaxPos)
    /\ c.pc \in {"lock", "seek"} => c.file # None
    /\ c.pc \notin Transfer => c.start = 0
    /\ c.pc \notin Moving => c.end = 0 /\ c.pos = 0
    /\ c.pc \in Moving => c.start <= c.pos
    /\ c.pc \in {"create", "guard", "fill", "copy"} => c.pos < c.end
    /\ c.obj # 0 <=> c.pc \in {"guard", "fill", "copy"}
    /\ c.pc \in Transfer \cup {"lock"} /\ c.op = "write" => c.num # 0
    /\ \A i \in Positions : c.old[i] # {} =>
         c.pc \in Moving /\ c.op = "write" /\ i \in c.start..(c.end - 1)

PageType(b) ==
    /\ DOMAIN b = {"state", "guard", "data"}
    /\ b.state \in PageState /\ b.guard \in Tasks \cup {None}
    /\ b.data \in [0..(PAGE_SIZE - 1) -> Nat]

StateInv ==
    /\ offset \in [Opens -> 0..MaxPos] /\ olock \in [Opens -> Tasks \cup {None}]
    /\ dataLen \in 0..MaxPos /\ clusters \in 0..MaxPos
    /\ pages \in [PageIds -> PageObjs \cup {None}]
    /\ \A id1, id2 \in PageIds : pages[id1] = pages[id2] /\ id1 # id2 => pages[id1] = None
    /\ DOMAIN page = PageObjs /\ \A o \in PageObjs : PageType(page[o])
    /\ DOMAIN call = Tasks /\ \A t \in Tasks : CallType(call[t], calls) /\ CallShape(call[t])
    /\ panicked \in BOOLEAN
    /\ calls \in 0..MaxCalls
    /\ values \in [Positions -> SUBSET Nat] /\ \A i \in Positions : values[i] \subseteq Known(i, calls)

\* The offset of a file is locked by the call that moves bytes at it, the
\* state_guard of a page by the call that looks at the state again.
LockInv ==
    /\ \A t \in Tasks : call[t].pc \in Transfer /\ call[t].file # None => olock[call[t].file] = t
    /\ \A f \in Opens : olock[f] # None =>
         call[olock[f]].pc \in Transfer /\ call[olock[f]].file = f
    /\ \A o \in PageObjs : page[o].guard # None =>
         call[page[o].guard].pc = "fill" /\ call[page[o].guard].obj = o

\* A page in hand is the cached one of its position, unless it was freed; it
\* has been valid since the call came to copy, and is not freed while the
\* call still replaces older values.
ObjInv ==
    \A t \in Tasks : LET c == call[t] IN c.obj # 0 =>
        /\ c.obj \in Cached => pages[Pos(c)] = c.obj
        /\ c.pc = "copy" => page[c.obj].state # "Invalid"
        /\ \A i \in Positions : c.old[i] # {} => pages[Pos(c)] = c.obj

\* The byte that the cached page, if there is one, has at position i.
Byte(i) == page[pages[PageId(i)]].data[i % PAGE_SIZE]
Valid(i) == pages[PageId(i)] # None /\ page[pages[PageId(i)]].state # "Invalid"

\* A cached byte may be read; where no valid page is cached the disk's byte
\* and the zero may be.  A write under way may be read in all of its range and
\* is not obsolete; what it has written, or another write over it, is in the
\* page.
ValueInv ==
    /\ \A i \in Positions : pages[PageId(i)] # None => Byte(i) \in values[i]
    /\ \A i \in Positions : ~ Valid(i) => {0, Disk(i)} \subseteq values[i]
    /\ \A t \in Tasks : call[t].op = "write" /\ call[t].pc \in Moving =>
         \A i \in call[t].start..(call[t].end - 1) : call[t].num \in values[i]
    /\ \A t, u \in Tasks, i \in Positions : call[u].num # 0 => call[u].num \notin call[t].old[i]
    /\ \A t \in Tasks, i \in Positions : call[t].old[i] # {} /\ i < call[t].pos =>
         Valid(i) /\ Byte(i) \notin call[t].old[i]

InodeInv == StateInv /\ LockInv /\ ObjInv /\ ValueInv

-----------------------------------------------------------------------------
(***************************************************************************)
(* Pages and positions                                                     *)
(***************************************************************************)
\* A position is its page and the place in it.
LEMMA PageFacts ==
    ASSUME NEW i \in Nat
    PROVE  /\ PageId(i) \in Nat /\ i % PAGE_SIZE \in 0..(PAGE_SIZE - 1)
           /\ PageId(i) * PAGE_SIZE + (i % PAGE_SIZE) = i
           /\ i < (PageId(i) + 1) * PAGE_SIZE
BY InodeAssumption DEF PageId

\* The first position of a page.
LEMMA PageStart == \A n \in Nat : n * PAGE_SIZE \in Nat
BY InodeAssumption

\* The page of a position of the file is one of its pages.
LEMMA PositionPage ==
    ASSUME NEW i \in Positions
    PROVE  i \in Nat /\ PageId(i) \in PageIds
BY InodeAssumption DEF PageId, PageIds, Positions

\* The positions a call moves at a time are on one page, the one of pos.
LEMMA ChunkPage ==
    ASSUME NEW c, c.pos \in Nat, c.end \in 0..MaxPos, NEW i \in Chunk(c)
    PROVE  i \in Positions /\ PageId(i) = Pos(c) /\ c.pos <= i /\ i < c.end
<1> DEFINE q == c.pos \div PAGE_SIZE
<1>1. q \in Nat /\ q * PAGE_SIZE <= c.pos
    BY InodeAssumption
<1>2. i \in Int /\ c.pos <= i /\ i < c.end /\ i < (q + 1) * PAGE_SIZE
    BY <1>1, InodeAssumption DEF Chunk, Min2, Pos, PageId
<1>3. i \in Nat /\ q * PAGE_SIZE <= i
    BY <1>1, <1>2, InodeAssumption
<1>4. i \div PAGE_SIZE = q
    BY <1>1, <1>2, <1>3, InodeAssumption
<1> QED BY <1>2, <1>3, <1>4, InodeAssumption DEF Positions, PageId, Pos

\* After a chunk the call has reached the end or the next page, and every
\* position it has passed is in the chunk or was passed before.
LEMMA ChunkEnd ==
    ASSUME NEW c, c.end \in 0..MaxPos, c.pos \in Nat, c.pos < c.end
    PROVE  LET n == Min2(c.end, (Pos(c) + 1) * PAGE_SIZE)
           IN  n \in 0..c.end /\ c.pos < n /\ \A i \in Nat : i < n => i < c.pos \/ i \in Chunk(c)
<1> DEFINE m == (Pos(c) + 1) * PAGE_SIZE
<1>1. m \in Nat /\ c.pos < m
  <2>1. PageId(c.pos) \in Nat /\ c.pos < (PageId(c.pos) + 1) * PAGE_SIZE
      BY PageFacts, Zenon
  <2>2. (PageId(c.pos) + 1) * PAGE_SIZE \in Nat
      BY <2>1, InodeAssumption
  <2> QED BY <2>1, <2>2, Zenon DEF Pos
<1> HIDE DEF m
<1>2. Chunk(c) = c.pos..(Min2(c.end, m) - 1)
    BY Zenon DEF Chunk, m
<1>3. Min2(c.end, m) \in 0..c.end /\ c.pos < Min2(c.end, m)
    BY <1>1, InodeAssumption DEF Min2
<1> QED BY <1>2, <1>3, InodeAssumption DEF m

\* A page object is neither the absent one of the cache nor the 0 of a call
\* that has none in hand.
LEMMA ObjFacts == None \notin PageObjs /\ 0 \notin PageObjs /\ 0 # None
<1>1. None \notin Nat
    BY InodeAssumption, Zenon
<1>2. \A o \in PageObjs : o \in Nat /\ o # 0
    BY DEF PageObjs
<1>3. 0 \in Nat
    BY Zenon
<1> QED BY <1>1, <1>2, <1>3, Zenon

-----------------------------------------------------------------------------
(***************************************************************************)
(* Steps that leave the pages alone                                        *)
(***************************************************************************)
\* More calls only add to what a position may have held.
LEMMA MoreCalls ==
    ASSUME NEW n \in Nat, NEW m \in Nat, n <= m, NEW c, CallType(c, n)
    PROVE  CallType(c, m) /\ \A i \in Positions : Known(i, n) \subseteq Known(i, m)
<1>1. \A i \in Positions : Known(i, n) \subseteq Known(i, m)
    BY DEF Known
<1>2. c.num \in 0..m
    BY DEF CallType
<1> QED BY <1>1, <1>2, Zenon DEF CallType

\* The new call of t is well formed, locks the offset of its file before it
\* moves bytes there, and changes the other locks not.
LocksFollow(t, c) ==
    /\ olock' \in [Opens -> Tasks \cup {None}]
    /\ c.pc \in Transfer /\ c.file # None => olock'[c.file] = t
    /\ \A f \in Opens : olock'[f] = t => c.pc \in Transfer /\ c.file = f
    /\ \A f \in Opens : olock'[f] # t /\ olock'[f] # None => olock'[f] = olock[f]
    /\ \A f \in Opens : olock[f] # t /\ olock[f] # None => olock'[f] = olock[f]

\* The locks stay with their holders when t takes a step that is not the
\* release of a page's guard.
LEMMA LocksKept ==
    ASSUME InodeInv, NEW t \in Tasks, NEW c, call' = [call EXCEPT ![t] = c], LocksFollow(t, c),
           \A o \in PageObjs : page'[o].guard = t => c.pc = "fill" /\ c.obj = o,
           \A o \in PageObjs : page'[o].guard # t /\ page'[o].guard # None =>
              page'[o].guard = page[o].guard
    PROVE  LockInv'
<1> USE InodeAssumption
<1>1. DOMAIN call = Tasks /\ \A u \in Tasks : call[u].file \in Opens \cup {None}
    BY Zenon DEF InodeInv, StateInv, CallType
<1>2. call'[t] = c /\ \A u \in Tasks \ {t} : call'[u] = call[u]
    BY <1>1, Zenon
<1>3. \A u \in Tasks : call'[u].pc \in Transfer /\ call'[u].file # None => olock'[call'[u].file] = u
    BY <1>1, <1>2 DEF LocksFollow, InodeInv, LockInv
<1>4. \A f \in Opens : olock'[f] # None => call'[olock'[f]].pc \in Transfer /\ call'[olock'[f]].file = f
    BY <1>1, <1>2 DEF LocksFollow, InodeInv, LockInv
<1>5. \A o \in PageObjs : page'[o].guard # None =>
         call'[page'[o].guard].pc = "fill" /\ call'[page'[o].guard].obj = o
    BY <1>1, <1>2 DEF InodeInv, LockInv, StateInv, PageType
<1> QED BY <1>3, <1>4, <1>5, Zenon DEF LockInv

\* A step of t that changes neither the pages nor what may be read.
LEMMA CallStep ==
    ASSUME InodeInv, NEW t \in Tasks, NEW c, call' = [call EXCEPT ![t] = c],
           UNCHANGED <<pages, page, values, panicked>>,
           offset' \in [Opens -> 0..MaxPos], dataLen' \in 0..MaxPos, clusters' \in 0..MaxPos,
           calls' \in 0..MaxCalls, calls <= calls',
           CallType(c, calls'), CallShape(c), LocksFollow(t, c), call[t].pc # "fill",
           c.obj # 0 => c.obj = pages[Pos(c)] /\ (c.pc = "copy" => page[c.obj].state # "Invalid"),
           c.op = "write" /\ c.pc \in Moving =>
              /\ call[t].op = "write" /\ call[t].pc \in Moving
              /\ c.start = call[t].start /\ c.end = call[t].end,
           c.num # 0 => c.num = call[t].num \/ (c.num > calls /\ c.pc \notin Moving),
           \/ \A i \in Positions : c.old[i] = {}
           \/ c.old = call[t].old /\ c.pos = call[t].pos
    PROVE  InodeInv'
<1> USE InodeAssumption
<1>1. /\ DOMAIN call = Tasks /\ calls \in 0..MaxCalls
      /\ call'[t] = c /\ \A u \in Tasks \ {t} : call'[u] = call[u]
    BY Zenon DEF InodeInv, StateInv
<1>2. StateInv'
  <2>1. \A u \in Tasks : CallType(call'[u], calls') /\ CallShape(call'[u])
      BY <1>1, MoreCalls DEF InodeInv, StateInv
  <2>2. \A i \in Positions : values'[i] \subseteq Known(i, calls')
      BY <1>1 DEF InodeInv, StateInv, Known
  <2> QED BY <1>1, <2>1, <2>2, Zenon DEF InodeInv, StateInv, LocksFollow
<1>3. LockInv'
  <2>1. \A o \in PageObjs : page[o].guard # t
      BY DEF InodeInv, LockInv
  <2> QED BY <2>1, LocksKept, Zenon
<1>4. ObjInv'
    BY <1>1 DEF InodeInv, ObjInv, Cached
<1>5. ValueInv'
  <2>1. \A i \in Positions : pages'[PageId(i)] # None => Byte(i)' \in values'[i]
      BY Zenon DEF InodeInv, ValueInv, Byte
  <2>2. \A i \in Positions : ~ Valid(i)' => {0, Disk(i)} \subseteq values'[i]
      BY Zenon DEF InodeInv, ValueInv, Valid
  <2>3. \A u \in Tasks : call'[u].op = "write" /\ call'[u].pc \in Moving =>
          \A i \in call'[u].start..(call'[u].end - 1) : call'[u].num \in values'[i]
    <3>1. c.op = "write" /\ c.pc \in Moving => c.num = call[t].num
        BY Zenon DEF CallShape, Transfer
    <3> QED BY <1>1, <3>1 DEF InodeInv, ValueInv
  <2>4. ASSUME NEW v \in Tasks, NEW u \in Tasks, NEW i \in Positions, call'[u].num # 0
        PROVE  call'[u].num \notin call'[v].old[i]
    <3>1. call'[v].old[i] = {} \/ call'[v].old[i] = call[v].old[i]
        BY <1>1, Zenon
    <3>2. CASE call'[u].num = call[u].num
        BY <2>4, <3>1, <3>2, Zenon DEF InodeInv, ValueInv
    <3>3. CASE u = t /\ c.num > calls
      <4>1. call[v].old[i] \subseteq Known(i, calls)
          BY Zenon DEF InodeInv, StateInv, CallType
      <4>2. c.num \in Nat /\ c.num <= MaxCalls /\ i \in Nat
          BY <1>1 DEF CallType, Positions
      <4>3. c.num \notin Known(i, calls)
          BY <1>1, <3>3, <4>2 DEF Known, Disk
      <4> QED BY <1>1, <3>1, <3>3, <4>1, <4>3, Zenon
    <3> QED BY <1>1, <2>4, <3>2, <3>3, Zenon
  <2>5. \A u \in Tasks, i \in Positions : call'[u].old[i] # {} /\ i < call'[u].pos =>
          Valid(i)' /\ Byte(i)' \notin call'[u].old[i]
      BY <1>1 DEF InodeInv, ValueInv, Byte, Valid
  <2> QED BY <2>1, <2>2, <2>3, <2>4, <2>5, Zenon DEF ValueInv
<1> QED BY <1>2, <1>3, <1>4, <1>5, Zenon DEF InodeInv

\* The call of a task that is not inside one.
LEMMA IdleFacts ==
    /\ DOMAIN Idle = Fields
    /\ Idle.pc = "idle" /\ Idle.op = "none" /\ Idle.file = None /\ Idle.arg = 0 /\ Idle.start = 0
    /\ Idle.end = 0 /\ Idle.pos = 0 /\ Idle.obj = 0 /\ Idle.last = 0 /\ Idle.num = 0
    /\ Idle.old \in [Positions -> SUBSET Nat] /\ \A i \in Positions : Idle.old[i] = {}
    /\ \A n \in Nat : CallType(Idle, n)
    /\ CallShape(Idle)
<1> USE InodeAssumption
<1>1. /\ DOMAIN Idle = Fields
      /\ Idle.pc = "idle" /\ Idle.op = "none" /\ Idle.file = None /\ Idle.arg = 0 /\ Idle.start = 0
      /\ Idle.end = 0 /\ Idle.pos = 0 /\ Idle.obj = 0 /\ Idle.last = 0 /\ Idle.num = 0
      /\ Idle.old = [i \in Positions |-> {}]
    BY Zenon DEF Idle, Fields
<1>2. Idle.old \in [Positions -> SUBSET Nat] /\ \A i \in Positions : Idle.old[i] = {}
    BY <1>1, Zenon
<1>3. CallShape(Idle)
    BY <1>1, <1>2, Zenon DEF CallShape, Transfer, Moving
<1>4. \A n \in Nat : CallType(Idle, n)
    BY <1>1, <1>2 DEF CallType, CallPc, Transfer, Moving
<1> QED BY <1>1, <1>2, <1>3, <1>4, Zenon

\* A system call starts.
LEMMA StartStep ==
    ASSUME InodeInv, NEW t \in Tasks, NEW c, Call(t, c),
           CallType(c, calls + 1), CallShape(c), c.pc \in {"lock", "begin", "seek", "free"},
           c.pc = "begin" => c.file = None,
           c.num \in {0, calls + 1}, \A i \in Positions : c.old[i] = {}
    PROVE  InodeInv'
<1> USE InodeAssumption
<1>1. /\ call' = [call EXCEPT ![t] = c] /\ call[t].pc = "idle"
      /\ calls \in Nat /\ calls' = calls + 1 /\ calls' \in 0..MaxCalls
      /\ UNCHANGED <<fileVars, dataLen, clusters, cacheVars, panicked, values>>
    BY DEF Call, At, InodeInv, StateInv
<1>2. \A f \in Opens : olock[f] # t
    BY <1>1 DEF InodeInv, LockInv, Transfer, Moving
<1>3. LocksFollow(t, c)
    BY <1>1, <1>2, Zenon DEF LocksFollow, fileVars, InodeInv, StateInv, Transfer, Moving
<1>4. c.obj = 0 /\ c.pc \notin Moving
    BY Zenon DEF CallShape, Moving
<1>5. /\ UNCHANGED <<pages, page, values, panicked>>
      /\ offset' \in [Opens -> 0..MaxPos] /\ dataLen' \in 0..MaxPos /\ clusters' \in 0..MaxPos
    BY <1>1, Zenon DEF fileVars, cacheVars, InodeInv, StateInv
<1>6. calls <= calls' /\ (c.num # 0 => c.num > calls)
    BY <1>1
<1> QED BY <1>1, <1>3, <1>4, <1>5, <1>6, CallStep, Zenon

\* The calls that a program starts are well formed.
LEMMA StartCalls ==
    ASSUME InodeInv, NEW t \in Tasks, Start(t)
    PROVE  InodeInv'
<1> USE InodeAssumption
<1>a. calls \in Nat /\ dataLen \in 0..MaxPos /\ dataLen \in Nat
    BY DEF InodeInv, StateInv
<1>1. ASSUME NEW f \in Opens, NEW n \in ReadLens, StartRead(t, f, n) PROVE InodeInv'
  <2> DEFINE c == [Idle EXCEPT !.pc = "lock", !.op = "read", !.file = f, !.arg = n]
  <2>1. /\ DOMAIN c = Fields /\ c.pc = "lock" /\ c.op = "read" /\ c.file = f /\ c.arg = n
        /\ c.start = 0 /\ c.end = 0 /\ c.pos = 0 /\ c.obj = 0 /\ c.last = 0 /\ c.num = 0
        /\ c.old = Idle.old
      BY IdleFacts, Zenon DEF Fields
  <2>2. Call(t, c)
      BY <1>1, Zenon DEF StartRead
  <2> HIDE DEF c
  <2>3. CallType(c, calls + 1) /\ CallShape(c)
      BY <1>a, <2>1, IdleFacts DEF CallType, CallShape, CallPc, Transfer, Moving
  <2> QED BY <2>1, <2>2, <2>3, IdleFacts, StartStep, Zenon
<1>2. ASSUME NEW i \in Seeks, NEW n \in ReadLens, StartReadAt(t, i, n) PROVE InodeInv'
  <2> DEFINE c == [Idle EXCEPT !.pc = "begin", !.op = "read", !.start = i, !.arg = n]
  <2>1. /\ DOMAIN c = Fields /\ c.pc = "begin" /\ c.op = "read" /\ c.file = None /\ c.arg = n
        /\ c.start = i /\ c.end = 0 /\ c.pos = 0 /\ c.obj = 0 /\ c.last = 0 /\ c.num = 0
        /\ c.old = Idle.old
      BY IdleFacts, Zenon DEF Fields
  <2>2. Call(t, c)
      BY <1>2, Zenon DEF StartReadAt
  <2> HIDE DEF c
  <2>3. CallType(c, calls + 1) /\ CallShape(c)
      BY <1>a, <2>1, IdleFacts DEF CallType, CallShape, CallPc, Transfer, Moving
  <2> QED BY <2>1, <2>2, <2>3, IdleFacts, StartStep, Zenon
<1>3. ASSUME NEW f \in Opens, NEW n \in WriteLens, StartWrite(t, f, n) PROVE InodeInv'
  <2> DEFINE c == [Idle EXCEPT !.pc = "lock", !.op = "write", !.file = f, !.arg = n, !.num = calls + 1]
  <2>1. /\ DOMAIN c = Fields /\ c.pc = "lock" /\ c.op = "write" /\ c.file = f /\ c.arg = n
        /\ c.start = 0 /\ c.end = 0 /\ c.pos = 0 /\ c.obj = 0 /\ c.last = 0 /\ c.num = calls + 1
        /\ c.old = Idle.old
      BY IdleFacts, Zenon DEF Fields
  <2>2. Call(t, c)
      BY <1>3, Zenon DEF StartWrite
  <2> HIDE DEF c
  <2>3. CallType(c, calls + 1) /\ CallShape(c)
      BY <1>a, <2>1, IdleFacts DEF CallType, CallShape, CallPc, Transfer, Moving
  <2> QED BY <2>1, <2>2, <2>3, IdleFacts, StartStep, Zenon
<1>4. ASSUME NEW f \in Opens, NEW i \in Seeks, StartSeek(t, f, i) PROVE InodeInv'
  <2>1. PICK op \in {"set", "forward", "back"}, n \in 0..MaxPos :
            Call(t, [Idle EXCEPT !.pc = "seek", !.op = op, !.file = f, !.arg = n])
    <3>1. i \in 0..MaxPos /\ (i <= dataLen => dataLen - i \in 0..MaxPos)
        BY <1>a
    <3> QED BY <1>4, <3>1, Zenon DEF StartSeek
  <2> DEFINE c == [Idle EXCEPT !.pc = "seek", !.op = op, !.file = f, !.arg = n]
  <2>2. /\ DOMAIN c = Fields /\ c.pc = "seek" /\ c.op = op /\ c.file = f /\ c.arg = n
        /\ c.start = 0 /\ c.end = 0 /\ c.pos = 0 /\ c.obj = 0 /\ c.last = 0 /\ c.num = 0
        /\ c.old = Idle.old
      BY IdleFacts, Zenon DEF Fields
  <2>3. Call(t, c)
      BY <2>1, Zenon
  <2> HIDE DEF c
  <2>4. CallType(c, calls + 1) /\ CallShape(c)
      BY <1>a, <2>2, IdleFacts DEF CallType, CallShape, CallPc, Transfer, Moving
  <2> QED BY <2>2, <2>3, <2>4, IdleFacts, StartStep, Zenon
<1>5. ASSUME Resize(t) PROVE InodeInv'
  <2> DEFINE c == [Idle EXCEPT !.pc = "free", !.op = "truncate", !.last = PageId(dataLen)]
  <2>1. /\ DOMAIN c = Fields /\ c.pc = "free" /\ c.op = "truncate" /\ c.file = None /\ c.arg = 0
        /\ c.start = 0 /\ c.end = 0 /\ c.pos = 0 /\ c.obj = 0 /\ c.last = PageId(dataLen) /\ c.num = 0
        /\ c.old = Idle.old
      BY IdleFacts, Zenon DEF Fields
  <2>2. Call(t, c)
      BY <1>5, Zenon DEF Resize
  <2> HIDE DEF c
  <2>a. PageId(dataLen) \in Nat
      BY <1>a, PageFacts, Zenon
  <2>3. CallType(c, calls + 1) /\ CallShape(c)
      BY <1>a, <2>a, <2>1, IdleFacts DEF CallType, CallShape, CallPc, Transfer, Moving
  <2> QED BY <2>1, <2>2, <2>3, IdleFacts, StartStep, Zenon
<1> QED BY <1>1, <1>2, <1>3, <1>4, <1>5, Zenon DEF Start

\* The end of a call gives the lock of its file back.
LEMMA UnlockFollows ==
    ASSUME InodeInv, NEW t \in Tasks, call[t].pc \in Transfer, Unlock(call[t])
    PROVE  LocksFollow(t, Idle)
<1> USE InodeAssumption
<1>1. call[t].file \in Opens \cup {None} /\ olock \in [Opens -> Tasks \cup {None}]
    BY Zenon DEF InodeInv, StateInv, CallType
<1>2. /\ call[t].file # None => olock[call[t].file] = t
      /\ \A f \in Opens : olock[f] = t => call[t].file = f
    BY DEF InodeInv, LockInv
<1> QED BY <1>1, <1>2, IdleFacts, Zenon DEF LocksFollow, Unlock, Transfer, Moving

\* A task outside a transfer has no lock to give back.
LEMMA NoLockFollows ==
    ASSUME InodeInv, NEW t \in Tasks, call[t].pc \notin Transfer, UNCHANGED olock,
           NEW c, c.pc \notin Transfer
    PROVE  LocksFollow(t, c)
BY InodeAssumption DEF InodeInv, StateInv, LockInv, LocksFollow

\* The steps that end a call without a change to the pages or the values: a
\* seek, a fault and the ends of a truncation.
LEMMA EndStep ==
    ASSUME InodeInv, NEW t \in Tasks, SetOffset(t) \/ Fault(t) \/ SetLen(t)
    PROVE  InodeInv'
<1> USE InodeAssumption
<1>1. /\ call' = [call EXCEPT ![t] = Idle] /\ UNCHANGED <<pages, page, values, panicked, calls>>
      /\ call[t].pc \in {"seek", "copy", "setlen"}
      /\ calls \in Nat /\ calls \in 0..MaxCalls
    BY DEF SetOffset, Fault, SetLen, At, cacheVars, InodeInv, StateInv
<1>2. dataLen' \in 0..MaxPos /\ clusters' \in 0..MaxPos
    BY DEF SetOffset, Fault, SetLen, InodeInv, StateInv
<1>3. offset' \in [Opens -> 0..MaxPos]
  <2>1. offset \in [Opens -> 0..MaxPos] /\ CallType(call[t], calls) /\ CallShape(call[t])
      BY Zenon DEF InodeInv, StateInv
  <2>2. CASE SetOffset(t)
    <3> DEFINE c == call[t]
    <3>1. c.pc = "seek" /\ c.file \in Opens /\ c.arg \in Nat /\ c.op \in {"set", "forward", "back"}
          /\ (c.op = "set" => c.arg <= MaxPos)
        BY <2>1, <2>2, Zenon DEF SetOffset, At, CallType, CallShape
    <3>2. PICK n : offset' = [offset EXCEPT ![c.file] = n]
                   /\ n = CASE c.op = "set" -> c.arg
                            [] c.op = "forward" -> offset[c.file] + c.arg
                            [] c.op = "back" -> IF c.arg <= offset[c.file]
                                                THEN offset[c.file] - c.arg ELSE offset[c.file]
        BY <2>2, Zenon DEF SetOffset
    <3>3. c.op = "forward" => offset[c.file] + c.arg <= MaxPos
        BY <2>2, Zenon DEF SetOffset
    <3> HIDE DEF c
    <3>4. offset[c.file] \in 0..MaxPos
        BY <2>1, <3>1, Zenon
    <3>5. n \in 0..MaxPos
        BY <3>1, <3>2, <3>3, <3>4
    <3> QED BY <2>1, <3>2, <3>5, Zenon
  <2> QED BY <2>1, <2>2, Zenon DEF Fault, SetLen, fileVars
<1>4. LocksFollow(t, Idle)
  <2>1. CASE Fault(t)
      BY <2>1, UnlockFollows, Zenon DEF Fault, At, Transfer, Moving
  <2>2. CASE SetOffset(t) \/ SetLen(t)
      BY <2>2, NoLockFollows, IdleFacts, Zenon DEF SetOffset, SetLen, At, fileVars, Transfer, Moving
  <2> QED BY <2>1, <2>2, Zenon
<1>5. /\ calls' \in 0..MaxCalls /\ calls <= calls' /\ CallType(Idle, calls') /\ CallShape(Idle)
      /\ Idle.obj = 0 /\ Idle.num = 0 /\ Idle.op # "write" /\ \A i \in Positions : Idle.old[i] = {}
    BY <1>1, IdleFacts
<1> QED BY <1>1, <1>2, <1>3, <1>4, <1>5, CallStep, Zenon

\* What the invariant says of one call.
LEMMA CallFacts ==
    ASSUME InodeInv, NEW t \in Tasks
    PROVE  /\ CallType(call[t], calls) /\ CallShape(call[t]) /\ DOMAIN call[t] = Fields
           /\ DOMAIN call = Tasks /\ calls \in Nat /\ calls \in 0..MaxCalls
           /\ call[t].start \in Nat /\ call[t].end \in Nat /\ call[t].pos \in Nat
           /\ dataLen \in Nat /\ dataLen <= MaxPos
BY InodeAssumption DEF InodeInv, StateInv, CallType

\* What a call moves lies in the file.
LEMMA CallRange ==
    ASSUME InodeInv, NEW t \in Tasks
    PROVE  /\ \A i \in call[t].start..(call[t].end - 1) : i \in Positions
           /\ call[t].pos < call[t].end => call[t].pos \in Positions /\ Pos(call[t]) \in PageIds
<1>1. /\ call[t].start \in Nat /\ call[t].end \in Nat /\ call[t].pos \in Nat
      /\ call[t].end <= MaxPos /\ MaxPos \in Nat
    BY CallFacts, InodeAssumption DEF CallType
<1>2. \A i \in call[t].start..(call[t].end - 1) : i \in Positions
    BY ONLY <1>1 DEF Positions
<1>3. ASSUME call[t].pos < call[t].end PROVE call[t].pos \in Positions
    BY ONLY <1>1, <1>3 DEF Positions
<1>4. call[t].pos < call[t].end => Pos(call[t]) \in PageIds
    BY <1>3, PositionPage, Zenon DEF Pos
<1> QED BY <1>2, <1>3, <1>4, Zenon

\* The transfer has the offset, and starts there or at the end of the file.
LEMMA LockOffsetStep ==
    ASSUME InodeInv, NEW t \in Tasks, LockOffset(t)
    PROVE  InodeInv'
<1> USE InodeAssumption
<1> DEFINE b == call[t]
           n == IF b.op = "write" /\ b.file \in AppendOpens THEN dataLen ELSE offset[b.file]
           c == [b EXCEPT !.pc = "begin", !.start = n]
<1>1. /\ b.pc = "lock" /\ olock[b.file] = None /\ olock' = [olock EXCEPT ![b.file] = t]
      /\ offset' = [offset EXCEPT ![b.file] = n]
      /\ call' = [call EXCEPT ![t] = c]
      /\ UNCHANGED <<dataLen, clusters, pages, page, panicked, values, calls>>
    BY Zenon DEF LockOffset, At, cacheVars
<1>2. /\ DOMAIN c = Fields /\ c.pc = "begin" /\ c.start = n
      /\ c.op = b.op /\ c.file = b.file /\ c.arg = b.arg /\ c.end = b.end /\ c.pos = b.pos
      /\ c.obj = b.obj /\ c.last = b.last /\ c.num = b.num /\ c.old = b.old
    BY CallFacts, Zenon DEF Fields
<1>3. b.file \in Opens /\ n \in 0..MaxPos
    BY <1>1, CallFacts, Zenon DEF CallType, CallShape, InodeInv, StateInv
<1>4. CallType(b, calls) /\ CallShape(b)
    BY CallFacts, Zenon
<1> HIDE DEF n, c, b
<1>5. CallType(c, calls)
    BY <1>2, <1>3, <1>4, Zenon DEF CallType, CallPc, Transfer
<1>6. CallShape(c)
    BY <1>1, <1>2, <1>4, Zenon DEF CallShape, Transfer, Moving
<1>7. \A f \in Opens : olock[f] # t
    BY <1>1 DEF b, InodeInv, LockInv, Transfer, Moving
<1>8. LocksFollow(t, c)
    BY <1>1, <1>2, <1>3, <1>7, Zenon DEF LocksFollow, InodeInv, StateInv, Transfer
<1>9. /\ offset' \in [Opens -> 0..MaxPos] /\ dataLen' \in 0..MaxPos /\ clusters' \in 0..MaxPos
      /\ calls' \in 0..MaxCalls /\ calls <= calls'
    BY <1>1, <1>3 DEF InodeInv, StateInv
<1>10. c.obj = 0 /\ c.pc \notin Moving
    BY <1>2, <1>6, Zenon DEF CallShape, Moving
<1>11. b = call[t]
    BY Zenon DEF b
<1> QED BY <1>1, <1>2, <1>5, <1>6, <1>8, <1>9, <1>10, <1>11, CallStep, Zenon

\* A read moves up to the end of the file as it is now.
LEMMA BeginReadStep ==
    ASSUME InodeInv, NEW t \in Tasks, BeginRead(t)
    PROVE  InodeInv'
<1> USE InodeAssumption
<1> DEFINE b == call[t]
           e == IF b.start > dataLen THEN b.start ELSE b.start + Min2(b.arg, dataLen - b.start)
           c == [Keep(b) EXCEPT !.end = e]
<1>1. /\ b.pc = "begin" /\ b.op = "read" /\ call' = [call EXCEPT ![t] = c]
      /\ UNCHANGED <<offset, olock, dataLen, clusters, pages, page, panicked, values, calls>>
    BY Zenon DEF BeginRead, At, fileVars, cacheVars
<1>2. /\ DOMAIN c = Fields /\ c.pc = "page" /\ c.start = b.start
      /\ c.op = b.op /\ c.file = b.file /\ c.arg = b.arg /\ c.end = e /\ c.pos = b.start
      /\ c.obj = b.obj /\ c.last = b.last /\ c.num = b.num /\ c.old = b.old
    BY CallFacts, Zenon DEF Fields, Keep
<1>3. b.start \in 0..MaxPos /\ b.arg \in Nat /\ e \in b.start..MaxPos
    BY CallFacts DEF CallType, Min2
<1>4. CallType(b, calls) /\ CallShape(b)
    BY CallFacts, Zenon
<1>5. \A f \in Opens : olock[f] = t => b.file = f
    BY DEF InodeInv, LockInv
<1>6. b.file # None => olock[b.file] = t
    BY <1>1, Zenon DEF InodeInv, LockInv, Transfer
<1> HIDE DEF e, c, b
<1>7. CallType(c, calls)
    BY <1>2, <1>3, <1>4 DEF CallType, CallPc, Transfer, Moving
<1>8. \A i \in Positions : b.old[i] = {}
    BY <1>1, <1>4, Zenon DEF CallShape
<1>9. CallShape(c)
    BY <1>1, <1>2, <1>3, <1>4, <1>8 DEF CallShape, Transfer, Moving
<1>10. LocksFollow(t, c)
    BY <1>1, <1>2, <1>5, <1>6, Zenon DEF LocksFollow, InodeInv, StateInv, Transfer, Moving
<1>11. /\ offset' \in [Opens -> 0..MaxPos] /\ dataLen' \in 0..MaxPos /\ clusters' \in 0..MaxPos
      /\ calls' \in 0..MaxCalls /\ calls <= calls'
    BY <1>1 DEF InodeInv, StateInv
<1>12. c.obj = 0
    BY <1>2, <1>9, Zenon DEF CallShape
<1>13. b = call[t]
    BY Zenon DEF b
<1> QED BY <1>1, <1>2, <1>7, <1>8, <1>9, <1>10, <1>11, <1>12, <1>13, CallStep, Zenon

\* The locks follow a call that stays in its transfer, or out of one.
LEMMA LabelFollows ==
    ASSUME InodeInv, NEW t \in Tasks, NEW c, UNCHANGED olock,
           c.pc \in Transfer <=> call[t].pc \in Transfer, c.file = call[t].file
    PROVE  LocksFollow(t, c)
<1>1. /\ call[t].pc \in Transfer /\ call[t].file # None => olock[call[t].file] = t
      /\ \A f \in Opens : olock[f] = t => call[t].pc \in Transfer /\ call[t].file = f
      /\ olock \in [Opens -> Tasks \cup {None}]
    BY InodeAssumption DEF InodeInv, LockInv, StateInv
<1> QED BY <1>1, Zenon DEF LocksFollow

\* A page is looked up: the one in hand is the cached one.
LEMMA GetPageStep ==
    ASSUME InodeInv, NEW t \in Tasks, GetPage(t)
    PROVE  InodeInv'
<1> USE InodeAssumption
<1> DEFINE b == call[t]
           o == pages[Pos(b)]
           l == IF o = None THEN "create" ELSE IF page[o].state = "Invalid" THEN "guard" ELSE "copy"
           c == [b EXCEPT !.pc = l, !.obj = IF o = None THEN b.obj ELSE o]
<1>1. /\ b.pc = "page" /\ b.pos < b.end
      /\ UNCHANGED <<offset, olock, dataLen, clusters, pages, page, panicked, values, calls>>
    BY Zenon DEF GetPage, At, fileVars, cacheVars
<1>2. /\ DOMAIN c = Fields /\ c.pc = l /\ c.obj = (IF o = None THEN b.obj ELSE o) /\ c.start = b.start
      /\ c.op = b.op /\ c.file = b.file /\ c.arg = b.arg /\ c.end = b.end /\ c.pos = b.pos
      /\ c.last = b.last /\ c.num = b.num /\ c.old = b.old
    BY CallFacts, Zenon DEF Fields
<1>3. call' = [call EXCEPT ![t] = c]
  <2>1. CASE o = None
    <3>1. call' = [call EXCEPT ![t] = [b EXCEPT !.pc = "create"]]
        BY <2>1, Zenon DEF GetPage, Goto
    <3>2. c = [b EXCEPT !.pc = "create"]
        BY <2>1, CallFacts, Zenon DEF Fields
    <3> QED BY <3>1, <3>2, Zenon
  <2>2. CASE o # None
      BY <2>2, Zenon DEF GetPage, Use
  <2> QED BY <2>1, <2>2, Zenon
<1>4. CallType(b, calls) /\ CallShape(b)
    BY CallFacts, Zenon
<1>5. o \in PageObjs \cup {None} /\ b.obj = 0
  <2>1. b.pos \in Nat /\ b.pos \in Positions
      BY <1>1, CallFacts DEF CallType, Positions
  <2>2. PageId(b.pos) \in PageIds
      BY <2>1, PositionPage, Zenon
  <2> QED BY <1>1, <1>4, <2>2, Zenon DEF InodeInv, StateInv, CallShape, Pos
<1>6. b = call[t] /\ Pos(c) = Pos(b) /\ o = pages[Pos(b)]
    BY <1>2, Zenon DEF Pos
<1>7. l \in {"create", "guard", "copy"} /\ (l = "create" <=> o = None)
      /\ (l = "copy" => page[o].state # "Invalid")
    BY Zenon
<1>a. None \notin PageObjs /\ 0 \notin PageObjs /\ 0 # None
    BY ObjFacts, Zenon
<1> HIDE DEF c, b, l, o
<1>8. CallType(c, calls)
    BY <1>2, <1>4, <1>5, <1>7, Zenon DEF CallType, CallPc, Transfer, Moving
<1>9. CallShape(c)
    BY <1>1, <1>2, <1>4, <1>5, <1>7, <1>a, Zenon DEF CallShape, Transfer, Moving
<1>10. LocksFollow(t, c)
    BY <1>1, <1>2, <1>6, <1>7, LabelFollows, Zenon DEF Transfer, Moving
<1>11. /\ offset' \in [Opens -> 0..MaxPos] /\ dataLen' \in 0..MaxPos /\ clusters' \in 0..MaxPos
      /\ calls' \in 0..MaxCalls /\ calls <= calls'
    BY <1>1 DEF InodeInv, StateInv
<1>12. c.obj # 0 => c.obj = pages[Pos(c)] /\ (c.pc = "copy" => page[c.obj].state # "Invalid")
    BY <1>2, <1>5, <1>6, <1>7, Zenon
<1>13. b.pc \in Moving
    BY <1>1, Zenon DEF Moving
<1> QED BY <1>1, <1>2, <1>3, <1>6, <1>8, <1>9, <1>10, <1>11, <1>12, <1>13, CallStep, Zenon

\* A truncation gives the clusters back, or finds the file empty.
LEMMA FreeClustersStep ==
    ASSUME InodeInv, NEW t \in Tasks, FreeClusters(t)
    PROVE  InodeInv'
<1> USE InodeAssumption
<1> DEFINE b == call[t]
           d == [b EXCEPT !.pc = "setlen"]
<1>1. /\ b.pc = "truncate" /\ clusters' \in 0..MaxPos
      /\ UNCHANGED <<offset, olock, dataLen, pages, page, panicked, values, calls>>
    BY DEF FreeClusters, At, fileVars, cacheVars, InodeInv, StateInv
<1>2. PICK c \in {d, Idle} : call' = [call EXCEPT ![t] = c]
    BY Zenon DEF FreeClusters, Goto
<1>3. /\ DOMAIN d = Fields /\ d.pc = "setlen" /\ d.obj = b.obj /\ d.start = b.start
      /\ d.op = b.op /\ d.file = b.file /\ d.arg = b.arg /\ d.end = b.end /\ d.pos = b.pos
      /\ d.last = b.last /\ d.num = b.num /\ d.old = b.old
    BY CallFacts, Zenon DEF Fields
<1>4. CallType(b, calls) /\ CallShape(b)
    BY CallFacts, Zenon
<1>5. b = call[t]
    BY Zenon
<1> HIDE DEF d, b
<1>6. CallType(d, calls)
    BY <1>3, <1>4, Zenon DEF CallType, CallPc
<1>7. CallShape(d) /\ d.obj = 0 /\ \A i \in Positions : d.old[i] = {}
    BY <1>1, <1>3, <1>4, Zenon DEF CallShape, Transfer, Moving
<1>8. /\ CallType(c, calls) /\ CallShape(c) /\ c.obj = 0 /\ \A i \in Positions : c.old[i] = {}
      /\ c.pc \notin Transfer /\ (c.num # 0 => c.num = b.num)
    BY <1>2, <1>3, <1>6, <1>7, IdleFacts, CallFacts, Zenon DEF Transfer, Moving
<1>9. LocksFollow(t, c)
    BY <1>1, <1>5, <1>8, NoLockFollows, Zenon DEF Transfer, Moving
<1>10. /\ offset' \in [Opens -> 0..MaxPos] /\ dataLen' \in 0..MaxPos
       /\ calls' \in 0..MaxCalls /\ calls <= calls' /\ c.pc \notin Moving
    BY <1>1, <1>8 DEF InodeInv, StateInv, Transfer
<1> QED BY <1>1, <1>2, <1>5, <1>8, <1>9, <1>10, CallStep, Zenon

\* A write announces its value at every position of its range; nothing of it
\* is written yet.
LEMMA BeginWriteStep ==
    ASSUME InodeInv, NEW t \in Tasks, BeginWrite(t)
    PROVE  InodeInv'
<1> USE InodeAssumption
<1> DEFINE b == call[t]
           e == Min2(b.start + b.arg, MaxPos)
           r == b.start..(e - 1)
           w == [i \in Positions |-> IF i \in r THEN values[i] \ InProgress ELSE {}]
           c == [Keep(b) EXCEPT !.end = e, !.last = PageId(dataLen), !.old = w]
<1>1. /\ b.pc = "begin" /\ b.op = "write" /\ call' = [call EXCEPT ![t] = c]
      /\ values' = [i \in Positions |-> values[i] \cup (IF i \in r THEN {b.num} ELSE {})]
      /\ UNCHANGED <<offset, olock, dataLen, clusters, pages, page, panicked, calls>>
    BY Zenon DEF BeginWrite, At, fileVars, cacheVars
<1>2. /\ DOMAIN c = Fields /\ c.pc = "page" /\ c.start = b.start
      /\ c.op = b.op /\ c.file = b.file /\ c.arg = b.arg /\ c.end = e /\ c.pos = b.start
      /\ c.obj = b.obj /\ c.last = PageId(dataLen) /\ c.num = b.num /\ c.old = w
    BY CallFacts, Zenon DEF Fields, Keep
<1>3. CallType(b, calls) /\ CallShape(b) /\ DOMAIN call = Tasks /\ calls \in Nat
    BY CallFacts, Zenon
<1>4. b.start \in 0..MaxPos /\ b.arg \in Nat /\ e \in b.start..MaxPos /\ PageId(dataLen) \in Nat
      /\ b.num \in 1..calls /\ b.obj = 0 /\ b.start \in Nat
  <2>1. PageId(dataLen) \in Nat
      BY CallFacts, PageFacts, Zenon
  <2>2. b.num \in 0..calls /\ b.num # 0 /\ b.obj = 0 /\ b.start \in 0..MaxPos /\ b.arg \in Nat
      BY <1>1, <1>3, Zenon DEF CallType, CallShape, Transfer
  <2> QED BY <1>3, <2>1, <2>2 DEF Min2
<1>5. /\ \A i \in Positions : values[i] \subseteq Known(i, calls) /\ b.num \in Known(i, calls)
      /\ values \in [Positions -> SUBSET Nat]
    BY <1>4, Zenon DEF InodeInv, StateInv, Known
<1>6. /\ w \in [Positions -> SUBSET Nat] /\ \A i \in Positions : w[i] \subseteq Known(i, calls)
      /\ \A i \in Positions : w[i] # {} => i \in r
      /\ \A i \in Positions, u \in Tasks : call[u].num # 0 => call[u].num \notin w[i]
    BY <1>5, Zenon DEF InProgress
<1>7. b = call[t] /\ r = b.start..(e - 1)
    BY Zenon
<1>8. /\ call'[t] = c /\ \A u \in Tasks \ {t} : call'[u] = call[u]
    BY <1>1, <1>3, Zenon
<1> HIDE DEF e, r, w, c, b
<1>9. \A i \in Positions : values[i] \subseteq values'[i] /\ (i \in r => b.num \in values'[i])
    BY <1>1, Zenon
<1>10. CallType(c, calls)
    BY <1>2, <1>3, <1>4, <1>6, SMTT(30) DEF CallType, CallPc, Transfer, Moving
<1>11. CallShape(c)
    BY <1>1, <1>2, <1>3, <1>4, <1>6, <1>7 DEF CallShape, Transfer, Moving
<1>12. StateInv'
  <2>1. \A u \in Tasks : CallType(call'[u], calls') /\ CallShape(call'[u])
      BY <1>1, <1>8, <1>10, <1>11, Zenon DEF InodeInv, StateInv
  <2>2. values' \in [Positions -> SUBSET Nat] /\ \A i \in Positions : values'[i] \subseteq Known(i, calls')
      BY <1>1, <1>4, <1>5
  <2>3. DOMAIN call' = Tasks
      BY <1>1, <1>3, Zenon
  <2> QED BY <1>1, <2>1, <2>2, <2>3, Zenon DEF InodeInv, StateInv
<1>13. LockInv'
  <2>1. LocksFollow(t, c)
      BY <1>1, <1>2, <1>7, LabelFollows, Zenon DEF Transfer, Moving
  <2>2. \A o \in PageObjs : page[o].guard # t
      BY <1>1, <1>7 DEF InodeInv, LockInv
  <2> QED BY <1>1, <2>1, <2>2, LocksKept, Zenon
<1>14. ObjInv'
    BY <1>1, <1>2, <1>4, <1>8 DEF InodeInv, ObjInv, Cached
<1>15. ValueInv'
  <2>1. \A i \in Positions : pages'[PageId(i)] # None => Byte(i)' \in values'[i]
      BY <1>1, <1>9, Zenon DEF InodeInv, ValueInv, Byte
  <2>2. \A i \in Positions : ~ Valid(i)' => {0, Disk(i)} \subseteq values'[i]
      BY <1>1, <1>9 DEF InodeInv, ValueInv, Valid
  <2>3. ASSUME NEW u \in Tasks, call'[u].op = "write", call'[u].pc \in Moving,
               NEW i \in call'[u].start..(call'[u].end - 1)
        PROVE  call'[u].num \in values'[i]
    <3>1. i \in Positions
      <4>1. call'[u].start \in Nat /\ call'[u].end \in 0..MaxPos
          BY <1>12 DEF StateInv, CallType
      <4> QED BY <2>3, <4>1 DEF Positions
    <3>2. CASE u = t
        BY <1>2, <1>7, <1>8, <1>9, <2>3, <3>1, <3>2, Zenon
    <3>3. CASE u # t
        BY <1>8, <1>9, <2>3, <3>1, <3>3, Zenon DEF InodeInv, ValueInv
    <3> QED BY <3>2, <3>3, Zenon
  <2>4. \A v, u \in Tasks, i \in Positions : call'[u].num # 0 => call'[u].num \notin call'[v].old[i]
    <3>1. \A u \in Tasks : call'[u].num = call[u].num
        BY <1>2, <1>7, <1>8, Zenon
    <3> QED BY <1>2, <1>6, <1>8, <3>1 DEF InodeInv, ValueInv
  <2>5. ASSUME NEW u \in Tasks, NEW i \in Positions, call'[u].old[i] # {}, i < call'[u].pos
        PROVE  Valid(i)' /\ Byte(i)' \notin call'[u].old[i]
    <3>1. u # t
      <4>1. u = t => i < b.start /\ i \in b.start..(e - 1)
          BY <1>2, <1>6, <1>7, <1>8, <2>5, Zenon
      <4>2. i \in Int /\ b.start \in Int /\ e \in Int
          BY <1>4 DEF Positions
      <4> QED BY ONLY <4>1, <4>2
    <3> QED BY <1>1, <1>8, <2>5, <3>1 DEF InodeInv, ValueInv, Byte, Valid
  <2> QED BY <2>1, <2>2, <2>3, <2>4, <2>5, Zenon DEF ValueInv
<1> QED BY <1>12, <1>13, <1>14, <1>15, Zenon DEF InodeInv

-----------------------------------------------------------------------------
(***************************************************************************)
(* Steps on the page in hand                                               *)
(***************************************************************************)
\* A step of t on the page object o it has in hand, which becomes b: it may
\* be read, it has what t and the others have written, and it is not made
\* invalid.
PageMove(t, c, b, o) ==
    /\ call[t].obj = o /\ call[t].pc \in {"guard", "fill", "copy"}
    /\ call' = [call EXCEPT ![t] = c]
    /\ DOMAIN page' = DOMAIN page /\ page'[o] = b /\ \A q \in PageObjs \ {o} : page'[q] = page[q]
    /\ UNCHANGED <<offset, olock, dataLen, clusters, pages, panicked, values, calls>>
    /\ PageType(b) /\ CallType(c, calls) /\ CallShape(c) /\ c.pc \in Moving
    /\ c.op = call[t].op /\ c.file = call[t].file /\ c.start = call[t].start /\ c.end = call[t].end
    /\ c.num = call[t].num /\ c.old = call[t].old
    /\ c.obj # 0 => c.obj = o /\ c.pos = call[t].pos /\ (c.pc = "copy" => b.state # "Invalid")
    /\ b.guard = t => c.pc = "fill" /\ c.obj = o
    /\ b.guard # t /\ b.guard # None => b.guard = page[o].guard
    /\ page[o].state # "Invalid" => b.state # "Invalid"
    /\ b.state = "Invalid" => b.data = page[o].data
    /\ \A i \in Positions : pages[PageId(i)] = o => b.data[i % PAGE_SIZE] \in values[i]
    /\ \A i \in Positions : c.old[i] # {} /\ i < c.pos => i < call[t].pos \/ pages[PageId(i)] = o
    /\ \A u \in Tasks, i \in Positions :
         pages[PageId(i)] = o /\ call[u].old[i] # {} /\ i < (IF u = t THEN c.pos ELSE call[u].pos)
           => b.state # "Invalid" /\ b.data[i % PAGE_SIZE] \notin call[u].old[i]

\* The page in hand, if it is cached at all, is cached at the position of the
\* call only, and no other page has its guard held by the call.
LEMMA InHand ==
    ASSUME InodeInv, NEW t \in Tasks, call[t].pc \in {"guard", "fill", "copy"}
    PROVE  /\ call[t].obj \in PageObjs /\ PageType(page[call[t].obj])
           /\ DOMAIN page = PageObjs
           /\ \A i \in Positions : pages[PageId(i)] = call[t].obj => PageId(i) = Pos(call[t])
           /\ \A q \in PageObjs : q # call[t].obj => page[q].guard # t
<1> USE InodeAssumption
<1>1. call[t].obj \in PageObjs /\ call[t].obj # 0
    BY CallFacts, Zenon DEF CallType, CallShape
<1>2. PageType(page[call[t].obj]) /\ DOMAIN page = PageObjs
    BY <1>1, Zenon DEF InodeInv, StateInv
<1>3. call[t].pos \in Positions
  <2>1. call[t].pos < call[t].end
      BY CallFacts, Zenon DEF CallShape
  <2> QED BY <2>1, CallRange, Zenon
<1>4. ASSUME NEW i \in Positions, pages[PageId(i)] = call[t].obj
      PROVE  PageId(i) = Pos(call[t])
  <2>1. PageId(i) \in PageIds /\ Pos(call[t]) \in PageIds
      BY <1>3, PositionPage, Zenon DEF Pos
  <2>2. pages[Pos(call[t])] = call[t].obj
      BY <1>1, <1>4, <2>1, Zenon DEF InodeInv, ObjInv, Cached
  <2> QED BY <1>1, <1>4, <2>1, <2>2, ObjFacts, Zenon DEF InodeInv, StateInv
<1>5. \A q \in PageObjs : q # call[t].obj => page[q].guard # t
    BY DEF InodeInv, LockInv
<1> QED BY <1>1, <1>2, <1>4, <1>5, Zenon

\* Such a step keeps the invariant.
LEMMA PageStep ==
    ASSUME InodeInv, NEW t \in Tasks, NEW c, NEW b, NEW o, PageMove(t, c, b, o)
    PROVE  InodeInv'
<1> USE InodeAssumption
<1>0. /\ o \in PageObjs /\ \A q \in PageObjs : q # o => page[q].guard # t
    BY InHand, Zenon DEF PageMove
<1>1. /\ DOMAIN call = Tasks /\ DOMAIN page = PageObjs
      /\ call'[t] = c /\ \A u \in Tasks \ {t} : call'[u] = call[u]
      /\ page'[o] = b /\ \A q \in PageObjs \ {o} : page'[q] = page[q]
    BY <1>0, Zenon DEF InodeInv, StateInv, PageMove
<1>2. StateInv'
  <2>1. \A u \in Tasks : CallType(call'[u], calls') /\ CallShape(call'[u])
      BY <1>1, Zenon DEF InodeInv, StateInv, PageMove
  <2>2. \A q \in PageObjs : PageType(page'[q])
      BY <1>1 DEF InodeInv, StateInv, PageMove
  <2>3. DOMAIN call' = Tasks /\ DOMAIN page' = PageObjs
      BY <1>1, Zenon DEF PageMove
  <2> QED BY <2>1, <2>2, <2>3, Zenon DEF InodeInv, StateInv, PageMove
<1>3. LockInv'
  <2>1. LocksFollow(t, c)
      BY LabelFollows, Zenon DEF PageMove, Transfer, Moving
  <2>2. \A q \in PageObjs : page'[q].guard = t => c.pc = "fill" /\ c.obj = q
      BY <1>0, <1>1 DEF PageMove
  <2>3. \A q \in PageObjs : page'[q].guard # t /\ page'[q].guard # None => page'[q].guard = page[q].guard
      BY <1>1 DEF PageMove
  <2>4. call' = [call EXCEPT ![t] = c]
      BY Zenon DEF PageMove
  <2> QED BY ONLY InodeInv, <2>1, <2>2, <2>3, <2>4, LocksKept, Zenon
<1>4. ObjInv'
  <2> SUFFICES ASSUME NEW u \in Tasks, call'[u].obj # 0
               PROVE  /\ call'[u].obj \in Cached => pages[Pos(call'[u])] = call'[u].obj
                      /\ call'[u].pc = "copy" => page'[call'[u].obj].state # "Invalid"
                      /\ \A i \in Positions : call'[u].old[i] # {} => pages[Pos(call'[u])] = call'[u].obj
      BY DEF ObjInv, Cached, PageMove
  <2>1. CASE u = t
    <3>1. Pos(c) = Pos(call[t]) /\ c.obj = call[t].obj
        BY <1>1, <2>1, Zenon DEF Pos, PageMove
    <3>2. call[t].obj # 0
        BY <1>0, ObjFacts, Zenon DEF PageMove
    <3> QED BY <1>1, <2>1, <3>1, <3>2 DEF InodeInv, ObjInv, PageMove
  <2>2. CASE u # t
    <3>1. call'[u].obj \in PageObjs
        BY <1>2, Zenon DEF StateInv, CallType
    <3> QED BY <1>1, <2>2, <3>1 DEF InodeInv, ObjInv, PageMove
  <2> QED BY <2>1, <2>2, Zenon
<1>5. ValueInv'
  <2>0. \A i \in Positions : pages[PageId(i)] \in PageObjs \cup {None}
      BY PositionPage, Zenon DEF InodeInv, StateInv
  <2>1. \A i \in Positions : pages'[PageId(i)] # None => Byte(i)' \in values'[i]
      BY <1>1, <2>0 DEF InodeInv, ValueInv, Byte, PageMove
  <2>2. \A i \in Positions : ~ Valid(i)' => {0, Disk(i)} \subseteq values'[i]
      BY <1>1, <2>0 DEF InodeInv, ValueInv, Valid, PageMove
  <2>3. \A u \in Tasks : call'[u].op = "write" /\ call'[u].pc \in Moving =>
          \A i \in call'[u].start..(call'[u].end - 1) : call'[u].num \in values'[i]
    <3>1. call[t].pc \in Moving
        BY Zenon DEF Moving, PageMove
    <3> QED BY <1>1, <3>1 DEF InodeInv, ValueInv, PageMove
  <2>4. \A v, u \in Tasks, i \in Positions : call'[u].num # 0 => call'[u].num \notin call'[v].old[i]
      BY <1>1 DEF InodeInv, ValueInv, PageMove
  <2>5. ASSUME NEW u \in Tasks, NEW i \in Positions, call'[u].old[i] # {}, i < call'[u].pos
        PROVE  Valid(i)' /\ Byte(i)' \notin call'[u].old[i]
    <3>1. call'[u].old = call[u].old
        BY <1>1, Zenon DEF PageMove
    <3>2. CASE pages[PageId(i)] = o
        BY <1>0, <1>1, <2>5, <3>1, <3>2, ObjFacts DEF Valid, Byte, PageMove
    <3>3. CASE pages[PageId(i)] # o
      <4>1. i < call[u].pos
          BY <1>1, <2>5, <3>3, Zenon DEF PageMove
      <4>2. Valid(i) /\ Byte(i) \notin call[u].old[i]
          BY <2>5, <3>1, <4>1, Zenon DEF InodeInv, ValueInv
      <4> QED BY <1>1, <2>0, <3>1, <3>3, <4>2 DEF Valid, Byte, PageMove
    <3> QED BY <3>2, <3>3, Zenon
  <2> QED BY <2>1, <2>2, <2>3, <2>4, <2>5, Zenon DEF ValueInv
<1> QED BY <1>2, <1>3, <1>4, <1>5, Zenon DEF InodeInv

\* The state_guard of the page is taken.
LEMMA LockGuardStep ==
    ASSUME InodeInv, NEW t \in Tasks, LockGuard(t)
    PROVE  InodeInv'
<1> USE InodeAssumption
<1> DEFINE a == call[t]
           o == a.obj
           c == [a EXCEPT !.pc = "fill"]
           b == [page[o] EXCEPT !.guard = t]
<1>1. /\ a.pc = "guard" /\ call' = [call EXCEPT ![t] = c] /\ page' = [page EXCEPT ![o] = b]
      /\ UNCHANGED <<offset, olock, dataLen, clusters, pages, panicked, values, calls>>
    BY Zenon DEF LockGuard, At, Goto, fileVars
<1>2. /\ DOMAIN c = Fields /\ c.pc = "fill" /\ c.start = a.start
      /\ c.op = a.op /\ c.file = a.file /\ c.arg = a.arg /\ c.end = a.end /\ c.pos = a.pos
      /\ c.obj = a.obj /\ c.last = a.last /\ c.num = a.num /\ c.old = a.old
    BY CallFacts, Zenon DEF Fields
<1>3. CallType(a, calls) /\ CallShape(a)
    BY CallFacts, Zenon
<1>4. o \in PageObjs /\ PageType(page[o]) /\ DOMAIN page = PageObjs
    BY <1>1, InHand, Zenon
<1>5. DOMAIN b = {"state", "guard", "data"} /\ b.guard = t /\ b.state = page[o].state
      /\ b.data = page[o].data
    BY <1>4, Zenon DEF PageType
<1>6. \A i \in Positions : pages[PageId(i)] = o => page[o].data[i % PAGE_SIZE] \in values[i]
    BY <1>4, ObjFacts, Zenon DEF InodeInv, ValueInv, Byte
<1>7. \A u \in Tasks, i \in Positions : pages[PageId(i)] = o /\ call[u].old[i] # {} /\ i < call[u].pos
         => page[o].state # "Invalid" /\ page[o].data[i % PAGE_SIZE] \notin call[u].old[i]
    BY Zenon DEF InodeInv, ValueInv, Byte, Valid
<1>8. a = call[t] /\ o = a.obj
    BY Zenon
<1> HIDE DEF a, o, b, c
<1>9. CallType(c, calls) /\ CallShape(c)
    BY <1>1, <1>2, <1>3, Zenon DEF CallType, CallShape, CallPc, Transfer, Moving
<1>10. PageType(b)
    BY <1>4, <1>5, Zenon DEF PageType
<1>11. c.pc \in Moving
    BY <1>2, Zenon DEF Moving
<1>12. \A u \in Tasks, i \in Positions :
              pages[PageId(i)] = o /\ call[u].old[i] # {} /\ i < (IF u = t THEN c.pos ELSE call[u].pos)
                => b.state # "Invalid" /\ b.data[i % PAGE_SIZE] \notin call[u].old[i]
  <2>1. \A u \in Tasks : (IF u = t THEN c.pos ELSE call[u].pos) = call[u].pos
      BY <1>2, <1>8, Zenon
  <2> QED BY <1>5, <1>7, <2>1, Zenon
<1>13. \A i \in Positions : c.old[i] # {} /\ i < c.pos => i < call[t].pos \/ pages[PageId(i)] = o
    BY <1>2, <1>8, Zenon
<1>14. \A i \in Positions : pages[PageId(i)] = o => b.data[i % PAGE_SIZE] \in values[i]
    BY <1>5, <1>6, Zenon
<1>15. /\ call[t].obj = o /\ call[t].pc \in {"guard", "fill", "copy"}
       /\ c.op = call[t].op /\ c.file = call[t].file /\ c.start = call[t].start /\ c.end = call[t].end
       /\ c.num = call[t].num /\ c.old = call[t].old
    BY <1>1, <1>2, <1>8, Zenon
<1>16. /\ c.obj # 0 => c.obj = o /\ c.pos = call[t].pos /\ (c.pc = "copy" => b.state # "Invalid")
       /\ b.guard = t => c.pc = "fill" /\ c.obj = o
       /\ b.guard # t /\ b.guard # None => b.guard = page[o].guard
       /\ page[o].state # "Invalid" => b.state # "Invalid"
       /\ b.state = "Invalid" => b.data = page[o].data
    BY <1>2, <1>5, <1>8, Zenon
<1>17. PageMove(t, c, b, o)
    BY <1>1, <1>4, <1>9, <1>10, <1>11, <1>12, <1>13, <1>14, <1>15, <1>16, Zenon DEF PageMove
<1> QED BY <1>17, PageStep, Zenon

\* Under the guard an invalid page is filled from the disk, whose bytes may be
\* read as long as no valid page is cached; a valid one is left alone.
LEMMA FillStep ==
    ASSUME InodeInv, NEW t \in Tasks, Fill(t)
    PROVE  InodeInv'
<1> USE InodeAssumption
<1> DEFINE a == call[t]
           o == a.obj
           c == [a EXCEPT !.pc = "copy"]
           s == IF a.op = "write" THEN "Dirty"
                ELSE IF page[o].state = "Invalid" THEN "Synced" ELSE page[o].state
           d == IF MustFill(a) THEN read_page(Pos(a), page[o].data) ELSE page[o].data
           b == [state |-> s, guard |-> None, data |-> d]
<1>1. /\ a.pc = "fill" /\ call' = [call EXCEPT ![t] = c]
      /\ UNCHANGED <<offset, olock, dataLen, clusters, pages, panicked, values, calls>>
    BY Zenon DEF Fill, At, Goto, fileVars
<1>2. page' = [page EXCEPT ![o] = b]
    BY Zenon DEF Fill
<1>3. /\ DOMAIN c = Fields /\ c.pc = "copy" /\ c.start = a.start
      /\ c.op = a.op /\ c.file = a.file /\ c.arg = a.arg /\ c.end = a.end /\ c.pos = a.pos
      /\ c.obj = a.obj /\ c.last = a.last /\ c.num = a.num /\ c.old = a.old
    BY CallFacts, Zenon DEF Fields
<1>4. CallType(a, calls) /\ CallShape(a) /\ a.pos \in Nat
    BY CallFacts, Zenon
<1>5. /\ o \in PageObjs /\ PageType(page[o]) /\ DOMAIN page = PageObjs
      /\ \A i \in Positions : pages[PageId(i)] = o => PageId(i) = Pos(a)
    BY <1>1, InHand, Zenon
<1>6. /\ DOMAIN b = {"state", "guard", "data"} /\ b.guard = None /\ b.data = d
      /\ b.state \in {"Synced", "Dirty"}
    BY <1>5, Zenon DEF PageType, PageState
<1>7. /\ MustFill(a) => page[o].state = "Invalid"
      /\ ~ MustFill(a) => d = page[o].data
    BY Zenon DEF MustFill
<1>8. MustFill(a) =>
        /\ d \in [0..(PAGE_SIZE - 1) -> Nat]
        /\ \A i \in Positions : PageId(i) = Pos(a) =>
             d[i % PAGE_SIZE] \in {Disk(i), page[o].data[i % PAGE_SIZE]}
  <2> SUFFICES ASSUME MustFill(a)
               PROVE  /\ d \in [0..(PAGE_SIZE - 1) -> Nat]
                      /\ \A i \in Positions : PageId(i) = Pos(a) =>
                           d[i % PAGE_SIZE] \in {Disk(i), page[o].data[i % PAGE_SIZE]}
      BY Zenon
  <2>1. page[o].data \in [0..(PAGE_SIZE - 1) -> Nat] /\ Pos(a) \in Nat
      BY <1>4, <1>5, PageFacts, Zenon DEF PageType, Pos
  <2>a. Pos(a) * PAGE_SIZE \in Nat
      BY <2>1, PageStart, Zenon
  <2>b. \A n \in Nat, k \in 0..(PAGE_SIZE - 1) : Disk(n + k) \in Nat
      BY DEF Disk
  <2>2. \A k \in 0..(PAGE_SIZE - 1) : Disk(Pos(a) * PAGE_SIZE + k) \in Nat
      BY <2>a, <2>b, Zenon
  <2>3. d = [k \in 0..(PAGE_SIZE - 1) |->
                IF (Pos(a) * PAGE_SIZE + k) \div SectorPerCluster < clusters
                THEN Disk(Pos(a) * PAGE_SIZE + k) ELSE page[o].data[k]]
      BY <2>1, Zenon DEF read_page
  <2> HIDE DEF d
  <2>4. d \in [0..(PAGE_SIZE - 1) -> Nat]
      BY <2>1, <2>2, <2>3, Zenon
  <2>5. ASSUME NEW i \in Positions, PageId(i) = Pos(a)
        PROVE  d[i % PAGE_SIZE] \in {Disk(i), page[o].data[i % PAGE_SIZE]}
    <3>1. i % PAGE_SIZE \in 0..(PAGE_SIZE - 1) /\ Pos(a) * PAGE_SIZE + (i % PAGE_SIZE) = i
        BY <2>5, PositionPage, PageFacts, Zenon
    <3> QED BY <2>3, <3>1, Zenon
  <2> QED BY <2>4, <2>5, Zenon
<1>9. \A i \in Positions : pages[PageId(i)] = o =>
        /\ page[o].data[i % PAGE_SIZE] \in values[i]
        /\ page[o].state = "Invalid" => Disk(i) \in values[i]
    BY <1>5, ObjFacts, Zenon DEF InodeInv, ValueInv, Byte, Valid
<1>10. \A u \in Tasks, i \in Positions : pages[PageId(i)] = o /\ call[u].old[i] # {} /\ i < call[u].pos
         => page[o].state # "Invalid" /\ page[o].data[i % PAGE_SIZE] \notin call[u].old[i]
    BY Zenon DEF InodeInv, ValueInv, Byte, Valid
<1>11. a = call[t] /\ o = a.obj
    BY Zenon
<1> HIDE DEF a, o, b, c, d
<1>12. CallType(c, calls) /\ CallShape(c)
    BY <1>1, <1>3, <1>4, Zenon DEF CallType, CallShape, CallPc, Transfer, Moving
<1>13. PageType(b)
    BY <1>5, <1>6, <1>7, <1>8, Zenon DEF PageType, PageState
<1>14. c.pc \in Moving
    BY <1>3, Zenon DEF Moving
<1>15. \A u \in Tasks, i \in Positions :
              pages[PageId(i)] = o /\ call[u].old[i] # {} /\ i < (IF u = t THEN c.pos ELSE call[u].pos)
                => b.state # "Invalid" /\ b.data[i % PAGE_SIZE] \notin call[u].old[i]
    BY <1>3, <1>6, <1>7, <1>10, <1>11, Zenon
<1>16. \A i \in Positions : c.old[i] # {} /\ i < c.pos => i < call[t].pos \/ pages[PageId(i)] = o
    BY <1>3, <1>11, Zenon
<1>17. \A i \in Positions : pages[PageId(i)] = o => b.data[i % PAGE_SIZE] \in values[i]
    BY <1>5, <1>6, <1>7, <1>8, <1>9, Zenon
<1>18. /\ call[t].obj = o /\ call[t].pc \in {"guard", "fill", "copy"}
       /\ c.op = call[t].op /\ c.file = call[t].file /\ c.start = call[t].start /\ c.end = call[t].end
       /\ c.num = call[t].num /\ c.old = call[t].old
    BY <1>1, <1>3, <1>11, Zenon
<1>19. /\ c.obj # 0 => c.obj = o /\ c.pos = call[t].pos /\ (c.pc = "copy" => b.state # "Invalid")
       /\ b.guard # t /\ b.state # "Invalid"
    BY <1>3, <1>6, <1>11, Zenon
<1>20. PageMove(t, c, b, o)
    BY <1>1, <1>2, <1>5, <1>6, <1>12, <1>13, <1>14, <1>15, <1>16, <1>17, <1>18, <1>19, Zenon DEF PageMove
<1> QED BY <1>20, PageStep, Zenon

\* A chunk is copied: a write's value, announced and not obsolete, is in the
\* page for every position the call has passed.
LEMMA CopyStep ==
    ASSUME InodeInv, NEW t \in Tasks, Copy(t)
    PROVE  InodeInv'
<1> USE InodeAssumption
<1> DEFINE a == call[t]
           o == a.obj
           n == Min2(a.end, (Pos(a) + 1) * PAGE_SIZE)
           c == [a EXCEPT !.pc = "page", !.obj = 0, !.pos = n]
           d == [k \in DOMAIN page[o].data |-> IF Pos(a) * PAGE_SIZE + k \in Chunk(a)
                                               THEN a.num ELSE page[o].data[k]]
           b == IF a.op = "read" THEN page[o] ELSE [page[o] EXCEPT !.data = d]
<1>1. /\ a.pc = "copy" /\ call' = [call EXCEPT ![t] = c]
      /\ UNCHANGED <<offset, olock, dataLen, clusters, pages, panicked, values, calls>>
    BY Zenon DEF Copy, At, fileVars
<1>2. /\ DOMAIN c = Fields /\ c.pc = "page" /\ c.start = a.start
      /\ c.op = a.op /\ c.file = a.file /\ c.arg = a.arg /\ c.end = a.end /\ c.pos = n
      /\ c.obj = 0 /\ c.last = a.last /\ c.num = a.num /\ c.old = a.old
    BY CallFacts, Zenon DEF Fields
<1>3. /\ CallType(a, calls) /\ CallShape(a) /\ a.pos \in Nat /\ a.end \in 0..MaxPos /\ a.pos < a.end
      /\ a.start \in Nat /\ a.start <= a.pos /\ a.num \in Nat /\ a.op \in {"read", "write"}
      /\ (a.op = "write" => a.num # 0)
    BY <1>1, CallFacts DEF CallType, CallShape, Transfer, Moving
<1>4. /\ o \in PageObjs /\ PageType(page[o]) /\ DOMAIN page = PageObjs
      /\ \A i \in Positions : pages[PageId(i)] = o => PageId(i) = Pos(a)
      /\ \A q \in PageObjs : q # o => page[q].guard # t
    BY <1>1, InHand, Zenon
<1>5. DOMAIN page' = DOMAIN page /\ page'[o] = b /\ \A q \in PageObjs \ {o} : page'[q] = page[q]
  <2>1. CASE a.op = "read"
      BY <2>1, Zenon DEF Copy
  <2>2. CASE a.op # "read"
    <3>1. page' = [page EXCEPT ![o] = b]
        BY <2>2, Zenon DEF Copy
    <3> QED BY <1>4, <3>1, Zenon
  <2> QED BY <2>1, <2>2, Zenon
<1>6. /\ DOMAIN b = {"state", "guard", "data"} /\ b.guard = page[o].guard /\ b.state = page[o].state
      /\ b.data = IF a.op = "read" THEN page[o].data ELSE d
    BY <1>4, Zenon DEF PageType
<1>7. /\ d \in [0..(PAGE_SIZE - 1) -> Nat]
      /\ \A i \in Positions : PageId(i) = Pos(a) =>
           d[i % PAGE_SIZE] = IF i \in Chunk(a) THEN a.num ELSE page[o].data[i % PAGE_SIZE]
  <2>1. page[o].data \in [0..(PAGE_SIZE - 1) -> Nat]
      BY <1>4, Zenon DEF PageType
  <2>2. d = [k \in 0..(PAGE_SIZE - 1) |-> IF Pos(a) * PAGE_SIZE + k \in Chunk(a)
                                          THEN a.num ELSE page[o].data[k]]
      BY <2>1, Zenon
  <2> HIDE DEF d
  <2>3. d \in [0..(PAGE_SIZE - 1) -> Nat]
      BY <1>3, <2>1, <2>2, Zenon
  <2>4. ASSUME NEW i \in Positions, PageId(i) = Pos(a)
        PROVE  d[i % PAGE_SIZE] = IF i \in Chunk(a) THEN a.num ELSE page[o].data[i % PAGE_SIZE]
    <3>1. i % PAGE_SIZE \in 0..(PAGE_SIZE - 1) /\ Pos(a) * PAGE_SIZE + (i % PAGE_SIZE) = i
        BY <2>4, PositionPage, PageFacts, Zenon
    <3> QED BY <2>2, <3>1, Zenon
  <2> QED BY <2>3, <2>4, Zenon
<1>8. /\ page[o].state # "Invalid"
      /\ \A i \in Positions : a.old[i] # {} => pages[Pos(a)] = o
      /\ page[o].guard # t
    BY <1>1, <1>4, ObjFacts DEF InodeInv, ObjInv, LockInv
<1>9. \A i \in Positions : pages[PageId(i)] = o => page[o].data[i % PAGE_SIZE] \in values[i]
    BY <1>4, ObjFacts, Zenon DEF InodeInv, ValueInv, Byte
<1>10. \A u \in Tasks, i \in Positions : pages[PageId(i)] = o /\ call[u].old[i] # {} /\ i < call[u].pos
         => page[o].data[i % PAGE_SIZE] \notin call[u].old[i]
    BY Zenon DEF InodeInv, ValueInv, Byte
<1>11. /\ a.op = "write" => \A i \in a.start..(a.end - 1) : a.num \in values[i]
       /\ \A u \in Tasks, i \in Positions : a.op = "write" => a.num \notin call[u].old[i]
    BY <1>1, <1>3, Zenon DEF InodeInv, ValueInv, Moving
<1>12. \A i \in Chunk(a) : i \in Positions /\ PageId(i) = Pos(a) /\ i \in a.start..(a.end - 1)
  <2> SUFFICES ASSUME NEW i \in Chunk(a)
               PROVE  i \in Positions /\ PageId(i) = Pos(a) /\ i \in a.start..(a.end - 1)
      BY Zenon
  <2>1. i \in Positions /\ PageId(i) = Pos(a) /\ a.pos <= i /\ i < a.end
      BY <1>3, ChunkPage, Zenon
  <2>2. i \in Nat
      BY <2>1 DEF Positions
  <2> HIDE DEF a
  <2> QED BY <1>3, <2>1, <2>2
<1>13. n \in 0..a.end /\ a.pos < n /\ \A i \in Nat : i < n => i < a.pos \/ i \in Chunk(a)
    BY <1>3, ChunkEnd, Zenon
<1>14. a = call[t] /\ o = a.obj /\ \A i \in Positions : i \in Nat
    BY DEF Positions
<1> HIDE DEF a, o, b, c, d, n
<1>15. CallType(c, calls) /\ CallShape(c)
  <2>1. CallType(c, calls)
      BY <1>1, <1>2, <1>3, <1>13 DEF CallType, CallPc, Transfer, Moving
  <2>2. CallShape(c)
      BY <1>1, <1>2, <1>3, <1>13 DEF CallType, CallShape, Transfer, Moving
  <2> QED BY <2>1, <2>2, Zenon
<1>16. PageType(b)
    BY <1>4, <1>6, <1>7, Zenon DEF PageType
<1>17. c.pc \in Moving
    BY <1>2, Zenon DEF Moving
<1>18. ASSUME NEW u \in Tasks, NEW i \in Positions, pages[PageId(i)] = o, call[u].old[i] # {},
              i < (IF u = t THEN c.pos ELSE call[u].pos)
       PROVE  b.state # "Invalid" /\ b.data[i % PAGE_SIZE] \notin call[u].old[i]
  <2>1. PageId(i) = Pos(a) /\ b.state # "Invalid"
      BY <1>4, <1>6, <1>8, <1>18, Zenon
  <2>2. CASE a.op = "write" /\ i \in Chunk(a)
      BY <1>6, <1>7, <1>11, <2>1, <2>2, Zenon
  <2>3. CASE i \notin Chunk(a)
    <3>1. i < call[u].pos
        BY <1>2, <1>13, <1>14, <1>18, <2>3, Zenon
    <3>2. b.data[i % PAGE_SIZE] = page[o].data[i % PAGE_SIZE]
        BY <1>6, <1>7, <2>1, <2>3, Zenon
    <3> QED BY <1>10, <1>18, <2>1, <3>1, <3>2, Zenon
  <2>4. CASE a.op = "read" /\ i \in Chunk(a)
    <3>1. u # t
        BY <1>14, <1>18, <2>4, <1>3, Zenon DEF CallShape
    <3> QED BY <1>6, <1>10, <1>18, <2>1, <2>4, <3>1, Zenon
  <2> QED BY <1>3, <2>2, <2>3, <2>4, Zenon
<1>19. \A i \in Positions : c.old[i] # {} /\ i < c.pos => i < call[t].pos \/ pages[PageId(i)] = o
    BY <1>2, <1>8, <1>12, <1>13, <1>14, Zenon
<1>20. \A i \in Positions : pages[PageId(i)] = o => b.data[i % PAGE_SIZE] \in values[i]
    BY <1>3, <1>4, <1>6, <1>7, <1>9, <1>11, <1>12, Zenon
<1>21. /\ call[t].obj = o /\ call[t].pc \in {"guard", "fill", "copy"}
       /\ c.op = call[t].op /\ c.file = call[t].file /\ c.start = call[t].start /\ c.end = call[t].end
       /\ c.num = call[t].num /\ c.old = call[t].old /\ c.obj = 0
    BY <1>1, <1>2, <1>14, Zenon
<1>22. b.guard # t /\ b.guard = page[o].guard /\ b.state # "Invalid"
    BY <1>6, <1>8, Zenon
<1>23. PageMove(t, c, b, o)
    BY <1>1, <1>5, <1>15, <1>16, <1>17, <1>18, <1>19, <1>20, <1>21, <1>22, Zenon DEF PageMove
<1> QED BY <1>23, PageStep, Zenon

-----------------------------------------------------------------------------
(***************************************************************************)
(* The end of a transfer, a truncation and a new page                      *)
(***************************************************************************)
\* A write that ends has replaced, in the page, everything it makes obsolete.
LEMMA FinishStep ==
    ASSUME InodeInv, NEW t \in Tasks, Finish(t)
    PROVE  InodeInv'
<1> USE InodeAssumption
<1> DEFINE a == call[t]
<1>1. /\ a.pc = "page" /\ a.pos = a.end /\ call' = [call EXCEPT ![t] = Idle] /\ Unlock(a)
      /\ offset' = (IF a.file = None THEN offset ELSE [offset EXCEPT ![a.file] = a.end])
      /\ UNCHANGED <<clusters, pages, page, panicked, calls>>
    BY Zenon DEF Finish, At, cacheVars
<1>2. /\ CallType(a, calls) /\ CallShape(a) /\ DOMAIN call = Tasks
      /\ a.end \in 0..MaxPos /\ a.start \in Nat /\ a.file \in Opens \cup {None}
    BY CallFacts, Zenon DEF CallType
<1>3. dataLen' \in 0..MaxPos /\ offset' \in [Opens -> 0..MaxPos]
  <2>1. dataLen \in 0..MaxPos /\ offset \in [Opens -> 0..MaxPos]
      BY Zenon DEF InodeInv, StateInv
  <2>2. dataLen' = dataLen \/ dataLen' = a.end
      BY Zenon DEF Finish
  <2> HIDE DEF a
  <2> QED BY <1>1, <1>2, <2>1, <2>2, Zenon
<1>4. /\ values' \in [Positions -> SUBSET Nat]
      /\ \A i \in Positions : /\ values'[i] \subseteq values[i]
                              /\ \A v \in values[i] : v \notin a.old[i] => v \in values'[i]
    BY DEF Finish, InodeInv, StateInv
<1>5. \A i \in Positions : a.old[i] # {} => i < a.pos
    BY <1>1, <1>2 DEF CallShape, Positions
<1>6. call'[t] = Idle /\ \A u \in Tasks \ {t} : call'[u] = call[u]
    BY <1>1, <1>2, Zenon
<1>7. StateInv'
  <2>1. \A u \in Tasks : CallType(call'[u], calls') /\ CallShape(call'[u])
      BY <1>1, <1>6, IdleFacts, CallFacts, Zenon DEF InodeInv, StateInv
  <2>2. \A i \in Positions : values'[i] \subseteq Known(i, calls')
      BY <1>1, <1>4, Zenon DEF InodeInv, StateInv
  <2>3. DOMAIN call' = Tasks /\ olock' \in [Opens -> Tasks \cup {None}]
      BY <1>1, <1>2, Zenon DEF Unlock, InodeInv, StateInv
  <2> QED BY <1>1, <1>3, <1>4, <2>1, <2>2, <2>3, Zenon DEF InodeInv, StateInv
<1>8. LockInv'
  <2>1. LocksFollow(t, Idle)
      BY <1>1, UnlockFollows, Zenon DEF Transfer, Moving
  <2>2. \A o \in PageObjs : page[o].guard # t
      BY <1>1 DEF InodeInv, LockInv
  <2> QED BY <1>1, <2>1, <2>2, LocksKept, Zenon
<1>9. ObjInv'
    BY <1>1, <1>6, IdleFacts DEF InodeInv, ObjInv, Cached
<1>10. ValueInv'
  <2>1. ASSUME NEW i \in Positions, pages'[PageId(i)] # None
        PROVE  Byte(i)' \in values'[i]
    <3>1. Byte(i) \in values[i] /\ Byte(i)' = Byte(i)
        BY <1>1, <2>1, Zenon DEF InodeInv, ValueInv, Byte
    <3>2. a.old[i] # {} => Byte(i) \notin a.old[i]
        BY <1>5, Zenon DEF InodeInv, ValueInv
    <3> QED BY <1>4, <3>1, <3>2, Zenon
  <2>2. ASSUME NEW i \in Positions, ~ Valid(i)'
        PROVE  {0, Disk(i)} \subseteq values'[i]
    <3>1. ~ Valid(i)
        BY <1>1, <2>2, Zenon DEF Valid
    <3>2. a.old[i] = {}
        BY <1>5, <3>1, Zenon DEF InodeInv, ValueInv
    <3> QED BY <1>4, <3>1, <3>2, Zenon DEF InodeInv, ValueInv
  <2>3. ASSUME NEW u \in Tasks, call'[u].op = "write", call'[u].pc \in Moving,
               NEW i \in call'[u].start..(call'[u].end - 1)
        PROVE  call'[u].num \in values'[i]
    <3>1. u # t
        BY <1>6, <2>3, IdleFacts, Zenon
    <3>2. CallType(call[u], calls) /\ CallShape(call[u]) /\ call'[u] = call[u]
        BY <1>6, <3>1, Zenon DEF InodeInv, StateInv
    <3>3. i \in Positions /\ call[u].num # 0
      <4>1. i \in Positions
          BY <2>3, <3>2, CallRange, Zenon
      <4> QED BY <2>3, <3>2, <4>1, Zenon DEF CallShape, Transfer
    <3>4. call[u].num \in values[i] /\ call[u].num \notin a.old[i]
        BY <2>3, <3>2, <3>3, Zenon DEF InodeInv, ValueInv
    <3> QED BY <1>4, <3>2, <3>3, <3>4, Zenon
  <2>4. \A v, u \in Tasks, i \in Positions : call'[u].num # 0 => call'[u].num \notin call'[v].old[i]
    <3>1. \A u \in Tasks : call'[u] = call[u] \/ (call'[u].num = 0 /\ \A i \in Positions : call'[u].old[i] = {})
        BY <1>6, IdleFacts, Zenon
    <3> QED BY <3>1, Zenon DEF InodeInv, ValueInv
  <2>5. ASSUME NEW u \in Tasks, NEW i \in Positions, call'[u].old[i] # {}, i < call'[u].pos
        PROVE  Valid(i)' /\ Byte(i)' \notin call'[u].old[i]
    <3>1. call'[u] = call[u]
        BY <1>6, <2>5, IdleFacts, Zenon
    <3>2. Valid(i) /\ Byte(i) \notin call[u].old[i]
        BY <2>5, <3>1, Zenon DEF InodeInv, ValueInv
    <3> QED BY <1>1, <3>1, <3>2, Zenon DEF Valid, Byte
  <2> QED BY <2>1, <2>2, <2>3, <2>4, <2>5, Zenon DEF ValueInv
<1> QED BY <1>7, <1>8, <1>9, <1>10, Zenon DEF InodeInv
=============================================================================
