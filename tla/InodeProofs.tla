---------------------------- MODULE InodeProofs -----------------------------
(***************************************************************************)
(* The safety properties of Inode, for any number of tasks, open files and *)
(* calls, any length of the file and any size of pages and clusters.       *)
(***************************************************************************)
EXTENDS InodeSteps, FiniteSetTheorems

\* A truncation frees pages: the disk's bytes and zeros may be read again, and
\* no write under way makes anything obsolete any more.
LEMMA FreePagesStep ==
    ASSUME InodeInv, NEW t \in Tasks, FreePages(t)
    PROVE  InodeInv'
<1> USE InodeAssumption
<1> DEFINE a == call[t]
           c == [a EXCEPT !.pc = "truncate"]
           w(u) == [call[u] EXCEPT !.old = Idle.old]
<1>1. /\ a.pc = "free" /\ call' = [u \in Tasks |-> IF u = t THEN c ELSE w(u)]
      /\ values' = [i \in Positions |-> values[i] \cup {0, Disk(i)}]
      /\ UNCHANGED <<offset, olock, dataLen, clusters, page, panicked, calls>>
    BY Zenon DEF FreePages, At, fileVars
<1>2. /\ DOMAIN pages' = PageIds /\ \A id \in PageIds : pages'[id] \in {pages[id], None}
      /\ pages' \in [PageIds -> PageObjs \cup {None}]
    BY Zenon DEF FreePages, InodeInv, StateInv
<1>3. /\ DOMAIN c = Fields /\ c.pc = "truncate" /\ c.start = a.start
      /\ c.op = a.op /\ c.file = a.file /\ c.arg = a.arg /\ c.end = a.end /\ c.pos = a.pos
      /\ c.obj = a.obj /\ c.last = a.last /\ c.num = a.num /\ c.old = a.old
    BY CallFacts, Zenon DEF Fields
<1>4. \A u \in Tasks :
        /\ DOMAIN w(u) = Fields /\ w(u).pc = call[u].pc /\ w(u).start = call[u].start
        /\ w(u).op = call[u].op /\ w(u).file = call[u].file /\ w(u).arg = call[u].arg
        /\ w(u).end = call[u].end /\ w(u).pos = call[u].pos /\ w(u).obj = call[u].obj
        /\ w(u).last = call[u].last /\ w(u).num = call[u].num /\ w(u).old = Idle.old
    BY CallFacts, Zenon DEF Fields
<1>5. \A u \in Tasks : CallType(call[u], calls) /\ CallShape(call[u])
    BY CallFacts, Zenon
<1>6. a.obj = 0 /\ \A i \in Positions : a.old[i] = {}
    BY <1>1, <1>5, Zenon DEF CallShape, Moving
<1>7. /\ call'[t] = c /\ \A u \in Tasks \ {t} : call'[u] = w(u)
      /\ DOMAIN call' = Tasks
    BY <1>1, Zenon
<1>8. a = call[t] /\ calls \in Nat
    BY CallFacts, Zenon
<1> HIDE DEF a, c, w
<1>9. \A u \in Tasks : \A i \in Positions : call'[u].old[i] = {}
  <2>1. call'[t].old = a.old /\ \A u \in Tasks \ {t} : call'[u].old = Idle.old
      BY <1>3, <1>4, <1>7, ZenonT(60)
  <2> QED BY <1>6, <2>1, IdleFacts, Zenon
<1>10. \A u \in Tasks : /\ call'[u].file = call[u].file /\ call'[u].obj = call[u].obj
                        /\ call'[u].pos = call[u].pos /\ call'[u].op = call[u].op
                        /\ call'[u].start = call[u].start /\ call'[u].end = call[u].end
                        /\ call'[u].num = call[u].num /\ call'[u].arg = call[u].arg
                        /\ call'[u].last = call[u].last /\ DOMAIN call'[u] = Fields
                        /\ call'[u].old \in [Positions -> SUBSET Nat]
    BY <1>3, <1>4, <1>5, <1>7, <1>8, IdleFacts DEF CallType
<1>11. \A u \in Tasks : IF u = t THEN call'[u].pc = "truncate" /\ call[u].pc = "free"
                                 ELSE call'[u].pc = call[u].pc
    BY <1>1, <1>3, <1>4, <1>7, <1>8, Zenon
<1>12. StateInv'
  <2>1. \A u \in Tasks : CallType(call'[u], calls')
      BY <1>1, <1>5, <1>9, <1>10, <1>11 DEF CallType, CallPc
  <2>2. \A u \in Tasks : CallShape(call'[u])
      BY <1>5, <1>9, <1>10, <1>11 DEF CallShape, Transfer, Moving
  <2>3. /\ values' \in [Positions -> SUBSET Nat]
        /\ \A i \in Positions : values'[i] \subseteq Known(i, calls')
    <3>1. \A i \in Positions : Disk(i) \in Nat
        BY DEF Disk, Positions
    <3> QED BY <1>1, <3>1 DEF InodeInv, StateInv, Known
  <2>4. \A id1, id2 \in PageIds : pages'[id1] = pages'[id2] /\ id1 # id2 => pages'[id1] = None
      BY <1>2, Zenon DEF InodeInv, StateInv
  <2> QED BY <1>1, <1>2, <1>7, <2>1, <2>2, <2>3, <2>4, Zenon DEF InodeInv, StateInv
<1>13. LockInv'
  <2>0. /\ \A u \in Tasks : /\ call'[u].pc \in Transfer <=> call[u].pc \in Transfer
                            /\ call[u].pc = "fill" => call'[u].pc = "fill"
                            /\ call'[u].file = call[u].file /\ call'[u].obj = call[u].obj
        /\ UNCHANGED <<olock, page>>
      BY <1>1, <1>10, <1>11, ZenonT(60) DEF Transfer, Moving
  <2>1. \A u \in Tasks : call'[u].pc \in Transfer /\ call'[u].file # None => olock'[call'[u].file] = u
      BY <2>0, Zenon DEF InodeInv, LockInv
  <2>2. \A f \in Opens : olock'[f] # None =>
           call'[olock'[f]].pc \in Transfer /\ call'[olock'[f]].file = f
      BY <2>0 DEF InodeInv, LockInv, StateInv
  <2>3. \A o \in PageObjs : page'[o].guard # None =>
           call'[page'[o].guard].pc = "fill" /\ call'[page'[o].guard].obj = o
      BY <2>0, Zenon DEF InodeInv, LockInv, StateInv, PageType
  <2> QED BY <2>1, <2>2, <2>3, Zenon DEF LockInv
<1>14. ObjInv'
  <2> SUFFICES ASSUME NEW u \in Tasks, call'[u].obj # 0
               PROVE  /\ call'[u].obj \in Cached' => pages'[Pos(call'[u])] = call'[u].obj
                      /\ call'[u].pc = "copy" => page'[call'[u].obj].state # "Invalid"
                      /\ \A i \in Positions : call'[u].old[i] = {}
      BY Zenon DEF ObjInv
  <2>1. call[u].obj # 0 /\ call[u].obj \in PageObjs /\ call'[u].obj = call[u].obj
        /\ Pos(call'[u]) = Pos(call[u]) /\ (call'[u].pc = "copy" => call[u].pc = "copy")
      BY <1>5, <1>10, <1>11, Zenon DEF CallType, Pos
  <2>2. ASSUME call[u].obj \in Cached'
        PROVE  pages'[Pos(call[u])] = call[u].obj
    <3>1. PICK id \in PageIds : pages'[id] = call[u].obj
        BY <2>2, Zenon DEF Cached
    <3>2. pages[id] = call[u].obj
        BY <1>2, <2>1, <3>1, ObjFacts, Zenon
    <3>3. pages[Pos(call[u])] = call[u].obj
        BY <2>1, <3>2, Zenon DEF InodeInv, ObjInv, Cached
    <3>4. Pos(call[u]) \in PageIds
      <4>1. call[u].pos < call[u].end
          BY <1>5, <2>1, Zenon DEF CallShape
      <4> QED BY <4>1, CallRange, Zenon
    <3>5. id = Pos(call[u])
        BY <2>1, <3>2, <3>3, <3>4, ObjFacts, Zenon DEF InodeInv, StateInv
    <3> QED BY <3>1, <3>5, Zenon
  <2> QED BY <1>1, <1>9, <2>1, <2>2, Zenon DEF InodeInv, ObjInv
<1>15. ValueInv'
  <2>0. \A i \in Positions : PageId(i) \in PageIds /\ values[i] \subseteq values'[i]
                             /\ {0, Disk(i)} \subseteq values'[i]
      BY <1>1, PositionPage, Zenon
  <2>1. \A i \in Positions : pages'[PageId(i)] # None => Byte(i)' \in values'[i]
      BY <1>1, <1>2, <2>0, Zenon DEF InodeInv, ValueInv, Byte
  <2>3. ASSUME NEW u \in Tasks, call'[u].op = "write", call'[u].pc \in Moving,
               NEW i \in call'[u].start..(call'[u].end - 1)
        PROVE  call'[u].num \in values'[i]
    <3>1. i \in Positions
        BY <1>10, <2>3, CallRange, Zenon
    <3> QED BY <1>10, <1>11, <2>0, <2>3, <3>1 DEF InodeInv, ValueInv, Moving
  <2> QED BY <1>9, <2>0, <2>1, <2>3, Zenon DEF ValueInv
<1> QED BY <1>12, <1>13, <1>14, <1>15, Zenon DEF InodeInv

\* There is always a page object that is neither cached nor in hand: a task
\* has one at a time, and the page to create is not cached.
LEMMA FreeObject ==
    ASSUME InodeInv, NEW id \in PageIds, pages[id] = None
    PROVE  \E o \in PageObjs : o \notin Cached \cup Held
<1> USE InodeAssumption
<1> DEFINE P == PageIds \ {id}
           C == {pages[q] : q \in P}
           g == [q \in P |-> pages[q]]
           h == [t \in Tasks |-> call[t].obj]
           n == Cardinality(PageIds)
           m == Cardinality(Tasks)
<1>1. IsFiniteSet(PageIds) /\ n \in Nat /\ m \in Nat
  <2>1. (MaxPos - 1) \div PAGE_SIZE \in Int
      OBVIOUS
  <2>2. IsFiniteSet(PageIds)
      BY <2>1, FS_Interval DEF PageIds
  <2> QED BY <2>2, FS_CardinalityType, Zenon
<1>2. IsFiniteSet(P) /\ Cardinality(P) = n - 1
    BY <1>1, FS_RemoveElement, Zenon
<1>3. IsFiniteSet(C) /\ Cardinality(C) <= n - 1
  <2>1. g \in Surjection(P, C)
      BY Zenon DEF Surjection
  <2> HIDE DEF g, P, C, n
  <2> QED BY <1>2, <2>1, FS_Surjection
<1>4. IsFiniteSet(Held) /\ Cardinality(Held) <= m
  <2>1. h \in Surjection(Tasks, Held)
      BY Zenon DEF Surjection, Held
  <2> HIDE DEF h, m
  <2> QED BY <2>1, FS_Surjection, Zenon DEF m
<1>5. Cached \subseteq C
    BY ObjFacts, Zenon DEF Cached
<1>6. IsFiniteSet(C \cup Held) /\ Cardinality(C \cup Held) <= n - 1 + m
  <2>1. IsFiniteSet(C \cap Held)
      BY <1>3, FS_Intersection, Zenon
  <2>2. /\ Cardinality(C) \in Nat /\ Cardinality(Held) \in Nat /\ Cardinality(C \cap Held) \in Nat
      BY <1>3, <1>4, <2>1, FS_CardinalityType, Zenon
  <2>3. /\ IsFiniteSet(C \cup Held)
        /\ Cardinality(C \cup Held) = Cardinality(C) + Cardinality(Held) - Cardinality(C \cap Held)
      BY <1>3, <1>4, FS_Union, Zenon
  <2> HIDE DEF C, n, m
  <2> QED BY <1>1, <1>3, <1>4, <2>2, <2>3
<1>7. IsFiniteSet(PageObjs) /\ Cardinality(PageObjs) = n + m
  <2> HIDE DEF n, m
  <2>1. n + m \in Nat /\ PageObjs = 1..(n + m)
      BY <1>1 DEF PageObjs, n, m
  <2> QED BY <2>1, FS_Interval
<1>8. ~ (PageObjs \subseteq C \cup Held)
  <2> SUFFICES ASSUME PageObjs \subseteq C \cup Held PROVE FALSE
      BY Zenon
  <2>1. Cardinality(PageObjs) <= Cardinality(C \cup Held) /\ Cardinality(C \cup Held) \in Nat
      BY <1>6, FS_Subset, FS_CardinalityType, Zenon
  <2> HIDE DEF C, n, m
  <2> QED BY <1>1, <1>6, <1>7, <2>1
<1> QED BY <1>5, <1>8, Zenon

\* A page is created: a blank, invalid one, in nobody else's hands.
LEMMA CreatePageStep ==
    ASSUME InodeInv, NEW t \in Tasks, CreatePage(t)
    PROVE  InodeInv'
<1> USE InodeAssumption
<1> DEFINE a == call[t]
           p == Pos(a)
           o == CHOOSE o \in PageObjs : o \notin Cached \cup Held
           c == [a EXCEPT !.pc = "guard", !.obj = o]
<1>1. /\ a.pc = "create" /\ UNCHANGED <<offset, olock, dataLen, clusters, values, calls>>
    BY Zenon DEF CreatePage, At, fileVars
<1>2. CASE pages[p] # None
  <2>1. panicked' = TRUE /\ UNCHANGED <<pages, page, call>>
      BY <1>2, Zenon DEF CreatePage, cacheVars
  <2>2. StateInv' /\ LockInv' /\ ObjInv'
      BY <1>1, <2>1 DEF InodeInv, StateInv, LockInv, ObjInv, Cached
  <2>3. ValueInv'
      BY <1>1, <2>1, Zenon DEF InodeInv, ValueInv, Byte, Valid
  <2> QED BY <2>2, <2>3, Zenon DEF InodeInv
<1>3. CASE pages[p] = None
  <2>1. /\ call' = [call EXCEPT ![t] = c] /\ pages' = [pages EXCEPT ![p] = o]
        /\ page' = [page EXCEPT ![o] = Blank] /\ panicked' = panicked
      BY <1>3, ZenonT(60) DEF CreatePage, Use
  <2>2. /\ DOMAIN c = Fields /\ c.pc = "guard" /\ c.start = a.start
        /\ c.op = a.op /\ c.file = a.file /\ c.arg = a.arg /\ c.end = a.end /\ c.pos = a.pos
        /\ c.obj = o /\ c.last = a.last /\ c.num = a.num /\ c.old = a.old
      BY CallFacts, Zenon DEF Fields
  <2>3. CallType(a, calls) /\ CallShape(a) /\ a = call[t] /\ a.obj = 0
      BY <1>1, CallFacts, Zenon DEF CallShape
  <2>4. p \in PageIds
    <3>1. a.pos < a.end
        BY <1>1, CallFacts, Zenon DEF CallShape
    <3> QED BY <3>1, CallRange, Zenon
  <2>5. o \in PageObjs /\ o \notin Cached /\ o \notin Held
      BY <1>3, <2>4, FreeObject, Zenon
  <2>6. /\ \A id \in PageIds : pages[id] # o
        /\ \A u \in Tasks : call[u].obj # o
      BY <2>5, Zenon DEF Cached, Held
  <2>7. PageType(Blank) /\ Blank.state = "Invalid" /\ Blank.guard = None
        /\ \A k \in 0..(PAGE_SIZE - 1) : Blank.data[k] = 0
      BY Zenon DEF Blank, PageType, PageState
  <2>8. p = Pos(c) /\ p = Pos(a)
      BY <2>2, Zenon DEF Pos
  <2> HIDE DEF a, p, o, c
  <2>9. /\ DOMAIN call = Tasks /\ DOMAIN page = PageObjs /\ pages \in [PageIds -> PageObjs \cup {None}]
        /\ call'[t] = c /\ \A u \in Tasks \ {t} : call'[u] = call[u]
        /\ page'[o] = Blank /\ \A q \in PageObjs \ {o} : page'[q] = page[q]
        /\ pages'[p] = o /\ \A id \in PageIds \ {p} : pages'[id] = pages[id]
      BY <2>1, <2>4, <2>5, Zenon DEF InodeInv, StateInv
  <2>10. CallType(c, calls) /\ CallShape(c)
      BY <1>1, <2>2, <2>3, <2>5, ObjFacts, Zenon DEF CallType, CallShape, CallPc, Transfer, Moving
  <2>11. StateInv'
    <3>1. \A u \in Tasks : CallType(call'[u], calls') /\ CallShape(call'[u])
        BY <1>1, <2>9, <2>10, Zenon DEF InodeInv, StateInv
    <3>2. \A q \in PageObjs : PageType(page'[q])
        BY <2>7, <2>9, Zenon DEF InodeInv, StateInv
    <3>3. /\ pages' \in [PageIds -> PageObjs \cup {None}] /\ DOMAIN page' = PageObjs
          /\ DOMAIN call' = Tasks
        BY <2>1, <2>5, <2>9, Zenon
    <3>4. \A id1, id2 \in PageIds : pages'[id1] = pages'[id2] /\ id1 # id2 => pages'[id1] = None
        BY <2>6, <2>9 DEF InodeInv, StateInv
    <3> QED BY <1>1, <2>1, <3>1, <3>2, <3>3, <3>4, Zenon DEF InodeInv, StateInv
  <2>12. LockInv'
    <3>1. LocksFollow(t, c)
        BY <1>1, <2>2, <2>3, LabelFollows, Zenon DEF Transfer, Moving
    <3>2. \A q \in PageObjs : page'[q].guard = t => c.pc = "fill" /\ c.obj = q
        BY <1>1, <2>3, <2>7, <2>9 DEF InodeInv, LockInv
    <3>3. \A q \in PageObjs : page'[q].guard # t /\ page'[q].guard # None => page'[q].guard = page[q].guard
        BY <2>7, <2>9, Zenon
    <3>4. call' = [call EXCEPT ![t] = c]
        BY <2>1, Zenon
    <3> QED BY ONLY InodeInv, t \in Tasks, <3>1, <3>2, <3>3, <3>4, LocksKept, Zenon
  <2>13. ObjInv'
    <3> SUFFICES ASSUME NEW u \in Tasks, call'[u].obj # 0
                 PROVE  /\ call'[u].obj \in Cached' => pages'[Pos(call'[u])] = call'[u].obj
                        /\ call'[u].pc = "copy" => page'[call'[u].obj].state # "Invalid"
                        /\ \A i \in Positions : call'[u].old[i] # {} =>
                             pages'[Pos(call'[u])] = call'[u].obj
        BY Zenon DEF ObjInv
    <3>1. CASE u = t
        BY <2>2, <2>8, <2>9, <3>1, Zenon
    <3>2. CASE u # t
      <4>1. call'[u] = call[u] /\ call[u].obj \in PageObjs /\ call[u].obj # o /\ call[u].obj # 0
          BY <2>6, <2>9, <3>2, Zenon DEF InodeInv, StateInv, CallType
      <4>2. call[u].obj \in Cached' => call[u].obj \in Cached
          BY <2>9, <4>1, Zenon DEF Cached
      <4>3. pages[Pos(call[u])] = call[u].obj => pages'[Pos(call[u])] = call[u].obj
        <5>1. call[u].pos < call[u].end
            BY <4>1, CallFacts, Zenon DEF CallShape
        <5>2. Pos(call[u]) \in PageIds
            BY <5>1, CallRange, Zenon
        <5> QED BY <1>3, <2>9, <4>1, <5>2, ObjFacts, Zenon DEF p
      <4> QED BY <2>9, <4>1, <4>2, <4>3 DEF InodeInv, ObjInv
    <3> QED BY <3>1, <3>2, Zenon
  <2>14. ValueInv'
    <3>0. \A i \in Positions : /\ PageId(i) \in PageIds /\ i % PAGE_SIZE \in 0..(PAGE_SIZE - 1)
                               /\ pages[PageId(i)] \in PageObjs \cup {None}
        BY <2>9, PositionPage, PageFacts, Zenon
    <3>1. \A i \in Positions : PageId(i) = p => ~ Valid(i)
        BY <1>3, Zenon DEF Valid, p
    <3>2. ASSUME NEW i \in Positions, pages'[PageId(i)] # None
          PROVE  Byte(i)' \in values'[i]
      <4>1. CASE PageId(i) = p
          BY <1>1, <2>7, <2>9, <3>0, <3>1, <4>1 DEF Byte, InodeInv, ValueInv
      <4>2. CASE PageId(i) # p
          BY <1>1, <2>6, <2>9, <3>0, <3>2, <4>2 DEF Byte, InodeInv, ValueInv
      <4> QED BY <4>1, <4>2, Zenon
    <3>3. \A i \in Positions : ~ Valid(i)' => {0, Disk(i)} \subseteq values'[i]
      <4>1. \A i \in Positions : ~ Valid(i)' => ~ Valid(i)
          BY <2>6, <2>9, <3>0, <3>1 DEF Valid
      <4> QED BY <1>1, <4>1, Zenon DEF InodeInv, ValueInv
    <3>4. \A u \in Tasks : call'[u].op = "write" /\ call'[u].pc \in Moving =>
            \A i \in call'[u].start..(call'[u].end - 1) : call'[u].num \in values'[i]
        BY <1>1, <2>2, <2>3, <2>9 DEF InodeInv, ValueInv, Moving
    <3>5. \A v, u \in Tasks, i \in Positions : call'[u].num # 0 => call'[u].num \notin call'[v].old[i]
        BY <2>2, <2>3, <2>9 DEF InodeInv, ValueInv
    <3>6. ASSUME NEW u \in Tasks, NEW i \in Positions, call'[u].old[i] # {}, i < call'[u].pos
          PROVE  Valid(i)' /\ Byte(i)' \notin call'[u].old[i]
      <4>1. call'[u].old = call[u].old /\ call'[u].pos = call[u].pos
          BY <2>2, <2>3, <2>9, Zenon
      <4>2. Valid(i) /\ Byte(i) \notin call[u].old[i]
          BY <3>6, <4>1, Zenon DEF InodeInv, ValueInv
      <4> QED BY <2>6, <2>9, <3>0, <3>1, <4>1, <4>2 DEF Valid, Byte
    <3> QED BY <3>2, <3>3, <3>4, <3>5, <3>6, Zenon DEF ValueInv
  <2> QED BY <2>11, <2>12, <2>13, <2>14, Zenon DEF InodeInv
<1> QED BY <1>2, <1>3, Zenon

-----------------------------------------------------------------------------
(***************************************************************************)
(* The invariant and what follows from it                                  *)
(***************************************************************************)
\* A file of d bytes has at most d clusters.
LEMMA ClustersOf == \A d \in Nat : (d + SectorPerCluster - 1) \div SectorPerCluster \in 0..d
BY InodeAssumption

LEMMA InitHolds == Init => InodeInv
<1> SUFFICES ASSUME Init PROVE InodeInv
    BY Zenon
<1> USE InodeAssumption
<1>1. \A t \in Tasks : call[t] = Idle
    BY Zenon DEF Init
<1>2. StateInv
  <2>1. clusters \in 0..MaxPos
      BY ClustersOf DEF Init
  <2>2. PageType(Blank)
      BY Zenon DEF Blank, PageType, PageState
  <2>3. DOMAIN page = PageObjs /\ \A o \in PageObjs : PageType(page[o])
      BY <2>2, Zenon DEF Init
  <2>4. DOMAIN call = Tasks /\ \A t \in Tasks : CallType(call[t], calls) /\ CallShape(call[t])
      BY <1>1, IdleFacts, Zenon DEF Init
  <2>5. values \in [Positions -> SUBSET Nat] /\ \A i \in Positions : values[i] \subseteq Known(i, calls)
      BY DEF Init, Known, Disk, Positions
  <2>6. offset \in [Opens -> 0..MaxPos] /\ olock \in [Opens -> Tasks \cup {None}]
      BY DEF Init
  <2>7. pages \in [PageIds -> PageObjs \cup {None}] /\ \A id \in PageIds : pages[id] = None
      BY Zenon DEF Init
  <2>8. dataLen \in 0..MaxPos /\ calls \in 0..MaxCalls
      BY DEF Init
  <2>9. panicked \in BOOLEAN
      BY Zenon DEF Init
  <2> QED BY <2>1, <2>3, <2>4, <2>5, <2>6, <2>7, <2>8, <2>9, Zenon DEF StateInv
<1>3. LockInv
    BY <1>1, IdleFacts, Zenon DEF Init, LockInv, Transfer, Moving, Blank
<1>4. ObjInv
    BY <1>1, IdleFacts, Zenon DEF ObjInv
<1>5. ValueInv
  <2>1. \A i \in Positions : pages[PageId(i)] = None /\ {0, Disk(i)} \subseteq values[i]
      BY PositionPage, Zenon DEF Init
  <2> QED BY <1>1, <2>1, IdleFacts, Zenon DEF ValueInv, Moving
<1> QED BY <1>2, <1>3, <1>4, <1>5, Zenon DEF InodeInv

LEMMA NextHolds == InodeInv /\ [Next]_vars => InodeInv'
<1> SUFFICES ASSUME InodeInv, [Next]_vars PROVE InodeInv'
    BY Zenon
<1>1. CASE UNCHANGED vars
  <2>1. StateInv' /\ LockInv' /\ ObjInv'
      BY <1>1 DEF vars, fileVars, cacheVars, InodeInv, StateInv, LockInv, ObjInv, Cached
  <2>2. ValueInv'
      BY <1>1, Zenon DEF vars, fileVars, cacheVars, InodeInv, ValueInv, Byte, Valid
  <2> QED BY <2>1, <2>2, Zenon DEF InodeInv
<1>2. ASSUME NEW t \in Tasks, Start(t) PROVE InodeInv'
    BY <1>2, StartCalls, Zenon
<1>3. ASSUME NEW t \in Tasks, Step(t) PROVE InodeInv'
    BY <1>3, BeginReadStep, BeginWriteStep, GetPageStep, CreatePageStep, FillStep, CopyStep,
       EndStep, FinishStep, FreePagesStep, FreeClustersStep, Zenon DEF Step
<1>4. ASSUME NEW t \in Tasks, Acquire(t) PROVE InodeInv'
    BY <1>4, LockOffsetStep, EndStep, LockGuardStep, Zenon DEF Acquire
<1> QED BY <1>1, <1>2, <1>3, <1>4, Zenon DEF Next

\* The inductive invariant holds in every reachable state.
THEOREM InodeInvariant == Spec => []InodeInv
BY InitHolds, NextHolds, PTL DEF Spec

\* Offsets, lengths, pages, locks and the positions of the calls stay within
\* their types, and no page object is cached for two pages.
THEOREM InodeTypes == Spec => []TypeOK
<1>1. InodeInv => TypeOK
    BY InodeAssumption DEF InodeInv, StateInv, TypeOK, PageType, CallType
<1> QED BY <1>1, InodeInvariant, PTL

\* Completed writes are what reads find in the cache (inode.rs:158, 221),
\* whatever other tasks fill, dirty and free meanwhile.
THEOREM WritesAreRead == Spec => []WritesSurvive
<1>1. InodeInv => WritesSurvive
  <2> SUFFICES ASSUME InodeInv, NEW t \in Tasks, call[t].pc = "copy", call[t].obj \in Cached,
                      NEW i \in Chunk(call[t])
               PROVE  page[call[t].obj].data[i % PAGE_SIZE] \in values[i]
      BY Zenon DEF WritesSurvive
  <2>1. i \in Positions /\ PageId(i) = Pos(call[t])
    <3>1. call[t].pos \in Nat /\ call[t].end \in 0..MaxPos
        BY CallFacts, Zenon DEF CallType
    <3> QED BY <3>1, ChunkPage, Zenon
  <2>2. call[t].obj # 0 /\ call[t].obj # None
      BY ObjFacts, CallFacts, Zenon DEF CallType, CallShape
  <2>3. pages[PageId(i)] = call[t].obj
      BY <2>1, <2>2, Zenon DEF InodeInv, ObjInv
  <2> QED BY <2>1, <2>2, <2>3, Zenon DEF InodeInv, ValueInv, Byte
<1> QED BY <1>1, InodeInvariant, PTL

\* Calls that share an open file transfer disjoint ranges: the lock on the
\* offset (file.rs:267, 292) is held until the transfer ends.
THEOREM RangesDisjoint == Spec => []NoSharedRange
<1>1. InodeInv => NoSharedRange
  <2> SUFFICES ASSUME InodeInv, NEW t \in Tasks, NEW u \in Tasks, t # u,
                      call[t].file = call[u].file, call[t].file # None
               PROVE  (call[t].start..(call[t].end - 1)) \cap (call[u].start..(call[u].end - 1)) = {}
      BY Zenon DEF NoSharedRange
  <2>1. call[t].pc \notin Transfer \/ call[u].pc \notin Transfer
      BY DEF InodeInv, LockInv
  <2>2. \A v \in Tasks : call[v].pc \notin Transfer => call[v].start = 0 /\ call[v].end = 0
      BY CallFacts, Zenon DEF CallShape, Transfer
  <2> QED BY <2>1, <2>2
<1> QED BY <1>1, InodeInvariant, PTL

\* Whoever waits for an offset or a state_guard waits for a task that can run.
THEOREM EveryWaitEnds == Spec => []WaitsEnd
<1>1. InodeInv => WaitsEnd
  <2> SUFFICES ASSUME InodeInv PROVE WaitsEnd
      BY Zenon
  <2>1. \A o \in PageObjs : page[o].guard # None => Running(page[o].guard)
      BY Zenon DEF InodeInv, LockInv, Running, Waiting
  <2>2. ASSUME NEW f \in Opens, olock[f] # None, ~ Running(olock[f])
        PROVE  /\ call[olock[f]].pc = "guard"
               /\ GuardHolder(olock[f]) # None => Running(GuardHolder(olock[f]))
    <3>1. olock[f] \in Tasks /\ call[olock[f]].pc = "guard"
        BY <2>2 DEF InodeInv, StateInv, LockInv, Running, Waiting, Transfer, Moving
    <3>2. call[olock[f]].obj \in PageObjs
        BY <3>1, InHand, Zenon
    <3> QED BY <2>1, <3>1, <3>2, Zenon DEF GuardHolder
  <2> QED BY <2>1, <2>2, Zenon DEF WaitsEnd
<1> QED BY <1>1, InodeInvariant, PTL
=============================================================================
