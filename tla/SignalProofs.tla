---------------------------- MODULE SignalProofs ----------------------------
(***************************************************************************)
(* Proofs about Signals, for any number of threads, harts and nested       *)
(* handlers: floating-point registers survive interruptions, and the mask  *)
(* is restored.                                                            *)
(***************************************************************************)
EXTENDS Signals, SequenceTheorems, TLAPS

Value == Floats \cup {0}
Context == [fs : {"Clean", "Dirty"}, saved : Value, valid : BOOLEAN]
Action == [handler : {"fn", "IGN", "DFL"}, mask : SUBSET Signal, nodefer : BOOLEAN]
OnHart == {"user", "return", "signal"}
ThreadState ==
    [at : OnHart \cup {"none", "ready", "dead"}, hart : SigHarts \cup {NoOne}, exited : BOOLEAN,
     mask : SUBSET Signal, pending : SUBSET Signal, sig : Signal \cup {0},
     actions : [Signal -> Action], ctx : Context,
     frames : Seq([mask : SUBSET Signal, ctx : Context])]

\* The mask in force once all handlers have returned.
BaseMask(x) == IF x.frames = <<>> THEN x.mask ELSE x.frames[Len(x.frames)].mask

\* What holds of a thread x, given its histories and the registers: a value it
\* computed is in the registers and, unless they are marked dirty, saved too.
Good(x, o, c, r) ==
    /\ x.at \in OnHart <=> x.hart # NoOne
    /\ x.at = "signal" => x.sig # 0
    /\ x.at = "none" => c = 0
    /\ c # 0 /\ x.at \in OnHart =>
         r[x.hart] = c /\ (x.ctx.fs = "Dirty" \/ (x.ctx.valid /\ x.ctx.saved = c))
    /\ c # 0 /\ x.at = "ready" => x.ctx.valid /\ x.ctx.saved = c
    /\ ~ x.exited => BaseMask(x) = o

SignalTypes ==
    /\ thread \in [Threads -> ThreadState]
    /\ regs \in [SigHarts -> Value]
    /\ own \in [Threads -> SUBSET Signal]
    /\ computed \in [Threads -> Value]

SignalInv ==
    /\ SignalTypes
    /\ \A t, u \in Threads : Hart(t) = Hart(u) /\ Hart(t) # NoOne => t = u
    /\ \A t \in Threads : Good(thread[t], own[t], computed[t], regs)

\* The step leaves the hart, registers and histories of the others alone.
Apart(t, y) ==
    \A u \in Threads : u # t =>
        /\ own'[u] = own[u] /\ computed'[u] = computed[u]
        /\ Hart(u) # NoOne => y.hart # Hart(u) /\ regs'[Hart(u)] = regs[Hart(u)]

\* A step of one thread that takes or keeps no other thread's hart, and touches
\* the registers of no other thread's hart.
LEMMA OneThread ==
    ASSUME SignalInv, NEW t \in Threads, NEW y \in ThreadState,
           thread' = [thread EXCEPT ![t] = y],
           regs' \in [SigHarts -> Value], own' \in [Threads -> SUBSET Signal],
           computed' \in [Threads -> Value], Apart(t, y),
           Good(y, own'[t], computed'[t], regs')
    PROVE  SignalInv'
<1>1. SignalTypes' BY Zenon DEF SignalInv, SignalTypes
<1>2. thread'[t] = y /\ \A u \in Threads : u # t => thread'[u] = thread[u] BY Zenon DEF SignalInv, SignalTypes
<1>3. \A u, v \in Threads : thread'[u].hart = thread'[v].hart /\ thread'[u].hart # NoOne => u = v
  BY <1>2 DEF SignalInv, Hart, Apart
<1>4. ASSUME NEW u \in Threads PROVE Good(thread'[u], own'[u], computed'[u], regs')
  <2>1. CASE u = t BY <2>1, <1>2, Zenon
  <2>2. CASE u # t
    <3>1. Good(thread[u], own[u], computed[u], regs) BY Zenon DEF SignalInv
    <3>2. thread[u].at \in OnHart => regs'[thread[u].hart] = regs[thread[u].hart]
      BY <2>2, <3>1, Zenon DEF Good, Hart, Apart
    <3> QED BY <1>2, <2>2, <3>1, <3>2, Zenon DEF Good, Apart
  <2> QED BY <2>1, <2>2, Zenon
<1> QED BY <1>1, <1>3, <1>4, Zenon DEF SignalInv, Hart

\* Only the histories of t, if any, change, and they keep their types.
HistoryOf(t) ==
    /\ own' \in [Threads -> SUBSET Signal] /\ computed' \in [Threads -> Value]
    /\ \A u \in Threads : u # t => own'[u] = own[u] /\ computed'[u] = computed[u]

\* The same for a thread that stays on its hart or leaves it, and touches no
\* registers.
LEMMA SameHart ==
    ASSUME SignalInv, NEW t \in Threads, NEW y \in ThreadState,
           thread' = [thread EXCEPT ![t] = y], y.hart \in {Hart(t), NoOne}, regs' = regs,
           HistoryOf(t),
           Good(y, own'[t], computed'[t], regs)
    PROVE  SignalInv'
<1>1. regs' \in [SigHarts -> Value] BY Zenon DEF SignalInv, SignalTypes
<1>2. Apart(t, y) BY Zenon DEF SignalInv, Apart, HistoryOf
<1> QED BY <1>1, <1>2, OneThread, Zenon DEF HistoryOf

\* The end of a trap's handling keeps what is known of the thread.
LEMMA TrappedGood ==
    ASSUME NEW x \in ThreadState, x.at \in OnHart, NEW o, NEW c, NEW r, Good(x, o, c, r)
    PROVE  /\ Trapped(x) \in ThreadState /\ Trapped(x).hart \in {x.hart, NoOne}
           /\ Good(Trapped(x), o, c, r)
<1>1. CASE x.exited
  <2> DEFINE y == [x EXCEPT !.at = "dead", !.hart = NoOne]
  <2>1. Trapped(x) = y BY <1>1, Zenon DEF Trapped
  <2>2. y \in ThreadState /\ y.at = "dead" /\ y.hart = NoOne /\ y.exited = x.exited
    BY Zenon DEF ThreadState, OnHart
  <2> QED BY <1>1, <2>1, <2>2, Zenon DEF Good, OnHart
<1>2. CASE ~ x.exited
  <2> DEFINE y == [x EXCEPT !.at = "return"]
  <2>1. Trapped(x) = y BY <1>2, Zenon DEF Trapped
  <2>2. /\ y \in ThreadState /\ y.at = "return" /\ y.hart = x.hart /\ y.exited = x.exited
        /\ y.ctx = x.ctx /\ y.frames = x.frames /\ y.mask = x.mask
    BY Zenon DEF ThreadState, OnHart
  <2> QED BY <2>1, <2>2, Zenon DEF Good, OnHart, BaseMask
<1> QED BY <1>1, <1>2, Zenon

\* The system calls that change nothing but the signal state of the caller.
LEMMA SyscallStep ==
    ASSUME SignalInv, NEW t \in Threads, thread[t].at \in OnHart, NEW x \in ThreadState,
           x.at \in OnHart, x.hart = Hart(t), thread' = [thread EXCEPT ![t] = Trapped(x)], regs' = regs,
           HistoryOf(t),
           Good(x, own'[t], computed'[t], regs)
    PROVE  SignalInv'
BY TrappedGood, SameHart, Zenon

\* The facts about one thread that the steps start from.
LEMMA ThreadFacts ==
    ASSUME SignalInv, NEW t \in Threads
    PROVE  /\ thread[t] \in ThreadState /\ Good(thread[t], own[t], computed[t], regs)
           /\ thread[t].at \in OnHart => Hart(t) \in SigHarts
           /\ own \in [Threads -> SUBSET Signal] /\ computed \in [Threads -> Value]
           /\ regs \in [SigHarts -> Value]
BY Zenon DEF SignalInv, SignalTypes, ThreadState, Good, Hart

\* A poll takes a free hart and brings back what the last yield saved (glue.rs:91).
LEMMA PollStep ==
    ASSUME SignalInv, NEW t \in Threads, NEW h \in SigHarts, Poll(t, h) PROVE SignalInv'
<1> USE SignalAssumption
<1> DEFINE x == thread[t]
           z == [x EXCEPT !.hart = h]
           y == Trapped(z)
<1>1. x \in ThreadState /\ Good(x, own[t], computed[t], regs) /\ x.at = "ready" BY ThreadFacts, Zenon DEF Poll
<1>2. /\ z \in ThreadState /\ z.at = "ready" /\ z.hart = h /\ z.exited = x.exited /\ z.ctx = x.ctx
      /\ z.frames = x.frames /\ z.mask = x.mask
  BY <1>1, Zenon DEF ThreadState
<1>3. regs' = [regs EXCEPT ![h] = restore(x.ctx, regs[h])] BY Zenon DEF Poll
<1>4. restore(x.ctx, regs[h]) \in Value /\ regs' \in [SigHarts -> Value]
  BY <1>1, <1>3, ThreadFacts DEF restore, ThreadState, Context
<1>5. \A u \in Threads : u # t /\ Hart(u) # NoOne => h # Hart(u) /\ regs'[Hart(u)] = regs[Hart(u)]
  BY <1>3, ThreadFacts DEF Poll, Busy
<1>6. y \in ThreadState /\ y.hart \in {h, NoOne} /\ Good(y, own[t], computed[t], regs')
  <2>1. CASE x.exited
    <3>1. y = [z EXCEPT !.at = "dead", !.hart = NoOne] BY <1>2, <2>1, Zenon DEF Trapped
    <3> HIDE DEF y, z
    <3>2. y \in ThreadState /\ y.at = "dead" /\ y.hart = NoOne /\ y.exited = x.exited
      BY <1>2, <3>1, Zenon DEF ThreadState, OnHart
    <3> QED BY <2>1, <3>2, Zenon DEF Good, OnHart
  <2>2. CASE ~ x.exited
    <3>1. y = [z EXCEPT !.at = "return"] BY <1>2, <2>2, Zenon DEF Trapped
    <3> HIDE DEF y, z
    <3>2. /\ y \in ThreadState /\ y.at = "return" /\ y.hart = h /\ y.ctx = x.ctx
          /\ y.frames = x.frames /\ y.mask = x.mask /\ y.exited = x.exited
      BY <1>2, <3>1, Zenon DEF ThreadState, OnHart
    <3>3. computed[t] # 0 => x.ctx.valid /\ x.ctx.saved = computed[t] BY <1>1, Zenon DEF Good
    <3>4. computed[t] # 0 => regs'[h] = computed[t] BY <1>3, <3>3, ThreadFacts, Zenon DEF restore
    <3> QED BY <1>1, <3>2, <3>3, <3>4, Zenon DEF Good, OnHart, BaseMask
  <2> QED BY <2>1, <2>2, Zenon
<1>7. thread' = [thread EXCEPT ![t] = y] /\ own' = own /\ computed' = computed BY Zenon DEF Poll
<1> HIDE DEF y
<1>8. Apart(t, y) BY <1>5, <1>6, <1>7 DEF Apart
<1>10. Good(y, own'[t], computed'[t], regs') BY <1>6, <1>7, Zenon
<1>9. own' \in [Threads -> SUBSET Signal] /\ computed' \in [Threads -> Value] BY <1>7, ThreadFacts, Zenon
<1> QED BY <1>4, <1>6, <1>7, <1>8, <1>9, <1>10, OneThread, Zenon

\* A yield with FS dirty saves the registers (glue.rs:109).
LEMMA YieldStep == ASSUME SignalInv, NEW t \in Threads, Yield(t) PROVE SignalInv'
<1> USE SignalAssumption
<1> DEFINE x == thread[t]
           c == save(x.ctx, regs[Hart(t)])
           y == [x EXCEPT !.at = "ready", !.hart = NoOne, !.ctx = c]
<1>1. /\ x \in ThreadState /\ Good(x, own[t], computed[t], regs) /\ x.at = "user"
      /\ regs[Hart(t)] \in Value
  BY ThreadFacts, Zenon DEF Yield, OnHart
<1>2. c \in Context /\ (computed[t] # 0 => c.valid /\ c.saved = computed[t])
  <2>1. CASE x.ctx.fs = "Dirty"
    <3>1. c = [fs |-> "Clean", saved |-> regs[Hart(t)], valid |-> TRUE] BY <2>1, Zenon DEF save
    <3> QED BY <1>1, <3>1 DEF Context, Good, Hart, OnHart
  <2>2. CASE x.ctx.fs # "Dirty"
    <3>1. c = x.ctx BY <2>2, Zenon DEF save
    <3> QED BY <1>1, <2>2, <3>1, Zenon DEF Good, OnHart, ThreadState
  <2> QED BY <2>1, <2>2, Zenon
<1>3. /\ y \in ThreadState /\ y.at = "ready" /\ y.hart = NoOne /\ y.ctx = c /\ y.exited = x.exited
      /\ y.frames = x.frames /\ y.mask = x.mask
  BY <1>1, <1>2, Zenon DEF ThreadState
<1>4. Good(y, own[t], computed[t], regs) BY <1>1, <1>2, <1>3, Zenon DEF Good, OnHart, BaseMask
<1>5. thread' = [thread EXCEPT ![t] = y] /\ regs' = regs /\ own' = own /\ computed' = computed
  BY Zenon DEF Yield, SignalInv, SignalTypes
<1>6. HistoryOf(t) BY <1>5, ThreadFacts, Zenon DEF HistoryOf
<1> HIDE DEF y
<1> QED BY <1>3, <1>4, <1>5, <1>6, SameHart, Zenon

\* A computation marks the registers of its own hart dirty.
LEMMA ComputeStep ==
    ASSUME SignalInv, NEW t \in Threads, NEW v \in Floats, Compute(t, v) PROVE SignalInv'
<1> USE SignalAssumption
<1> DEFINE x == thread[t]
           y == [x EXCEPT !.ctx.fs = "Dirty"]
<1>1. /\ x \in ThreadState /\ Good(x, own[t], computed[t], regs) /\ x.at = "user"
      /\ Hart(t) \in SigHarts
  BY ThreadFacts, Zenon DEF Compute, OnHart
<1>2. /\ y \in ThreadState /\ y.at = "user" /\ y.hart = x.hart /\ y.exited = x.exited
      /\ y.frames = x.frames /\ y.mask = x.mask /\ y.ctx.fs = "Dirty"
  BY <1>1, Zenon DEF ThreadState, Context
<1>3. /\ regs' = [regs EXCEPT ![Hart(t)] = v] /\ thread' = [thread EXCEPT ![t] = y]
      /\ computed' = [computed EXCEPT ![t] = v] /\ own' = own
  BY Zenon DEF Compute
<1>4. regs' \in [SigHarts -> Value] /\ computed' \in [Threads -> Value]
  BY <1>3, ThreadFacts, Zenon DEF Value
<1>5. Good(y, own'[t], computed'[t], regs')
  BY <1>1, <1>2, <1>3, ThreadFacts, Zenon DEF Good, OnHart, BaseMask, Hart
<1>6. \A u \in Threads : u # t /\ Hart(u) # NoOne => y.hart # Hart(u) /\ regs'[Hart(u)] = regs[Hart(u)]
  BY <1>1, <1>2, <1>3, ThreadFacts DEF SignalInv, Hart
<1>7. \A u \in Threads : u # t => own'[u] = own[u] /\ computed'[u] = computed[u]
  BY <1>3, ThreadFacts, Zenon
<1>8. own' \in [Threads -> SUBSET Signal] /\ Apart(t, y) BY <1>3, <1>6, <1>7, ThreadFacts, Zenon DEF Apart
<1> HIDE DEF y
<1> QED BY <1>2, <1>3, <1>4, <1>5, <1>8, OneThread, Zenon

\* A trap handled in place touches neither registers nor masks.
LEMMA TrapStep == ASSUME SignalInv, NEW t \in Threads, Trap(t) PROVE SignalInv'
<1>1. thread[t].at \in OnHart /\ thread[t].hart = Hart(t) BY Zenon DEF Trap, OnHart, Hart
<1>2. /\ thread' = [thread EXCEPT ![t] = Trapped(thread[t])] /\ regs' = regs
      /\ own' = own /\ computed' = computed
  BY Zenon DEF Trap
<1>3. HistoryOf(t) BY <1>2, ThreadFacts, Zenon DEF HistoryOf
<1> QED BY <1>1, <1>2, <1>3, ThreadFacts, SyscallStep, Zenon

\* An exit ends the poll; nothing more is said of the mask.
LEMMA ExitStep == ASSUME SignalInv, NEW t \in Threads, exit_process(t) PROVE SignalInv'
<1> USE SignalAssumption
<1> DEFINE x == thread[t]
           y == [x EXCEPT !.exited = TRUE]
<1>1. x \in ThreadState /\ Good(x, own[t], computed[t], regs) /\ x.at = "user"
  BY ThreadFacts, Zenon DEF exit_process, Syscall
<1>2. /\ y \in ThreadState /\ y.at = "user" /\ y.hart = x.hart /\ y.exited = TRUE /\ y.ctx = x.ctx
  BY <1>1, Zenon DEF ThreadState
<1>3. /\ thread' = [thread EXCEPT ![t] = Trapped(y)] /\ regs' = regs
      /\ own' = own /\ computed' = computed
  BY Zenon DEF exit_process
<1>4. HistoryOf(t) BY <1>3, ThreadFacts, Zenon DEF HistoryOf
<1> HIDE DEF y
<1>5. Good(y, own'[t], computed'[t], regs) BY <1>1, <1>2, <1>3, Zenon DEF Good, OnHart
<1> QED BY <1>1, <1>2, <1>3, <1>4, <1>5, SyscallStep, Zenon DEF OnHart, Hart

\* Taking a pending signal leaves mask and context alone (trap/mod.rs:20).
LEMMA TakeStep == ASSUME SignalInv, NEW t \in Threads, TakeSignal(t) PROVE SignalInv'
<1> USE SignalAssumption
<1> DEFINE x == thread[t]
           S == x.pending \ x.mask
           s == first_pending(S)
           y == IF S = {} THEN [x EXCEPT !.at = "user"]
                ELSE [x EXCEPT !.at = "signal", !.sig = s, !.pending = @ \ {s}]
<1>1. x \in ThreadState /\ Good(x, own[t], computed[t], regs) /\ x.at = "return"
  BY ThreadFacts, Zenon DEF TakeSignal
<1>2. S # {} => s \in Signal
  <2>1. S \in SUBSET Signal BY <1>1, Zenon DEF ThreadState
  <2> QED BY <2>1, Zenon DEF first_pending
<1>3. /\ y \in ThreadState /\ y.at \in OnHart /\ y.hart = x.hart /\ y.ctx = x.ctx /\ y.exited = x.exited
      /\ y.frames = x.frames /\ y.mask = x.mask /\ (y.at = "signal" => y.sig # 0)
  <2>1. CASE S = {} BY <1>1, <2>1, Zenon DEF ThreadState, OnHart
  <2>2. CASE S # {}
    <3> HIDE DEF s
    <3> QED BY <1>1, <1>2, <2>2, Zenon DEF ThreadState, OnHart
  <2> QED BY <2>1, <2>2, Zenon
<1>4. /\ thread' = [thread EXCEPT ![t] = y] /\ regs' = regs /\ own' = own /\ computed' = computed
  BY Zenon DEF TakeSignal
<1>5. HistoryOf(t) BY <1>4, ThreadFacts, Zenon DEF HistoryOf
<1> HIDE DEF y
<1>6. Good(y, own'[t], computed'[t], regs) BY <1>1, <1>3, <1>4, Zenon DEF Good, OnHart, BaseMask
<1> QED BY <1>3, <1>4, <1>5, <1>6, SameHart, Zenon DEF Hart

\* A frame on top of the others leaves the mask at the bottom alone.
LEMMA EnterFacts ==
    ASSUME NEW x \in ThreadState, NEW s \in Signal, NEW r \in Value
    PROVE  /\ Enter(x, s, r) \in ThreadState
           /\ Enter(x, s, r).at = x.at /\ Enter(x, s, r).hart = x.hart
           /\ Enter(x, s, r).exited = x.exited
           /\ BaseMask(Enter(x, s, r)) = BaseMask(x)
<1> DEFINE f == Frame(x, s, r)
           m == HandlerMask(x, s)
           c == [x.ctx EXCEPT !.valid = FALSE, !.fs = "Clean"]
           F == [mask : SUBSET Signal, ctx : Context]
           y == [x EXCEPT !.mask = m, !.frames = <<f>> \o x.frames, !.ctx = c]
<1>1. f \in F /\ f.mask = x.mask
  <2>1. x.mask \in SUBSET Signal /\ x.ctx \in Context BY Zenon DEF ThreadState
  <2>2. CASE x.ctx.fs = "Dirty"
    <3>1. [x.ctx EXCEPT !.saved = r, !.valid = TRUE] \in Context BY <2>1, Zenon DEF Context
    <3> QED BY <2>1, <2>2, <3>1, Zenon DEF Frame
  <2>3. CASE x.ctx.fs # "Dirty" BY <2>1, <2>3, Zenon DEF Frame
  <2> QED BY <2>2, <2>3, Zenon
<1>2. m \in SUBSET Signal
  <2>1. x.mask \in SUBSET Signal /\ x.actions[s].mask \in SUBSET Signal BY Zenon DEF ThreadState, Action
  <2> QED BY <2>1, Zenon DEF HandlerMask
<1>3. c \in Context
  <2>1. x.ctx \in Context BY Zenon DEF ThreadState
  <2> QED BY <2>1, Zenon DEF Context
<1>4. x.frames \in Seq(F) BY Zenon DEF ThreadState
<1> HIDE DEF f, m, c, F
<1>5. /\ <<f>> \o x.frames \in Seq(F) /\ Len(<<f>> \o x.frames) = Len(x.frames) + 1
      /\ (<<f>> \o x.frames)[Len(<<f>> \o x.frames)] = IF x.frames = <<>> THEN f ELSE x.frames[Len(x.frames)]
      /\ <<f>> \o x.frames # <<>>
  BY <1>1, <1>4
<1>6. /\ y \in ThreadState /\ y.at = x.at /\ y.hart = x.hart /\ y.exited = x.exited
      /\ y.frames = <<f>> \o x.frames
  BY <1>2, <1>3, <1>5, Zenon DEF ThreadState, F
<1>7. Enter(x, s, r) = y BY Zenon DEF Enter, f, m, c
<1> HIDE DEF y
<1> QED BY <1>1, <1>5, <1>6, <1>7, Zenon DEF BaseMask

\* A handler starts a new frame above the others, or the signal is ignored or fatal.
LEMMA SignalStep == ASSUME SignalInv, NEW t \in Threads, check_signal(t) PROVE SignalInv'
<1> USE SignalAssumption
<1> DEFINE x == [thread[t] EXCEPT !.at = "user", !.sig = 0]
           s == thread[t].sig
           e == Enter(x, s, regs[Hart(t)])
           f == [e EXCEPT !.frames = x.frames, !.exited = TRUE]
           d == [x EXCEPT !.exited = TRUE]
<1>1. /\ thread[t] \in ThreadState /\ Good(thread[t], own[t], computed[t], regs)
      /\ thread[t].at = "signal" /\ regs[Hart(t)] \in Value
  BY ThreadFacts, Zenon DEF check_signal, OnHart
<1>2. s \in Signal BY <1>1, Zenon DEF Good, ThreadState
<1>3. /\ x \in ThreadState /\ x.at = "user" /\ x.hart = Hart(t) /\ x.ctx = thread[t].ctx
      /\ x.exited = thread[t].exited /\ x.frames = thread[t].frames /\ x.mask = thread[t].mask
  BY <1>1, Zenon DEF ThreadState, OnHart, Hart
<1>4. Good(x, own[t], computed[t], regs) /\ x.hart # NoOne BY <1>1, <1>3, Zenon DEF Good, OnHart, BaseMask, Hart
<1>5. regs' = regs /\ own' = own BY Zenon DEF check_signal
<1>6. \/ thread' = [thread EXCEPT ![t] = x] /\ computed' = computed
      \/ thread' = [thread EXCEPT ![t] = d] /\ computed' = computed
      \/ thread' = [thread EXCEPT ![t] = e] /\ computed' = [computed EXCEPT ![t] = 0]
      \/ thread' = [thread EXCEPT ![t] = f] /\ computed' = [computed EXCEPT ![t] = 0]
  BY Zenon DEF check_signal
<1> HIDE DEF x, s
<1>7. /\ e \in ThreadState /\ e.at = "user" /\ e.hart = Hart(t) /\ e.exited = x.exited
      /\ BaseMask(e) = BaseMask(x)
  BY <1>1, <1>2, <1>3, EnterFacts
<1> HIDE DEF e
<1>8. f \in ThreadState /\ f.at = "user" /\ f.hart = Hart(t) /\ f.exited = TRUE
  BY <1>3, <1>7, Zenon DEF ThreadState
<1>9. d \in ThreadState /\ d.at = "user" /\ d.hart = Hart(t) /\ d.exited = TRUE /\ d.ctx = x.ctx
  BY <1>3, Zenon DEF ThreadState
<1> HIDE DEF d, f
<1>10. HistoryOf(t) BY <1>5, <1>6, ThreadFacts, Zenon DEF HistoryOf, Value
<1>11. CASE thread' = [thread EXCEPT ![t] = x] /\ computed' = computed
  BY <1>3, <1>4, <1>5, <1>10, <1>11, SameHart, Zenon
<1>12. CASE thread' = [thread EXCEPT ![t] = d] /\ computed' = computed
  <2>1. Good(d, own'[t], computed'[t], regs) BY <1>3, <1>4, <1>5, <1>9, <1>12 DEF Good, OnHart
  <2> QED BY <1>5, <1>9, <1>10, <1>12, <2>1, SameHart, Zenon
<1>13. CASE thread' = [thread EXCEPT ![t] = e] /\ computed' = [computed EXCEPT ![t] = 0]
  <2>1. computed'[t] = 0 BY <1>13, ThreadFacts, Zenon
  <2>2. Good(e, own'[t], computed'[t], regs) BY <1>3, <1>4, <1>5, <1>7, <2>1, Zenon DEF Good, OnHart
  <2> QED BY <1>5, <1>7, <1>10, <1>13, <2>2, SameHart, Zenon
<1>14. CASE thread' = [thread EXCEPT ![t] = f] /\ computed' = [computed EXCEPT ![t] = 0]
  <2>1. computed'[t] = 0 BY <1>14, ThreadFacts, Zenon
  <2>2. Good(f, own'[t], computed'[t], regs) BY <1>3, <1>4, <1>5, <1>8, <2>1, Zenon DEF Good, OnHart
  <2> QED BY <1>5, <1>8, <1>10, <1>14, <2>2, SameHart, Zenon
<1> QED BY <1>6, <1>11, <1>12, <1>13, <1>14, Zenon

\* sigaction changes the actions only.
LEMMA ActionStep ==
    ASSUME SignalInv, NEW t \in Threads, NEW s \in Signal, NEW a \in Actions, sys_rt_sigaction(t, s, a)
    PROVE  SignalInv'
<1> DEFINE x == IF s \in Unhandled THEN thread[t] ELSE [thread[t] EXCEPT !.actions[s] = a]
<1>1. /\ thread[t] \in ThreadState /\ Good(thread[t], own[t], computed[t], regs)
      /\ thread[t].at = "user" /\ a \in Action
  BY SignalAssumption, ThreadFacts, Zenon DEF sys_rt_sigaction, Syscall, Action
<1>2. /\ x \in ThreadState /\ x.at = "user" /\ x.hart = Hart(t) /\ x.ctx = thread[t].ctx
      /\ x.exited = thread[t].exited /\ x.frames = thread[t].frames /\ x.mask = thread[t].mask
  BY <1>1, Zenon DEF ThreadState, Hart
<1>3. thread' = [thread EXCEPT ![t] = Trapped(x)] /\ regs' = regs /\ own' = own /\ computed' = computed
  BY Zenon DEF sys_rt_sigaction
<1> HIDE DEF x
<1>4. Good(x, own'[t], computed'[t], regs) BY <1>1, <1>2, <1>3, Zenon DEF Good, BaseMask, Hart
<1>5. HistoryOf(t) BY <1>3, ThreadFacts, Zenon DEF HistoryOf
<1> QED BY <1>1, <1>2, <1>3, <1>4, <1>5, SyscallStep, Zenon DEF OnHart

\* sigprocmask outside handlers changes the mask the program chose; inside it does not.
LEMMA MaskStep ==
    ASSUME SignalInv, NEW t \in Threads, NEW m \in SUBSET Signal, SetMask(t, m) PROVE SignalInv'
<1> DEFINE x == [thread[t] EXCEPT !.mask = m]
<1>1. /\ thread[t] \in ThreadState /\ Good(thread[t], own[t], computed[t], regs) /\ thread[t].at = "user"
  BY ThreadFacts, Zenon DEF SetMask, Syscall
<1>2. /\ x \in ThreadState /\ x.at = "user" /\ x.hart = Hart(t) /\ x.ctx = thread[t].ctx
      /\ x.exited = thread[t].exited /\ x.frames = thread[t].frames /\ x.mask = m
  BY <1>1, Zenon DEF ThreadState, Hart
<1>3. /\ thread' = [thread EXCEPT ![t] = Trapped(x)] /\ regs' = regs /\ computed' = computed
      /\ own' = IF thread[t].frames = <<>> THEN [own EXCEPT ![t] = m] ELSE own
  BY Zenon DEF SetMask
<1> HIDE DEF x
<1>4. HistoryOf(t) BY <1>3, ThreadFacts, Zenon DEF HistoryOf
<1>5. Good(x, own'[t], computed'[t], regs) BY <1>1, <1>2, <1>3, ThreadFacts, Zenon DEF Good, BaseMask, Hart
<1> QED BY <1>1, <1>2, <1>3, <1>4, <1>5, SyscallStep, Zenon DEF OnHart

\* The last element stays when the first one goes, or it was the first one.
LEMMA TailKeepsLast ==
    ASSUME NEW F, NEW q \in Seq(F), q # <<>>
    PROVE  /\ Head(q) \in F /\ Tail(q) \in Seq(F)
           /\ \/ Tail(q) = <<>> /\ Head(q) = q[Len(q)]
              \/ Tail(q) # <<>> /\ Tail(q)[Len(Tail(q))] = q[Len(q)]
<1>1. Len(q) \in Nat /\ Len(q) # 0 BY EmptySeq, Zenon
<1>2. Head(q) \in F /\ Tail(q) \in Seq(F) /\ Len(Tail(q)) = Len(q) - 1 /\ Head(q) = q[1]
  BY HeadTailProperties
<1>3. CASE Len(q) = 1
  <2>1. Len(Tail(q)) = 0 BY <1>2, <1>3
  <2>2. Tail(q) = <<>> BY <1>2, <2>1, EmptySeq, Zenon
  <2> QED BY <1>2, <1>3, <2>2, Zenon
<1>4. CASE Len(q) > 1
  <2>1. Tail(q)[Len(q) - 1] = q[Len(q)] BY <1>1, <1>4
  <2>2. Tail(q) # <<>> BY <1>1, <1>2, <1>4
  <2> QED BY <1>2, <2>1, <2>2, Zenon
<1> QED BY <1>1, <1>3, <1>4

\* sigreturn takes the top frame off and puts its mask back (signal.rs:115).
LEMMA ReturnStep == ASSUME SignalInv, NEW t \in Threads, sys_rt_sigreturn(t) PROVE SignalInv'
<1> DEFINE w == thread[t]
           k == Head(w.frames)
           F == [mask : SUBSET Signal, ctx : Context]
           x == [w EXCEPT !.mask = k.mask, !.ctx = k.ctx, !.frames = Tail(w.frames)]
<1>1. /\ w \in ThreadState /\ Good(w, own[t], computed[t], regs) /\ w.at = "user" /\ w.frames # <<>>
  BY ThreadFacts, Zenon DEF sys_rt_sigreturn
<1>2. w.frames \in Seq(F) BY <1>1, Zenon DEF ThreadState
<1>3. /\ thread' = [thread EXCEPT ![t] = Trapped(x)] /\ regs' = regs /\ own' = own
      /\ computed' = [computed EXCEPT ![t] = 0]
  BY Zenon DEF sys_rt_sigreturn
<1>4. k \in F /\ Tail(w.frames) \in Seq(F) BY <1>1, <1>2, TailKeepsLast, Zenon
<1>5. \/ Tail(w.frames) = <<>> /\ k = w.frames[Len(w.frames)]
      \/ Tail(w.frames) # <<>> /\ Tail(w.frames)[Len(Tail(w.frames))] = w.frames[Len(w.frames)]
  BY <1>1, <1>2, TailKeepsLast, Zenon
<1> HIDE DEF k
<1>6. /\ x \in ThreadState /\ x.at = "user" /\ x.hart = Hart(t) /\ x.exited = w.exited
      /\ x.frames = Tail(w.frames) /\ x.mask = k.mask
  BY <1>1, <1>4, Zenon DEF ThreadState, Hart
<1> HIDE DEF x
<1>7. BaseMask(x) = BaseMask(w) BY <1>1, <1>5, <1>6, Zenon DEF BaseMask
<1>8. HistoryOf(t) /\ computed'[t] = 0 BY <1>3, ThreadFacts, Zenon DEF HistoryOf, Value
<1>9. Good(x, own'[t], computed'[t], regs) BY <1>1, <1>3, <1>6, <1>7, <1>8, Zenon DEF Good, Hart, OnHart
<1> QED BY <1>1, <1>3, <1>6, <1>8, <1>9, SyscallStep, Zenon DEF OnHart

\* exec starts with a new context, no frames and the mask in force.
LEMMA ExecStep == ASSUME SignalInv, NEW t \in Threads, exec(t) PROVE SignalInv'
<1> DEFINE w == thread[t]
           none == <<>>
           x == [w EXCEPT !.actions = Absent.actions, !.ctx = NewContext, !.frames = none]
<1>1. w \in ThreadState /\ Good(w, own[t], computed[t], regs) /\ w.at = "user" BY ThreadFacts, Zenon DEF exec, Syscall
<1>2. Absent.actions \in [Signal -> Action] /\ NewContext \in Context
  BY Zenon DEF Absent, DefaultAction, Action, NewContext, Context, Value
<1>3. /\ x \in ThreadState /\ x.at = "user" /\ x.hart = Hart(t) /\ x.frames = <<>> /\ x.mask = w.mask
  <2>1. none \in Seq([mask : SUBSET Signal, ctx : Context]) OBVIOUS
  <2> HIDE DEF none
  <2>2. /\ x \in ThreadState /\ x.at = "user" /\ x.hart = Hart(t) /\ x.frames = none /\ x.mask = w.mask
    BY <1>1, <1>2, <2>1, Zenon DEF ThreadState, Hart
  <2> QED BY <2>2, Zenon DEF none
<1>4. /\ thread' = [thread EXCEPT ![t] = Trapped(x)] /\ regs' = regs
      /\ own' = [own EXCEPT ![t] = w.mask] /\ computed' = [computed EXCEPT ![t] = 0]
  BY Zenon DEF exec
<1> HIDE DEF x
<1>5. HistoryOf(t) /\ computed'[t] = 0 /\ own'[t] = w.mask
  BY <1>1, <1>4, ThreadFacts, Zenon DEF HistoryOf, Value, ThreadState
<1>6. Good(x, own'[t], computed'[t], regs) BY <1>1, <1>3, <1>5, Zenon DEF Good, Hart, OnHart, BaseMask
<1> QED BY <1>1, <1>3, <1>4, <1>5, <1>6, SyscallStep, Zenon DEF OnHart

\* A thread x that differs from a good one in its pending signals is good.
LEMMA ReceiveGood ==
    ASSUME NEW x \in ThreadState, NEW s \in Signal, NEW o, NEW c, NEW r, Good(x, o, c, r)
    PROVE  /\ receive_signal(x, s) \in ThreadState /\ receive_signal(x, s).at = x.at
           /\ receive_signal(x, s).hart = x.hart /\ Good(receive_signal(x, s), o, c, r)
<1> DEFINE y == receive_signal(x, s)
<1>1. /\ y \in ThreadState /\ y.at = x.at /\ y.hart = x.hart /\ y.sig = x.sig /\ y.exited = x.exited
      /\ y.mask = x.mask /\ y.ctx = x.ctx /\ y.frames = x.frames
  BY Zenon DEF receive_signal, ThreadState
<1> HIDE DEF y
<1>2. Good(y, o, c, r) BY <1>1, Zenon DEF Good, BaseMask
<1> QED BY <1>1, <1>2, Zenon DEF y

\* A signal sent to a thread changes its pending signals only (inner.rs:77).
LEMMA KillStep ==
    ASSUME SignalInv, NEW t \in Threads, NEW u \in Threads, NEW s \in Signal, sys_kill(t, u, s)
    PROVE  SignalInv'
<1> DEFINE v == receive_signal(thread[u], s)
           sent == [thread EXCEPT ![u] = v]
           y == Trapped(sent[t])
<1>1. thread \in [Threads -> ThreadState] /\ thread[t].at = "user"
  BY Zenon DEF SignalInv, SignalTypes, sys_kill, Syscall
<1>2. /\ v \in ThreadState /\ v.at = thread[u].at /\ v.hart = Hart(u)
      /\ Good(v, own[u], computed[u], regs)
  BY ThreadFacts, ReceiveGood, Zenon DEF Hart
<1> HIDE DEF v
<1>3. /\ sent \in [Threads -> ThreadState]
      /\ \A p \in Threads : /\ sent[p].at = thread[p].at /\ sent[p].hart = Hart(p)
                            /\ Good(sent[p], own[p], computed[p], regs)
  BY <1>1, <1>2, ThreadFacts, Zenon DEF Hart
<1>4. thread' = [sent EXCEPT ![t] = y] /\ regs' = regs /\ own' = own /\ computed' = computed
  BY Zenon DEF sys_kill, v
<1> HIDE DEF sent
<1>5. y \in ThreadState /\ y.hart \in {Hart(t), NoOne} /\ Good(y, own[t], computed[t], regs)
  BY <1>1, <1>3, TrappedGood, Zenon DEF OnHart
<1> HIDE DEF y
<1>6. SignalTypes' BY <1>3, <1>4, <1>5, ThreadFacts, Zenon DEF SignalTypes
<1>7. \A p \in Threads : /\ thread'[p].hart \in {Hart(p), NoOne}
                          /\ Good(thread'[p], own'[p], computed'[p], regs')
  BY <1>3, <1>4, <1>5, Zenon
<1>8. \A p, q \in Threads : thread'[p].hart = thread'[q].hart /\ thread'[p].hart # NoOne => p = q
  BY <1>7, Zenon DEF SignalInv
<1> QED BY <1>6, <1>7, <1>8, Zenon DEF SignalInv, Hart

\* The child starts with the mask, frames and saved context of its parent.
LEMMA ForkStep ==
    ASSUME SignalInv, NEW t \in Threads, NEW c \in Threads, fork(t, c) PROVE SignalInv'
<1> DEFINE w == thread[t]
           y == Trapped(w)
           z == [w EXCEPT !.at = "ready", !.hart = NoOne, !.pending = {}]
<1>1. /\ thread \in [Threads -> ThreadState] /\ w.at = "user" /\ thread[c].at = "none"
      /\ Good(w, own[t], computed[t], regs)
  BY Zenon DEF SignalInv, SignalTypes, fork, Syscall
<1>2. y \in ThreadState /\ y.hart \in {Hart(t), NoOne} /\ Good(y, own[t], computed[t], regs)
  BY <1>1, TrappedGood, Zenon DEF OnHart, Hart
<1>3. /\ z \in ThreadState /\ z.at = "ready" /\ z.hart = NoOne /\ z.exited = w.exited
      /\ z.frames = w.frames /\ z.mask = w.mask
  BY <1>1, Zenon DEF ThreadState
<1>4. computed[c] = 0 BY <1>1, Zenon DEF SignalInv, Good
<1>5. /\ thread' = [thread EXCEPT ![t] = y, ![c] = z] /\ regs' = regs /\ computed' = computed
      /\ own' = [own EXCEPT ![c] = own[t]]
  BY Zenon DEF fork
<1>6. t # c BY <1>1, Zenon
<1> HIDE DEF y, z
<1>7. Good(z, own[t], computed[c], regs) BY <1>1, <1>3, <1>4, Zenon DEF Good, OnHart, BaseMask
<1>8. /\ thread'[t] = y /\ thread'[c] = z
      /\ \A p \in Threads : p # t /\ p # c => thread'[p] = thread[p]
  BY <1>1, <1>5, <1>6, Zenon
<1>9. own'[c] = own[t] /\ \A p \in Threads : p # c => own'[p] = own[p] BY <1>5, ThreadFacts, Zenon
<1>10. SignalTypes' BY <1>1, <1>2, <1>3, <1>5, ThreadFacts, Zenon DEF SignalTypes
<1>11. ASSUME NEW p \in Threads
       PROVE  thread'[p].hart \in {Hart(p), NoOne} /\ Good(thread'[p], own'[p], computed'[p], regs')
  <2>1. CASE p = t BY <1>2, <1>5, <1>6, <1>8, <1>9, <2>1, Zenon
  <2>2. CASE p = c BY <1>3, <1>5, <1>7, <1>8, <1>9, <2>2, Zenon
  <2>3. CASE p # t /\ p # c BY <1>5, <1>8, <1>9, <2>3, Zenon DEF SignalInv, Hart
  <2> QED BY <2>1, <2>2, <2>3, Zenon
<1>12. \A p, q \in Threads : thread'[p].hart = thread'[q].hart /\ thread'[p].hart # NoOne => p = q
  BY <1>11, Zenon DEF SignalInv
<1> QED BY <1>10, <1>11, <1>12, Zenon DEF SignalInv, Hart

\* SignalInv is an invariant.
LEMMA SignalInvariance == SignalSpec => []SignalInv
<1> USE SignalAssumption
<1>1. SignalInit => SignalInv
  <2> SUFFICES ASSUME SignalInit PROVE SignalInv BY Zenon
  <2> DEFINE first == [Absent EXCEPT !.at = "ready"]
  <2>1. /\ Absent \in ThreadState /\ Absent.at = "none" /\ Absent.hart = NoOne
        /\ Absent.frames = <<>> /\ Absent.mask = {}
    BY DEF Absent, ThreadState, NewContext, Context, DefaultAction, Action, Value
  <2>2. /\ first \in ThreadState /\ first.at = "ready" /\ first.hart = NoOne
        /\ first.frames = <<>> /\ first.mask = {}
    BY <2>1, Zenon DEF ThreadState
  <2>3. /\ \A t \in Threads : thread[t] \in {Absent, first} /\ own[t] = {} /\ computed[t] = 0
        /\ thread = [t \in Threads |-> IF t = FirstThread THEN first ELSE Absent]
        /\ regs = [h \in SigHarts |-> 0] /\ own = [t \in Threads |-> {}]
        /\ computed = [t \in Threads |-> 0]
    BY Zenon DEF SignalInit
  <2> HIDE DEF first
  <2>4. SignalTypes BY <2>1, <2>2, <2>3, Zenon DEF SignalTypes, Value
  <2>5. ASSUME NEW t \in Threads PROVE Good(thread[t], own[t], computed[t], regs) /\ Hart(t) = NoOne
    BY <2>1, <2>2, <2>3, Zenon DEF Good, OnHart, BaseMask, Hart
  <2> QED BY <2>4, <2>5, Zenon DEF SignalInv
<1>2. SignalInv /\ [SignalNext]_signalVars => SignalInv'
  <2> SUFFICES ASSUME SignalInv, [SignalNext]_signalVars PROVE SignalInv' BY Zenon
  <2>1. ASSUME NEW t \in Threads, NEW m \in MaskArgs, sys_rt_sigprocmask(t, m) PROVE SignalInv'
    <3>1. m \in SUBSET Signal /\ thread[t].mask \in SUBSET Signal BY ThreadFacts, Zenon DEF ThreadState
    <3>2. (thread[t].mask \cup m) \in SUBSET Signal /\ (thread[t].mask \ m) \in SUBSET Signal BY <3>1, Zenon
    <3> QED BY <2>1, <3>1, <3>2, MaskStep DEF sys_rt_sigprocmask
  <2>2. CASE SignalNext
    BY <2>1, <2>2, PollStep, YieldStep, TrapStep, ExitStep, TakeStep, SignalStep, ReturnStep, ExecStep,
       ComputeStep, ActionStep, KillStep, ForkStep, Zenon DEF SignalNext
  <2>3. CASE UNCHANGED signalVars
    BY <2>3, Zenon DEF signalVars, SignalInv, SignalTypes, Hart
  <2> QED BY <2>2, <2>3, Zenon
<1> QED BY <1>1, <1>2, PTL DEF SignalSpec

\* With any number of threads and harts a program finds its floating-point
\* registers as it left them (glue.rs:91 restores what glue.rs:109 saved).
THEOREM FloatsSurvive == SignalSpec => []FloatsKept
<1>1. SignalInv => FloatsKept BY Zenon DEF SignalInv, FloatsKept, Good, OnHart, Hart
<1> QED BY <1>1, SignalInvariance, PTL

\* However deep handlers are nested and whatever masks they set, the program's
\* mask is back when the last one has returned (trap/mod.rs:61, signal.rs:115).
THEOREM MasksComeBack == SignalSpec => []MaskRestored
<1>1. SignalInv => MaskRestored BY Zenon DEF SignalInv, MaskRestored, Good, BaseMask
<1> QED BY <1>1, SignalInvariance, PTL
=============================================================================
