----------------------------- MODULE TtyProofs ------------------------------
(***************************************************************************)
(* Proofs about Tty, for any number of harts and readers: no reader sleeps *)
(* on input, and spin locks are never waited for in a circle.              *)
(***************************************************************************)
EXTENDS Tty, TLAPS

Handling == {"receive", "push", "complete"}

\* The type invariant, as far as the proofs need it.
TtyTypes ==
    /\ fifo \in Seq(Nat) /\ queue \in Seq(Nat) /\ typed \in Nat
    /\ waker \in Readers \cup {NoReader}
    /\ lock \in [Locks -> Harts \cup {NoHart}]
    /\ base \in [Harts -> [at : {"idle", "poll", "locked", "print", "sending"},
                           for : Readers \cup {NoReader}]]
    /\ irq \in [Harts -> [at : Handling \cup {"none", "claim"}, ch : Nat]]
    /\ reader \in [Readers -> {"user", "polled", "asleep", "ready"}]
    /\ len \in [Readers -> Nat]

\* Who holds a lock is told by positions, and no handler runs on top of a holder.
LockInv ==
    \A h \in Harts :
        /\ lock["tty"] = h <=> base[h].at = "locked"
        /\ lock["stdout"] = h <=> base[h].at \in {"print", "sending"}
        /\ lock["port"] = h <=> base[h].at = "sending"
        /\ base[h].at \in {"poll", "locked"} => base[h].for \in Readers
        /\ base[h].at \in {"locked", "print", "sending"} => irq[h] = NoIrq

\* One hart at a time handles the interrupt it has claimed.
ClaimInv ==
    /\ \A h \in Harts : irq[h].at \in Handling => claimed
    /\ \A h, g \in Harts : irq[h].at \in Handling /\ irq[g].at \in Handling => h = g
    /\ \A h \in Harts : irq[h].at = "receive" => fifo # <<>>

TtyInv == TtyTypes /\ LockInv /\ ClaimInv /\ NoSleepOnInput

\* What the handler does keeps the invariant.
LEMMA IrqStep ==
    ASSUME TtyInv, NEW h \in Harts,
           Interrupt(h) \/ claim(h) \/ receive(h) \/ complete(h)
    PROVE  TtyInv'
<1> USE TtyAssumption DEF TtyInv
<1>1. TtyTypes'
  <2>1. CASE receive(h)
    <3>1. fifo # <<>> BY <2>1, Zenon DEF receive, ClaimInv
    <3>2. Head(fifo) \in Nat /\ Tail(fifo) \in Seq(Nat) BY <3>1 DEF TtyTypes
    <3> QED BY <2>1, <3>2, Zenon DEF receive, TtyTypes, Handling
  <2>2. CASE Interrupt(h) BY <2>2, ZenonT(40) DEF Interrupt, TtyTypes, Handling
  <2>3. CASE claim(h)
    <3>1. irq' \in [Harts -> [at : Handling \cup {"none", "claim"}, ch : Nat]]
      <4>1. \/ irq' = [irq EXCEPT ![h].at = "receive"]
            \/ irq' = [irq EXCEPT ![h] = NoIrq]
        BY <2>3, Zenon DEF claim
      <4>2. CASE irq' = [irq EXCEPT ![h].at = "receive"] BY <4>2, Zenon DEF TtyTypes, Handling
      <4>3. CASE irq' = [irq EXCEPT ![h] = NoIrq] BY <4>3, Zenon DEF TtyTypes, NoIrq, Handling
      <4> QED BY <4>1, <4>2, <4>3, Zenon
    <3>2. UNCHANGED <<fifo, queue, waker, lock, base, reader, len, typed>> BY <2>3, Zenon DEF claim
    <3> QED BY <3>1, <3>2, Zenon DEF TtyTypes
  <2>4. CASE complete(h) BY <2>4, Zenon DEF complete, TtyTypes, NoIrq, Handling
  <2> QED BY <2>1, <2>2, <2>3, <2>4, Zenon
<1>2. LockInv'
  <2>1. base' = base /\ lock' = lock /\ \A g \in Harts : g # h => irq'[g] = irq[g]
    BY Zenon DEF Interrupt, claim, receive, complete, TtyTypes
  <2>2. base[h].at \notin {"locked", "print", "sending"}
    BY DEF Interrupt, claim, receive, complete, IrqEnabled, LockInv, NoIrq, Locks
  <2> QED BY <2>1, <2>2, Zenon DEF LockInv
<1>3. ClaimInv'
  <2>1. CASE Interrupt(h) BY <2>1, Zenon DEF Interrupt, TtyTypes, ClaimInv, Handling
  <2>2. CASE claim(h)
    <3>1. CASE fifo # <<>> /\ ~ claimed
      <4>1. claimed' /\ fifo' = fifo /\ irq' = [irq EXCEPT ![h].at = "receive"] BY <2>2, <3>1, Zenon DEF claim
      <4>2. \A g \in Harts : irq[g].at \notin Handling BY <3>1, Zenon DEF ClaimInv
      <4> QED BY <3>1, <4>1, <4>2, Zenon DEF ClaimInv, TtyTypes, Handling
    <3>2. CASE ~ (fifo # <<>> /\ ~ claimed)
      <4>1. UNCHANGED <<claimed, fifo>> /\ irq' = [irq EXCEPT ![h] = NoIrq] BY <2>2, <3>2, Zenon DEF claim
      <4> QED BY <4>1 DEF ClaimInv, TtyTypes, Handling, NoIrq
    <3> QED BY <3>1, <3>2, Zenon
  <2>3. CASE receive(h) BY <2>3 DEF receive, TtyTypes, ClaimInv, Handling
  <2>4. CASE complete(h) BY <2>4 DEF complete, TtyTypes, ClaimInv, Handling, NoIrq
  <2> QED BY <2>1, <2>2, <2>3, <2>4, Zenon
<1>4. NoSleepOnInput' BY Zenon DEF Interrupt, claim, receive, complete, NoSleepOnInput
<1> QED BY <1>1, <1>2, <1>3, <1>4, Zenon

\* The character is queued and the registered reader woken: it is the only one
\* that can be asleep.
LEMMA PushStep == ASSUME TtyInv, NEW h \in Harts, handle_irq(h) PROVE TtyInv'
<1> USE TtyAssumption DEF TtyInv
<1>1. TtyTypes'
  <2>1. queue' \in Seq(Nat) BY DEF handle_irq, TtyTypes
  <2>2. reader' \in [Readers -> {"user", "polled", "asleep", "ready"}]
    BY Zenon DEF handle_irq, wake, TtyTypes
  <2>3. irq' \in [Harts -> [at : Handling \cup {"none", "claim"}, ch : Nat]]
    BY Zenon DEF handle_irq, TtyTypes, Handling
  <2> QED BY <2>1, <2>2, <2>3, Zenon DEF handle_irq, TtyTypes
<1>2. LockInv' BY DEF handle_irq, LockInv, TtyTypes, NoIrq
<1>3. ClaimInv' BY Zenon DEF handle_irq, ClaimInv, TtyTypes, Handling
<1>4. NoSleepOnInput'
  <2>1. \A r \in Readers : reader'[r] # "asleep"
    BY Zenon DEF handle_irq, wake, NoSleepOnInput, TtyTypes
  <2> QED BY <2>1, Zenon DEF NoSleepOnInput
<1> QED BY <1>1, <1>2, <1>3, <1>4, Zenon

\* The steps below the handler that do not touch the queue.
LEMMA BaseStep ==
    ASSUME TtyInv, NEW h \in Harts,
           \/ \E r \in Readers : Resume(h, r) \/ \E n \in ReadLens : read_inode_at(h, r, n)
           \/ LockTty(h) \/ BadBuffer(h) \/ print(h)
    PROVE  TtyInv'
<1> USE TtyAssumption DEF TtyInv
<1>1. CASE \E r \in Readers : Resume(h, r) \/ \E n \in ReadLens : read_inode_at(h, r, n)
  <2>1. PICK r \in Readers :
          /\ reader[r] # "asleep" /\ Polled(h, r)
          /\ len' = len \/ \E n \in ReadLens : len' = [len EXCEPT ![r] = n]
          /\ UNCHANGED <<fifo, claimed, queue, waker, lock, irq, typed>>
    BY <1>1, Zenon DEF Resume, read_inode_at
  <2>2. TtyTypes' BY <2>1, Zenon DEF TtyTypes, Polled
  <2>3. LockInv' BY <2>1 DEF LockInv, TtyTypes, Polled, BaseAt
  <2>4. ClaimInv' BY <2>1, Zenon DEF ClaimInv
  <2>5. NoSleepOnInput' BY <2>1, Zenon DEF NoSleepOnInput, Polled, TtyTypes
  <2> QED BY <2>2, <2>3, <2>4, <2>5, Zenon
<1>2. CASE LockTty(h)
  <2>1. TtyTypes' BY <1>2, ZenonT(40) DEF LockTty, Take, TtyTypes, Locks
  <2>2. LockInv' BY <1>2 DEF LockTty, Take, BaseAt, TtyTypes, LockInv, Locks
  <2>3. ClaimInv' BY <1>2, Zenon DEF LockTty, ClaimInv
  <2>4. NoSleepOnInput' BY <1>2, Zenon DEF LockTty, NoSleepOnInput
  <2> QED BY <2>1, <2>2, <2>3, <2>4, Zenon
<1>3. CASE BadBuffer(h)
  <2>1. TtyTypes' BY <1>3, Zenon DEF BadBuffer, Release, AtRest, TtyTypes, Locks
  <2>2. LockInv' BY <1>3 DEF BadBuffer, Release, AtRest, BaseAt, TtyTypes, LockInv, Locks
  <2>3. ClaimInv' BY <1>3, Zenon DEF BadBuffer, ClaimInv
  <2>4. NoSleepOnInput' BY <1>3, Zenon DEF BadBuffer, NoSleepOnInput, TtyTypes
  <2> QED BY <2>1, <2>2, <2>3, <2>4, Zenon
<1>4. CASE print(h)
  <2>1. TtyTypes'
    <3>1. lock' \in [Locks -> Harts \cup {NoHart}] BY <1>4 DEF print, Take, Release, TtyTypes, Locks
    <3>2. \/ \E at \in {"print", "sending"} : base' = [base EXCEPT ![h].at = at]
          \/ base' = [base EXCEPT ![h] = AtRest]
      BY <1>4, Zenon DEF print, Take, Release
    <3>3. base' \in [Harts -> [at : {"idle", "poll", "locked", "print", "sending"},
                              for : Readers \cup {NoReader}]]
      <4>1. CASE base' = [base EXCEPT ![h] = AtRest] BY <4>1, Zenon DEF AtRest, TtyTypes
      <4>2. ASSUME NEW at \in {"print", "sending"}, base' = [base EXCEPT ![h].at = at]
            PROVE  base' \in [Harts -> [at : {"idle", "poll", "locked", "print", "sending"},
                                       for : Readers \cup {NoReader}]]
        BY <4>2, ZenonT(40) DEF TtyTypes
      <4> QED BY <3>2, <4>1, <4>2, Zenon
    <3> QED BY <1>4, <3>1, <3>3, Zenon DEF print, TtyTypes
  <2>2. LockInv' BY <1>4 DEF print, Take, Release, AtRest, BaseAt, TtyTypes, LockInv, Locks
  <2>3. ClaimInv' BY <1>4, Zenon DEF print, ClaimInv
  <2>4. NoSleepOnInput' BY <1>4, Zenon DEF print, NoSleepOnInput
  <2> QED BY <2>1, <2>2, <2>3, <2>4, Zenon
<1> QED BY <1>1, <1>2, <1>3, <1>4, Zenon

\* TtyFuture::poll: a reader that goes to sleep saw an empty queue, or asked
\* for nothing, and takes the place of the one that was registered.
LEMMA PollStep == ASSUME TtyInv, NEW h \in Harts, poll(h) PROVE TtyInv'
<1> USE TtyAssumption DEF TtyInv
<1> DEFINE r == base[h].for
           n == IF len[r] < Len(queue) THEN len[r] ELSE Len(queue)
<1>1. r \in Readers BY Zenon DEF poll, BaseAt, LockInv
<1>2. n \in Nat /\ n <= Len(queue) /\ len[r] \in Nat /\ Len(queue) \in Nat BY <1>1 DEF TtyTypes
<1>3. CASE n > 0
  <2>1. /\ queue' = SubSeq(queue, n + 1, Len(queue)) /\ reader' = [reader EXCEPT ![r] = "user"]
        /\ waker' = waker /\ Release(h, {"tty"}) /\ UNCHANGED <<fifo, claimed, irq, len, typed>>
    BY <1>3, Zenon DEF poll
  <2>2. queue' \in Seq(Nat)
    <3>1. queue \in Seq(Nat) BY Zenon DEF TtyTypes
    <3>2. queue' = SubSeq(queue, n + 1, Len(queue)) BY <2>1, Zenon
    <3> HIDE DEF n
    <3> QED BY ONLY <1>2, <3>1, <3>2
  <2>3. queue # <<>> BY <1>2, <1>3
  <2>4. TtyTypes' BY <1>1, <2>1, <2>2, Zenon DEF Release, AtRest, TtyTypes, Locks
  <2>5. LockInv' BY <2>1 DEF poll, Release, AtRest, BaseAt, TtyTypes, LockInv, Locks
  <2>6. NoSleepOnInput' BY <1>1, <2>1, <2>3, Zenon DEF NoSleepOnInput, TtyTypes
  <2> QED BY <2>1, <2>4, <2>5, <2>6, Zenon DEF ClaimInv
<1>4. CASE ~ n > 0
  <2>1. /\ queue' = queue /\ reader' = [wake(reader, waker) EXCEPT ![r] = "asleep"]
        /\ waker' = r /\ Release(h, {"tty"}) /\ UNCHANGED <<fifo, claimed, irq, len, typed>>
    BY <1>4, Zenon DEF poll, register_waker
  <2>2. len[r] > 0 => queue = <<>> BY <1>2, <1>4 DEF TtyTypes
  <2>3. wake(reader, waker) \in [Readers -> {"user", "polled", "asleep", "ready"}] BY Zenon DEF wake, TtyTypes
  <2>4. TtyTypes' BY <1>1, <2>1, <2>3, Zenon DEF Release, AtRest, TtyTypes, Locks
  <2>5. LockInv' BY <2>1 DEF poll, Release, AtRest, BaseAt, TtyTypes, LockInv, Locks
  <2>6. \A q \in Readers : wake(reader, waker)[q] # "asleep" BY Zenon DEF wake, NoSleepOnInput, TtyTypes
  <2>7. NoSleepOnInput' BY <1>1, <2>1, <2>2, <2>3, <2>6, Zenon DEF NoSleepOnInput, TtyTypes
  <2> QED BY <2>1, <2>4, <2>5, <2>7, Zenon DEF ClaimInv
<1> QED BY <1>3, <1>4, Zenon

\* TtyInv is an invariant of the console.
LEMMA TtyInvariance == TtySpec => []TtyInv
<1> USE TtyAssumption
<1>1. TtyInit => TtyInv
  BY DEF TtyInit, TtyInv, TtyTypes, LockInv, ClaimInv, NoSleepOnInput, AtRest, NoIrq, Handling, Locks
<1>2. TtyInv /\ [TtyNext]_ttyVars => TtyInv'
  <2> SUFFICES ASSUME TtyInv, [TtyNext]_ttyVars PROVE TtyInv' BY Zenon
  <2>1. CASE Type
    <3>1. typed + 1 \in Nat /\ fifo \in Seq(Nat) /\ fifo' = Append(fifo, typed + 1)
      BY <2>1 DEF Type, TtyInv, TtyTypes
    <3>2. fifo' \in Seq(Nat) /\ Len(fifo') = Len(fifo) + 1 /\ Len(fifo) \in Nat BY <3>1
    <3>3. fifo' # <<>> BY <3>2
    <3> QED BY <2>1, <3>1, <3>2, <3>3, Zenon DEF Type, TtyInv, TtyTypes, LockInv, ClaimInv, NoSleepOnInput
  <2>2. ASSUME NEW h \in Harts, HartStep(h) PROVE TtyInv'
    BY <2>2, IrqStep, PushStep, BaseStep, PollStep, Zenon DEF HartStep
  <2>3. CASE UNCHANGED ttyVars
    BY <2>3, Zenon DEF ttyVars, TtyInv, TtyTypes, LockInv, ClaimInv, NoSleepOnInput
  <2> QED BY <2>1, <2>2, <2>3, Zenon DEF TtyNext
<1> QED BY <1>1, <1>2, PTL DEF TtySpec

\* However many tasks read the console (TtyFuture::poll, tty.rs:181), none
\* sleeps on input and each that sleeps is registered.
THEOREM ReaderNotForgotten == TtySpec => []NoSleepOnInput
BY TtyInvariance, PTL DEF TtyInv

\* However many harts print, poll and handle interrupts, the spin locks of the
\* console (kspin.rs:133) are never waited for in a circle: the holder of the
\* port and the holder of the tty wait for nothing.
THEOREM ConsoleLocksAcyclic == TtySpec => []NoSpinCycle
<1>1. TtyInv => NoSpinCycle
  <2> SUFFICES ASSUME TtyInv, NEW S \in SUBSET Harts, S # {}
               PROVE \E h \in S : \A l \in Spins(h) : lock[l] \notin S
    BY Zenon DEF NoSpinCycle
  <2>1. CASE \E h \in S : base[h].at \in {"locked", "sending"}
    <3>1. PICK h \in S : base[h].at \in {"locked", "sending"} BY <2>1, Zenon
    <3>2. Spins(h) = {} BY <3>1 DEF TtyInv, LockInv, Spins, NoIrq
    <3> QED BY <3>1, <3>2, Zenon
  <2>2. CASE \A h \in S : base[h].at \notin {"locked", "sending"}
    <3>1. lock["tty"] \notin S /\ lock["port"] \notin S BY <2>2, Zenon DEF TtyInv, LockInv
    <3>2. \A h \in S : Spins(h) \subseteq {"tty", "port"} BY Zenon DEF Spins
    <3> QED BY <3>1, <3>2, Zenon
  <2> QED BY <2>1, <2>2, Zenon
<1> QED BY <1>1, TtyInvariance, PTL
=============================================================================
