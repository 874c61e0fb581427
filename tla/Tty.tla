-------------------------------- MODULE Tty ---------------------------------
(***************************************************************************)
(* Console input and output: the UART and its interrupt                    *)
(* (crates/drivers/qemu_uart, kernel/src/glue.rs), the tty's queue and     *)
(* waker, TtyFuture (crates/fs/devfs/src/tty.rs), and the spin locks that  *)
(* turn interrupts off (crates/utils/klocks, crates/arch/riscv_guard).     *)
(*                                                                         *)
(* An interrupt handler runs on top of what its hart was doing, so a hart  *)
(* has two positions: base, which stands still while irq is not "none".    *)
(***************************************************************************)
EXTENDS Naturals, Sequences

CONSTANTS Harts, Readers, NoHart, NoReader,
          TTY_BUFFER_LEN,
          ReadLens,        \* lengths of the buffers given to read
          MaxBytes         \* bound: characters typed

ASSUME TtyAssumption ==
    NoHart \notin Harts /\ NoReader \notin Readers /\ ReadLens \subseteq Nat

VARIABLES fifo,      \* characters in the UART
          claimed,   \* the PLIC's gateway waits for the completion of the interrupt
          queue,     \* Tty::queue
          waker,     \* Tty::waker
          lock,      \* holder of STDOUT, of the UART's port and of TTY
          base,      \* what a hart was doing, and for which reader
          irq,       \* position of its interrupt handler, and the character read
          reader,    \* state of each reading task
          len,       \* length of its buffer
          typed

ttyVars == <<fifo, claimed, queue, waker, lock, base, irq, reader, len, typed>>

Locks == {"stdout", "port", "tty"}
AtRest == [at |-> "idle", for |-> NoReader]
NoIrq == [at |-> "none", ch |-> 0]

TtyInit ==
    /\ fifo = <<>> /\ claimed = FALSE /\ queue = <<>> /\ waker = NoReader
    /\ lock = [l \in Locks |-> NoHart]
    /\ base = [h \in Harts |-> AtRest]
    /\ irq = [h \in Harts |-> NoIrq]
    /\ reader = [r \in Readers |-> "user"]
    /\ len = [r \in Readers |-> 0]
    /\ typed = 0

\* A SpinNoIrqMutexGuard keeps sstatus.SIE clear; a failed try_lock does not.
\* Mutant: the guard of an ordinary SpinMutex.
IrqEnabledBug(h) == irq[h] = NoIrq
IrqEnabled(h) == irq[h] = NoIrq /\ \A l \in Locks : lock[l] # h

BaseAt(h, at) == base[h].at = at /\ irq[h] = NoIrq
Take(h, l, at) ==
    /\ lock[l] = NoHart
    /\ lock' = [lock EXCEPT ![l] = h]
    /\ base' = [base EXCEPT ![h].at = at]
-----------------------------------------------------------------------------
\* A character arrives.
Type ==
    /\ typed < MaxBytes
    /\ typed' = typed + 1
    /\ fifo' = Append(fifo, typed + 1)
    /\ UNCHANGED <<claimed, queue, waker, lock, base, irq, reader, len>>

\* The UART's line is high while it holds characters; every hart sees it until
\* one has claimed it.
Interrupt(h) ==
    /\ fifo # <<>> /\ ~ claimed /\ IrqEnabled(h)
    /\ irq' = [irq EXCEPT ![h].at = "claim"]
    /\ UNCHANGED <<fifo, claimed, queue, waker, lock, base, reader, len, typed>>

\* Plic::claim returns 0 to a hart that came too late.
claim(h) ==
    /\ irq[h].at = "claim"
    /\ IF fifo # <<>> /\ ~ claimed
       THEN claimed' = TRUE /\ irq' = [irq EXCEPT ![h].at = "receive"]
       ELSE UNCHANGED claimed /\ irq' = [irq EXCEPT ![h] = NoIrq]
    /\ UNCHANGED <<fifo, queue, waker, lock, base, reader, len, typed>>

\* Uart::handle_irq reads one character, having locked the port for that ...
receive(h) ==
    /\ irq[h].at = "receive" /\ lock["port"] = NoHart
    /\ irq' = [irq EXCEPT ![h] = [at |-> "push", ch |-> Head(fifo)]]
    /\ fifo' = Tail(fifo)
    /\ UNCHANGED <<claimed, queue, waker, lock, base, reader, len, typed>>

wake(s, r) == IF r = NoReader \/ s[r] # "asleep" THEN s ELSE [s EXCEPT ![r] = "ready"]

\* ... and, under the tty's lock, queues it if there is room and wakes the
\* registered reader.
handle_irq(h) ==
    /\ irq[h].at = "push" /\ lock["tty"] = NoHart
    /\ queue' = IF Len(queue) < TTY_BUFFER_LEN THEN Append(queue, irq[h].ch) ELSE queue
    /\ reader' = wake(reader, waker)
    /\ waker' = NoReader
    /\ irq' = [irq EXCEPT ![h] = [at |-> "complete", ch |-> 0]]
    /\ UNCHANGED <<fifo, claimed, lock, base, len, typed>>

complete(h) ==
    /\ irq[h].at = "complete"
    /\ claimed' = FALSE
    /\ irq' = [irq EXCEPT ![h] = NoIrq]
    /\ UNCHANGED <<fifo, queue, waker, lock, base, reader, len, typed>>
-----------------------------------------------------------------------------
Polled(h, r) ==
    /\ BaseAt(h, "idle")
    /\ reader' = [reader EXCEPT ![r] = "polled"]
    /\ base' = [base EXCEPT ![h] = [at |-> "poll", for |-> r]]

\* A task calls read.
read_inode_at(h, r, n) ==
    /\ reader[r] = "user" /\ Polled(h, r)
    /\ len' = [len EXCEPT ![r] = n]
    /\ UNCHANGED <<fifo, claimed, queue, waker, lock, irq, typed>>

\* A hart polls a task that was woken.
Resume(h, r) ==
    /\ reader[r] = "ready" /\ Polled(h, r)
    /\ UNCHANGED <<fifo, claimed, queue, waker, lock, irq, len, typed>>

LockTty(h) ==
    /\ BaseAt(h, "poll") /\ Take(h, "tty", "locked")
    /\ UNCHANGED <<fifo, claimed, queue, waker, irq, reader, len, typed>>

\* Mutant: the waker registered before is dropped.
register_wakerBug(s, r) == s
register_waker(s, r) == wake(s, waker)

Release(h, ls) ==
    /\ lock' = [l \in Locks |-> IF l \in ls THEN NoHart ELSE lock[l]]
    /\ base' = [base EXCEPT ![h] = AtRest]

\* TtyFuture::poll with the lock: the bytes there are, or the waker.
poll(h) ==
    LET r == base[h].for
        n == IF len[r] < Len(queue) THEN len[r] ELSE Len(queue)
    IN  /\ BaseAt(h, "locked")
        /\ IF n > 0
           THEN /\ queue' = SubSeq(queue, n + 1, Len(queue))
                /\ reader' = [reader EXCEPT ![r] = "user"]
                /\ UNCHANGED waker
           ELSE /\ reader' = [register_waker(reader, r) EXCEPT ![r] = "asleep"]
                /\ waker' = r
                /\ UNCHANGED queue
        /\ Release(h, {"tty"})
        /\ UNCHANGED <<fifo, claimed, irq, len, typed>>

\* check_slice_mut fails: EFAULT.
BadBuffer(h) ==
    /\ BaseAt(h, "locked")
    /\ reader' = [reader EXCEPT ![base[h].for] = "user"]
    /\ Release(h, {"tty"})
    /\ UNCHANGED <<fifo, claimed, queue, waker, irq, len, typed>>

\* print!: STDOUT is locked, and inside it the port; the handler locks the
\* port as well.
print(h) ==
    /\ \/ BaseAt(h, "idle") /\ Take(h, "stdout", "print")
       \/ BaseAt(h, "print") /\ Take(h, "port", "sending")
       \/ BaseAt(h, "sending") /\ Release(h, {"stdout", "port"})
    /\ UNCHANGED <<fifo, claimed, queue, waker, irq, reader, len, typed>>

HartStep(h) ==
    \/ Interrupt(h) \/ claim(h) \/ receive(h) \/ handle_irq(h) \/ complete(h)
    \/ \E r \in Readers : Resume(h, r) \/ \E n \in ReadLens : read_inode_at(h, r, n)
    \/ LockTty(h) \/ poll(h) \/ BadBuffer(h) \/ print(h)

TtyNext == Type \/ \E h \in Harts : HartStep(h)

TtySpec == TtyInit /\ [][TtyNext]_ttyVars
-----------------------------------------------------------------------------
\* No task sleeps in TtyFuture while characters are queued, and each one that
\* sleeps is the one the next interrupt wakes: with several readers the tty
\* remembers only one waker and wakes the one it replaces (tty.rs:21).  (A
\* read of no bytes sleeps whatever is queued.)
NoSleepOnInput ==
    \A r \in Readers : reader[r] = "asleep" =>
        waker = r /\ (len[r] > 0 => queue = <<>>)

\* The lock a hart spins on, in the handler or below it.
Spins(h) ==
    CASE irq[h].at = "receive" -> {"port"}
      [] irq[h].at = "push" -> {"tty"}
      [] irq[h] = NoIrq /\ base[h].at = "poll" -> {"tty"}
      [] irq[h] = NoIrq /\ base[h].at = "print" -> {"port"}
      [] OTHER -> {}

\* Harts never wait for each other's spin locks in a circle, and a handler
\* never waits for a lock held by the code it interrupted: the locks the
\* handler takes keep interrupts off (kspin.rs:167).
NoSpinCycle ==
    \A S \in SUBSET Harts : S # {} =>
        \E h \in S : \A l \in Spins(h) : lock[l] \notin S
=============================================================================
