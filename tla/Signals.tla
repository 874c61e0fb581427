------------------------------ MODULE Signals -------------------------------
(***************************************************************************)
(* Signals of single-threaded processes, and the contexts that their       *)
(* handlers interrupt: masks, actions and pending signals                  *)
(* (crates/libkernel/src/signal, process/inner.rs), check_signal and the   *)
(* trap context (trap), the system calls (kernel/src/syscall/signal.rs),   *)
(* and the lazy saving of the floating-point registers by the wrapper of a *)
(* user thread (kernel/src/glue.rs).                                       *)
(*                                                                         *)
(* A context is the floating-point part of a TrapContext: the FS field of  *)
(* sstatus, the saved registers (one value stands for all) and valid.      *)
(***************************************************************************)
EXTENDS Naturals, Sequences

CONSTANTS Threads, FirstThread, SigHarts, NoOne,
          Signal,          \* 1 .. n; bit order is the order of delivery
          Ignored,         \* signals whose DefaultHandler is Ignore
          Unhandled,       \* SIGKILL and SIGSTOP
          Actions,         \* [handler, mask, nodefer] passed to sigaction
          MaskArgs,        \* sets passed to sigprocmask
          Floats,          \* values programs compute
          MaxDepth,        \* bound: nested handlers
          MaxOps           \* bound: system calls that change signal state

\* Signals are bit positions: a set of them has a lowest.
ASSUME SignalAssumption ==
    /\ FirstThread \in Threads /\ NoOne \notin SigHarts /\ 0 \notin Signal
    /\ \A S \in SUBSET Signal : S # {} => \E s \in S : \A u \in S : s <= u
    /\ Actions \subseteq [handler : {"fn", "IGN", "DFL"}, mask : SUBSET Signal, nodefer : BOOLEAN]
    /\ MaskArgs \subseteq SUBSET Signal

VARIABLES thread,   \* per thread: position, hart, signal state, context, frames on its stack
          regs,     \* the floating-point registers of each hart
          own,      \* history: the mask the program chose outside handlers
          computed, \* history: the value the program last computed, 0: none
          ops

signalVars == <<thread, regs, own, computed, ops>>

DefaultAction == [handler |-> "DFL", mask |-> {}, nodefer |-> FALSE]

\* TrapContext::app_init_context
NewContext == [fs |-> "Clean", saved |-> 0, valid |-> FALSE]

Absent == [at |-> "none", hart |-> NoOne, exited |-> FALSE, mask |-> {}, pending |-> {}, sig |-> 0,
           actions |-> [s \in Signal |-> DefaultAction], ctx |-> NewContext, frames |-> <<>>]

SignalInit ==
    /\ thread = [t \in Threads |-> IF t = FirstThread THEN [Absent EXCEPT !.at = "ready"] ELSE Absent]
    /\ regs = [h \in SigHarts |-> 0]
    /\ own = [t \in Threads |-> {}]
    /\ computed = [t \in Threads |-> 0]
    /\ ops = 0

Hart(t) == thread[t].hart
Busy(h) == \E t \in Threads : Hart(t) = h
-----------------------------------------------------------------------------
\* After a trap is handled the loop of the thread ends if the process has
\* exited, and otherwise goes on with trap_return.
Trapped(x) == IF x.exited THEN [x EXCEPT !.at = "dead", !.hart = NoOne] ELSE [x EXCEPT !.at = "return"]

\* The wrapper polls the thread and restores a valid context.
restore(c, r) == IF c.valid THEN c.saved ELSE r

Poll(t, h) ==
    /\ thread[t].at = "ready" /\ ~ Busy(h)
    /\ thread' = [thread EXCEPT ![t] = Trapped([@ EXCEPT !.hart = h])]
    /\ regs' = [regs EXCEPT ![h] = restore(thread[t].ctx, @)]
    /\ UNCHANGED <<own, computed, ops>>

\* The poll is Pending, after an interrupt of the timer or an await.
\* Mutant: the saved registers are not marked valid.
saveBug(c, r) == IF c.fs = "Dirty" THEN [c EXCEPT !.fs = "Clean", !.saved = r] ELSE c
save(c, r) == IF c.fs = "Dirty" THEN [fs |-> "Clean", saved |-> r, valid |-> TRUE] ELSE c

Yield(t) ==
    /\ thread[t].at = "user"
    /\ thread' = [thread EXCEPT ![t].at = "ready", ![t].hart = NoOne,
                                ![t].ctx = save(@, regs[Hart(t)])]
    /\ UNCHANGED <<regs, own, computed, ops>>

\* A trap handled without leaving the hart, such as a page fault.
Trap(t) ==
    /\ thread[t].at = "user"
    /\ thread' = [thread EXCEPT ![t] = Trapped(@)]
    /\ UNCHANGED <<regs, own, computed, ops>>

\* User code computes with the registers.
Compute(t, v) ==
    /\ thread[t].at = "user"
    /\ regs' = [regs EXCEPT ![Hart(t)] = v]
    /\ thread' = [thread EXCEPT ![t].ctx.fs = "Dirty"]
    /\ computed' = [computed EXCEPT ![t] = v]
    /\ UNCHANGED <<own, ops>>
-----------------------------------------------------------------------------
first_pending(S) == CHOOSE s \in S : \A u \in S : s <= u

\* The mask while the handler of s runs, and the context it starts with: a
\* handler is a new control flow.
HandlerMask(x, s) ==
    x.mask \cup x.actions[s].mask \cup (IF x.actions[s].nodefer THEN {} ELSE {s})

\* Mutant: the mask is saved after the handler's was added.
FrameBug(x, s, r) == [mask |-> HandlerMask(x, s), ctx |-> x.ctx]
Frame(x, s, r) ==
    [mask |-> x.mask,
     ctx |-> IF x.ctx.fs = "Dirty" THEN [x.ctx EXCEPT !.saved = r, !.valid = TRUE] ELSE x.ctx]

Enter(x, s, r) ==
    [x EXCEPT !.mask = HandlerMask(x, s), !.frames = <<Frame(x, s, r)>> \o x.frames,
              !.ctx = [x.ctx EXCEPT !.valid = FALSE, !.fs = "Clean"]]

\* trap_return: check_signal takes one pending signal that is not masked.
TakeSignal(t) ==
    LET x == thread[t]
        deliverable == x.pending \ x.mask
        s == first_pending(deliverable)
    IN  /\ x.at = "return"
        /\ thread' = [thread EXCEPT ![t] =
              IF deliverable = {} THEN [x EXCEPT !.at = "user"]
              ELSE [x EXCEPT !.at = "signal", !.sig = s, !.pending = @ \ {s}]]
        /\ UNCHANGED <<regs, own, computed, ops>>

\* Then, under another lock, it acts on the signal.  trap_return ignores that
\* the process may have exited: user code runs until the next trap.
check_signal(t) ==
    LET x == [thread[t] EXCEPT !.at = "user", !.sig = 0]
        s == thread[t].sig
        handler == x.actions[s].handler
        Becomes(y) == thread' = [thread EXCEPT ![t] = y]
    IN  /\ thread[t].at = "signal"
        /\ \/ /\ handler = "IGN" \/ (handler = "DFL" /\ s \in Ignored)
              /\ Becomes(x) /\ UNCHANGED computed
           \/ /\ handler = "DFL" /\ s \notin Ignored
              /\ Becomes([x EXCEPT !.exited = TRUE]) /\ UNCHANGED computed
           \/ /\ handler = "fn" /\ Len(x.frames) < MaxDepth
              /\ Becomes(Enter(x, s, regs[Hart(t)])) /\ computed' = [computed EXCEPT ![t] = 0]
           \/ \* no room for the frame on the user stack
              /\ handler = "fn"
              /\ Becomes([Enter(x, s, regs[Hart(t)]) EXCEPT !.frames = x.frames, !.exited = TRUE])
              /\ computed' = [computed EXCEPT ![t] = 0]
        /\ UNCHANGED <<regs, own, ops>>

\* The system calls; each returns through trap_return.
Syscall(t) == thread[t].at = "user" /\ ops < MaxOps /\ ops' = ops + 1

\* The program ends itself, or a trap of it is fatal, or sigreturn finds no
\* frame.  (The exit of a process that has exited already: see Process.)
exit_process(t) ==
    /\ Syscall(t) /\ ~ thread[t].exited
    /\ thread' = [thread EXCEPT ![t] = Trapped([@ EXCEPT !.exited = TRUE])]
    /\ UNCHANGED <<regs, own, computed>>

sys_rt_sigaction(t, s, a) ==
    /\ Syscall(t)
    /\ thread' = [thread EXCEPT ![t] = Trapped(IF s \in Unhandled THEN @ ELSE [@ EXCEPT !.actions[s] = a])]
    /\ UNCHANGED <<regs, own, computed>>

SetMask(t, m) ==
    /\ Syscall(t)
    /\ thread' = [thread EXCEPT ![t] = Trapped([@ EXCEPT !.mask = m])]
    /\ own' = IF thread[t].frames = <<>> THEN [own EXCEPT ![t] = m] ELSE own
    /\ UNCHANGED <<regs, computed>>

sys_rt_sigprocmask(t, m) ==
    \/ SetMask(t, thread[t].mask \cup m)
    \/ SetMask(t, thread[t].mask \ m)
    \/ SetMask(t, m)

\* The handler returns through its restorer.  The saved registers come back
\* into the context but not into the hart.
sys_rt_sigreturn(t) ==
    LET x == thread[t] IN
    /\ x.at = "user" /\ x.frames # <<>>
    /\ thread' = [thread EXCEPT ![t] = Trapped([x EXCEPT !.mask = Head(x.frames).mask,
                                    !.ctx = Head(x.frames).ctx, !.frames = Tail(@)])]
    /\ computed' = [computed EXCEPT ![t] = 0]
    /\ UNCHANGED <<regs, own, ops>>

\* ProcessInner::receive_signal: a signal that is masked or pending is lost.
receive_signal(x, s) ==
    IF s \in x.mask \cup x.pending THEN x ELSE [x EXCEPT !.pending = @ \cup {s}]

sys_kill(t, u, s) ==
    /\ Syscall(t) /\ thread[u].at \notin {"none", "dead"}
    /\ LET sent == [thread EXCEPT ![u] = receive_signal(@, s)]
       IN  thread' = [sent EXCEPT ![t] = Trapped(@)]
    /\ UNCHANGED <<regs, own, computed>>

\* fork: actions and mask are inherited, pending signals are not.  Registers
\* not yet saved are not in the child's context.
fork(t, c) ==
    /\ Syscall(t) /\ thread[c].at = "none"
    /\ thread' = [thread EXCEPT ![t] = Trapped(@),
                                ![c] = [thread[t] EXCEPT !.at = "ready", !.hart = NoOne, !.pending = {}]]
    /\ own' = [own EXCEPT ![c] = own[t]]
    /\ UNCHANGED <<regs, computed>>

\* exec: actions become the default, mask and pending signals stay.
exec(t) ==
    /\ Syscall(t)
    /\ thread' = [thread EXCEPT ![t] = Trapped([@ EXCEPT !.actions = Absent.actions,
                                                         !.ctx = NewContext, !.frames = <<>>])]
    /\ own' = [own EXCEPT ![t] = thread[t].mask]
    /\ computed' = [computed EXCEPT ![t] = 0]
    /\ UNCHANGED regs

SignalNext ==
    \E t \in Threads :
        \/ \E h \in SigHarts : Poll(t, h)
        \/ Yield(t) \/ Trap(t) \/ exit_process(t) \/ TakeSignal(t) \/ check_signal(t)
        \/ sys_rt_sigreturn(t) \/ exec(t)
        \/ \E v \in Floats : Compute(t, v)
        \/ \E s \in Signal, a \in Actions : sys_rt_sigaction(t, s, a)
        \/ \E m \in MaskArgs : sys_rt_sigprocmask(t, m)
        \/ \E u \in Threads, s \in Signal : sys_kill(t, u, s)
        \/ \E c \in Threads : fork(t, c)

SignalSpec == SignalInit /\ [][SignalNext]_signalVars
-----------------------------------------------------------------------------
\* A program that computes finds its floating-point registers as it left them,
\* however often it is interrupted, and wherever it goes on: they are saved
\* when it yields with FS dirty and restored when it is polled (glue.rs:91,
\* 109).  A handler, and the program after a handler, start anew.
FloatsKept ==
    \A t \in Threads : thread[t].at = "user" /\ computed[t] # 0 =>
        regs[Hart(t)] = computed[t]

\* When all handlers have returned, nested or not and whatever they did to the
\* mask, the mask is the one the program chose (trap/mod.rs:61, signal.rs:115).
MaskRestored ==
    \A t \in Threads : thread[t].frames = <<>> /\ ~ thread[t].exited =>
        thread[t].mask = own[t]
=============================================================================
