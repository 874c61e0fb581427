------------------------------ MODULE Process -------------------------------
(***************************************************************************)
(* The life cycle of processes: sys_clone/fork, sys_kill, exit_process,    *)
(* exit_thread with the hand-over of orphans to init, sys_wait4 on the     *)
(* wait4_event, the PROCESS_MANAGER table and the pid allocator            *)
(* (crates/libkernel/src/{process,thread}, crates/kernel/src/syscall).     *)
(*                                                                         *)
(* A process has one thread (CLONE_THREAD is a todo!()), so one program    *)
(* counter per process is the position of that thread.  The kernel runs    *)
(* on up to MAX_HART_NUM = 8 harts: the threads interleave freely.  The    *)
(* section under a process's inner lock is one step.                       *)
(***************************************************************************)
EXTENDS Naturals, FiniteSets

CONSTANTS Procs,     \* process objects (what an Arc<Process> points to)
          InitProc,  \* the process of pid 1
          WaitPids,  \* pid arguments of sys_wait4; 0 stands for -1, any child
          WaitFlags, \* the values WNOHANG takes in its options
          KillPids,  \* pid arguments of sys_kill; 0 stands for -1, everyone
          None       \* no process

ASSUME ProcessAssumption ==
    /\ InitProc \in Procs /\ None \notin Procs
    /\ WaitPids \subseteq Nat /\ WaitFlags \subseteq BOOLEAN
    /\ KillPids \subseteq Nat \ {1}   \* nobody signals init

VARIABLES
    pc,         \* where the thread of each process is; "free": no object
    pstat,      \* Process::status
    pid,        \* Process::pid, 0 for a free object
    parent,     \* inner.parent
    children,   \* inner.children
    manager,    \* PROCESS_MANAGER: the objects registered, each under its pid
    current, recycled,  \* PID_ALLOCATOR
    killed,     \* threads with a pending signal whose default is Terminate
    listener,   \* the listener on the process's own wait4_event
    want,       \* the argument of the sys_wait4 under way
    held,       \* the Arc<Process> a system call has in a local variable
    orphans,    \* the children taken by an exit_thread under way
    exParent,   \* the parent taken by an exit_thread under way
    initProg,   \* how far the program of init (user/src/bin/initproc.rs) is
    shutdown,   \* SHUTDOWN
    panicked    \* the kernel assertion that failed, "no" while none has

treeVars == <<parent, children, manager>>
pidVars == <<pid, current, recycled>>
waitVars == <<listener, want>>
exitVars == <<orphans, exParent>>
sysVars == <<initProg, shutdown, panicked>>
vars == <<pc, pstat, treeVars, pidVars, killed, waitVars, held, exitVars, sysVars>>

\* A thread that exit_thread has not yet removed from its process.
Alive(p) == pc[p] \in {"new", "return", "user", "spawn", "kill", "listen",
                       "scan", "copyout", "await", "exit"}

\* The steps of exit_thread after the inner lock is released.
Exiting(p) == pc[p] \in {"zombify", "adopt", "notify", "done"}

ProcPc == {"free", "new", "return", "user", "spawn", "kill", "listen", "scan",
           "copyout", "await", "exit", "zombify", "adopt", "notify", "done", "gone"}

\* The arguments of sys_wait4 that matter.
WaitArgs == [pid : Nat, nohang : BOOLEAN]
AnyChild == [pid |-> 0, nohang |-> FALSE]

Allocated == {p \in Procs : pc[p] # "free"}

Init ==
    /\ pc = [p \in Procs |-> IF p = InitProc THEN "return" ELSE "free"]
    /\ pstat = [p \in Procs |-> "normal"]
    /\ pid = [p \in Procs |-> IF p = InitProc THEN 1 ELSE 0]
    /\ parent = [p \in Procs |-> None]
    /\ children = [p \in Procs |-> {}]
    /\ manager = {InitProc}
    /\ current = 2
    /\ recycled = {}
    /\ killed = {}
    /\ listener = [p \in Procs |-> "none"]
    /\ want = [p \in Procs |-> AnyChild]
    /\ held = [p \in Procs |-> None]
    /\ orphans = [p \in Procs |-> {}]
    /\ exParent = [p \in Procs |-> None]
    /\ initProg = "fork"
    /\ shutdown = FALSE
    /\ panicked = "no"

Goto(p, l) == pc' = [pc EXCEPT ![p] = l]

\* user_thread_loop after a trap was handled: an exited process breaks out.
AfterTrap(p) == IF pstat[p] = "exited" THEN "exit" ELSE "return"

\* exit_process: mark the process exited; it asserts that it was normal.
exit_process(p) ==
    IF pstat[p] = "normal"
      THEN pstat' = [pstat EXCEPT ![p] = "exited"] /\ UNCHANGED panicked
      ELSE panicked' = "exit_process" /\ UNCHANGED pstat

\* What the program of init does next; the other programs do anything.
MayFork(p) == p # InitProc \/ initProg = "fork"
MayWait(p) == p # InitProc \/ initProg = "wait"
MayExit(p) == p # InitProc \/ initProg = "quit"
MayKill(p) == p # InitProc

(***************************************************************************)
(* Traps                                                                   *)
(***************************************************************************)
\* check_signal takes a pending fatal signal and exits the process.
check_signal(p) ==
    IF p \in killed
      THEN killed' = killed \ {p} /\ exit_process(p)
      ELSE UNCHANGED <<killed, pstat, panicked>>

\* trap_return does not look at what check_signal returns: the thread of an
\* exited process still goes to user mode.
trap_return(p) ==
    /\ pc[p] = "return"
    /\ check_signal(p)
    /\ Goto(p, "user")
    /\ UNCHANGED <<treeVars, pidVars, waitVars, held, exitVars, initProg, shutdown>>

\* A trap that leaves the tree alone: interrupts, yields, other system calls.
PlainTrap(p) ==
    /\ pc[p] = "user"
    /\ Goto(p, AfterTrap(p))
    /\ UNCHANGED <<pstat, treeVars, pidVars, killed, waitVars, held, exitVars, sysVars>>

\* sys_exit ends the thread's loop and leaves the process status alone.
sys_exit(p) ==
    /\ pc[p] = "user" /\ MayExit(p)
    /\ Goto(p, "exit")
    /\ UNCHANGED <<pstat, treeVars, pidVars, killed, waitVars, held, exitVars, sysVars>>

\* sys_exit_group, and every trap the kernel answers with exit_process: a bad
\* page fault, an illegal instruction, a failed sigreturn or exec, a system
\* call it does not know.
FatalTrap(p) ==
    /\ pc[p] = "user" /\ MayKill(p)
    /\ exit_process(p)
    /\ Goto(p, "exit")
    /\ UNCHANGED <<treeVars, pidVars, killed, waitVars, held, exitVars, initProg, shutdown>>

(***************************************************************************)
(* sys_clone and sys_kill                                                  *)
(***************************************************************************)
\* RecycleAllocator::alloc gives a recycled id if there is one.
PidChoice == IF recycled # {} THEN recycled ELSE {current}

\* fork, under the inner lock of p.  The status is copied from the parent.
fork(p, c) ==
    /\ pc[p] = "user" /\ MayFork(p)
    /\ pc[c] = "free"
    /\ pc' = [pc EXCEPT ![p] = "spawn", ![c] = "new"]
    /\ pstat' = [pstat EXCEPT ![c] = pstat[p]]
    /\ \E n \in PidChoice :
         /\ pid' = [pid EXCEPT ![c] = n]
         /\ manager' = {q \in manager : pid[q] # n} \cup {c}
         /\ recycled' = recycled \ {n}
         /\ current' = IF n = current THEN current + 1 ELSE current
    /\ parent' = [parent EXCEPT ![c] = p]
    /\ children' = [children EXCEPT ![p] = @ \cup {c}]
    /\ held' = [held EXCEPT ![p] = c]
    /\ UNCHANGED <<killed, waitVars, exitVars, sysVars>>

\* The second half of sys_clone: the child's main thread is scheduled.
spawn_user_thread(p) ==
    /\ pc[p] = "spawn"
    /\ pc' = [pc EXCEPT ![p] = AfterTrap(p), ![held[p]] = "return"]
    /\ held' = [held EXCEPT ![p] = None]
    /\ initProg' = IF p = InitProc THEN "wait" ELSE initProg
    /\ UNCHANGED <<pstat, treeVars, pidVars, killed, waitVars, exitVars, shutdown, panicked>>

\* sys_kill of one pid: look the process up ...
sys_kill(p, n) ==
    /\ pc[p] = "user" /\ MayKill(p)
    /\ n # 0
    /\ LET found == {q \in manager : pid[q] = n}
       IN  IF found = {}
             THEN Goto(p, AfterTrap(p)) /\ UNCHANGED held
             ELSE /\ \E q \in found : held' = [held EXCEPT ![p] = q]
                  /\ Goto(p, "kill")
    /\ UNCHANGED <<pstat, treeVars, pidVars, killed, waitVars, exitVars, sysVars>>

\* ... and let it receive a fatal signal: a process without threads drops it.
receive_signal(p) ==
    /\ pc[p] = "kill"
    /\ killed' = IF Alive(held[p]) THEN killed \cup {held[p]} ELSE killed
    /\ held' = [held EXCEPT ![p] = None]
    /\ Goto(p, AfterTrap(p))
    /\ UNCHANGED <<pstat, treeVars, pidVars, waitVars, exitVars, sysVars>>

\* sys_kill(-1) holds the manager's lock over all deliveries and skips init.
KillAll(p) ==
    /\ 0 \in KillPids
    /\ pc[p] = "user" /\ MayKill(p)
    /\ killed' = killed \cup {q \in manager : pid[q] # 1 /\ Alive(q)}
    /\ Goto(p, AfterTrap(p))
    /\ UNCHANGED <<pstat, treeVars, pidVars, waitVars, held, exitVars, sysVars>>

(***************************************************************************)
(* sys_wait4                                                               *)
(***************************************************************************)
sys_wait4(p, args) ==
    /\ pc[p] = "user" /\ MayWait(p)
    /\ (p = InitProc) => args = AnyChild
    /\ want' = [want EXCEPT ![p] = args]
    /\ Goto(p, "listen")
    /\ UNCHANGED <<pstat, treeVars, pidVars, killed, listener, held, exitVars, sysVars>>

\* Mutant: the listener is made but not yet inserted into the event.
ListenLater(p) ==
    /\ pc[p] = "listen"
    /\ Goto(p, "scan")
    /\ UNCHANGED <<pstat, treeVars, pidVars, killed, waitVars, held, exitVars, sysVars>>

\* The top of the loop registers the listener before it looks at the children.
Listen(p) ==
    /\ pc[p] = "listen"
    /\ listener' = [listener EXCEPT ![p] = "registered"]
    /\ Goto(p, "scan")
    /\ UNCHANGED <<pstat, treeVars, pidVars, killed, want, held, exitVars, sysVars>>

Proper(p, c) == c \in children[p] /\ (want[p].pid = 0 \/ pid[c] = want[p].pid)
Zombie(c) == pstat[c] = "zombie"

\* The scan ends with the listener and the arguments dropped.
EndWait(p) ==
    /\ listener' = [listener EXCEPT ![p] = "none"]
    /\ want' = [want EXCEPT ![p] = AnyChild]

\* The scan, under the inner lock.  init's program quits on ECHILD.
ScanNoChild(p) ==
    /\ pc[p] = "scan"
    /\ \A c \in Procs : ~Proper(p, c)
    /\ EndWait(p)
    /\ Goto(p, AfterTrap(p))
    /\ initProg' = IF p = InitProc THEN "quit" ELSE initProg
    /\ UNCHANGED <<pstat, treeVars, pidVars, killed, held, exitVars, shutdown, panicked>>

\* Mutant: the reaping parent already returns the pid of the child.
ScanReapFreesPid(p) ==
    /\ pc[p] = "scan"
    /\ \E c \in Procs :
         /\ Proper(p, c) /\ Zombie(c)
         /\ children' = [children EXCEPT ![p] = @ \ {c}]
         /\ manager' = {q \in manager : pid[q] # pid[c]}
         /\ held' = [held EXCEPT ![p] = c]
         /\ recycled' = recycled \cup {pid[c]}
    /\ EndWait(p)
    /\ Goto(p, "copyout")
    /\ UNCHANGED <<pstat, parent, pid, current, killed, exitVars, sysVars>>

\* Which of several zombies is taken is left open (the code takes the last).
ScanReap(p) ==
    /\ pc[p] = "scan"
    /\ \E c \in Procs :
         /\ Proper(p, c) /\ Zombie(c)
         /\ children' = [children EXCEPT ![p] = @ \ {c}]
         /\ manager' = {q \in manager : pid[q] # pid[c]}
         /\ held' = [held EXCEPT ![p] = c]
    /\ EndWait(p)
    /\ Goto(p, "copyout")
    /\ UNCHANGED <<pstat, parent, pidVars, killed, exitVars, sysVars>>

ScanNone(p) ==
    /\ pc[p] = "scan"
    /\ \E c \in Procs : Proper(p, c)
    /\ \A c \in Procs : Proper(p, c) => ~Zombie(c)
    /\ IF want[p].nohang
         THEN EndWait(p) /\ Goto(p, AfterTrap(p))
         ELSE Goto(p, "await") /\ UNCHANGED waitVars
    /\ UNCHANGED <<pstat, treeVars, pidVars, killed, held, exitVars, sysVars>>

\* The status word is written (or refused with EFAULT); the child is let go.
CopyOut(p) ==
    /\ pc[p] = "copyout"
    /\ held' = [held EXCEPT ![p] = None]
    /\ Goto(p, AfterTrap(p))
    /\ UNCHANGED <<pstat, treeVars, pidVars, killed, waitVars, exitVars, sysVars>>

\* listener.await completes once notified, and the loop starts again.
Awake(p) ==
    /\ pc[p] = "await"
    /\ listener[p] = "notified"
    /\ listener' = [listener EXCEPT ![p] = "none"]
    /\ Goto(p, "listen")
    /\ UNCHANGED <<pstat, treeVars, pidVars, killed, want, held, exitVars, sysVars>>

(***************************************************************************)
(* exit_thread                                                             *)
(***************************************************************************)
\* Under the inner lock: the thread, the children and the parent are taken.
exit_thread(p) ==
    /\ pc[p] = "exit"
    /\ orphans' = [orphans EXCEPT ![p] = children[p]]
    /\ children' = [children EXCEPT ![p] = {}]
    /\ exParent' = [exParent EXCEPT ![p] = parent[p]]
    /\ parent' = [parent EXCEPT ![p] = None]
    /\ killed' = killed \ {p}
    /\ Goto(p, "zombify")
    /\ UNCHANGED <<pstat, manager, pidVars, waitVars, held, sysVars>>

\* Mutant: the zombie bit is added to the status instead of replacing it.
BecomeZombieAddsBit(p) ==
    /\ pc[p] = "zombify"
    /\ pstat' = [pstat EXCEPT ![p] = IF @ = "exited" THEN "exited+zombie" ELSE "zombie"]
    /\ Goto(p, "adopt")
    /\ UNCHANGED <<treeVars, pidVars, killed, waitVars, held, exitVars, sysVars>>

\* The zombie status is published; from here the parent may reap.
BecomeZombie(p) ==
    /\ pc[p] = "zombify"
    /\ pstat' = [pstat EXCEPT ![p] = "zombie"]
    /\ Goto(p, "adopt")
    /\ UNCHANGED <<treeVars, pidVars, killed, waitVars, held, exitVars, sysVars>>

\* The exit of init, which must have no children, shuts the system down.
InitExits ==
    /\ pc[InitProc] = "adopt"
    /\ IF orphans[InitProc] = {}
         THEN shutdown' = TRUE /\ UNCHANGED panicked
         ELSE panicked' = "exit_thread" /\ UNCHANGED shutdown
    /\ Goto(InitProc, "notify")
    /\ UNCHANGED <<pstat, treeVars, pidVars, killed, waitVars, held, exitVars, initProg>>

\* Mutant: the orphans are dropped instead of given to init.
AdoptForgets(p) ==
    /\ p # InitProc /\ pc[p] = "adopt"
    /\ parent' = [c \in Procs |-> IF c \in orphans[p] THEN InitProc ELSE parent[c]]
    /\ orphans' = [orphans EXCEPT ![p] = {}]
    /\ Goto(p, "notify")
    /\ UNCHANGED <<pstat, children, manager, pidVars, killed, waitVars, held, exParent, sysVars>>

\* Mutant: the orphans keep their old parent.
AdoptKeepsParent(p) ==
    /\ p # InitProc /\ pc[p] = "adopt"
    /\ children' = [children EXCEPT ![InitProc] = @ \cup orphans[p]]
    /\ orphans' = [orphans EXCEPT ![p] = {}]
    /\ Goto(p, "notify")
    /\ UNCHANGED <<pstat, parent, manager, pidVars, killed, waitVars, held, exParent, sysVars>>

\* Under the inner lock of init: the orphans change parent; init is not told.
Adopt(p) ==
    /\ p # InitProc /\ pc[p] = "adopt"
    /\ parent' = [c \in Procs |-> IF c \in orphans[p] THEN InitProc ELSE parent[c]]
    /\ children' = [children EXCEPT ![InitProc] = @ \cup orphans[p]]
    /\ orphans' = [orphans EXCEPT ![p] = {}]
    /\ Goto(p, "notify")
    /\ UNCHANGED <<pstat, manager, pidVars, killed, waitVars, held, exParent, sysVars>>

\* Mutant: the parent is read again, after exit_thread has taken it.
NotifyParentReadsAgain(p) ==
    /\ pc[p] = "notify"
    /\ LET q == parent[p]
       IN  listener' = IF q # None /\ listener[q] = "registered"
                         THEN [listener EXCEPT ![q] = "notified"]
                         ELSE listener
    /\ Goto(p, "done")
    /\ UNCHANGED <<pstat, treeVars, pidVars, killed, want, held, exitVars, sysVars>>

\* wait4_event.notify(1): a listener that is registered becomes notified, an
\* event without one forgets the notification.
NotifyParent(p) ==
    /\ pc[p] = "notify"
    /\ LET q == exParent[p]
       IN  listener' = IF q # None /\ listener[q] = "registered"
                         THEN [listener EXCEPT ![q] = "notified"]
                         ELSE listener
    /\ Goto(p, "done")
    /\ UNCHANGED <<pstat, treeVars, pidVars, killed, want, held, exitVars, sysVars>>

\* exit_thread returns and the executor drops the task, and with it the thread.
TaskDone(p) ==
    /\ pc[p] = "done"
    /\ exParent' = [exParent EXCEPT ![p] = None]
    /\ Goto(p, "gone")
    /\ UNCHANGED <<pstat, treeVars, pidVars, killed, waitVars, held, orphans, sysVars>>

\* Some Arc still points to p.
Referenced(p) ==
    \/ pc[p] # "gone" \/ p \in manager
    \/ \E q \in Procs : \/ p \in children[q] \/ p \in orphans[q]
                        \/ p \in {held[q], parent[q], exParent[q]}

\* Process::drop, by whoever released the last Arc: only here is the pid free.
drop(p) ==
    /\ pc[p] # "free" /\ ~Referenced(p)
    /\ recycled' = recycled \cup {pid[p]}
    /\ pid' = [pid EXCEPT ![p] = 0]
    /\ pstat' = [pstat EXCEPT ![p] = "normal"]
    /\ parent' = [parent EXCEPT ![p] = None]
    /\ Goto(p, "free")
    /\ UNCHANGED <<children, manager, current, killed, waitVars, held, exitVars, sysVars>>

-----------------------------------------------------------------------------
\* The steps a thread takes in the kernel, once it has entered it.
Kernel(p) ==
    \/ trap_return(p) \/ spawn_user_thread(p) \/ receive_signal(p)
    \/ Listen(p) \/ ScanNoChild(p) \/ ScanReap(p) \/ ScanNone(p) \/ CopyOut(p) \/ Awake(p)
    \/ exit_thread(p) \/ BecomeZombie(p) \/ Adopt(p) \/ NotifyParent(p) \/ TaskDone(p)

\* The traps a program may cause.
User(p) ==
    \/ PlainTrap(p) \/ sys_exit(p) \/ FatalTrap(p) \/ KillAll(p)
    \/ \E c \in Procs : fork(p, c)
    \/ \E n \in KillPids : sys_kill(p, n)
    \/ \E n \in WaitPids, b \in WaitFlags : sys_wait4(p, [pid |-> n, nohang |-> b])

\* A failed assertion stops the kernel.
Next ==
    /\ panicked = "no"
    /\ InitExits \/ \E p \in Procs : Kernel(p) \/ User(p) \/ drop(p)

Spec == Init /\ [][Next]_vars

\* The executor polls every woken task and no lock is held for ever, so a
\* thread inside the kernel goes on.  Nothing makes a program trap.
Fairness == \A p \in Procs : WF_vars(panicked = "no" /\ Kernel(p))

FairSpec == Spec /\ Fairness

-----------------------------------------------------------------------------
\* Every variable has its type.
TypeOK ==
    /\ pc \in [Procs -> ProcPc]
    /\ pstat \in [Procs -> {"normal", "exited", "zombie"}]
    /\ pid \in [Procs -> Nat]
    /\ parent \in [Procs -> Procs \cup {None}]
    /\ children \in [Procs -> SUBSET Procs]
    /\ manager \subseteq Procs
    /\ current \in Nat
    /\ recycled \subseteq Nat
    /\ killed \subseteq Procs
    /\ listener \in [Procs -> {"none", "registered", "notified"}]
    /\ want \in [Procs -> WaitArgs]
    /\ held \in [Procs -> Procs \cup {None}]
    /\ orphans \in [Procs -> SUBSET Procs]
    /\ exParent \in [Procs -> Procs \cup {None}]
    /\ initProg \in {"fork", "wait", "quit"}
    /\ shutdown \in BOOLEAN
    /\ panicked \in {"no", "exit_process", "exit_thread"}

\* No two process objects that exist share a pid and no pid in use is handed
\* out again, although a reaped process may still be exiting on another hart
\* and a sys_kill may still hold it: Process::drop alone returns the pid.
PidUnique ==
    \A p \in Allocated :
        /\ pid[p] \notin recycled
        /\ pid[p] \in 1..(current - 1)
        /\ \A q \in Allocated : pid[q] = pid[p] => q = p

\* Every registered process but init is in exactly one list: the children of
\* a process, or the orphans an exit_thread is about to give to init; and a
\* process in a list is registered.  No fork, exit, hand-over or reap loses a
\* process or lets two processes wait for it.
Listed(p, c) == c \in children[p] \cup orphans[p]
OneOwner ==
    \A c \in Procs \ {InitProc} :
        /\ c \in manager <=> \E p \in Procs : Listed(p, c)
        /\ \A p, q \in Procs : Listed(p, c) /\ Listed(q, c) => p = q
        /\ \A p \in Procs : ~(c \in children[p] /\ c \in orphans[p])

\* A process that has not exited has as its parent (what sys_getppid reports
\* and exit_thread notifies) the process whose list it is in.
ParentIsOwner ==
    \A c \in Procs \ {InitProc} : Alive(c) =>
        \E p \in Procs : parent[c] = p /\ Listed(p, c)

\* The exit of a child is not missed: while p sleeps in sys_wait4 without
\* being notified, every zombie it waits for has still to notify it.  (init,
\* which also gets children by adoption, is the subject of InitSeesOrphans.)
ToNotify(c, p) == pc[c] \in {"adopt", "notify"} /\ exParent[c] = p
Asleep(p) == pc[p] = "await" /\ listener[p] # "notified"
NoLostChildExit ==
    \A p \in Procs \ {InitProc}, c \in Procs :
        Asleep(p) /\ Proper(p, c) /\ Zombie(c) => ToNotify(c, p)

\* A sleeping sys_wait4 with a zombie among the children it waits for goes on
\* to reap one, however the exits and the wake-up interleave.
WaiterReaps ==
    \A p \in Procs \ {InitProc} :
        (pc[p] = "await" /\ \E c \in Procs : Proper(p, c) /\ Zombie(c))
            ~> (pc[p] = "copyout" \/ panicked # "no")

\* What exit_process asserts of the status it replaces: a process is told to
\* exit once.
ExitsOnce == panicked # "exit_process"

\* What exit_thread asserts when init exits: it has no children left.
InitLeavesNobody == panicked # "exit_thread"

\* What the FIXME of exit_thread asks of the hand-over to init: while init
\* sleeps with a zombie among its children, somebody has still to notify it.
InitSeesOrphans ==
    \A c \in Procs :
        Asleep(InitProc) /\ Proper(InitProc, c) /\ Zombie(c) =>
            \E q \in Procs : ToNotify(q, InitProc)
=============================================================================
