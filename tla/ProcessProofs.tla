--------------------------- MODULE ProcessProofs ----------------------------
(***************************************************************************)
(* The safety properties of Process, for any number of processes and any   *)
(* arguments of the system calls.                                          *)
(***************************************************************************)
EXTENDS Process, TLAPS

\* The pids handed out so far are below current, and a recycled one is not in
\* use.
PidInv == PidUnique /\ current >= 1 /\ recycled \subseteq 1..(current - 1)

\* Every Arc points to an object that exists, and init exists for ever.
RefInv ==
    /\ manager \subseteq Allocated
    /\ \A q \in Procs : children[q] \cup orphans[q] \subseteq Allocated
    /\ \A q \in Procs : {held[q], parent[q], exParent[q]} \subseteq Allocated \cup {None}
    /\ InitProc \in manager
    /\ \A q \in Procs : ~ Listed(q, InitProc)

\* Orphans are in the hands of an exit_thread only until init has them, and
\* only a process whose thread is over is a zombie.
ExitInv ==
    \A p \in Procs :
        /\ orphans[p] # {} => pc[p] \in {"zombify", "adopt"} \/ panicked # "no"
        /\ Zombie(p) => pc[p] \in {"adopt", "notify", "done", "gone"}

\* The child that a sys_clone is about to start belongs to this sys_clone
\* alone; a sys_kill has found its process.
HeldInv ==
    \A p \in Procs :
        /\ pc[p] = "kill" => held[p] # None
        /\ pc[p] = "spawn" => /\ held[p] # None
                              /\ pc[held[p]] = "new"
                              /\ \A q \in Procs : pc[q] = "spawn" /\ held[q] = held[p] => q = p

\* sys_wait4 scans and sleeps with its listener registered, and an exiting
\* child of a process other than init will notify the one that waits for it.
WaitInv ==
    \A p \in Procs :
        /\ pc[p] \in {"scan", "await"} => listener[p] # "none"
        /\ \A c \in children[p] :
             p # InitProc /\ pc[c] \in {"zombify", "adopt", "notify"} => exParent[c] = p

ProcInv == /\ TypeOK /\ PidInv /\ RefInv /\ OneOwner /\ ParentIsOwner
           /\ ExitInv /\ HeldInv /\ WaitInv /\ NoLostChildExit

-----------------------------------------------------------------------------
(***************************************************************************)
(* Types                                                                   *)
(***************************************************************************)
\* Every step of a thread inside the kernel keeps the types.
LEMMA KernelTypes ==
    ASSUME TypeOK, HeldInv, NEW p \in Procs, Kernel(p)
    PROVE  TypeOK'
<1> USE ProcessAssumption
<1>1. CASE trap_return(p)
  <2>1. /\ pstat' \in [Procs -> {"normal", "exited", "zombie"}]
        /\ killed' \subseteq Procs /\ panicked' \in {"no", "exit_process", "exit_thread"}
      BY <1>1, Zenon DEF TypeOK, trap_return, check_signal, exit_process
  <2> QED BY <1>1, <2>1, Zenon DEF TypeOK, trap_return, Goto, ProcPc, treeVars, pidVars, waitVars, exitVars
<1>2. CASE spawn_user_thread(p)
    BY <1>2, Zenon DEF TypeOK, spawn_user_thread, AfterTrap, ProcPc, treeVars, pidVars, waitVars, exitVars
<1>3. CASE receive_signal(p)
  <2>1. killed' \subseteq Procs
      BY <1>3, Zenon DEF TypeOK, HeldInv, receive_signal, Alive
  <2> QED BY <1>3, <2>1, Zenon DEF TypeOK, receive_signal, AfterTrap, Goto, ProcPc, treeVars, pidVars,
                waitVars, exitVars, sysVars
<1>4. CASE Listen(p)
    BY <1>4, Zenon DEF TypeOK, Listen, Goto, ProcPc, treeVars, pidVars, exitVars, sysVars
<1>5. CASE ScanNoChild(p) \/ ScanNone(p)
  <2>a. AnyChild \in WaitArgs
      BY Zenon DEF AnyChild, WaitArgs
  <2>b. AfterTrap(p) \in ProcPc /\ "await" \in ProcPc
      BY Zenon DEF AfterTrap, ProcPc
  <2>1. /\ pc' \in [Procs -> ProcPc] /\ want' \in [Procs -> WaitArgs]
        /\ listener' \in [Procs -> {"none", "registered", "notified"}]
      BY <1>5, <2>a, <2>b DEF TypeOK, ScanNoChild, ScanNone, EndWait, Goto, waitVars
  <2>2. /\ initProg' \in {"fork", "wait", "quit"}
        /\ UNCHANGED <<pstat, treeVars, pidVars, killed, held, exitVars, shutdown, panicked>>
      BY <1>5, Zenon DEF TypeOK, ScanNoChild, ScanNone, sysVars
  <2> QED BY <2>1, <2>2, Zenon DEF TypeOK, treeVars, pidVars, exitVars
<1>6. CASE ScanReap(p)
    BY <1>6 DEF TypeOK, ScanReap, EndWait, AnyChild, WaitArgs, Goto, ProcPc, pidVars, exitVars, sysVars
<1>7. CASE CopyOut(p)
    BY <1>7, Zenon DEF TypeOK, CopyOut, AfterTrap, Goto, ProcPc, treeVars, pidVars, waitVars, exitVars, sysVars
<1>8. CASE Awake(p)
    BY <1>8, Zenon DEF TypeOK, Awake, Goto, ProcPc, treeVars, pidVars, exitVars, sysVars
<1>9. CASE exit_thread(p)
    BY <1>9, Zenon DEF TypeOK, exit_thread, Goto, ProcPc, pidVars, waitVars, sysVars
<1>10. CASE BecomeZombie(p)
    BY <1>10, Zenon DEF TypeOK, BecomeZombie, Goto, ProcPc, treeVars, pidVars, waitVars, exitVars, sysVars
<1>11. CASE Adopt(p)
    BY <1>11, Zenon DEF TypeOK, Adopt, Goto, ProcPc, pidVars, waitVars, sysVars
<1>12. CASE NotifyParent(p)
  <2>1. listener' \in [Procs -> {"none", "registered", "notified"}]
      BY <1>12, Zenon DEF TypeOK, NotifyParent
  <2> QED BY <1>12, <2>1, Zenon DEF TypeOK, NotifyParent, Goto, ProcPc, treeVars, pidVars, exitVars, sysVars
<1>13. CASE TaskDone(p)
    BY <1>13, Zenon DEF TypeOK, TaskDone, Goto, ProcPc, treeVars, pidVars, waitVars, sysVars
<1> QED BY <1>1, <1>2, <1>3, <1>4, <1>5, <1>6, <1>7, <1>8, <1>9, <1>10, <1>11, <1>12, <1>13, Zenon DEF Kernel

\* Every trap a program causes, the exit of init and Process::drop keep the
\* types.
LEMMA UserTypes ==
    ASSUME TypeOK, NEW p \in Procs, User(p) \/ InitExits \/ drop(p)
    PROVE  TypeOK'
<1> USE ProcessAssumption
<1>1. CASE PlainTrap(p) \/ sys_exit(p)
  <2>1. pc' \in [Procs -> ProcPc]
      BY <1>1 DEF TypeOK, PlainTrap, sys_exit, AfterTrap, Goto, ProcPc
  <2>2. UNCHANGED <<pstat, treeVars, pidVars, killed, waitVars, held, exitVars, sysVars>>
      BY <1>1, Zenon DEF PlainTrap, sys_exit
  <2> QED BY <2>1, <2>2, Zenon DEF TypeOK, treeVars, pidVars, waitVars, exitVars, sysVars
<1>2. CASE FatalTrap(p)
  <2>1. /\ pstat' \in [Procs -> {"normal", "exited", "zombie"}]
        /\ panicked' \in {"no", "exit_process", "exit_thread"}
      BY <1>2, Zenon DEF TypeOK, FatalTrap, exit_process
  <2> QED BY <1>2, <2>1, Zenon DEF TypeOK, FatalTrap, Goto, ProcPc, treeVars, pidVars, waitVars, exitVars
<1>3. CASE KillAll(p)
  <2>1. killed' \subseteq Procs
      BY <1>3, Zenon DEF TypeOK, KillAll, Alive
  <2> QED BY <1>3, <2>1, Zenon DEF TypeOK, KillAll, AfterTrap, Goto, ProcPc, treeVars, pidVars, waitVars,
                exitVars, sysVars
<1>4. ASSUME NEW c \in Procs, fork(p, c)
      PROVE  TypeOK'
  <2>1. PICK n \in PidChoice :
            /\ pid' = [pid EXCEPT ![c] = n]
            /\ manager' = {q \in manager : pid[q] # n} \cup {c}
            /\ recycled' = recycled \ {n}
            /\ current' = IF n = current THEN current + 1 ELSE current
      BY <1>4, Zenon DEF fork
  <2>2. n \in Nat
      BY Zenon DEF PidChoice, TypeOK
  <2>3. /\ pid' \in [Procs -> Nat] /\ manager' \subseteq Procs
        /\ recycled' \subseteq Nat /\ current' \in Nat
      BY <2>1, <2>2 DEF TypeOK
  <2> QED BY <1>4, <2>3, Zenon DEF TypeOK, fork, ProcPc, waitVars, exitVars, sysVars
<1>5. ASSUME NEW n \in KillPids, sys_kill(p, n)
      PROVE  TypeOK'
    BY <1>5 DEF TypeOK, sys_kill, AfterTrap, Goto, ProcPc, treeVars, pidVars, waitVars, exitVars, sysVars
<1>6. ASSUME NEW n \in WaitPids, NEW b \in WaitFlags, sys_wait4(p, [pid |-> n, nohang |-> b])
      PROVE  TypeOK'
    BY <1>6, Zenon DEF TypeOK, sys_wait4, WaitArgs, Goto, ProcPc, treeVars, pidVars, exitVars, sysVars
<1>7. CASE InitExits
    BY <1>7, Zenon DEF TypeOK, InitExits, Goto, ProcPc, treeVars, pidVars, waitVars, exitVars
<1>8. CASE drop(p)
  <2>1. /\ pc' \in [Procs -> ProcPc] /\ pstat' \in [Procs -> {"normal", "exited", "zombie"}]
        /\ pid' \in [Procs -> Nat] /\ parent' \in [Procs -> Procs \cup {None}]
      BY <1>8, Zenon DEF TypeOK, drop, Goto, ProcPc
  <2>a. recycled' = recycled \cup {pid[p]} /\ pid[p] \in Nat
      BY <1>8, Zenon DEF TypeOK, drop
  <2>2. recycled' \subseteq Nat
      BY <2>a, Zenon DEF TypeOK
  <2> QED BY <1>8, <2>1, <2>2, Zenon DEF TypeOK, drop, waitVars, exitVars, sysVars
<1> QED BY <1>1, <1>2, <1>3, <1>4, <1>5, <1>6, <1>7, <1>8, Zenon DEF User

-----------------------------------------------------------------------------
(***************************************************************************)
(* The steps of a running thread                                           *)
(***************************************************************************)
\* A step of a running thread that leaves the tree, the pids and the exits
\* under way alone keeps the invariant, if it kills nobody, holds on to an
\* existing process at most, and goes to sleep only after a vain scan with
\* its listener registered.
LEMMA AliveStep ==
    ASSUME ProcInv, TypeOK', panicked = "no",
           NEW p \in Procs,
           NEW l \in {"return", "user", "kill", "listen", "scan", "copyout", "await", "exit"},
           Alive(p), pc[p] # "new", Goto(p, l),
           UNCHANGED <<treeVars, pidVars, exitVars>>,
           \A q \in Procs : Zombie(q)' <=> Zombie(q),
           \A q \in Procs \ {p} : /\ held'[q] = held[q]
                                  /\ listener'[q] = listener[q]
                                  /\ want'[q] = want[q],
           held'[p] \in Allocated \cup {None},
           l = "kill" => held'[p] # None,
           l \in {"scan", "await"} => listener'[p] # "none",
           l = "await" => \A c \in Procs : Proper(p, c)' => ~Zombie(c)
    PROVE  ProcInv'
<1> USE ProcessAssumption DEF ProcInv
<1>1. pc' = [pc EXCEPT ![p] = l] /\ pc \in [Procs -> ProcPc]
    BY Zenon DEF Goto, TypeOK
<1>2. Allocated' = Allocated /\ \A q \in Procs : Alive(q)' <=> Alive(q)
    BY <1>1 DEF Allocated, Alive
<1>3. PidInv'
    BY <1>2, Zenon DEF PidInv, PidUnique, pidVars
<1>4. RefInv'
    BY <1>2 DEF RefInv, Listed, treeVars, exitVars
<1>5. OneOwner'
    BY Zenon DEF OneOwner, Listed, treeVars, exitVars
<1>6. ParentIsOwner'
    BY <1>2, Zenon DEF ParentIsOwner, Listed, treeVars, exitVars
<1>7. ExitInv'
    BY <1>1, Zenon DEF ExitInv, Alive, exitVars
<1>8. HeldInv'
  <2> SUFFICES ASSUME NEW q \in Procs
               PROVE  /\ pc'[q] = "kill" => held'[q] # None
                      /\ pc'[q] = "spawn" =>
                            /\ held'[q] # None
                            /\ pc'[held'[q]] = "new"
                            /\ \A r \in Procs : pc'[r] = "spawn" /\ held'[r] = held'[q] => r = q
      BY Zenon DEF HeldInv
  <2> QED BY <1>1 DEF HeldInv, TypeOK
<1>9. WaitInv'
    BY <1>1 DEF WaitInv, Alive, treeVars, exitVars, TypeOK
<1>10. NoLostChildExit'
  <2> SUFFICES ASSUME NEW q \in Procs \ {InitProc}, NEW c \in Procs,
                      Asleep(q)', Proper(q, c)', Zombie(c)'
               PROVE  ToNotify(c, q)'
      BY Zenon DEF NoLostChildExit
  <2>1. q # p
      BY <1>1, Zenon DEF Asleep
  <2>2. Asleep(q) /\ Proper(q, c) /\ Zombie(c)
      BY <1>1, <2>1, Zenon DEF Asleep, Proper, treeVars, pidVars
  <2>3. ToNotify(c, q)
      BY <2>2, Zenon DEF NoLostChildExit
  <2> QED BY <1>1, <2>3, Zenon DEF ToNotify, Alive, exitVars
<1> QED BY <1>3, <1>4, <1>5, <1>6, <1>7, <1>8, <1>9, <1>10, Zenon

\* A running thread is neither a zombie nor one that has left its process.
LEMMA RunningFacts ==
    ASSUME ProcInv, NEW p \in Procs, Alive(p)
    PROVE  ~ Zombie(p) /\ held[p] \in Allocated \cup {None}
BY Zenon DEF ProcInv, ExitInv, RefInv, Alive

\* The way to user mode: trap_return with the signal it may take.
LEMMA TrapReturnStep ==
    ASSUME ProcInv, TypeOK', panicked = "no", NEW p \in Procs, trap_return(p)
    PROVE  ProcInv'
<1>1. Alive(p) /\ pc[p] # "new"
    BY Zenon DEF trap_return, Alive
<1>2. \A q \in Procs : Zombie(q)' <=> Zombie(q)
    BY <1>1, RunningFacts DEF trap_return, check_signal, exit_process, Zombie, ProcInv, TypeOK
<1>3. UNCHANGED <<treeVars, pidVars, waitVars, held, exitVars>> /\ Goto(p, "user")
    BY Zenon DEF trap_return
<1> QED BY <1>1, <1>2, <1>3, AliveStep, RunningFacts, Zenon DEF waitVars

\* The traps that end or continue the thread without touching the tree.
LEMMA TrapStep ==
    ASSUME ProcInv, TypeOK', panicked = "no", NEW p \in Procs,
           PlainTrap(p) \/ sys_exit(p) \/ FatalTrap(p) \/ KillAll(p)
    PROVE  ProcInv'
<1>1. Alive(p) /\ pc[p] = "user"
    BY Zenon DEF PlainTrap, sys_exit, FatalTrap, KillAll, Alive
<1>2. \A q \in Procs : Zombie(q)' <=> Zombie(q)
    BY <1>1, RunningFacts, Zenon DEF PlainTrap, sys_exit, FatalTrap, KillAll, exit_process, Zombie, ProcInv,
                              TypeOK
<1>3. UNCHANGED <<treeVars, pidVars, waitVars, held, exitVars>>
    BY Zenon DEF PlainTrap, sys_exit, FatalTrap, KillAll
<1>4. PICK l \in {"return", "exit"} : Goto(p, l)
    BY Zenon DEF PlainTrap, sys_exit, FatalTrap, KillAll, AfterTrap
<1> QED BY <1>1, <1>2, <1>3, <1>4, AliveStep, RunningFacts, Zenon DEF waitVars

\* sys_kill of one process, from the look-up to the delivery.
LEMMA KillStep ==
    ASSUME ProcInv, TypeOK', panicked = "no", NEW p \in Procs,
           receive_signal(p) \/ \E n \in KillPids : sys_kill(p, n)
    PROVE  ProcInv'
<1> USE ProcessAssumption
<1>1. Alive(p) /\ pc[p] # "new"
    BY Zenon DEF receive_signal, sys_kill, Alive
<1>2. UNCHANGED <<pstat, treeVars, pidVars, waitVars, exitVars>>
    BY Zenon DEF receive_signal, sys_kill
<1>3. \A q \in Procs : Zombie(q)' <=> Zombie(q)
    BY <1>2, Zenon DEF Zombie
<1>4. PICK l \in {"return", "exit", "kill"} :
          /\ Goto(p, l)
          /\ held'[p] \in Allocated \cup {None}
          /\ l = "kill" => held'[p] # None
          /\ \A q \in Procs \ {p} : held'[q] = held[q]
  <2>1. manager \subseteq Allocated /\ manager \subseteq Procs /\ held \in [Procs -> Procs \cup {None}]
      BY Zenon DEF ProcInv, RefInv, TypeOK
  <2>2. AfterTrap(p) \in {"return", "exit"}
      BY Zenon DEF AfterTrap
  <2>3. CASE receive_signal(p)
      BY <2>1, <2>2, <2>3, Zenon DEF receive_signal
  <2>4. ASSUME NEW n \in KillPids, sys_kill(p, n)
        PROVE  \/ Goto(p, AfterTrap(p)) /\ held' = held
               \/ \E q \in manager : held' = [held EXCEPT ![p] = q] /\ Goto(p, "kill")
      BY <2>4, Zenon DEF sys_kill
  <2> QED BY <2>1, <2>2, <2>3, <2>4, <1>1, RunningFacts, Zenon
<1> QED BY <1>1, <1>2, <1>3, <1>4, AliveStep, Zenon DEF waitVars

\* sys_wait4 up to its scan, and the ends of a scan that reaps nobody.
LEMMA WaitStep ==
    ASSUME ProcInv, TypeOK', panicked = "no", NEW p \in Procs,
           \/ Listen(p) \/ ScanNoChild(p) \/ ScanNone(p) \/ Awake(p) \/ CopyOut(p)
           \/ \E n \in WaitPids, b \in WaitFlags : sys_wait4(p, [pid |-> n, nohang |-> b])
    PROVE  ProcInv'
<1> USE ProcessAssumption
<1>1. Alive(p) /\ pc[p] # "new"
    BY Zenon DEF Listen, ScanNoChild, ScanNone, Awake, CopyOut, sys_wait4, Alive
<1>2. UNCHANGED <<pstat, treeVars, pidVars, exitVars>>
    BY Zenon DEF Listen, ScanNoChild, ScanNone, Awake, CopyOut, sys_wait4
<1>3. \A q \in Procs : Zombie(q)' <=> Zombie(q)
    BY <1>2, Zenon DEF Zombie
<1>4. held'[p] \in Allocated \cup {None} /\ \A q \in Procs \ {p} : held'[q] = held[q]
    BY <1>1, RunningFacts DEF Listen, ScanNoChild, ScanNone, Awake, CopyOut, sys_wait4, ProcInv, TypeOK
<1>5. \A q \in Procs \ {p} : listener'[q] = listener[q] /\ want'[q] = want[q]
    BY DEF Listen, ScanNoChild, ScanNone, Awake, CopyOut, sys_wait4, EndWait, waitVars, ProcInv, TypeOK
<1>6. PICK l \in {"return", "exit", "listen", "scan", "await"} :
          /\ Goto(p, l)
          /\ l \in {"scan", "await"} => listener'[p] # "none"
          /\ l = "await" => ScanNone(p) /\ UNCHANGED waitVars
  <2>1. AfterTrap(p) \in {"return", "exit"}
      BY Zenon DEF AfterTrap
  <2>2. listener \in [Procs -> {"none", "registered", "notified"}]
      BY Zenon DEF ProcInv, TypeOK
  <2>3. CASE Listen(p)
      BY <2>2, <2>3, Zenon DEF Listen
  <2>4. CASE ScanNone(p)
    <3>1. listener[p] # "none"
        BY <2>4, Zenon DEF ScanNone, ProcInv, WaitInv
    <3> QED BY <2>1, <2>4, <3>1 DEF ScanNone, waitVars
  <2>5. CASE ScanNoChild(p) \/ CopyOut(p)
      BY <2>1, <2>5, Zenon DEF ScanNoChild, CopyOut
  <2> QED BY <2>3, <2>4, <2>5, Zenon DEF Awake, sys_wait4
<1>7. l = "await" => \A c \in Procs : Proper(p, c)' => ~ Zombie(c)
    BY <1>2, <1>6, Zenon DEF ScanNone, Proper, treeVars, pidVars, waitVars
<1> QED BY <1>1, <1>2, <1>3, <1>4, <1>5, <1>6, <1>7, AliveStep, Zenon

-----------------------------------------------------------------------------
(***************************************************************************)
(* The steps that change the tree                                          *)
(***************************************************************************)
\* The pid fork takes is nobody's, and nobody is registered under it.
LEMMA FreshPid ==
    ASSUME ProcInv, NEW n \in PidChoice
    PROVE  /\ n \in Nat /\ n >= 1 /\ n <= current
           /\ n = current \/ (n \in recycled /\ n < current)
           /\ \A q \in Allocated : pid[q] # n
           /\ {q \in manager : pid[q] # n} = manager
<1>a. current \in Nat /\ current >= 1
    BY Zenon DEF ProcInv, TypeOK, PidInv
<1>1. recycled \subseteq 1..(current - 1) /\ manager \subseteq Allocated
    BY Zenon DEF ProcInv, PidInv, RefInv
<1>2. /\ n \in Nat /\ n >= 1 /\ n <= current
      /\ n = current \/ (n \in recycled /\ n < current)
  <2>1. CASE recycled = {}
    <3>1. n = current
        BY <2>1, Zenon DEF PidChoice
    <3> QED BY <1>a, <3>1
  <2>2. CASE recycled # {}
    <3>1. n \in recycled /\ n \in 1..(current - 1)
        BY <1>1, <2>2, Zenon DEF PidChoice
    <3> QED BY <1>a, <3>1
  <2> QED BY <2>1, <2>2, Zenon
<1>3. \A q \in Allocated : pid[q] # n
    BY <1>a, <1>2 DEF ProcInv, PidInv, PidUnique
<1> QED BY <1>1, <1>2, <1>3, Zenon

\* fork: the child is new to every list and to the pid table.
LEMMA ForkStep ==
    ASSUME ProcInv, TypeOK', panicked = "no", NEW p \in Procs, NEW c \in Procs, fork(p, c)
    PROVE  ProcInv'
<1> USE ProcessAssumption
<1>1. PICK n \in PidChoice :
          /\ pid' = [pid EXCEPT ![c] = n]
          /\ manager' = manager \cup {c}
          /\ recycled' = recycled \ {n}
          /\ current' = IF n = current THEN current + 1 ELSE current
    BY FreshPid, Zenon DEF fork
<1>2. /\ p # c /\ pc[p] = "user" /\ pc[c] = "free"
      /\ pc' = [pc EXCEPT ![p] = "spawn", ![c] = "new"] /\ pc \in [Procs -> ProcPc]
      /\ Allocated' = Allocated \cup {c} /\ c \notin Allocated /\ p \in Allocated
    BY DEF fork, ProcInv, TypeOK, Allocated
<1>3. /\ parent' = [parent EXCEPT ![c] = p] /\ parent \in [Procs -> Procs \cup {None}]
      /\ children' = [children EXCEPT ![p] = children[p] \cup {c}]
      /\ children \in [Procs -> SUBSET Procs]
      /\ held' = [held EXCEPT ![p] = c] /\ held \in [Procs -> Procs \cup {None}]
      /\ pstat' = [pstat EXCEPT ![c] = pstat[p]]
      /\ pstat \in [Procs -> {"normal", "exited", "zombie"}]
      /\ UNCHANGED <<killed, waitVars, exitVars, sysVars>>
    BY Zenon DEF fork, ProcInv, TypeOK
<1>4. ~ Zombie(p) /\ Alive(p)
    BY <1>2, RunningFacts, Zenon DEF Alive
<1>5. /\ \A q \in Procs : c \notin children[q] /\ c \notin orphans[q]
      /\ c \notin manager /\ c # InitProc
      /\ \A q \in Procs : held[q] # c /\ parent[q] # c /\ exParent[q] # c
    BY <1>2, Zenon DEF ProcInv, RefInv
<1>6. PidInv'
  <2>1. current \in Nat /\ current >= 1 /\ recycled \subseteq 1..(current - 1)
        /\ pid \in [Procs -> Nat] /\ n \in Nat
      BY FreshPid, Zenon DEF ProcInv, TypeOK, PidInv
  <2>2. /\ current' \in Nat /\ current' >= 1 /\ current' >= current /\ n < current'
        /\ recycled' \subseteq 1..(current' - 1)
      BY <1>1, <2>1, FreshPid
  <2>3. ASSUME NEW q \in Allocated'
        PROVE  /\ pid'[q] \notin recycled' /\ pid'[q] \in 1..(current' - 1)
               /\ \A r \in Allocated' : pid'[r] = pid'[q] => r = q
    <3>1. CASE q = c
        BY <1>1, <1>2, <2>1, <2>2, <3>1, FreshPid DEF Allocated
    <3>2. CASE q \in Allocated
      <4>1. pid'[q] = pid[q] /\ pid[q] # n /\ q # c
          BY <1>1, <1>2, <2>1, <3>2, FreshPid, Zenon DEF Allocated
      <4>2. pid[q] \notin recycled /\ pid[q] \in 1..(current - 1)
            /\ \A r \in Allocated : pid[r] = pid[q] => r = q
          BY <3>2, Zenon DEF ProcInv, PidInv, PidUnique
      <4> QED BY <1>1, <1>2, <2>1, <2>2, <4>1, <4>2 DEF Allocated
    <3> QED BY <1>2, <3>1, <3>2, Zenon
  <2>4. PidUnique'
      BY <2>3, Zenon DEF PidUnique
  <2> QED BY <2>2, <2>4, Zenon DEF PidInv
<1>7. RefInv'
    BY <1>1, <1>2, <1>3, <1>5 DEF ProcInv, RefInv, Listed, exitVars
<1>8. OneOwner'
  <2> SUFFICES ASSUME NEW d \in Procs \ {InitProc}
               PROVE  /\ d \in manager' <=> \E q \in Procs : Listed(q, d)'
                      /\ \A q, r \in Procs : Listed(q, d)' /\ Listed(r, d)' => q = r
                      /\ \A q \in Procs : ~(d \in children'[q] /\ d \in orphans'[q])
      BY Zenon DEF OneOwner
  <2>1. \A q \in Procs : Listed(q, d)' <=> Listed(q, d) \/ (d = c /\ q = p)
      BY <1>3, Zenon DEF Listed, exitVars
  <2> QED BY <1>1, <1>3, <1>5, <2>1 DEF ProcInv, OneOwner, Listed, exitVars
<1>9. ParentIsOwner'
    BY <1>2, <1>3, <1>4, <1>5 DEF ProcInv, ParentIsOwner, Listed, Alive, exitVars
<1>10. ExitInv'
    BY <1>2, <1>3, <1>4, Zenon DEF ProcInv, ExitInv, Zombie, exitVars
<1>11. HeldInv'
    BY <1>2, <1>3, <1>5 DEF ProcInv, HeldInv
<1>12. WaitInv'
    BY <1>2, <1>3, <1>5 DEF ProcInv, WaitInv, waitVars, exitVars
<1>13. NoLostChildExit'
  <2> SUFFICES ASSUME NEW q \in Procs \ {InitProc}, NEW d \in Procs,
                      Asleep(q)', Proper(q, d)', Zombie(d)'
               PROVE  ToNotify(d, q)'
      BY Zenon DEF NoLostChildExit
  <2>1. d # c /\ q # c /\ q # p
      BY <1>2, <1>3, <1>4, Zenon DEF Asleep, Zombie
  <2>2. Asleep(q) /\ Proper(q, d) /\ Zombie(d)
      BY <1>1, <1>2, <1>3, <2>1 DEF Asleep, Proper, Zombie, waitVars
  <2>3. ToNotify(d, q)
      BY <2>2, Zenon DEF ProcInv, NoLostChildExit
  <2> QED BY <1>2, <1>3, <2>1, <2>3, Zenon DEF ToNotify, exitVars
<1> QED BY <1>6, <1>7, <1>8, <1>9, <1>10, <1>11, <1>12, <1>13, Zenon DEF ProcInv

\* The second half of sys_clone: the child starts to run.
LEMMA SpawnStep ==
    ASSUME ProcInv, TypeOK', panicked = "no", NEW p \in Procs, spawn_user_thread(p)
    PROVE  ProcInv'
<1> USE ProcessAssumption
<1>1. PICK l \in {"return", "exit"} : pc' = [pc EXCEPT ![p] = l, ![held[p]] = "return"]
    BY Zenon DEF spawn_user_thread, AfterTrap
<1>2. /\ pc \in [Procs -> ProcPc] /\ held \in [Procs -> Procs \cup {None}]
      /\ pc[p] = "spawn" /\ held[p] \in Procs /\ pc[held[p]] = "new"
      /\ \A q \in Procs : pc[q] = "spawn" /\ held[q] = held[p] => q = p
      /\ held' = [held EXCEPT ![p] = None]
      /\ UNCHANGED <<pstat, treeVars, pidVars, waitVars, exitVars, panicked>>
    BY Zenon DEF spawn_user_thread, ProcInv, HeldInv, TypeOK
<1>3. Allocated' = Allocated /\ \A q \in Procs : Alive(q)' <=> Alive(q)
    BY <1>1, <1>2, Zenon DEF Allocated, Alive
<1>4. PidInv'
    BY <1>2, <1>3, Zenon DEF ProcInv, PidInv, PidUnique, pidVars
<1>5. RefInv'
    BY <1>2, <1>3 DEF ProcInv, RefInv, Listed, treeVars, exitVars
<1>6. OneOwner' /\ ParentIsOwner'
    BY <1>2, <1>3, Zenon DEF ProcInv, OneOwner, ParentIsOwner, Listed, treeVars, exitVars
<1>7. ExitInv'
    BY <1>1, <1>2, Zenon DEF ProcInv, ExitInv, Zombie, exitVars
<1>8. HeldInv'
    BY <1>1, <1>2, Zenon DEF ProcInv, HeldInv
<1>9. WaitInv'
  <2>1. children \in [Procs -> SUBSET Procs]
      BY Zenon DEF ProcInv, TypeOK
  <2> QED BY <1>1, <1>2, <2>1, Zenon DEF ProcInv, WaitInv, treeVars, waitVars, exitVars
<1>10. NoLostChildExit'
    BY <1>1, <1>2 DEF ProcInv, NoLostChildExit, Asleep, Proper, Zombie, ToNotify, treeVars, pidVars,
                      waitVars, exitVars
<1> QED BY <1>4, <1>5, <1>6, <1>7, <1>8, <1>9, <1>10, Zenon DEF ProcInv

\* The reap: the child leaves the list and the table together, and the pid
\* stays taken.
LEMMA ReapStep ==
    ASSUME ProcInv, TypeOK', panicked = "no", NEW p \in Procs, ScanReap(p)
    PROVE  ProcInv'
<1> USE ProcessAssumption
<1>1. PICK c \in Procs :
          /\ Proper(p, c) /\ Zombie(c)
          /\ children' = [children EXCEPT ![p] = children[p] \ {c}]
          /\ manager' = {q \in manager : pid[q] # pid[c]}
          /\ held' = [held EXCEPT ![p] = c]
    BY Zenon DEF ScanReap
<1>2. /\ pc \in [Procs -> ProcPc] /\ pc[p] = "scan" /\ pc' = [pc EXCEPT ![p] = "copyout"]
      /\ held \in [Procs -> Procs \cup {None}] /\ children \in [Procs -> SUBSET Procs]
      /\ \A q \in Procs \ {p} : listener'[q] = listener[q] /\ want'[q] = want[q]
      /\ UNCHANGED <<pstat, parent, pidVars, exitVars, panicked>>
    BY DEF ScanReap, EndWait, Goto, ProcInv, TypeOK, sysVars
<1>3. Allocated' = Allocated /\ \A q \in Procs : Alive(q)' <=> Alive(q)
    BY <1>2, Zenon DEF Allocated, Alive
<1>4. /\ c \in Allocated /\ c # InitProc /\ ~ Alive(c) /\ c \in children[p] /\ c \notin orphans[p]
      /\ manager' = manager \ {c}
  <2>1. c \in Allocated /\ c # InitProc /\ c \in children[p] /\ manager \subseteq Allocated
      BY <1>1, Zenon DEF ProcInv, RefInv, Proper, Listed
  <2>2. c \notin orphans[p]
      BY <2>1, Zenon DEF ProcInv, OneOwner
  <2>3. manager' = manager \ {c}
      BY <1>1, <2>1, Zenon DEF ProcInv, PidInv, PidUnique
  <2> QED BY <1>1, <2>1, <2>2, <2>3, Zenon DEF ProcInv, ExitInv, Alive
<1>5. PidInv'
    BY <1>2, <1>3, Zenon DEF ProcInv, PidInv, PidUnique, pidVars
<1>6. RefInv'
    BY <1>1, <1>2, <1>3, <1>4 DEF ProcInv, RefInv, Listed, exitVars
<1>7. OneOwner'
  <2> SUFFICES ASSUME NEW d \in Procs \ {InitProc}
               PROVE  /\ d \in manager' <=> \E q \in Procs : Listed(q, d)'
                      /\ \A q, r \in Procs : Listed(q, d)' /\ Listed(r, d)' => q = r
                      /\ \A q \in Procs : ~(d \in children'[q] /\ d \in orphans'[q])
      BY Zenon DEF OneOwner
  <2>1. \A q \in Procs : Listed(q, d)' <=> Listed(q, d) /\ d # c
    <3> SUFFICES ASSUME NEW q \in Procs PROVE Listed(q, d)' <=> Listed(q, d) /\ d # c
        BY Zenon
    <3>1. Listed(q, c) => q = p
        BY <1>4, Zenon DEF ProcInv, OneOwner, Listed
    <3> QED BY <1>1, <1>2, <1>4, <3>1, Zenon DEF Listed, exitVars
  <2> QED BY <1>1, <1>2, <1>4, <2>1, Zenon DEF ProcInv, OneOwner, exitVars
<1>8. ParentIsOwner'
    BY <1>1, <1>2, <1>3, <1>4 DEF ProcInv, ParentIsOwner, Listed, exitVars
<1>9. ExitInv'
    BY <1>2, Zenon DEF ProcInv, ExitInv, Zombie, exitVars
<1>10. HeldInv'
    BY <1>1, <1>2 DEF ProcInv, HeldInv
<1>11. WaitInv'
    BY <1>1, <1>2, Zenon DEF ProcInv, WaitInv, exitVars
<1>12. NoLostChildExit'
    BY <1>1, <1>2 DEF ProcInv, NoLostChildExit, Asleep, Proper, Zombie, ToNotify, pidVars, exitVars
<1> QED BY <1>5, <1>6, <1>7, <1>8, <1>9, <1>10, <1>11, <1>12, Zenon DEF ProcInv

-----------------------------------------------------------------------------
(***************************************************************************)
(* The steps of an exiting process                                         *)
(***************************************************************************)
\* exit_thread under the inner lock: the children become orphans of the same
\* process, and the parent taken is the one that has it in its list.
LEMMA ExitThreadStep ==
    ASSUME ProcInv, TypeOK', panicked = "no", NEW p \in Procs, exit_thread(p)
    PROVE  ProcInv'
<1> USE ProcessAssumption
<1>1. /\ pc \in [Procs -> ProcPc] /\ pc[p] = "exit" /\ pc' = [pc EXCEPT ![p] = "zombify"]
      /\ orphans \in [Procs -> SUBSET Procs] /\ orphans' = [orphans EXCEPT ![p] = children[p]]
      /\ children \in [Procs -> SUBSET Procs] /\ children' = [children EXCEPT ![p] = {}]
      /\ exParent \in [Procs -> Procs \cup {None}] /\ exParent' = [exParent EXCEPT ![p] = parent[p]]
      /\ parent \in [Procs -> Procs \cup {None}] /\ parent' = [parent EXCEPT ![p] = None]
      /\ UNCHANGED <<pstat, manager, pidVars, waitVars, held, panicked>>
    BY Zenon DEF exit_thread, Goto, ProcInv, TypeOK, sysVars
<1>2. Allocated' = Allocated /\ Alive(p) /\ \A q \in Procs : Alive(q)' <=> Alive(q) /\ q # p
    BY <1>1, Zenon DEF Allocated, Alive
<1>3. orphans[p] = {}
    BY <1>1, Zenon DEF ProcInv, ExitInv
<1>4. \A q, c \in Procs : Listed(q, c)' <=> Listed(q, c)
    BY <1>1, <1>3, Zenon DEF Listed
<1>5. PidInv'
    BY <1>1, <1>2, Zenon DEF ProcInv, PidInv, PidUnique, pidVars
<1>6. RefInv'
    BY <1>1, <1>2, <1>4 DEF ProcInv, RefInv
<1>7. OneOwner'
    BY <1>1, <1>4, Zenon DEF ProcInv, OneOwner
<1>8. ParentIsOwner'
    BY <1>1, <1>2, <1>4, Zenon DEF ProcInv, ParentIsOwner
<1>9. ExitInv'
    BY <1>1, Zenon DEF ProcInv, ExitInv, Zombie
<1>10. HeldInv'
    BY <1>1 DEF ProcInv, HeldInv
<1>11. WaitInv'
  <2> SUFFICES ASSUME NEW q \in Procs
               PROVE  /\ pc'[q] \in {"scan", "await"} => listener'[q] # "none"
                      /\ \A c \in children'[q] :
                           q # InitProc /\ pc'[c] \in {"zombify", "adopt", "notify"} => exParent'[c] = q
      BY Zenon DEF WaitInv
  <2>1. pc'[q] \in {"scan", "await"} => listener'[q] # "none"
      BY <1>1, Zenon DEF ProcInv, WaitInv, waitVars
  <2>2. ASSUME NEW c \in children'[q], q # InitProc, pc'[c] \in {"zombify", "adopt", "notify"}
        PROVE  exParent'[c] = q
    <3>1. q # p /\ c \in children[q] /\ c \in Procs /\ c # InitProc
        BY <1>1, <2>2, Zenon DEF ProcInv, RefInv, Listed
    <3>2. CASE c = p
      <4>1. PICK r \in Procs : parent[p] = r /\ Listed(r, p)
          BY <1>2, <3>1, <3>2, Zenon DEF ProcInv, ParentIsOwner
      <4>2. r = q
          BY <3>1, <3>2, <4>1, Zenon DEF ProcInv, OneOwner, Listed
      <4> QED BY <1>1, <3>2, <4>1, <4>2, Zenon
    <3>3. CASE c # p
        BY <1>1, <2>2, <3>1, <3>3, Zenon DEF ProcInv, WaitInv
    <3> QED BY <3>2, <3>3, Zenon
  <2> QED BY <2>1, <2>2, Zenon
<1>12. NoLostChildExit'
  <2> SUFFICES ASSUME NEW q \in Procs \ {InitProc}, NEW c \in Procs,
                      Asleep(q)', Proper(q, c)', Zombie(c)'
               PROVE  ToNotify(c, q)'
      BY Zenon DEF NoLostChildExit
  <2>1. Asleep(q) /\ Proper(q, c) /\ Zombie(c)
      BY <1>1, Zenon DEF Asleep, Proper, Zombie, waitVars, pidVars
  <2>2. ToNotify(c, q)
      BY <2>1, Zenon DEF ProcInv, NoLostChildExit
  <2> QED BY <1>1, <2>2, Zenon DEF ToNotify
<1> QED BY <1>5, <1>6, <1>7, <1>8, <1>9, <1>10, <1>11, <1>12, Zenon DEF ProcInv

\* The zombie status is published while the parent is still to be notified.
LEMMA ZombieStep ==
    ASSUME ProcInv, TypeOK', panicked = "no", NEW p \in Procs, BecomeZombie(p)
    PROVE  ProcInv'
<1> USE ProcessAssumption
<1>1. /\ pc \in [Procs -> ProcPc] /\ pc[p] = "zombify" /\ pc' = [pc EXCEPT ![p] = "adopt"]
      /\ pstat \in [Procs -> {"normal", "exited", "zombie"}]
      /\ pstat' = [pstat EXCEPT ![p] = "zombie"]
      /\ children \in [Procs -> SUBSET Procs]
      /\ UNCHANGED <<treeVars, pidVars, waitVars, held, exitVars, panicked>>
    BY Zenon DEF BecomeZombie, Goto, ProcInv, TypeOK, sysVars
<1>2. Allocated' = Allocated /\ \A q \in Procs : Alive(q)' <=> Alive(q)
    BY <1>1, Zenon DEF Allocated, Alive
<1>3. PidInv' /\ RefInv'
    BY <1>1, <1>2, Zenon DEF ProcInv, PidInv, PidUnique, RefInv, Listed, pidVars, treeVars, exitVars
<1>4. OneOwner' /\ ParentIsOwner'
    BY <1>1, <1>2, Zenon DEF ProcInv, OneOwner, ParentIsOwner, Listed, treeVars, exitVars
<1>5. ExitInv' /\ HeldInv'
    BY <1>1 DEF ProcInv, ExitInv, HeldInv, Zombie, exitVars
<1>6. WaitInv'
    BY <1>1, Zenon DEF ProcInv, WaitInv, treeVars, waitVars, exitVars
<1>7. NoLostChildExit'
    BY <1>1 DEF ProcInv, WaitInv, NoLostChildExit, Asleep, Proper, Zombie, ToNotify, treeVars, pidVars,
                waitVars, exitVars
<1> QED BY <1>3, <1>4, <1>5, <1>6, <1>7, Zenon DEF ProcInv

\* The exit of init: it has no orphans, or the kernel stops.
LEMMA InitExitsStep ==
    ASSUME ProcInv, TypeOK', panicked = "no", InitExits
    PROVE  ProcInv'
<1> USE ProcessAssumption
<1>1. /\ pc \in [Procs -> ProcPc] /\ pc[InitProc] = "adopt"
      /\ pc' = [pc EXCEPT ![InitProc] = "notify"]
      /\ children \in [Procs -> SUBSET Procs]
      /\ orphans[InitProc] # {} => panicked' = "exit_thread"
      /\ UNCHANGED <<pstat, treeVars, pidVars, waitVars, held, exitVars>>
    BY Zenon DEF InitExits, Goto, ProcInv, TypeOK
<1>2. Allocated' = Allocated /\ \A q \in Procs : Alive(q)' <=> Alive(q)
    BY <1>1, Zenon DEF Allocated, Alive
<1>3. PidInv' /\ RefInv'
    BY <1>1, <1>2, Zenon DEF ProcInv, PidInv, PidUnique, RefInv, Listed, pidVars, treeVars, exitVars
<1>4. OneOwner' /\ ParentIsOwner'
    BY <1>1, <1>2, Zenon DEF ProcInv, OneOwner, ParentIsOwner, Listed, treeVars, exitVars
<1>5. ExitInv' /\ HeldInv'
    BY <1>1 DEF ProcInv, ExitInv, HeldInv, Zombie, exitVars
<1>6. WaitInv'
    BY <1>1, Zenon DEF ProcInv, WaitInv, treeVars, waitVars, exitVars
<1>7. NoLostChildExit'
    BY <1>1 DEF ProcInv, NoLostChildExit, Asleep, Proper, Zombie, ToNotify, treeVars, pidVars, waitVars,
                exitVars
<1> QED BY <1>3, <1>4, <1>5, <1>6, <1>7, Zenon DEF ProcInv

\* The orphans move to init's list, their parent with them.
LEMMA AdoptStep ==
    ASSUME ProcInv, TypeOK', panicked = "no", NEW p \in Procs, Adopt(p)
    PROVE  ProcInv'
<1> USE ProcessAssumption
<1>1. /\ p # InitProc
      /\ pc \in [Procs -> ProcPc] /\ pc[p] = "adopt" /\ pc' = [pc EXCEPT ![p] = "notify"]
      /\ parent' = [c \in Procs |-> IF c \in orphans[p] THEN InitProc ELSE parent[c]]
      /\ children \in [Procs -> SUBSET Procs]
      /\ children' = [children EXCEPT ![InitProc] = children[InitProc] \cup orphans[p]]
      /\ orphans \in [Procs -> SUBSET Procs] /\ orphans' = [orphans EXCEPT ![p] = {}]
      /\ UNCHANGED <<pstat, manager, pidVars, waitVars, held, exParent, panicked>>
    BY Zenon DEF Adopt, Goto, ProcInv, TypeOK, sysVars
<1>2. Allocated' = Allocated /\ \A q \in Procs : Alive(q)' <=> Alive(q)
    BY <1>1, Zenon DEF Allocated, Alive
<1>3. \A q, c \in Procs :
        Listed(q, c)' <=> \/ q = p /\ c \in children[p]
                          \/ q # p /\ Listed(q, c)
                          \/ q = InitProc /\ c \in orphans[p]
    BY <1>1, Zenon DEF Listed
<1>4. \A q, c \in Procs : c \in orphans[p] /\ Listed(q, c) => q = p /\ c \notin children[p]
    BY Zenon DEF ProcInv, OneOwner, RefInv, Listed
<1>5. PidInv'
    BY <1>1, <1>2, Zenon DEF ProcInv, PidInv, PidUnique, pidVars
<1>6. RefInv'
  <2>1. InitProc \in Allocated /\ orphans[p] \subseteq Allocated /\ ~ Listed(p, InitProc)
      BY Zenon DEF ProcInv, RefInv
  <2>2. \A q \in Procs : ~ Listed(q, InitProc)'
      BY <1>3, <2>1, Zenon DEF ProcInv, RefInv, Listed
  <2> QED BY <1>1, <1>2, <2>1, <2>2 DEF ProcInv, RefInv
<1>7. OneOwner'
  <2> SUFFICES ASSUME NEW c \in Procs \ {InitProc}
               PROVE  /\ c \in manager' <=> \E q \in Procs : Listed(q, c)'
                      /\ \A q, r \in Procs : Listed(q, c)' /\ Listed(r, c)' => q = r
                      /\ \A q \in Procs : ~(c \in children'[q] /\ c \in orphans'[q])
      BY Zenon DEF OneOwner
  <2>1. CASE c \in orphans[p]
    <3>a. Listed(p, c)
        BY <2>1, Zenon DEF Listed
    <3>1. \A q \in Procs : Listed(q, c)' <=> q = InitProc
        BY <1>1, <1>3, <1>4, <2>1, <3>a, Zenon
    <3>2. c \in manager'
        BY <1>1, <2>1, Zenon DEF ProcInv, OneOwner, Listed
    <3>3. \A q \in Procs : c \notin orphans'[q]
        BY <1>1, <1>4, <2>1, Zenon DEF Listed
    <3> QED BY <3>1, <3>2, <3>3, Zenon
  <2>2. CASE c \notin orphans[p]
    <3>1. \A q \in Procs : Listed(q, c)' <=> Listed(q, c)
        BY <1>3, <2>2, Zenon DEF Listed
    <3>2. \A q \in Procs : ~(c \in children'[q] /\ c \in orphans'[q])
        BY <1>1, <2>2, Zenon DEF ProcInv, OneOwner
    <3> QED BY <1>1, <3>1, <3>2, Zenon DEF ProcInv, OneOwner
  <2> QED BY <2>1, <2>2, Zenon
<1>8. ParentIsOwner'
    BY <1>1, <1>2, <1>3, Zenon DEF ProcInv, ParentIsOwner, Listed
<1>9. ExitInv' /\ HeldInv'
    BY <1>1 DEF ProcInv, ExitInv, HeldInv, Zombie
<1>10. WaitInv'
    BY <1>1, Zenon DEF ProcInv, WaitInv, waitVars
<1>11. NoLostChildExit'
    BY <1>1 DEF ProcInv, NoLostChildExit, Asleep, Proper, Zombie, ToNotify, pidVars, waitVars
<1> QED BY <1>5, <1>6, <1>7, <1>8, <1>9, <1>10, <1>11, Zenon DEF ProcInv

\* The parent is notified: a listener that is registered does not miss it.
LEMMA NotifyStep ==
    ASSUME ProcInv, TypeOK', panicked = "no", NEW p \in Procs, NotifyParent(p)
    PROVE  ProcInv'
<1> USE ProcessAssumption
<1>1. /\ pc \in [Procs -> ProcPc] /\ pc[p] = "notify" /\ pc' = [pc EXCEPT ![p] = "done"]
      /\ children \in [Procs -> SUBSET Procs]
      /\ listener \in [Procs -> {"none", "registered", "notified"}]
      /\ UNCHANGED <<pstat, treeVars, pidVars, want, held, exitVars, panicked>>
    BY Zenon DEF NotifyParent, Goto, ProcInv, TypeOK, sysVars
<1>2. Allocated' = Allocated /\ \A q \in Procs : Alive(q)' <=> Alive(q)
    BY <1>1, Zenon DEF Allocated, Alive
<1>3. \A q \in Procs :
        /\ listener'[q] = "none" <=> listener[q] = "none"
        /\ listener[q] = "notified" => listener'[q] = "notified"
        /\ exParent[p] = q /\ listener[q] # "none" => listener'[q] = "notified"
    BY <1>1, Zenon DEF NotifyParent
<1>4. PidInv' /\ RefInv'
    BY <1>1, <1>2, Zenon DEF ProcInv, PidInv, PidUnique, RefInv, Listed, pidVars, treeVars, exitVars
<1>5. OneOwner' /\ ParentIsOwner'
    BY <1>1, <1>2, Zenon DEF ProcInv, OneOwner, ParentIsOwner, Listed, treeVars, exitVars
<1>6. ExitInv' /\ HeldInv'
    BY <1>1 DEF ProcInv, ExitInv, HeldInv, Zombie, exitVars
<1>7. WaitInv'
    BY <1>1, <1>3, Zenon DEF ProcInv, WaitInv, treeVars, exitVars
<1>8. NoLostChildExit'
  <2> SUFFICES ASSUME NEW q \in Procs \ {InitProc}, NEW c \in Procs,
                      Asleep(q)', Proper(q, c)', Zombie(c)'
               PROVE  ToNotify(c, q)'
      BY Zenon DEF NoLostChildExit
  <2>1. pc[q] = "await" /\ listener[q] # "notified" /\ listener[q] # "none" /\ exParent[p] # q
      BY <1>1, <1>3, Zenon DEF Asleep, ProcInv, WaitInv
  <2>2. ToNotify(c, q)
      BY <1>1, <2>1, Zenon DEF ProcInv, NoLostChildExit, Asleep, Proper, Zombie, treeVars, pidVars
  <2> QED BY <1>1, <2>1, <2>2, Zenon DEF ToNotify, exitVars
<1> QED BY <1>4, <1>5, <1>6, <1>7, <1>8, Zenon DEF ProcInv

\* The thread is gone and drops its Arc of the former parent.
LEMMA TaskDoneStep ==
    ASSUME ProcInv, TypeOK', panicked = "no", NEW p \in Procs, TaskDone(p)
    PROVE  ProcInv'
<1> USE ProcessAssumption
<1>1. /\ pc \in [Procs -> ProcPc] /\ pc[p] = "done" /\ pc' = [pc EXCEPT ![p] = "gone"]
      /\ children \in [Procs -> SUBSET Procs]
      /\ exParent \in [Procs -> Procs \cup {None}] /\ exParent' = [exParent EXCEPT ![p] = None]
      /\ UNCHANGED <<pstat, treeVars, pidVars, waitVars, held, orphans, panicked>>
    BY Zenon DEF TaskDone, Goto, ProcInv, TypeOK, sysVars
<1>2. Allocated' = Allocated /\ \A q \in Procs : Alive(q)' <=> Alive(q)
    BY <1>1, Zenon DEF Allocated, Alive
<1>3. PidInv' /\ RefInv'
    BY <1>1, <1>2 DEF ProcInv, PidInv, PidUnique, RefInv, Listed, pidVars, treeVars
<1>4. OneOwner' /\ ParentIsOwner'
    BY <1>1, <1>2, Zenon DEF ProcInv, OneOwner, ParentIsOwner, Listed, treeVars
<1>5. ExitInv' /\ HeldInv'
    BY <1>1 DEF ProcInv, ExitInv, HeldInv, Zombie
<1>6. WaitInv'
    BY <1>1, Zenon DEF ProcInv, WaitInv, treeVars, waitVars
<1>7. NoLostChildExit'
    BY <1>1 DEF ProcInv, NoLostChildExit, Asleep, Proper, Zombie, ToNotify, treeVars, pidVars, waitVars
<1> QED BY <1>3, <1>4, <1>5, <1>6, <1>7, Zenon DEF ProcInv

\* The last Arc is released: nothing points to the object, so only its pid
\* comes back.
LEMMA DropStep ==
    ASSUME ProcInv, TypeOK', panicked = "no", NEW p \in Procs, drop(p)
    PROVE  ProcInv'
<1> USE ProcessAssumption
<1>1. /\ pc \in [Procs -> ProcPc] /\ pc[p] = "gone" /\ pc' = [pc EXCEPT ![p] = "free"]
      /\ p \notin manager
      /\ \A q \in Procs : /\ p \notin children[q] /\ p \notin orphans[q]
                          /\ p # held[q] /\ p # parent[q] /\ p # exParent[q]
    BY Zenon DEF drop, Referenced, Goto, ProcInv, TypeOK
<1>2. /\ pid \in [Procs -> Nat] /\ pid' = [pid EXCEPT ![p] = 0] /\ current \in Nat
      /\ recycled' = recycled \cup {pid[p]}
      /\ pstat \in [Procs -> {"normal", "exited", "zombie"}]
      /\ pstat' = [pstat EXCEPT ![p] = "normal"]
      /\ parent \in [Procs -> Procs \cup {None}] /\ parent' = [parent EXCEPT ![p] = None]
      /\ children \in [Procs -> SUBSET Procs]
      /\ UNCHANGED <<children, manager, current, waitVars, held, exitVars, panicked>>
    BY Zenon DEF drop, ProcInv, TypeOK, sysVars
<1>3. Allocated' = Allocated \ {p} /\ p \in Allocated /\ ~ Alive(p)'
      /\ \A q \in Procs \ {p} : Alive(q)' <=> Alive(q)
    BY <1>1, Zenon DEF Allocated, Alive
<1>4. PidInv'
  <2>1. /\ pid[p] \in 1..(current - 1) /\ recycled \subseteq 1..(current - 1) /\ current >= 1
        /\ \A q \in Allocated : /\ pid[q] \notin recycled /\ pid[q] \in 1..(current - 1)
                                /\ pid[q] = pid[p] => q = p
                                /\ \A r \in Allocated : pid[r] = pid[q] => r = q
      BY <1>3, Zenon DEF ProcInv, PidInv, PidUnique
  <2>2. \A q \in Allocated' : q \in Allocated /\ q # p /\ pid'[q] = pid[q]
      BY <1>2, <1>3, Zenon DEF Allocated
  <2>3. PidUnique'
      BY <1>2, <2>1, <2>2 DEF PidUnique
  <2>4. current' >= 1 /\ recycled' \subseteq 1..(current' - 1)
      BY <1>2, <2>1, Zenon
  <2> QED BY <2>3, <2>4, Zenon DEF PidInv
<1>5. RefInv'
    BY <1>1, <1>2, <1>3 DEF ProcInv, RefInv, Listed, exitVars
<1>6. OneOwner'
    BY <1>2, Zenon DEF ProcInv, OneOwner, Listed, exitVars
<1>7. ParentIsOwner'
    BY <1>2, <1>3, Zenon DEF ProcInv, ParentIsOwner, Listed, exitVars
<1>8. ExitInv' /\ HeldInv'
    BY <1>1, <1>2 DEF ProcInv, ExitInv, HeldInv, Zombie, exitVars
<1>9. WaitInv'
    BY <1>1, <1>2, Zenon DEF ProcInv, WaitInv, waitVars, exitVars
<1>10. NoLostChildExit'
    BY <1>1, <1>2 DEF ProcInv, NoLostChildExit, Asleep, Proper, Zombie, ToNotify, waitVars, exitVars
<1> QED BY <1>4, <1>5, <1>6, <1>7, <1>8, <1>9, <1>10, Zenon DEF ProcInv

-----------------------------------------------------------------------------
(***************************************************************************)
(* The properties                                                          *)
(***************************************************************************)
\* The boot state: init alone, in user_thread_loop.
LEMMA InitHolds == Init => ProcInv
<1> SUFFICES ASSUME Init PROVE ProcInv
    BY Zenon
<1> USE ProcessAssumption
<1>1. TypeOK
    BY Zenon DEF Init, TypeOK, ProcPc, AnyChild, WaitArgs
<1>2. Allocated = {InitProc}
    BY Zenon DEF Init, Allocated
<1>3. PidInv
    BY <1>2 DEF Init, PidInv, PidUnique
<1>4. RefInv /\ OneOwner /\ ParentIsOwner
    BY <1>2, Zenon DEF Init, RefInv, OneOwner, ParentIsOwner, Listed, Alive
<1>5. ExitInv /\ HeldInv /\ WaitInv /\ NoLostChildExit
    BY Zenon DEF Init, ExitInv, HeldInv, WaitInv, NoLostChildExit, Zombie, Proper
<1> QED BY <1>1, <1>3, <1>4, <1>5, Zenon DEF ProcInv

\* Every step keeps the invariant.
LEMMA NextHolds == ProcInv /\ [Next]_vars => ProcInv'
<1> SUFFICES ASSUME ProcInv, [Next]_vars PROVE ProcInv'
    BY Zenon
<1>1. CASE UNCHANGED vars
  <2>1. UNCHANGED <<pc, pstat, parent, children, manager, pid, current, recycled, killed, listener, want,
                    held, orphans, exParent, initProg, shutdown, panicked>>
      BY <1>1, Zenon DEF vars, treeVars, pidVars, waitVars, exitVars, sysVars
  <2>2. TypeOK' /\ PidInv' /\ RefInv' /\ OneOwner' /\ ParentIsOwner'
      BY <2>1 DEF ProcInv, TypeOK, PidInv, PidUnique, RefInv, OneOwner, ParentIsOwner, Listed, Alive,
                  Allocated
  <2>3. ExitInv' /\ HeldInv' /\ WaitInv' /\ NoLostChildExit'
      BY <2>1 DEF ProcInv, ExitInv, HeldInv, WaitInv, NoLostChildExit, Asleep, Proper, Zombie, ToNotify
  <2> QED BY <2>2, <2>3, Zenon DEF ProcInv
<1>2. CASE Next
  <2>1. panicked = "no"
      BY <1>2, Zenon DEF Next
  <2>2. CASE InitExits
    <3>1. TypeOK'
        BY <2>2, ProcessAssumption, UserTypes, Zenon DEF ProcInv
    <3> QED BY <2>1, <2>2, <3>1, InitExitsStep, Zenon
  <2>3. ASSUME NEW p \in Procs, Kernel(p)
        PROVE  ProcInv'
    <3>1. TypeOK'
        BY <2>3, KernelTypes, Zenon DEF ProcInv
    <3> QED BY <2>1, <2>3, <3>1, TrapReturnStep, SpawnStep, KillStep, WaitStep, ReapStep,
               ExitThreadStep, ZombieStep, AdoptStep, NotifyStep, TaskDoneStep, Zenon DEF Kernel
  <2>4. ASSUME NEW p \in Procs, User(p)
        PROVE  ProcInv'
    <3>1. TypeOK'
        BY <2>4, UserTypes, Zenon DEF ProcInv
    <3> QED BY <2>1, <2>4, <3>1, TrapStep, ForkStep, KillStep, WaitStep, Zenon DEF User
  <2>5. ASSUME NEW p \in Procs, drop(p)
        PROVE  ProcInv'
    <3>1. TypeOK'
        BY <2>5, UserTypes, Zenon DEF ProcInv
    <3> QED BY <2>1, <2>5, <3>1, DropStep, Zenon
  <2> QED BY <1>2, <2>2, <2>3, <2>4, <2>5, Zenon DEF Next
<1> QED BY <1>1, <1>2, Zenon

\* The invariant holds in every reachable state.
THEOREM ProcInvariant == Spec => []ProcInv
BY InitHolds, NextHolds, PTL DEF Spec

\* Every variable of the process model has its type in every reachable state.
THEOREM ProcessTypes == Spec => []TypeOK
<1>1. ProcInv => TypeOK
    BY Zenon DEF ProcInv
<1> QED BY <1>1, ProcInvariant, PTL

\* No two existing processes share a pid, and no pid in use is handed out
\* again, whatever forks, exits, reaps and kills interleave.
THEOREM PidsUnique == Spec => []PidUnique
<1>1. ProcInv => PidUnique
    BY Zenon DEF ProcInv, PidInv
<1> QED BY <1>1, ProcInvariant, PTL

\* Every registered process but init is in exactly one list, of children or
\* of orphans, and every process in a list is registered: fork, exit, the
\* hand-over to init and the reap lose nobody.
THEOREM OneOwnerEach == Spec => []OneOwner
<1>1. ProcInv => OneOwner
    BY Zenon DEF ProcInv
<1> QED BY <1>1, ProcInvariant, PTL

\* The parent of a process that runs is the process that has it in its list.
THEOREM ParentsOwn == Spec => []ParentIsOwner
<1>1. ProcInv => ParentIsOwner
    BY Zenon DEF ProcInv
<1> QED BY <1>1, ProcInvariant, PTL

\* A process that sleeps in sys_wait4 misses the exit of no child.
THEOREM ChildExitsSeen == Spec => []NoLostChildExit
<1>1. ProcInv => NoLostChildExit
    BY Zenon DEF ProcInv
<1> QED BY <1>1, ProcInvariant, PTL
=============================================================================
