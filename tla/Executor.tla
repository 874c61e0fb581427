------------------------------ MODULE Executor ------------------------------
(***************************************************************************)
(* The cooperative scheduler of the kernel: the global TASK_QUEUE of       *)
(* crates/utils/executor, the async_task state bits behind every Runnable, *)
(* the ThreadStatus and page-table switch that UserThreadWrapperFuture     *)
(* (crates/kernel/src/glue.rs) wraps around every poll, and the TIMERS     *)
(* heap whose wakers fire from the timer interrupt of any hart.            *)
(*                                                                         *)
(* One task is one user thread.  A hart is either executing its loop       *)
(* (hpc/cur) or, on top of it, the schedule closure of a wake it performs  *)
(* (fpc/frame): a wake may come from the code the hart is polling or from  *)
(* an interrupt taken at any of the loop's steps.                          *)
(***************************************************************************)
EXTENDS Naturals, Sequences, FiniteSets

CONSTANTS Harts,      \* the harts that entered kernel_loop
          Tasks,      \* every user thread the system ever spawns
          InitTask,   \* the thread of the init process
          TaskLimit,  \* TASK_LIMIT, the capacity of the ArrayQueue
          MaxTime,    \* bound on the millisecond clock
          None        \* no task / the kernel's own address space

ASSUME ExecutorAssumption ==
    /\ InitTask \in Tasks
    /\ None \notin Tasks
    /\ MaxTime \in Nat

\* The executor's documented hard limit: no more threads than TASK_LIMIT.
ASSUME TaskLimitAssumption ==
    /\ IsFiniteSet(Tasks)
    /\ TaskLimit \in Nat
    /\ Cardinality(Tasks) <= TaskLimit

VARIABLES
    queue,      \* TASK_QUEUE: the runnables waiting to be fetched
    scheduled,  \* tasks whose async_task state has SCHEDULED set
    running,    \* tasks whose async_task state has RUNNING set
    completed,  \* tasks whose async_task state has COMPLETED set
    status,     \* Thread::status, or "Unborn" before the thread exists
    hpc,        \* where each hart is in run_until_shutdown / Runnable::run
    cur,        \* the task each hart holds
    fpc, frame, \* the schedule closure a hart is inside of, and its task
    satp,       \* the address space active on each hart (None: the kernel's)
    reaped,     \* threads whose process was removed by sys_wait4
    shutdown,   \* SHUTDOWN
    now,        \* riscv_time::get_time_ms()
    timers,     \* TIMERS
    expire,     \* expire_ms of the TimerFuture a task awaits, 0 if none
    signalled   \* tasks whose event happened and that have not looked yet

taskVars == <<queue, scheduled, running, completed, status>>
hartVars == <<hpc, cur, fpc, frame, satp>>
timeVars == <<now, timers, expire>>
vars == <<taskVars, hartVars, timeVars, reaped, shutdown, signalled>>

HartPc == {"fetch", "check", "suspend", "run", "enter", "poll", "leave",
           "finish", "off", "panic"}

ThreadStatus == {"Unborn", "Ready", "Running", "Blocking", "Terminated"}

Timer == [expire_ms : Nat, task : Tasks]

\* A hart that still takes interrupts and is not inside a schedule closure.
Free(h) == hpc[h] \notin {"off", "panic"} /\ fpc[h] = "none"

Init ==
    /\ queue = <<InitTask>>
    /\ scheduled = {InitTask}
    /\ running = {}
    /\ completed = {}
    /\ status = [t \in Tasks |-> IF t = InitTask THEN "Ready" ELSE "Unborn"]
    /\ hpc = [h \in Harts |-> "fetch"]
    /\ cur = [h \in Harts |-> None]
    /\ fpc = [h \in Harts |-> "none"]
    /\ frame = [h \in Harts |-> None]
    /\ satp = [h \in Harts |-> None]
    /\ reaped = {}
    /\ shutdown = FALSE
    /\ now = 0
    /\ timers = {}
    /\ expire = [t \in Tasks |-> 0]
    /\ signalled = {}

(***************************************************************************)
(* The schedule closure: action(), then push_task.                         *)
(***************************************************************************)
\* Hart h starts the schedule closure of task t.
EnterSchedule(h, t) ==
    /\ fpc' = [fpc EXCEPT ![h] = "action"]
    /\ frame' = [frame EXCEPT ![h] = t]

\* Mutant: the closure of spawn_user_thread does not set the status.
ScheduleActionNoReady(h) ==
    /\ fpc[h] = "action"
    /\ fpc' = [fpc EXCEPT ![h] = "push"]
    /\ UNCHANGED <<taskVars, hpc, cur, frame, satp,
                   timeVars, reaped, shutdown, signalled>>

\* action(): thread.set_status(Ready).
ScheduleAction(h) ==
    /\ fpc[h] = "action"
    /\ status' = [status EXCEPT ![frame[h]] = "Ready"]
    /\ fpc' = [fpc EXCEPT ![h] = "push"]
    /\ UNCHANGED <<queue, scheduled, running, completed, hpc, cur, frame, satp,
                   timeVars, reaped, shutdown, signalled>>

\* push_task: a full ArrayQueue refuses the runnable and expect() panics.
push_task(h) ==
    /\ fpc[h] = "push"
    /\ IF Len(queue) < TaskLimit
         THEN queue' = Append(queue, frame[h]) /\ UNCHANGED hpc
         ELSE hpc' = [hpc EXCEPT ![h] = "panic"] /\ UNCHANGED queue
    /\ fpc' = [fpc EXCEPT ![h] = "none"]
    /\ frame' = [frame EXCEPT ![h] = None]
    /\ UNCHANGED <<scheduled, running, completed, status, cur, satp,
                   timeVars, reaped, shutdown, signalled>>

(***************************************************************************)
(* Waker::wake.  A task that is already scheduled or completed is left     *)
(* alone; one being polled is only marked, Runnable::run reschedules it.   *)
(***************************************************************************)
\* Mutant: the wake of a task being polled is dropped.
WakeTaskDropsPolled(h, t) ==
    /\ signalled' = IF t \in completed THEN signalled ELSE signalled \cup {t}
    /\ IF t \in scheduled \cup completed \cup running
         THEN UNCHANGED <<scheduled, fpc, frame>>
         ELSE scheduled' = scheduled \cup {t} /\ EnterSchedule(h, t)

\* Mutant: a task being polled is scheduled at once.
WakeTaskIgnoresRunning(h, t) ==
    /\ signalled' = IF t \in completed THEN signalled ELSE signalled \cup {t}
    /\ IF t \in scheduled \cup completed
         THEN UNCHANGED <<scheduled, fpc, frame>>
         ELSE scheduled' = scheduled \cup {t} /\ EnterSchedule(h, t)

WakeTask(h, t) ==
    /\ signalled' = IF t \in completed THEN signalled ELSE signalled \cup {t}
    /\ IF t \in scheduled \cup completed
         THEN UNCHANGED <<scheduled, fpc, frame>>
         ELSE /\ scheduled' = scheduled \cup {t}
              /\ IF t \in running
                   THEN UNCHANGED <<fpc, frame>>
                   ELSE EnterSchedule(h, t)

\* An event t waits for happens on hart h: a notify, a message or the UART's
\* interrupt.  Wakers outlive the wait they were cloned for, so a late or a
\* spurious wake of any spawned task is possible.
Wake(h, t) ==
    /\ Free(h)
    /\ status[t] # "Unborn"
    /\ WakeTask(h, t)
    /\ UNCHANGED <<queue, running, completed, status, hpc, cur, satp,
                   timeVars, reaped, shutdown>>

\* One turn of check_timer's loop, in the timer interrupt of hart h.
check_timer(h) ==
    /\ Free(h)
    /\ \E tm \in timers :
         /\ now >= tm.expire_ms
         /\ timers' = timers \ {tm}
         /\ WakeTask(h, tm.task)
    /\ UNCHANGED <<queue, running, completed, status, hpc, cur, satp,
                   now, expire, reaped, shutdown>>

Tick ==
    /\ now < MaxTime
    /\ now' = now + 1
    /\ UNCHANGED <<taskVars, hartVars, timers, expire, reaped, shutdown, signalled>>

(***************************************************************************)
(* run_until_shutdown                                                      *)
(***************************************************************************)
\* Mutant: the head of the queue is read but not removed.
fetch_taskPeeks(h) ==
    /\ hpc[h] = "fetch" /\ fpc[h] = "none"
    /\ IF queue # <<>>
         THEN /\ cur' = [cur EXCEPT ![h] = Head(queue)]
              /\ hpc' = [hpc EXCEPT ![h] = "run"]
         ELSE hpc' = [hpc EXCEPT ![h] = "check"] /\ UNCHANGED cur
    /\ UNCHANGED <<taskVars, fpc, frame, satp, timeVars, reaped, shutdown, signalled>>

fetch_task(h) ==
    /\ hpc[h] = "fetch" /\ fpc[h] = "none"
    /\ IF queue # <<>>
         THEN /\ cur' = [cur EXCEPT ![h] = Head(queue)]
              /\ queue' = Tail(queue)
              /\ hpc' = [hpc EXCEPT ![h] = "run"]
         ELSE /\ hpc' = [hpc EXCEPT ![h] = "check"]
              /\ UNCHANGED <<cur, queue>>
    /\ UNCHANGED <<scheduled, running, completed, status, fpc, frame, satp,
                   timeVars, reaped, shutdown, signalled>>

CheckShutdown(h) ==
    /\ hpc[h] = "check" /\ fpc[h] = "none"
    /\ hpc' = [hpc EXCEPT ![h] = IF shutdown THEN "off" ELSE "suspend"]
    /\ UNCHANGED <<taskVars, cur, fpc, frame, satp, timeVars, reaped, shutdown, signalled>>

\* hart_suspend returns at the next interrupt; every hart has a timer armed.
Resume(h) ==
    /\ hpc[h] = "suspend" /\ fpc[h] = "none"
    /\ hpc' = [hpc EXCEPT ![h] = "fetch"]
    /\ UNCHANGED <<taskVars, cur, fpc, frame, satp, timeVars, reaped, shutdown, signalled>>

(***************************************************************************)
(* Runnable::run around UserThreadWrapperFuture::poll                      *)
(***************************************************************************)
\* run() trades SCHEDULED for RUNNING before it polls.
RunBegin(h) ==
    /\ hpc[h] = "run" /\ fpc[h] = "none"
    /\ scheduled' = scheduled \ {cur[h]}
    /\ running' = running \cup {cur[h]}
    /\ hpc' = [hpc EXCEPT ![h] = "enter"]
    /\ UNCHANGED <<queue, completed, status, cur, fpc, frame, satp,
                   timeVars, reaped, shutdown, signalled>>

\* The wrapper installs thread and page table and swaps the status; anything
\* but Ready is the panic "Run unready".  From here the inner future sees
\* every event that has happened.
PollEnter(h) ==
    /\ hpc[h] = "enter" /\ fpc[h] = "none"
    /\ satp' = [satp EXCEPT ![h] = cur[h]]
    /\ status' = [status EXCEPT ![cur[h]] = "Running"]
    /\ hpc' = [hpc EXCEPT ![h] = IF status[cur[h]] = "Ready" THEN "poll" ELSE "panic"]
    /\ signalled' = signalled \ {cur[h]}
    /\ UNCHANGED <<queue, scheduled, running, completed, cur, fpc, frame,
                   timeVars, reaped, shutdown>>

\* The inner future is running and no TimerFuture is being awaited.
Polling(h) == hpc[h] = "poll" /\ fpc[h] = "none" /\ expire[cur[h]] = 0

\* spawn_user_thread, called by sys_clone in the task hart h polls.
Spawn(h, t) ==
    /\ Polling(h)
    /\ status[t] = "Unborn"
    /\ status' = [status EXCEPT ![t] = "Ready"]
    /\ scheduled' = scheduled \cup {t}
    /\ EnterSchedule(h, t)
    /\ UNCHANGED <<queue, running, completed, hpc, cur, satp,
                   timeVars, reaped, shutdown, signalled>>

\* sys_wait4 of the task hart h polls removes the process of thread t.
Reap(h, t) ==
    /\ Polling(h)
    /\ status[t] = "Terminated" /\ t \notin reaped /\ t # cur[h]
    /\ reaped' = reaped \cup {t}
    /\ UNCHANGED <<taskVars, hartVars, timeVars, shutdown, signalled>>

\* The inner future returned Pending: Blocking, unless it is Ready again.
ReturnPending(h) ==
    /\ status' = IF status[cur[h]] # "Ready"
                   THEN [status EXCEPT ![cur[h]] = "Blocking"]
                   ELSE status
    /\ hpc' = [hpc EXCEPT ![h] = "leave"]

\* The future waits for an event it has left its waker with.
Block(h) ==
    /\ Polling(h)
    /\ ReturnPending(h)
    /\ UNCHANGED <<queue, scheduled, running, completed, cur, fpc, frame, satp,
                   timeVars, reaped, shutdown, signalled>>

\* YieldFuture::poll wakes its own task, which is running, and is Pending.
yield_now(h) ==
    /\ Polling(h)
    /\ WakeTask(h, cur[h])
    /\ ReturnPending(h)
    /\ UNCHANGED <<queue, running, completed, cur, satp, timeVars, reaped, shutdown>>

\* Mutant: timer_activated is set but the timer is not pushed.
sleepNoTimer(h, d) ==
    /\ Polling(h)
    /\ now + d <= MaxTime
    /\ now + d > now
    /\ expire' = [expire EXCEPT ![cur[h]] = now + d]
    /\ ReturnPending(h)
    /\ UNCHANGED <<queue, scheduled, running, completed, cur, fpc, frame, satp,
                   now, timers, reaped, shutdown, signalled>>

\* Mutant: the deadline is one millisecond late.
sleepLate(h, d) ==
    /\ Polling(h)
    /\ now + d <= MaxTime
    /\ now + d > now
    /\ expire' = [expire EXCEPT ![cur[h]] = now + d + 1]
    /\ timers' = timers \cup {[expire_ms |-> now + d + 1, task |-> cur[h]]}
    /\ ReturnPending(h)
    /\ UNCHANGED <<queue, scheduled, running, completed, cur, fpc, frame, satp,
                   now, reaped, shutdown, signalled>>

\* sleep(d) and the first poll of its TimerFuture.
sleep(h, d) ==
    /\ Polling(h)
    /\ now + d <= MaxTime
    /\ now + d > now
    /\ expire' = [expire EXCEPT ![cur[h]] = now + d]
    /\ timers' = timers \cup {[expire_ms |-> now + d, task |-> cur[h]]}
    /\ ReturnPending(h)
    /\ UNCHANGED <<queue, scheduled, running, completed, cur, fpc, frame, satp,
                   now, reaped, shutdown, signalled>>

\* Mutant: expire_ms >= get_time_ms().
TimerPollAtExpiry(h) ==
    /\ hpc[h] = "poll" /\ fpc[h] = "none" /\ expire[cur[h]] # 0
    /\ IF expire[cur[h]] >= now
         THEN ReturnPending(h) /\ UNCHANGED expire
         ELSE expire' = [expire EXCEPT ![cur[h]] = 0] /\ UNCHANGED <<status, hpc>>
    /\ UNCHANGED <<queue, scheduled, running, completed, cur, fpc, frame, satp,
                   now, timers, reaped, shutdown, signalled>>

\* A later poll of the TimerFuture: its timer is not pushed a second time.
TimerPoll(h) ==
    /\ hpc[h] = "poll" /\ fpc[h] = "none" /\ expire[cur[h]] # 0
    /\ IF expire[cur[h]] > now
         THEN ReturnPending(h) /\ UNCHANGED expire
         ELSE expire' = [expire EXCEPT ![cur[h]] = 0] /\ UNCHANGED <<status, hpc>>
    /\ UNCHANGED <<queue, scheduled, running, completed, cur, fpc, frame, satp,
                   now, timers, reaped, shutdown, signalled>>

\* user_thread_loop ended: exit_thread.  The exit of init sets SHUTDOWN.
PollReady(h) ==
    /\ Polling(h)
    /\ status' = [status EXCEPT ![cur[h]] = "Terminated"]
    /\ shutdown' = (shutdown \/ cur[h] = InitTask)
    /\ hpc' = [hpc EXCEPT ![h] = "leave"]
    /\ UNCHANGED <<queue, scheduled, running, completed, cur, fpc, frame, satp,
                   timeVars, reaped, signalled>>

\* Mutant: activate_no_tlb is left out.
LeaveKeepsPageTable(h) ==
    /\ hpc[h] = "leave" /\ fpc[h] = "none"
    /\ hpc' = [hpc EXCEPT ![h] = "finish"]
    /\ UNCHANGED <<taskVars, cur, fpc, frame, satp, timeVars, reaped, shutdown, signalled>>

\* The wrapper switches back to KERNEL_SPACE and returns to Runnable::run.
Leave(h) ==
    /\ hpc[h] = "leave" /\ fpc[h] = "none"
    /\ satp' = [satp EXCEPT ![h] = None]
    /\ hpc' = [hpc EXCEPT ![h] = "finish"]
    /\ UNCHANGED <<taskVars, cur, fpc, frame, timeVars, reaped, shutdown, signalled>>

\* run() drops a future that is Ready, and with it the thread.
Complete(h) ==
    /\ hpc[h] = "finish" /\ fpc[h] = "none"
    /\ status[cur[h]] = "Terminated"
    /\ running' = running \ {cur[h]}
    /\ scheduled' = scheduled \ {cur[h]}
    /\ completed' = completed \cup {cur[h]}
    /\ signalled' = signalled \ {cur[h]}
    /\ hpc' = [hpc EXCEPT ![h] = "fetch"]
    /\ cur' = [cur EXCEPT ![h] = None]
    /\ UNCHANGED <<queue, status, fpc, frame, satp, timeVars, reaped, shutdown>>

\* Mutant: a task woken during its poll is not rescheduled.
DescheduleForgets(h) ==
    /\ hpc[h] = "finish" /\ fpc[h] = "none"
    /\ status[cur[h]] # "Terminated"
    /\ running' = running \ {cur[h]}
    /\ hpc' = [hpc EXCEPT ![h] = "fetch"]
    /\ cur' = [cur EXCEPT ![h] = None]
    /\ UNCHANGED <<queue, scheduled, completed, status, fpc, frame, satp,
                   timeVars, reaped, shutdown, signalled>>

\* run() clears RUNNING; a task woken during its poll is rescheduled here.
Deschedule(h) ==
    /\ hpc[h] = "finish" /\ fpc[h] = "none"
    /\ status[cur[h]] # "Terminated"
    /\ running' = running \ {cur[h]}
    /\ IF cur[h] \in scheduled
         THEN EnterSchedule(h, cur[h])
         ELSE UNCHANGED <<fpc, frame>>
    /\ hpc' = [hpc EXCEPT ![h] = "fetch"]
    /\ cur' = [cur EXCEPT ![h] = None]
    /\ UNCHANGED <<queue, scheduled, completed, status, satp,
                   timeVars, reaped, shutdown, signalled>>

Loop(h) ==
    \/ fetch_task(h) \/ CheckShutdown(h) \/ Resume(h)
    \/ RunBegin(h) \/ PollEnter(h) \/ TimerPoll(h)
    \/ \E t \in Tasks : Spawn(h, t) \/ Reap(h, t)
    \/ Block(h) \/ yield_now(h) \/ PollReady(h)
    \/ \E d \in 0..MaxTime : sleep(h, d)
    \/ Leave(h) \/ Complete(h) \/ Deschedule(h)

Schedule(h) == ScheduleAction(h) \/ push_task(h)

Next ==
    \/ \E h \in Harts : Loop(h) \/ Schedule(h) \/ check_timer(h)
    \/ \E h \in Harts, t \in Tasks : Wake(h, t)
    \/ Tick

Spec == Init /\ [][Next]_vars

\* Every hart keeps executing: its loop (which interrupts delay but cannot
\* starve), the closures it is inside of, and the timer interrupt it re-arms
\* in every handler.  A poll always returns: user code is cut off by the
\* timer and kernel code between two awaits is finite.
Fairness ==
    /\ \A h \in Harts : SF_vars(Loop(h)) /\ WF_vars(Schedule(h))
    /\ SF_vars(\E h \in Harts : check_timer(h))
    /\ WF_vars(Tick)

FairSpec == Spec /\ Fairness

-----------------------------------------------------------------------------
\* Every variable has its type.
TypeOK ==
    /\ queue \in Seq(Tasks)
    /\ scheduled \subseteq Tasks
    /\ running \subseteq Tasks
    /\ completed \subseteq Tasks
    /\ status \in [Tasks -> ThreadStatus]
    /\ hpc \in [Harts -> HartPc]
    /\ cur \in [Harts -> Tasks \cup {None}]
    /\ fpc \in [Harts -> {"none", "action", "push"}]
    /\ frame \in [Harts -> Tasks \cup {None}]
    /\ satp \in [Harts -> Tasks \cup {None}]
    /\ reaped \subseteq Tasks
    /\ shutdown \in BOOLEAN
    /\ now \in 0..MaxTime
    /\ timers \subseteq Timer
    /\ expire \in [Tasks -> 0..MaxTime]
    /\ signalled \subseteq Tasks

\* Neither panic of the scheduler is reachable: the wrapper never polls a
\* thread that is not Ready ("Run unready", glue.rs) and, with no more tasks
\* than TASK_LIMIT, the queue is never full when push_task runs.
NoPanic == \A h \in Harts : hpc[h] # "panic"

\* A runnable for t is in the queue at i, in the schedule closure of hart h, or
\* fetched by hart h and not yet run.
QueuedAt(t, i) == i \in 1..Len(queue) /\ queue[i] = t
Scheduling(t, h) == fpc[h] # "none" /\ frame[h] = t
Fetched(t, h) == hpc[h] = "run" /\ cur[h] = t
Holders(t) ==
    {<<"queue", i>> : i \in {j \in 1..Len(queue) : QueuedAt(t, j)}}
      \cup {<<"closure", h>> : h \in {k \in Harts : Scheduling(t, k)}}
      \cup {<<"fetched", h>> : h \in {k \in Harts : Fetched(t, k)}}

\* A task has exactly one runnable while it is scheduled and not being polled,
\* and none otherwise: no wake, yield, timer or fetch duplicates or loses one.
RunnableUnique ==
    \A t \in Tasks :
        Cardinality(Holders(t)) = IF t \in scheduled \ running THEN 1 ELSE 0

\* No two harts poll the same thread, and a hart in the wrapper is marked RUNNING.
InWrapper(h) == hpc[h] \in {"enter", "poll", "leave", "finish"}
PolledOnce ==
    \A h \in Harts : InWrapper(h) =>
        /\ cur[h] \in running
        /\ \A k \in Harts \ {h} : InWrapper(k) => cur[k] # cur[h]

\* A wake that comes at any step of the loop is not lost: until the task is
\* polled again it stays scheduled or is just being entered.
NoLostWakeup ==
    \A t \in signalled :
        t \in scheduled \/ \E h \in Harts : hpc[h] = "enter" /\ cur[h] = t

\* A thread that sleeps has its timer in TIMERS, or the timer has fired and the
\* poll that will find it expired is still to come or under way.
TimerKept ==
    \A t \in Tasks : (expire[t] # 0) =>
        \/ [expire_ms |-> expire[t], task |-> t] \in timers
        \/ expire[t] <= now /\ t \in signalled
        \/ expire[t] <= now /\ \E h \in Harts : hpc[h] = "poll" /\ cur[h] = t

\* No hart keeps a page table active whose process may be freed: the task's
\* future is dropped and sys_wait4 has removed the process (glue.rs:118).
AddressSpaceAlive ==
    \A h \in Harts : satp[h] # None => ~(satp[h] \in completed /\ satp[h] \in reaped)

\* Terminated is final: no late wake makes an exited thread Ready again.
TerminatedIsFinal ==
    [][\A t \in Tasks : status[t] = "Terminated" => status'[t] = "Terminated"]_vars

\* The state of a task as its async_task bits show it.
TaskState ==
    [t \in Tasks |-> IF status[t] = "Unborn" THEN "unborn"
                     ELSE IF t \in completed THEN "done"
                     ELSE IF t \in running THEN "polling"
                     ELSE IF t \in scheduled THEN "ready"
                     ELSE "blocked"]

Promise == INSTANCE TaskPromise
             WITH tstate <- TaskState, again <- scheduled \cap running

\* The executor implements TaskPromise: wakes, timers, yields and reschedules
\* on any number of harts give every task the life cycle promised to it.
ImplementsPromise == Promise!Spec

\* Every woken task is polled again unless the system shuts down.
WokenIsPolled ==
    \A t \in Tasks : (t \in signalled) ~> (t \notin signalled \/ shutdown)

\* Every sleep ends unless the system shuts down.
SleepEnds ==
    \A t \in Tasks : (expire[t] # 0) ~> (expire[t] = 0 \/ shutdown)
=============================================================================
