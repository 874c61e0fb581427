--------------------------- MODULE ExecutorProofs ---------------------------
(***************************************************************************)
(* The safety properties of Executor, and that it implements TaskPromise,  *)
(* for any number of harts and any set of tasks within TASK_LIMIT.         *)
(***************************************************************************)
EXTENDS ExecutorInv, FiniteSetTheorems, TLAPS

-----------------------------------------------------------------------------
(***************************************************************************)
(* Scheduling and waking: the schedule closure, Waker::wake, the timers    *)
(***************************************************************************)
\* push_task moves a task from a closure's frame to the end of the queue.
LEMMA push_taskStep ==
    ASSUME IndInv, NEW h \in Harts, push_task(h), Len(queue) < TaskLimit
    PROVE  IndInv'
<1> USE DEF IndInv
<1>1. queue \in Seq(Tasks) /\ frame[h] \in Tasks /\ fpc[h] # "none"
  BY Zenon DEF push_task, TypeOK, HartInv
<1>2. queue' = Append(queue, frame[h]) /\ UNCHANGED hpc
  BY Zenon DEF push_task
<1>3. /\ queue' \in Seq(Tasks)
      /\ Len(queue') = Len(queue) + 1
      /\ queue'[Len(queue) + 1] = frame[h]
      /\ \A i \in 1..Len(queue) : queue'[i] = queue[i]
  BY <1>1, <1>2, SMTT(30)
<1>4. /\ fpc' = [fpc EXCEPT ![h] = "none"]
      /\ frame' = [frame EXCEPT ![h] = None]
      /\ UNCHANGED <<scheduled, running, completed, status, cur, satp>>
      /\ UNCHANGED <<now, timers, expire, reaped, shutdown, signalled>>
  BY Zenon DEF push_task, timeVars
<1> USE <1>1, <1>2, <1>4
<1>5. TypeOK'
  BY <1>3, Zenon DEF TypeOK
<1>6. NoPanic'
  BY Zenon DEF NoPanic
<1>7. HartInv'
  BY Zenon DEF HartInv, InWrapper, TypeOK
<1>8. QueueInv'
  BY ExecutorAssumption, <1>3, SMTT(30) DEF QueueInv, FrameInv, push_task
<1>9. FrameInv'
  <2> SUFFICES ASSUME NEW k \in Harts, fpc'[k] # "none"
               PROVE  /\ frame'[k] \in scheduled \ running
                      /\ \A i \in 1..Len(queue') : queue'[i] # frame'[k]
                      /\ \A j \in Harts : frame'[j] = frame'[k] => j = k
                      /\ fpc'[k] = "push" => status[frame'[k]] = "Ready"
    BY Zenon DEF FrameInv
  <2>1. k # h /\ fpc'[k] = fpc[k] /\ frame'[k] = frame[k] /\ frame[k] # frame[h]
    BY Zenon DEF TypeOK, FrameInv
  <2>2. \A i \in 1..Len(queue') : queue'[i] # frame[k]
    BY <1>3, <2>1, SMTT(30) DEF FrameInv
  <2>3. \A j \in Harts : frame'[j] = frame[k] => j = k
    BY <2>1, Zenon DEF FrameInv, HartInv, TypeOK
  <2> QED BY <2>1, <2>2, <2>3, Zenon DEF FrameInv
<1>10. FetchInv'
  <2> SUFFICES ASSUME NEW k \in Harts, hpc[k] = "run"
               PROVE  /\ cur[k] \in scheduled \ running
                      /\ status[cur[k]] = "Ready"
                      /\ \A i \in 1..Len(queue') : queue'[i] # cur[k]
                      /\ \A j \in Harts : frame'[j] # cur[k]
                      /\ \A j \in Harts : hpc[j] = "run" /\ cur[j] = cur[k] => j = k
    BY SMTT(30) DEF FetchInv
  <2>1. frame[h] # cur[k] /\ cur[k] # None
    BY ExecutorAssumption, Zenon DEF FetchInv, TypeOK
  <2>2. \A i \in 1..Len(queue') : queue'[i] # cur[k]
    BY <1>3, <2>1, SMTT(30) DEF FetchInv
  <2>3. \A j \in Harts : frame'[j] # cur[k]
    BY <2>1, Zenon DEF FetchInv, TypeOK
  <2> QED BY <2>2, <2>3, Zenon DEF FetchInv
<1>11. WrapInv'
  BY Zenon DEF WrapInv, InWrapper
<1>12. BitsInv'
  BY Zenon DEF BitsInv
<1>13. HeldInv'
  <2> SUFFICES ASSUME NEW t \in scheduled \ running
               PROVE  \/ \E i \in 1..Len(queue') : queue'[i] = t
                      \/ \E k \in Harts : frame'[k] = t
                      \/ \E k \in Harts : hpc[k] = "run" /\ cur[k] = t
    BY Zenon DEF HeldInv
  <2>1. CASE \E i \in 1..Len(queue) : queue[i] = t
    BY <2>1, <1>3, SMTT(30)
  <2>2. CASE \E k \in Harts : frame[k] = t
    <3>1. PICK k \in Harts : frame[k] = t
      BY <2>2, Zenon
    <3>2. CASE k = h
      <4>1. Len(queue) + 1 \in 1..Len(queue') /\ queue'[Len(queue) + 1] = t
        BY <1>3, <3>1, <3>2, SMTT(30)
      <4> QED BY <4>1, Zenon
    <3>3. CASE k # h
      BY <3>1, <3>3, Zenon DEF TypeOK
    <3> QED BY <3>2, <3>3, Zenon
  <2>3. CASE \E k \in Harts : hpc[k] = "run" /\ cur[k] = t
    BY <2>3, Zenon
  <2> QED BY <2>1, <2>2, <2>3, Zenon DEF HeldInv
<1>14. NoLostWakeup' /\ TimerKept'
  BY Zenon DEF NoLostWakeup, TimerKept
<1> QED
  BY <1>5, <1>6, <1>7, <1>8, <1>9, <1>10, <1>11, <1>12, <1>13, <1>14, Zenon

\* action() makes the task of the frame Ready.
LEMMA ScheduleActionStep ==
    ASSUME IndInv, NEW h \in Harts, ScheduleAction(h)
    PROVE  IndInv'
<1> USE DEF IndInv, ScheduleAction, timeVars
<1>1. TypeOK'
  BY Zenon DEF TypeOK, HartPc, ThreadStatus, Timer, HartInv
<1>2. FrameInv'
  BY Zenon DEF FrameInv, TypeOK, HartInv
<1>3. WrapInv'
  BY SMTT(30) DEF WrapInv, InWrapper, TypeOK, HartInv, FrameInv
<1>4. BitsInv'
  BY SMTT(30) DEF BitsInv, TypeOK, HartInv, FrameInv
<1>5. NoPanic' /\ HartInv' /\ NoLostWakeup' /\ TimerKept'
  BY SMTT(30) DEF NoPanic, HartInv, InWrapper, NoLostWakeup, TimerKept
<1>6. QueueInv' /\ FetchInv' /\ HeldInv'
  BY SMTT(30) DEF QueueInv, FetchInv, HeldInv
<1> QED BY <1>1, <1>2, <1>3, <1>4, <1>5, <1>6, Zenon

\* Waker::wake keeps the types.
LEMMA WakeTaskType ==
    ASSUME TypeOK, NEW h \in Harts, NEW t \in Tasks, WakeTask(h, t)
    PROVE  /\ scheduled' \subseteq Tasks
           /\ signalled' \subseteq Tasks
           /\ fpc' \in [Harts -> {"none", "action", "push"}]
           /\ frame' \in [Harts -> Tasks \cup {None}]
<1>1. scheduled \subseteq Tasks /\ signalled \subseteq Tasks
  BY Zenon DEF TypeOK
<1>2. fpc \in [Harts -> {"none", "action", "push"}] /\ frame \in [Harts -> Tasks \cup {None}]
  BY Zenon DEF TypeOK
<1>3. scheduled' \subseteq Tasks /\ signalled' \subseteq Tasks
  BY <1>1, Zenon DEF WakeTask
<1>4. \/ UNCHANGED <<fpc, frame>>
      \/ EnterSchedule(h, t)
  BY Zenon DEF WakeTask
<1> QED
  BY <1>2, <1>3, <1>4, Zenon DEF EnterSchedule

\* A wake at any step of any hart's loop.
LEMMA WakeStep ==
    ASSUME IndInv, NEW h \in Harts, NEW t \in Tasks, Wake(h, t)
    PROVE  IndInv'
<1>1. TypeOK'
  BY WakeTaskType, Zenon DEF IndInv, Wake, TypeOK, timeVars
<1> USE DEF IndInv, Wake, taskVars, hartVars, timeVars, WakeTask, EnterSchedule, Free
<1>2. NoPanic'
  BY Zenon DEF NoPanic
<1>3. HartInv'
  BY ExecutorAssumption, Zenon DEF HartInv, InWrapper, TypeOK
<1>4. QueueInv'
  BY Zenon DEF QueueInv
<1>5. FrameInv'
  BY ExecutorAssumption, SMTT(30) DEF FrameInv, TypeOK, HartInv, QueueInv
<1>6. FetchInv'
  BY SMTT(30) DEF FetchInv, TypeOK, HartInv
<1>7. WrapInv'
  BY Zenon DEF WrapInv, InWrapper
<1>8. BitsInv'
  BY Zenon DEF BitsInv
<1>9. HeldInv'
  BY ExecutorAssumption, SMTT(30) DEF HeldInv, TypeOK, HartInv
<1>10. NoLostWakeup'
  BY Zenon DEF NoLostWakeup
<1>11. TimerKept'
  BY Zenon DEF TimerKept
<1> QED BY <1>1, <1>2, <1>3, <1>4, <1>5, <1>6, <1>7, <1>8, <1>9, <1>10, <1>11, Zenon

\* check_timer trades a timer for the wake of its task.
LEMMA check_timerStep ==
    ASSUME IndInv, NEW h \in Harts, check_timer(h)
    PROVE  IndInv'
<1> USE DEF IndInv
<1>1. PICK tm \in timers : /\ now >= tm.expire_ms
                           /\ timers' = timers \ {tm}
                           /\ WakeTask(h, tm.task)
  BY Zenon DEF check_timer
<1> DEFINE t == tm.task
<1>2. t \in Tasks /\ tm = [expire_ms |-> tm.expire_ms, task |-> t]
  BY Zenon DEF TypeOK, Timer
<1>3. /\ UNCHANGED <<queue, running, completed, status, hpc, cur, satp>>
      /\ UNCHANGED <<now, expire, reaped, shutdown>>
      /\ Free(h) /\ WakeTask(h, t)
  BY <1>1, Zenon DEF check_timer
<1> HIDE DEF t
<1> USE DEF WakeTask, EnterSchedule, Free
<1>4. TypeOK'
  <2>1. /\ scheduled' \subseteq Tasks /\ signalled' \subseteq Tasks
        /\ fpc' \in [Harts -> {"none", "action", "push"}]
        /\ frame' \in [Harts -> Tasks \cup {None}]
    BY ONLY IndInv, h \in Harts, <1>2, <1>3, WakeTaskType, Zenon DEF IndInv
  <2>2. timers' \subseteq Timer
    BY <1>1, Zenon DEF TypeOK
  <2> QED BY <1>3, <2>1, <2>2, Zenon DEF TypeOK
<1>5. NoPanic'
  BY <1>3, Zenon DEF NoPanic
<1>6. HartInv'
  BY ExecutorAssumption, <1>2, <1>3, Zenon DEF HartInv, InWrapper, TypeOK
<1>7. QueueInv'
  BY <1>2, <1>3, Zenon DEF QueueInv
<1>8. FrameInv'
  BY ExecutorAssumption, <1>2, <1>3, SMTT(30) DEF FrameInv, TypeOK, HartInv, QueueInv
<1>9. FetchInv'
  BY <1>2, <1>3, SMTT(30) DEF FetchInv, TypeOK, HartInv
<1>10. WrapInv'
  BY <1>3, Zenon DEF WrapInv, InWrapper
<1>11. BitsInv'
  BY <1>1, <1>2, <1>3, SMTT(30) DEF BitsInv, TypeOK
<1>12. HeldInv'
  <2> SUFFICES ASSUME NEW u \in scheduled' \ running'
               PROVE  \/ \E i \in 1..Len(queue) : queue[i] = u
                      \/ \E k \in Harts : frame'[k] = u
                      \/ \E k \in Harts : hpc[k] = "run" /\ cur[k] = u
    BY <1>3, Zenon DEF HeldInv
  <2>1. CASE u \in scheduled
    BY ExecutorAssumption, <2>1, <1>2, <1>3, SMTT(30) DEF HeldInv, TypeOK, HartInv
  <2>2. CASE u \notin scheduled
    <3>1. u = t /\ t \notin running /\ frame' = [frame EXCEPT ![h] = t]
      BY <2>2, <1>3, SMTT(30)
    <3> QED BY <3>1, Zenon DEF TypeOK
  <2> QED BY <2>1, <2>2, Zenon
<1>13. NoLostWakeup'
  BY <1>2, <1>3, Zenon DEF NoLostWakeup
<1>14. TimerKept'
  BY <1>1, <1>2, <1>3, SMTT(30) DEF TimerKept, TypeOK, BitsInv
<1> QED
  BY <1>4, <1>5, <1>6, <1>7, <1>8, <1>9, <1>10, <1>11, <1>12, <1>13, <1>14, Zenon

\* Time passes.
LEMMA TickStep ==
    ASSUME IndInv, Tick
    PROVE  IndInv'
<1> USE DEF IndInv, Tick, taskVars, hartVars
<1>1. TypeOK'
  BY ExecutorAssumption, SMTT(30) DEF TypeOK, HartPc, ThreadStatus, Timer
<1>2. TimerKept'
  <2> SUFFICES ASSUME NEW t \in Tasks, expire[t] # 0
               PROVE  \/ [expire_ms |-> expire[t], task |-> t] \in timers
                      \/ expire[t] <= now + 1 /\ t \in signalled
                      \/ expire[t] <= now + 1 /\ \E h \in Harts : hpc[h] = "poll" /\ cur[h] = t
    BY Zenon DEF TimerKept
  <2>1. now \in Nat /\ expire[t] \in Nat
    BY ExecutorAssumption, SMTT(30) DEF TypeOK
  <2>2. expire[t] <= now => expire[t] <= now + 1
    BY <2>1, SMTT(30)
  <2> QED BY <2>2, Zenon DEF TimerKept
<1>3. NoPanic' /\ HartInv' /\ WrapInv' /\ NoLostWakeup'
  BY SMTT(30) DEF NoPanic, HartInv, InWrapper, WrapInv, NoLostWakeup
<1>4. QueueInv' /\ FrameInv' /\ FetchInv' /\ BitsInv' /\ HeldInv'
  BY SMTT(30) DEF QueueInv, FrameInv, FetchInv, BitsInv, HeldInv
<1> QED BY <1>1, <1>2, <1>3, <1>4, Zenon

-----------------------------------------------------------------------------
(***************************************************************************)
(* The loop of run_until_shutdown, and Runnable::run around a poll         *)
(***************************************************************************)
\* fetch_task moves the head of the queue to a hart.
LEMMA fetch_taskStep ==
    ASSUME IndInv, NEW h \in Harts, fetch_task(h)
    PROVE  IndInv'
<1> USE DEF IndInv
<1>1. /\ UNCHANGED <<scheduled, running, completed, status, fpc, frame, satp>>
      /\ UNCHANGED <<now, timers, expire, reaped, shutdown, signalled>>
      /\ hpc[h] = "fetch" /\ queue \in Seq(Tasks)
  BY Zenon DEF fetch_task, timeVars, TypeOK
<1> USE <1>1
<1>2. CASE queue = <<>>
  <2>1. hpc' = [hpc EXCEPT ![h] = "check"] /\ UNCHANGED <<cur, queue>>
    BY <1>2, Zenon DEF fetch_task
  <2>2. TypeOK' /\ NoPanic' /\ HartInv'
    BY <2>1, Zenon DEF TypeOK, NoPanic, HartInv, InWrapper, HartPc
  <2>3. QueueInv' /\ FrameInv' /\ BitsInv'
    BY <2>1, SMTT(30) DEF QueueInv, FrameInv, BitsInv
  <2>4. FetchInv' /\ WrapInv'
    BY <2>1, SMTT(30) DEF FetchInv, WrapInv, InWrapper, TypeOK
  <2>5. HeldInv'
    BY <2>1, Zenon DEF HeldInv, TypeOK
  <2>6. NoLostWakeup' /\ TimerKept'
    BY <2>1, Zenon DEF NoLostWakeup, TimerKept, TypeOK
  <2> QED BY <2>2, <2>3, <2>4, <2>5, <2>6, Zenon
<1>3. CASE queue # <<>>
  <2> DEFINE t == queue[1]
  <2>1. /\ Len(queue) \in Nat \ {0} /\ t \in Tasks
        /\ Head(queue) = t
        /\ Tail(queue) \in Seq(Tasks)
        /\ Len(Tail(queue)) = Len(queue) - 1
        /\ \A i \in 1..(Len(queue) - 1) : Tail(queue)[i] = queue[i + 1]
    BY <1>3, SMTT(30)
  <2>2. /\ cur' = [cur EXCEPT ![h] = t]
        /\ hpc' = [hpc EXCEPT ![h] = "run"]
        /\ queue' = Tail(queue)
    BY <1>3, <2>1, Zenon DEF fetch_task
  <2>3. /\ t \in scheduled \ running /\ status[t] = "Ready"
        /\ \A k \in Harts : frame[k] # t
        /\ \A k \in Harts : hpc[k] = "run" => cur[k] # t
    <3>1. 1 \in 1..Len(queue) /\ queue[1] = t
      BY <2>1, SMTT(30)
    <3>2. t \in scheduled \ running /\ status[t] = "Ready"
      BY <3>1, Zenon DEF QueueInv
    <3>3. \A k \in Harts : frame[k] # t
      BY ExecutorAssumption, <3>1, <2>1, SMTT(30) DEF FrameInv, HartInv
    <3>4. \A k \in Harts : hpc[k] = "run" => cur[k] # t
      BY <3>1, Zenon DEF FetchInv
    <3> QED BY <3>2, <3>3, <3>4, Zenon
  <2>4. \A i \in 1..Len(queue') : queue'[i] = queue[i + 1] /\ i + 1 \in 1..Len(queue)
    BY <2>1, <2>2, SMTT(30)
  <2>5. \A i \in 1..Len(queue') : queue'[i] # t
    BY <2>1, <2>4, SMTT(30) DEF QueueInv
  <2> HIDE DEF t
  <2>6. TypeOK'
    BY <2>1, <2>2, Zenon DEF TypeOK, HartPc
  <2>7. NoPanic' /\ HartInv'
    BY <2>1, <2>2, Zenon DEF TypeOK, NoPanic, HartInv, InWrapper, HartPc
  <2>8. QueueInv'
    <3> SUFFICES ASSUME NEW i \in 1..Len(queue')
                 PROVE  /\ queue'[i] \in scheduled \ running
                        /\ status[queue'[i]] = "Ready"
                        /\ \A j \in 1..Len(queue') : queue'[i] = queue'[j] => i = j
      BY Zenon DEF QueueInv
    <3>1. i + 1 \in 1..Len(queue) /\ queue'[i] = queue[i + 1]
      BY <2>4, Zenon
    <3>2. ASSUME NEW j \in 1..Len(queue'), queue'[i] = queue'[j] PROVE i = j
      BY <2>1, <2>2, <2>4, <3>1, <3>2, SMTT(30) DEF QueueInv
    <3> QED BY <3>1, <3>2, Zenon DEF QueueInv
  <2>9. FrameInv'
    BY <2>4, SMTT(30) DEF FrameInv
  <2>10. FetchInv'
    BY <2>2, <2>3, <2>4, <2>5, SMTT(30) DEF FetchInv, TypeOK
  <2>11. WrapInv'
    BY <2>2, Zenon DEF WrapInv, InWrapper, TypeOK
  <2>12. BitsInv'
    BY Zenon DEF BitsInv
  <2>13. HeldInv'
    <3> SUFFICES ASSUME NEW u \in scheduled \ running
                 PROVE  \/ \E i \in 1..Len(queue') : queue'[i] = u
                        \/ \E k \in Harts : frame[k] = u
                        \/ \E k \in Harts : hpc'[k] = "run" /\ cur'[k] = u
      BY Zenon DEF HeldInv
    <3>1. CASE u = t
      BY <3>1, <2>2, Zenon DEF TypeOK
    <3>2. CASE u # t /\ \E i \in 1..Len(queue) : queue[i] = u
      <4>1. PICK i \in 1..Len(queue) : queue[i] = u
        BY <3>2, Zenon
      <4>2. i - 1 \in 1..Len(queue') /\ queue'[i - 1] = u
        BY <4>1, <3>2, <2>1, <2>2, SMTT(30) DEF t
      <4> QED BY <4>2, Zenon
    <3>3. CASE \E k \in Harts : frame[k] = u
      BY <3>3, Zenon
    <3>4. CASE \E k \in Harts : hpc[k] = "run" /\ cur[k] = u
      BY <3>4, <2>2, Zenon DEF TypeOK
    <3> QED BY <3>1, <3>2, <3>3, <3>4, Zenon DEF HeldInv
  <2>14. NoLostWakeup' /\ TimerKept'
    BY <2>2, Zenon DEF NoLostWakeup, TimerKept, TypeOK
  <2> QED BY <2>6, <2>7, <2>8, <2>9, <2>10, <2>11, <2>12, <2>13, <2>14, Zenon
<1> QED BY <1>2, <1>3, Zenon

\* An idle hart looks at SHUTDOWN.
LEMMA CheckShutdownStep ==
    ASSUME IndInv, NEW h \in Harts, CheckShutdown(h)
    PROVE  IndInv'
<1> USE DEF IndInv, CheckShutdown, taskVars, timeVars
<1>1. TypeOK'
  BY Zenon DEF TypeOK, HartPc, ThreadStatus, Timer
<1>2. NoPanic' /\ HartInv' /\ WrapInv'
  BY SMTT(30) DEF NoPanic, HartInv, InWrapper, WrapInv
<1>3. NoLostWakeup' /\ TimerKept'
  BY SMTT(30) DEF NoLostWakeup, TimerKept
<1>4. QueueInv' /\ FrameInv' /\ HeldInv'
  BY SMTT(30) DEF QueueInv, FrameInv, HeldInv
<1>5. FetchInv' /\ BitsInv'
  BY SMTT(30) DEF FetchInv, BitsInv
<1> QED BY <1>1, <1>2, <1>3, <1>4, <1>5, Zenon

\* An idle hart returns from hart_suspend.
LEMMA ResumeStep ==
    ASSUME IndInv, NEW h \in Harts, Resume(h)
    PROVE  IndInv'
<1> USE DEF IndInv, Resume, taskVars, timeVars
<1>1. TypeOK'
  BY Zenon DEF TypeOK, HartPc, ThreadStatus, Timer
<1>2. NoPanic' /\ HartInv' /\ WrapInv'
  BY SMTT(30) DEF NoPanic, HartInv, InWrapper, WrapInv
<1>3. NoLostWakeup' /\ TimerKept'
  BY SMTT(30) DEF NoLostWakeup, TimerKept
<1>4. QueueInv' /\ FrameInv' /\ HeldInv'
  BY SMTT(30) DEF QueueInv, FrameInv, HeldInv
<1>5. FetchInv' /\ BitsInv'
  BY SMTT(30) DEF FetchInv, BitsInv
<1> QED BY <1>1, <1>2, <1>3, <1>4, <1>5, Zenon

\* run() trades SCHEDULED for RUNNING.
LEMMA RunBeginStep ==
    ASSUME IndInv, NEW h \in Harts, RunBegin(h)
    PROVE  IndInv'
<1> USE DEF IndInv, RunBegin, timeVars
<1>1. TypeOK'
  BY Zenon DEF TypeOK, HartPc, ThreadStatus, Timer, HartInv, InWrapper
<1>2. WrapInv'
  BY SMTT(30) DEF WrapInv, InWrapper, TypeOK, HartInv, FetchInv
<1>3. BitsInv' /\ NoLostWakeup'
  BY SMTT(30) DEF BitsInv, TypeOK, FetchInv, NoLostWakeup
<1>4. QueueInv'
  BY SMTT(30) DEF QueueInv, TypeOK, FetchInv
<1>5. FrameInv'
  BY Zenon DEF FrameInv, TypeOK, HartInv, FetchInv
<1>6. FetchInv'
  BY Zenon DEF FetchInv, TypeOK
<1>7. NoPanic' /\ HartInv' /\ HeldInv' /\ TimerKept'
  BY SMTT(30) DEF NoPanic, HartInv, InWrapper, HeldInv, TimerKept
<1> QED BY <1>1, <1>2, <1>3, <1>4, <1>5, <1>6, <1>7, Zenon

\* The wrapper drops the user page table.
LEMMA LeaveStep ==
    ASSUME IndInv, NEW h \in Harts, Leave(h)
    PROVE  IndInv'
<1> USE DEF IndInv, Leave, taskVars, timeVars
<1>1. TypeOK'
  BY Zenon DEF TypeOK, HartPc, ThreadStatus, Timer
<1>2. WrapInv'
  BY SMTT(30) DEF WrapInv, InWrapper, TypeOK
<1>3. NoPanic' /\ HartInv' /\ NoLostWakeup' /\ TimerKept'
  BY SMTT(30) DEF NoPanic, HartInv, InWrapper, NoLostWakeup, TimerKept
<1>4. QueueInv' /\ FrameInv' /\ HeldInv'
  BY SMTT(30) DEF QueueInv, FrameInv, HeldInv
<1>5. FetchInv' /\ BitsInv'
  BY SMTT(30) DEF FetchInv, BitsInv
<1> QED BY <1>1, <1>2, <1>3, <1>4, <1>5, Zenon

\* run() drops a finished future.
LEMMA CompleteStep ==
    ASSUME IndInv, NEW h \in Harts, Complete(h)
    PROVE  IndInv'
<1> USE DEF IndInv, Complete, timeVars
<1>1. TypeOK'
  BY Zenon DEF TypeOK, HartPc, ThreadStatus, Timer, HartInv, InWrapper
<1>2. HartInv' /\ WrapInv'
  BY SMTT(30) DEF HartInv, InWrapper, TypeOK, WrapInv
<1>3. BitsInv' /\ TimerKept'
  BY SMTT(30) DEF BitsInv, TypeOK, HartInv, WrapInv, InWrapper, TimerKept
<1>4. FrameInv'
  BY SMTT(30) DEF FrameInv, TypeOK, HartInv, WrapInv, InWrapper
<1>5. NoPanic' /\ QueueInv' /\ FetchInv' /\ HeldInv' /\ NoLostWakeup'
  BY SMTT(30) DEF NoPanic, QueueInv, FetchInv, HeldInv, NoLostWakeup
<1> QED BY <1>1, <1>2, <1>3, <1>4, <1>5, Zenon

\* The end of a pending poll: a task woken meanwhile goes to a closure.
LEMMA DescheduleStep ==
    ASSUME IndInv, NEW h \in Harts, Deschedule(h)
    PROVE  IndInv'
<1> USE DEF IndInv
<1> DEFINE t == cur[h]
<1>1. /\ UNCHANGED <<queue, scheduled, completed, status, satp>>
      /\ UNCHANGED <<now, timers, expire, reaped, shutdown, signalled>>
      /\ running' = running \ {t}
      /\ hpc' = [hpc EXCEPT ![h] = "fetch"]
      /\ cur' = [cur EXCEPT ![h] = None]
      /\ hpc[h] = "finish" /\ fpc[h] = "none"
      /\ t \in Tasks /\ t \in running /\ status[t] = "Blocking"
  BY Zenon DEF Deschedule, timeVars, HartInv, WrapInv, InWrapper
<1>2. \/ t \in scheduled /\ fpc' = [fpc EXCEPT ![h] = "action"] /\ frame' = [frame EXCEPT ![h] = t]
      \/ t \notin scheduled /\ UNCHANGED <<fpc, frame>>
  BY Zenon DEF Deschedule, EnterSchedule
<1> USE <1>1, <1>2
<1> HIDE DEF t
<1>3. TypeOK'
  <2>1. fpc' \in [Harts -> {"none", "action", "push"}] /\ frame' \in [Harts -> Tasks \cup {None}]
    <3>1. /\ fpc \in [Harts -> {"none", "action", "push"}]
          /\ frame \in [Harts -> Tasks \cup {None}]
      BY Zenon DEF TypeOK
    <3> QED BY ONLY <3>1, <1>1, <1>2, h \in Harts, Zenon
  <2>2. cur' \in [Harts -> Tasks \cup {None}] /\ hpc' \in [Harts -> HartPc]
    BY Zenon DEF TypeOK, HartPc
  <2> QED BY <2>1, <2>2, Zenon DEF TypeOK
<1>4. NoPanic'
  BY Zenon DEF NoPanic, TypeOK
<1>5. HartInv'
  BY ExecutorAssumption, Zenon DEF HartInv, InWrapper, TypeOK
<1>6. QueueInv'
  BY Zenon DEF QueueInv
<1>7. FrameInv'
  BY ExecutorAssumption, SMTT(30) DEF FrameInv, HartInv, TypeOK, QueueInv
<1>8. FetchInv'
  BY SMTT(30) DEF FetchInv, HartInv, TypeOK
<1>9. WrapInv'
  BY SMTT(30) DEF WrapInv, InWrapper, TypeOK, t
<1>10. BitsInv'
  BY Zenon DEF BitsInv, TypeOK
<1>11. HeldInv'
  <2> SUFFICES ASSUME NEW u \in scheduled \ running'
               PROVE  \/ \E i \in 1..Len(queue) : queue[i] = u
                      \/ \E k \in Harts : frame'[k] = u
                      \/ \E k \in Harts : hpc'[k] = "run" /\ cur'[k] = u
    BY Zenon DEF HeldInv
  <2>1. CASE u = t
    BY <2>1, Zenon DEF TypeOK
  <2>2. CASE u # t
    <3>1. CASE \E i \in 1..Len(queue) : queue[i] = u
      BY <3>1, Zenon
    <3>2. CASE \E k \in Harts : frame[k] = u
      BY ExecutorAssumption, <3>2, SMTT(30) DEF TypeOK, HartInv
    <3>3. CASE \E k \in Harts : hpc[k] = "run" /\ cur[k] = u
      BY <3>3, Zenon DEF TypeOK
    <3>4. u \in scheduled \ running
      BY <2>2, Zenon
    <3> QED BY <3>1, <3>2, <3>3, <3>4, Zenon DEF HeldInv
  <2> QED BY <2>1, <2>2, Zenon
<1>12. NoLostWakeup' /\ TimerKept'
  BY Zenon DEF NoLostWakeup, TimerKept, TypeOK
<1> QED BY <1>3, <1>4, <1>5, <1>6, <1>7, <1>8, <1>9, <1>10, <1>11, <1>12, Zenon

-----------------------------------------------------------------------------
(***************************************************************************)
(* Inside a poll: UserThreadWrapperFuture and the user thread future       *)
(***************************************************************************)
\* A step that moves no runnable, and changes the status of no task that has
\* one, keeps what is said about runnables.
LEMMA PlacesKept ==
    ASSUME IndInv, UNCHANGED <<queue, fpc, frame, cur>>,
           scheduled' \ running' = scheduled \ running,
           \A k \in Harts : hpc'[k] = "run" <=> hpc[k] = "run",
           \A t \in scheduled \ running : status'[t] = status[t]
    PROVE  QueueInv' /\ FrameInv' /\ FetchInv' /\ HeldInv'
<1>1. QueueInv'
  BY SMTT(30) DEF IndInv, QueueInv
<1>2. FrameInv'
  BY Zenon DEF IndInv, FrameInv
<1>3. FetchInv'
  BY SMTT(30) DEF IndInv, FetchInv
<1>4. HeldInv'
  BY Zenon DEF IndInv, HeldInv
<1> QED BY <1>1, <1>2, <1>3, <1>4, Zenon

\* The wrapper swaps Ready for Running: it never finds another status.
LEMMA PollEnterStep ==
    ASSUME IndInv, NEW h \in Harts, PollEnter(h)
    PROVE  IndInv'
<1> USE DEF IndInv, PollEnter, timeVars
<1>1. TypeOK'
  BY Zenon DEF TypeOK, HartPc, ThreadStatus, Timer, HartInv, InWrapper
<1>2. NoPanic' /\ WrapInv' /\ HartInv'
  BY SMTT(30) DEF NoPanic, TypeOK, WrapInv, InWrapper, HartInv
<1>3. BitsInv' /\ TimerKept' /\ NoLostWakeup'
  BY SMTT(30) DEF BitsInv, TypeOK, WrapInv, InWrapper, TimerKept, NoLostWakeup
<1>4. QueueInv' /\ FrameInv' /\ FetchInv' /\ HeldInv'
  <2>1. /\ UNCHANGED <<queue, fpc, frame, cur>>
        /\ scheduled' \ running' = scheduled \ running
        /\ \A k \in Harts : hpc'[k] = "run" <=> hpc[k] = "run"
        /\ \A u \in scheduled \ running : status'[u] = status[u]
    BY Zenon DEF TypeOK, HartInv, WrapInv, InWrapper
  <2> QED BY ONLY <2>1, IndInv, PlacesKept, Zenon
<1> QED BY <1>1, <1>2, <1>3, <1>4, Zenon

\* spawn_user_thread adds a task that had no runnable.
LEMMA SpawnStep ==
    ASSUME IndInv, NEW h \in Harts, NEW t \in Tasks, Spawn(h, t)
    PROVE  IndInv'
<1> USE DEF IndInv, Spawn, timeVars, Polling, EnterSchedule
<1>1. TypeOK'
  BY Zenon DEF TypeOK, HartPc, ThreadStatus, Timer
<1>2. HartInv'
  BY ExecutorAssumption, Zenon DEF HartInv, InWrapper, TypeOK
<1>3. BitsInv'
  BY SMTT(30) DEF BitsInv, TypeOK
<1>4. FrameInv'
  BY ExecutorAssumption, SMTT(30) DEF FrameInv, TypeOK, HartInv, QueueInv, BitsInv
<1>5. FetchInv'
  BY SMTT(30) DEF FetchInv, TypeOK, HartInv, BitsInv
<1>6. HeldInv'
  <2>1. frame[h] = None /\ frame' = [frame EXCEPT ![h] = t] /\ frame \in [Harts -> Tasks \cup {None}]
    BY Zenon DEF HartInv, TypeOK
  <2>2. scheduled' = scheduled \cup {t} /\ UNCHANGED <<running, queue, hpc, cur>>
    BY Zenon
  <2>3. scheduled \subseteq Tasks
    BY Zenon DEF TypeOK
  <2> QED BY ONLY <2>1, <2>2, <2>3, HeldInv, ExecutorAssumption, h \in Harts, t \in Tasks, SMTT(30) DEF HeldInv
<1>7. NoPanic' /\ QueueInv' /\ WrapInv' /\ NoLostWakeup' /\ TimerKept'
  BY SMTT(30) DEF NoPanic, QueueInv, WrapInv, InWrapper, NoLostWakeup, TimerKept
<1> QED BY <1>1, <1>2, <1>3, <1>4, <1>5, <1>6, <1>7, Zenon

\* sys_wait4 removes a process whose thread is Terminated.
LEMMA ReapStep ==
    ASSUME IndInv, NEW h \in Harts, NEW t \in Tasks, Reap(h, t)
    PROVE  IndInv'
<1> USE DEF IndInv, Reap, taskVars, hartVars, timeVars, Polling
<1>1. TypeOK'
  BY Zenon DEF TypeOK, HartPc, ThreadStatus, Timer
<1>2. NoPanic' /\ HartInv' /\ WrapInv'
  BY Zenon DEF NoPanic, HartInv, InWrapper, WrapInv
<1>3. NoLostWakeup' /\ TimerKept' /\ BitsInv'
  BY SMTT(30) DEF NoLostWakeup, TimerKept, BitsInv
<1>4. QueueInv' /\ FrameInv' /\ FetchInv' /\ HeldInv'
  <2>1. /\ UNCHANGED <<queue, fpc, frame, cur>>
        /\ scheduled' \ running' = scheduled \ running
        /\ \A k \in Harts : hpc'[k] = "run" <=> hpc[k] = "run"
        /\ \A u \in scheduled \ running : status'[u] = status[u]
    BY Zenon DEF Reap
  <2> QED BY ONLY <2>1, IndInv, PlacesKept, Zenon
<1> QED BY <1>1, <1>2, <1>3, <1>4, Zenon

\* A poll that returns Pending.
LEMMA BlockStep ==
    ASSUME IndInv, NEW h \in Harts, Block(h)
    PROVE  IndInv'
<1> USE DEF IndInv, Block, timeVars, Polling, ReturnPending
<1>1. TypeOK'
  BY Zenon DEF TypeOK, HartPc, ThreadStatus, Timer, HartInv, InWrapper
<1>2. WrapInv' /\ NoPanic' /\ HartInv'
  BY SMTT(30) DEF WrapInv, InWrapper, TypeOK, HartInv, NoPanic
<1>3. BitsInv' /\ NoLostWakeup' /\ TimerKept'
  BY SMTT(30) DEF BitsInv, TypeOK, WrapInv, InWrapper, NoLostWakeup, TimerKept
<1>4. QueueInv' /\ FrameInv' /\ FetchInv' /\ HeldInv'
  <2>1. /\ UNCHANGED <<queue, fpc, frame, cur>>
        /\ scheduled' \ running' = scheduled \ running
        /\ \A k \in Harts : hpc'[k] = "run" <=> hpc[k] = "run"
        /\ \A u \in scheduled \ running : status'[u] = status[u]
    BY Zenon DEF TypeOK, HartInv, WrapInv, InWrapper
  <2> QED BY ONLY <2>1, IndInv, PlacesKept, Zenon
<1> QED BY <1>1, <1>2, <1>3, <1>4, Zenon

\* A yield wakes the task that is running.
LEMMA yield_nowStep ==
    ASSUME IndInv, NEW h \in Harts, yield_now(h)
    PROVE  IndInv'
<1> USE DEF IndInv
<1> DEFINE t == cur[h]
<1>1. /\ UNCHANGED <<queue, running, completed, cur, satp>>
      /\ UNCHANGED <<now, timers, expire, reaped, shutdown>>
      /\ hpc[h] = "poll" /\ expire[t] = 0
      /\ t \in Tasks /\ t \in running /\ status[t] = "Running"
      /\ t \notin completed
  BY Zenon DEF yield_now, Polling, HartInv, WrapInv, InWrapper, timeVars, BitsInv
<1>2. /\ status' = [status EXCEPT ![t] = "Blocking"]
      /\ hpc' = [hpc EXCEPT ![h] = "leave"]
      /\ scheduled' = scheduled \cup {t}
      /\ signalled' = signalled \cup {t}
      /\ UNCHANGED <<fpc, frame>>
  BY <1>1, Zenon DEF yield_now, ReturnPending, WakeTask
<1> USE <1>1, <1>2
<1> HIDE DEF t
<1>3. TypeOK'
  BY Zenon DEF TypeOK, HartPc, ThreadStatus
<1>4. NoPanic' /\ HartInv' /\ NoLostWakeup'
  BY Zenon DEF NoPanic, HartInv, InWrapper, NoLostWakeup, TypeOK
<1>5. QueueInv' /\ FrameInv' /\ FetchInv' /\ HeldInv'
  <2>1. /\ UNCHANGED <<queue, fpc, frame, cur>>
        /\ scheduled' \ running' = scheduled \ running
        /\ \A k \in Harts : hpc'[k] = "run" <=> hpc[k] = "run"
        /\ \A u \in scheduled \ running : status'[u] = status[u]
    BY Zenon DEF TypeOK
  <2> QED BY ONLY <2>1, IndInv, PlacesKept, Zenon
<1>6. WrapInv'
  BY SMTT(30) DEF WrapInv, InWrapper, TypeOK, t
<1>7. BitsInv'
  BY SMTT(30) DEF BitsInv, TypeOK
<1>8. TimerKept'
  BY Zenon DEF TimerKept, TypeOK, t
<1> QED BY <1>3, <1>4, <1>5, <1>6, <1>7, <1>8, Zenon

\* sleep leaves a timer behind.
LEMMA sleepStep ==
    ASSUME IndInv, NEW h \in Harts, NEW d \in 0..MaxTime, sleep(h, d)
    PROVE  IndInv'
<1> USE DEF IndInv, sleep, Polling, ReturnPending
<1>1. TypeOK'
  BY SMTT(30) DEF TypeOK, HartPc, ThreadStatus, Timer, HartInv, InWrapper
<1>2. NoPanic' /\ HartInv' /\ WrapInv'
  BY SMTT(30) DEF NoPanic, TypeOK, HartInv, InWrapper, WrapInv
<1>3. BitsInv' /\ NoLostWakeup' /\ TimerKept'
  BY SMTT(30) DEF BitsInv, TypeOK, WrapInv, InWrapper, NoLostWakeup, TimerKept
<1>4. QueueInv' /\ FrameInv' /\ FetchInv' /\ HeldInv'
  <2>1. /\ UNCHANGED <<queue, fpc, frame, cur>>
        /\ scheduled' \ running' = scheduled \ running
        /\ \A k \in Harts : hpc'[k] = "run" <=> hpc[k] = "run"
        /\ \A u \in scheduled \ running : status'[u] = status[u]
    BY Zenon DEF TypeOK, HartInv, WrapInv, InWrapper
  <2> QED BY ONLY <2>1, IndInv, PlacesKept, Zenon
<1> QED BY <1>1, <1>2, <1>3, <1>4, Zenon

\* A later poll of a TimerFuture.
LEMMA TimerPollStep ==
    ASSUME IndInv, NEW h \in Harts, TimerPoll(h)
    PROVE  IndInv'
<1> USE DEF IndInv
<1>1. /\ UNCHANGED <<queue, scheduled, running, completed, cur, fpc, frame, satp>>
      /\ UNCHANGED <<now, timers, reaped, shutdown, signalled>>
      /\ hpc[h] = "poll" /\ expire[cur[h]] # 0
      /\ cur[h] \in Tasks /\ cur[h] \in running /\ status[cur[h]] = "Running"
  BY Zenon DEF TimerPoll, HartInv, WrapInv, InWrapper
<1> USE <1>1
<1>2. CASE expire[cur[h]] > now
  <2>1. /\ status' = [status EXCEPT ![cur[h]] = "Blocking"]
        /\ hpc' = [hpc EXCEPT ![h] = "leave"]
        /\ UNCHANGED expire
    BY <1>2, Zenon DEF TimerPoll, ReturnPending
  <2> USE <2>1
  <2>2. TypeOK'
    BY Zenon DEF TypeOK, HartPc, ThreadStatus
  <2>3. NoPanic' /\ HartInv' /\ NoLostWakeup'
    BY SMTT(30) DEF NoPanic, HartInv, InWrapper, NoLostWakeup, TypeOK
  <2>4. QueueInv' /\ FrameInv' /\ FetchInv' /\ HeldInv'
    <3>1. /\ UNCHANGED <<queue, fpc, frame, cur>>
          /\ scheduled' \ running' = scheduled \ running
          /\ \A k \in Harts : hpc'[k] = "run" <=> hpc[k] = "run"
          /\ \A u \in scheduled \ running : status'[u] = status[u]
      BY Zenon DEF TypeOK
    <3> QED BY ONLY <3>1, IndInv, PlacesKept, Zenon
  <2>5. WrapInv' /\ BitsInv'
    BY SMTT(30) DEF WrapInv, InWrapper, BitsInv, TypeOK
  <2>6. TimerKept'
    BY <1>2, SMTT(30) DEF TimerKept, TypeOK
  <2> QED BY <2>2, <2>3, <2>4, <2>5, <2>6, Zenon
<1>3. CASE ~(expire[cur[h]] > now)
  <2>1. expire' = [expire EXCEPT ![cur[h]] = 0] /\ UNCHANGED <<status, hpc>>
    BY <1>3, Zenon DEF TimerPoll
  <2> USE <2>1
  <2>2. TypeOK'
    BY ExecutorAssumption, SMTT(30) DEF TypeOK
  <2>3. BitsInv' /\ TimerKept'
    BY SMTT(30) DEF BitsInv, TimerKept, TypeOK
  <2>4. NoPanic' /\ HartInv' /\ WrapInv' /\ NoLostWakeup'
    BY SMTT(30) DEF NoPanic, HartInv, WrapInv, InWrapper, NoLostWakeup
  <2>5. QueueInv' /\ FrameInv' /\ FetchInv' /\ HeldInv'
    BY PlacesKept, Zenon
  <2> QED BY <2>2, <2>3, <2>4, <2>5, Zenon
<1> QED BY <1>2, <1>3, Zenon

\* The thread exits.
LEMMA PollReadyStep ==
    ASSUME IndInv, NEW h \in Harts, PollReady(h)
    PROVE  IndInv'
<1> USE DEF IndInv, PollReady, timeVars, Polling
<1>1. TypeOK'
  BY Zenon DEF TypeOK, HartPc, ThreadStatus, Timer, HartInv, InWrapper
<1>2. WrapInv' /\ NoPanic' /\ HartInv'
  BY SMTT(30) DEF WrapInv, InWrapper, TypeOK, HartInv, NoPanic
<1>3. BitsInv' /\ NoLostWakeup' /\ TimerKept'
  BY SMTT(30) DEF BitsInv, TypeOK, WrapInv, InWrapper, NoLostWakeup, TimerKept
<1>4. QueueInv' /\ FrameInv' /\ FetchInv' /\ HeldInv'
  <2>1. /\ UNCHANGED <<queue, fpc, frame, cur>>
        /\ scheduled' \ running' = scheduled \ running
        /\ \A k \in Harts : hpc'[k] = "run" <=> hpc[k] = "run"
        /\ \A u \in scheduled \ running : status'[u] = status[u]
    BY Zenon DEF TypeOK, HartInv, WrapInv, InWrapper
  <2> QED BY ONLY <2>1, IndInv, PlacesKept, Zenon
<1> QED BY <1>1, <1>2, <1>3, <1>4, Zenon

-----------------------------------------------------------------------------
(***************************************************************************)
(* The invariant, and what follows from it                                 *)
(***************************************************************************)
\* A closure about to push finds room: the queued tasks and the one it pushes
\* are distinct, and there are no more than TASK_LIMIT.
LEMMA QueueHasRoom ==
    ASSUME IndInv, NEW h \in Harts, fpc[h] = "push"
    PROVE  Len(queue) < TaskLimit
<1> DEFINE n == Len(queue)
           f == [i \in 1..(n + 1) |-> IF i = n + 1 THEN frame[h] ELSE queue[i]]
<1>1. n \in Nat /\ frame[h] \in Tasks /\ queue \in Seq(Tasks)
  BY ExecutorAssumption, SMTT(30) DEF IndInv, TypeOK, HartInv
<1>2. f \in [1..(n + 1) -> Tasks]
  BY <1>1, SMTT(30)
<1>3. \A i, j \in 1..(n + 1) : f[i] = f[j] => i = j
  BY <1>1, SMTT(30) DEF IndInv, QueueInv, FrameInv
<1>4. f \in Injection(1..(n + 1), Tasks)
  BY <1>2, <1>3, Zenon DEF Injection, IsInjective
<1>5. IsFiniteSet(1..(n + 1)) /\ Cardinality(1..(n + 1)) = n + 1
  BY <1>1, FS_Interval, SMTT(30)
<1>6. Cardinality(1..(n + 1)) <= Cardinality(Tasks)
  BY <1>4, FS_Injection, TaskLimitAssumption, Zenon DEF ExistsInjection
<1> QED
  BY <1>1, <1>5, <1>6, TaskLimitAssumption, FS_CardinalityType, SMTT(30)

\* The initial state satisfies the invariant.
LEMMA InitInv == Init => IndInv
<1> SUFFICES ASSUME Init PROVE IndInv
  BY Zenon
<1> USE ExecutorAssumption DEF Init
<1>1. TypeOK
  <2>1. /\ queue \in Seq(Tasks)
        /\ scheduled \subseteq Tasks /\ running \subseteq Tasks /\ completed \subseteq Tasks
        /\ reaped \subseteq Tasks /\ signalled \subseteq Tasks /\ timers \subseteq Timer
    BY SMTT(30)
  <2>2. status \in [Tasks -> ThreadStatus] /\ hpc \in [Harts -> HartPc]
    BY Zenon DEF ThreadStatus, HartPc
  <2>3. /\ cur \in [Harts -> Tasks \cup {None}]
        /\ frame \in [Harts -> Tasks \cup {None}]
        /\ satp \in [Harts -> Tasks \cup {None}]
        /\ fpc \in [Harts -> {"none", "action", "push"}]
    BY Zenon
  <2>4. now \in 0..MaxTime /\ expire \in [Tasks -> 0..MaxTime]
    BY SMTT(30)
  <2>5. shutdown \in BOOLEAN
    BY ONLY Init, Zenon DEF Init
  <2> QED BY <2>1, <2>2, <2>3, <2>4, <2>5, Zenon DEF TypeOK
<1>2. NoPanic /\ HartInv /\ FrameInv /\ FetchInv /\ WrapInv
  BY Zenon DEF NoPanic, HartInv, FrameInv, FetchInv, WrapInv, InWrapper
<1>3. Len(queue) = 1 /\ queue[1] = InitTask
  BY Zenon
<1>4. QueueInv /\ HeldInv
  BY <1>3, SMTT(30) DEF QueueInv, HeldInv
<1>5. BitsInv /\ NoLostWakeup /\ TimerKept
  BY Zenon DEF BitsInv, NoLostWakeup, TimerKept
<1> QED
  BY <1>1, <1>2, <1>4, <1>5, Zenon DEF IndInv

\* A step that changes nothing keeps the invariant.
LEMMA StutterInv == IndInv /\ UNCHANGED vars => IndInv'
<1> SUFFICES ASSUME IndInv, UNCHANGED vars PROVE IndInv'
  BY Zenon
<1> USE DEF IndInv, vars, taskVars, hartVars, timeVars
<1>1. TypeOK' /\ NoPanic'
  BY Zenon DEF TypeOK, NoPanic
<1>2. HartInv' /\ QueueInv' /\ FrameInv' /\ FetchInv'
  BY SMTT(30) DEF HartInv, InWrapper, QueueInv, FrameInv, FetchInv
<1>3. WrapInv' /\ BitsInv'
  BY Zenon DEF WrapInv, InWrapper, BitsInv
<1>4. HeldInv' /\ NoLostWakeup' /\ TimerKept'
  BY SMTT(30) DEF HeldInv, NoLostWakeup, TimerKept
<1> QED
  BY <1>1, <1>2, <1>3, <1>4, Zenon

\* Every step of the executor keeps the invariant.
LEMMA NextInv == IndInv /\ [Next]_vars => IndInv'
<1> SUFFICES ASSUME IndInv, Next PROVE IndInv'
  BY StutterInv, Zenon
<1>1. ASSUME NEW h \in Harts, Loop(h) PROVE IndInv'
  BY <1>1, fetch_taskStep, CheckShutdownStep, ResumeStep, RunBeginStep,
     PollEnterStep, TimerPollStep, SpawnStep, ReapStep, BlockStep,
     yield_nowStep, PollReadyStep, sleepStep, LeaveStep, CompleteStep,
     DescheduleStep, Zenon DEF Loop
<1>2. ASSUME NEW h \in Harts, Schedule(h) PROVE IndInv'
  <2>1. CASE ScheduleAction(h)
    BY <2>1, ScheduleActionStep, Zenon
  <2>2. CASE push_task(h)
    <3>1. Len(queue) < TaskLimit
      BY <2>2, QueueHasRoom, Zenon DEF push_task
    <3> QED BY <2>2, <3>1, push_taskStep, Zenon
  <2> QED BY <1>2, <2>1, <2>2, Zenon DEF Schedule
<1> QED
  BY <1>1, <1>2, check_timerStep, WakeStep, TickStep, Zenon DEF Next

\* The inductive invariant holds in every reachable state.
THEOREM Invariance == Spec => []IndInv
  BY InitInv, NextInv, PTL DEF Spec

\* Every variable keeps its type (Executor!TypeOK).
THEOREM TypeCorrect == Spec => []TypeOK
<1>1. IndInv => TypeOK
  BY Zenon DEF IndInv
<1> QED
  BY <1>1, Invariance, PTL

\* Neither the "Run unready" panic of the wrapper (glue.rs) nor the expect() of
\* push_task is reachable, for any number of harts and any Tasks within
\* TASK_LIMIT.
THEOREM Panics == Spec => []NoPanic
<1>1. IndInv => NoPanic
  BY Zenon DEF IndInv
<1> QED
  BY <1>1, Invariance, PTL

\* No two harts poll the same thread.
THEOREM Exclusion == Spec => []PolledOnce
<1>1. IndInv => PolledOnce
  BY Zenon DEF IndInv, WrapInv, PolledOnce
<1> QED
  BY <1>1, Invariance, PTL

\* No wake is lost, whichever step of the loop it falls on.
THEOREM Wakeups == Spec => []NoLostWakeup
<1>1. IndInv => NoLostWakeup
  BY Zenon DEF IndInv
<1> QED
  BY <1>1, Invariance, PTL

\* A sleeping thread has a timer, or its timer has fired and it will look.
THEOREM Timers == Spec => []TimerKept
<1>1. IndInv => TimerKept
  BY Zenon DEF IndInv
<1> QED
  BY <1>1, Invariance, PTL

\* No hart keeps the page table of a process that may have been freed.
THEOREM PageTables == Spec => []AddressSpaceAlive
<1>1. IndInv => AddressSpaceAlive
  BY Zenon DEF IndInv, WrapInv, BitsInv, InWrapper, AddressSpaceAlive
<1> QED
  BY <1>1, Invariance, PTL

\* A task that is not scheduled, or is being polled, has no runnable.
LEMMA HoldersOfIdle ==
    ASSUME IndInv, NEW t \in Tasks, t \notin scheduled \ running
    PROVE  Holders(t) = {}
  BY SMTT(30) DEF IndInv, QueueInv, FrameInv, FetchInv, Holders, QueuedAt, Scheduling, Fetched

\* A scheduled task that is not being polled has exactly one runnable.
LEMMA HoldersOfScheduled ==
    ASSUME IndInv, NEW t \in scheduled \ running
    PROVE  \E x : Holders(t) = {x}
<1> USE DEF IndInv
<1>0. t \in Tasks /\ queue \in Seq(Tasks)
  BY Zenon DEF TypeOK
<1>1. CASE \E i \in 1..Len(queue) : queue[i] = t
  <2> PICK i \in 1..Len(queue) : queue[i] = t
    BY <1>1, Zenon
  <2>1. \A j \in 1..Len(queue) : QueuedAt(t, j) => j = i
    BY Zenon DEF QueueInv, QueuedAt
  <2>2. \A h \in Harts : ~Scheduling(t, h) /\ ~Fetched(t, h)
    BY Zenon DEF FrameInv, FetchInv, Scheduling, Fetched
  <2>3. QueuedAt(t, i)
    BY Zenon DEF QueuedAt
  <2>4. Holders(t) = {<<"queue", i>>}
    BY <2>1, <2>2, <2>3, Zenon DEF Holders
  <2> QED BY <2>4, Zenon
<1>2. CASE \E h \in Harts : frame[h] = t
  <2> PICK h \in Harts : frame[h] = t
    BY <1>2, Zenon
  <2>1. Scheduling(t, h)
    BY <1>0, ExecutorAssumption, Zenon DEF HartInv, Scheduling
  <2>2. \A k \in Harts : Scheduling(t, k) => k = h
    BY <2>1, Zenon DEF FrameInv, Scheduling
  <2>3. \A j \in 1..Len(queue) : ~QueuedAt(t, j)
    BY <2>1, Zenon DEF FrameInv, QueuedAt, Scheduling
  <2>4. \A k \in Harts : ~Fetched(t, k)
    BY Zenon DEF FetchInv, Fetched
  <2>5. Holders(t) = {<<"closure", h>>}
    BY <2>1, <2>2, <2>3, <2>4, Zenon DEF Holders
  <2> QED BY <2>5, Zenon
<1>3. CASE \E h \in Harts : hpc[h] = "run" /\ cur[h] = t
  <2> PICK h \in Harts : hpc[h] = "run" /\ cur[h] = t
    BY <1>3, Zenon
  <2>1. Fetched(t, h)
    BY Zenon DEF Fetched
  <2>2. \A k \in Harts : Fetched(t, k) => k = h
    BY Zenon DEF FetchInv, Fetched
  <2>3. \A j \in 1..Len(queue) : ~QueuedAt(t, j)
    BY Zenon DEF FetchInv, QueuedAt
  <2>4. \A k \in Harts : ~Scheduling(t, k)
    BY Zenon DEF FetchInv, Scheduling
  <2>5. Holders(t) = {<<"fetched", h>>}
    BY <2>1, <2>2, <2>3, <2>4, Zenon DEF Holders
  <2> QED BY <2>5, Zenon
<1> QED BY <1>1, <1>2, <1>3, Zenon DEF HeldInv

\* Runnables are neither duplicated nor lost.
THEOREM Runnables == Spec => []RunnableUnique
<1>1. IndInv => RunnableUnique
  <2> SUFFICES ASSUME IndInv, NEW t \in Tasks
               PROVE  Cardinality(Holders(t)) = IF t \in scheduled \ running THEN 1 ELSE 0
    BY Zenon DEF RunnableUnique
  <2>1. CASE t \in scheduled \ running
    <3>1. PICK x : Holders(t) = {x}
      BY <2>1, HoldersOfScheduled, Zenon
    <3>2. Cardinality({x}) = 1
      BY FS_Singleton, Zenon
    <3> QED BY <2>1, <3>1, <3>2, Zenon
  <2>2. CASE t \notin scheduled \ running
    BY <2>2, HoldersOfIdle, FS_EmptySet, Zenon
  <2> QED BY <2>1, <2>2, Zenon
<1> QED
  BY <1>1, Invariance, PTL

\* No step takes a Terminated thread to another status: it is in no closure and
\* in no wrapper that sets one.
LEMMA TerminatedStep ==
    ASSUME IndInv, Next
    PROVE  \A t \in Tasks : status[t] = "Terminated" => status'[t] = "Terminated"
<1> SUFFICES ASSUME NEW t \in Tasks, status[t] = "Terminated"
             PROVE  status'[t] = "Terminated"
  BY Zenon
<1>1. \A h \in Harts : frame[h] # t
  BY ExecutorAssumption, Zenon DEF IndInv, FrameInv, HartInv, BitsInv, TypeOK
<1>2. \A h \in Harts : hpc[h] \in {"enter", "poll"} => cur[h] # t
  BY Zenon DEF IndInv, WrapInv
<1>3. status \in [Tasks -> ThreadStatus]
  BY Zenon DEF IndInv, TypeOK
<1>4. ASSUME NEW h \in Harts, Loop(h) PROVE status'[t] = "Terminated"
  <2>1. CASE \E u \in Tasks : Spawn(h, u)
    BY <2>1, <1>3, Zenon DEF Spawn
  <2>2. CASE PollEnter(h)
    BY <2>2, <1>2, <1>3, Zenon DEF PollEnter
  <2>3. CASE Block(h) \/ yield_now(h) \/ \E d \in 0..MaxTime : sleep(h, d)
    BY <2>3, <1>2, <1>3, Zenon DEF Block, yield_now, sleep, ReturnPending, Polling
  <2>4. CASE TimerPoll(h)
    BY <2>4, <1>2, <1>3, Zenon DEF TimerPoll, ReturnPending
  <2>5. CASE PollReady(h)
    BY <2>5, <1>3, Zenon DEF PollReady
  <2>6. CASE \/ fetch_task(h) \/ CheckShutdown(h) \/ Resume(h) \/ RunBegin(h)
             \/ \E u \in Tasks : Reap(h, u)
             \/ Leave(h) \/ Complete(h) \/ Deschedule(h)
    BY <2>6, Zenon DEF fetch_task, CheckShutdown, Resume, RunBegin, Reap, Leave,
                Complete, Deschedule, taskVars
  <2> QED BY <1>4, <2>1, <2>2, <2>3, <2>4, <2>5, <2>6, Zenon DEF Loop
<1>5. ASSUME NEW h \in Harts, Schedule(h) PROVE status'[t] = "Terminated"
  BY <1>5, <1>1, <1>3, Zenon DEF Schedule, ScheduleAction, push_task
<1>6. ASSUME NEW h \in Harts, check_timer(h) \/ \E u \in Tasks : Wake(h, u)
      PROVE  status'[t] = "Terminated"
  BY <1>6, Zenon DEF check_timer, Wake
<1>7. ASSUME Tick PROVE status'[t] = "Terminated"
  BY <1>7, Zenon DEF Tick, taskVars
<1> QED BY <1>4, <1>5, <1>6, <1>7, Zenon DEF Next

\* A late wake never makes an exited thread Ready again.
THEOREM Termination == Spec => TerminatedIsFinal
<1>1. IndInv /\ [Next]_vars
        => [\A t \in Tasks : status[t] = "Terminated" => status'[t] = "Terminated"]_vars
  BY TerminatedStep, Zenon
<1> QED
  BY <1>1, Invariance, PTL DEF Spec, TerminatedIsFinal

-----------------------------------------------------------------------------
(***************************************************************************)
(* Executor implements TaskPromise                                         *)
(***************************************************************************)
\* A step that touches neither the async_task bits nor whether a thread exists
\* is invisible to the promise.
LEMMA InvisibleStep ==
    ASSUME UNCHANGED <<scheduled, running, completed>>,
           \A t \in Tasks : status[t] = "Unborn" <=> status'[t] = "Unborn"
    PROVE  UNCHANGED Promise!pvars
<1>1. TaskState' = TaskState
  BY Zenon DEF TaskState
<1> QED BY <1>1, Zenon DEF Promise!pvars

\* A wake that finds the task blocked, being polled, or already ready or done.
LEMMA WakeTaskPromise ==
    ASSUME IndInv, NEW h \in Harts, NEW t \in Tasks, WakeTask(h, t),
           status[t] # "Unborn", UNCHANGED <<running, completed>>,
           \A u \in Tasks : status[u] = "Unborn" <=> status'[u] = "Unborn"
    PROVE  [Promise!Next]_Promise!pvars
<1>1. scheduled \cap completed = {} /\ scheduled \subseteq Tasks
  BY Zenon DEF IndInv, BitsInv, TypeOK
<1>2. CASE t \in scheduled \cup completed
  BY <1>2, InvisibleStep, Zenon DEF WakeTask
<1>3. CASE t \notin scheduled \cup completed /\ t \in running
  <2>1. scheduled' = scheduled \cup {t}
    BY <1>3, Zenon DEF WakeTask
  <2>2. TaskState' = TaskState /\ TaskState[t] = "polling"
    BY <2>1, <1>3, Zenon DEF TaskState
  <2>3. (scheduled \cap running)' = (scheduled \cap running) \cup {t}
    BY <2>1, <1>3, Zenon
  <2>4. Promise!WakePolled(t)
    BY <2>2, <2>3, Zenon DEF Promise!WakePolled
  <2> QED BY <2>4, Zenon DEF Promise!Next
<1>4. CASE t \notin scheduled \cup completed /\ t \notin running
  <2>1. scheduled' = scheduled \cup {t}
    BY <1>4, Zenon DEF WakeTask
  <2>2. TaskState[t] = "blocked" /\ TaskState' = [TaskState EXCEPT ![t] = "ready"]
    BY <2>1, <1>4, ZenonT(30) DEF TaskState
  <2>3. (scheduled \cap running)' = scheduled \cap running
    BY <2>1, <1>4, Zenon
  <2>4. Promise!WakeBlocked(t)
    BY <2>2, <2>3, Zenon DEF Promise!WakeBlocked, Promise!Moves
  <2> QED BY <2>4, Zenon DEF Promise!Next
<1> QED BY <1>2, <1>3, <1>4, Zenon

\* run() is the Poll of the promise.
LEMMA RunBeginPromise ==
    ASSUME IndInv, NEW h \in Harts, RunBegin(h)
    PROVE  Promise!Next
<1> DEFINE t == cur[h]
<1>1. t \in Tasks /\ t \in scheduled \ running /\ t \notin completed /\ status[t] # "Unborn"
  BY Zenon DEF IndInv, RunBegin, HartInv, FetchInv, BitsInv
<1>2. /\ scheduled' = scheduled \ {t} /\ running' = running \cup {t}
      /\ UNCHANGED <<completed, status>>
  BY Zenon DEF RunBegin
<1>3. TaskState[t] = "ready" /\ TaskState' = [TaskState EXCEPT ![t] = "polling"]
  BY <1>1, <1>2, Zenon DEF TaskState
<1>4. (scheduled \cap running)' = scheduled \cap running
  BY <1>1, <1>2, Zenon
<1>5. Promise!Poll(t)
  BY <1>3, <1>4, Zenon DEF Promise!Poll, Promise!Moves
<1> QED BY <1>1, <1>5, Zenon DEF Promise!Next

\* spawn_user_thread is the Spawn of the promise.
LEMMA SpawnPromise ==
    ASSUME IndInv, NEW h \in Harts, NEW t \in Tasks, Spawn(h, t)
    PROVE  Promise!Next
<1>1. t \notin scheduled \cup running \cup completed /\ status[t] = "Unborn"
  BY Zenon DEF IndInv, Spawn, BitsInv
<1>2. /\ scheduled' = scheduled \cup {t} /\ status' = [status EXCEPT ![t] = "Ready"]
      /\ UNCHANGED <<running, completed>> /\ status \in [Tasks -> ThreadStatus]
  BY Zenon DEF Spawn, IndInv, TypeOK
<1>3. TaskState[t] = "unborn" /\ TaskState' = [TaskState EXCEPT ![t] = "ready"]
  BY <1>1, <1>2, ZenonT(30) DEF TaskState
<1>4. (scheduled \cap running)' = scheduled \cap running
  BY <1>1, <1>2, Zenon
<1>5. Promise!Spawn(t)
  BY <1>3, <1>4, Zenon DEF Promise!Spawn, Promise!Moves
<1> QED BY <1>5, Zenon DEF Promise!Next

\* The drop of a finished future is the Finish of the promise.
LEMMA CompletePromise ==
    ASSUME IndInv, NEW h \in Harts, Complete(h)
    PROVE  Promise!Next
<1> DEFINE t == cur[h]
<1>1. t \in Tasks /\ t \in running /\ t \notin completed /\ status[t] # "Unborn"
  BY Zenon DEF IndInv, Complete, HartInv, WrapInv, InWrapper, BitsInv
<1>2. /\ scheduled' = scheduled \ {t} /\ running' = running \ {t}
      /\ completed' = completed \cup {t} /\ UNCHANGED status
  BY Zenon DEF Complete
<1>3. TaskState[t] = "polling" /\ TaskState' = [TaskState EXCEPT ![t] = "done"]
  BY <1>1, <1>2, Zenon DEF TaskState
<1>4. (scheduled \cap running)' = (scheduled \cap running) \ {t}
  BY <1>1, <1>2, Zenon
<1>5. Promise!Finish(t)
  BY <1>3, <1>4, Zenon DEF Promise!Finish, Promise!Moves
<1> QED BY <1>1, <1>5, Zenon DEF Promise!Next

\* The end of a pending poll is Requeue for a task woken meanwhile, else Pend.
LEMMA DeschedulePromise ==
    ASSUME IndInv, NEW h \in Harts, Deschedule(h)
    PROVE  Promise!Next
<1> DEFINE t == cur[h]
<1>1. t \in Tasks /\ t \in running /\ t \notin completed /\ status[t] # "Unborn"
  BY Zenon DEF IndInv, Deschedule, HartInv, WrapInv, InWrapper, BitsInv
<1>2. running' = running \ {t} /\ UNCHANGED <<scheduled, completed, status>>
  BY Zenon DEF Deschedule
<1>3. TaskState[t] = "polling"
  BY <1>1, Zenon DEF TaskState
<1>4. CASE t \in scheduled
  <2>1. TaskState' = [TaskState EXCEPT ![t] = "ready"]
    BY <1>1, <1>2, <1>4, ZenonT(30) DEF TaskState
  <2>2. (scheduled \cap running)' = (scheduled \cap running) \ {t} /\ t \in scheduled \cap running
    BY <1>1, <1>2, <1>4, Zenon
  <2>3. Promise!Requeue(t)
    BY <1>3, <2>1, <2>2, Zenon DEF Promise!Requeue, Promise!Moves
  <2> QED BY <1>1, <2>3, Zenon DEF Promise!Next
<1>5. CASE t \notin scheduled
  <2>1. TaskState' = [TaskState EXCEPT ![t] = "blocked"]
    BY <1>1, <1>2, <1>5, ZenonT(30) DEF TaskState
  <2>2. (scheduled \cap running)' = scheduled \cap running /\ t \notin scheduled \cap running
    BY <1>2, <1>5, Zenon
  <2>3. Promise!Pend(t)
    BY <1>3, <2>1, <2>2, Zenon DEF Promise!Pend, Promise!Moves
  <2> QED BY <1>1, <2>3, Zenon DEF Promise!Next
<1> QED BY <1>4, <1>5, Zenon

\* Every step of the executor is a step of the promise or invisible to it.
LEMMA PromiseStep ==
    ASSUME IndInv, [Next]_vars
    PROVE  [Promise!Next]_Promise!pvars
<1>1. status \in [Tasks -> ThreadStatus]
  BY Zenon DEF IndInv, TypeOK
<1>2. \A h \in Harts : fpc[h] = "action" => frame[h] \in Tasks /\ status[frame[h]] # "Unborn"
  BY ExecutorAssumption, Zenon DEF IndInv, HartInv, FrameInv, BitsInv, TypeOK
<1>3. \A h \in Harts : InWrapper(h) => cur[h] \in Tasks /\ status[cur[h]] # "Unborn"
  BY Zenon DEF IndInv, HartInv, WrapInv, InWrapper
<1>4. ASSUME NEW h \in Harts, Loop(h) PROVE [Promise!Next]_Promise!pvars
  <2>1. CASE RunBegin(h)
    BY <2>1, RunBeginPromise, Zenon
  <2>2. CASE \E t \in Tasks : Spawn(h, t)
    BY <2>2, SpawnPromise, Zenon
  <2>3. CASE Complete(h)
    BY <2>3, CompletePromise, Zenon
  <2>4. CASE Deschedule(h)
    BY <2>4, DeschedulePromise, Zenon
  <2>5. CASE yield_now(h)
    <3>1. cur[h] \in Tasks /\ status[cur[h]] # "Unborn"
      BY <2>5, <1>3, Zenon DEF yield_now, Polling, InWrapper
    <3>2. \A u \in Tasks : status[u] = "Unborn" <=> status'[u] = "Unborn"
      BY <2>5, <3>1, <1>1, Zenon DEF yield_now, ReturnPending
    <3>3. WakeTask(h, cur[h]) /\ UNCHANGED <<running, completed>>
      BY <2>5, Zenon DEF yield_now
    <3> QED BY <3>1, <3>2, <3>3, WakeTaskPromise, Zenon
  <2>6. CASE PollEnter(h)
    BY <2>6, <1>1, <1>3, InvisibleStep, Zenon DEF PollEnter, InWrapper
  <2>7. CASE Block(h) \/ \E d \in 0..MaxTime : sleep(h, d)
    BY <2>7, <1>1, <1>3, InvisibleStep, Zenon DEF Block, sleep, ReturnPending, Polling, InWrapper
  <2>8. CASE TimerPoll(h)
    BY <2>8, <1>1, <1>3, InvisibleStep, Zenon DEF TimerPoll, ReturnPending, InWrapper
  <2>9. CASE PollReady(h)
    BY <2>9, <1>1, <1>3, InvisibleStep, Zenon DEF PollReady, Polling, InWrapper
  <2>10. CASE \/ fetch_task(h) \/ CheckShutdown(h) \/ Resume(h)
              \/ (\E t \in Tasks : Reap(h, t)) \/ Leave(h)
    BY <2>10, InvisibleStep, Zenon DEF fetch_task, CheckShutdown, Resume, Reap, Leave, taskVars
  <2> QED
    BY <1>4, <2>1, <2>2, <2>3, <2>4, <2>5, <2>6, <2>7, <2>8, <2>9, <2>10, Zenon DEF Loop
<1>5. ASSUME NEW h \in Harts, ScheduleAction(h) PROVE [Promise!Next]_Promise!pvars
  BY <1>5, <1>1, <1>2, InvisibleStep, Zenon DEF ScheduleAction
<1>6. ASSUME NEW h \in Harts, push_task(h) PROVE [Promise!Next]_Promise!pvars
  BY <1>6, InvisibleStep, Zenon DEF push_task
<1>7. ASSUME NEW h \in Harts, check_timer(h) PROVE [Promise!Next]_Promise!pvars
  <2>1. PICK tm \in timers : WakeTask(h, tm.task)
    BY <1>7, Zenon DEF check_timer
  <2>2. tm.task \in Tasks /\ status[tm.task] # "Unborn"
    BY Zenon DEF IndInv, TypeOK, Timer, BitsInv
  <2>3. UNCHANGED <<running, completed, status>>
    BY <1>7, Zenon DEF check_timer
  <2> QED BY <2>1, <2>2, <2>3, WakeTaskPromise, Zenon
<1>8. ASSUME NEW h \in Harts, NEW t \in Tasks, Wake(h, t)
      PROVE  [Promise!Next]_Promise!pvars
  BY <1>8, WakeTaskPromise, Zenon DEF Wake
<1>9. CASE Tick \/ UNCHANGED vars
  BY <1>9, InvisibleStep, Zenon DEF Tick, vars, taskVars
<1> QED
  BY <1>4, <1>5, <1>6, <1>7, <1>8, <1>9, Zenon DEF Next, Schedule

\* The executor implements TaskPromise under the mapping of Executor!Promise.
THEOREM Refinement == Spec => ImplementsPromise
<1>1. Init => Promise!Init
  BY ExecutorAssumption, Zenon DEF Init, Promise!Init, TaskState
<1>2. IndInv /\ [Next]_vars => [Promise!Next]_Promise!pvars
  BY PromiseStep, Zenon
<1> QED
  BY <1>1, <1>2, Invariance, PTL DEF Spec, ImplementsPromise, Promise!Spec
=============================================================================
