---------------------------- MODULE ExecutorInv -----------------------------
(***************************************************************************)
(* The inductive invariant from which the safety properties of Executor    *)
(* follow, for any number of harts and tasks: where the runnable of every  *)
(* scheduled task is, and what the status of a task is at each place.      *)
(***************************************************************************)
EXTENDS Executor

\* A hart that holds a task holds a real one, and a frame is in use exactly
\* while its closure runs.
HartInv ==
    /\ \A h \in Harts : (hpc[h] = "run" \/ InWrapper(h)) => cur[h] \in Tasks
    /\ \A h \in Harts : fpc[h] = "none" <=> frame[h] = None

\* A queued task is Ready, scheduled and queued once.
QueueInv ==
    \A i \in 1..Len(queue) :
        /\ queue[i] \in scheduled \ running
        /\ status[queue[i]] = "Ready"
        /\ \A j \in 1..Len(queue) : queue[i] = queue[j] => i = j

\* A task inside a schedule closure is scheduled and held nowhere else.
FrameInv ==
    \A h \in Harts : fpc[h] # "none" =>
        /\ frame[h] \in scheduled \ running
        /\ \A i \in 1..Len(queue) : queue[i] # frame[h]
        /\ \A k \in Harts : frame[k] = frame[h] => k = h
        /\ fpc[h] = "push" => status[frame[h]] = "Ready"

\* A fetched task is Ready, scheduled and held nowhere else.
FetchInv ==
    \A h \in Harts : hpc[h] = "run" =>
        /\ cur[h] \in scheduled \ running
        /\ status[cur[h]] = "Ready"
        /\ \A i \in 1..Len(queue) : queue[i] # cur[h]
        /\ \A k \in Harts : frame[k] # cur[h]
        /\ \A k \in Harts : hpc[k] = "run" /\ cur[k] = cur[h] => k = h

\* A task inside the wrapper is RUNNING, on one hart, with the status of the
\* place it has reached, and its address space is the one that hart uses.
WrapInv ==
    \A h \in Harts :
        /\ InWrapper(h) =>
             /\ cur[h] \in running
             /\ \A k \in Harts : InWrapper(k) /\ cur[k] = cur[h] => k = h
        /\ hpc[h] = "enter" => status[cur[h]] = "Ready"
        /\ hpc[h] = "poll" => status[cur[h]] = "Running"
        /\ hpc[h] \in {"leave", "finish"} => status[cur[h]] \in {"Blocking", "Terminated"}
        /\ satp[h] # None => hpc[h] \in {"poll", "leave"} /\ satp[h] = cur[h]

\* How the async_task bits, the status and the sleep of a task fit together.
BitsInv ==
    /\ (scheduled \cup running) \cap completed = {}
    /\ \A tm \in timers : status[tm.task] # "Unborn"
    /\ \A t \in Tasks :
         /\ status[t] = "Unborn" => t \notin scheduled \cup running \cup completed
         /\ t \in completed => status[t] = "Terminated"
         /\ status[t] = "Terminated" => t \in running \cup completed /\ expire[t] = 0

\* Every scheduled task that is not being polled has a runnable somewhere.
HeldInv ==
    \A t \in scheduled \ running :
        \/ \E i \in 1..Len(queue) : queue[i] = t
        \/ \E h \in Harts : frame[h] = t
        \/ \E h \in Harts : hpc[h] = "run" /\ cur[h] = t

IndInv == /\ TypeOK /\ NoPanic /\ HartInv /\ QueueInv /\ FrameInv /\ FetchInv
          /\ WrapInv /\ BitsInv /\ HeldInv /\ NoLostWakeup /\ TimerKept
=============================================================================
