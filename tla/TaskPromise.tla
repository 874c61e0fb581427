---------------------------- MODULE TaskPromise -----------------------------
(***************************************************************************)
(* What the executor promises to a task, without queue, harts or closures: *)
(* a task that is ready is polled; a wake makes a blocked task ready, and  *)
(* a wake that falls into a poll makes the task ready again right after    *)
(* that poll; nothing else moves a task, and a finished task never moves.  *)
(***************************************************************************)
CONSTANTS Tasks, InitTask

VARIABLES tstate,  \* the state of each task
          again    \* tasks woken while they are polled

pvars == <<tstate, again>>

Init ==
    /\ tstate = [t \in Tasks |-> IF t = InitTask THEN "ready" ELSE "unborn"]
    /\ again = {}

Moves(t, from, to) == tstate[t] = from /\ tstate' = [tstate EXCEPT ![t] = to]

Spawn(t) == Moves(t, "unborn", "ready") /\ UNCHANGED again

WakeBlocked(t) == Moves(t, "blocked", "ready") /\ UNCHANGED again

WakePolled(t) ==
    /\ tstate[t] = "polling"
    /\ again' = again \cup {t}
    /\ UNCHANGED tstate

Poll(t) == Moves(t, "ready", "polling") /\ UNCHANGED again

Pend(t) == t \notin again /\ Moves(t, "polling", "blocked") /\ UNCHANGED again

Requeue(t) == t \in again /\ Moves(t, "polling", "ready") /\ again' = again \ {t}

Finish(t) == Moves(t, "polling", "done") /\ again' = again \ {t}

Next ==
    \E t \in Tasks :
        \/ Spawn(t) \/ WakeBlocked(t) \/ WakePolled(t)
        \/ Poll(t) \/ Pend(t) \/ Requeue(t) \/ Finish(t)

Spec == Init /\ [][Next]_pvars
=============================================================================
