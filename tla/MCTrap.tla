------------------------------- MODULE MCTrap -------------------------------
(***************************************************************************)
(* The two things a hart does on its way into and out of the kernel that   *)
(* have no state in common, checked side by side: console interrupts, and  *)
(* signals with the contexts they interrupt.                               *)
(***************************************************************************)
EXTENDS Tty, Signals, TLC

VARIABLE part

MCSignal == 1 .. 3
MCActions == {[handler |-> "fn", mask |-> {}, nodefer |-> FALSE],
              [handler |-> "fn", mask |-> {2}, nodefer |-> TRUE],
              [handler |-> "IGN", mask |-> {}, nodefer |-> FALSE]}
MCMaskArgs == {{1}}
Perms == Permutations(Harts) \cup Permutations(Readers)

Init == TtyInit /\ SignalInit /\ part \in {"tty", "signals"}

Next == \/ part = "tty" /\ TtyNext /\ UNCHANGED <<signalVars, part>>
        \/ part = "signals" /\ SignalNext /\ UNCHANGED <<ttyVars, part>>

Spec == Init /\ [][Next]_<<ttyVars, signalVars, part>>
=============================================================================
