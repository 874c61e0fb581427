----------------------------- MODULE MCProcess ------------------------------
(***************************************************************************)
(* Model-checking instances of Process.  The process objects other than    *)
(* init are interchangeable.                                               *)
(***************************************************************************)
EXTENDS Process, TLC

Perms == Permutations(Procs \ {InitProc})
=============================================================================
