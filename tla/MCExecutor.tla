----------------------------- MODULE MCExecutor -----------------------------
(***************************************************************************)
(* Model-checking instances of Executor.  The harts are interchangeable,   *)
(* and so are the threads other than init's; symmetry is used for the      *)
(* safety run only.                                                        *)
(***************************************************************************)
EXTENDS Executor, TLC

Perms == Permutations(Harts) \cup Permutations(Tasks \ {InitTask})
=============================================================================
