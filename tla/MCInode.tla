------------------------------ MODULE MCInode -------------------------------
(***************************************************************************)
(* Model-checking instances of Inode.  The tasks are interchangeable.      *)
(***************************************************************************)
EXTENDS Inode, TLC

Perms == Permutations(Tasks)
=============================================================================
