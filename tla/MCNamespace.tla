---------------------------- MODULE MCNamespace -----------------------------
(***************************************************************************)
(* A volume with a directory a, which holds a file b, and a file with the  *)
(* long name l in the root; two free clusters.                             *)
(***************************************************************************)
EXTENDS Namespace, TLC

a == <<"a">>
b == <<"b">>
l == <<"l">>
n == <<"n">>

MCFat == (0 :> END_OF_CHAIN) @@ (1 :> END_OF_CHAIN) @@ (2 :> END_OF_CHAIN) @@ (3 :> END_OF_CHAIN)
           @@ (4 :> END_OF_CHAIN) @@ (5 :> END_OF_CHAIN) @@ (6 :> 0) @@ (7 :> 0)
MCRootChain == <<2>>
MCContent ==
    (2 :> <<Std("a", 1, TRUE, 3, 0), Lfn("l", 1, TRUE, 2), Std("k", 2, FALSE, 4, 1), End>>)
    @@ (3 :> <<Std(".", 3, TRUE, 3, 0), Std("..", 4, TRUE, 0, 0), Std("b", 5, FALSE, 5, 1), End>>)
    @@ (4 :> <<Bad>>) @@ (5 :> <<Bad>>) @@ (6 :> <<End>>) @@ (7 :> <<End>>)

\* Unknown, and stale.
MCFsInfos == {<<INVALID, INVALID>>, <<0, 7>>}

C(op, from, path) ==
    [op |-> op, from |-> from, path |-> path, from2 |-> "root", path2 |-> <<>>, create |-> FALSE,
     excl |-> FALSE, write |-> FALSE, trunc |-> FALSE, replace |-> FALSE]
Rename(path, path2) == [C("rename", "root", path) EXCEPT !.path2 = path2, !.replace = TRUE]

MCCalls ==
    { [C("openat", "root", <<a, n>>) EXCEPT !.create = TRUE, !.excl = TRUE, !.write = TRUE],
      [C("openat", "cwd", <<n>>) EXCEPT !.create = TRUE, !.excl = TRUE],
      [C("openat", "root", <<l>>) EXCEPT !.write = TRUE, !.trunc = TRUE],
      C("openat", "root", <<a>>),
      C("mkdir", "root", <<n>>), C("mkdir", "fd", <<n>>),
      C("chdir", "root", <<a>>), C("stat", "cwd", <<DotDot>>), C("statfs", "root", <<a>>),
      C("getdents", "fd", <<>>),
      C("unlink", "root", <<l>>), C("unlink", "cwd", <<Dot>>), C("unlink", "root", <<a, b>>),
      C("rmdir", "root", <<a>>),
      Rename(<<l>>, <<a, b>>), Rename(<<a, b>>, <<l>>), Rename(<<a>>, <<n>>),
      Rename(<<a>>, <<a, n>>), Rename(<<a, b>>, <<>>),
      C("mount", "root", <<a>>), C("mount", "cwd", <<Dot>>),
      C("umount", "root", <<a>>), C("umount", "root", <<>>) }

Perms == Permutations(Procs)
=============================================================================
