--------------------------- MODULE MCMemorySpace ---------------------------
(* Pages: 1 is the program, 2.. the heap, 4.. mmap, 7 and 8 the stack. *)
EXTENDS MemorySpace

Perms == Permutations(Procs) \cup Permutations(Harts)

MCFrames == 1 .. 7
MCElfs == {[segs |-> <<<<1, 2>>>>, ok |-> TRUE],
           [segs |-> <<<<1, 2>>>>, ok |-> FALSE],
           [segs |-> <<>>, ok |-> FALSE]}
\* a short command line, and one whose strings end just above a page boundary
MCStrings == {[envs |-> <<1>>, args |-> <<2>>], [envs |-> <<56>>, args |-> <<2>>]}
MCBrks == {3, 6}
MCMaps == {[hint |-> 0, len |-> 1, shared |-> FALSE, id |-> 0],
           [hint |-> 5, len |-> 2, shared |-> FALSE, id |-> 0],
           [hint |-> 0, len |-> 2, shared |-> TRUE, id |-> 0]}
MCUnmaps == {<<4, 6>>, <<5, 7>>}
MCTouches == {2, 5}
\* two pages, both probed; two pages, only the first one probed
MCBuffers == {<<2 * 64 + 8, 72>>, <<2 * 64 + 60, 8>>}
=============================================================================
