------------------------------- MODULE Fat32 --------------------------------
(***************************************************************************)
(* The FAT32 volume as the kernel keeps it in memory: the allocation table *)
(* (crates/utils/fat32/src/fat.rs) and the parser of directory entries     *)
(* (dir_entry.rs, and dir_entry_iter in crates/fs/fat32_vfs/src/dir.rs).   *)
(*                                                                         *)
(* The volume is a record: fat, the in-memory FAT, free, the free_count,   *)
(* and next, the next_free hint.  Nothing is ever written to the disk.     *)
(***************************************************************************)
EXTENDS Naturals, SequencesExt

CONSTANTS DataClusters,  \* data_clusters_count
          Content,       \* cluster -> the sequence of its 32-byte entries on disk
          DiskFat,       \* the FAT on the disk, 0..DataClusters + 1
          FsInfos        \* the <<free_count, next_free>> an info sector may hold

RESERVED == 2
Total == DataClusters + RESERVED
END_OF_CHAIN == 1000
INVALID == 2000          \* INVALID_ALLOC_META, also used for a bad signature

ASSUME Fat32Assumption ==
    /\ DataClusters \in 1..900
    /\ DOMAIN DiskFat = 0..(Total - 1)
    /\ \A c \in DOMAIN DiskFat : DiskFat[c] \in 0..(Total - 1) \cup {END_OF_CHAIN}

FreeClusters(fat) == {c \in RESERVED..(Total - 1) : fat[c] = 0}
Least(S) == CHOOSE c \in S : \A d \in S : c <= d

\* An implausible or unknown info sector is replaced by a scan of the FAT.
maintain_alloc_meta(fat, info) ==
    LET bad == \/ info[1] > DataClusters
               \/ info[2] /= INVALID /\ info[2] \notin RESERVED..(Total - 1)
               \/ info[1] = INVALID \/ info[2] = INVALID
        scan == FreeClusters(fat)
    IN [fat |-> fat,
        free |-> IF bad THEN Cardinality(scan) ELSE info[1],
        next |-> IF ~ bad THEN info[2] ELSE IF scan = {} THEN INVALID ELSE Least(scan)]

\* The first free cluster of a range, 0 if there is none.
find_free_cluster(fat, first, end) ==
    LET S == {c \in first..(end - 1) : fat[c] = 0} IN IF S = {} THEN 0 ELSE Least(S)

\* The search starts at the hint and wraps around once.
\* Mutant: it does not wrap around.
FreeClusterBug(v) ==
    find_free_cluster(v.fat, IF v.next \in RESERVED..(Total - 1) THEN v.next ELSE RESERVED, Total)
FreeCluster(v) ==
    LET start == IF v.next \in RESERVED..(Total - 1) THEN v.next ELSE RESERVED
        c == find_free_cluster(v.fat, start, Total)
    IN IF c = 0 THEN find_free_cluster(v.fat, RESERVED, start) ELSE c

\* alloc_cluster(None): the volume after cluster c was taken.
alloc_cluster(v, c) ==
    [fat |-> [v.fat EXCEPT ![c] = END_OF_CHAIN],
     free |-> IF v.free > 0 THEN v.free - 1 ELSE 0, next |-> c + 1]

\* free_clusters of a whole chain; the hint stays where it is.
free_clusters(v, chain) ==
    [v EXCEPT !.fat = [c \in DOMAIN @ |-> IF c \in Range(chain) THEN 0 ELSE @[c]],
              !.free = @ + Len(chain)]

\* The chain that starts at a cluster.  It is followed blindly: a free entry
\* leads to cluster 0, and a chain with a cycle has no end.
Follow(fat, first) ==
    LET f[i \in 1..(Total + 1)] ==
          IF i = 1 THEN first
          ELSE IF f[i - 1] = END_OF_CHAIN THEN END_OF_CHAIN ELSE fat[f[i - 1]]
    IN f
Endless(fat, first) == first >= 2 /\ Follow(fat, first)[Total + 1] /= END_OF_CHAIN
cluster_chain(fat, first) ==
    IF first < 2 THEN <<>> ELSE SelectSeq(Follow(fat, first), LAMBDA c : c /= END_OF_CHAIN)
-----------------------------------------------------------------------------
\* A 32-byte entry is the end mark, unreadable (bad attribute or short name),
\* a part of a long name, or a standard entry.  A name is the sequence of its
\* parts of 13 characters; sum is the checksum of the short name.
Slot == [kind : {"end", "bad", "lfn", "std"}, name : Seq(STRING), order : Nat, final : BOOLEAN,
         sum : Nat, dir : BOOLEAN, first : Nat, size : Nat]
Blank == [kind |-> "end", name |-> <<>>, order |-> 0, final |-> FALSE, sum |-> 0,
          dir |-> FALSE, first |-> 0, size |-> 0]
End == Blank
Bad == [Blank EXCEPT !.kind = "bad"]
Lfn(part, order, final, sum) ==
    [Blank EXCEPT !.kind = "lfn", !.name = <<part>>, !.order = order, !.final = final, !.sum = sum]
Std(name, sum, dir, first, size) ==
    [Blank EXCEPT !.kind = "std", !.name = <<name>>, !.sum = sum, !.dir = dir,
                  !.first = first, !.size = size]

\* Whether an entry continues the long name being read: the parts come in
\* descending order and the first one read is marked as the final part.
read_lfn_entry(b, e) ==
    IF b.order = 0 THEN e.final
    ELSE e.order = b.order - 1 /\ ~ e.final /\ e.sum = b.sum

NoBuilder == [order |-> 0, sum |-> 0, name |-> <<>>]

\* DirEntryBuilder::from_entry.
\* One entry: the builder and the output after it.  An error drops the long
\* name being read, and the entry it was found at.
from_entry(acc, e) ==
    CASE e.kind = "lfn" /\ read_lfn_entry(acc.builder, e) ->
           [acc EXCEPT !.builder = [order |-> e.order, sum |-> e.sum, name |-> e.name]]
      [] e.kind = "std" -> [acc EXCEPT !.out = Append(@, e)]
      [] OTHER -> acc
\* Mutant: an error does not drop the long name being read.
add_entryBug(acc, e) ==
    LET b == acc.builder IN
    CASE e.kind = "lfn" /\ read_lfn_entry(b, e) ->
           [acc EXCEPT !.builder = [b EXCEPT !.order = e.order, !.name = e.name \o @]]
      [] e.kind = "std" /\ b.order = 1 /\ e.sum = b.sum ->
           [acc EXCEPT !.builder = NoBuilder, !.out = Append(@, [e EXCEPT !.name = b.name])]
      [] OTHER -> acc
add_entry(acc, e) ==
    LET b == acc.builder IN
    CASE e.kind = "lfn" /\ read_lfn_entry(b, e) ->
           [acc EXCEPT !.builder = [b EXCEPT !.order = e.order, !.name = e.name \o @]]
      [] e.kind = "std" /\ b.order = 1 /\ e.sum = b.sum ->
           [acc EXCEPT !.builder = NoBuilder, !.out = Append(@, [e EXCEPT !.name = b.name])]
      [] OTHER -> [acc EXCEPT !.builder = NoBuilder]

\* The directory entries found in a sequence of slots, up to the end mark.
dir_entry_iter(slots) ==
    LET step(acc, e) ==
          IF acc.stop \/ e.kind = "end" THEN [acc EXCEPT !.stop = TRUE]
          ELSE IF acc.builder = NoBuilder THEN from_entry(acc, e) ELSE add_entry(acc, e)
    IN FoldLeft(step, [stop |-> FALSE, builder |-> NoBuilder, out |-> <<>>], slots).out
-----------------------------------------------------------------------------
\* Reference for the parser: what a directory holds is a sequence of groups,
\* each the slots of one entry and the name it has.  A deleted entry keeps its
\* slots, with 0xE5 in the first byte: a long-name slot then reads as order 5,
\* final, and the standard one as unreadable.
Group(slots, names) == [slots |-> slots, names |-> names]
Groups ==
    { Group(<<Std("s", 7, FALSE, 0, 0)>>, <<<<"s">>>>),
      Group(<<Lfn("l", 1, TRUE, 7), Std("s", 7, FALSE, 0, 0)>>, <<<<"l">>>>),
      Group(<<Lfn("m", 2, TRUE, 8), Lfn("l", 1, FALSE, 8), Std("t", 8, FALSE, 0, 0)>>, <<<<"l", "m">>>>),
      Group(<<Bad>>, <<>>),
      Group(<<Lfn("l", 5, TRUE, 7), Bad>>, <<>>),
      Group(<<Lfn("m", 5, TRUE, 8), Lfn("l", 5, TRUE, 8), Bad>>, <<>>) }

\* The parser finds the live entries, in order and under their names.
ParserFinds ==
    \A g, h, k \in Groups :
        LET found == dir_entry_iter(g.slots \o h.slots \o k.slots \o <<End>> \o g.slots)
        IN [i \in DOMAIN found |-> found[i].name] = g.names \o h.names \o k.names
=============================================================================
