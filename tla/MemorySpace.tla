---------------------------- MODULE MemorySpace ----------------------------
(***************************************************************************)
(* User address spaces (memory/memory_space), the frames behind them, the  *)
(* TLB of every hart and the kernel's accesses to user memory.             *)
(* Addresses are page numbers except in user buffers and on a new stack,   *)
(* where the position inside a page decides.  Permissions are left out:    *)
(* the fault handler ignores them.                                         *)
(***************************************************************************)
EXTENDS Integers, FiniteSets, Sequences, FiniteSetsExt, SequencesExt, TLC

CONSTANTS Procs, Harts, Frames, FilePages,
          PAGE_SIZE, PTR_SIZE, MMAP_START, LOW_ADDRESS_END, STACK_PAGES,
          Elfs,                  \* [segs: sequence of page ranges, ok: loads]
          Strings,               \* [envs, args]: lengths of the strings of an exec
          Brks, Maps, Unmaps,    \* arguments of brk, mmap and munmap
          Touches, Buffers,      \* pages of user accesses, buffers of system calls
          MaxCalls               \* number of calls in a behaviour

VARIABLES space,     \* the process's MemorySpace, heap_range and state
          cache,     \* frame of each cached page of the one file mapped; 0: none
          hart,      \* process, position, satp and possible TLB contents
          panicked,
          calls

vars == <<space, cache, hart, panicked, calls>>

KERNEL == 0
StackLow == LOW_ADDRESS_END - STACK_PAGES
StartFrame == CHOOSE f \in Frames : \A g \in Frames : f <= g

\* BTreeMap<VirtPageNum, FramedVmArea>: an insertion drops what has the key.
Insert(areas, a) == {b \in areas : b.start # a.start} \cup {a}
At(areas, s) == CHOOSE a \in areas : a.start = s
ByStart(areas) == SetToSortSeq(areas, LAMBDA a, b : a.start < b.start)
Ascending(S) == SetToSortSeq(S, <)

\* FramedVmArea::new
Area(s, e, type, id) ==
    [start |-> s, end |-> e, type |-> type, map |-> <<>>, backed |-> {}, id |-> id]

FramesOf(areas) == UNION {{a.map[v] : v \in DOMAIN a.map} : a \in areas}

\* Frames that are allocated: every other one is free (Drop for Frame).
Used == (UNION {{space[p].root} \cup FramesOf(space[p].areas) : p \in Procs}
         \cup {cache[i] : i \in FilePages}) \ {KERNEL}

\* One space under its process's lock, with the allocator.
View(areas, pt, used) ==
    [areas |-> areas, pt |-> pt, used |-> used, ok |-> TRUE, panicked |-> FALSE]
Mm(p) == View(space[p].areas, space[p].pt, Used)

\* A page that is mapped already stops a build with debug assertions.
map(m, v, f) ==
    IF v \in DOMAIN m.pt THEN [m EXCEPT !.panicked = TRUE]
    ELSE [m EXCEPT !.pt = (v :> f) @@ @]

\* Frame::alloc().unwrap(), page_table.map, and the entry of unbacked_map
allocate(m, s, v) ==
    IF Frames \subseteq m.used THEN [m EXCEPT !.panicked = TRUE]
    ELSE LET f == Min(Frames \ m.used)
             a == At(m.areas, s)
         IN  map([m EXCEPT !.used = @ \cup {f},
                           !.areas = Insert(@, [a EXCEPT !.map = (v :> f) @@ @])], v, f)

ensure_allocated(m, s, v) ==
    IF m.panicked \/ v \in DOMAIN At(m.areas, s).map THEN m ELSE allocate(m, s, v)

allocate_all(m, s, vpns) ==
    FoldLeft(LAMBDA acc, v : ensure_allocated(acc, s, v), m, Ascending(vpns))

user_map(m, s, e) == [m EXCEPT !.areas = Insert(@, Area(s, e, "Lazy", 0))]

\* user_map_with_file and init_backed_inode: map what the page cache has.
user_map_with_file(m, s, e, id) ==
    LET ids == {i \in FilePages : i \in id .. id + (e - s) - 1 /\ cache[i] # 0}
        a == [Area(s, e, "Mmap", id) EXCEPT !.backed = {s + (i - id) : i \in ids}]
        one(acc, i) == map(acc, s + (i - id), cache[i])
    IN  [FoldLeft(one, m, Ascending(ids)) EXCEPT !.areas = Insert(@, a)]

user_map_with_data(m, s, e) ==
    allocate_all(user_map(m, s, e), s, s .. e - 1)

\* FramedVmArea::unmap, after the area left user_areas
unmap_area(m, a) ==
    LET gone == DOMAIN a.map \cup a.backed
    IN  [m EXCEPT !.areas = @ \ {a},
                  !.pt = [v \in DOMAIN @ \ gone |-> @[v]],
                  !.panicked = @ \/ ~ (gone \subseteq DOMAIN m.pt)]

shrinkBug(m, a, e) ==
    [m EXCEPT !.areas = Insert(@, [a EXCEPT !.end = e, !.map = [v \in {w \in DOMAIN @ : w < e} |-> @[v]]])]

shrink(m, a, e) ==
    LET kept == {v \in DOMAIN a.map : v < e}
        gone == DOMAIN a.map \ kept
    IN  [m EXCEPT !.areas = Insert(@, [a EXCEPT !.end = e, !.map = [v \in kept |-> @[v]]]),
                  !.pt = [v \in DOMAIN @ \ gone |-> @[v]],
                  !.panicked = @ \/ ~ (gone \subseteq DOMAIN m.pt)]

set_user_brk(m, heap, e) ==
    IF \E a \in m.areas : a.start = heap
    THEN LET a == At(m.areas, heap)
         IN  IF e <= a.end THEN shrink(m, a, e)
             ELSE [m EXCEPT !.areas = Insert(@, [a EXCEPT !.end = e])]
    ELSE user_map(m, heap, e)

PastPrevBug(areas, s) == s

\* The area at or before s may reach past it.
PastPrev(areas, s) ==
    LET prev == {a \in areas : a.start <= s}
    IN  IF prev = {} THEN s ELSE Max({s, Last(ByStart(prev)).end})

\* The first gap of len pages at or above the hint; 0: ENOMEM.
try_find_mmap_area(areas, hint, len) ==
    LET s == Max({MMAP_START, hint})
        try(acc, a) == IF acc.found \/ acc.start + len <= a.start
                       THEN [acc EXCEPT !.found = TRUE]
                       ELSE [acc EXCEPT !.start = a.end]
        gap == FoldLeft(try, [start |-> PastPrev(areas, s), found |-> FALSE],
                        ByStart({a \in areas : a.start > s}))
    IN  IF gap.found \/ gap.start + len <= LOW_ADDRESS_END THEN gap.start ELSE 0

\* Only the area before the range and those that start inside it are seen.
unmap(m, s, e) ==
    LET before == {a \in m.areas : a.start < s}
        seen == {a \in m.areas : a.start \in s .. e - 1}
                \cup (IF before = {} THEN {} ELSE {Last(ByStart(before))})
        inside == {a \in seen : s <= a.start /\ a.end <= e}
        partly == {a \in seen \ inside : a.end > s}
    IN  IF partly # {} THEN [m EXCEPT !.panicked = TRUE]
        ELSE FoldLeft(unmap_area, m, ByStart(inside))

handle_memory_exception(m, v) ==
    LET below == {a \in m.areas : a.start <= v}
        a == Last(ByStart(below))
    IN  IF below = {} \/ v >= a.end THEN [m EXCEPT !.ok = FALSE]
        ELSE IF a.type = "Mmap" THEN [m EXCEPT !.panicked = TRUE]
        ELSE ensure_allocated(m, a.start, v)

\* try_read_user_byte, try_write_user_byte
probe(m, v) ==
    IF ~ m.ok \/ m.panicked \/ v \in DOMAIN m.pt THEN m ELSE handle_memory_exception(m, v)

\* check_read_impl, check_write_impl: one byte every PAGE_SIZE, then the access
\* itself, where a fault is a trap from the kernel.
check_slice(m, start, len) ==
    LET probes == [k \in 1 .. (len + PAGE_SIZE - 1) \div PAGE_SIZE |->
                       (start + (k - 1) * PAGE_SIZE) \div PAGE_SIZE]
        used == start \div PAGE_SIZE .. (start + len - 1) \div PAGE_SIZE
        r == FoldLeft(probe, m, probes)
    IN  IF len = 0 THEN m
        ELSE IF start + len > LOW_ADDRESS_END * PAGE_SIZE THEN [m EXCEPT !.ok = FALSE]
        ELSE [r EXCEPT !.panicked = @ \/ (r.ok /\ ~ (used \subseteq DOMAIN r.pt))]

\* check_cstr: every page up to the one with the NUL, each probed before it is read
check_cstr(m, first, last) ==
    LET r == FoldLeft(probe, m, [k \in 1 .. last - first + 1 |-> first + k - 1])
    IN  IF last >= LOW_ADDRESS_END THEN [r EXCEPT !.ok = FALSE] ELSE r

recycle_user_pages(m) ==
    [m EXCEPT !.areas = {}, !.pt = <<>>, !.used = @ \ FramesOf(m.areas)]

load_elf_sections(m, elf) ==
    [FoldLeft(LAMBDA acc, g : user_map_with_data(acc, g[1], g[2]), m, elf.segs)
        EXCEPT !.ok = elf.ok]

elf_end(elf) == Max({0} \cup {elf.segs[i][2] : i \in DOMAIN elf.segs})

(***************************************************************************)
(* FramedVmArea::init_stack_impl: sp in bytes below the top of the stack.  *)
(* A word or byte is written at the offset of sp inside the page that was  *)
(* allocated last; wrong records a write outside the page of its address.  *)
(***************************************************************************)
sp_down(s, len) ==
    LET sp == s.sp - len
        page == IF s.sp % PAGE_SIZE = 0 THEN sp \div PAGE_SIZE ELSE s.page
    IN  [sp |-> sp, page |-> page, pages |-> s.pages \cup {page},
         wrong |-> s.wrong \/ page # sp \div PAGE_SIZE
                           \/ (sp % PAGE_SIZE) + len > PAGE_SIZE]

push_usize(s, n) ==
    FoldLeft(LAMBDA acc, i : sp_down(acc, PTR_SIZE), s, [i \in 1 .. n |-> i])

\* n bytes, one by one: a page is allocated at every page boundary left.
push_str(s, n) ==
    LET sp == s.sp - n
        new == {x \div PAGE_SIZE : x \in {y \in sp .. s.sp - 1 : (y + 1) % PAGE_SIZE = 0}}
    IN  [sp |-> sp, page |-> Min(new \cup {s.page}), pages |-> s.pages \cup new,
         wrong |-> s.wrong \/ (s.sp % PAGE_SIZE # 0 /\ s.page # (s.sp - 1) \div PAGE_SIZE)]

push_strs(s, lens) == FoldLeft(LAMBDA acc, l : push_str(acc, l + 1), s, lens)

init_stack_impl(b) ==
    LET top == [sp |-> LOW_ADDRESS_END * PAGE_SIZE, page |-> 0, pages |-> {}, wrong |-> FALSE]
        random == push_usize(top, 3)
        envs == push_usize(push_strs(random, b.envs), 1)
        args == push_strs(envs, b.args)
        aligned == [args EXCEPT !.sp = @ - (@ % PTR_SIZE)]
        auxv == push_usize(aligned, 2 + 2 + 2 * 6)
        ptrs == push_usize(auxv, 1 + Len(b.envs) + 1 + Len(b.args))
    IN  push_usize(ptrs, 1)

NewStacks == [b \in Strings |-> init_stack_impl(b)]

init_stack(m, b) ==
    LET r == allocate_all(user_map(m, StackLow, LOW_ADDRESS_END), StackLow, NewStacks[b].pages)
    IN  [r EXCEPT !.panicked = @ \/ NewStacks[b].wrong]

\* MemorySpace::from_other, after the frame of the new root table
from_other(m, used) ==
    LET copy(acc, a) ==
            IF a.type = "Mmap" THEN user_map_with_file(acc, a.start, a.end, a.id)
            ELSE allocate_all(user_map(acc, a.start, a.end), a.start, DOMAIN a.map)
    IN  FoldLeft(copy, View({}, <<>>, used), ByStart(m.areas))

-----------------------------------------------------------------------------
Absent == [st |-> "none", root |-> KERNEL, areas |-> {}, pt |-> <<>>, heap |-> 0, brk |-> 0]
Idle == [proc |-> KERNEL, at |-> "idle", satp |-> KERNEL, tlb |-> {}]

\* from_path: the first process
Started(elf, b) ==
    LET m == init_stack(load_elf_sections(View({}, <<>>, {StartFrame}), elf), b)
    IN  [st |-> "live", root |-> StartFrame, areas |-> m.areas, pt |-> m.pt,
         heap |-> elf_end(elf), brk |-> elf_end(elf)]

Init == /\ \E p \in Procs, elf \in Elfs, b \in Strings :
               /\ elf.ok
               /\ ~ NewStacks[b].wrong
               /\ space = [q \in Procs |-> IF q = p THEN Started(elf, b) ELSE Absent]
        /\ cache = [i \in FilePages |-> 0]
        /\ hart = [h \in Harts |-> Idle]
        /\ panicked = FALSE
        /\ calls = 0

\* What the TLB may hold of the table that satp points to.
Cached(pt) == {<<v, pt[v]>> : v \in DOMAIN pt}

flush_tlb(tlb) == {}

\* A call of the process on hart h that leaves m; flush(_) is its TLB flush.
Return(h, p, s, m, flush(_)) ==
    /\ space' = [space EXCEPT ![p] = [s EXCEPT !.areas = m.areas, !.pt = m.pt]]
    /\ hart' = [hart EXCEPT ![h].tlb = flush(@) \cup Cached(m.pt)]
    /\ panicked' = m.panicked
    /\ UNCHANGED cache

Keep(tlb) == tlb

Running(h, p) == hart[h].proc = p /\ hart[h].at = "run" /\ ~ panicked
Call(h, p) == Running(h, p) /\ calls < MaxCalls /\ calls' = calls + 1

activateBug(h, p) == hart[h].tlb

\* UserThreadWrapperFuture::poll and MemorySpace::activate
activate(h, p) ==
    IF hart[h].satp = space[p].root THEN hart[h].tlb ELSE flush_tlb(hart[h].tlb)

Poll(h, p) ==
    /\ ~ panicked /\ hart[h].at = "idle" /\ space[p].st = "live"
    /\ \A g \in Harts : hart[g].proc # p
    /\ hart' = [hart EXCEPT ![h] = [proc |-> p, at |-> "run", satp |-> space[p].root,
                                    tlb |-> activate(h, p) \cup Cached(space[p].pt)]]
    /\ UNCHANGED <<space, cache, panicked, calls>>

\* The end of a poll: KERNEL_SPACE.activate_no_tlb
Leave(h) ==
    /\ ~ panicked /\ hart[h].at \in {"run", "exited"}
    /\ hart' = [hart EXCEPT ![h] = [@ EXCEPT !.proc = KERNEL, !.at = "idle", !.satp = KERNEL]]
    /\ UNCHANGED <<space, cache, panicked, calls>>

sys_brk(h, p) ==
    /\ Call(h, p)
    /\ \E e \in Brks :
           /\ e > space[p].heap /\ e <= LOW_ADDRESS_END
           /\ Return(h, p, [space[p] EXCEPT !.brk = e],
                     set_user_brk(Mm(p), space[p].heap, e),
                     LAMBDA t : IF \E a \in space[p].areas : a.start = space[p].heap /\ e <= a.end
                                THEN flush_tlb(t) ELSE t)

sys_mmap(h, p) ==
    /\ Call(h, p)
    /\ \E c \in Maps :
           LET s == try_find_mmap_area(space[p].areas, c.hint, c.len)
           IN  /\ s # 0
               /\ IF c.shared
                  THEN Return(h, p, space[p], user_map_with_file(Mm(p), s, s + c.len, c.id), flush_tlb)
                  ELSE Return(h, p, space[p], user_map(Mm(p), s, s + c.len), Keep)

sys_munmap(h, p) ==
    /\ Call(h, p)
    /\ \E c \in Unmaps :
           Return(h, p, space[p], unmap(Mm(p), c[1], c[2]), flush_tlb)

\* exit_process on a bad access; the thread ends through exit_thread below.
Fatal(h) == hart' = [hart EXCEPT ![h].at = "dying"]

\* A load, store or fetch of user code that faults.
PageFault(h, p) ==
    /\ Running(h, p)
    /\ \E v \in Touches \ DOMAIN space[p].pt :
           LET m == handle_memory_exception(Mm(p), v)
           IN  IF m.ok THEN Return(h, p, space[p], m, LAMBDA t : {x \in t : x[1] # v})
               ELSE Fatal(h) /\ UNCHANGED <<space, cache, panicked>>
    /\ UNCHANGED calls

\* Every probe that faulted has flushed its page.
Probed(h, p, m) ==
    Return(h, p, space[p], m,
           LAMBDA t : {x \in t : x[1] \notin DOMAIN m.pt \ DOMAIN space[p].pt})

\* System calls that read or write user memory, or a user string.
AccessUser(h, p) ==
    /\ Call(h, p)
    /\ \/ \E b \in Buffers : Probed(h, p, check_slice(Mm(p), b[1], b[2]))
       \/ \E v \in Touches, n \in {0, 1} : Probed(h, p, check_cstr(Mm(p), v, v + n))

\* Process::fork; the child is polled later, by any hart.
fork(h, p, c) ==
    LET root == Min(Frames \ Used)
        m == from_other(Mm(p), Used \cup {root})
    IN  /\ Call(h, p) /\ space[c].st = "none"
        /\ IF Frames \subseteq Used
           THEN panicked' = TRUE /\ UNCHANGED space
           ELSE /\ panicked' = m.panicked
                /\ space' = [space EXCEPT ![c] = [space[p] EXCEPT !.root = root,
                                                  !.areas = m.areas, !.pt = m.pt]]
        /\ UNCHANGED <<cache, hart>>

\* Process::exec: after recycle_user_pages an error ends the process.
exec(h, p) ==
    /\ Call(h, p)
    /\ \E elf \in Elfs, b \in Strings :
           LET m == load_elf_sections(recycle_user_pages(Mm(p)), elf)
               new == [space[p] EXCEPT !.heap = elf_end(elf), !.brk = elf_end(elf)]
           IN  IF m.ok \/ m.panicked
               THEN Return(h, p, new, IF m.panicked THEN m ELSE init_stack(m, b), flush_tlb)
               ELSE /\ space' = [space EXCEPT ![p].areas = m.areas, ![p].pt = m.pt]
                    /\ Fatal(h)
                    /\ UNCHANGED <<cache, panicked>>

\* Thread::exit_thread: dealloc_user_stack flushes, recycle_user_pages does not.
exit_thread(h, p) ==
    LET stack == {a \in space[p].areas : a.start = StackLow}
        m == recycle_user_pages(FoldLeft(unmap_area, Mm(p), ByStart(stack)))
    IN  /\ hart[h].proc = p /\ hart[h].at \in {"run", "dying"} /\ ~ panicked
        /\ space' = [space EXCEPT ![p].st = "zombie", ![p].areas = m.areas, ![p].pt = m.pt]
        /\ hart' = [hart EXCEPT ![h].at = "exited", ![h].tlb = flush_tlb(@)]
        /\ panicked' = m.panicked
        /\ UNCHANGED <<cache, calls>>

\* The last reference to the Process: the root table's frame is returned.
drop(p) ==
    /\ ~ panicked /\ space[p].st = "zombie" /\ \A h \in Harts : hart[h].proc # p
    /\ space' = [space EXCEPT ![p] = Absent]
    /\ UNCHANGED <<cache, hart, panicked, calls>>

\* Another task reads a page of the file, or truncates it (Inode).
CachePage(i) ==
    /\ ~ panicked /\ cache[i] = 0 /\ ~ (Frames \subseteq Used)
    /\ cache' = [cache EXCEPT ![i] = Min(Frames \ Used)]
    /\ UNCHANGED <<space, hart, panicked, calls>>

free_pages(i) ==
    /\ ~ panicked /\ cache[i] # 0
    /\ cache' = [cache EXCEPT ![i] = 0]
    /\ UNCHANGED <<space, hart, panicked, calls>>

Next ==
    \/ \E h \in Harts : Leave(h)
    \/ \E p \in Procs : drop(p)
    \/ \E i \in FilePages : CachePage(i) \/ free_pages(i)
    \/ \E h \in Harts, p \in Procs :
           \/ Poll(h, p) \/ PageFault(h, p) \/ exit_thread(h, p)
           \/ sys_brk(h, p) \/ sys_mmap(h, p) \/ sys_munmap(h, p)
           \/ AccessUser(h, p) \/ exec(h, p)
           \/ \E c \in Procs : fork(h, p, c)

Spec == Init /\ [][Next]_vars

-----------------------------------------------------------------------------
\* The page table of every process maps exactly the pages its areas account
\* for, each private one to the frame the area owns: no page of a shrunken,
\* unmapped, replaced or copied area stays behind (vm_area.rs, page_table.rs).
PageTableMatches ==
    ~ panicked => \A p \in Procs :
        LET s == space[p] IN
        /\ DOMAIN s.pt = UNION {DOMAIN a.map \cup a.backed : a \in s.areas}
        /\ \A a \in s.areas : \A v \in DOMAIN a.map : s.pt[v] = a.map[v]

\* While a process runs, no TLB entry of its hart, whatever the hardware chose
\* to cache, contradicts its page table: every removal is followed by a flush,
\* and a hart flushes before it runs another space, even one whose root table
\* reuses the frame of an earlier one (page_table.rs:152).
NoStaleTlb ==
    \A h \in Harts : hart[h].at = "run" /\ ~ panicked =>
        hart[h].tlb \subseteq Cached(space[hart[h].proc].pt)

Disjoint(areas) ==
    \A a, b \in areas : a # b => a.end <= b.start \/ b.end <= a.start

HeapEnd(s) == Max({s.heap} \cup {a.end : a \in {b \in s.areas : b.start = s.heap}})

\* No operation makes two areas of a process overlap, apart from a brk that
\* makes or raises the heap: what try_find_mmap_area returns is free, as the SAFETY
\* comment at memory_space/mod.rs:243 claims.
AreasStayDisjoint ==
    [][\A p \in Procs : Disjoint(space[p].areas) =>
           Disjoint(space'[p].areas) \/ HeapEnd(space'[p]) > HeapEnd(space[p])]_vars
=============================================================================
