--------------------------------- MODULE Vma ---------------------------------
(***************************************************************************)
(* Virtual memory areas (src/src/mm/vma.c, src/src/mm/mmap.c, growheap in  *)
(* src/src/proc/pcb_mm.c): the list of areas of one address space and its  *)
(* page table under mmap, munmap, mprotect, brk, page faults and fork.     *)
(* Addresses and lengths are counted in pages.  Each call runs to its end; *)
(* it is an operator from the address space to the one it leaves.          *)
(***************************************************************************)
EXTENDS Integers, Sequences, FiniteSets, FiniteSetsExt, SequencesExt

CONSTANTS NVMA,                 \* size of the table vmas[]
          MMAP_START, Top,      \* where mmap begins; bound: no call goes beyond Top
          Lengths,              \* bound: the lengths of the ranges
          Touched,              \* bound: the pages that the program loads and stores
          None,
          Programs              \* what programs do, see below

\* What a program does besides calls on whole areas, calls inside areas and brk: "protect": mprotect;
\* "part": munmap of a part of an area; "beyond": a range that begins in an area and ends
\* beyond it; "fixed": MAP_FIXED inside an area; "hole": MAP_FIXED outside all areas;
\* "heap": munmap, mprotect and MAP_FIXED on the heap; "fork"; "empty": brk to start_brk;
\* "full": the first brk when the table is full.  "crowded": another process has an area.
Features == {"protect", "part", "beyond", "fixed", "hole", "heap", "fork", "empty", "full", "crowded"}

ASSUME VmaAssumption ==
    /\ NVMA \in Nat \ {0} /\ MMAP_START \in Nat \ {0} /\ Top \in Nat /\ Lengths \subseteq Nat \ {0}
    /\ Touched \subseteq 0..Top - 1
    /\ Programs \subseteq SUBSET Features

VARIABLE mm     \* the address space, see Init

Id == 1..NVMA
Va == 0..Top - 1
start_brk == 1

\* What a page holds: nothing is mapped, zeros, page k of the file, or what the program wrote
NoPage == <<"none", 0>>
Zero == <<"zero", 0>>
File(k) == <<"file", k>>
Data == <<"data", 0>>

\* An entry of the table that is not in use; what it held is never read again
Unused == [used |-> 0, type |-> "ANON", start |-> 0, size |-> 0, perm |-> "r", offset |-> 0]
Text == [used |-> 1, type |-> "TEXT", start |-> 0, size |-> 1, perm |-> "w", offset |-> 0]

\* The entries of the table, which all processes share, that another process holds
Others(calls) == {i \in Id : i = NVMA /\ "crowded" \in calls}

\* A program: one page of text, no heap yet
Init ==
    \E p \in Programs :
    mm = [calls |-> p,
          tab |-> [i \in Id |-> IF i \in {1} \cup Others(p) THEN Text ELSE Unused],
          list |-> <<1>>, heapvma |-> None, brk |-> start_brk,
          page |-> [v \in Va |-> IF v = 0 THEN Data ELSE NoPage],
          ret |-> 0, panic |-> FALSE]

-----------------------------------------------------------------------------
(* vma.c *)

End(v) == v.start + v.size
In(va, v) == v.start <= va /\ va < End(v)

find_vma_for_va(m, va) ==
    LET hits == SelectSeq(m.list, LAMBDA i : In(va, m.tab[i])) IN IF hits = <<>> THEN None ELSE hits[1]

\* 0 when the table is full
alloc_vma(m) == LET idle == {i \in Id : m.tab[i].used = 0} IN IF idle = {} THEN 0 ELSE Min(idle)

Fail(m) == [m EXCEPT !.ret = -1]
Panic(m) == [m EXCEPT !.panic = TRUE]

check_vma_intersect(m, new) ==
    \E i \in Range(m.list) : In(new.start, m.tab[i]) \/ In(End(new) - 1, m.tab[i])

\* The area goes to the head of the list; ASSERT(0) if it overlaps another one
add_vma_to_vmspace(m, i) ==
    IF check_vma_intersect(m, m.tab[i]) THEN Panic(m) ELSE [m EXCEPT !.list = <<i>> \o @]

del_vma_from_vmspace(m, i) ==
    IF i \notin Range(m.list) THEN Panic(m)
    ELSE [m EXCEPT !.list = SelectSeq(@, LAMBDA j : j # i), !.tab[i] = Unused]

vma_map_range(m, va, len, perm, type) ==
    LET i == alloc_vma(m)
        size == IF len < 1 THEN 1 ELSE len
    IN  IF i = 0 THEN Fail(m)
        ELSE add_vma_to_vmspace(
               [m EXCEPT !.tab[i] = [used |-> 1, type |-> type, start |-> va, size |-> size,
                                     perm |-> perm, offset |-> 0]], i)

\* vma_map and vma_map_file; the new area is the head of the list
vma_map(m, va, len, perm, type, offset) ==
    LET n == vma_map_range(m, va, len, perm, type)
    IN  IF n.ret < 0 \/ n.panic THEN n
        ELSE IF type = "FILE" THEN [n EXCEPT !.tab[Head(n.list)].offset = offset]
        ELSE IF type = "HEAP" THEN [n EXCEPT !.heapvma = Head(n.list)] ELSE n

\* Mutant: the upper half does not move on in the file.
Upper_NoOffset(v, addr) == [v EXCEPT !.start = addr, !.size = End(v) - addr]

\* The two parts of an area that is split at addr
Upper(v, addr) == [v EXCEPT !.start = addr, !.size = End(v) - addr, !.offset = @ + addr - v.start]
Lower(v, addr) == [v EXCEPT !.size = addr - v.start]

split_vma(m, i, addr, new_below) ==
    LET n == alloc_vma(m)
        v == m.tab[i]
        below == IF new_below THEN n ELSE i
        above == IF new_below THEN i ELSE n
    IN  IF n = 0 THEN Fail(m)
        ELSE add_vma_to_vmspace([m EXCEPT !.tab[below] = Lower(v, addr), !.tab[above] = Upper(v, addr)], n)

\* Split at both ends of start..end - 1, unless an area begins or ends there
SplitOut(m, i, start, end) ==
    LET lower == IF start # m.tab[i].start THEN split_vma(m, i, start, TRUE) ELSE m
    IN  IF lower.ret < 0 \/ lower.panic \/ end = End(lower.tab[i]) THEN lower
        ELSE split_vma(lower, i, end, FALSE)

\* Mutant: the last page stays.
uvmunmap_Less(m, va, npages) ==
    [m EXCEPT !.page = [v \in Va |-> IF v \in va..va + npages - 2 THEN NoPage ELSE m.page[v]]]

\* uvmunmap with on_demand
uvmunmap(m, va, npages) ==
    [m EXCEPT !.page = [v \in Va |-> IF v \in va..va + npages - 1 THEN NoPage ELSE m.page[v]]]

RECURSIVE vmspace_unmap(_, _, _)

vmspace_unmap(m, va, len) ==
    LET i == find_vma_for_va(m, va)
        size == m.tab[i].size
    IN  IF i = None \/ va # m.tab[i].start THEN Fail(m)
        ELSE IF size > len
             THEN uvmunmap([m EXCEPT !.tab[i].start = @ + len, !.tab[i].size = @ - len], va, size)
             ELSE LET n == uvmunmap(del_vma_from_vmspace(m, i), va, size)
                  IN  IF size < len THEN [vmspace_unmap(n, va + size, len - size) EXCEPT !.ret = 0] ELSE n

-----------------------------------------------------------------------------
(* mmap.c *)

\* Mutant: the search stops at the newest area.
find_mapping_space_Newest(m) ==
    IF m.tab[Head(m.list)].type \in {"INTERP", "STACK"} \/ End(m.tab[Head(m.list)]) < MMAP_START
    THEN MMAP_START ELSE End(m.tab[Head(m.list)])

\* Above all areas other than the loader's and the stack
find_mapping_space(m) ==
    Max({MMAP_START} \cup {End(m.tab[i]) : i \in {j \in Range(m.list) : m.tab[j].type \notin {"INTERP", "STACK"}}})

\* do_mmap with addr = 0; panic("this page not map???")
do_mmap(m, len, type) ==
    LET va == find_mapping_space(m)
    IN  IF m.page[va] # NoPage THEN Panic(m) ELSE vma_map(m, va, len, "w", type, 0)

\* heapvma when a heap area has been split
HeapAfterSplit(m, i) ==
    LET tops == {j \in Range(m.list) : m.tab[j].type = "HEAP" /\ End(m.tab[j]) = m.brk}
    IN  IF m.tab[i].type = "HEAP" /\ tops # {} THEN [m EXCEPT !.heapvma = CHOOSE j \in tops : TRUE] ELSE m

Replace(m, i, addr, len, type) == vma_map(del_vma_from_vmspace(m, i), addr, len, "w", type, 0)

\* do_mmap with MAP_FIXED; outside all areas mapva keeps its initial value 0
MapFixed(m, addr, len, type) ==
    LET i == find_vma_for_va(m, addr)
        split == SplitOut(m, i, addr, addr + len)
    IN  IF i = None THEN vma_map(m, 0, len, "w", type, 0)
        ELSE IF split.ret < 0 \/ split.panic THEN split
        ELSE Replace(HeapAfterSplit(split, i), i, addr, len, type)

sys_mprotect(m, start, len, prot) ==
    LET i == find_vma_for_va(m, start)
        split == SplitOut(m, i, start, start + len)
    IN  IF i = None THEN Fail(m)
        ELSE IF split.ret < 0 \/ split.panic THEN split ELSE [split EXCEPT !.tab[i].perm = prot]

-----------------------------------------------------------------------------
(* pcb_mm.c *)

\* uvmalloc, or uvmdealloc, which needs all pages mapped
HeapPages(m, new) ==
    IF new > m.brk
    THEN IF \E v \in m.brk..new - 1 : m.page[v] # NoPage THEN Panic(m)
         ELSE [m EXCEPT !.page = [v \in Va |-> IF v \in m.brk..new - 1 THEN Zero ELSE m.page[v]]]
    ELSE IF \E v \in new..m.brk - 1 : m.page[v] = NoPage THEN Panic(m)
         ELSE uvmunmap(m, new, m.brk - new)

SetHeap(m, new) == [m EXCEPT !.brk = new, !.tab[m.heapvma].size = new - start_brk]

growheap(m, new) ==
    LET p == HeapPages(m, new)
        n == IF p.heapvma = None /\ ~p.panic
             THEN vma_map(p, start_brk, new - start_brk, "w", "HEAP", 0) ELSE p
    IN  IF n.panic \/ n.ret < 0 THEN Panic(n) ELSE SetHeap(n, new)

\* vmacopy for areas l, in the order of the list
RECURSIVE vmacopy(_, _)

vmacopy(m, l) ==
    LET v == m.tab[Head(l)]
    IN  IF l = <<>> \/ m.ret < 0 \/ m.panic THEN m
        ELSE vmacopy(vma_map(m, v.start, v.size, v.perm, v.type, v.offset), Tail(l))

\* The areas of m are freed
free_all_vmas(n, m) == [n EXCEPT !.tab = [i \in Id |-> IF i \in Range(m.list) THEN Unused ELSE n.tab[i]]]

\* fork, and the parent exits
do_clone(m) ==
    LET n == vmacopy([m EXCEPT !.list = <<>>, !.heapvma = None], m.list)
    IN  IF n.ret < 0 THEN Fail(m) ELSE free_all_vmas(n, m)

-----------------------------------------------------------------------------
(* Calls of the program *)

Areas(m) == {m.tab[i] : i \in Range(m.list)}
Cut(m, va) == \E v \in Areas(m) : v.start < va /\ va < End(v)
OnHeap(m, a, len) == \E v \in Areas(m) : v.type = "HEAP" /\ v.start < a + len /\ a < End(v)
Beyond(m, a, len) == \E v \in Areas(m) : In(a, v) /\ a + len > End(v)
Begin == ~mm.panic /\ mm.list # <<>>
Call(m) == mm' = [m EXCEPT !.ret = 0]

\* The ranges that the calls are made with
MayMap(len) == find_mapping_space(mm) + len <= Top
MayFix(a, len) ==
    /\ "fixed" \in mm.calls /\ a > 0 /\ a + len <= Top
    /\ "beyond" \in mm.calls \/ ~Beyond(mm, a, len)
    /\ "hole" \in mm.calls \/ find_vma_for_va(mm, a) # None
    /\ "heap" \in mm.calls \/ ~OnHeap(mm, a, len)
MayUnmap(a, len) ==
    /\ a + len <= Top
    /\ "part" \in mm.calls \/ ~Cut(mm, a + len)
    /\ "heap" \in mm.calls \/ ~OnHeap(mm, a, len)
MayProtect(a, len) ==
    /\ "protect" \in mm.calls /\ a + len <= Top
    /\ "beyond" \in mm.calls \/ ~Beyond(mm, a, len)
    /\ "heap" \in mm.calls \/ ~OnHeap(mm, a, len)

Mmap(len, type) == Begin /\ MayMap(len) /\ Call(do_mmap(mm, len, type))
MmapFixed(a, len, type) == Begin /\ MayFix(a, len) /\ Call(MapFixed(mm, a, len, type))
Munmap(a, len) == Begin /\ MayUnmap(a, len) /\ Call(vmspace_unmap(mm, a, len))
Mprotect(a, len, prot) == Begin /\ MayProtect(a, len) /\ Call(sys_mprotect(mm, a, len, prot))

\* brk; below start_brk the program is terminated
Brk(new) ==
    /\ Begin /\ new \in start_brk..MMAP_START /\ (new = start_brk => "empty" \in mm.calls)
    /\ "full" \in mm.calls \/ mm.heapvma # None \/ alloc_vma(mm) # 0
    /\ Call(growheap(mm, new))

\* A store, with the page fault it may need
StoreTo(va) ==
    /\ Begin /\ find_vma_for_va(mm, va) # None /\ mm.tab[find_vma_for_va(mm, va)].perm = "w"
    /\ mm' = [mm EXCEPT !.page[va] = Data]

\* pagefault on a load: lazy allocation
Fault(v, va) == IF v.type = "FILE" THEN File(v.offset + va - v.start) ELSE Zero

Load(va) ==
    /\ Begin /\ find_vma_for_va(mm, va) # None /\ mm.page[va] = NoPage
    /\ mm' = [mm EXCEPT !.page[va] = Fault(mm.tab[find_vma_for_va(mm, va)], va)]

Fork == Begin /\ "fork" \in mm.calls /\ Call(do_clone(mm))

\* free_all_vmas and freewalk, which panics if a page is left in the page table
Exit ==
    /\ Begin
    /\ LET left == {v \in Va : mm.page[v] # NoPage /\ find_vma_for_va(mm, v) = None}
       IN  mm' = [free_all_vmas(mm, mm) EXCEPT
                            !.list = <<>>, !.panic = (left # {}),
                            !.page = [v \in Va |-> IF v \in left THEN mm.page[v] ELSE NoPage]]

Next ==
    \/ Fork \/ Exit
    \/ \E va \in Touched : StoreTo(va) \/ Load(va)
    \/ \E new \in Va : Brk(new)
    \/ \E len \in Lengths : \E type \in {"ANON", "FILE"} : Mmap(len, type)
    \/ \E a \in Va, len \in Lengths :
          \/ Munmap(a, len)
          \/ \E prot \in {"r", "w"} : Mprotect(a, len, prot)
          \/ \E type \in {"ANON", "FILE"} : MmapFixed(a, len, type)

Spec == Init /\ [][Next]_mm

-----------------------------------------------------------------------------
(* Properties *)

TypeOK ==
    /\ \A i \in Id : mm.tab[i].used \in 0..1 /\ mm.tab[i].start \in Nat /\ mm.tab[i].size \in Nat /\ mm.tab[i].offset \in Int
    /\ Range(mm.list) \subseteq Id /\ mm.heapvma \in Id \cup {None}
    /\ mm.brk \in start_brk..MMAP_START /\ mm.ret \in {-1, 0} /\ mm.panic \in BOOLEAN

\* No ASSERT or panic of the memory calls fails: no overlapping areas are added, no
\* page is mapped twice or missing, and none is left when the address space is freed.
NoPanic == ~mm.panic

\* The areas of an address space are disjoint, so that every address has one meaning.
AreasDisjoint == \A va \in Va : Cardinality({i \in Range(mm.list) : In(va, mm.tab[i])}) <= 1

\* Table entries in use are those on the list, each once, and those of other
\* processes: none is lost or shared.
TableMatchesList ==
    /\ \A i \in Id : mm.tab[i].used = 1 <=> i \in Range(mm.list) \cup Others(mm.calls)
    /\ Range(mm.list) \cap Others(mm.calls) = {}
    /\ Cardinality(Range(mm.list)) = Len(mm.list)

\* A page is in the page table only inside an area, or free_mm would leave it behind.
PagesInAreas == \A va \in Va : mm.page[va] # NoPage => find_vma_for_va(mm, va) # None

\* The heap area is the one that brk moves: it ends at the program break.
HeapEndsAtBreak ==
    mm.heapvma # None /\ mm.list # <<>> =>
        /\ mm.heapvma \in Range(mm.list) /\ mm.tab[mm.heapvma].type = "HEAP"
        /\ End(mm.tab[mm.heapvma]) = mm.brk

\* The address space is well formed: no sequence of mmap, munmap, mprotect, brk and
\* fork calls leaves areas that overlap, a table that differs from the list, pages
\* outside areas or a heap that does not end at the break.
WellFormed == TypeOK /\ AreasDisjoint /\ TableMatchesList /\ PagesInAreas /\ HeapEndsAtBreak

\* What a load at va finds
View(m, va) ==
    IF m.page[va] # NoPage THEN m.page[va]
    ELSE IF find_vma_for_va(m, va) = None THEN NoPage ELSE Fault(m.tab[find_vma_for_va(m, va)], va)

Same(m, va) == View(m, va) = View(mm, va)

PermAt(m, va) == IF find_vma_for_va(m, va) = None THEN "none" ELSE m.tab[find_vma_for_va(m, va)].perm

\* munmap, mmap and mprotect change what the program sees only in the range that they are
\* given: the rest keeps its contents, and mprotect changes none; mprotect gives the permission
\* to the pages of its range and to no others, or fails; and MAP_FIXED maps at the address that
\* it is given ("Interpret addr exactly", vma.h:15).
ExactRange ==
    Begin =>
        /\ \A a \in Va, len \in Lengths :
              LET unmapped == vmspace_unmap(mm, a, len)
                  protected == sys_mprotect(mm, a, len, "r")
                  fixed == MapFixed(mm, a, len, "ANON")
              IN  /\ MayUnmap(a, len) => \A va \in Va \ (a..a + len - 1) : Same(unmapped, va)
                  /\ MayProtect(a, len) => \A va \in Va : Same(protected, va)
                  /\ MayFix(a, len) /\ fixed.ret = 0 /\ ~fixed.panic => find_vma_for_va(fixed, a) # None
        /\ \A len \in Lengths :
              LET mapped == do_mmap(mm, len, "FILE")
              IN  MayMap(len) => \A va \in Va : View(mm, va) # NoPage => Same(mapped, va)
        /\ \A a \in Va, len \in Lengths, prot \in {"r", "w"} :
              LET m == sys_mprotect(mm, a, len, prot)
              IN  MayProtect(a, len) /\ m.ret = 0 =>
                      \A va \in Va : find_vma_for_va(mm, va) # None =>
                          PermAt(m, va) = IF va \in a..a + len - 1 THEN prot ELSE PermAt(mm, va)

=============================================================================
