------------------------------- MODULE Buddy --------------------------------
(***************************************************************************)
(* Physical pages (src/src/mm/buddy.c, src/src/mm/kalloc.c): one buddy     *)
(* pool for each CPU, stealing from the other pools, and the reference     *)
(* count of each block.  A block is named by its first page.  One step is  *)
(* one turn of the split or the merge loop under pool->lock, or one atomic *)
(* operation of kalloc.c.                                                  *)
(***************************************************************************)
EXTENDS Integers, Sequences, FiniteSets, FiniteSetsExt, SequencesExt

CONSTANTS Hart, Boot,           \* the kernel threads; the one that runs mm_init
          None,
          NCPU, PAGES_PER_CPU, BUDDY_MAX_ORDER,
          Orders,               \* the orders that kmalloc is asked for
          PAGES_THRESHOLD,
          MaxRef,               \* bound: references to one block
          MaxHeld               \* bound: kmalloc is called while fewer blocks are held

ASSUME BuddyAssumption ==
    /\ Boot \in Hart /\ None \notin Hart
    /\ NCPU \in Nat \ {0} /\ PAGES_PER_CPU \in Nat \ {0} /\ BUDDY_MAX_ORDER \in Nat
    /\ Orders \subseteq 0..BUDDY_MAX_ORDER /\ MaxRef \in Nat \ {0} /\ MaxHeld \in Nat
    /\ PAGES_THRESHOLD \in Nat

VARIABLES
    allocated, order, refcnt,   \* struct page, for each page
    freelists,                  \* the free lists of each pool
    lock,                       \* pool->lock of each pool
    pages_cnt,
    recyclers,                  \* the harts inside alloc_fail; `recycling` is their number
    page_idx,                   \* mm_init: the page to free next
    pc, page, want, id, attempt,\* each thread: its block; order, CPU and attempt of a kmalloc
    panic                       \* an ASSERT has failed or a list is corrupted

meta == <<allocated, order, refcnt>>
call == <<want, id, attempt>>
vars == <<meta, freelists, lock, pages_cnt, recyclers, page_idx, pc, page, call, panic>>

Cpu == 0..NCPU - 1
Order == 0..BUDDY_MAX_ORDER
NPAGES == NCPU * PAGES_PER_CPU
Page == 0..NPAGES - 1

get_pages_cpu(p) == p \div PAGES_PER_CPU
pool(h) == get_pages_cpu(page[h])
BlockOf(p) == p..p + 2^order[p] - 1

\* get_buddy: the offset in the pool with bit `order` flipped, None outside the pool
get_buddy(p, o) ==
    LET off == p % PAGES_PER_CPU
        buddy_off == IF (off \div 2^o) % 2 = 0 THEN off + 2^o ELSE off - 2^o
    IN  IF buddy_off >= PAGES_PER_CPU THEN None ELSE p - off + buddy_off

\* Every page starts as an allocated block of order 0
Init ==
    /\ allocated = [p \in Page |-> 1] /\ order = [p \in Page |-> 0] /\ refcnt = [p \in Page |-> 0]
    /\ freelists = [c \in Cpu |-> [o \in Order |-> <<>>]]
    /\ lock = [c \in Cpu |-> None]
    /\ pages_cnt = NPAGES /\ recyclers = {} /\ page_idx = 0
    /\ pc = [h \in Hart |-> IF h = Boot THEN "boot" ELSE "off"]
    /\ page = [h \in Hart |-> 0] /\ want = [h \in Hart |-> 0]
    /\ id = [h \in Hart |-> 0] /\ attempt = [h \in Hart |-> 0]
    /\ panic = FALSE

goto(h, label) == pc' = [pc EXCEPT ![h] = label]

\* The lists after list_add and num++, and after list_del and num--
list_add(p, o) == [freelists EXCEPT ![get_pages_cpu(p)][o] = <<p>> \o @]
list_del(p, o) == [freelists EXCEPT ![get_pages_cpu(p)][o] = SelectSeq(@, LAMBDA q : q # p)]
OnList(p, o) == p \in ToSet(freelists[get_pages_cpu(p)][o])

\* Where a hart goes on after kfree
Return(h) ==
    IF page_idx <= NPAGES THEN "boot" ELSE IF h \in recyclers THEN "recycle" ELSE "idle"

-----------------------------------------------------------------------------
(* buddy_free_pages *)

\* acquire(&pool->lock); page->allocated = 0
FreeStart(h, p) ==
    /\ lock[get_pages_cpu(p)] = None
    /\ lock' = [lock EXCEPT ![get_pages_cpu(p)] = h]
    /\ allocated' = [allocated EXCEPT ![p] = 0]
    /\ page' = [page EXCEPT ![h] = p]
    /\ goto(h, "merge")
    /\ UNCHANGED <<order, refcnt, freelists, recyclers, call, panic>>

\* Mutant: blocks are never merged beyond order 1.
Mergeable_Once(p) ==
    /\ order[p] = 0
    /\ get_buddy(p, order[p]) # None
    /\ allocated[get_buddy(p, order[p])] = 0
    /\ order[get_buddy(p, order[p])] = order[p]

\* merge_page goes on with the buddy
Mergeable(p) ==
    /\ order[p] < BUDDY_MAX_ORDER
    /\ get_buddy(p, order[p]) # None
    /\ allocated[get_buddy(p, order[p])] = 0
    /\ order[get_buddy(p, order[p])] = order[p]

\* Mutant: the block keeps the name of the half that was freed.
merge_page_NoMin(h) ==
    /\ pc[h] = "merge" /\ Mergeable(page[h])
    /\ LET buddy == get_buddy(page[h], order[page[h]])
       IN  /\ freelists' = list_del(buddy, order[buddy])
           /\ order' = [order EXCEPT ![page[h]] = @ + 1]
    /\ UNCHANGED <<allocated, refcnt, lock, pages_cnt, recyclers, page_idx, pc, page, call, panic>>

\* merge_page: one turn of the recursion
merge_page(h) ==
    /\ pc[h] = "merge" /\ Mergeable(page[h])
    /\ LET buddy == get_buddy(page[h], order[page[h]])
           merge == Min({buddy, page[h]})
       IN  /\ freelists' = list_del(buddy, order[buddy])
           /\ order' = [order EXCEPT ![merge] = @ + 1]
           /\ page' = [page EXCEPT ![h] = merge]
           /\ panic' = ~OnList(buddy, order[buddy])
    /\ UNCHANGED <<allocated, refcnt, lock, pages_cnt, recyclers, page_idx, pc, call>>

\* list_add and release at the end of buddy_free_pages
FreeEnd(h) ==
    /\ pc[h] = "merge" /\ ~Mergeable(page[h])
    /\ freelists' = list_add(page[h], order[page[h]])
    /\ lock' = [lock EXCEPT ![pool(h)] = None]
    /\ page' = [page EXCEPT ![h] = 0]
    /\ goto(h, Return(h))
    /\ UNCHANGED <<meta, pages_cnt, recyclers, page_idx, call, panic>>

-----------------------------------------------------------------------------
(* mm_init *)

\* init_buddy frees each page of each pool in turn
init_buddy(h) ==
    /\ pc[h] = "boot" /\ page_idx \in Page
    /\ FreeStart(h, page_idx)
    /\ page_idx' = page_idx + 1
    /\ UNCHANGED pages_cnt

\* The pages on the free lists of a pool, as num counts them
FreePages(c) == MapThenSumSet(LAMBDA o : Len(freelists[c][o]) * 2^o, Order)

\* ASSERT(memsize == pool->mem_size) of each pool; then the other harts start
mm_init(h) ==
    /\ pc[h] = "boot" /\ page_idx = NPAGES
    /\ page_idx' = NPAGES + 1
    /\ pc' = [g \in Hart |-> "idle"]
    /\ panic' = (\E c \in Cpu : FreePages(c) # PAGES_PER_CPU)
    /\ UNCHANGED <<meta, freelists, lock, pages_cnt, recyclers, page, call>>

-----------------------------------------------------------------------------
(* kmalloc and kalloc *)

\* The call, on CPU c
kmalloc(h, o, c) ==
    /\ pc[h] = "idle" /\ Cardinality({p \in Page : refcnt[p] > 0}) < MaxHeld
    /\ want' = [want EXCEPT ![h] = o] /\ id' = [id EXCEPT ![h] = c]
    /\ attempt' = [attempt EXCEPT ![h] = 0]
    /\ goto(h, "get")
    /\ UNCHANGED <<meta, freelists, lock, pages_cnt, recyclers, page_idx, page, panic>>

\* The pool of an attempt: the hart's own, then in steal_mem the others in their order
mempool(h) ==
    IF attempt[h] = 0 THEN id[h] ELSE IF attempt[h] <= id[h] THEN attempt[h] - 1 ELSE attempt[h]

\* Orders with a block that is large enough
Fitting(h) == {o \in want[h]..BUDDY_MAX_ORDER : freelists[mempool(h)][o] # <<>>}

\* buddy_get_pages: take the first block of the smallest order that fits
GetPage(h) ==
    /\ pc[h] = "get" /\ lock[mempool(h)] = None /\ Fitting(h) # {}
    /\ LET p == Head(freelists[mempool(h)][Min(Fitting(h))])
       IN  /\ page' = [page EXCEPT ![h] = p]
           /\ freelists' = list_del(p, Min(Fitting(h)))
    /\ lock' = [lock EXCEPT ![mempool(h)] = h]
    /\ goto(h, "split")
    /\ UNCHANGED <<meta, pages_cnt, recyclers, page_idx, call, panic>>

\* buddy_get_pages returns NULL: steal_mem tries the next pool, or kmalloc returns 0
GetNothing(h) ==
    /\ pc[h] = "get" /\ lock[mempool(h)] = None /\ Fitting(h) = {}
    /\ IF attempt[h] < NCPU - 1
       THEN attempt' = [attempt EXCEPT ![h] = @ + 1] /\ UNCHANGED pc
       ELSE goto(h, "idle") /\ attempt' = [attempt EXCEPT ![h] = 0]
    /\ UNCHANGED <<meta, freelists, lock, pages_cnt, recyclers, page_idx, page, want, id, panic>>

\* split_page: one turn of the loop
split_page(h) ==
    /\ pc[h] = "split" /\ order[page[h]] > want[h]
    /\ LET o == order[page[h]] - 1
           buddy == get_buddy(page[h], o)
       IN  /\ order' = [order EXCEPT ![page[h]] = o, ![buddy] = o]
           /\ freelists' = list_add(buddy, o)
           /\ panic' = (allocated[buddy] # 0)
    /\ UNCHANGED <<allocated, refcnt, lock, pages_cnt, recyclers, page_idx, pc, page, call>>

\* page->allocated = 1; release(&pool->lock)
GetEnd(h) ==
    /\ pc[h] = "split" /\ order[page[h]] = want[h]
    /\ allocated' = [allocated EXCEPT ![page[h]] = 1]
    /\ lock' = [lock EXCEPT ![pool(h)] = None]
    /\ goto(h, "got")
    /\ UNCHANGED <<order, refcnt, freelists, pages_cnt, recyclers, page_idx, page, call, panic>>

\* ASSERT(refcnt == 0), the first reference, and the count of free pages
Got(h) ==
    /\ pc[h] = "got"
    /\ panic' = (refcnt[page[h]] # 0)
    /\ refcnt' = [refcnt EXCEPT ![page[h]] = 1]
    /\ pages_cnt' = pages_cnt - 2^order[page[h]]
    /\ page' = [page EXCEPT ![h] = 0] /\ want' = [want EXCEPT ![h] = 0]
    /\ id' = [id EXCEPT ![h] = 0] /\ attempt' = [attempt EXCEPT ![h] = 0]
    /\ goto(h, "check")
    /\ UNCHANGED <<allocated, order, freelists, lock, recyclers, page_idx>>

\* recycling and pages_cnt are read ...
Check(h) ==
    /\ pc[h] = "check"
    /\ goto(h, IF recyclers = {} /\ pages_cnt < PAGES_THRESHOLD THEN "enter" ELSE "idle")
    /\ UNCHANGED <<meta, freelists, lock, pages_cnt, recyclers, page_idx, page, call, panic>>

\* ... before recycling is incremented and alloc_fail begins
Enter(h) ==
    /\ pc[h] = "enter"
    /\ recyclers' = recyclers \cup {h}
    /\ goto(h, "recycle")
    /\ UNCHANGED <<meta, freelists, lock, pages_cnt, page_idx, page, call, panic>>

\* alloc_fail returns (what it frees, it frees with kfree)
Leave(h) ==
    /\ pc[h] = "recycle"
    /\ recyclers' = recyclers \ {h}
    /\ goto(h, "idle")
    /\ UNCHANGED <<meta, freelists, lock, pages_cnt, page_idx, page, call, panic>>

-----------------------------------------------------------------------------
(* kfree and share_page: the caller owns one of the references *)

\* Mutant: the block is given back with references left.
kfree_Early(h, p) ==
    /\ pc[h] \in {"idle", "recycle"} /\ refcnt[p] >= 1
    /\ refcnt' = [refcnt EXCEPT ![p] = @ - 1]
    /\ page' = [page EXCEPT ![h] = p]
    /\ goto(h, "last")
    /\ UNCHANGED <<allocated, order, freelists, lock, pages_cnt, recyclers, page_idx, call, panic>>

\* kfree up to release(&page->lock)
kfree(h, p) ==
    /\ pc[h] \in {"idle", "recycle"} /\ refcnt[p] >= 1
    /\ refcnt' = [refcnt EXCEPT ![p] = @ - 1]
    /\ IF refcnt[p] > 1
       THEN UNCHANGED <<pc, page>>
       ELSE page' = [page EXCEPT ![h] = p] /\ goto(h, "last")
    /\ UNCHANGED <<allocated, order, freelists, lock, pages_cnt, recyclers, page_idx, call, panic>>

\* Mutant: every block counts as one page.
Count_One(h) ==
    /\ pc[h] = "last"
    /\ panic' = (allocated[page[h]] # 1)
    /\ pages_cnt' = pages_cnt + 1
    /\ goto(h, "free")
    /\ UNCHANGED <<meta, freelists, lock, recyclers, page_idx, page, call>>

\* ASSERT(page->allocated == 1) and pages_cnt, outside any lock
Count(h) ==
    /\ pc[h] = "last"
    /\ panic' = (allocated[page[h]] # 1)
    /\ pages_cnt' = pages_cnt + 2^order[page[h]]
    /\ goto(h, "free")
    /\ UNCHANGED <<meta, freelists, lock, recyclers, page_idx, page, call>>

FreeLast(h) == pc[h] = "free" /\ FreeStart(h, page[h]) /\ UNCHANGED <<pages_cnt, page_idx>>

\* A holder of a reference gives another one away
share_page(h, p) ==
    /\ pc[h] = "idle" /\ refcnt[p] \in 1..MaxRef - 1
    /\ refcnt' = [refcnt EXCEPT ![p] = @ + 1]
    /\ UNCHANGED <<allocated, order, freelists, lock, pages_cnt, recyclers, page_idx, pc, page, call, panic>>

-----------------------------------------------------------------------------
Next ==
    /\ ~panic
    /\ \E h \in Hart :
        \/ init_buddy(h) \/ mm_init(h) \/ merge_page(h) \/ FreeEnd(h)
        \/ GetPage(h) \/ GetNothing(h) \/ split_page(h) \/ GetEnd(h)
        \/ Got(h) \/ Check(h) \/ Enter(h) \/ Leave(h) \/ Count(h) \/ FreeLast(h)
        \/ \E o \in Orders, c \in Cpu : kmalloc(h, o, c)
        \/ \E p \in Page : kfree(h, p) \/ share_page(h, p)

Spec == Init /\ [][Next]_vars

-----------------------------------------------------------------------------
(* Properties *)

FreeHeads == {p \in Page : \E c \in Cpu, o \in Order : p \in ToSet(freelists[c][o])}
\* The blocks that callers hold, and those on the way between a list and a caller
HeldHeads == {p \in Page : refcnt[p] > 0}
Movers == {h \in Hart : pc[h] \in {"merge", "split", "got", "last", "free"}}
MovingHeads == {page[h] : h \in Movers}
\* During mm_init, the pages not yet freed
BootHeads == IF page_idx < NPAGES THEN page_idx..NPAGES - 1 ELSE {}

TypeOK ==
    /\ allocated \in [Page -> 0..1] /\ order \in [Page -> Order] /\ refcnt \in [Page -> 0..MaxRef]
    /\ \A c \in Cpu, o \in Order : ToSet(freelists[c][o]) \subseteq Page
    /\ lock \in [Cpu -> Hart \cup {None}] /\ pages_cnt \in Int
    /\ recyclers \subseteq Hart /\ page_idx \in 0..NPAGES + 1
    /\ page \in [Hart -> Page] /\ want \in [Hart -> Order] /\ id \in [Hart -> Cpu]
    /\ attempt \in [Hart -> Cpu] /\ panic \in BOOLEAN

\* No ASSERT of buddy.c and kalloc.c fails: the memory size that mm_init finds, the
\* buddy of a split is free, a block handed out has no reference, a block given
\* back is allocated; and no block is taken off a list that it is not on.
NoPanic == ~panic

\* Free blocks are described by their struct page as merge_page and split_page read
\* it: on the list of their order, not allocated, aligned to their size, once.
FreeListsWellFormed ==
    \A c \in Cpu, o \in Order :
        LET list == freelists[c][o]
        IN  /\ Cardinality(ToSet(list)) = Len(list)
            /\ \A p \in ToSet(list) :
                  /\ order[p] = o /\ allocated[p] = 0
                  /\ (p % PAGES_PER_CPU) % 2^o = 0
                  /\ BlockOf(p) \subseteq c * PAGES_PER_CPU..(c + 1) * PAGES_PER_CPU - 1

\* Types; and every page of memory is in exactly one block, which is on one free list, held by
\* callers, or being moved by one hart: no memory is lost and none handed out twice.
EveryPageInOneBlock ==
    LET Heads == FreeHeads \cup HeldHeads \cup MovingHeads \cup BootHeads
    IN  /\ TypeOK /\ FreeListsWellFormed
        /\ \A x \in Page : Cardinality({p \in Heads : x \in BlockOf(p)}) = 1
        /\ FreeHeads \cap (HeldHeads \cup MovingHeads) = {} /\ HeldHeads \cap MovingHeads = {}
        /\ \A g, h \in Movers : page[g] = page[h] => g = h

\* Free memory is never left in two halves: when nobody is inside a pool, no free
\* block has its buddy free at the same order.
Coalesced ==
    \A p \in FreeHeads :
        LET buddy == get_buddy(p, order[p])
        IN  lock[get_pages_cpu(p)] = None /\ order[p] < BUDDY_MAX_ORDER /\ buddy # None
                => ~OnList(buddy, order[p])

\* pages_cnt, which decides when memory is recycled, is the number of free pages
\* whenever no call is under way.
PagesCounted ==
    (\A h \in Hart : pc[h] \in {"idle", "check", "enter", "recycle"}) =>
        pages_cnt = MapThenSumSet(FreePages, Cpu)

=============================================================================
