--------------------------------- MODULE Cow ---------------------------------
(***************************************************************************)
(* User pages (src/src/mm/pagefault.c, uvmcopy and uvmunmap of             *)
(* src/src/mm/vm.c, kalloc.c's reference counts): pages are allocated at   *)
(* the first access and shared copy-on-write by fork.  A page fault takes  *)
(* no lock, so that a step is one access to a page table entry or to a     *)
(* frame's reference count.                                                *)
(***************************************************************************)
EXTENDS Naturals, FiniteSets

CONSTANTS Proc, Thread, ProcOf,
          Va, Kind,         \* the pages of an address space, and the vma that each is in:
                            \* "stack", "private" (writable), "text" (not writable), or
                            \* "shared" (VMA_FILE with PERM_SHARED)
          Frame, Value, None

ASSUME CowAssumption ==
    /\ ProcOf \in [Thread -> Proc] /\ Kind \in [Va -> {"stack", "private", "text", "shared"}]
    /\ 0 \in Value /\ None \notin Proc \cup Thread \cup Frame \cup Va
    /\ {"new", "old"} \cap Va = {} /\ IsFiniteSet(Proc) /\ IsFiniteSet(Va) /\ IsFiniteSet(Thread)

VARIABLES
    state,                  \* of each process: unused, forking, live, dead
    pt,                     \* page tables
    content, refcnt,        \* of each frame; kfree and kmalloc as in module Buddy
    pc, va, new, old,       \* each thread: the page it faults on, the new and the old frame
    child, todo,            \* uvmcopy: the new process, and the pages that are left
    mem,                    \* history: what each process has stored in its private pages
    panic

frames == <<content, refcnt>>
fork == <<child, todo>>
vars == <<state, pt, frames, pc, va, new, old, fork, mem, panic>>

Private == {v \in Va : Kind[v] # "shared"}

\* A page table entry: W is PTE_W, share PTE_SHARE, ro PTE_READONLY
PTE == [frame : Frame \cup {None}, W : BOOLEAN, share : BOOLEAN, ro : BOOLEAN]
NoPte == [frame |-> None, W |-> FALSE, share |-> FALSE, ro |-> FALSE]
Present(p, v) == pt[p][v].frame # None
Pte(f, w) == [frame |-> f, W |-> w, share |-> FALSE, ro |-> FALSE]
Writable(v) == Kind[v] # "text"
pte(t) == pt[ProcOf[t]][va[t]]
Free == {f \in Frame : refcnt[f] = 0}

\* A program whose stack is mapped
Init ==
    \E t \in Thread :
      \E stack \in [{v \in Va : Kind[v] = "stack"} -> Frame] :
        /\ \A v, w \in DOMAIN stack : stack[v] = stack[w] => v = w
        /\ state = [p \in Proc |-> IF p = ProcOf[t] THEN "live" ELSE "unused"]
        /\ pt = [p \in Proc |-> [v \in Va |->
                    IF p = ProcOf[t] /\ v \in DOMAIN stack THEN Pte(stack[v], TRUE) ELSE NoPte]]
        /\ content = [f \in Frame |-> 0]
        /\ refcnt = [f \in Frame |-> IF \E v \in DOMAIN stack : stack[v] = f THEN 1 ELSE 0]
        /\ pc = [u \in Thread |-> IF u = t THEN "user" ELSE "none"]
        /\ va = [u \in Thread |-> None] /\ new = [u \in Thread |-> None] /\ old = [u \in Thread |-> None]
        /\ child = [u \in Thread |-> None] /\ todo = [u \in Thread |-> {}]
        /\ mem = [p \in Proc |-> [v \in Private |-> 0]] /\ panic = FALSE

goto(t, label) == pc' = [pc EXCEPT ![t] = label]
setpte(p, v, e) == pt' = [pt EXCEPT ![p][v] = e]

\* Back to the program
Resume(t) ==
    /\ goto(t, "user") /\ va' = [va EXCEPT ![t] = None]
    /\ new' = [new EXCEPT ![t] = None] /\ old' = [old EXCEPT ![t] = None]

\* The thread exits; the process is dead with its last thread
do_exit(t) ==
    /\ goto(t, "none") /\ va' = [va EXCEPT ![t] = None] /\ old' = [old EXCEPT ![t] = None]
    /\ state' = IF \E u \in Thread : u # t /\ ProcOf[u] = ProcOf[t] /\ pc[u] # "none"
                THEN state ELSE [state EXCEPT ![ProcOf[t]] = "dead"]
    /\ UNCHANGED <<new, fork>>

-----------------------------------------------------------------------------
(* The program *)

\* A store that the page table allows
Store(t, v, val) ==
    /\ pc[t] = "user" /\ Present(ProcOf[t], v) /\ pt[ProcOf[t]][v].W
    /\ content' = [content EXCEPT ![pt[ProcOf[t]][v].frame] = val]
    /\ mem' = IF v \in Private THEN [mem EXCEPT ![ProcOf[t]][v] = val] ELSE mem
    /\ UNCHANGED <<state, pt, refcnt, pc, va, new, old, fork, panic>>

\* The first access to a page: *pte == 0
FaultAbsent(t, v) ==
    /\ pc[t] = "user" /\ ~Present(ProcOf[t], v)
    /\ goto(t, "alloc") /\ va' = [va EXCEPT ![t] = v]
    /\ UNCHANGED <<state, pt, frames, new, old, fork, panic, mem>>

is_a_cow_page(e) == e.share /\ ~e.ro

\* A store to a page that is shared copy-on-write
FaultCow(t, v) ==
    /\ pc[t] = "user" /\ Present(ProcOf[t], v) /\ ~pt[ProcOf[t]][v].W /\ Writable(v)
    /\ is_a_cow_page(pt[ProcOf[t]][v])
    /\ goto(t, "cow") /\ va' = [va EXCEPT ![t] = v]
    /\ old' = [old EXCEPT ![t] = pt[ProcOf[t]][v].frame]
    /\ UNCHANGED <<state, pt, frames, new, fork, panic, mem>>

\* A store that vma or page table forbid: killproc
FaultBad(t, v) ==
    /\ pc[t] = "user"
    /\ ~Writable(v) \/ (Present(ProcOf[t], v) /\ ~pt[ProcOf[t]][v].W /\ ~is_a_cow_page(pt[ProcOf[t]][v]))
    /\ do_exit(t)
    /\ UNCHANGED <<pt, frames, panic, mem>>

\* clone with CLONE_THREAD
CloneThread(t, u) ==
    /\ pc[t] = "user" /\ pc[u] = "none" /\ ProcOf[u] = ProcOf[t]
    /\ goto(u, "user")
    /\ UNCHANGED <<state, pt, frames, va, new, old, fork, panic, mem>>

Exit(t) == pc[t] = "user" /\ do_exit(t) /\ UNCHANGED <<pt, frames, panic, mem>>

-----------------------------------------------------------------------------
(* pagefault *)

\* kzalloc in uvmalloc; without memory pagefault returns 0 and the program faults again
Alloc(t) ==
    /\ pc[t] = "alloc"
    /\ \/ \E f \in Free : /\ refcnt' = [refcnt EXCEPT ![f] = 1]
                          /\ content' = [content EXCEPT ![f] = 0]
                          /\ new' = [new EXCEPT ![t] = f]
                          /\ goto(t, "map")
                          /\ UNCHANGED <<va, old>>
       \/ Free = {} /\ Resume(t) /\ UNCHANGED frames
    /\ UNCHANGED <<state, pt, fork, panic, mem>>

\* mappages; panic("mappages: remap") if the entry has become valid
Map(t) ==
    /\ pc[t] = "map"
    /\ IF pte(t).frame # None
       THEN panic' = TRUE /\ UNCHANGED <<pt, pc, va, new, old>>
       ELSE /\ setpte(ProcOf[t], va[t], Pte(new[t], Writable(va[t])))
            /\ Resume(t) /\ UNCHANGED panic
    /\ UNCHANGED <<state, frames, fork, mem>>

\* Mutant: the new frame is not filled.
cow_NoCopy(t) ==
    /\ pc[t] = "cow" /\ Free # {}
    /\ \E f \in Free : /\ refcnt' = [refcnt EXCEPT ![f] = 1]
                       /\ content' = [content EXCEPT ![f] = 0]
                       /\ new' = [new EXCEPT ![t] = f]
    /\ goto(t, "set")
    /\ UNCHANGED <<state, pt, va, old, fork, panic, mem>>

\* cow: kmalloc and memmove
cow(t) ==
    /\ pc[t] = "cow" /\ Free # {}
    /\ \E f \in Free : /\ refcnt' = [refcnt EXCEPT ![f] = 1]
                       /\ content' = [content EXCEPT ![f] = content[old[t]]]
                       /\ new' = [new EXCEPT ![t] = f]
    /\ goto(t, "set")
    /\ UNCHANGED <<state, pt, va, old, fork, panic, mem>>

\* cow: no memory, the process is killed
CowNoMem(t) == pc[t] = "cow" /\ Free = {} /\ do_exit(t) /\ UNCHANGED <<pt, frames, panic, mem>>

\* cow: the entry is overwritten
SetPte(t) ==
    /\ pc[t] = "set"
    /\ setpte(ProcOf[t], va[t], [frame |-> new[t], W |-> TRUE, share |-> TRUE, ro |-> FALSE])
    /\ goto(t, "kfree") /\ new' = [new EXCEPT ![t] = None]
    /\ UNCHANGED <<state, frames, va, old, fork, panic, mem>>

\* Mutant: the reference of the process stays on the old frame.
Kfree_Forgotten(t) ==
    /\ pc[t] = "kfree"
    /\ Resume(t)
    /\ UNCHANGED <<state, pt, frames, fork, panic, mem>>

\* cow: kfree of the old frame, panic("kfree : page ref error") without a reference
Kfree(t) ==
    /\ pc[t] = "kfree"
    /\ IF refcnt[old[t]] = 0
       THEN panic' = TRUE /\ UNCHANGED <<refcnt, pc, va, new, old>>
       ELSE refcnt' = [refcnt EXCEPT ![old[t]] = @ - 1] /\ Resume(t) /\ UNCHANGED panic
    /\ UNCHANGED <<state, pt, content, fork, mem>>

-----------------------------------------------------------------------------
(* fork: uvmcopy *)

ForkStart(t, q) ==
    /\ pc[t] = "user" /\ state[q] = "unused"
    /\ state' = [state EXCEPT ![q] = "forking"]
    /\ goto(t, "fork") /\ child' = [child EXCEPT ![t] = q] /\ todo' = [todo EXCEPT ![t] = Va]
    /\ UNCHANGED <<pt, frames, va, new, old, panic, mem>>

\* Mutant: a page that is already shared is taken for a read-only one.
Shared_ReadOnly(e) == [e EXCEPT !.ro = @ \/ ~e.W, !.share = TRUE, !.W = FALSE]

\* The entry of a page that is not shared between processes, in parent and child
Shared(e) == [e EXCEPT !.ro = @ \/ (~e.W /\ ~e.share), !.share = TRUE, !.W = FALSE]

share_page(f) == refcnt' = [refcnt EXCEPT ![f] = @ + 1]

\* One page of the address space
ForkPage(t, v) ==
    LET p == ProcOf[t]
        e == IF Kind[v] = "shared" THEN pt[p][v] ELSE Shared(pt[p][v])
    IN  /\ pc[t] = "fork" /\ v \in todo[t]
        /\ todo' = [todo EXCEPT ![t] = @ \ {v}]
        /\ CASE Kind[v] = "stack" ->
                  \E f \in Free : /\ refcnt' = [refcnt EXCEPT ![f] = 1]
                                  /\ content' = [content EXCEPT ![f] = content[pt[p][v].frame]]
                                  /\ setpte(child[t], v, Pte(f, TRUE))
             [] Kind[v] # "stack" /\ Present(p, v) ->
                  /\ pt' = [pt EXCEPT ![p][v] = e, ![child[t]][v] = e]
                  /\ share_page(e.frame)
                  /\ UNCHANGED content
             [] OTHER -> UNCHANGED <<pt, frames>>
        /\ UNCHANGED <<state, pc, va, new, old, child, panic, mem>>

\* No memory for the stack: free_proc(np)
ForkNoMem(t) ==
    /\ pc[t] = "fork" /\ Free = {} /\ \E v \in todo[t] : Kind[v] = "stack"
    /\ state' = [state EXCEPT ![child[t]] = "dead"]
    /\ child' = [child EXCEPT ![t] = None] /\ todo' = [todo EXCEPT ![t] = {}]
    /\ Resume(t)
    /\ UNCHANGED <<pt, frames, panic, mem>>

\* The child's first thread becomes runnable
ForkDone(t, u) ==
    /\ pc[t] = "fork" /\ todo[t] = {} /\ ProcOf[u] = child[t]
    /\ state' = [state EXCEPT ![child[t]] = "live"]
    /\ pc' = [pc EXCEPT ![t] = "user", ![u] = "user"]
    /\ child' = [child EXCEPT ![t] = None]
    /\ mem' = [mem EXCEPT ![child[t]] = mem[ProcOf[t]]]
    /\ UNCHANGED <<pt, frames, va, new, old, todo, panic>>

-----------------------------------------------------------------------------
(* free_mm *)

\* uvmunmap: one page
Unmap(p, v) ==
    /\ state[p] = "dead" /\ Present(p, v)
    /\ IF refcnt[pt[p][v].frame] = 0
       THEN panic' = TRUE /\ UNCHANGED <<pt, refcnt>>
       ELSE /\ refcnt' = [refcnt EXCEPT ![pt[p][v].frame] = @ - 1]
            /\ setpte(p, v, NoPte) /\ UNCHANGED panic
    /\ UNCHANGED <<state, content, pc, va, new, old, fork, mem>>

FreeProc(p) ==
    /\ state[p] = "dead" /\ \A v \in Va : ~Present(p, v)
    /\ state' = [state EXCEPT ![p] = "unused"]
    /\ mem' = [mem EXCEPT ![p] = [v \in Private |-> 0]]
    /\ UNCHANGED <<pt, frames, pc, va, new, old, fork, panic>>

-----------------------------------------------------------------------------
Next ==
    /\ ~panic
    /\ \/ \E t \in Thread :
            \/ Exit(t) \/ Alloc(t) \/ Map(t) \/ cow(t) \/ CowNoMem(t) \/ SetPte(t) \/ Kfree(t)
            \/ ForkNoMem(t)
            \/ \E v \in Va : FaultAbsent(t, v) \/ FaultCow(t, v) \/ FaultBad(t, v) \/ ForkPage(t, v)
            \/ \E v \in Va, val \in Value : Store(t, v, val)
            \/ \E u \in Thread : ForkDone(t, u)
            \/ \E q \in Proc : ForkStart(t, q)
       \/ \E p \in Proc : FreeProc(p) \/ \E v \in Va : Unmap(p, v)

Spec == Init /\ [][Next]_vars

\* Processes with several threads
ThreadsSpec == Init /\ [][Next \/ (~panic /\ \E t, u \in Thread : CloneThread(t, u))]_vars

-----------------------------------------------------------------------------
(* Properties *)

TypeOK ==
    /\ state \in [Proc -> {"unused", "forking", "live", "dead"}]
    /\ pt \in [Proc -> [Va -> PTE]]
    /\ content \in [Frame -> Value] /\ refcnt \in [Frame -> Nat]
    /\ pc \in [Thread -> {"none", "user", "alloc", "map", "cow", "set", "kfree", "fork"}]
    /\ va \in [Thread -> Va \cup {None}]
    /\ new \in [Thread -> Frame \cup {None}] /\ old \in [Thread -> Frame \cup {None}]
    /\ child \in [Thread -> Proc \cup {None}] /\ todo \in [Thread -> SUBSET Va]
    /\ mem \in [Proc -> [Private -> Value]] /\ panic \in BOOLEAN

\* No page is mapped twice and no frame is given back without a reference
\* (the panics of mappages and kfree).
NoPanic == ~panic

\* The places that hold references, and the frame that each holds: the entries, and faults
\* between kmalloc and mappages ("new") or between the change of an entry and kfree ("old")
Ref == (Proc \X Va) \cup (Thread \X {"new", "old"})
target ==
    [r \in Ref |->
       IF r[2] = "new" THEN new[r[1]]
       ELSE IF r[2] = "old" THEN (IF pc[r[1]] = "kfree" THEN old[r[1]] ELSE None)
       ELSE pt[r[1]][r[2]].frame]
Holders(f) == {r \in Ref : target[r] = f}

\* Types; and the reference count of a frame is the number of its holders: a frame is not freed
\* under a process and none is lost (share_page in uvmcopy, kfree in cow and uvmunmap).
RefcntIsHolders == TypeOK /\ \A f \in Frame : refcnt[f] = Cardinality(Holders(f))

\* A frame that one process can write to is in no other page table entry, except for shared
\* file mappings; and a process never loses its right to write to its own memory: a writable
\* private page is not taken for read-only after any number of forks.  This is what PTE_SHARE,
\* PTE_READONLY and PTE_W are for.
RightToWrite ==
    /\ \A p, q \in Proc, v, w \in Va :
          pt[p][v].W /\ Kind[v] # "shared" /\ pt[q][w].frame = pt[p][v].frame => <<p, v>> = <<q, w>>
    /\ \A p \in Proc, v \in Va :
          Kind[v] = "private" /\ Present(p, v) => pt[p][v].W \/ is_a_cow_page(pt[p][v])

\* The private memory that a process sees
MemoryOf(p) == [v \in Private |-> IF Present(p, v) THEN content[pt[p][v].frame] ELSE 0]

\* Lazy allocation and copy-on-write implement private memory: a process finds what
\* it stored itself or had from its parent when it was forked, never what another
\* process stored since.
PrivateMemory == \A p \in Proc : state[p] = "live" => MemoryOf(p) = mem[p]

=============================================================================
