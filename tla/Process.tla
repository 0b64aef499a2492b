------------------------------ MODULE Process ------------------------------
(***************************************************************************)
(* The life of processes (src/src/proc/pcb_life.c): clone, exit with       *)
(* reparenting to init, and waitpid.  An actor <<p, i>> is thread i of     *)
(* process p.  The semaphores sem_wait_chan_parent and sem_wait_chan_self  *)
(* are the atomic counters that module Semaphore implements; what is left  *)
(* are the sections under the p->lock of three processes at a time.        *)
(* A process is its PCB: pids are the PCBs they belong to.                 *)
(***************************************************************************)
EXTENDS Queues, FiniteSets

CONSTANTS Proc, Init1,   \* PCBs, and the one of initproc
          None,
          Tid,           \* the threads of a process; 1 is the one that clones and exits
          Faults         \* what may fail: "tcb" (alloc_thread), "copyout" (a bad status pointer)

ASSUME ProcessAssumption ==
    /\ Init1 \in Proc /\ None \notin Proc /\ 1 \in Tid /\ Tid \subseteq Nat
    /\ Faults \subseteq {"tcb", "copyout"}

Actor == Proc \X Tid
AnyPid == "any"         \* the pid argument -1

VARIABLES
    state,              \* p->state
    parent, children,   \* p->parent; first_child and sibling_list as a sequence
    plock,              \* the actor that holds p->lock
    wait_parent, wait_self,  \* sem_wait_chan_parent, sem_wait_chan_self
    pc, local,          \* where each actor is; its arguments and locals
    failed,             \* the kinds of faults that have happened so far
    panic

family == <<parent, children>>
sems == <<wait_parent, wait_self>>
vars == <<state, family, plock, sems, pc, local, failed, panic>>

NoLocal == [pid |-> None, first |-> None, pos |-> None, next |-> None]

Init ==
    /\ state = [p \in Proc |-> IF p = Init1 THEN "USED" ELSE "UNUSED"]
    /\ parent = [p \in Proc |-> None] /\ children = [p \in Proc |-> <<>>]
    /\ plock = [p \in Proc |-> None]
    /\ wait_parent = [p \in Proc |-> 0] /\ wait_self = [p \in Proc |-> 0]
    /\ pc = [a \in Actor |-> IF a = <<Init1, 1>> THEN "user" ELSE "dead"]
    /\ local = [a \in Actor |-> NoLocal]
    /\ failed = {} /\ panic = "no"

Fails(fault) == fault \in Faults /\ failed' = failed \cup {fault}
goto(a, label) == pc' = [pc EXCEPT ![a] = label]
Free(p) == plock[p] = None
acquire(p, a) == plock' = [plock EXCEPT ![p] = a]
release(p) == plock' = [plock EXCEPT ![p] = None]
Panics(what) == panic' = what
Return(a) == goto(a, "user") /\ local' = [local EXCEPT ![a] = NoLocal]

\* The next element of the circular sibling list that x is on, if it is on one.
NextSibling(x) ==
    LET On(p) == InQueue(children[p], x)
    IN  IF \E p \in Proc : On(p)
        THEN LET q == children[CHOOSE p \in Proc : On(p)]
                 i == CHOOSE j \in 1..Len(q) : q[j] = x
             IN  q[(i % Len(q)) + 1]
        ELSE x

deleteChild(p, x) == children' = [children EXCEPT ![p] = Remove(@, x)]
appendChild(p, x) == children' = [children EXCEPT ![p] = Append(@, x)]

-----------------------------------------------------------------------------
(* do_clone of a process *)

\* alloc_proc: a PCB of the unused queue, returned with its lock
alloc_proc(a, q) ==
    /\ pc[a] = "user" /\ a[2] = 1
    /\ state[q] = "UNUSED" /\ Free(q) /\ acquire(q, a)
    /\ state' = [state EXCEPT ![q] = "USED"]
    /\ children' = [children EXCEPT ![q] = <<>>]
    /\ wait_parent' = [wait_parent EXCEPT ![q] = 0] /\ wait_self' = [wait_self EXCEPT ![q] = 0]
    /\ local' = [local EXCEPT ![a] = [NoLocal EXCEPT !.pos = q]]
    /\ goto(a, "clone")
    /\ UNCHANGED <<parent, panic>>

\* create_proc when alloc_thread fails: free_proc, and return with the lock of
\* the PCB, which is on the unused queue again, still held
create_proc_fails(a) ==
    /\ pc[a] = "clone" /\ Fails("tcb")
    /\ state' = [state EXCEPT ![local[a].pos] = "UNUSED"]
    /\ parent' = [parent EXCEPT ![local[a].pos] = None]
    /\ Return(a)
    /\ UNCHANGED <<children, plock, sems, panic>>

\* np->parent = p; appendChild under p->lock; release both; the child is RUNNABLE
do_clone(a) ==
    LET p == a[1]  q == local[a].pos IN
    /\ pc[a] = "clone" /\ Free(p)
    /\ parent' = [parent EXCEPT ![q] = p] /\ appendChild(p, q)
    /\ release(q)
    /\ pc' = [b \in Actor |-> IF b[1] = q \/ b = a THEN "user" ELSE pc[b]]
    /\ local' = [b \in Actor |-> IF b[1] = q \/ b = a THEN NoLocal ELSE local[b]]
    /\ UNCHANGED <<state, sems, panic>>

-----------------------------------------------------------------------------
(* do_exit of the last thread: exit_process and reparent *)

\* The process of a has no other thread in a call; init does not exit.
exit_process(a) ==
    LET p == a[1]  none == children[p] = <<>> IN
    /\ pc[a] = "user" /\ a[2] = 1 /\ p # Init1
    /\ \A i \in Tid : pc[<<p, i>>] = "user"
    /\ local' = [local EXCEPT ![a] = [NoLocal EXCEPT !.pos = IF none THEN None ELSE Head(children[p])]]
    /\ pc' = [b \in Actor |-> IF b[1] # p THEN pc[b] ELSE
                              IF b # a THEN "dead" ELSE IF none THEN "zombie" ELSE "reparent"]
    /\ UNCHANGED <<state, family, plock, sems, panic>>

\* acquire(&p_child->lock)
reparent(a) ==
    /\ pc[a] = "reparent" /\ Free(local[a].pos) /\ acquire(local[a].pos, a)
    /\ local' = [local EXCEPT ![a].next = NextSibling(local[a].pos)]
    /\ goto(a, "delete")
    /\ UNCHANGED <<state, family, sems, panic>>

\* Mutant: p->lock is not released.
ReparentDelete_KeepsLock(a) ==
    /\ pc[a] = "delete" /\ Free(a[1]) /\ acquire(a[1], a)
    /\ deleteChild(a[1], local[a].pos)
    /\ goto(a, "append")
    /\ UNCHANGED <<state, parent, sems, local, panic>>

\* deleteChild(p, p_child) under p->lock
ReparentDelete(a) ==
    /\ pc[a] = "delete" /\ Free(a[1])
    /\ deleteChild(a[1], local[a].pos)
    /\ goto(a, "append")
    /\ UNCHANGED <<state, parent, plock, sems, local, panic>>

\* The loop goes on while p has children
ReparentNext(a) ==
    IF children[a[1]] # <<>>
    THEN local' = [local EXCEPT ![a].pos = local[a].next] /\ goto(a, "reparent")
    ELSE local' = [local EXCEPT ![a] = NoLocal] /\ goto(a, "zombie")

\* Mutant: init is not told of a zombie it inherits.
ReparentAppend_NoSignal(a) ==
    LET x == local[a].pos IN
    /\ pc[a] = "append" /\ Free(Init1)
    /\ appendChild(Init1, x) /\ parent' = [parent EXCEPT ![x] = Init1]
    /\ release(x) /\ ReparentNext(a)
    /\ UNCHANGED <<state, sems, panic>>

\* appendChild(initproc, p_child) under its lock; a zombie is announced again
ReparentAppend(a) ==
    LET x == local[a].pos IN
    /\ pc[a] = "append" /\ Free(Init1)
    /\ appendChild(Init1, x) /\ parent' = [parent EXCEPT ![x] = Init1]
    /\ wait_parent' = IF state[x] = "ZOMBIE" THEN [wait_parent EXCEPT ![Init1] = @ + 1] ELSE wait_parent
    /\ release(x) /\ ReparentNext(a)
    /\ UNCHANGED <<state, wait_self, panic>>

\* Mutant: the parent is told although the state is not changed.
ExitZombie_StillUsed(a) ==
    LET p == a[1] IN
    /\ pc[a] = "zombie" /\ Free(p) /\ acquire(p, a)
    /\ wait_parent' = [wait_parent EXCEPT ![parent[p]] = @ + 1]
    /\ goto(a, "signal")
    /\ UNCHANGED <<state, family, wait_self, local, panic>>

\* acquire(&p->lock); PCB_ZOMBIE; sema_signal(&p->parent->sem_wait_chan_parent)
ExitZombie(a) ==
    LET p == a[1] IN
    /\ pc[a] = "zombie" /\ Free(p) /\ acquire(p, a)
    /\ state' = [state EXCEPT ![p] = "ZOMBIE"]
    /\ wait_parent' = [wait_parent EXCEPT ![parent[p]] = @ + 1]
    /\ goto(a, "signal")
    /\ UNCHANGED <<family, wait_self, local, panic>>

\* sema_signal(&p->sem_wait_chan_self); do_exit releases p->lock and switches away
do_exit(a) ==
    /\ pc[a] = "signal"
    /\ wait_self' = [wait_self EXCEPT ![a[1]] = @ + 1]
    /\ release(a[1]) /\ goto(a, "dead")
    /\ UNCHANGED <<state, family, wait_parent, local, panic>>

-----------------------------------------------------------------------------
(* waitpid *)

\* A process without children returns at once (no change)
waitpid(a, pid) ==
    /\ pc[a] = "user" /\ children[a[1]] # <<>>
    /\ local' = [local EXCEPT ![a] = [NoLocal EXCEPT !.pid = pid]]
    /\ goto(a, "wait")
    /\ UNCHANGED <<state, family, plock, sems, panic>>

\* sema_wait(&p->sem_wait_chan_parent); the scan starts at the first child
WaitParent(a) ==
    LET kids == children[a[1]] IN
    /\ pc[a] = "wait" /\ wait_parent[a[1]] > 0
    /\ wait_parent' = [wait_parent EXCEPT ![a[1]] = @ - 1]
    /\ IF kids = <<>>
       THEN Panics("null first_child") /\ UNCHANGED <<local, pc>>
       ELSE /\ local' = [local EXCEPT ![a].first = Head(kids), ![a].pos = Head(kids),
                                      ![a].next = NextSibling(Head(kids))]
            /\ goto(a, "scan") /\ UNCHANGED panic
    /\ UNCHANGED <<state, family, plock, wait_self>>

\* A child with the pid asked for: sema_wait(&p_child->sem_wait_chan_self)
WaitSelf(a) ==
    LET x == local[a].pos IN
    /\ pc[a] = "scan"
    /\ IF local[a].pid = x THEN wait_self[x] > 0 /\ wait_self' = [wait_self EXCEPT ![x] = @ - 1]
                           ELSE UNCHANGED wait_self
    /\ goto(a, "lock")
    /\ UNCHANGED <<state, family, plock, wait_parent, local, panic>>

\* The next child; after the last one the wakeup was for nothing
Advance(a) ==
    IF local[a].next = local[a].first
    THEN Panics("waitpid : invalid wakeup for semaphore") /\ UNCHANGED <<local, pc>>
    ELSE /\ local' = [local EXCEPT ![a].pos = local[a].next, ![a].next = NextSibling(local[a].next)]
         /\ goto(a, "scan") /\ UNCHANGED panic

\* acquire(&p_child->lock); a ZOMBIE is freed: free_proc drops the lock for free_mm.
\* Any other child is skipped.
WaitLock(a) ==
    LET x == local[a].pos IN
    /\ pc[a] = "lock" /\ Free(x)
    /\ IF state[x] = "ZOMBIE" THEN goto(a, "free_mm") /\ UNCHANGED <<local, panic>> ELSE Advance(a)
    /\ UNCHANGED <<state, family, plock, sems>>

\* A status pointer that cannot be written: the call fails with the zombie in place
CopyoutFails(a) ==
    /\ pc[a] = "lock" /\ Fails("copyout")
    /\ Free(local[a].pos) /\ state[local[a].pos] = "ZOMBIE"
    /\ Return(a)
    /\ UNCHANGED <<state, family, plock, sems, panic>>

\* free_proc after free_mm: the lock again, PCB_UNUSED
free_proc(a) ==
    LET x == local[a].pos IN
    /\ pc[a] = "free_mm" /\ Free(x) /\ acquire(x, a)
    /\ state' = [state EXCEPT ![x] = "UNUSED"]
    /\ parent' = [parent EXCEPT ![x] = None]
    /\ goto(a, "unlink")
    /\ UNCHANGED <<children, sems, local, panic>>

\* Mutant: the freed PCB stays on the list of children.
WaitUnlink_Stays(a) ==
    LET x == local[a].pos IN
    /\ pc[a] = "unlink" /\ Free(a[1])
    /\ release(x) /\ Return(a)
    /\ UNCHANGED <<state, family, sems, panic>>

\* deleteChild(p, p_child) under p->lock; release both locks; return the pid
WaitUnlink(a) ==
    LET x == local[a].pos IN
    /\ pc[a] = "unlink" /\ Free(a[1])
    /\ deleteChild(a[1], x) /\ release(x) /\ Return(a)
    /\ UNCHANGED <<state, parent, sems, panic>>

-----------------------------------------------------------------------------
\* What an actor does once its call has begun.
Works(a) ==
    \/ do_clone(a)
    \/ reparent(a) \/ ReparentDelete(a) \/ ReparentAppend(a) \/ ExitZombie(a) \/ do_exit(a)
    \/ WaitParent(a) \/ WaitSelf(a) \/ WaitLock(a) \/ free_proc(a) \/ WaitUnlink(a)

Progress(a) == (Works(a) /\ UNCHANGED failed) \/ create_proc_fails(a) \/ CopyoutFails(a)

\* The calls; init waits for any child only (src/user/src/init.c).
Calls(a) ==
    \/ \E q \in Proc : alloc_proc(a, q)
    \/ exit_process(a)
    \/ \E pid \in {AnyPid} \cup (Proc \ {Init1}) : (a[1] = Init1 => pid = AnyPid) /\ waitpid(a, pid)

Next == panic = "no" /\ \E a \in Actor : Progress(a) \/ (Calls(a) /\ UNCHANGED failed)

Spec == Init /\ [][Next]_vars

\* Calls make progress, locks are not withheld for ever, and init calls wait in a
\* loop (src/user/src/init.c).
FairSpec ==
    /\ Spec
    /\ \A a \in Actor : SF_vars(panic = "no" /\ Progress(a))
    /\ WF_vars(panic = "no" /\ waitpid(<<Init1, 1>>, AnyPid) /\ UNCHANGED failed)

-----------------------------------------------------------------------------
(* Properties *)

TypeOK ==
    /\ state \in [Proc -> {"UNUSED", "USED", "ZOMBIE"}]
    /\ parent \in [Proc -> Proc \cup {None}] /\ children \in [Proc -> Seq(Proc)]
    /\ plock \in [Proc -> Actor \cup {None}]
    /\ wait_parent \in [Proc -> Nat] /\ wait_self \in [Proc -> 0..1]

\* waitpid never finds itself woken without a zombie child ("waitpid : invalid
\* wakeup for semaphore!", pcb_life.c:593), nor with no child at all.
NoPanic == panic = "no"

HasToken(a) == pc[a] \in {"scan", "lock", "free_mm"}
Tokens(p) == wait_parent[p] + Cardinality({i \in Tid : HasToken(<<p, i>>)})
Zombies(p) == {x \in Proc : InQueue(children[p], x) /\ state[x] = "ZOMBIE"}
Exiting(p) == \E i \in Tid : pc[<<p, i>>] \in {"reparent", "delete", "append", "zombie", "signal"}

\* The count of sem_wait_chan_parent is the number of zombie children not yet
\* claimed by a waitpid, also when the children of an exiting process, zombies
\* included, move to init (exit_process, reparent).  A waitpid whose copyout fails
\* keeps the token it has taken.
TokensMatchZombies ==
    "copyout" \notin failed => \A p \in Proc : (state[p] = "USED" /\ ~Exiting(p)) => Tokens(p) = Cardinality(Zombies(p))

\* Types; and the family tree: a process whose lock is free is on the list of its parent once, on
\* no other list, and its parent exists; an unused PCB is on no list.
FamilyTree ==
    /\ TypeOK
    /\ \A x \in Proc \ {Init1} : Free(x) =>
        /\ state[x] # "UNUSED" =>
            /\ parent[x] # None /\ InQueue(children[parent[x]], x)
            /\ state[parent[x]] = "USED" /\ NoDuplicates(children[parent[x]])
        /\ \A p \in Proc : InQueue(children[p], x) => state[x] # "UNUSED" /\ parent[x] = p

\* The p->lock an actor is about to take, holding others.
Wants(a) ==
    CASE pc[a] \in {"clone", "delete", "zombie", "unlink"} -> a[1]
      [] pc[a] \in {"reparent", "lock", "free_mm"} -> local[a].pos
      [] pc[a] = "append" -> Init1
      [] OTHER -> None

\* The locks of child, parent and init, which clone, exit and waitpid nest: no set of
\* actors, one alone included, waits for locks that only its members hold.
NoLockCycle ==
    \A S \in SUBSET Actor \ {{}} : \E a \in S : Wants(a) = None \/ plock[Wants(a)] \notin S

\* A zombie child of init is reaped, an inherited one included, unless a call has failed (the
\* loop of initproc, and exit_process, which hands over the token with the child).  All PCBs
\* but the one of init are interchangeable: one of them stands for the others.
OrphansReaped ==
    LET x == CHOOSE x \in Proc : x # Init1
    IN  (state[x] = "ZOMBIE" /\ parent[x] = Init1) ~> (state[x] = "UNUSED" \/ failed # {})

=============================================================================
