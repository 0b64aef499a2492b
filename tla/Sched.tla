------------------------------- MODULE Sched -------------------------------
(***************************************************************************)
(* The thread scheduler of LostWakeupOS: thread_scheduler, thread_sched,   *)
(* thread_yield and TCB_Q_changeState (src/src/proc/sched.c), the sleeping *)
(* and waking halves of cond_wait, cond_signal and thread_send_signal, and *)
(* the life of a TCB (alloc_thread, do_clone, do_exit, free_thread).       *)
(*                                                                         *)
(* The protocol under study is the hand-over of t->lock: a thread takes    *)
(* its own lock, moves itself to a state queue, and swtch()es away; the    *)
(* scheduler of the same hart drops the lock.  Dispatch takes the lock and *)
(* the resumed thread drops it.  Everything between two lock operations of *)
(* one hart that touches only what the lock protects is one step.          *)
(***************************************************************************)
EXTENDS Queues

CONSTANTS CPU,        \* harts
          Thread,     \* the TCBs of the array thread[NTCB]
          InitThread, \* the thread of initproc, published by userinit
          None,       \* the null pointer / a free lock
          MaxTkill    \* bound on the signals sent to threads

ASSUME NoneAssumption == None \notin CPU /\ None \notin Thread
ASSUME InitThreadAssumption == InitThread \in Thread
ASSUME MaxTkillAssumption == MaxTkill \in Nat

VARIABLES
    state,          \* t->state
    tlock,          \* t->lock.cpu: the hart that holds t->lock, or None
    context,        \* "live" on a hart's stack, "saved" by swtch, "fresh" from alloc_thread
    phase,          \* where t is in the hand-over protocol
    job,            \* how far t is in do_clone
    child,          \* the TCB t is building in do_clone
    unused_t_q, used_t_q, sleeping_t_q,  \* state queues whose order nobody reads
    runnable_t_q,   \* the FIFO the schedulers take from
    thread,         \* c->thread
    cpc,            \* where the scheduler loop of hart c is
    popped,         \* the TCB that thread_scheduler on c removed from runnable_t_q
    hold,           \* a TCB whose lock c holds to wake or publish it
    tkills          \* signals sent so far

queues == <<unused_t_q, used_t_q, sleeping_t_q, runnable_t_q>>
threadVars == <<state, tlock, context, phase, job, child>>
cpuVars == <<thread, cpc, popped, hold>>
vars == <<threadVars, queues, cpuVars, tkills>>

TCBState == {"UNUSED", "USED", "RUNNABLE", "RUNNING", "SLEEPING"}

Init ==
    /\ state = [t \in Thread |-> IF t = InitThread THEN "RUNNABLE" ELSE "UNUSED"]
    /\ context = [t \in Thread |-> IF t = InitThread THEN "fresh" ELSE "saved"]
    /\ unused_t_q = Thread \ {InitThread}
    /\ runnable_t_q = <<InitThread>>
    /\ used_t_q = {}
    /\ sleeping_t_q = {}
    /\ tlock = [t \in Thread |-> None]
    /\ phase = [t \in Thread |-> "off"]
    /\ job = [t \in Thread |-> "none"]
    /\ child = [t \in Thread |-> None]
    /\ thread = [c \in CPU |-> None]
    /\ cpc = [c \in CPU |-> "idle"]
    /\ popped = [c \in CPU |-> None]
    /\ hold = [c \in CPU |-> None]
    /\ tkills = 0

(***************************************************************************)
(* TCB_Q_changeState: leave the queue of the old state, join the queue of  *)
(* the new one, set the state.  A RUNNING thread, and one that a           *)
(* Queue_provide_atomic has already taken out, is on no queue and          *)
(* list_del_reinit does nothing.                                           *)
(***************************************************************************)
Place(q, t, here) == IF here THEN q \cup {t} ELSE q \ {t}

\* Mutant: the thread stays on the queue of its old state.
TCB_Q_changeState_NoRemove(t, new) ==
    /\ unused_t_q' = IF new = "UNUSED" THEN unused_t_q \cup {t} ELSE unused_t_q
    /\ used_t_q' = IF new = "USED" THEN used_t_q \cup {t} ELSE used_t_q
    /\ sleeping_t_q' = IF new = "SLEEPING" THEN sleeping_t_q \cup {t} ELSE sleeping_t_q
    /\ runnable_t_q' = IF new = "RUNNABLE" THEN Append(runnable_t_q, t) ELSE runnable_t_q
    /\ state' = [state EXCEPT ![t] = new]

TCB_Q_changeState(t, new) ==
    /\ unused_t_q' = Place(unused_t_q, t, new = "UNUSED")
    /\ used_t_q' = Place(used_t_q, t, new = "USED")
    /\ sleeping_t_q' = Place(sleeping_t_q, t, new = "SLEEPING")
    /\ runnable_t_q' = IF new = "RUNNABLE" THEN Append(Remove(runnable_t_q, t), t)
                                           ELSE Remove(runnable_t_q, t)
    /\ state' = [state EXCEPT ![t] = new]

\* Mutant: acquire does not test what amoswap returned.
acquire_NoSpin(t, c) == tlock' = [tlock EXCEPT ![t] = c]

acquire(t, c) == tlock[t] = None /\ tlock' = [tlock EXCEPT ![t] = c]
release(t) == tlock' = [tlock EXCEPT ![t] = None]

\* Mutant: acquire does not disable interrupts (push_off is missing).
Preemptible_NoPushOff(c) == cpc[c] = "thread" /\ phase[thread[c]] = "on"

\* Hart c executes thread code with interrupts enabled: no spinlock is held.
Preemptible(c) ==
    /\ cpc[c] = "thread"
    /\ phase[thread[c]] = "on"
    /\ hold[c] = None

-----------------------------------------------------------------------------
(* thread_scheduler *)

\* t = Queue_provide_atomic(&runnable_t_q, 1)
SchedulerPop(c) ==
    /\ cpc[c] = "idle" /\ hold[c] = None
    /\ runnable_t_q # <<>>
    /\ popped' = [popped EXCEPT ![c] = Head(runnable_t_q)]
    /\ runnable_t_q' = Tail(runnable_t_q)
    /\ cpc' = [cpc EXCEPT ![c] = "popped"]
    /\ UNCHANGED <<threadVars, unused_t_q, used_t_q, sleeping_t_q, thread, hold, tkills>>

\* acquire(&t->lock); t->state = TCB_RUNNING; c->thread = t; swtch(&c->context, &t->context)
SchedulerDispatch(c) ==
    LET t == popped[c] IN
    /\ cpc[c] = "popped" /\ hold[c] = None
    /\ acquire(t, c)
    /\ state' = [state EXCEPT ![t] = "RUNNING"]
    /\ context' = [context EXCEPT ![t] = "live"]
    /\ phase' = [phase EXCEPT ![t] = "resume"]
    /\ thread' = [thread EXCEPT ![c] = t]
    /\ popped' = [popped EXCEPT ![c] = None]
    /\ cpc' = [cpc EXCEPT ![c] = "thread"]
    /\ UNCHANGED <<job, child, queues, hold, tkills>>

\* Mutant: the scheduler forgets release(&t->lock).
SchedulerRelease_KeepsLock(c) ==
    /\ cpc[c] = "back"
    /\ thread' = [thread EXCEPT ![c] = None]
    /\ cpc' = [cpc EXCEPT ![c] = "idle"]
    /\ UNCHANGED <<threadVars, queues, popped, hold, tkills>>

\* back from swtch: c->thread = 0; release(&t->lock)
SchedulerRelease(c) ==
    /\ cpc[c] = "back"
    /\ release(thread[c])
    /\ thread' = [thread EXCEPT ![c] = None]
    /\ cpc' = [cpc EXCEPT ![c] = "idle"]
    /\ UNCHANGED <<state, context, phase, job, child, queues, popped, hold, tkills>>

-----------------------------------------------------------------------------
(* The running thread's side of the hand-over *)

\* release(&t->lock) after thread_sched returns, or in thread_forkret.
Resume(c) ==
    LET t == thread[c] IN
    /\ cpc[c] = "thread" /\ phase[t] = "resume"
    /\ release(t)
    /\ phase' = [phase EXCEPT ![t] = "on"]
    /\ UNCHANGED <<state, context, job, child, queues, cpuVars, tkills>>

\* Mutant: the thread queues itself without taking its lock.
LeaveTo_NoLock(c, new) ==
    LET t == thread[c] IN
    /\ Preemptible(c)
    /\ TCB_Q_changeState(t, new)
    /\ phase' = [phase EXCEPT ![t] = "leave"]
    /\ UNCHANGED <<tlock, context, job, child, cpuVars, tkills>>

\* acquire(&t->lock); TCB_Q_changeState(t, new); on the way into thread_sched
LeaveTo(c, new) ==
    LET t == thread[c] IN
    /\ Preemptible(c)
    /\ acquire(t, c)
    /\ TCB_Q_changeState(t, new)
    /\ phase' = [phase EXCEPT ![t] = "leave"]
    /\ UNCHANGED <<context, job, child, cpuVars, tkills>>

thread_yield(c) == LeaveTo(c, "RUNNABLE")

\* The first half of cond_wait and futex_wait.
cond_wait(c) == Preemptible(c) /\ job[thread[c]] = "none" /\ LeaveTo(c, "SLEEPING")

\* The end of do_exit: acquire(&t->lock); free_thread(t); thread_sched().
\* initproc does not exit: exit_process panics.
do_exit(c) ==
    /\ Preemptible(c) /\ job[thread[c]] = "none"
    /\ thread[c] # InitThread
    /\ LeaveTo(c, "UNUSED")

\* swtch(&thread->context, &t_mycpu()->context)
thread_sched(c) ==
    LET t == thread[c] IN
    /\ cpc[c] = "thread" /\ phase[t] = "leave"
    /\ context' = [context EXCEPT ![t] = "saved"]
    /\ phase' = [phase EXCEPT ![t] = "off"]
    /\ cpc' = [cpc EXCEPT ![c] = "back"]
    /\ UNCHANGED <<state, tlock, job, child, queues, thread, popped, hold, tkills>>

-----------------------------------------------------------------------------
(* Waking another thread, from a thread or from an interrupt handler *)

Interruptible(c) == hold[c] = None /\ (cpc[c] \in {"idle", "popped"} \/ Preemptible(c))

\* The waking half of cond_signal, futex_wakeup and thread_wakeup_atomic.
cond_signal(c, t) ==
    /\ Interruptible(c)
    /\ state[t] = "SLEEPING"
    /\ acquire(t, c)
    /\ TCB_Q_changeState(t, "RUNNABLE")
    /\ hold' = [hold EXCEPT ![c] = t]
    /\ UNCHANGED <<context, phase, job, child, thread, cpc, popped, tkills>>

\* do_tkill: acquire(&t->lock); thread_send_signal wakes t if it sleeps
do_tkill(c, t) ==
    /\ Interruptible(c)
    /\ tkills < MaxTkill
    /\ tkills' = tkills + 1
    /\ acquire(t, c)
    /\ IF state[t] = "SLEEPING" THEN TCB_Q_changeState(t, "RUNNABLE")
                                ELSE UNCHANGED <<state, queues>>
    /\ hold' = [hold EXCEPT ![c] = t]
    /\ UNCHANGED <<context, phase, job, child, thread, cpc, popped>>

\* release(&t->lock) of cond_signal, do_tkill, do_clone and create_proc
Unlock(c) ==
    /\ hold[c] # None
    /\ release(hold[c])
    /\ hold' = [hold EXCEPT ![c] = None]
    /\ UNCHANGED <<state, context, phase, job, child, queues, thread, cpc, popped, tkills>>

-----------------------------------------------------------------------------
(* do_clone *)

\* alloc_thread: t = Queue_provide_atomic(&unused_t_q, 1)
AllocPop(c, u) ==
    LET t == thread[c] IN
    /\ Preemptible(c) /\ job[t] = "none"
    /\ u \in unused_t_q
    /\ unused_t_q' = unused_t_q \ {u}
    /\ job' = [job EXCEPT ![t] = "popped"]
    /\ child' = [child EXCEPT ![t] = u]
    /\ UNCHANGED <<state, tlock, context, phase, used_t_q, sleeping_t_q, runnable_t_q,
                   cpuVars, tkills>>

\* the rest of alloc_thread, which returns holding the new thread's lock
alloc_thread(c) ==
    LET t == thread[c] u == child[t] IN
    /\ Preemptible(c) /\ job[t] = "popped"
    /\ acquire(u, c)
    /\ context' = [context EXCEPT ![u] = "fresh"]
    /\ TCB_Q_changeState(u, "USED")
    /\ job' = [job EXCEPT ![t] = "built"]
    /\ hold' = [hold EXCEPT ![c] = u]
    /\ UNCHANGED <<phase, child, thread, cpc, popped, tkills>>

\* CLONE_THREAD: TCB_Q_changeState(t, TCB_RUNNABLE) under the lock of alloc_thread
CloneThread(c) ==
    LET t == thread[c] IN
    /\ cpc[c] = "thread" /\ phase[t] = "on"
    /\ job[t] = "built" /\ hold[c] = child[t]
    /\ TCB_Q_changeState(child[t], "RUNNABLE")
    /\ job' = [job EXCEPT ![t] = "none"]
    /\ child' = [child EXCEPT ![t] = None]
    /\ UNCHANGED <<tlock, context, phase, cpuVars, tkills>>

\* a new process: create_proc has released the lock, do_clone takes it again
CloneProc(c) ==
    LET t == thread[c] IN
    /\ Preemptible(c) /\ job[t] = "built"
    /\ acquire(child[t], c)
    /\ TCB_Q_changeState(child[t], "RUNNABLE")
    /\ hold' = [hold EXCEPT ![c] = child[t]]
    /\ job' = [job EXCEPT ![t] = "none"]
    /\ child' = [child EXCEPT ![t] = None]
    /\ UNCHANGED <<context, phase, thread, cpc, popped, tkills>>

-----------------------------------------------------------------------------
Next ==
    \E c \in CPU :
        \/ SchedulerPop(c) \/ SchedulerDispatch(c) \/ SchedulerRelease(c)
        \/ Resume(c) \/ thread_yield(c) \/ cond_wait(c) \/ do_exit(c) \/ thread_sched(c)
        \/ Unlock(c) \/ alloc_thread(c) \/ CloneThread(c) \/ CloneProc(c)
        \/ \E t \in Thread : cond_signal(c, t) \/ do_tkill(c, t) \/ AllocPop(c, t)

Spec == Init /\ [][Next]_vars

(***************************************************************************)
(* Fairness.  A hart never stops executing its scheduler or kernel code    *)
(* (weak fairness of each hand-over step).  The scheduler loop runs with   *)
(* interrupts enabled and goes on between two interrupts (strong fairness  *)
(* of its two steps).  A timer interrupt is latched until interrupts are   *)
(* enabled, so a hart that is preemptible again and again is preempted     *)
(* (strong fairness of thread_yield).  Nothing makes a thread sleep, exit, *)
(* clone or signal.                                                        *)
(***************************************************************************)
Fairness ==
    \A c \in CPU :
        /\ SF_vars(SchedulerPop(c)) /\ SF_vars(SchedulerDispatch(c))
        /\ WF_vars(SchedulerRelease(c)) /\ WF_vars(Resume(c))
        /\ WF_vars(thread_sched(c)) /\ WF_vars(Unlock(c))
        /\ SF_vars(thread_yield(c))

FairSpec == Spec /\ Fairness

-----------------------------------------------------------------------------
(* Properties *)

\* Every variable has its type: TCB states, lock owners, per-hart slots; past
\* its NULL test thread_scheduler has a TCB in hand.
TypeOK ==
    /\ state \in [Thread -> TCBState]
    /\ tlock \in [Thread -> CPU \cup {None}]
    /\ context \in [Thread -> {"live", "saved", "fresh"}]
    /\ phase \in [Thread -> {"off", "resume", "on", "leave"}]
    /\ job \in [Thread -> {"none", "popped", "built"}]
    /\ child \in [Thread -> Thread \cup {None}]
    /\ unused_t_q \subseteq Thread
    /\ used_t_q \subseteq Thread
    /\ sleeping_t_q \subseteq Thread
    /\ runnable_t_q \in Seq(Thread)
    /\ thread \in [CPU -> Thread \cup {None}]
    /\ cpc \in [CPU -> {"idle", "popped", "thread", "back"}]
    /\ popped \in [CPU -> Thread \cup {None}]
    /\ hold \in [CPU -> Thread \cup {None}]
    /\ tkills \in 0..MaxTkill
    /\ \A c \in CPU : cpc[c] = "popped" => popped[c] \in Thread

\* No two harts have the same c->thread: a thread that is already back on
\* runnable_t_q is not started elsewhere before its hart has left its stack.
OneHartPerThread ==
    \A c, d \in CPU : c # d /\ thread[c] # None => thread[c] # thread[d]

\* thread_scheduler can only pass acquire(&t->lock) for a thread whose context
\* was written by swtch or by alloc_thread, never for one that still executes.
DispatchesSavedContext ==
    \A c \in CPU :
        cpc[c] = "popped" /\ tlock[popped[c]] = None
            => context[popped[c]] \in {"saved", "fresh"}

\* A TCB that do_exit has put on unused_t_q is not given its new context by
\* alloc_thread while the exiting thread still runs on the TCB's kernel stack:
\* swtch would then overwrite the new context with the dead thread's.
FreshContextSurvives ==
    \A t \in Thread :
        state[t] = "USED" => context[t] = "fresh" /\ \A c \in CPU : thread[c] # t

\* t->state and the state queues agree whenever t->lock is free, except for a
\* TCB that one scheduler, or one do_clone, has just taken out of its queue.
StateMatchesQueue ==
    \A t \in Thread :
        tlock[t] = None =>
            /\ t \in sleeping_t_q <=> state[t] = "SLEEPING"
            /\ t \in used_t_q <=> state[t] = "USED"
            /\ (t \in unused_t_q \/ \E u \in Thread : job[u] = "popped" /\ child[u] = t)
                   <=> state[t] = "UNUSED"
            /\ (InQueue(runnable_t_q, t) \/ \E c \in CPU : popped[c] = t)
                   <=> state[t] = "RUNNABLE"

\* No lost and no duplicated dispatch: a thread is on runnable_t_q at most once
\* and not while a scheduler has it in hand.
RunnableOnce ==
    /\ NoDuplicates(runnable_t_q)
    /\ \A c \in CPU : popped[c] # None => ~ InQueue(runnable_t_q, popped[c])

\* thread_sched's panic("sched locks"): a hart that switches away holds the
\* lock of the thread it leaves and no other thread's.
SchedLocks ==
    \A c \in CPU :
        cpc[c] = "thread" /\ phase[thread[c]] = "leave"
            => {t \in Thread : tlock[t] = c} = {thread[c]}

\* A thread on runnable_t_q gets a hart: the FIFO and the latched timer
\* interrupt leave no RUNNABLE thread behind.
RunnableRuns ==
    \A t \in Thread : state[t] = "RUNNABLE" ~> state[t] = "RUNNING"

-----------------------------------------------------------------------------
(* The scheduler implements AbstractSched *)

OnHart(t) == \E c \in CPU : thread[c] = t
st == [t \in Thread |-> IF OnHart(t) THEN "RUNNING" ELSE state[t]]

Abs == INSTANCE AbstractSched WITH st <- st, on <- thread

\* Seen through st, thread_scheduler and its callers only start ready threads,
\* on idle harts, and a thread that left is ready again only once its hart has
\* left its stack, however the queue and lock operations interleave.
ImplementsAbstractSched == Abs!Spec

(***************************************************************************)
(* The inductive invariant behind these properties.                        *)
(***************************************************************************)

\* What hart c is doing determines its slots.
HartInv ==
    \A c \in CPU :
        /\ thread[c] # None <=> cpc[c] \in {"thread", "back"}
        /\ popped[c] # None <=> cpc[c] = "popped"
        /\ hold[c] # None => tlock[hold[c]] = c
        /\ cpc[c] = "thread" => phase[thread[c]] \in {"resume", "on", "leave"}
        /\ cpc[c] = "back" => phase[thread[c]] = "off" /\ hold[c] = None
        /\ cpc[c] = "thread" /\ phase[thread[c]] # "on" => hold[c] = None

\* A hart holds t->lock only to hand t over or on behalf of hold[c].
LockInv ==
    \A t \in Thread : \A c \in CPU :
        /\ tlock[t] = c => hold[c] = t \/ (thread[c] = t /\ phase[t] # "on")
        /\ thread[c] = t /\ phase[t] # "on" => tlock[t] = c

\* A thread executes on at most one hart, and is off all stacks otherwise.
StackInv ==
    /\ OneHartPerThread
    /\ \A t \in Thread :
        /\ phase[t] # "off" => \E c \in CPU : thread[c] = t /\ cpc[c] = "thread"
        /\ state[t] = "RUNNING" <=> phase[t] \in {"resume", "on"}
        /\ context[t] = "live" <=> phase[t] # "off"
        /\ phase[t] = "leave" => state[t] \in {"RUNNABLE", "SLEEPING", "UNUSED"}
        /\ state[t] = "USED" => context[t] = "fresh" /\ ~ OnHart(t)

\* The state queues, with the TCBs that are in flight between two of them.
QueueInv ==
    /\ RunnableOnce
    /\ \A c, d \in CPU : c # d /\ popped[c] # None => popped[c] # popped[d]
    /\ \A t \in Thread :
        /\ t \in sleeping_t_q <=> state[t] = "SLEEPING"
        /\ t \in used_t_q <=> state[t] = "USED"
        /\ state[t] = "UNUSED" <=>
               t \in unused_t_q \/ \E u \in Thread : job[u] = "popped" /\ child[u] = t
        /\ state[t] = "RUNNABLE" <=>
               InQueue(runnable_t_q, t) \/ \E c \in CPU : popped[c] = t

\* A do_clone owns the TCB it builds.
CloneInv ==
    /\ \A u \in Thread :
        /\ job[u] = "none" <=> child[u] = None
        /\ job[u] = "popped" => child[u] \notin unused_t_q
        /\ job[u] = "built" => state[child[u]] = "USED"
    /\ \A u, v \in Thread : u # v /\ job[u] # "none" => child[u] # child[v]

IInv == TypeOK /\ HartInv /\ LockInv /\ StackInv /\ QueueInv /\ CloneInv

=============================================================================
