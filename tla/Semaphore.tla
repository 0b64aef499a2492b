----------------------------- MODULE Semaphore -----------------------------
(***************************************************************************)
(* Kernel semaphores (src/src/atomic/semaphore.c) on top of condition      *)
(* variables (src/src/atomic/cond.c): one semaphore S and the threads that *)
(* call sema_wait and sema_signal on it.  The steps are the sections under *)
(* S->sem_lock, t->lock and the lock of the waiting queue.  A thread that  *)
(* is woken is dispatched with its lock held and drops it (module Sched);  *)
(* here that is one step.                                                  *)
(***************************************************************************)
EXTENDS Integers, Queues, FiniteSets

CONSTANTS Thread,     \* threads that use S
          None,       \* a free lock / no thread
          InitValue,  \* the value given to sema_init
          MaxAvail,   \* bound on the tokens in S
          MutexUse    \* TRUE: S is used as a lock (inode, buffer); FALSE: as an event counter

ASSUME SemaphoreAssumption ==
    /\ None \notin Thread
    /\ InitValue \in Nat /\ MaxAvail \in Nat /\ MutexUse \in BOOLEAN

VARIABLES
    value, wakeup,    \* S->value, S->wakeup
    sem_lock,         \* the holder of S->sem_lock
    waiting_queue,    \* S->sem_cond.waiting_queue
    tlock,            \* the holder of t->lock
    state,            \* t->state: SLEEPING, or RUNNABLE for everything that executes
    wait_chan_entry,  \* t->wait_chan_entry
    killed,           \* t->killed
    pc, target,       \* where t is in semaphore.c and cond.c; the thread cond_signal popped
    held,             \* threads between sema_wait and sema_signal (for MutexUse)
    panic             \* the panic or failed ASSERT that stopped the kernel, or "no"

semVars == <<value, wakeup, sem_lock, waiting_queue, held>>
tcbVars == <<tlock, state, wait_chan_entry, killed, pc, target>>
vars == <<semVars, tcbVars, panic>>

Init ==
    /\ value = InitValue /\ wakeup = 0
    /\ sem_lock = None /\ waiting_queue = <<>>
    /\ tlock = [t \in Thread |-> None]
    /\ state = [t \in Thread |-> "RUNNABLE"]
    /\ wait_chan_entry = [t \in Thread |-> "NULL"]
    /\ killed = [t \in Thread |-> FALSE]
    /\ pc = [t \in Thread |-> "user"]
    /\ target = [t \in Thread |-> None]
    /\ held = {}
    /\ panic = "no"

goto(t, label) == pc' = [pc EXCEPT ![t] = label]

\* Tokens that a sema_wait can take without a further sema_signal.
Avail == wakeup + (IF value > 0 THEN value ELSE 0)

-----------------------------------------------------------------------------
(* sema_wait and cond_wait *)

\* Mutant: the value is tested before it is decremented.
sema_wait_OffByOne(t) ==
    /\ pc[t] = "user" /\ sem_lock = None
    /\ MutexUse => t \notin held
    /\ value' = value - 1
    /\ IF value < 0
       THEN goto(t, "cond_wait") /\ sem_lock' = t /\ UNCHANGED held
       ELSE held' = held \cup {t} /\ UNCHANGED <<pc, sem_lock>>
    /\ UNCHANGED <<wakeup, waiting_queue, tlock, state, wait_chan_entry, killed, target, panic>>

\* acquire(&S->sem_lock); S->value--; done if it is not negative
sema_wait(t) ==
    /\ pc[t] = "user" /\ sem_lock = None
    /\ MutexUse => t \notin held
    /\ value' = value - 1
    /\ IF value - 1 < 0
       THEN goto(t, "cond_wait") /\ sem_lock' = t /\ UNCHANGED held
       ELSE held' = held \cup {t} /\ UNCHANGED <<pc, sem_lock>>
    /\ UNCHANGED <<wakeup, waiting_queue, tlock, state, wait_chan_entry, killed, target, panic>>

\* cond_wait up to release(mutex), t->lock still held
cond_wait(t) ==
    /\ pc[t] = "cond_wait" /\ tlock[t] = None
    /\ tlock' = [tlock EXCEPT ![t] = t]
    /\ state' = [state EXCEPT ![t] = "SLEEPING"]
    /\ waiting_queue' = Append(waiting_queue, t)
    /\ wait_chan_entry' = [wait_chan_entry EXCEPT ![t] = "queue"]
    /\ sem_lock' = None
    /\ goto(t, "swtch")
    /\ UNCHANGED <<value, wakeup, killed, target, held, panic>>

\* thread_sched: swtch, and the scheduler drops t->lock
thread_sched(t) ==
    /\ pc[t] = "swtch"
    /\ tlock' = [tlock EXCEPT ![t] = None]
    /\ goto(t, "asleep")
    /\ UNCHANGED <<semVars, state, wait_chan_entry, killed, target, panic>>

\* Dispatched again: killed = t->killed; release(&t->lock); do_exit(-1) if killed
Resume(t) ==
    /\ pc[t] = "asleep" /\ state[t] = "RUNNABLE" /\ tlock[t] = None
    /\ goto(t, IF killed[t] THEN "dead" ELSE "reacquire")
    /\ UNCHANGED <<semVars, tlock, state, wait_chan_entry, killed, target, panic>>

\* acquire(mutex); while (S->wakeup == 0) wait again; S->wakeup--
Reacquire(t) ==
    /\ pc[t] = "reacquire" /\ sem_lock = None
    /\ IF wakeup = 0
       THEN sem_lock' = t /\ goto(t, "cond_wait") /\ UNCHANGED <<wakeup, held>>
       ELSE /\ wakeup' = wakeup - 1 /\ held' = held \cup {t}
            /\ goto(t, "user") /\ UNCHANGED sem_lock
    /\ UNCHANGED <<value, waiting_queue, tlock, state, wait_chan_entry, killed, target, panic>>

-----------------------------------------------------------------------------
(* sema_signal and cond_signal *)

\* Mutant: < 0 for <= 0, the last waiter is not woken.
sema_signal_Less(t) ==
    /\ pc[t] = "user" /\ sem_lock = None
    /\ IF MutexUse THEN t \in held ELSE Avail < MaxAvail
    /\ value' = value + 1
    /\ held' = held \ {t}
    /\ IF value + 1 < 0
       THEN wakeup' = wakeup + 1 /\ sem_lock' = t /\ goto(t, "isempty")
       ELSE UNCHANGED <<wakeup, sem_lock, pc>>
    /\ UNCHANGED <<waiting_queue, tlock, state, wait_chan_entry, killed, target, panic>>

\* Mutant: the wakeup is recorded but cond_signal is not called.
sema_signal_NoCond(t) ==
    /\ pc[t] = "user" /\ sem_lock = None
    /\ IF MutexUse THEN t \in held ELSE Avail < MaxAvail
    /\ value' = value + 1
    /\ held' = held \ {t}
    /\ wakeup' = IF value + 1 <= 0 THEN wakeup + 1 ELSE wakeup
    /\ UNCHANGED <<sem_lock, waiting_queue, tcbVars, panic>>

sema_signal(t) ==
    /\ pc[t] = "user" /\ sem_lock = None
    /\ IF MutexUse THEN t \in held ELSE Avail < MaxAvail
    /\ value' = value + 1
    /\ held' = held \ {t}
    /\ IF value + 1 <= 0
       THEN wakeup' = wakeup + 1 /\ sem_lock' = t /\ goto(t, "isempty")
       ELSE UNCHANGED <<wakeup, sem_lock, pc>>
    /\ UNCHANGED <<waiting_queue, tlock, state, wait_chan_entry, killed, target, panic>>

\* if (!Queue_isempty_atomic(&cond->waiting_queue))
QueueTest(t) ==
    /\ pc[t] = "isempty"
    /\ IF waiting_queue = <<>> THEN goto(t, "user") /\ sem_lock' = None
                               ELSE goto(t, "provide") /\ UNCHANGED sem_lock
    /\ UNCHANGED <<value, wakeup, waiting_queue, held, tlock, state, wait_chan_entry,
                   killed, target, panic>>

\* t = Queue_provide_atomic(&cond->waiting_queue, 1): NULL when the queue was
\* emptied since the test, and &t->lock is taken before the test for NULL
QueueProvide(t) ==
    /\ pc[t] = "provide"
    /\ IF waiting_queue = <<>>
       THEN panic' = "NULL thread" /\ UNCHANGED <<waiting_queue, target, pc>>
       ELSE /\ target' = [target EXCEPT ![t] = Head(waiting_queue)]
            /\ waiting_queue' = Tail(waiting_queue)
            /\ goto(t, "wake") /\ UNCHANGED panic
    /\ UNCHANGED <<value, wakeup, sem_lock, held, tlock, state, wait_chan_entry, killed>>

\* acquire(&t->lock), the checks, RUNNABLE, release; then release(&S->sem_lock)
cond_signal(t) ==
    LET u == target[t] IN
    /\ pc[t] = "wake" /\ tlock[u] = None
    /\ IF state[u] # "SLEEPING" \/ wait_chan_entry[u] = "NULL"
       THEN panic' = "not sleeping" /\ UNCHANGED <<state, wait_chan_entry, sem_lock, target, pc>>
       ELSE /\ state' = [state EXCEPT ![u] = "RUNNABLE"]
            /\ wait_chan_entry' = [wait_chan_entry EXCEPT ![u] = "NULL"]
            /\ sem_lock' = None
            /\ target' = [target EXCEPT ![t] = None]
            /\ goto(t, "user") /\ UNCHANGED panic
    /\ UNCHANGED <<value, wakeup, waiting_queue, held, tlock, killed>>

-----------------------------------------------------------------------------
\* Steps of a thread that is inside semaphore.c.
Progress(t) ==
    \/ cond_wait(t) \/ thread_sched(t) \/ Resume(t) \/ Reacquire(t)
    \/ QueueTest(t) \/ QueueProvide(t) \/ cond_signal(t)

Step(t) == sema_wait(t) \/ sema_signal(t) \/ Progress(t)

Next == panic = "no" /\ \E t \in Thread : Step(t)

Spec == Init /\ [][Next]_vars

(***************************************************************************)
(* Fairness.  A thread inside semaphore.c goes on; a hart that spins on    *)
(* sem_lock while it is released again and again gets it, and a thread     *)
(* that has S as a lock calls sema_signal (strong fairness).  Nobody has   *)
(* to call sema_wait.                                                      *)
(***************************************************************************)
Fairness ==
    \A t \in Thread :
        /\ WF_vars(panic = "no" /\ Progress(t))
        /\ SF_vars(panic = "no" /\ Reacquire(t))
        /\ SF_vars(panic = "no" /\ MutexUse /\ sema_signal(t))

FairSpec == Init /\ [][Next]_vars /\ Fairness

-----------------------------------------------------------------------------
(* Properties *)

\* Threads inside sema_wait that have not got their token.
Waiters == {t \in Thread : pc[t] \in {"cond_wait", "swtch", "asleep", "reacquire"}}

\* Types; a thread inside cond_signal's lock section has popped a thread.
TypeOK ==
    /\ value \in Int /\ wakeup \in Nat
    /\ sem_lock \in Thread \cup {None}
    /\ waiting_queue \in Seq(Thread)
    /\ tlock \in [Thread -> Thread \cup {None}]
    /\ state \in [Thread -> {"RUNNABLE", "SLEEPING"}]
    /\ wait_chan_entry \in [Thread -> {"queue", "NULL"}]
    /\ killed \in [Thread -> BOOLEAN]
    /\ pc \in [Thread -> {"user", "cond_wait", "swtch", "asleep", "reacquire",
                          "isempty", "provide", "wake", "dead"}]
    /\ target \in [Thread -> Thread \cup {None}]
    /\ held \subseteq Thread
    /\ panic \in {"no", "NULL thread", "not sleeping", "no channel"}
    /\ \A t \in Thread : pc[t] = "wake" => target[t] \in Thread

\* None of the panics and assertions of cond_signal and thread_wakeup fires.
NoPanic == panic = "no"

\* Conservation: a negative value counts, with the wakeups under way, exactly
\* the threads inside sema_wait.
WaitersCounted ==
    Cardinality(Waiters) = wakeup + (IF value < 0 THEN - value ELSE 0)

\* No lost wakeup: outside sema_signal every wakeup that S records has a waiter
\* that is awake, or about to be dispatched, to take it.
NoLostWakeup ==
    (\A t \in Thread : pc[t] \notin {"isempty", "provide", "wake"})
        => Cardinality({t \in Waiters : state[t] = "RUNNABLE" /\ pc[t] # "cond_wait"})
              >= wakeup

\* A sleeper is on the waiting queue, or cond_signal has it in hand: it cannot
\* be forgotten.
SleeperReachable ==
    \A t \in Thread :
        state[t] = "SLEEPING" =>
            \/ InQueue(waiting_queue, t)
            \/ \E u \in Thread : pc[u] = "wake" /\ target[u] = t

\* Used as a lock, S admits at most InitValue threads.
MutualExclusion == MutexUse => Cardinality(held) <= InitValue

\* Used as a lock, S lets every thread that waits in: value reserves the token
\* for the waiters, so later callers do not overtake.
EveryWaiterGetsIn == \A t \in Thread : t \in Waiters ~> t \in held

-----------------------------------------------------------------------------
(* The semaphore implements an atomic counting semaphore. *)
Abs == INSTANCE AbstractSemaphore WITH avail <- Avail

\* Through Avail, a thread leaves sema_wait by taking one token, atomically and
\* only when there is one, and sema_signal adds exactly one.
ImplementsCounter == Abs!Spec

-----------------------------------------------------------------------------
(* The inductive invariant behind TypeOK, NoPanic and SleeperReachable *)

\* t is asleep in cond_wait and every record of it says so.
Asleep(t) ==
    /\ state[t] = "SLEEPING" /\ wait_chan_entry[t] = "queue"
    /\ pc[t] \in {"swtch", "asleep"}

SleepInv ==
    /\ \A t \in Thread :
        /\ sem_lock = t <=> pc[t] \in {"cond_wait", "isempty", "provide", "wake"}
        /\ pc[t] = "provide" => waiting_queue # <<>>
        /\ pc[t] = "wake" => Asleep(target[t]) /\ ~ InQueue(waiting_queue, target[t])
        /\ InQueue(waiting_queue, t) => Asleep(t)
        /\ state[t] = "SLEEPING" =>
               InQueue(waiting_queue, t) \/ \E u \in Thread : pc[u] = "wake" /\ target[u] = t
        /\ pc[t] \notin {"swtch", "asleep"} => state[t] = "RUNNABLE"
    /\ NoDuplicates(waiting_queue)

\* Used as a lock: the tokens in S and the threads inside add up.
TokenInv ==
    MutexUse =>
        /\ IsFiniteSet(held) /\ Cardinality(held) + Avail = InitValue
        /\ \A t \in Waiters : t \notin held

SemInv == TypeOK /\ NoPanic /\ SleepInv /\ TokenInv

=============================================================================
