------------------------------- MODULE Futex -------------------------------
(***************************************************************************)
(* Futexes (src/src/atomic/futex.c) with the timers of thread_sched        *)
(* (src/src/proc/sched.c, src/src/lib/timer.c).  Threads of one or more    *)
(* processes wait on user addresses, wake and requeue.  Steps are the      *)
(* sections under p->lock, t->lock, futex_map.lock and timer_head.lock;    *)
(* user code stores to the futex word with no lock at all.                 *)
(* clockintr runs beside the threads.  It holds timer_head.lock exactly    *)
(* while fire, the expired timers it has still to serve, is not empty.     *)
(***************************************************************************)
EXTENDS Queues, FiniteSets

CONSTANTS Thread, Proc, None,
          ProcOf,      \* the process of each thread
          Addr,        \* user virtual addresses of futex words
          FutexId,     \* memory blocks that kzalloc hands out for a struct futex
          MaxStore,    \* bound: stores to one word
          Programs     \* what programs do: timeouts, the kinds of timeout of futex_wait: "NULL"
                       \* (none), "zero32" (its low 32 bits are 0), "set"; ops, the other
                       \* calls: "wake", "requeue"

ASSUME FutexAssumption ==
    /\ ProcOf \in [Thread -> Proc] /\ None \notin Thread \cup FutexId
    /\ MaxStore \in Nat
    /\ Programs \subseteq [timeouts : SUBSET {"NULL", "zero32", "set"}, ops : SUBSET {"wake", "requeue"}]

VARIABLES
    prog,             \* the program; it does not change
    word,             \* the futex words in user memory, per process
    plock, tlock,     \* holders of p->lock and t->lock
    futex_map,        \* address -> futex (the hash table has no process in its key)
    live,             \* allocated futexes
    waiting_queue,    \* fp->waiting_queue
    state,            \* t->state: SLEEPING, or RUNNABLE for everything that executes
    wait_chan_entry,  \* t->wait_chan_entry
    timers, fire,     \* timer_head: threads with a timer; those being served by clockintr
    pc, call,         \* where each thread is, and its arguments and locals
    panic

mapVars == <<futex_map, live>>
tcbVars == <<tlock, state, wait_chan_entry>>
timerVars == <<timers, fire>>
vars == <<prog, word, plock, mapVars, waiting_queue, tcbVars, timerVars, pc, call, panic>>

All == Cardinality(Thread)
NoCall == [uaddr |-> None, val |-> 0, time_out |-> "NULL", nr_wake |-> 0, uaddr2 |-> None,
           nr_requeue |-> 0, fp |-> None, fp_new |-> None, target |-> None]

Init ==
    /\ prog \in Programs
    /\ word = [p \in Proc |-> [a \in Addr |-> 0]]
    /\ plock = [p \in Proc |-> None] /\ tlock = [t \in Thread |-> None]
    /\ futex_map = [a \in Addr |-> None] /\ live = {}
    /\ waiting_queue = [f \in FutexId |-> <<>>]
    /\ state = [t \in Thread |-> "RUNNABLE"]
    /\ wait_chan_entry = [t \in Thread |-> None]
    /\ timers = {} /\ fire = {}
    /\ pc = [t \in Thread |-> "user"] /\ call = [t \in Thread |-> NoCall]
    /\ panic = "no"

lockOf(t) == plock[ProcOf[t]]
acquireP(t) == lockOf(t) = None /\ plock' = [plock EXCEPT ![ProcOf[t]] = t]
releaseP(t) == plock' = [plock EXCEPT ![ProcOf[t]] = None]
goto(t, label) == pc' = [pc EXCEPT ![t] = label]
Return(t) == goto(t, "user") /\ call' = [call EXCEPT ![t] = NoCall]
Panics(what) == panic' = what

\* User code: change the futex word; the wake or requeue call follows.
Store(t, a) ==
    /\ pc[t] = "user" /\ prog.ops # {} /\ word[ProcOf[t]][a] < MaxStore
    /\ word' = [word EXCEPT ![ProcOf[t]][a] = @ + 1]
    /\ call' = [call EXCEPT ![t] = [NoCall EXCEPT !.uaddr = a]]
    /\ goto(t, "stored")
    /\ UNCHANGED <<plock, mapVars, waiting_queue, tcbVars, timerVars, panic>>

-----------------------------------------------------------------------------
(* futex_wait *)

\* Mutant: the word is not compared with the value the caller has read.
futex_wait_NoCompare(t, a, ts) ==
    /\ pc[t] = "user" /\ acquireP(t)
    /\ \E v \in 0..word[ProcOf[t]][a] :
        call' = [call EXCEPT ![t] = [NoCall EXCEPT !.uaddr = a, !.time_out = ts, !.val = v]]
    /\ goto(t, "lookup")
    /\ UNCHANGED <<word, mapVars, waiting_queue, tcbVars, timerVars, panic>>

\* acquire(&p->lock); the word still has the value the caller expects (the call
\* returns without effect when it does not)
futex_wait(t, a, ts) ==
    /\ pc[t] = "user" /\ acquireP(t)
    /\ call' = [call EXCEPT ![t] = [NoCall EXCEPT !.uaddr = a, !.time_out = ts,
                                                  !.val = word[ProcOf[t]][a]]]
    /\ goto(t, "lookup")
    /\ UNCHANGED <<word, mapVars, waiting_queue, tcbVars, timerVars, panic>>

\* The address get_futex is called with, the field its result goes to, and the
\* code that follows: futex_wait itself or futex_requeue (uaddr2).
key(t) == IF call[t].uaddr2 = None THEN call[t].uaddr ELSE call[t].uaddr2
GotFutex(t, f) ==
    IF call[t].uaddr2 = None
    THEN call' = [call EXCEPT ![t].fp = f] /\ goto(t, "sleep")
    ELSE call' = [call EXCEPT ![t].fp_new = f] /\ goto(t, "move")

\* get_futex: hash_lookup
get_futex(t) ==
    /\ pc[t] = "lookup"
    /\ IF futex_map[key(t)] # None THEN GotFutex(t, futex_map[key(t)])
                                   ELSE goto(t, "insert") /\ UNCHANGED call
    /\ UNCHANGED <<word, plock, mapVars, waiting_queue, tcbVars, timerVars, panic>>

\* get_futex: kzalloc, futex_init, hash_insert, which frees a value it replaces
hash_insert(t) ==
    /\ pc[t] = "insert"
    /\ \E f \in FutexId \ live :
        /\ waiting_queue' = [waiting_queue EXCEPT ![f] = <<>>]
        /\ live' = (live \ {futex_map[key(t)]}) \cup {f}
        /\ futex_map' = [futex_map EXCEPT ![key(t)] = f]
        /\ GotFutex(t, f)
    /\ UNCHANGED <<word, plock, tcbVars, timerVars, panic>>

\* Mutant: the thread is queued while its state is still RUNNING.
Sleep_StillRunning(t) ==
    /\ pc[t] = "sleep" /\ tlock[t] = None
    /\ tlock' = [tlock EXCEPT ![t] = t]
    /\ waiting_queue' = [waiting_queue EXCEPT ![call[t].fp] = Append(@, t)]
    /\ wait_chan_entry' = [wait_chan_entry EXCEPT ![t] = call[t].fp]
    /\ releaseP(t)
    /\ goto(t, "sched")
    /\ UNCHANGED <<word, mapVars, state, timerVars, call, panic>>

\* From acquire(&t->lock) to thread_sched: asleep and queued before p->lock is dropped.
Sleep(t) ==
    /\ pc[t] = "sleep" /\ tlock[t] = None
    /\ tlock' = [tlock EXCEPT ![t] = t]
    /\ state' = [state EXCEPT ![t] = "SLEEPING"]
    /\ waiting_queue' = [waiting_queue EXCEPT ![call[t].fp] = Append(@, t)]
    /\ wait_chan_entry' = [wait_chan_entry EXCEPT ![t] = call[t].fp]
    /\ releaseP(t)
    /\ goto(t, "sched")
    /\ UNCHANGED <<word, mapVars, timerVars, call, panic>>

\* int set_timer = thread->time_out: the low 32 bits decide
set_timer(t) == call[t].time_out = "set"

\* Mutant: the inverted list_empty test of add_timer_atomic, on the list head.
thread_sched_NoTimer(t) ==
    /\ pc[t] = "sched" /\ fire = {}
    /\ timers' = IF timers # {} THEN timers \cup {t} ELSE timers
    /\ tlock' = [tlock EXCEPT ![t] = None]
    /\ goto(t, "asleep")
    /\ UNCHANGED <<word, plock, mapVars, waiting_queue, state, wait_chan_entry, fire, call, panic>>

\* thread_sched: add_timer_atomic, swtch; the scheduler drops t->lock
thread_sched(t) ==
    /\ pc[t] = "sched"
    /\ IF set_timer(t) THEN fire = {} /\ timers' = timers \cup {t} ELSE UNCHANGED timers
    /\ tlock' = [tlock EXCEPT ![t] = None]
    /\ goto(t, "asleep")
    /\ UNCHANGED <<word, plock, mapVars, waiting_queue, state, wait_chan_entry, fire, call, panic>>

\* Dispatched again, t->lock held by the scheduler's hand-over
Resume(t) ==
    /\ pc[t] = "asleep" /\ state[t] = "RUNNABLE" /\ tlock[t] = None
    /\ IF set_timer(t)
       THEN tlock' = [tlock EXCEPT ![t] = t] /\ goto(t, "delete") /\ UNCHANGED call
       ELSE Return(t) /\ UNCHANGED tlock
    /\ UNCHANGED <<word, plock, mapVars, waiting_queue, state, wait_chan_entry, timerVars, panic>>

\* Mutant: the timer stays on the list when the thread goes on.
delete_timer_atomic_Kept(t) ==
    /\ pc[t] = "delete" /\ fire = {}
    /\ tlock' = [tlock EXCEPT ![t] = None]
    /\ Return(t)
    /\ UNCHANGED <<word, plock, mapVars, waiting_queue, state, wait_chan_entry, timerVars, panic>>

\* thread_sched after swtch: delete_timer_atomic; futex_wait: release(&t->lock)
delete_timer_atomic(t) ==
    /\ pc[t] = "delete" /\ fire = {}
    /\ timers' = timers \ {t}
    /\ tlock' = [tlock EXCEPT ![t] = None]
    /\ Return(t)
    /\ UNCHANGED <<word, plock, mapVars, waiting_queue, state, wait_chan_entry, fire, panic>>

-----------------------------------------------------------------------------
(* futex_wakeup *)

\* futex_free: hash_delete frees the value that the address has now
futex_free(a) ==
    /\ live' = live \ {futex_map[a]}
    /\ futex_map' = [futex_map EXCEPT ![a] = None]

\* acquire(&p->lock); get_futex(uaddr, 1); a missing futex ends the call.
\* futex_requeue begins with this call.
WakeStart(t, a, n, b, m) ==
    /\ \/ pc[t] = "user"
       \/ pc[t] = "stored" /\ a = call[t].uaddr /\ n + m >= All
    /\ acquireP(t)
    /\ call' = [call EXCEPT ![t] = [NoCall EXCEPT !.uaddr = a, !.fp = futex_map[a], !.nr_wake = n,
                                                  !.uaddr2 = b, !.nr_requeue = m]]
    /\ goto(t, IF futex_map[a] = None THEN "waked" ELSE "wake")
    /\ UNCHANGED <<word, mapVars, waiting_queue, tcbVars, timerVars, panic>>

futex_wakeup(t, a, n) == "wake" \in prog.ops /\ WakeStart(t, a, n, None, 0)
futex_requeue(t, a, n, b, m) == "requeue" \in prog.ops /\ WakeStart(t, a, n, b, m)

\* The head of a queue, removed by Queue_provide_atomic; it must be SLEEPING.
Provide(t, f, label) ==
    LET h == Head(waiting_queue[f]) IN
    /\ waiting_queue' = [waiting_queue EXCEPT ![f] = Tail(@)]
    /\ IF state[h] # "SLEEPING"
       THEN Panics("futex : this thread is not sleeping") /\ UNCHANGED <<pc, call>>
       ELSE call' = [call EXCEPT ![t].target = h] /\ goto(t, label) /\ UNCHANGED panic

WakeMore(t) == waiting_queue[call[t].fp] # <<>> /\ call[t].nr_wake > 0

\* The loop of futex_wakeup takes the next thread; its state is read without its lock
WakePop(t) ==
    /\ pc[t] = "wake" /\ WakeMore(t)
    /\ Provide(t, call[t].fp, "wakelock")
    /\ UNCHANGED <<word, plock, mapVars, tcbVars, timerVars>>

\* acquire(&t->lock); ASSERT(t->wait_chan_entry != NULL); make it RUNNABLE
WakeLock(t) ==
    LET h == call[t].target IN
    /\ pc[t] = "wakelock" /\ tlock[h] = None
    /\ IF wait_chan_entry[h] = None
       THEN Panics("ASSERT in futex_wakeup") /\ UNCHANGED <<state, wait_chan_entry, pc, call>>
       ELSE /\ wait_chan_entry' = [wait_chan_entry EXCEPT ![h] = None]
            /\ state' = [state EXCEPT ![h] = "RUNNABLE"]
            /\ call' = [call EXCEPT ![t].nr_wake = @ - 1, ![t].target = None]
            /\ goto(t, "wake") /\ UNCHANGED panic
    /\ UNCHANGED <<word, plock, mapVars, waiting_queue, tlock, timerVars>>

\* Mutant: an empty futex is kept.
WakeEnd_NoFree(t) ==
    /\ pc[t] = "wake" /\ ~WakeMore(t)
    /\ goto(t, "waked")
    /\ UNCHANGED <<word, plock, mapVars, waiting_queue, tcbVars, timerVars, call, panic>>

\* The loop is over: an empty futex is freed
WakeEnd(t) ==
    /\ pc[t] = "wake" /\ ~WakeMore(t)
    /\ IF waiting_queue[call[t].fp] = <<>> THEN futex_free(call[t].uaddr) ELSE UNCHANGED mapVars
    /\ goto(t, "waked")
    /\ UNCHANGED <<word, plock, waiting_queue, tcbVars, timerVars, call, panic>>

\* release(&p->lock); futex_requeue goes on
WakeReturn(t) ==
    /\ pc[t] = "waked" /\ releaseP(t)
    /\ IF call[t].uaddr2 = None THEN Return(t) ELSE goto(t, "requeue") /\ UNCHANGED call
    /\ UNCHANGED <<word, mapVars, waiting_queue, tcbVars, timerVars, panic>>

-----------------------------------------------------------------------------
(* futex_requeue, after its futex_wakeup *)

\* acquire(&p->lock) again; fp_old = get_futex(uaddr1, 1)
RequeueStart(t) ==
    /\ pc[t] = "requeue" /\ lockOf(t) = None
    /\ IF futex_map[call[t].uaddr] = None
       THEN Return(t) /\ UNCHANGED plock
       ELSE /\ acquireP(t) /\ goto(t, "lookup")
            /\ call' = [call EXCEPT ![t].fp = futex_map[call[t].uaddr]]
    /\ UNCHANGED <<word, mapVars, waiting_queue, tcbVars, timerVars, panic>>

MoveMore(t) == waiting_queue[call[t].fp] # <<>> /\ call[t].nr_requeue > 0

MovePop(t) ==
    /\ pc[t] = "move" /\ MoveMore(t)
    /\ Provide(t, call[t].fp, "push")
    /\ UNCHANGED <<word, plock, mapVars, tcbVars, timerVars>>

\* Mutant: the thread taken off the first queue is not put on the second.
MovePush_Dropped(t) ==
    /\ pc[t] = "push"
    /\ call' = [call EXCEPT ![t].nr_requeue = @ - 1, ![t].target = None]
    /\ goto(t, "move")
    /\ UNCHANGED <<word, plock, mapVars, waiting_queue, tcbVars, timerVars, panic>>

\* Queue_push_back_atomic; wait_chan_entry still names the old queue
MovePush(t) ==
    /\ pc[t] = "push"
    /\ waiting_queue' = [waiting_queue EXCEPT ![call[t].fp_new] = Append(@, call[t].target)]
    /\ call' = [call EXCEPT ![t].nr_requeue = @ - 1, ![t].target = None]
    /\ goto(t, "move")
    /\ UNCHANGED <<word, plock, mapVars, tcbVars, timerVars, panic>>

\* The old futex is freed when it is empty; release(&p->lock)
MoveEnd(t) ==
    /\ pc[t] = "move" /\ ~MoveMore(t)
    /\ IF waiting_queue[call[t].fp] = <<>> THEN futex_free(call[t].uaddr) ELSE UNCHANGED mapVars
    /\ releaseP(t) /\ Return(t)
    /\ UNCHANGED <<word, waiting_queue, tcbVars, timerVars, panic>>

-----------------------------------------------------------------------------
(* clockintr: timer_list_decrease_atomic and thread_wakeup_atomic *)

\* acquire(&timer_head.lock); some of the timers have expired
ClockStart(S) ==
    /\ fire = {} /\ S # {} /\ fire' = S
    /\ UNCHANGED <<word, plock, mapVars, waiting_queue, tcbVars, timers, pc, call, panic>>

\* One expired timer: wake its thread under t->lock, take the timer off the list
thread_wakeup_atomic(t) ==
    /\ t \in fire /\ tlock[t] = None
    /\ IF wait_chan_entry[t] = None \/ state[t] # "SLEEPING"
       THEN /\ Panics("ASSERT in thread_wakeup_atomic")
            /\ UNCHANGED <<waiting_queue, wait_chan_entry, state, timerVars>>
       ELSE /\ waiting_queue' = [f \in FutexId |-> Remove(waiting_queue[f], t)]
            /\ wait_chan_entry' = [wait_chan_entry EXCEPT ![t] = None]
            /\ state' = [state EXCEPT ![t] = "RUNNABLE"]
            /\ timers' = timers \ {t} /\ fire' = fire \ {t}
            /\ UNCHANGED panic
    /\ UNCHANGED <<word, plock, mapVars, tlock, pc, call>>

-----------------------------------------------------------------------------
(* What a thread does once its call has begun, and the calls *)
Progress(t) ==
    \/ get_futex(t) \/ hash_insert(t) \/ Sleep(t) \/ thread_sched(t)
    \/ Resume(t) \/ delete_timer_atomic(t)
    \/ WakePop(t) \/ WakeLock(t) \/ WakeEnd(t) \/ WakeReturn(t)
    \/ RequeueStart(t) \/ MovePop(t) \/ MovePush(t) \/ MoveEnd(t)

do_futex(t) ==
    \/ \E a \in Addr : Store(t, a)
    \/ \E a \in Addr, ts \in prog.timeouts : futex_wait(t, a, ts)
    \/ \E a \in Addr, n \in {1, All} : futex_wakeup(t, a, n)
    \/ \E a, b \in Addr, m \in {1, All} : futex_requeue(t, a, 1, b, m)

clockintr ==
    \/ \E S \in SUBSET timers : ClockStart(S)
    \/ \E t \in Thread : thread_wakeup_atomic(t)

Runs == panic = "no" /\ UNCHANGED prog

Next == Runs /\ (clockintr \/ \E t \in Thread : Progress(t) \/ do_futex(t))

Spec == Init /\ [][Next]_vars

\* A thread inside a call keeps running, a timer on the list expires, and clockintr
\* and the threads, which hold timer_head.lock briefly, do not shut each other out.
FairSpec ==
    /\ Spec
    /\ \A t \in Thread :
        /\ WF_vars(Runs /\ Progress(t))
        /\ WF_vars(Runs /\ thread_wakeup_atomic(t))
        /\ SF_vars(Runs /\ (thread_sched(t) \/ delete_timer_atomic(t)))
        /\ SF_vars(Runs /\ \E S \in SUBSET timers : t \in S /\ ClockStart(S))

-----------------------------------------------------------------------------
(* Properties *)

\* Types; at most nr_wake threads are woken and nr_requeue moved.
TypeOK ==
    /\ word \in [Proc -> [Addr -> 0..MaxStore]]
    /\ plock \in [Proc -> Thread \cup {None}] /\ tlock \in [Thread -> Thread \cup {None}]
    /\ futex_map \in [Addr -> FutexId \cup {None}] /\ live \subseteq FutexId
    /\ waiting_queue \in [FutexId -> Seq(Thread)]
    /\ state \in [Thread -> {"RUNNABLE", "SLEEPING"}]
    /\ wait_chan_entry \in [Thread -> FutexId \cup {None}]
    /\ fire \subseteq timers /\ timers \subseteq Thread
    /\ \A t \in Thread : call[t].nr_wake \in 0..All /\ call[t].nr_requeue \in 0..All

Timed == "set" \in prog.timeouts
Woken == "wake" \in prog.ops
Requeued == "requeue" \in prog.ops

\* No panic of futex_wakeup or futex_requeue and no failed ASSERT on
\* wait_chan_entry (futex.c:118, 121, 175; sched.c:102, 104), except where timeouts
\* and wakeups meet (see RacePanicFree).
NoPanic == ~(Timed /\ Woken) => panic = "no"

\* A timeout that meets a wakeup does no harm either: whichever of clockintr and
\* futex_wakeup comes second finds the thread awake (sched.c:102, 104; futex.c:118, 121).
RacePanicFree == panic = "no"

Targeted(t) == \E u \in Thread : call[u].target = t
QueuedAt(t, a) == futex_map[a] # None /\ InQueue(waiting_queue[futex_map[a]], t)

\* Types; and a sleeping thread can be found: it is on the queue of a futex that some
\* address maps to, or a waker has just taken it off.
SleeperQueued ==
    /\ TypeOK
    /\ \A t \in Thread : state[t] = "SLEEPING" => Targeted(t) \/ \E a \in Addr : QueuedAt(t, a)

\* A thread asleep on a word that has changed since futex_wait compared it will
\* be woken: the thread that stored has not finished its futex_wakeup.  (A waiter
\* that was requeued waits for another word.)
\* (copyin and the queueing are one section of p->lock, futex.c:52-66.)
NoLostWakeup ==
    ~Requeued => \A t \in Thread :
        LET p == ProcOf[t] IN
        (state[t] = "SLEEPING" /\ call[t].val # word[p][call[t].uaddr])
        => \E u \in Thread : /\ ProcOf[u] = p /\ call[u].uaddr = call[t].uaddr
                             /\ pc[u] \notin {"user", "sched", "asleep", "delete", "sleep"}

\* The table and the threads agree.  A futex without waiters is freed (futex.md:79): an empty
\* one is in the table only while a call on its address is under way; timeouts leave empty
\* ones behind.  And wait_chan_entry is "waiting queue entry" (tcb_life.h): for a sleeping
\* thread it is the queue of an allocated futex, the one the thread is on; futex_requeue
\* leaves it on the old queue.
FutexesCurrent ==
    /\ ~Timed => \A a \in Addr : (futex_map[a] # None /\ waiting_queue[futex_map[a]] = <<>>)
          => \E t \in Thread : /\ a \in {call[t].uaddr, call[t].uaddr2}
                               /\ pc[t] \notin {"user", "stored", "sched", "asleep", "delete"}
    /\ ~Requeued => \A t \in Thread : (state[t] = "SLEEPING" /\ ~Targeted(t))
          => wait_chan_entry[t] \in live /\ InQueue(waiting_queue[wait_chan_entry[t]], t)

\* A timer is a local of thread_sched: it is on the list only while that call lasts.
TimerInFrame == \A t \in timers : pc[t] \in {"asleep", "delete"}

\* A futex_wait with a timeout returns (futex.md:73).
TimedWaitReturns ==
    \A t \in Thread : (pc[t] = "asleep" /\ call[t].time_out # "NULL") ~> (pc[t] = "user")

=============================================================================
