----------------------------- MODULE SchedProof -----------------------------
(***************************************************************************)
(* Proofs, for any number of harts and TCBs, of the safety properties of   *)
(* Sched, from the inductive invariant IInv, and that Sched refines        *)
(* AbstractSched.  The steps of a hart are in SchedSteps.                  *)
(***************************************************************************)
EXTENDS SchedSteps

\* Initialising the popped TCB under its lock (alloc_thread) keeps the inductive invariant.
LEMMA alloc_thread_Inv ==
    ASSUME IInv, NEW c \in CPU, alloc_thread(c)
    PROVE  IInv'
  <1> DEFINE u == child[thread[c]]
  <1>1. u \in Thread /\ ~ InQueue(runnable_t_q, u) /\ TCB_Q_changeState(u, "USED")
    BY DEF alloc_thread, Preemptible, acquire, IInv, TypeOK, HartInv, LockInv, StackInv,
           QueueInv, CloneInv, OneHartPerThread, RunnableOnce, OnHart, TCBState
  <1>2. runnable_t_q' \in Seq(Thread) /\ NoDuplicates(runnable_t_q')
                /\ \A x : InQueue(runnable_t_q', x) <=> InQueue(runnable_t_q, x) \/ ("USED" =
           "RUNNABLE" /\ x = u)
    BY <1>1, ChangeStateQueue DEF IInv, TypeOK, QueueInv, RunnableOnce
  <1> USE <1>1, <1>2, NoneAssumption, MaxTkillAssumption
       DEF alloc_thread, Preemptible, acquire, TCB_Q_changeState, Place, threadVars,
           queues, cpuVars, IInv, TypeOK, HartInv, LockInv, StackInv, QueueInv, CloneInv,
           OneHartPerThread, RunnableOnce, OnHart, TCBState
  <1>3. TypeOK'   OBVIOUS
  <1>4. HartInv'  OBVIOUS
  <1>5. LockInv'  OBVIOUS
  <1>6. StackInv' OBVIOUS
  <1>7. QueueInv' OBVIOUS
  <1>8. CloneInv' OBVIOUS
  <1> QED BY ONLY <1>3, <1>4, <1>5, <1>6, <1>7, <1>8 DEF IInv

\* Publishing a thread of the same process (CloneThread) keeps the inductive invariant.
LEMMA CloneThread_Inv ==
    ASSUME IInv, NEW c \in CPU, CloneThread(c)
    PROVE  IInv'
  <1> DEFINE u == child[thread[c]]
  <1>1. u \in Thread /\ ~ InQueue(runnable_t_q, u) /\ TCB_Q_changeState(u, "RUNNABLE")
    BY DEF CloneThread, IInv, TypeOK, HartInv, LockInv, StackInv, QueueInv, CloneInv,
           OneHartPerThread, RunnableOnce, OnHart, TCBState
  <1>2. runnable_t_q' \in Seq(Thread) /\ NoDuplicates(runnable_t_q')
        /\ \A x : InQueue(runnable_t_q', x) <=> InQueue(runnable_t_q, x) \/ x = u
    BY <1>1, ChangeStateQueue DEF IInv, TypeOK, QueueInv, RunnableOnce
  <1> USE <1>1, <1>2, NoneAssumption, MaxTkillAssumption
       DEF CloneThread, TCB_Q_changeState, Place, threadVars, queues, cpuVars, IInv,
           TypeOK, HartInv, LockInv, StackInv, QueueInv, CloneInv, OneHartPerThread,
           RunnableOnce, OnHart, TCBState
  <1>3. TypeOK'   OBVIOUS
  <1>4. HartInv'  OBVIOUS
  <1>5. LockInv'  OBVIOUS
  <1>6. StackInv' OBVIOUS
  <1>7. QueueInv' OBVIOUS
  <1>8. CloneInv' OBVIOUS
  <1> QED BY ONLY <1>3, <1>4, <1>5, <1>6, <1>7, <1>8 DEF IInv

\* Publishing the thread of a new process (CloneProc) keeps the inductive invariant.
LEMMA CloneProc_Inv ==
    ASSUME IInv, NEW c \in CPU, CloneProc(c)
    PROVE  IInv'
  <1> DEFINE u == child[thread[c]]
  <1>1. u \in Thread /\ ~ InQueue(runnable_t_q, u) /\ TCB_Q_changeState(u, "RUNNABLE")
    BY DEF CloneProc, Preemptible, acquire, IInv, TypeOK, HartInv, LockInv, StackInv,
           QueueInv, CloneInv, OneHartPerThread, RunnableOnce, OnHart, TCBState
  <1>2. runnable_t_q' \in Seq(Thread) /\ NoDuplicates(runnable_t_q')
        /\ \A x : InQueue(runnable_t_q', x) <=> InQueue(runnable_t_q, x) \/ x = u
    BY <1>1, ChangeStateQueue DEF IInv, TypeOK, QueueInv, RunnableOnce
  <1> USE <1>1, <1>2, NoneAssumption, MaxTkillAssumption
       DEF CloneProc, Preemptible, acquire, TCB_Q_changeState, Place, threadVars,
           queues, cpuVars, IInv, TypeOK, HartInv, LockInv, StackInv, QueueInv, CloneInv,
           OneHartPerThread, RunnableOnce, OnHart, TCBState
  <1>3. TypeOK'   OBVIOUS
  <1>4. HartInv'  OBVIOUS
  <1>5. LockInv'  OBVIOUS
  <1>6. StackInv' OBVIOUS
  <1>7. QueueInv' OBVIOUS
  <1>8. CloneInv' OBVIOUS
  <1> QED BY ONLY <1>3, <1>4, <1>5, <1>6, <1>7, <1>8 DEF IInv

\* Waking a sleeper (cond_signal) keeps the inductive invariant.
LEMMA cond_signal_Inv ==
    ASSUME IInv, NEW c \in CPU, NEW t \in Thread, cond_signal(c, t)
    PROVE  IInv'
  <1> DEFINE u == t
  <1>1. u \in Thread /\ ~ InQueue(runnable_t_q, u) /\ TCB_Q_changeState(u, "RUNNABLE")
    BY DEF cond_signal, Interruptible, Preemptible, acquire, IInv, TypeOK, HartInv, LockInv,
           StackInv, QueueInv, CloneInv, OneHartPerThread, RunnableOnce, OnHart, TCBState
  <1>2. runnable_t_q' \in Seq(Thread) /\ NoDuplicates(runnable_t_q')
        /\ \A x : InQueue(runnable_t_q', x) <=> InQueue(runnable_t_q, x) \/ x = u
    BY <1>1, ChangeStateQueue DEF IInv, TypeOK, QueueInv, RunnableOnce
  <1> USE <1>1, <1>2, NoneAssumption, MaxTkillAssumption
       DEF cond_signal, Interruptible, Preemptible, acquire, TCB_Q_changeState, Place, vars,
           threadVars, queues, cpuVars, IInv, TypeOK, HartInv, LockInv, StackInv, QueueInv,
           CloneInv, OneHartPerThread, RunnableOnce, OnHart, TCBState
  <1>3. TypeOK'   OBVIOUS
  <1>4. HartInv'  OBVIOUS
  <1>5. LockInv'  OBVIOUS
  <1>6. StackInv' OBVIOUS
  <1>7. QueueInv' OBVIOUS
  <1>8. CloneInv' OBVIOUS
  <1> QED BY ONLY <1>3, <1>4, <1>5, <1>6, <1>7, <1>8 DEF IInv

\* Taking a TCB from unused_t_q (AllocPop) keeps the inductive invariant.
LEMMA AllocPop_Inv ==
    ASSUME IInv, NEW c \in CPU, NEW t \in Thread, AllocPop(c, t)
    PROVE  IInv'
  <1> USE NoneAssumption, MaxTkillAssumption
       DEF AllocPop, Preemptible, threadVars, queues, cpuVars, IInv, TypeOK, HartInv,
           LockInv, StackInv, QueueInv, CloneInv, OneHartPerThread, RunnableOnce, OnHart,
           TCBState
  <1>3. TypeOK'   OBVIOUS
  <1>4. HartInv'  OBVIOUS
  <1>5. LockInv'  OBVIOUS
  <1>6. StackInv' OBVIOUS
  <1>7. QueueInv' OBVIOUS
  <1>8. CloneInv' OBVIOUS
  <1> QED BY ONLY <1>3, <1>4, <1>5, <1>6, <1>7, <1>8 DEF IInv

\* A signal (do_tkill) wakes a sleeper like cond_signal, or only takes the lock.
LEMMA do_tkill_Inv ==
    ASSUME IInv, NEW c \in CPU, NEW t \in Thread, do_tkill(c, t)
    PROVE  IInv'
  <1> USE NoneAssumption, MaxTkillAssumption DEF do_tkill, Interruptible, Preemptible, acquire
  <1>1. CASE state[t] = "SLEEPING"
    <2>1. ~ InQueue(runnable_t_q, t) /\ TCB_Q_changeState(t, "RUNNABLE")
      BY <1>1 DEF IInv, QueueInv
    <2>2. runnable_t_q' \in Seq(Thread) /\ NoDuplicates(runnable_t_q')
          /\ \A x : InQueue(runnable_t_q', x) <=> InQueue(runnable_t_q, x) \/ x = t
      BY <2>1, ChangeStateQueue DEF IInv, TypeOK, QueueInv, RunnableOnce
    <2> USE <1>1, <2>1, <2>2
       DEF TCB_Q_changeState, Place, IInv, TypeOK, HartInv, LockInv, StackInv, QueueInv,
           CloneInv, OneHartPerThread, RunnableOnce, OnHart, TCBState
    <2>3. TypeOK'   OBVIOUS
    <2>4. HartInv'  OBVIOUS
    <2>5. LockInv'  OBVIOUS
    <2>6. StackInv' OBVIOUS
    <2>7. QueueInv' OBVIOUS
    <2>8. CloneInv' OBVIOUS
    <2> QED BY ONLY <2>3, <2>4, <2>5, <2>6, <2>7, <2>8 DEF IInv
  <1>2. CASE state[t] # "SLEEPING"
    <2> USE <1>2
       DEF queues, IInv, TypeOK, HartInv, LockInv, StackInv, QueueInv, CloneInv,
           OneHartPerThread, RunnableOnce, OnHart, TCBState
    <2>1. TypeOK' /\ HartInv' /\ LockInv'    OBVIOUS
    <2>2. StackInv' /\ QueueInv' /\ CloneInv' OBVIOUS
    <2> QED BY <2>1, <2>2 DEF IInv
  <1> QED BY <1>1, <1>2

-----------------------------------------------------------------------------
(* The invariant and what it implies *)

\* The boot state, with /init's thread on runnable_t_q, satisfies the invariant.
LEMMA InitInv == Init => IInv
  <1> SUFFICES ASSUME Init PROVE IInv
    OBVIOUS
  <1> USE NoneAssumption, InitThreadAssumption, MaxTkillAssumption DEF Init
  <1>1. /\ runnable_t_q \in Seq(Thread) /\ NoDuplicates(runnable_t_q)
        /\ \A x : InQueue(runnable_t_q, x) <=> x = InitThread
    BY DEF InQueue, NoDuplicates
  <1> QED
    BY <1>1
       DEF IInv, TypeOK, HartInv, LockInv, StackInv, QueueInv, CloneInv, OneHartPerThread,
           RunnableOnce, OnHart, TCBState

\* Every step of every hart keeps the inductive invariant.
LEMMA NextInv == IInv /\ [Next]_vars => IInv'
  <1> SUFFICES ASSUME IInv, [Next]_vars PROVE IInv'
    OBVIOUS
  <1>1. CASE UNCHANGED vars
    BY <1>1
       DEF vars, threadVars, queues, cpuVars, InQueue, NoDuplicates, IInv, TypeOK, HartInv,
           LockInv, StackInv, QueueInv, CloneInv, OneHartPerThread, RunnableOnce, OnHart,
           TCBState
  <1>2. CASE Next
        BY <1>2, SchedulerPop_Inv, SchedulerDispatch_Inv, SchedulerRelease_Inv, Resume_Inv,
       thread_yield_Inv, cond_wait_Inv, do_exit_Inv, thread_sched_Inv, Unlock_Inv,
       alloc_thread_Inv, CloneThread_Inv, CloneProc_Inv, cond_signal_Inv, AllocPop_Inv,
       do_tkill_Inv
       DEF Next
  <1> QED BY <1>1, <1>2

\* The inductive invariant holds in every reachable state.
THEOREM Invariance == Spec => []IInv
  BY InitInv, NextInv, PTL DEF Spec

\* Type correctness of the scheduler.
THEOREM TypeCorrect == Spec => []TypeOK
  <1>1. IInv => TypeOK
    BY DEF IInv
  <1> QED BY <1>1, Invariance, PTL

\* A thread never runs on two harts, whatever the interleaving of yields,
\* wakeups, exits and dispatches.
THEOREM ThreadOnOneHart == Spec => []OneHartPerThread
  <1>1. IInv => OneHartPerThread
    BY DEF IInv, StackInv
  <1> QED BY <1>1, Invariance, PTL

\* thread_scheduler never switches to a context that swtch has not saved yet.
THEOREM ContextSavedBeforeDispatch == Spec => []DispatchesSavedContext
  <1>1. IInv => DispatchesSavedContext
    BY NoneAssumption
       DEF DispatchesSavedContext, IInv, TypeOK, HartInv, LockInv, StackInv, QueueInv,
           CloneInv, OneHartPerThread, RunnableOnce, OnHart, TCBState
  <1> QED BY <1>1, Invariance, PTL

\* A reused TCB keeps the context alloc_thread gave it: the thread that died on
\* its kernel stack has left.
THEOREM ReusedContextIntact == Spec => []FreshContextSurvives
  <1>1. IInv => FreshContextSurvives
    BY NoneAssumption
       DEF FreshContextSurvives, IInv, TypeOK, HartInv, LockInv, StackInv, QueueInv, CloneInv,
           OneHartPerThread, RunnableOnce, OnHart, TCBState
  <1> QED BY <1>1, Invariance, PTL

\* t->state and the state queues agree.
THEOREM StatesMatchQueues == Spec => []StateMatchesQueue
  <1>1. IInv => StateMatchesQueue
    BY DEF StateMatchesQueue, IInv, QueueInv
  <1> QED BY <1>1, Invariance, PTL

\* No thread is queued, or in a scheduler's hand, twice.
THEOREM NoDuplicateDispatch == Spec => []RunnableOnce
  <1>1. IInv => RunnableOnce
    BY DEF IInv, QueueInv
  <1> QED BY <1>1, Invariance, PTL

\* panic("sched locks") is not reached through the locks of threads.
THEOREM OnlyOwnLockAcrossSwitch == Spec => []SchedLocks
  <1>1. IInv => SchedLocks
    BY NoneAssumption
       DEF SchedLocks, IInv, TypeOK, HartInv, LockInv, StackInv, QueueInv, CloneInv,
           OneHartPerThread, RunnableOnce, OnHart, TCBState
  <1> QED BY <1>1, Invariance, PTL

-----------------------------------------------------------------------------
(* Refinement *)

\* A thread whose lock is free and that is not RUNNING is on no hart's stack.
LEMMA OffEveryHart ==
    ASSUME IInv, NEW t \in Thread, tlock[t] = None, state[t] # "RUNNING"
    PROVE  ~ OnHart(t)
  BY NoneAssumption
     DEF IInv, TypeOK, HartInv, LockInv, StackInv, QueueInv, CloneInv, OneHartPerThread,
         RunnableOnce, OnHart, TCBState

\* A state change of a thread that is on no hart is a Move of AbstractSched.
LEMMA MoveStep ==
    ASSUME IInv, NEW t \in Thread, NEW old, NEW new, state[t] = old, ~ OnHart(t),
           state' = [state EXCEPT ![t] = new], thread' = thread
    PROVE  Abs!Move(t, old, new)
  BY DEF Abs!Move, st, OnHart, IInv, TypeOK

\* A state change of the thread a hart is still on is invisible.
LEMMA HiddenStep ==
    ASSUME IInv, NEW c \in CPU, thread[c] \in Thread, NEW new,
           state' = [state EXCEPT ![thread[c]] = new], thread' = thread
    PROVE  UNCHANGED <<st, thread>>
  BY DEF st, OnHart, IInv, TypeOK

\* Every step of the scheduler is a step of AbstractSched or invisible to it.
LEMMA NextRefines == IInv /\ [Next]_vars => [Abs!Next]_<<st, thread>>
  <1> SUFFICES ASSUME IInv, [Next]_vars PROVE [Abs!Next]_<<st, thread>>
    OBVIOUS
  <1>1. CASE UNCHANGED vars
    BY <1>1 DEF vars, threadVars, cpuVars, st, OnHart
  <1>2. ASSUME NEW c \in CPU,
               SchedulerPop(c) \/ Resume(c) \/ thread_sched(c) \/ Unlock(c)
                 \/ (\E t \in Thread : AllocPop(c, t))
        PROVE  UNCHANGED <<st, thread>>
    BY <1>2
       DEF SchedulerPop, Resume, thread_sched, Unlock, AllocPop, threadVars, cpuVars, st,
           OnHart
  <1>3. ASSUME NEW c \in CPU, thread_yield(c) \/ cond_wait(c) \/ do_exit(c)
        PROVE  UNCHANGED <<st, thread>>
    <2>1. PICK new : LeaveTo(c, new)
      BY <1>3 DEF thread_yield, cond_wait, do_exit
    <2>2. thread[c] \in Thread
      BY <2>1 DEF LeaveTo, Preemptible, IInv, TypeOK, HartInv
    <2> QED BY <2>1, <2>2, HiddenStep DEF LeaveTo, TCB_Q_changeState, cpuVars
  <1>4. ASSUME NEW c \in CPU, SchedulerDispatch(c) PROVE Abs!Next
    <2> DEFINE t == popped[c]
    <2>1. t \in Thread /\ thread[c] = None /\ state[t] = "RUNNABLE" /\ tlock[t] = None
      BY <1>4, NoneAssumption
         DEF SchedulerDispatch, acquire, IInv, TypeOK, HartInv, LockInv, StackInv, QueueInv,
             CloneInv, OneHartPerThread, RunnableOnce, OnHart, TCBState
    <2>2. ~ OnHart(t)
      BY <2>1, OffEveryHart
    <2>3. /\ thread' = [thread EXCEPT ![c] = t] /\ state' = [state EXCEPT ![t] = "RUNNING"]
          /\ \A x \in Thread : OnHart(x)' <=> OnHart(x) \/ x = t
      BY <1>4, <2>1, NoneAssumption DEF SchedulerDispatch, OnHart, IInv, TypeOK
    <2>4. st' = [st EXCEPT ![t] = "RUNNING"] /\ st[t] = "RUNNABLE"
      BY <2>1, <2>2, <2>3 DEF st, IInv, TypeOK
    <2>5. Abs!Dispatch(c, t)
      BY <2>1, <2>3, <2>4 DEF Abs!Dispatch
    <2> QED BY <2>1, <2>5 DEF Abs!Next
  <1>5. ASSUME NEW c \in CPU, SchedulerRelease(c) PROVE Abs!Next
    <2>1. thread[c] \in Thread /\ thread[c] # None
          /\ state[thread[c]] \in {"RUNNABLE", "SLEEPING", "UNUSED"}
      BY <1>5, NoneAssumption
         DEF SchedulerRelease, IInv, TypeOK, HartInv, LockInv, StackInv, QueueInv, CloneInv,
             OneHartPerThread, RunnableOnce, OnHart, TCBState
    <2>2. /\ thread' = [thread EXCEPT ![c] = None] /\ state' = state
          /\ \A x \in Thread : OnHart(x)' <=> OnHart(x) /\ x # thread[c]
      BY <1>5, <2>1, NoneAssumption
         DEF SchedulerRelease, OnHart, IInv, TypeOK, StackInv, OneHartPerThread
    <2>3. st' = [st EXCEPT ![thread[c]] = state[thread[c]]]
      BY <2>1, <2>2 DEF st, IInv, TypeOK
    <2>4. Abs!Leave(c, state[thread[c]])
      BY <2>1, <2>2, <2>3 DEF Abs!Leave
    <2> QED BY <2>1, <2>4 DEF Abs!Next
  <1>6. ASSUME NEW c \in CPU, alloc_thread(c) PROVE Abs!Next
    <2> DEFINE u == child[thread[c]]
    <2>1. u \in Thread /\ tlock[u] = None /\ state[u] = "UNUSED"
      BY <1>6
         DEF alloc_thread, Preemptible, acquire, IInv, TypeOK, HartInv, LockInv, StackInv,
             QueueInv, CloneInv, OneHartPerThread, RunnableOnce, OnHart, TCBState
    <2>2. Abs!Move(u, "UNUSED", "USED")
      BY <1>6, <2>1, OffEveryHart, MoveStep DEF alloc_thread, TCB_Q_changeState
    <2> QED BY <2>1, <2>2 DEF Abs!Next
  <1>7. ASSUME NEW c \in CPU, CloneThread(c) \/ CloneProc(c) PROVE Abs!Next
    <2> DEFINE u == child[thread[c]]
    <2>1. u \in Thread /\ ~ OnHart(u) /\ state[u] = "USED"
      BY <1>7
         DEF CloneThread, CloneProc, Preemptible, IInv, TypeOK, HartInv, LockInv, StackInv,
             QueueInv, CloneInv, OneHartPerThread, RunnableOnce, OnHart, TCBState
    <2>2. Abs!Move(u, "USED", "RUNNABLE")
      BY <1>7, <2>1, MoveStep DEF CloneThread, CloneProc, TCB_Q_changeState, cpuVars
    <2> QED BY <2>1, <2>2 DEF Abs!Next
  <1>8. ASSUME NEW c \in CPU, NEW t \in Thread, cond_signal(c, t) \/ do_tkill(c, t)
        PROVE  [Abs!Next]_<<st, thread>>
    <2>1. CASE state[t] = "SLEEPING"
      <3>1. Abs!Move(t, "SLEEPING", "RUNNABLE")
        BY <1>8, <2>1, OffEveryHart, MoveStep
           DEF cond_signal, do_tkill, acquire, TCB_Q_changeState
      <3> QED BY <3>1 DEF Abs!Next
    <2>2. CASE state[t] # "SLEEPING"
      BY <1>8, <2>2 DEF cond_signal, do_tkill, st, OnHart
    <2> QED BY <2>1, <2>2
  <1> QED BY <1>1, <1>2, <1>3, <1>4, <1>5, <1>6, <1>7, <1>8 DEF Next

\* The lock hand-over implements the abstract scheduler.
THEOREM Refinement == Spec => ImplementsAbstractSched
  <1>1. Init => Abs!Init
    BY NoneAssumption DEF Init, Abs!Init, st, OnHart
  <1> QED
    BY <1>1, Invariance, NextRefines, PTL DEF Spec, Abs!Spec, ImplementsAbstractSched

=============================================================================
