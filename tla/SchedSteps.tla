----------------------------- MODULE SchedSteps -----------------------------
(***************************************************************************)
(* The steps by which a hart takes up, leaves and unlocks a thread keep the*)
(* inductive invariant IInv of Sched.                                      *)
(***************************************************************************)
EXTENDS Sched, QueuesProof, TLAPS

\* TCB_Q_changeState of a TCB that is not on runnable_t_q.
LEMMA ChangeStateQueue ==
    ASSUME NEW t \in Thread, NEW new, runnable_t_q \in Seq(Thread), NoDuplicates(runnable_t_q),
           ~ InQueue(runnable_t_q, t), TCB_Q_changeState(t, new)
    PROVE  /\ runnable_t_q' \in Seq(Thread)
           /\ NoDuplicates(runnable_t_q')
           /\ \A x : InQueue(runnable_t_q', x) <=>
                 InQueue(runnable_t_q, x) \/ (new = "RUNNABLE" /\ x = t)
  <1>1. CASE new = "RUNNABLE"
    <2>1. runnable_t_q' = Append(runnable_t_q, t)
      BY <1>1 DEF TCB_Q_changeState, Remove
    <2> QED BY <1>1, <2>1, InQueueAppend, NoDuplicatesAppend
  <1>2. CASE new # "RUNNABLE"
    <2>1. runnable_t_q' = runnable_t_q
      BY <1>2 DEF TCB_Q_changeState, Remove
    <2> QED BY <1>2, <2>1
  <1> QED BY <1>1, <1>2

\* Taking the head of runnable_t_q (SchedulerPop) keeps the inductive invariant.
LEMMA SchedulerPop_Inv ==
    ASSUME IInv, NEW c \in CPU, SchedulerPop(c)
    PROVE  IInv'
  <1>1. runnable_t_q \in Seq(Thread) /\ runnable_t_q # <<>> /\ NoDuplicates(runnable_t_q)
    BY DEF SchedulerPop, IInv, TypeOK, HartInv, LockInv, StackInv, QueueInv, CloneInv,
           OneHartPerThread, RunnableOnce, OnHart, TCBState
  <1>2. /\ runnable_t_q' \in Seq(Thread) /\ NoDuplicates(runnable_t_q')
        /\ Head(runnable_t_q) \in Thread /\ InQueue(runnable_t_q, Head(runnable_t_q))
        /\ \A x : InQueue(runnable_t_q', x) <=> InQueue(runnable_t_q, x) /\ x # Head(runnable_t_q)
    BY <1>1, InQueueTail, NoDuplicatesTail DEF SchedulerPop
  <1> USE <1>1, <1>2, NoneAssumption, MaxTkillAssumption
       DEF SchedulerPop, threadVars, queues, cpuVars, IInv, TypeOK, HartInv, LockInv,
           StackInv, QueueInv, CloneInv, OneHartPerThread, RunnableOnce, OnHart, TCBState
  <1>3. TypeOK'   OBVIOUS
  <1>4. HartInv'  OBVIOUS
  <1>5. LockInv'  OBVIOUS
  <1>6. StackInv' OBVIOUS
  <1>7. QueueInv' OBVIOUS
  <1>8. CloneInv' OBVIOUS
  <1> QED BY ONLY <1>3, <1>4, <1>5, <1>6, <1>7, <1>8 DEF IInv

\* Dispatching the popped thread under its lock (SchedulerDispatch) keeps the inductive invariant.
LEMMA SchedulerDispatch_Inv ==
    ASSUME IInv, NEW c \in CPU, SchedulerDispatch(c)
    PROVE  IInv'
  <1> USE NoneAssumption, MaxTkillAssumption
       DEF SchedulerDispatch, acquire, threadVars, queues, cpuVars, IInv, TypeOK,
           HartInv, LockInv, StackInv, QueueInv, CloneInv, OneHartPerThread, RunnableOnce,
           OnHart, TCBState
  <1>3. TypeOK'   OBVIOUS
  <1>4. HartInv'  OBVIOUS
  <1>5. LockInv'  OBVIOUS
  <1>6. StackInv' OBVIOUS
  <1>7. QueueInv' OBVIOUS
  <1>8. CloneInv' OBVIOUS
  <1> QED BY ONLY <1>3, <1>4, <1>5, <1>6, <1>7, <1>8 DEF IInv

\* Dropping the lock of a thread that switched away (SchedulerRelease) keeps
\* the inductive invariant.
LEMMA SchedulerRelease_Inv ==
    ASSUME IInv, NEW c \in CPU, SchedulerRelease(c)
    PROVE  IInv'
  <1> USE NoneAssumption, MaxTkillAssumption
       DEF SchedulerRelease, release, threadVars, queues, cpuVars, IInv, TypeOK,
           HartInv, LockInv, StackInv, QueueInv, CloneInv, OneHartPerThread, RunnableOnce,
           OnHart, TCBState
  <1>3. TypeOK'   OBVIOUS
  <1>4. HartInv'  OBVIOUS
  <1>5. LockInv'  OBVIOUS
  <1>6. StackInv' OBVIOUS
  <1>7. QueueInv' OBVIOUS
  <1>8. CloneInv' OBVIOUS
  <1> QED BY ONLY <1>3, <1>4, <1>5, <1>6, <1>7, <1>8 DEF IInv

\* Dropping the lock in the resumed thread (Resume) keeps the inductive invariant.
LEMMA Resume_Inv ==
    ASSUME IInv, NEW c \in CPU, Resume(c)
    PROVE  IInv'
  <1> USE NoneAssumption, MaxTkillAssumption
       DEF Resume, release, threadVars, queues, cpuVars, IInv, TypeOK, HartInv, LockInv,
           StackInv, QueueInv, CloneInv, OneHartPerThread, RunnableOnce, OnHart, TCBState
  <1>3. TypeOK'   OBVIOUS
  <1>4. HartInv'  OBVIOUS
  <1>5. LockInv'  OBVIOUS
  <1>6. StackInv' OBVIOUS
  <1>7. QueueInv' OBVIOUS
  <1>8. CloneInv' OBVIOUS
  <1> QED BY ONLY <1>3, <1>4, <1>5, <1>6, <1>7, <1>8 DEF IInv

\* Yielding (thread_yield) keeps the inductive invariant.
LEMMA thread_yield_Inv ==
    ASSUME IInv, NEW c \in CPU, thread_yield(c)
    PROVE  IInv'
  <1> DEFINE u == thread[c]
  <1>1. u \in Thread /\ ~ InQueue(runnable_t_q, u) /\ TCB_Q_changeState(u, "RUNNABLE")
    BY DEF thread_yield, LeaveTo, Preemptible, acquire, IInv, TypeOK, HartInv, LockInv,
           StackInv, QueueInv, CloneInv, OneHartPerThread, RunnableOnce, OnHart, TCBState
  <1>2. runnable_t_q' \in Seq(Thread) /\ NoDuplicates(runnable_t_q')
        /\ \A x : InQueue(runnable_t_q', x) <=> InQueue(runnable_t_q, x) \/ x = u
    BY <1>1, ChangeStateQueue DEF IInv, TypeOK, QueueInv, RunnableOnce
  <1> USE <1>1, <1>2, NoneAssumption, MaxTkillAssumption
       DEF thread_yield, LeaveTo, Preemptible, acquire, TCB_Q_changeState, Place, vars,
           threadVars, queues, cpuVars, IInv, TypeOK, HartInv, LockInv, StackInv, QueueInv,
           CloneInv, OneHartPerThread, RunnableOnce, OnHart, TCBState
  <1>3. TypeOK'   OBVIOUS
  <1>4. HartInv'  OBVIOUS
  <1>5. LockInv'  OBVIOUS
  <1>6. StackInv' OBVIOUS
  <1>7. QueueInv' OBVIOUS
  <1>8. CloneInv' OBVIOUS
  <1> QED BY ONLY <1>3, <1>4, <1>5, <1>6, <1>7, <1>8 DEF IInv

\* Going to sleep (cond_wait) keeps the inductive invariant.
LEMMA cond_wait_Inv ==
    ASSUME IInv, NEW c \in CPU, cond_wait(c)
    PROVE  IInv'
  <1> DEFINE u == thread[c]
  <1>1. u \in Thread /\ ~ InQueue(runnable_t_q, u) /\ TCB_Q_changeState(u, "SLEEPING")
    BY DEF cond_wait, LeaveTo, Preemptible, acquire, IInv, TypeOK, HartInv, LockInv, StackInv,
           QueueInv, CloneInv, OneHartPerThread, RunnableOnce, OnHart, TCBState
  <1>2. runnable_t_q' \in Seq(Thread) /\ NoDuplicates(runnable_t_q')
        /\ \A x : InQueue(runnable_t_q', x) <=> InQueue(runnable_t_q, x)
    BY <1>1, ChangeStateQueue DEF IInv, TypeOK, QueueInv, RunnableOnce
  <1> USE <1>1, <1>2, NoneAssumption, MaxTkillAssumption
       DEF cond_wait, LeaveTo, Preemptible, acquire, TCB_Q_changeState, Place, vars,
           threadVars, queues, cpuVars, IInv, TypeOK, HartInv, LockInv, StackInv, QueueInv,
           CloneInv, OneHartPerThread, RunnableOnce, OnHart, TCBState
  <1>3. TypeOK'   OBVIOUS
  <1>4. HartInv'  OBVIOUS
  <1>5. LockInv'  OBVIOUS
  <1>6. StackInv' OBVIOUS
  <1>7. QueueInv' OBVIOUS
  <1>8. CloneInv' OBVIOUS
  <1> QED BY ONLY <1>3, <1>4, <1>5, <1>6, <1>7, <1>8 DEF IInv

\* Exiting (do_exit) keeps the inductive invariant.
LEMMA do_exit_Inv ==
    ASSUME IInv, NEW c \in CPU, do_exit(c)
    PROVE  IInv'
  <1> DEFINE u == thread[c]
  <1>1. u \in Thread /\ ~ InQueue(runnable_t_q, u) /\ TCB_Q_changeState(u, "UNUSED")
    BY DEF do_exit, LeaveTo, Preemptible, acquire, IInv, TypeOK, HartInv, LockInv, StackInv,
           QueueInv, CloneInv, OneHartPerThread, RunnableOnce, OnHart, TCBState
  <1>2. runnable_t_q' \in Seq(Thread) /\ NoDuplicates(runnable_t_q')
                /\ \A x : InQueue(runnable_t_q', x) <=> InQueue(runnable_t_q, x) \/ ("UNUSED"
           = "RUNNABLE" /\ x = u)
    BY <1>1, ChangeStateQueue DEF IInv, TypeOK, QueueInv, RunnableOnce
  <1> USE <1>1, <1>2, NoneAssumption, MaxTkillAssumption
       DEF do_exit, LeaveTo, Preemptible, acquire, TCB_Q_changeState, Place, threadVars,
           queues, cpuVars, IInv, TypeOK, HartInv, LockInv, StackInv, QueueInv, CloneInv,
           OneHartPerThread, RunnableOnce, OnHart, TCBState
  <1>3. TypeOK'   OBVIOUS
  <1>4. HartInv'  OBVIOUS
  <1>5. LockInv'  OBVIOUS
  <1>6. StackInv' OBVIOUS
  <1>7. QueueInv' OBVIOUS
  <1>8. CloneInv' OBVIOUS
  <1> QED BY ONLY <1>3, <1>4, <1>5, <1>6, <1>7, <1>8 DEF IInv

\* Switching to the scheduler's stack (thread_sched) keeps the inductive invariant.
LEMMA thread_sched_Inv ==
    ASSUME IInv, NEW c \in CPU, thread_sched(c)
    PROVE  IInv'
  <1> USE NoneAssumption, MaxTkillAssumption
       DEF thread_sched, threadVars, queues, cpuVars, IInv, TypeOK, HartInv, LockInv,
           StackInv, QueueInv, CloneInv, OneHartPerThread, RunnableOnce, OnHart, TCBState
  <1>3. TypeOK'   OBVIOUS
  <1>4. HartInv'  OBVIOUS
  <1>5. LockInv'  OBVIOUS
  <1>6. StackInv' OBVIOUS
  <1>7. QueueInv' OBVIOUS
  <1>8. CloneInv' OBVIOUS
  <1> QED BY ONLY <1>3, <1>4, <1>5, <1>6, <1>7, <1>8 DEF IInv

\* Dropping the lock of a woken or published thread (Unlock) keeps the inductive invariant.
LEMMA Unlock_Inv ==
    ASSUME IInv, NEW c \in CPU, Unlock(c)
    PROVE  IInv'
  <1> USE NoneAssumption, MaxTkillAssumption
       DEF Unlock, release, threadVars, queues, cpuVars, IInv, TypeOK, HartInv, LockInv,
           StackInv, QueueInv, CloneInv, OneHartPerThread, RunnableOnce, OnHart, TCBState
  <1>3. TypeOK'   OBVIOUS
  <1>4. HartInv'  OBVIOUS
  <1>5. LockInv'  OBVIOUS
  <1>6. StackInv' OBVIOUS
  <1>7. QueueInv' OBVIOUS
  <1>8. CloneInv' OBVIOUS
  <1> QED BY ONLY <1>3, <1>4, <1>5, <1>6, <1>7, <1>8 DEF IInv

=============================================================================
