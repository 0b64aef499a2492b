--------------------------- MODULE SemaphoreProof ---------------------------
(***************************************************************************)
(* Proofs about Semaphore for any set of threads and any initial value.    *)
(***************************************************************************)
EXTENDS Semaphore, QueuesProof, FiniteSetTheorems, TLAPS

\* The initial state of sema_init satisfies the invariant.
LEMMA InitInv == Init => SemInv
  <1> SUFFICES ASSUME Init PROVE SemInv
    OBVIOUS
  <1>1. /\ waiting_queue \in Seq(Thread) /\ NoDuplicates(waiting_queue)
        /\ \A x : ~ InQueue(waiting_queue, x)
    BY DEF Init, InQueue, NoDuplicates
  <1>2. TypeOK /\ NoPanic /\ SleepInv
    BY <1>1, SemaphoreAssumption DEF Init, TypeOK, NoPanic, SleepInv
  <1>3. IsFiniteSet(held) /\ Cardinality(held) = 0
    BY FS_EmptySet DEF Init
  <1>4. Avail = InitValue /\ Waiters = {}
    BY SemaphoreAssumption DEF Init, Avail, Waiters
  <1> QED BY <1>2, <1>3, <1>4, SemaphoreAssumption DEF SemInv, TokenInv

\* Taking a token or deciding to wait (sema_wait) keeps the invariant.
LEMMA sema_wait_Inv ==
    ASSUME SemInv, NEW t \in Thread, panic = "no", sema_wait(t)
    PROVE  TypeOK' /\ NoPanic' /\ SleepInv'
  <1> USE SemaphoreAssumption DEF sema_wait, goto, semVars, tcbVars, SemInv, TypeOK, NoPanic, SleepInv, Asleep
  <1>3. TypeOK'   OBVIOUS
  <1>4. NoPanic'  OBVIOUS
  <1>5. SleepInv' OBVIOUS
  <1> QED BY <1>3, <1>4, <1>5

\* Going to sleep under sem_lock and t->lock (cond_wait) keeps the invariant.
LEMMA cond_wait_Inv ==
    ASSUME SemInv, NEW t \in Thread, panic = "no", cond_wait(t)
    PROVE  TypeOK' /\ NoPanic' /\ SleepInv'
  <1>1. waiting_queue \in Seq(Thread) /\ NoDuplicates(waiting_queue) /\ ~ InQueue(waiting_queue, t)
    BY DEF cond_wait, SemInv, TypeOK, SleepInv, Asleep
  <1>2. /\ waiting_queue' \in Seq(Thread) /\ NoDuplicates(waiting_queue')
        /\ \A x : InQueue(waiting_queue', x) <=> InQueue(waiting_queue, x) \/ x = t
    BY <1>1, InQueueAppend, NoDuplicatesAppend DEF cond_wait
  <1> USE SemaphoreAssumption, <1>1, <1>2 DEF cond_wait, goto, semVars, tcbVars, SemInv, TypeOK, NoPanic, SleepInv, Asleep
  <1>3. TypeOK'   OBVIOUS
  <1>4. NoPanic'  OBVIOUS
  <1>5. SleepInv' OBVIOUS
  <1> QED BY <1>3, <1>4, <1>5

\* Leaving the hart (thread_sched) keeps the invariant.
LEMMA thread_sched_Inv ==
    ASSUME SemInv, NEW t \in Thread, panic = "no", thread_sched(t)
    PROVE  TypeOK' /\ NoPanic' /\ SleepInv'
  <1> USE SemaphoreAssumption DEF thread_sched, goto, semVars, tcbVars, SemInv, TypeOK, NoPanic, SleepInv, Asleep
  <1>3. TypeOK'   OBVIOUS
  <1>4. NoPanic'  OBVIOUS
  <1>5. SleepInv' OBVIOUS
  <1> QED BY <1>3, <1>4, <1>5

\* Coming back from swtch (Resume) keeps the invariant.
LEMMA Resume_Inv ==
    ASSUME SemInv, NEW t \in Thread, panic = "no", Resume(t)
    PROVE  TypeOK' /\ NoPanic' /\ SleepInv'
  <1> USE SemaphoreAssumption DEF Resume, goto, semVars, tcbVars, SemInv, TypeOK, NoPanic, SleepInv, Asleep
  <1>3. TypeOK'   OBVIOUS
  <1>4. NoPanic'  OBVIOUS
  <1>5. SleepInv' OBVIOUS
  <1> QED BY <1>3, <1>4, <1>5

\* Taking a recorded wakeup or waiting again (Reacquire) keeps the invariant.
LEMMA Reacquire_Inv ==
    ASSUME SemInv, NEW t \in Thread, panic = "no", Reacquire(t)
    PROVE  TypeOK' /\ NoPanic' /\ SleepInv'
  <1> USE SemaphoreAssumption DEF Reacquire, goto, semVars, tcbVars, SemInv, TypeOK, NoPanic, SleepInv, Asleep
  <1>3. TypeOK'   OBVIOUS
  <1>4. NoPanic'  OBVIOUS
  <1>5. SleepInv' OBVIOUS
  <1> QED BY <1>3, <1>4, <1>5

\* Adding a token (sema_signal) keeps the invariant.
LEMMA sema_signal_Inv ==
    ASSUME SemInv, NEW t \in Thread, panic = "no", sema_signal(t)
    PROVE  TypeOK' /\ NoPanic' /\ SleepInv'
  <1> USE SemaphoreAssumption DEF sema_signal, goto, semVars, tcbVars, SemInv, TypeOK, NoPanic, SleepInv, Asleep
  <1>3. TypeOK'   OBVIOUS
  <1>4. NoPanic'  OBVIOUS
  <1>5. SleepInv' OBVIOUS
  <1> QED BY <1>3, <1>4, <1>5

\* Testing the waiting queue (QueueTest) keeps the invariant.
LEMMA QueueTest_Inv ==
    ASSUME SemInv, NEW t \in Thread, panic = "no", QueueTest(t)
    PROVE  TypeOK' /\ NoPanic' /\ SleepInv'
  <1> USE SemaphoreAssumption DEF QueueTest, goto, semVars, tcbVars, SemInv, TypeOK, NoPanic, SleepInv, Asleep
  <1>3. TypeOK'   OBVIOUS
  <1>4. NoPanic'  OBVIOUS
  <1>5. SleepInv' OBVIOUS
  <1> QED BY <1>3, <1>4, <1>5

\* Popping a waiter (QueueProvide) keeps the invariant.
LEMMA QueueProvide_Inv ==
    ASSUME SemInv, NEW t \in Thread, panic = "no", QueueProvide(t)
    PROVE  TypeOK' /\ NoPanic' /\ SleepInv'
  <1>1. /\ waiting_queue \in Seq(Thread) /\ NoDuplicates(waiting_queue) /\ waiting_queue # <<>>
    BY DEF QueueProvide, SemInv, TypeOK, SleepInv
  <1>2. /\ waiting_queue' \in Seq(Thread) /\ NoDuplicates(waiting_queue')
        /\ Head(waiting_queue) \in Thread /\ InQueue(waiting_queue, Head(waiting_queue))
        /\ \A x : InQueue(waiting_queue', x)
                   <=> InQueue(waiting_queue, x) /\ x # Head(waiting_queue)
    <2>1. waiting_queue' = Tail(waiting_queue)
      BY <1>1 DEF QueueProvide
    <2> QED BY <1>1, <2>1, InQueueTail, NoDuplicatesTail
  <1>3. /\ target' = [target EXCEPT ![t] = Head(waiting_queue)]
        /\ pc[t] = "provide" /\ pc' = [pc EXCEPT ![t] = "wake"]
        /\ UNCHANGED <<panic, value, wakeup, sem_lock, held, tlock, state, wait_chan_entry, killed>>
    BY <1>1 DEF QueueProvide, goto
  <1> USE SemaphoreAssumption, <1>1, <1>2, <1>3 DEF SemInv, TypeOK, NoPanic, SleepInv, Asleep
  <1>4. TypeOK'   OBVIOUS
  <1>5. NoPanic'  OBVIOUS
  <1>6. SleepInv'
    <2>1. \A x \in Thread : pc[x] \in {"cond_wait", "isempty", "provide", "wake"} => x = t
      OBVIOUS
    <2>2. PICK h \in Thread : h = Head(waiting_queue)
      OBVIOUS
    <2>7. Asleep(h)' /\ ~ InQueue(waiting_queue', h)
      BY <2>2
    <2>3. \A x \in Thread : pc'[x] = "wake" => x = t /\ target'[x] = Head(waiting_queue)
      BY <2>1
    <2>4. \A x \in Thread : pc'[x] # "provide"
      BY <2>1
    <2>5. \A x \in Thread :
            state[x] = "SLEEPING" => InQueue(waiting_queue', x) \/ x = Head(waiting_queue)
      BY <2>1
    <2>6. pc'[t] = "wake" /\ target'[t] = Head(waiting_queue)
      OBVIOUS
    <2> QED BY <2>1, <2>2, <2>3, <2>4, <2>5, <2>6, <2>7
  <1> QED BY <1>4, <1>5, <1>6

\* Waking the popped waiter (cond_signal) keeps the invariant.
LEMMA cond_signal_Inv ==
    ASSUME SemInv, NEW t \in Thread, panic = "no", cond_signal(t)
    PROVE  TypeOK' /\ NoPanic' /\ SleepInv'
  <1> DEFINE u == target[t]
  <1>1. u \in Thread /\ Asleep(u) /\ ~ InQueue(waiting_queue, u)
    BY DEF cond_signal, SemInv, TypeOK, SleepInv
  <1>2. /\ pc[t] = "wake" /\ pc' = [pc EXCEPT ![t] = "user"]
        /\ state' = [state EXCEPT ![u] = "RUNNABLE"]
        /\ wait_chan_entry' = [wait_chan_entry EXCEPT ![u] = "NULL"]
        /\ sem_lock' = None
        /\ target' = [target EXCEPT ![t] = None]
        /\ UNCHANGED <<panic, value, wakeup, waiting_queue, held, tlock, killed>>
    BY <1>1 DEF cond_signal, goto, Asleep
  <1> USE SemaphoreAssumption, <1>1, <1>2 DEF SemInv, TypeOK, NoPanic, SleepInv, Asleep
  <1>3. TypeOK'   OBVIOUS
  <1>4. NoPanic'  OBVIOUS
  <1>5. SleepInv'
    <2>1. \A x \in Thread : pc[x] \in {"cond_wait", "isempty", "provide", "wake"} => x = t
      OBVIOUS
    <2> QED BY <2>1
  <1> QED BY <1>3, <1>4, <1>5

-----------------------------------------------------------------------------
(* Tokens *)

\* The types that the arithmetic on tokens needs.
LEMMA AvailType ==
    ASSUME SemInv
    PROVE  value \in Int /\ wakeup \in Nat /\ Avail \in Nat
  <1>1. value \in Int /\ wakeup \in Nat
    BY DEF SemInv, TypeOK
  <1> QED BY <1>1 DEF Avail

\* A token taken by a thread that is outside.
LEMMA TakeToken ==
    ASSUME SemInv, NEW t \in Thread, Avail > 0, Avail' = Avail - 1, held' = held \cup {t},
           MutexUse => t \notin held, Waiters' \subseteq Waiters \ {t}
    PROVE  TokenInv'
  <1> SUFFICES ASSUME MutexUse PROVE TokenInv'
    BY DEF TokenInv
  <1>1. IsFiniteSet(held) /\ Cardinality(held) + Avail = InitValue
        /\ \A x \in Waiters : x \notin held
    BY DEF SemInv, TokenInv
  <1>2. IsFiniteSet(held') /\ Cardinality(held') = Cardinality(held) + 1
    BY <1>1, FS_AddElement
  <1>3. Cardinality(held) \in Nat
    BY <1>1, FS_CardinalityType
  <1>4. Cardinality(held') + Avail' = InitValue
    BY <1>1, <1>2, <1>3, AvailType, SemaphoreAssumption
  <1> QED BY <1>1, <1>2, <1>4 DEF TokenInv

\* sema_wait moves one token from S to its caller, or none.
LEMMA sema_wait_Token ==
    ASSUME SemInv, NEW t \in Thread, sema_wait(t)
    PROVE  TokenInv' /\ (UNCHANGED <<Avail, held>> \/ Abs!P(t))
  <1>1. CASE value - 1 < 0
    <2>1. held' = held /\ wakeup' = wakeup /\ value' = value - 1
      BY <1>1 DEF sema_wait
    <2>2. Avail' = Avail
      BY <1>1, <2>1, AvailType DEF Avail
    <2>3. \A x \in Waiters' : x \in Waiters \/ x = t
      BY <1>1 DEF sema_wait, goto, Waiters, SemInv, TypeOK
    <2>4. MutexUse => t \notin held
      BY DEF sema_wait
    <2> QED BY <2>1, <2>2, <2>3, <2>4 DEF SemInv, TokenInv
  <1>2. CASE ~ (value - 1 < 0)
    <2>1. /\ held' = held \cup {t} /\ wakeup' = wakeup /\ value' = value - 1 /\ pc' = pc
          /\ pc[t] = "user" /\ (MutexUse => t \notin held)
      BY <1>2 DEF sema_wait
    <2>2. Avail' = Avail - 1 /\ Avail > 0
      BY <1>2, <2>1, AvailType DEF Avail
    <2>3. Waiters' \subseteq Waiters \ {t}
      BY <2>1 DEF Waiters
    <2> QED BY <2>1, <2>2, <2>3, TakeToken DEF Abs!P
  <1> QED BY <1>1, <1>2

\* A woken waiter takes the token recorded in S->wakeup, or none.
LEMMA Reacquire_Token ==
    ASSUME SemInv, NEW t \in Thread, Reacquire(t)
    PROVE  TokenInv' /\ (UNCHANGED <<Avail, held>> \/ Abs!P(t))
  <1>1. CASE wakeup = 0
    <2>1. held' = held /\ wakeup' = wakeup /\ value' = value
      BY <1>1 DEF Reacquire
    <2>2. Avail' = Avail
      BY <2>1 DEF Avail
    <2>3. Waiters' \subseteq Waiters
      BY <1>1 DEF Reacquire, goto, Waiters, SemInv, TypeOK
    <2> QED BY <2>1, <2>2, <2>3 DEF SemInv, TokenInv
  <1>2. CASE wakeup # 0
    <2>1. /\ held' = held \cup {t} /\ wakeup' = wakeup - 1 /\ value' = value
          /\ pc' = [pc EXCEPT ![t] = "user"] /\ pc[t] = "reacquire"
      BY <1>2 DEF Reacquire, goto
    <2>2. Avail' = Avail - 1 /\ Avail > 0
      BY <1>2, <2>1, AvailType DEF Avail
    <2>3. Waiters' \subseteq Waiters \ {t} /\ t \in Waiters
      BY <2>1 DEF Waiters, SemInv, TypeOK
    <2>4. MutexUse => t \notin held
      BY <2>3 DEF SemInv, TokenInv
    <2> QED BY <2>1, <2>2, <2>3, <2>4, TakeToken DEF Abs!P
  <1> QED BY <1>1, <1>2

\* sema_signal adds one token.
LEMMA sema_signal_Token ==
    ASSUME SemInv, NEW t \in Thread, sema_signal(t)
    PROVE  TokenInv' /\ Abs!V(t)
  <1>1. /\ held' = held \ {t} /\ value' = value + 1
        /\ wakeup' = (IF value + 1 <= 0 THEN wakeup + 1 ELSE wakeup)
    BY DEF sema_signal
  <1>2. Avail' = Avail + 1
    BY <1>1, AvailType DEF Avail
  <1>3. Waiters' \subseteq Waiters /\ (MutexUse => t \in held)
    BY DEF sema_signal, goto, Waiters, SemInv, TypeOK
  <1>4. ASSUME MutexUse
        PROVE  /\ IsFiniteSet(held') /\ Cardinality(held') + Avail' = InitValue
               /\ \A x \in Waiters' : x \notin held'
    <2>1. IsFiniteSet(held) /\ Cardinality(held) + Avail = InitValue
          /\ \A x \in Waiters : x \notin held
      BY <1>4 DEF SemInv, TokenInv
    <2>2. IsFiniteSet(held') /\ Cardinality(held') = Cardinality(held) - 1
      BY <1>1, <1>3, <1>4, <2>1, FS_RemoveElement
    <2>3. Cardinality(held) \in Nat
      BY <2>1, FS_CardinalityType
    <2>4. Cardinality(held') + Avail' = InitValue
      BY <1>2, <2>1, <2>2, <2>3, AvailType, SemaphoreAssumption
    <2> QED BY <1>1, <1>3, <2>1, <2>2, <2>4
  <1> QED BY <1>1, <1>2, <1>4 DEF Abs!V, TokenInv

\* The other steps move no token.
LEMMA Other_Token ==
    ASSUME SemInv, NEW t \in Thread,
           cond_wait(t) \/ thread_sched(t) \/ Resume(t) \/ QueueTest(t) \/ QueueProvide(t)
               \/ cond_signal(t)
    PROVE  TokenInv' /\ UNCHANGED <<Avail, held>>
  <1>1. UNCHANGED <<value, wakeup, held>>
    BY DEF cond_wait, thread_sched, Resume, QueueTest, QueueProvide, cond_signal, semVars
  <1>2. Waiters' \subseteq Waiters
    BY DEF cond_wait, thread_sched, Resume, QueueTest, QueueProvide, cond_signal, goto,
           Waiters, SemInv, TypeOK
  <1> QED BY <1>1, <1>2 DEF SemInv, TokenInv, Avail

-----------------------------------------------------------------------------
\* Every step keeps the invariant.
LEMMA NextInv == SemInv /\ [Next]_vars => SemInv'
  <1> SUFFICES ASSUME SemInv, [Next]_vars PROVE SemInv'
    OBVIOUS
  <1>1. CASE UNCHANGED vars
    BY <1>1 DEF vars, semVars, tcbVars, SemInv, TypeOK, NoPanic, SleepInv, Asleep, TokenInv,
                Avail, Waiters
  <1>2. CASE Next
    <2>1. PICK t \in Thread : panic = "no" /\ Step(t)
      BY <1>2 DEF Next
    <2>2. TypeOK' /\ NoPanic' /\ SleepInv'
      BY <2>1, sema_wait_Inv, cond_wait_Inv, thread_sched_Inv, Resume_Inv, Reacquire_Inv,
         sema_signal_Inv, QueueTest_Inv, QueueProvide_Inv, cond_signal_Inv DEF Step, Progress
    <2>3. TokenInv'
      BY <2>1, sema_wait_Token, Reacquire_Token, sema_signal_Token, Other_Token
         DEF Step, Progress
    <2> QED BY <2>2, <2>3 DEF SemInv
  <1> QED BY <1>1, <1>2

\* The invariant of semaphores holds in every reachable state.
THEOREM Invariance == Spec => []SemInv
  BY InitInv, NextInv, PTL DEF Spec

\* Without signals no panic of cond_signal is reachable.
THEOREM PanicFree == Spec => []NoPanic
  <1>1. SemInv => NoPanic
    BY DEF SemInv
  <1> QED BY <1>1, Invariance, PTL

\* A sleeping thread is always on the queue or in cond_signal's hand.
THEOREM NoForgottenSleeper == Spec => []SleeperReachable
  <1>1. SemInv => SleeperReachable
    BY DEF SemInv, SleepInv, SleeperReachable
  <1> QED BY <1>1, Invariance, PTL

\* A semaphore used as a lock admits at most InitValue threads.
THEOREM Exclusion == Spec => []MutualExclusion
  <1>1. SemInv => MutualExclusion
    <2> SUFFICES ASSUME SemInv, MutexUse PROVE Cardinality(held) <= InitValue
      BY DEF MutualExclusion
    <2>1. Avail \in Nat
      BY AvailType
    <2>2. IsFiniteSet(held) /\ Cardinality(held) + Avail = InitValue
      BY DEF SemInv, TokenInv
    <2>3. Cardinality(held) \in Nat
      BY <2>2, FS_CardinalityType
    <2> QED BY <2>1, <2>2, <2>3, SemaphoreAssumption
  <1> QED BY <1>1, Invariance, PTL

\* Every step is a P, a V, or invisible to the users of the semaphore.
LEMMA NextRefines ==
    SemInv /\ [Next]_vars => [\E t \in Thread : Abs!P(t) \/ Abs!V(t)]_<<Avail, held>>
  <1> SUFFICES ASSUME SemInv, [Next]_vars
               PROVE  [\E t \in Thread : Abs!P(t) \/ Abs!V(t)]_<<Avail, held>>
    OBVIOUS
  <1>1. CASE UNCHANGED vars
    BY <1>1 DEF vars, semVars, Avail
  <1>2. CASE Next
    BY <1>2, sema_wait_Token, Reacquire_Token, sema_signal_Token, Other_Token
       DEF Next, Step, Progress
  <1> QED BY <1>1, <1>2

\* sema_wait and sema_signal implement an atomic counting semaphore.
THEOREM Refinement == Spec => ImplementsCounter
  <1>1. Init => Avail = InitValue /\ held = {}
    BY SemaphoreAssumption DEF Init, Avail
  <1> QED
    BY <1>1, Invariance, NextRefines, PTL DEF Spec, Abs!Spec, ImplementsCounter

=============================================================================
