------------------------------ MODULE MCFutex ------------------------------
\* Instances of Futex for TLC: the threads of one process.
EXTENDS Futex, TLC

CONSTANT p1

OneProc == [t \in Thread |-> p1]

\* Waits without timeout that are woken and requeued; timed waits; both kinds of wait and wakeups
TimersOnly == {[timeouts |-> {"set"}, ops |-> {}]}
WakesAndTimers ==
    TimersOnly \cup {[timeouts |-> {"NULL"}, ops |-> {"wake", "requeue"}],
                     [timeouts |-> {"NULL", "set"}, ops |-> {"wake"}]}

Symmetry == Permutations(Thread) \cup Permutations(Addr) \cup Permutations(FutexId)

=============================================================================
