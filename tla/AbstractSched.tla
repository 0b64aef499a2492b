--------------------------- MODULE AbstractSched ---------------------------
(***************************************************************************)
(* What a thread scheduler promises its users, with no queues and no       *)
(* locks: every thread is free, being built, ready, blocked or running; a  *)
(* hart runs at most one thread, and starts only a thread that is ready.   *)
(* A thread counts as RUNNING for as long as a hart is on its stack.       *)
(***************************************************************************)
CONSTANTS CPU, Thread, InitThread, None

VARIABLES st,  \* what each thread is doing
          on   \* the thread whose stack each hart is on

Init ==
    /\ st = [t \in Thread |-> IF t = InitThread THEN "RUNNABLE" ELSE "UNUSED"]
    /\ on = [c \in CPU |-> None]

Dispatch(c, t) ==
    /\ on[c] = None /\ st[t] = "RUNNABLE"
    /\ on' = [on EXCEPT ![c] = t]
    /\ st' = [st EXCEPT ![t] = "RUNNING"]

Leave(c, new) ==
    /\ on[c] # None
    /\ on' = [on EXCEPT ![c] = None]
    /\ st' = [st EXCEPT ![on[c]] = new]

Move(t, old, new) ==
    /\ st[t] = old
    /\ st' = [st EXCEPT ![t] = new]
    /\ UNCHANGED on

Next ==
    \/ \E c \in CPU : \/ \E t \in Thread : Dispatch(c, t)
                      \/ \E new \in {"RUNNABLE", "SLEEPING", "UNUSED"} : Leave(c, new)
    \/ \E t \in Thread : \/ Move(t, "SLEEPING", "RUNNABLE")
                         \/ Move(t, "UNUSED", "USED")
                         \/ Move(t, "USED", "RUNNABLE")

Spec == Init /\ [][Next]_<<st, on>>

=============================================================================
