------------------------------- MODULE Queues -------------------------------
(***************************************************************************)
(* The TCB and PCB queues of src/src/lib/queue.c as sequences: push_back   *)
(* is Append, pop and provide take the Head.  A TCB has one list node per  *)
(* kind of queue, so removing it from wherever it is removes its only      *)
(* occurrence, and removing one that is on no queue does nothing.          *)
(***************************************************************************)
EXTENDS Naturals, Sequences

InQueue(q, t) == \E i \in 1..Len(q) : q[i] = t

\* What a well-formed intrusive list guarantees: no node twice.
NoDuplicates(q) == \A i, j \in 1..Len(q) : q[i] = q[j] => i = j

Remove(q, t) == IF InQueue(q, t) THEN SelectSeq(q, LAMBDA u : u # t) ELSE q

=============================================================================
