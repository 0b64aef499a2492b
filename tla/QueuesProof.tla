---------------------------- MODULE QueuesProof ----------------------------
(***************************************************************************)
(* What push_back and pop do to the members of a queue, for any queue.     *)
(***************************************************************************)
EXTENDS Queues, TLAPS

\* After Queue_push_back exactly the new node has joined.
LEMMA InQueueAppend ==
    ASSUME NEW S, NEW q \in Seq(S), NEW t \in S, NEW x
    PROVE  InQueue(Append(q, t), x) <=> InQueue(q, x) \/ x = t
  BY DEF InQueue

\* After the head is taken out exactly the head has left.
LEMMA InQueueTail ==
    ASSUME NEW S, NEW q \in Seq(S), q # <<>>, NoDuplicates(q), NEW x
    PROVE  InQueue(Tail(q), x) <=> InQueue(q, x) /\ x # Head(q)
  <1>1. /\ Len(q) \in Nat \ {0} /\ Head(q) = q[1] /\ Len(Tail(q)) = Len(q) - 1
        /\ \A i \in 1..Len(q) - 1 : Tail(q)[i] = q[i + 1]
    OBVIOUS
  <1>2. ASSUME InQueue(Tail(q), x) PROVE InQueue(q, x) /\ x # Head(q)
    <2>1. PICK i \in 1..Len(q) - 1 : q[i + 1] = x
      BY <1>1, <1>2 DEF InQueue
    <2>2. i + 1 \in 1..Len(q) /\ 1 \in 1..Len(q) /\ i + 1 # 1
      BY <1>1
    <2> QED BY <1>1, <2>1, <2>2 DEF InQueue, NoDuplicates
  <1>3. ASSUME InQueue(q, x), x # Head(q) PROVE InQueue(Tail(q), x)
    <2>1. PICK i \in 1..Len(q) : q[i] = x
      BY <1>3 DEF InQueue
    <2>2. i - 1 \in 1..Len(Tail(q)) /\ Tail(q)[i - 1] = x
      BY <1>1, <1>3, <2>1
    <2> QED BY <2>2 DEF InQueue
  <1> QED BY <1>2, <1>3

\* Pushing a node that is not on the queue makes no duplicate.
LEMMA NoDuplicatesAppend ==
    ASSUME NEW S, NEW q \in Seq(S), NEW t \in S, NoDuplicates(q), ~ InQueue(q, t)
    PROVE  NoDuplicates(Append(q, t))
  BY DEF InQueue, NoDuplicates

\* The head is on the queue, and taking it out leaves a well-formed queue.
LEMMA NoDuplicatesTail ==
    ASSUME NEW S, NEW q \in Seq(S), q # <<>>, NoDuplicates(q)
    PROVE  /\ NoDuplicates(Tail(q)) /\ Tail(q) \in Seq(S)
           /\ Head(q) \in S /\ InQueue(q, Head(q))
  BY DEF InQueue, NoDuplicates

=============================================================================
