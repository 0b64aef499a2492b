------------------------- MODULE AbstractSemaphore -------------------------
(***************************************************************************)
(* A counting semaphore as its users see it: P takes a token, if there is  *)
(* one, and lets its caller in; V adds one and lets its caller out.        *)
(***************************************************************************)
EXTENDS Integers

CONSTANTS Thread, InitValue
VARIABLES avail, held

P(t) == avail > 0 /\ avail' = avail - 1 /\ held' = held \cup {t}
V(t) == avail' = avail + 1 /\ held' = held \ {t}

Spec ==
    /\ avail = InitValue /\ held = {}
    /\ [][\E t \in Thread : P(t) \/ V(t)]_<<avail, held>>

=============================================================================
