-------------------------------- MODULE Pipe --------------------------------
(***************************************************************************)
(* Pipes (src/src/ipc/pipe.c): readers and writers share a ring buffer     *)
(* under pi->lock and wait on read_sem and write_sem, the atomic counters  *)
(* of module Semaphore.  One step is one section of pi->lock, or one       *)
(* sema_wait.  Bytes are numbered in the order they are written.  The      *)
(* counters nread and nwrite wrap at Wrap (2^32 in the code).              *)
(***************************************************************************)
EXTENDS Naturals, FiniteSets

CONSTANTS Reader, Writer,   \* the open file descriptions of each end
          Casts,            \* the sets of users that a pipe may have
          PIPESIZE, Wrap,
          Sizes,            \* the n of read and write calls
          MaxBytes,         \* bound: no write is begun that would pass it
          MaxTokens,        \* bound: no call is begun when a semaphore has so many tokens
          Faults            \* "kill": writers may be killed during a write; "copy": copies to
                            \* and from user memory may fail

ASSUME PipeAssumption ==
    /\ PIPESIZE \in Nat \ {0} /\ Wrap \in Nat \ {0}
    /\ Wrap % PIPESIZE = 0 /\ Wrap > PIPESIZE
    /\ Sizes \subseteq Nat \ {0} /\ MaxBytes \in Nat /\ MaxTokens \in Nat /\ Faults \subseteq {"kill", "copy"}
    /\ Reader \cap Writer = {} /\ Casts \subseteq SUBSET (Reader \cup Writer)

VARIABLES
    data, nread, nwrite,    \* the ring; entries are byte numbers
    readopen, writeopen, freed,
    read_sem, write_sem,
    pc, left,               \* where each user is; the bytes it still has to move
    sent, got               \* bytes written and read since the start

ring == <<data, nread, nwrite, sent, got>>
ends == <<readopen, writeopen, freed>>
sems == <<read_sem, write_sem>>
vars == <<ring, ends, sems, pc, left>>

User == Reader \cup Writer

Init ==
    /\ data = [i \in 0..PIPESIZE - 1 |-> 0] /\ nread = 0 /\ nwrite = 0
    /\ readopen = 1 /\ writeopen = 1 /\ freed = FALSE
    /\ read_sem = 0 /\ write_sem = 0
    /\ \E S \in Casts : pc = [u \in User |-> IF u \in S THEN "user" ELSE "absent"]
    /\ left = [u \in User |-> 0]
    /\ sent = 0 /\ got = 0

goto(u, label) == pc' = [pc EXCEPT ![u] = label]
Least(a, b) == IF a < b THEN a ELSE b
Count == (nwrite + Wrap - nread) % Wrap
PIPE_EMPTY == nread = nwrite

PIPE_FULL == nwrite = (nread + PIPESIZE) % Wrap

-----------------------------------------------------------------------------
\* A read or write call with n bytes.
Call(u, n) ==
    /\ pc[u] = "user"
    /\ read_sem < MaxTokens /\ write_sem < MaxTokens
    /\ u \in Writer => sent + n <= MaxBytes
    /\ left' = [left EXCEPT ![u] = n] /\ goto(u, "section")
    /\ UNCHANGED <<ring, ends, sems>>

\* pi->data[pi->nwrite++ % PIPESIZE] = ch, k times
Put(k) ==
    /\ data' = [i \in DOMAIN data |->
                  IF \E j \in 1..k : (nwrite + j - 1) % PIPESIZE = i
                  THEN sent + (CHOOSE j \in 1..k : (nwrite + j - 1) % PIPESIZE = i)
                  ELSE data[i]]
    /\ nwrite' = (nwrite + k) % Wrap /\ sent' = sent + k
    /\ UNCHANGED <<nread, got>>

\* Mutant: one byte more than PIPESIZE fits.
Room_Off(w, k) ==
    /\ k \in 0..left[w]
    /\ \A j \in 0..k - 1 : (nwrite + j) % Wrap # (nread + PIPESIZE + 1) % Wrap
    /\ k = left[w] \/ (nwrite + k) % Wrap = (nread + PIPESIZE + 1) % Wrap

\* The writer moves k bytes before the pipe is full or the call is done.
Room(w, k) ==
    /\ k \in 0..left[w]
    /\ \A j \in 0..k - 1 : (nwrite + j) % Wrap # (nread + PIPESIZE) % Wrap
    /\ k = left[w] \/ (nwrite + k) % Wrap = (nread + PIPESIZE) % Wrap

\* pipe_write: the buffer is full before n bytes are in
WriteFull(w) ==
    /\ pc[w] = "section" /\ w \in Writer /\ readopen = 1
    /\ \E k \in 0..left[w] - 1 : Room(w, k) /\ Put(k) /\ left' = [left EXCEPT ![w] = @ - k]
    /\ read_sem' = read_sem + 1 /\ goto(w, "wait")
    /\ UNCHANGED <<ends, write_sem>>

\* pipe_write: all bytes are in, or (k < left) either_copyin fails and the loop ends
WriteDone(w) ==
    /\ pc[w] = "section" /\ w \in Writer /\ readopen = 1
    /\ \E k \in 0..left[w] : (\E m \in k..left[w] : Room(w, m)) /\ Put(k)
                             /\ (k < left[w] => "copy" \in Faults /\ ~Room(w, k))
    /\ read_sem' = read_sem + 1
    /\ left' = [left EXCEPT ![w] = 0] /\ goto(w, "user")
    /\ UNCHANGED <<ends, write_sem>>

\* pipe_write: no reader is left
WriteClosed(w) ==
    /\ pc[w] = "section" /\ w \in Writer /\ readopen = 0 /\ left[w] > 0
    /\ left' = [left EXCEPT ![w] = 0] /\ goto(w, "user")
    /\ UNCHANGED <<ring, ends, sems>>

\* pipe_write: the process is killed after k bytes of this section; no one is woken
WriteKilled(w) ==
    /\ "kill" \in Faults /\ pc[w] = "section" /\ w \in Writer /\ readopen = 1
    /\ \E k \in 0..left[w] - 1 : /\ \E m \in k..left[w] : Room(w, m)
                                 /\ Put(k)
    /\ left' = [left EXCEPT ![w] = 0] /\ goto(w, "exit")
    /\ UNCHANGED <<ends, sems>>

\* sema_wait(&pi->write_sem)
WriteWait(w) ==
    /\ pc[w] = "wait" /\ w \in Writer /\ write_sem > 0
    /\ write_sem' = write_sem - 1 /\ goto(w, "section")
    /\ UNCHANGED <<ring, ends, read_sem, left>>

-----------------------------------------------------------------------------
\* pipe_read: nothing there and a writer is left
ReadEmpty(r) ==
    /\ pc[r] = "section" /\ r \in Reader /\ PIPE_EMPTY /\ writeopen = 1
    /\ goto(r, "wait")
    /\ UNCHANGED <<ring, ends, sems, left>>

\* sema_wait(&pi->read_sem)
ReadWait(r) ==
    /\ pc[r] = "wait" /\ r \in Reader /\ read_sem > 0
    /\ read_sem' = read_sem - 1 /\ goto(r, "section")
    /\ UNCHANGED <<ring, ends, write_sem, left>>

\* pipe_read: take what is there, up to n, or less if either_copyout fails; 0 at end of file
ReadSome(r) ==
    /\ pc[r] = "section" /\ r \in Reader /\ ~(PIPE_EMPTY /\ writeopen = 1)
    /\ LET most == Least(left[r], Count)
       IN  \E k \in (IF "copy" \in Faults THEN 0..most ELSE {most}) :
               nread' = (nread + k) % Wrap /\ got' = got + k
    /\ write_sem' = write_sem + 1
    /\ left' = [left EXCEPT ![r] = 0] /\ goto(r, "user")
    /\ UNCHANGED <<data, nwrite, sent, ends, read_sem>>

-----------------------------------------------------------------------------
\* Users of an end that have not closed their descriptor
Open(S) == {u \in S : pc[u] \notin {"absent", "closed"}}

\* Mutant: closing the write end wakes nobody.
pipe_close_NoSignal(u) ==
    /\ writeopen' = IF u \in Writer THEN 0 ELSE writeopen
    /\ readopen' = IF u \in Reader THEN 0 ELSE readopen
    /\ freed' = (readopen' = 0 /\ writeopen' = 0)
    /\ UNCHANGED sems

\* pipe_close: the last descriptor of an end is gone
pipe_close(u) ==
    /\ IF u \in Writer
       THEN writeopen' = 0 /\ read_sem' = read_sem + 1 /\ UNCHANGED <<readopen, write_sem>>
       ELSE readopen' = 0 /\ write_sem' = write_sem + 1 /\ UNCHANGED <<writeopen, read_sem>>
    /\ freed' = (readopen' = 0 /\ writeopen' = 0)

\* Mutant: the reference count is not looked at.
generic_fileclose_Early(u) ==
    /\ pc[u] \in {"user", "exit"} /\ goto(u, "closed")
    /\ pipe_close(u)
    /\ UNCHANGED <<ring, left>>

\* generic_fileclose drops one reference; pipe_close runs when it was the last
generic_fileclose(u) ==
    /\ pc[u] \in {"user", "exit"} /\ goto(u, "closed")
    /\ IF Open(IF u \in Writer THEN Writer ELSE Reader) = {u}
       THEN pipe_close(u) ELSE UNCHANGED <<ends, sems>>
    /\ UNCHANGED <<ring, left>>

-----------------------------------------------------------------------------
Progress(u) ==
    \/ WriteFull(u) \/ WriteDone(u) \/ WriteClosed(u) \/ WriteKilled(u) \/ WriteWait(u)
    \/ ReadEmpty(u) \/ ReadWait(u) \/ ReadSome(u)

Next == \E u \in User : Progress(u) \/ generic_fileclose(u) \/ \E n \in Sizes : Call(u, n)

Spec == Init /\ [][Next]_vars

\* Calls run on, a killed writer exits and closes, and readers that return read
\* again or close.
FairSpec ==
    /\ Spec
    /\ \A u \in User : /\ WF_vars(Progress(u))
                       /\ WF_vars(pc[u] = "exit" /\ generic_fileclose(u))
    /\ \A r \in Reader : WF_vars(\E n \in Sizes : Call(r, n))

-----------------------------------------------------------------------------
(* Properties *)

TypeOK ==
    /\ data \in [0..PIPESIZE - 1 -> Nat] /\ nread \in 0..Wrap - 1 /\ nwrite \in 0..Wrap - 1
    /\ readopen \in 0..1 /\ writeopen \in 0..1 /\ freed \in BOOLEAN
    /\ read_sem \in Nat /\ write_sem \in Nat
    /\ pc \in [User -> {"user", "section", "wait", "exit", "closed", "absent"}] /\ left \in [User -> Nat]
    /\ sent \in Nat /\ got \in Nat

\* The counters of the code are the true ones modulo Wrap, and byte x + 1 is at place x % PIPESIZE
RingInv ==
    /\ nread = got % Wrap /\ nwrite = sent % Wrap
    /\ got <= sent /\ sent <= got + PIPESIZE
    /\ \A x \in got..sent - 1 : data[x % PIPESIZE] = x + 1

\* Types; and first in, first out, nothing lost, doubled or overwritten, also when the
\* counters wrap: what pipe_read finds from nread on, as far as the counters say that the ring
\* is filled, are exactly the bytes sent and not yet read, in order.
Fifo ==
    /\ TypeOK /\ RingInv
    /\ Count <= PIPESIZE /\ sent = got + Count
    /\ \A i \in 1..Count : data[(nread + i - 1) % PIPESIZE] = got + i

\* An end is shut only when all its descriptors are closed, and the pipe is freed with the
\* second end: then nobody is inside a call on it (pipe_close, generic_fileclose).
FreedUnused ==
    /\ readopen = 0 => Open(Reader) = {}
    /\ writeopen = 0 => Open(Writer) = {}
    /\ freed => readopen = 0 /\ writeopen = 0 /\ Open(User) = {}

\* The pipe has one reader and one writer
Pair == Cardinality({u \in User : pc[u] # "absent"}) = 2

\* In such a pipe nobody sleeps for ever who could go on: the reader while there is data or
\* after the writer has gone, the writer while there is room or after the reader has gone
\* (read_sem is the semaphore for "readable" and write_sem for "writeable", semaphore.md:71).
GetsOn ==
    /\ \A r \in Reader : []<>~(Pair /\ pc[r] = "wait" /\ (~PIPE_EMPTY \/ writeopen = 0))
    /\ \A w \in Writer : []<>~(Pair /\ pc[w] = "wait" /\ (~PIPE_FULL \/ readopen = 0))

=============================================================================
