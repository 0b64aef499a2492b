------------------------------ MODULE PipeProof ------------------------------
(***************************************************************************)
(* Proofs about module Pipe, for every PIPESIZE, every Wrap that it        *)
(* divides and any number of readers and writers: the ring is first in,    *)
(* first out across the wrap of its counters, and the pipe is freed only   *)
(* when nobody uses it.                                                    *)
(***************************************************************************)
EXTENDS Pipe, Integers, TLAPS

-----------------------------------------------------------------------------
(* Remainders *)

\* Quotient and remainder make up the number.
LEMMA DivMod ==
    ASSUME NEW a \in Nat, NEW m \in Nat \ {0}
    PROVE  /\ a \div m \in Nat /\ a % m \in 0..m - 1
           /\ a = m * (a \div m) + (a % m)
  BY Z3

\* There is one quotient and one remainder.
LEMMA ModUnique ==
    ASSUME NEW m \in Nat \ {0}, NEW q1 \in Nat, NEW q2 \in Nat,
           NEW r1 \in 0..m - 1, NEW r2 \in 0..m - 1, m * q1 + r1 = m * q2 + r2
    PROVE  q1 = q2 /\ r1 = r2
  <1>1. ASSUME NEW p1 \in Nat, NEW p2 \in Nat, NEW s1 \in 0..m - 1, NEW s2 \in 0..m - 1,
               m * p1 + s1 = m * p2 + s2, p1 < p2
        PROVE  FALSE
    <2>1. PICK d \in Nat : p2 = p1 + d + 1
      <3>1. p2 - p1 - 1 \in Nat /\ p2 = p1 + (p2 - p1 - 1) + 1
        BY <1>1
      <3> QED BY <3>1
    <2>2. m * p2 = m * p1 + m * d + m
      BY <2>1, Z3
    <2>3. m * d \in Nat
      BY <2>1, Z3
    <2> QED BY <1>1, <2>2, <2>3
  <1>2. ~(q1 < q2) /\ ~(q2 < q1)
    BY <1>1
  <1> QED BY <1>2

\* A number that is written with a quotient and a remainder has that remainder.
LEMMA ModIs ==
    ASSUME NEW m \in Nat \ {0}, NEW a \in Nat, NEW q \in Nat, NEW r \in 0..m - 1, a = m * q + r
    PROVE  a % m = r
  BY DivMod, ModUnique

\* Adding a multiple changes no remainder.
LEMMA ModShift ==
    ASSUME NEW m \in Nat \ {0}, NEW a \in Nat, NEW q \in Nat, NEW b \in Nat, b = m * q + a
    PROVE  b % m = a % m
  <1>1. PICK d \in Nat, r \in 0..m - 1 : a = m * d + r /\ r = a % m
    BY DivMod
  <1>2. b = m * (q + d) + r
    BY <1>1, Z3
  <1>3. q + d \in Nat
    OBVIOUS
  <1>4. b % m = r
    BY <1>2, <1>3, ModIs
  <1> QED BY <1>1, <1>4

\* The counters may be reduced before something is added.
LEMMA ModAdd ==
    ASSUME NEW m \in Nat \ {0}, NEW a \in Nat, NEW k \in Nat
    PROVE  ((a % m) + k) % m = (a + k) % m
  <1>1. PICK d \in Nat, r \in 0..m - 1 : a = m * d + r /\ r = a % m
    BY DivMod
  <1>2. PICK b \in Nat, e \in Nat : b = a + k /\ e = r + k
    OBVIOUS
  <1>3. b = m * d + e
    <2>1. PICK z \in Nat : z = m * d
      BY Z3
    <2>2. a = z + r
      BY <1>1, <2>1
    <2>3. b = z + e
      BY ONLY <2>2, <1>2, z \in Nat, r \in 0..m - 1, m \in Nat, k \in Nat
    <2> QED BY <2>1, <2>3
  <1>4. b % m = e % m
    BY <1>3, ModShift
  <1> QED BY <1>1, <1>2, <1>4

\* The same for the place in the ring, since Wrap is a multiple of PIPESIZE.
LEMMA WrapAdd ==
    ASSUME NEW a \in Nat, NEW k \in Nat
    PROVE  ((a % Wrap) + k) % PIPESIZE = (a + k) % PIPESIZE
  <1>0. Wrap \in Nat \ {0} /\ PIPESIZE \in Nat \ {0} /\ Wrap % PIPESIZE = 0
    BY PipeAssumption
  <1>1. PICK d \in Nat, r \in 0..Wrap - 1 : a = Wrap * d + r /\ r = a % Wrap
    BY <1>0, DivMod
  <1>2. PICK c \in Nat : Wrap = PIPESIZE * c
    <2>1. Wrap \div PIPESIZE \in Nat /\ Wrap = PIPESIZE * (Wrap \div PIPESIZE) + 0
      BY <1>0, DivMod
    <2>2. Wrap = PIPESIZE * (Wrap \div PIPESIZE)
      BY <1>0, <2>1, Z3
    <2> QED BY <2>1, <2>2
  <1>3. c * d \in Nat /\ Wrap * d = PIPESIZE * (c * d)
    BY <1>0, <1>2, Z3
  <1>4. PICK b \in Nat, e \in Nat, q \in Nat : b = a + k /\ e = r + k /\ q = c * d
    BY <1>3
  <1>5. b = PIPESIZE * q + e
    <2>1. PICK z \in Nat : z = Wrap * d /\ z = PIPESIZE * q
      BY <1>0, <1>3, <1>4, Z3
    <2>2. a = z + r
      BY <1>1, <2>1
    <2>3. b = z + e
      BY ONLY <1>0, <2>2, <1>4, z \in Nat, r \in 0..Wrap - 1, k \in Nat
    <2> QED BY <2>1, <2>3
  <1>6. b % PIPESIZE = e % PIPESIZE
    <2>1. PIPESIZE \in Nat \ {0}
      BY <1>0
    <2> QED BY ONLY <2>1, <1>5, ModShift, b \in Nat, e \in Nat, q \in Nat
  <1> QED BY <1>1, <1>4, <1>6

\* Two numbers less than m apart have different remainders.
LEMMA ModClose ==
    ASSUME NEW m \in Nat \ {0}, NEW a \in Nat, NEW b \in Nat, a <= b, b - a < m, a % m = b % m
    PROVE  a = b
  <1>1. PICK q1 \in Nat, r1 \in 0..m - 1 : a = m * q1 + r1 /\ r1 = a % m
    BY DivMod
  <1>2. PICK q2 \in Nat, r2 \in 0..m - 1 : b = m * q2 + r2 /\ r2 = b % m
    BY DivMod
  <1>3. m * q1 \in Nat /\ m * q2 \in Nat
    BY Z3
  <1>4. m * q2 + 0 = m * q1 + (b - a)
    BY <1>1, <1>2, <1>3
  <1>5. 0 \in 0..m - 1 /\ b - a \in 0..m - 1
    OBVIOUS
  <1> QED BY <1>4, <1>5, ModUnique

\* The number of bytes in the ring from the wrapped counters.
LEMMA ModDiff ==
    ASSUME NEW m \in Nat \ {0}, NEW a \in Nat, NEW b \in Nat, a <= b, b - a < m
    PROVE  ((b % m) + m - (a % m)) % m = b - a
  <1>1. a = m * (a \div m) + (a % m) /\ b = m * (b \div m) + (b % m)
    BY DivMod
  <1>2. (b % m) + m - (a % m) = m * ((a \div m) + 1) - m * (b \div m) + (b - a)
    <2>1. m * ((a \div m) + 1) = m * (a \div m) + m
      BY DivMod, Z3
    <2> QED BY <1>1, <2>1, DivMod
  <1>3. b \div m <= (a \div m) + 1
    <2> SUFFICES ASSUME b \div m > (a \div m) + 1 PROVE FALSE
      BY DivMod
    <2>1. m * (b \div m) >= m * (a \div m) + m + m
      BY DivMod, Z3
    <2> QED BY <1>1, <2>1, DivMod
  <1> DEFINE q == (a \div m) + 1 - (b \div m)
  <1>4. q \in Nat
    BY <1>3, DivMod
  <1>5. m * q = m * ((a \div m) + 1) - m * (b \div m)
    BY DivMod, Z3
  <1>6. (b % m) + m - (a % m) = m * q + (b - a)
    BY <1>2, <1>5
  <1>7. (b % m) + m - (a % m) \in Nat
    BY DivMod
  <1> QED BY <1>4, <1>6, <1>7, ModIs

-----------------------------------------------------------------------------
(* The ring *)

\* Count, computed from the wrapped counters, is the number of bytes in the ring.
LEMMA CountIs ==
    ASSUME TypeOK, RingInv
    PROVE  Count = sent - got
  <1>1. sent - got < Wrap /\ got <= sent /\ got \in Nat /\ sent \in Nat /\ Wrap \in Nat \ {0}
    BY PipeAssumption DEF TypeOK, RingInv
  <1>2. ((sent % Wrap) + Wrap - (got % Wrap)) % Wrap = sent - got
    BY <1>1, ModDiff
  <1> QED BY <1>2 DEF Count, RingInv

\* The test for a full ring, on wrapped counters, stops a writer in time.
LEMMA RoomBounds ==
    ASSUME TypeOK, RingInv, NEW w \in User, NEW k, Room(w, k)
    PROVE  k \in Nat /\ k <= left[w] /\ sent + k <= got + PIPESIZE
  <1>1. k \in Nat /\ k <= left[w]
    BY DEF Room, TypeOK
  <1>2. sent + k <= got + PIPESIZE
    <2> SUFFICES ASSUME sent + k > got + PIPESIZE PROVE FALSE
      BY <1>1, PipeAssumption DEF TypeOK
    <2>1. PICK j \in Nat : sent + j = got + PIPESIZE /\ j \in 0..k - 1
      <3>1. got + PIPESIZE - sent \in Nat /\ got + PIPESIZE - sent \in 0..k - 1
            /\ sent + (got + PIPESIZE - sent) = got + PIPESIZE
        BY <1>1, PipeAssumption DEF TypeOK, RingInv
      <3> QED BY <3>1
    <2>2. (nwrite + j) % Wrap = (sent + j) % Wrap
      BY ModAdd, PipeAssumption DEF TypeOK, RingInv
    <2>3. (nread + PIPESIZE) % Wrap = (got + PIPESIZE) % Wrap
      BY ModAdd, PipeAssumption DEF TypeOK, RingInv
    <2> QED BY <2>1, <2>2, <2>3 DEF Room
  <1> QED BY <1>1, <1>2

\* Bytes that fit are put behind those in the ring, and on none of them.
LEMMA PutKeeps ==
    ASSUME TypeOK, RingInv, NEW k \in Nat, sent + k <= got + PIPESIZE, Put(k)
    PROVE  /\ data' \in [0..PIPESIZE - 1 -> Nat] /\ nwrite' \in 0..Wrap - 1
           /\ sent' \in Nat /\ nread' = nread /\ got' = got
           /\ RingInv'
  <1> DEFINE At(i, j) == (nwrite + j - 1) % PIPESIZE = i
  <1>0. /\ PIPESIZE \in Nat \ {0} /\ Wrap \in Nat \ {0} /\ Wrap % PIPESIZE = 0
        /\ sent \in Nat /\ got \in Nat /\ got <= sent /\ sent <= got + PIPESIZE
    BY PipeAssumption DEF TypeOK, RingInv
  <1>1. \A j \in 1..k : (nwrite + j - 1) % PIPESIZE = (sent + j - 1) % PIPESIZE
    <2> TAKE j \in 1..k
    <2>1. PICK h \in Nat : h = j - 1
      OBVIOUS
    <2>2. ((sent % Wrap) + h) % PIPESIZE = (sent + h) % PIPESIZE
      BY <1>0, WrapAdd
    <2>3. nwrite + j - 1 = (sent % Wrap) + h /\ sent + j - 1 = sent + h
      BY <1>0, <2>1, DivMod DEF RingInv
    <2> QED BY <2>2, <2>3
  <1>2. \A i \in 0..PIPESIZE - 1 : \A j \in 1..k : At(i, j) <=> (sent + j - 1) % PIPESIZE = i
    BY <1>1
  <1>3. data' = [i \in 0..PIPESIZE - 1 |->
                   IF \E j \in 1..k : At(i, j) THEN sent + (CHOOSE j \in 1..k : At(i, j)) ELSE data[i]]
    BY DEF Put, TypeOK
  <1>4. data' \in [0..PIPESIZE - 1 -> Nat]
    <2> SUFFICES ASSUME NEW i \in 0..PIPESIZE - 1
                 PROVE  (IF \E j \in 1..k : At(i, j) THEN sent + (CHOOSE j \in 1..k : At(i, j)) ELSE data[i]) \in Nat
      BY <1>3
    <2>1. CASE \E j \in 1..k : At(i, j)
      <3>1. (CHOOSE j \in 1..k : At(i, j)) \in 1..k
        BY <2>1
      <3> QED BY <2>1, <3>1, <1>0
    <2>2. CASE ~ \E j \in 1..k : At(i, j)
      BY <2>2 DEF TypeOK
    <2> QED BY <2>1, <2>2
  <1>5. nwrite' = (sent + k) % Wrap /\ sent' = sent + k /\ nread' = nread /\ got' = got
    BY <1>0, ModAdd DEF Put, RingInv
  <1>6. nwrite' \in 0..Wrap - 1 /\ sent' \in Nat
    <2>1. sent + k \in Nat
      BY <1>0
    <2> QED BY <1>0, <1>5, <2>1, DivMod
  <1>7. ASSUME NEW x \in got..(sent + k) - 1
        PROVE  data'[x % PIPESIZE] = x + 1
    <2>0. x \in Nat /\ x % PIPESIZE \in 0..PIPESIZE - 1
      BY <1>0, DivMod
    <2>1. CASE x < sent
      <3>1. ~ \E j \in 1..k : At(x % PIPESIZE, j)
        <4> SUFFICES ASSUME NEW j \in 1..k, (sent + j - 1) % PIPESIZE = x % PIPESIZE PROVE FALSE
          BY <1>2, <2>0
        <4>1. PICK y \in Nat : y = sent + j - 1
          BY <1>0
        <4>2. x <= y /\ y - x < PIPESIZE /\ x # y
          BY <1>0, <2>0, <2>1, <4>1
        <4> QED BY <1>0, <2>0, <4>1, <4>2, ModClose
      <3>2. x \in got..sent - 1
        BY <1>0, <2>0, <2>1
      <3> QED BY <1>3, <2>0, <3>1, <3>2 DEF RingInv
    <2>2. CASE x >= sent
      <3>1. PICK h \in 1..k : h = x - sent + 1
        BY <1>0, <2>0, <2>2
      <3>2. At(x % PIPESIZE, h)
        <4>1. sent + h - 1 = x
          BY <1>0, <2>0, <3>1
        <4> QED BY <1>2, <2>0, <4>1
      <3>3. ASSUME NEW j \in 1..k, At(x % PIPESIZE, j)
            PROVE  j = h
        <4>1. PICK y \in Nat : y = sent + j - 1
          BY <1>0
        <4>2. y % PIPESIZE = x % PIPESIZE
          BY <1>2, <2>0, <3>3, <4>1
        <4>3. (x <= y => y - x < PIPESIZE) /\ (y <= x => x - y < PIPESIZE)
          BY <1>0, <2>0, <2>2, <4>1
        <4>4. x = y
          <5>1. CASE x <= y
            BY <1>0, <2>0, <4>2, <4>3, <5>1, ModClose
          <5>2. CASE y <= x
            BY <1>0, <2>0, <4>2, <4>3, <5>2, ModClose
          <5> QED BY <2>0, <5>1, <5>2
        <4> QED BY <1>0, <2>0, <3>1, <4>1, <4>4
      <3>4. (CHOOSE j \in 1..k : At(x % PIPESIZE, j)) = h
        BY <3>2, <3>3
      <3>5. data'[x % PIPESIZE] = sent + h
        BY <1>3, <2>0, <3>2, <3>4
      <3> QED BY <1>0, <2>0, <3>1, <3>5
    <2> QED BY <1>0, <2>0, <2>1, <2>2
  <1> HIDE DEF At
  <1>8. RingInv'
    <2>1. nread' = got' % Wrap /\ nwrite' = sent' % Wrap /\ got' <= sent' /\ sent' <= got' + PIPESIZE
      BY <1>0, <1>5 DEF RingInv
    <2>2. \A x \in got'..sent' - 1 : data'[x % PIPESIZE] = x + 1
      <3>1. got'..sent' - 1 = got..(sent + k) - 1
        BY <1>5, Zenon
      <3>2. \A x \in got..(sent + k) - 1 : data'[x % PIPESIZE] = x + 1
        BY <1>7
      <3> QED BY <3>1, <3>2
    <2> QED BY <2>1, <2>2 DEF RingInv
  <1> QED BY <1>4, <1>5, <1>6, <1>8

-----------------------------------------------------------------------------
(* First in, first out *)

\* The invariant that the steps keep.
Inv == TypeOK /\ RingInv

\* Steps that do not touch the ring keep what is said about it.
LEMMA RingStutters ==
    ASSUME TypeOK, RingInv, UNCHANGED ring
    PROVE  RingInv' /\ data' \in [0..PIPESIZE - 1 -> Nat] /\ nread' \in 0..Wrap - 1
           /\ nwrite' \in 0..Wrap - 1 /\ sent' \in Nat /\ got' \in Nat
  BY DEF TypeOK, RingInv, ring

\* Steps of a write.
LEMMA WriteKeeps ==
    ASSUME Inv, NEW w \in User,
           WriteFull(w) \/ WriteDone(w) \/ WriteClosed(w) \/ WriteKilled(w) \/ WriteWait(w)
    PROVE  Inv'
  <1> USE DEF Inv
  <1>1. ASSUME NEW k \in Nat, sent + k <= got + PIPESIZE, Put(k)
        PROVE  /\ RingInv' /\ data' \in [0..PIPESIZE - 1 -> Nat] /\ nread' \in 0..Wrap - 1
               /\ nwrite' \in 0..Wrap - 1 /\ sent' \in Nat /\ got' \in Nat
    BY <1>1, PutKeeps DEF TypeOK
  <1>2. CASE WriteFull(w)
    <2>1. PICK k \in 0..left[w] - 1 : Room(w, k) /\ Put(k) /\ left' = [left EXCEPT ![w] = @ - k]
      BY <1>2 DEF WriteFull
    <2>2. k \in Nat /\ left[w] \in Nat /\ k <= left[w] /\ sent + k <= got + PIPESIZE
      BY <2>1, RoomBounds DEF TypeOK
    <2>3. left' \in [User -> Nat]
      BY <2>1, <2>2 DEF TypeOK
    <2> QED BY <1>1, <1>2, <2>1, <2>2, <2>3, SMTT(30) DEF WriteFull, TypeOK, goto, ends
  <1>3. CASE WriteDone(w)
    <2>1. PICK k \in 0..left[w] : (\E m \in k..left[w] : Room(w, m)) /\ Put(k)
      BY <1>3 DEF WriteDone
    <2>2. PICK m \in k..left[w] : Room(w, m)
      BY <2>1
    <2>3. k \in Nat /\ sent + k <= got + PIPESIZE
      <3>1. m \in Nat /\ sent + m <= got + PIPESIZE
        BY <2>2, RoomBounds
      <3> QED BY <2>1, <2>2, <3>1, PipeAssumption DEF TypeOK
    <2> QED BY <1>1, <1>3, <2>1, <2>3 DEF WriteDone, TypeOK, goto, ends
  <1>4. CASE WriteClosed(w)
    BY <1>4, RingStutters DEF WriteClosed, TypeOK, goto, ends, sems
  <1>5. CASE WriteKilled(w)
    <2>1. PICK k \in 0..left[w] - 1 : (\E m \in k..left[w] : Room(w, m)) /\ Put(k)
      BY <1>5 DEF WriteKilled
    <2>2. PICK m \in k..left[w] : Room(w, m)
      BY <2>1
    <2>3. k \in Nat /\ sent + k <= got + PIPESIZE
      <3>1. m \in Nat /\ sent + m <= got + PIPESIZE
        BY <2>2, RoomBounds
      <3> QED BY <2>1, <2>2, <3>1, PipeAssumption DEF TypeOK
    <2> QED BY <1>1, <1>5, <2>1, <2>3 DEF WriteKilled, TypeOK, goto, ends, sems
  <1>6. CASE WriteWait(w)
    BY <1>6, RingStutters DEF WriteWait, TypeOK, goto, ends
  <1> QED BY <1>2, <1>3, <1>4, <1>5, <1>6

\* Steps of a read: the bytes taken are the oldest, and the rest stays.
LEMMA ReadKeeps ==
    ASSUME Inv, NEW r \in User, ReadEmpty(r) \/ ReadWait(r) \/ ReadSome(r)
    PROVE  Inv'
  <1> USE DEF Inv
  <1>1. CASE ReadEmpty(r)
    BY <1>1, RingStutters DEF ReadEmpty, TypeOK, goto, ends, sems
  <1>2. CASE ReadWait(r)
    BY <1>2, RingStutters DEF ReadWait, TypeOK, goto, ends
  <1>3. CASE ReadSome(r)
    <2>0. Wrap \in Nat \ {0} /\ got \in Nat /\ sent \in Nat /\ got <= sent /\ left[r] \in Nat
      BY PipeAssumption DEF TypeOK, RingInv
    <2>1. PICK k : /\ k \in Nat /\ k <= sent - got
                   /\ nread' = (nread + k) % Wrap /\ got' = got + k
      <3>1. Least(left[r], Count) \in Nat /\ Least(left[r], Count) <= sent - got
        BY <2>0, CountIs DEF Least
      <3>2. PICK k \in (IF "copy" \in Faults THEN 0..Least(left[r], Count) ELSE {Least(left[r], Count)}) :
                nread' = (nread + k) % Wrap /\ got' = got + k
        BY <1>3 DEF ReadSome
      <3>3. k \in Nat /\ k <= sent - got
        BY <2>0, <3>1, <3>2
      <3> QED BY <3>2, <3>3
    <2>2. nread' = got' % Wrap /\ nread' \in 0..Wrap - 1 /\ got' \in Nat
      <3>1. (nread + k) % Wrap = (got + k) % Wrap
        BY <2>0, <2>1, ModAdd DEF RingInv
      <3>2. got + k \in Nat
        BY <2>0, <2>1
      <3> QED BY <2>0, <2>1, <3>1, <3>2, DivMod
    <2>3. RingInv'
      <3>1. got' <= sent /\ sent <= got' + PIPESIZE
        BY <2>0, <2>1, PipeAssumption DEF RingInv
      <3>2. \A x \in got'..sent - 1 : data[x % PIPESIZE] = x + 1
        <4> TAKE x \in got'..sent - 1
        <4>1. x \in got..sent - 1
          BY <2>0, <2>1
        <4> QED BY <4>1 DEF RingInv
      <3>3. UNCHANGED <<data, nwrite, sent>>
        BY <1>3 DEF ReadSome
      <3>4. \A x \in got'..sent' - 1 : data'[x % PIPESIZE] = x + 1
        BY <3>2, <3>3
      <3> QED BY <2>2, <3>1, <3>3, <3>4 DEF RingInv
    <2> QED BY <1>3, <2>2, <2>3 DEF ReadSome, TypeOK, goto, ends
  <1> QED BY <1>1, <1>2, <1>3

\* A call and a close do not touch the ring.
LEMMA CallKeeps ==
    ASSUME Inv, NEW u \in User, NEW n \in Sizes, Call(u, n)
    PROVE  Inv'
  BY RingStutters, PipeAssumption DEF Inv, Call, TypeOK, goto, ends, sems

LEMMA CloseKeeps ==
    ASSUME Inv, NEW u \in User, generic_fileclose(u)
    PROVE  Inv'
  <1> USE DEF Inv
  <1>1. readopen' \in 0..1 /\ writeopen' \in 0..1 /\ read_sem' \in Nat /\ write_sem' \in Nat
    BY DEF generic_fileclose, pipe_close, TypeOK, ends, sems
  <1>2. freed' \in BOOLEAN
    <2>1. CASE pipe_close(u)
      BY <2>1, Zenon DEF pipe_close
    <2>2. CASE UNCHANGED ends
      BY <2>2 DEF ends, TypeOK
    <2> QED BY <2>1, <2>2, Zenon DEF generic_fileclose, ends
  <1> QED BY <1>1, <1>2, RingStutters DEF generic_fileclose, TypeOK, goto

\* The invariant is inductive.
THEOREM InvHolds == Spec => []Inv
  <1>1. Init => Inv
    <2> SUFFICES ASSUME Init PROVE Inv
      OBVIOUS
    <2>1. 0 % Wrap = 0 /\ PIPESIZE \in Nat \ {0} /\ Wrap \in Nat \ {0}
      BY PipeAssumption
    <2>2. TypeOK
      <3>1. pc \in [User -> {"user", "section", "wait", "exit", "closed", "absent"}]
        BY DEF Init
      <3>2. freed \in BOOLEAN
        BY DEF Init
      <3> QED BY <2>1, <3>1, <3>2 DEF Init, TypeOK
    <2>3. RingInv
      BY <2>1 DEF Init, RingInv
    <2> QED BY <2>2, <2>3 DEF Inv
  <1>2. Inv /\ [Next]_vars => Inv'
    <2> SUFFICES ASSUME Inv, [Next]_vars PROVE Inv'
      OBVIOUS
    <2>1. CASE Next
      <3>1. PICK u \in User : Progress(u) \/ generic_fileclose(u) \/ \E n \in Sizes : Call(u, n)
        BY <2>1 DEF Next
      <3> QED BY <3>1, WriteKeeps, ReadKeeps, CallKeeps, CloseKeeps DEF Progress
    <2>2. CASE UNCHANGED vars
      BY <2>2, RingStutters DEF Inv, TypeOK, vars, ring, ends, sems
    <2> QED BY <2>1, <2>2
  <1> QED BY <1>1, <1>2, PTL DEF Spec

\* What pipe_read finds between the wrapped counters are the bytes sent and not yet read, in
\* order: nothing is lost, doubled or overwritten, however often the counters wrap.
THEOREM FifoHolds == Spec => []Fifo
  <1>1. Inv => Fifo
    <2> SUFFICES ASSUME Inv PROVE Fifo
      OBVIOUS
    <2> USE DEF Inv
    <2>0. got \in Nat /\ sent \in Nat /\ got <= sent /\ sent <= got + PIPESIZE /\ PIPESIZE \in Nat
      BY PipeAssumption DEF TypeOK, RingInv
    <2>1. Count = sent - got
      BY CountIs
    <2>2. ASSUME NEW i \in 1..Count
          PROVE  data[(nread + i - 1) % PIPESIZE] = got + i
      <3>1. PICK h \in Nat : h = i - 1 /\ got + h \in got..sent - 1
        BY <2>0, <2>1
      <3>2. ((got % Wrap) + h) % PIPESIZE = (got + h) % PIPESIZE
        BY <2>0, WrapAdd
      <3>3. nread + i - 1 = (got % Wrap) + h
        BY <2>0, <3>1 DEF TypeOK, RingInv
      <3>4. data[(got + h) % PIPESIZE] = got + h + 1
        BY <3>1 DEF RingInv
      <3> QED BY <2>0, <3>1, <3>2, <3>3, <3>4
    <2> QED BY <2>0, <2>1, <2>2 DEF Fifo
  <1> QED BY <1>1, InvHolds, PTL

-----------------------------------------------------------------------------
(* The end of a pipe *)

\* Only a close takes a user off the ends that are open.
LEMMA ProgressKeepsOpen ==
    ASSUME TypeOK, NEW u \in User, Progress(u) \/ \E n \in Sizes : Call(u, n)
    PROVE  UNCHANGED ends /\ \A S \in SUBSET User : Open(S)' = Open(S)
  <1>1. UNCHANGED ends /\ \E l \in {"user", "section", "wait", "exit"} : pc' = [pc EXCEPT ![u] = l]
    BY DEF Progress, WriteFull, WriteDone, WriteClosed, WriteKilled, WriteWait, ReadEmpty,
           ReadWait, ReadSome, Call, goto, ends
  <1>2. pc[u] \in {"user", "section", "wait"}
    BY DEF Progress, WriteFull, WriteDone, WriteClosed, WriteKilled, WriteWait, ReadEmpty,
           ReadWait, ReadSome, Call
  <1> QED BY <1>1, <1>2 DEF Open, TypeOK

\* The pipe goes with the last descriptor: no call is under way on a pipe that is freed.
THEOREM FreedUnusedHolds == Spec => []FreedUnused
  <1>1. Init => FreedUnused
    BY DEF Init, FreedUnused
  <1>2. TypeOK /\ FreedUnused /\ [Next]_vars => FreedUnused'
    <2> SUFFICES ASSUME TypeOK, FreedUnused, [Next]_vars PROVE FreedUnused'
      OBVIOUS
    <2>1. ASSUME NEW u \in User, Progress(u) \/ \E n \in Sizes : Call(u, n)
          PROVE  FreedUnused'
      <3>1. Open(Reader)' = Open(Reader) /\ Open(Writer)' = Open(Writer) /\ Open(User)' = Open(User)
        BY <2>1, ProgressKeepsOpen DEF User
      <3>2. UNCHANGED ends
        BY <2>1, ProgressKeepsOpen
      <3> QED BY <3>1, <3>2 DEF FreedUnused, ends
    <2>2. ASSUME NEW u \in User, generic_fileclose(u)
          PROVE  FreedUnused'
      <3>1. \A S \in SUBSET User : Open(S)' = Open(S) \ {u}
        BY <2>2 DEF generic_fileclose, goto, Open, TypeOK
      <3>2. /\ Open(Reader)' = Open(Reader) \ {u} /\ Open(Writer)' = Open(Writer) \ {u}
            /\ Open(User)' = Open(Reader)' \cup Open(Writer)'
        BY <3>1 DEF User, Open
      <3>3. CASE UNCHANGED ends
        BY <3>2, <3>3 DEF FreedUnused, ends, Open, User
      <3>4. CASE Open(IF u \in Writer THEN Writer ELSE Reader) = {u} /\ pipe_close(u)
        BY <3>2, <3>4 DEF FreedUnused, pipe_close, TypeOK
      <3> QED BY <2>2, <3>3, <3>4 DEF generic_fileclose
    <2>3. CASE UNCHANGED vars
      BY <2>3 DEF FreedUnused, vars, ends, Open
    <2> QED BY <2>1, <2>2, <2>3 DEF Next
  <1>3. Inv => TypeOK
    BY DEF Inv
  <1> QED BY <1>1, <1>2, <1>3, InvHolds, PTL DEF Spec

==============================================================================
