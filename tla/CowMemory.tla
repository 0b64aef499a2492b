------------------------------ MODULE CowMemory ------------------------------
(***************************************************************************)
(* Proof, for any numbers of processes, pages and frames, that lazy        *)
(* allocation and copy-on-write as in module Cow give each process a       *)
(* memory of its own while every process has one thread.                   *)
(***************************************************************************)
EXTENDS CowProof

\* A frame is at one page of whatever processes map it.
SameVa ==
    \A p, q \in Proc, v, w \in Va :
        Present(p, v) /\ pt[p][v].frame = pt[q][w].frame => v = w

\* The bits of an entry: PTE_W only in one that is valid, and no PTE_READONLY on a private page,
\* which is writable or shared
Bits ==
    \A p \in Proc, v \in Va :
        /\ pt[p][v].W => Present(p, v)
        /\ Kind[v] = "private" /\ Present(p, v) => ~pt[p][v].ro /\ (pt[p][v].W \/ pt[p][v].share)

\* A frame that can be written to through an entry of a private page is in no other entry.
OneWriter ==
    \A p, q \in Proc, v, w \in Va :
        pt[p][v].W /\ Kind[v] # "shared" /\ pt[q][w].frame = pt[p][v].frame => p = q /\ v = w

Entries == SameVa /\ Bits /\ OneWriter

\* What a process finds in a page
Sees(p, v) == IF Present(p, v) THEN content[pt[p][v].frame] ELSE 0

\* The new frame of a fault holds what the page is to hold.
FaultHas(t) ==
    /\ pc[t] = "map" => content[new[t]] = 0
    /\ pc[t] = "set" /\ va[t] \in Private => content[new[t]] = mem[ProcOf[t]][va[t]]

\* The pages that uvmcopy has done are the child's copies.
ForkHas(t) ==
    pc[t] = "fork" =>
      \A q \in Proc, v \in Private \ todo[t] : q = child[t] => Sees(q, v) = mem[ProcOf[t]][v]

Contents ==
    /\ \A p \in Proc, v \in Private : state[p] = "live" => Sees(p, v) = mem[p][v]
    /\ \A t \in Thread : FaultHas(t) /\ ForkHas(t)

MemInv == RefInv /\ Entries /\ Contents

-----------------------------------------------------------------------------
\* One entry gets a frame that is in no entry, or becomes invalid.
LEMMA EntriesSet ==
    ASSUME Entries, NEW p \in Proc, NEW v \in Va, NEW e,
           \A q \in Proc, w \in Va : pt'[q][w] = IF q = p /\ w = v THEN e ELSE pt[q][w],
           e.frame # None => \A q \in Proc, w \in Va : pt[q][w].frame # e.frame,
           e.W => e.frame # None,
           Kind[v] = "private" /\ e.frame # None => ~e.ro /\ (e.W \/ e.share)
    PROVE  Entries'
  <1>1. SameVa'
    BY DEF Entries, SameVa, Present
  <1>2. Bits'
    BY DEF Entries, Bits, Present
  <1>3. OneWriter'
    <2> SUFFICES ASSUME NEW q \in Proc, NEW r \in Proc, NEW w \in Va, NEW x \in Va,
                        pt'[q][w].W, Kind[w] # "shared", pt'[r][x].frame = pt'[q][w].frame
                 PROVE  q = r /\ w = x
      BY DEF OneWriter
    <2>1. CASE q = p /\ w = v
      BY <2>1
    <2>2. CASE r = p /\ x = v /\ ~(q = p /\ w = v)
      BY <2>2 DEF Entries, Bits, Present
    <2>3. CASE ~(q = p /\ w = v) /\ ~(r = p /\ x = v)
      BY <2>3 DEF Entries, OneWriter
    <2> QED BY <2>1, <2>2, <2>3
  <1> QED BY <1>1, <1>2, <1>3 DEF Entries

\* Steps that write no entry
LEMMA EntriesSame == Entries /\ UNCHANGED pt => Entries'
  <1> SUFFICES ASSUME Entries, UNCHANGED pt PROVE Entries'
    OBVIOUS
  <1>1. SameVa'
    BY DEF Entries, SameVa, Present
  <1>2. Bits'
    BY DEF Entries, Bits, Present
  <1>3. OneWriter'
    BY DEF Entries, OneWriter
  <1> QED BY <1>1, <1>2, <1>3 DEF Entries

\* A step that stores nothing for a program: what live processes see stays, and so does what a
\* fault or a fork has, or it is right again.
LEMMA SeesStep ==
    ASSUME Contents, UNCHANGED mem,
           \A q \in Proc : state'[q] = "live" =>
               state[q] = "live" /\ \A v \in Private : Sees(q, v)' = Sees(q, v),
           \A u \in Thread :
               \/ FaultHas(u)' /\ ForkHas(u)'
               \/ /\ pc'[u] = pc[u] /\ va'[u] = va[u] /\ new'[u] = new[u]
                  /\ child'[u] = child[u] /\ todo'[u] = todo[u]
                  /\ pc[u] \in {"map", "set"} => content'[new[u]] = content[new[u]]
                  /\ pc[u] = "fork" => \A q \in Proc, v \in Private : q = child[u] => Sees(q, v)' = Sees(q, v)
    PROVE  Contents'
  <1>1. \A q \in Proc, v \in Private : state'[q] = "live" => Sees(q, v)' = mem'[q][v]
    BY DEF Contents
  <1>2. ASSUME NEW u \in Thread PROVE FaultHas(u)' /\ ForkHas(u)'
    <2>1. CASE /\ pc'[u] = pc[u] /\ va'[u] = va[u] /\ new'[u] = new[u]
               /\ child'[u] = child[u] /\ todo'[u] = todo[u]
               /\ pc[u] \in {"map", "set"} => content'[new[u]] = content[new[u]]
               /\ pc[u] = "fork" => \A q \in Proc, v \in Private : q = child[u] => Sees(q, v)' = Sees(q, v)
      <3>0. FaultHas(u) /\ ForkHas(u)
        BY DEF Contents
      <3>1. FaultHas(u)'
        BY <2>1, <3>0 DEF FaultHas
      <3>2. ForkHas(u)'
        BY <2>1, <3>0 DEF ForkHas
      <3> QED BY <3>1, <3>2
    <2> QED BY <2>1
  <1> QED BY <1>1, <1>2 DEF Contents

\* Steps that change neither entries nor memory
LEMMA StillStep ==
    ASSUME MemInv, UNCHANGED <<pt, content, mem>>,
           \A q \in Proc : state'[q] = "live" => state[q] = "live",
           \A u \in Thread :
               \/ pc'[u] \notin {"map", "set", "fork"}
               \/ pc'[u] = "fork" /\ todo'[u] = Va
               \/ /\ pc'[u] = pc[u] /\ va'[u] = va[u] /\ new'[u] = new[u]
                  /\ child'[u] = child[u] /\ todo'[u] = todo[u]
    PROVE  Entries' /\ Contents'
  <1>1. Entries'
    BY EntriesSame DEF MemInv
  <1>2. \A q \in Proc, v \in Private : Sees(q, v)' = Sees(q, v)
    BY DEF Sees, Present
  <1>3. \A u \in Thread : pc'[u] \notin {"map", "set", "fork"} => FaultHas(u)' /\ ForkHas(u)'
    BY DEF FaultHas, ForkHas
  <1>4. \A u \in Thread : pc'[u] = "fork" /\ todo'[u] = Va => FaultHas(u)' /\ ForkHas(u)'
    BY DEF FaultHas, ForkHas, Private
  <1>5. Contents'
    BY <1>2, <1>3, <1>4, SeesStep DEF MemInv
  <1> QED BY <1>1, <1>5

\* The steps of that kind: the start of a fault, exit, the start and the failure of a fork,
\* kfree after cow, and an allocation that fails
LEMMA Still_Mem ==
    ASSUME MemInv, NEW t \in Thread,
           \/ Exit(t) \/ CowNoMem(t) \/ Kfree(t) \/ ForkNoMem(t) \/ (Alloc(t) /\ Resume(t))
           \/ \E v \in Va : FaultAbsent(t, v) \/ FaultCow(t, v) \/ FaultBad(t, v)
           \/ \E q \in Proc : ForkStart(t, q)
    PROVE  Entries' /\ Contents'
  <1>0. TypeOK /\ FaultOf(t) /\ (pc[t] # "none" => state[ProcOf[t]] = "live")
    BY DEF MemInv, RefInv, Faulting, OneThread
  <1>1. CASE Exit(t) \/ CowNoMem(t) \/ \E v \in Va : FaultBad(t, v)
    <2>1. do_exit(t) /\ UNCHANGED <<pt, content, mem>>
      BY <1>1 DEF Exit, CowNoMem, FaultBad, frames
    <2>2. /\ \A q \in Proc : state'[q] = "live" => state[q] = "live"
          /\ \A u \in Thread : \/ pc'[u] = "none"
                               \/ /\ pc'[u] = pc[u] /\ va'[u] = va[u] /\ new'[u] = new[u]
                                  /\ child'[u] = child[u] /\ todo'[u] = todo[u]
      BY <1>0, <2>1 DEF do_exit, goto, fork, TypeOK
    <2> QED BY <2>1, <2>2, StillStep
  <1>2. CASE Kfree(t) \/ ForkNoMem(t) \/ (Alloc(t) /\ Resume(t))
    <2>1. UNCHANGED <<pt, mem>> /\ \A q \in Proc : state'[q] = "live" => state[q] = "live"
      BY <1>0, <1>2 DEF Kfree, ForkNoMem, Alloc, TypeOK
    <2>2. UNCHANGED content
      BY <1>0, <1>2 DEF Kfree, ForkNoMem, Alloc, Resume, goto, frames, TypeOK
    <2>3. \A u \in Thread : \/ pc'[u] = "user" \/ pc'[u] = "kfree"
                            \/ /\ pc'[u] = pc[u] /\ va'[u] = va[u] /\ new'[u] = new[u]
                               /\ child'[u] = child[u] /\ todo'[u] = todo[u]
      BY <1>0, <1>2 DEF Kfree, ForkNoMem, Alloc, Resume, goto, fork, TypeOK
    <2> QED BY <2>1, <2>2, <2>3, StillStep
  <1>3. CASE \E v \in Va : FaultAbsent(t, v) \/ FaultCow(t, v)
    <2>1. UNCHANGED <<state, pt, content, mem>>
      BY <1>3 DEF FaultAbsent, FaultCow, frames
    <2>2. \A u \in Thread : \/ pc'[u] \in {"alloc", "cow"}
                            \/ /\ pc'[u] = pc[u] /\ va'[u] = va[u] /\ new'[u] = new[u]
                               /\ child'[u] = child[u] /\ todo'[u] = todo[u]
      BY <1>0, <1>3 DEF FaultAbsent, FaultCow, goto, fork, TypeOK
    <2> QED BY <2>1, <2>2, StillStep
  <1>4. CASE \E q \in Proc : ForkStart(t, q)
    <2>1. UNCHANGED <<pt, content, mem>> /\ \A q \in Proc : state'[q] = "live" => state[q] = "live"
      BY <1>0, <1>4 DEF ForkStart, frames, TypeOK
    <2>2. \A u \in Thread : \/ pc'[u] = "fork" /\ todo'[u] = Va
                            \/ /\ pc'[u] = pc[u] /\ va'[u] = va[u] /\ new'[u] = new[u]
                               /\ child'[u] = child[u] /\ todo'[u] = todo[u]
      BY <1>0, <1>4 DEF ForkStart, goto, TypeOK
    <2> QED BY <2>1, <2>2, StillStep
  <1> QED BY <1>1, <1>2, <1>3, <1>4

\* kmalloc for a fault: the frame is nobody's, so that nothing that is seen changes.
LEMMA NewFrame_Mem ==
    ASSUME MemInv, NEW t \in Thread, NEW f \in Free, NEW x, content' = [content EXCEPT ![f] = x],
           new' = [new EXCEPT ![t] = f], UNCHANGED <<state, pt, va, child, todo, mem>>,
           \/ pc[t] = "alloc" /\ pc' = [pc EXCEPT ![t] = "map"] /\ x = 0
           \/ pc[t] = "cow" /\ pc' = [pc EXCEPT ![t] = "set"] /\ x = content[old[t]]
    PROVE  Entries' /\ Contents'
  <1>0. TypeOK /\ Exact /\ FaultOf(t) /\ state[ProcOf[t]] = "live" /\ ProcOf[t] \in Proc
    BY CowAssumption DEF MemInv, RefInv, Faulting, OneThread
  <1>1. /\ f \in Frame /\ \A p \in Proc, v \in Va : pt[p][v].frame # f
        /\ \A u \in Thread : new[u] # f
    BY <1>0, FreeUnheld
  <1>2. Entries'
    BY EntriesSame DEF MemInv
  <1>3. \A g \in Frame \cup {None} : g # f => content'[g] = content[g]
    BY <1>0 DEF TypeOK
  <1>4. \A q \in Proc, v \in Private : Sees(q, v)' = Sees(q, v)
    <2> TAKE q \in Proc, v \in Private
    <2>1. v \in Va /\ pt[q][v].frame \in Frame \cup {None} /\ pt[q][v].frame # f
      BY <1>0, <1>1 DEF Private, TypeOK, PTE
    <2> QED BY <1>3, <2>1 DEF Sees, Present
  <1>5. FaultHas(t)' /\ ForkHas(t)'
    <2>1. content'[f] = x /\ new'[t] = f
      BY <1>0, <1>1 DEF TypeOK
    <2>2. CASE pc[t] = "alloc"
      BY <1>0, <2>1, <2>2 DEF FaultHas, ForkHas, TypeOK
    <2>3. CASE pc[t] = "cow"
      <3>1. /\ pc'[t] = "set" /\ x = content[old[t]] /\ va[t] \in Va
            /\ pt[ProcOf[t]][va[t]].frame = old[t] /\ old[t] # None
        BY <1>0, <2>3 DEF FaultOf, pte, TypeOK
      <3>2. va[t] \in Private => x = mem[ProcOf[t]][va[t]]
        BY <1>0, <3>1 DEF MemInv, Contents, Sees, Present
      <3> QED BY <2>1, <3>1, <3>2 DEF FaultHas, ForkHas
    <2> QED BY <2>2, <2>3
  <1>6. \A u \in Thread : u # t => /\ pc'[u] = pc[u] /\ new'[u] = new[u]
                                   /\ content'[new[u]] = content[new[u]]
    BY <1>0, <1>1, <1>3 DEF TypeOK
  <1>7. Contents'
    BY <1>4, <1>5, <1>6, SeesStep DEF MemInv
  <1> QED BY <1>2, <1>7

\* mappages, or the entry that cow changes: the new frame holds what the program saw before.
LEMMA Entry_Mem ==
    ASSUME MemInv, NEW t \in Thread, pc[t] \in {"map", "set"}, NEW e \in PTE, e.frame = new[t],
           setpte(ProcOf[t], va[t], e), pc'[t] \in {"user", "kfree"},
           \A u \in Thread : u # t => pc'[u] = pc[u] /\ va'[u] = va[u] /\ new'[u] = new[u],
           UNCHANGED <<state, content, child, todo, mem>>,
           Kind[va[t]] = "private" => ~e.ro /\ e.W
    PROVE  Entries' /\ Contents'
  <1> DEFINE p == ProcOf[t]
             v == va[t]
  <1>0. /\ TypeOK /\ FaultOf(t) /\ FaultHas(t) /\ state[p] = "live" /\ p \in Proc
        /\ v \in Va /\ new[t] # None /\ \A q \in Proc, w \in Va : pt[q][w].frame # new[t]
    <2>1. TypeOK /\ FaultOf(t) /\ FaultHas(t) /\ state[p] = "live" /\ p \in Proc
      BY CowAssumption DEF MemInv, RefInv, Faulting, OneThread, Contents
    <2>2. v \in Va /\ new[t] # None
      BY <2>1 DEF FaultOf
    <2> QED BY <2>1, <2>2 DEF MemInv, RefInv, NewFrames
  <1>1. \A q \in Proc, w \in Va : pt'[q][w] = IF q = p /\ w = v THEN e ELSE pt[q][w]
    BY <1>0, EntrySet
  <1>2. Entries'
    <2> HIDE DEF p, v
    <2>1. /\ e.frame # None /\ \A q \in Proc, w \in Va : pt[q][w].frame # e.frame
          /\ Kind[v] = "private" => ~e.ro /\ (e.W \/ e.share)
      BY <1>0 DEF v
    <2> QED BY <1>0, <1>1, <2>1, EntriesSet DEF MemInv
  <1>3. \A q \in Proc, w \in Private : state[q] = "live" => Sees(q, w)' = Sees(q, w)
    <2> SUFFICES ASSUME NEW q \in Proc, NEW w \in Private, state[q] = "live"
                 PROVE  Sees(q, w)' = Sees(q, w)
      OBVIOUS
    <2>0. w \in Va
      BY DEF Private
    <2>1. CASE ~(q = p /\ w = v)
      BY <1>1, <2>0, <2>1 DEF Sees, Present
    <2>2. CASE q = p /\ w = v
      <3>1. Sees(q, w)' = content[new[t]]
        BY <1>0, <1>1, <2>0, <2>2 DEF Sees, Present
      <3>2. CASE pc[t] = "map"
        BY <1>0, <2>2, <3>1, <3>2 DEF Sees, FaultOf, FaultHas
      <3>3. CASE pc[t] = "set"
        BY <1>0, <2>2, <3>1, <3>3 DEF FaultHas, MemInv, Contents
      <3> QED BY <3>2, <3>3
    <2> QED BY <2>1, <2>2
  <1>4. ASSUME NEW u \in Thread, u # t, pc[u] = "fork", NEW q \in Proc, q = child[u], NEW w \in Private
        PROVE  Sees(q, w)' = Sees(q, w)
    <2>1. q # p /\ w \in Va
      BY <1>0, <1>4 DEF MemInv, RefInv, Forking, ForkOf, Private
    <2> QED BY <1>1, <2>1 DEF Sees, Present
  <1>5. FaultHas(t)' /\ ForkHas(t)'
    BY DEF FaultHas, ForkHas
  <1>6. Contents'
    BY <1>3, <1>4, <1>5, SeesStep DEF MemInv
  <1> QED BY <1>2, <1>6

\* mappages
LEMMA Map_Mem ==
    ASSUME MemInv, NEW t \in Thread, Map(t)
    PROVE  Entries' /\ Contents'
  <1> DEFINE e == Pte(new[t], Writable(va[t]))
  <1>0. TypeOK /\ FaultOf(t) /\ pc[t] = "map"
    BY DEF Map, MemInv, RefInv, Faulting
  <1>1. setpte(ProcOf[t], va[t], e) /\ Resume(t) /\ UNCHANGED <<state, content, child, todo, mem>>
    BY <1>0 DEF Map, FaultOf, Present, pte, frames, fork
  <1>2. e \in PTE /\ e.frame = new[t]
    <2>1. new[t] \in Frame \cup {None} /\ Writable(va[t]) \in BOOLEAN
      BY <1>0 DEF TypeOK, Writable
    <2> QED BY <2>1, PteType
  <1>3. Kind[va[t]] = "private" => ~e.ro /\ e.W
    BY Zenon DEF Pte, Writable
  <1>4. /\ pc'[t] = "user"
        /\ \A u \in Thread : u # t => pc'[u] = pc[u] /\ va'[u] = va[u] /\ new'[u] = new[u]
    BY <1>0, <1>1 DEF Resume, goto, TypeOK
  <1> HIDE DEF e
  <1> QED BY <1>0, <1>1, <1>2, <1>3, <1>4, Entry_Mem

\* The entry that cow changes
LEMMA SetPte_Mem ==
    ASSUME MemInv, NEW t \in Thread, SetPte(t)
    PROVE  Entries' /\ Contents'
  <1> DEFINE e == [frame |-> new[t], W |-> TRUE, share |-> TRUE, ro |-> FALSE]
  <1>0. TypeOK /\ FaultOf(t) /\ pc[t] = "set"
    BY DEF SetPte, MemInv, RefInv, Faulting
  <1>1. /\ setpte(ProcOf[t], va[t], e) /\ goto(t, "kfree") /\ new' = [new EXCEPT ![t] = None]
        /\ UNCHANGED <<state, content, va, child, todo, mem>>
    BY DEF SetPte, frames, fork
  <1>2. e \in PTE /\ e.frame = new[t] /\ ~e.ro /\ e.W
    <2>1. new[t] \in Frame
      BY <1>0 DEF TypeOK, FaultOf
    <2> QED BY <2>1, PteType
  <1>4. /\ pc'[t] = "kfree"
        /\ \A u \in Thread : u # t => pc'[u] = pc[u] /\ va'[u] = va[u] /\ new'[u] = new[u]
    BY <1>0, <1>1 DEF goto, TypeOK
  <1> HIDE DEF e
  <1> QED BY <1>0, <1>1, <1>2, <1>4, Entry_Mem

\* uvmunmap: the process is dead.
LEMMA Unmap_Mem ==
    ASSUME MemInv, NEW p \in Proc, NEW v \in Va, Unmap(p, v)
    PROVE  Entries' /\ Contents'
  <1>0. /\ TypeOK /\ state[p] = "dead" /\ Forking
        /\ UNCHANGED <<state, content, pc, va, new, child, todo, mem>>
    BY DEF Unmap, fork, MemInv, RefInv
  <1>1. CASE setpte(p, v, NoPte)
    <2>0. NoPte \in PTE /\ NoPte.frame = None /\ ~NoPte.W
      BY PteType DEF NoPte
    <2>1. \A q \in Proc, w \in Va : pt'[q][w] = IF q = p /\ w = v THEN NoPte ELSE pt[q][w]
      BY <1>0, <1>1, <2>0, EntrySet
    <2>2. Entries'
      BY <2>0, <2>1, EntriesSet DEF MemInv
    <2>3. \A q \in Proc, w \in Private : q # p => Sees(q, w)' = Sees(q, w)
      BY <1>0, <2>1 DEF Sees, Present, Private
    <2>4. \A u \in Thread : pc[u] = "fork" => child[u] # p
      BY <1>0 DEF Forking, ForkOf
    <2>5. Contents'
      BY <1>0, <2>3, <2>4, SeesStep DEF MemInv
    <2> QED BY <2>2, <2>5
  <1>2. CASE UNCHANGED pt
    BY <1>0, <1>2, StillStep
  <1> QED BY <1>1, <1>2 DEF Unmap

\* mem changes only for process p, in which no thread is active, and what is seen stays.
LEMMA MemStep ==
    ASSUME Contents, OneThread, UNCHANGED <<pt, content, va, new>>, NEW p \in Proc,
           state[p] # "live", NEW m, mem \in [Proc -> [Private -> Value]],
           mem' = [mem EXCEPT ![p] = m],
           \A q \in Proc : state'[q] = "live" /\ q # p => state[q] = "live",
           state'[p] = "live" => \A v \in Private : Sees(p, v) = m[v],
           \A u \in Thread :
               \/ pc'[u] = "user"
               \/ pc'[u] = pc[u] /\ child'[u] = child[u] /\ todo'[u] = todo[u]
    PROVE  Contents'
  <1>1. \A q \in Proc : mem'[q] = IF q = p THEN m ELSE mem[q]
    OBVIOUS
  <1>2. \A q \in Proc, v \in Private : Sees(q, v)' = Sees(q, v)
    BY DEF Sees, Present
  <1>3. \A q \in Proc, v \in Private : state'[q] = "live" => Sees(q, v)' = mem'[q][v]
    BY <1>1, <1>2 DEF Contents
  <1>4. ASSUME NEW u \in Thread PROVE FaultHas(u)' /\ ForkHas(u)'
    <2>1. CASE pc'[u] = "user"
      BY <2>1 DEF FaultHas, ForkHas
    <2>2. CASE pc'[u] = pc[u] /\ child'[u] = child[u] /\ todo'[u] = todo[u]
      <3>1. pc[u] # "none" => mem'[ProcOf[u]] = mem[ProcOf[u]]
        BY <1>1, CowAssumption DEF OneThread
      <3>2. FaultHas(u) /\ ForkHas(u)
        BY DEF Contents
      <3>3. FaultHas(u)'
        BY <2>2, <3>1, <3>2 DEF FaultHas
      <3>4. ForkHas(u)'
        <4> SUFFICES ASSUME pc[u] = "fork", NEW q \in Proc, NEW v \in Private \ todo[u], q = child[u]
                     PROVE  Sees(q, v)' = mem'[ProcOf[u]][v]
          BY <2>2 DEF ForkHas
        <4>1. Sees(q, v) = mem[ProcOf[u]][v]
          BY <3>2 DEF ForkHas
        <4> QED BY <1>2, <3>1, <4>1
      <3> QED BY <3>3, <3>4
    <2> QED BY <2>1, <2>2
  <1> QED BY <1>3, <1>4 DEF Contents

\* The process structure is free again.
LEMMA FreeProc_Mem ==
    ASSUME MemInv, NEW p \in Proc, FreeProc(p)
    PROVE  Entries' /\ Contents'
  <1>0. /\ TypeOK /\ OneThread /\ state[p] = "dead" /\ UNCHANGED <<pt, content, pc, va, new, child, todo>>
        /\ state' = [state EXCEPT ![p] = "unused"]
    BY DEF FreeProc, frames, fork, MemInv, RefInv
  <1>1. Entries'
    BY Zenon, <1>0, EntriesSame DEF MemInv
  <1>2. state'[p] = "unused" /\ \A q \in Proc : q # p => state'[q] = state[q]
    BY <1>0 DEF TypeOK
  <1>3. PICK m : mem' = [mem EXCEPT ![p] = m] /\ mem \in [Proc -> [Private -> Value]]
    BY Zenon, <1>0 DEF FreeProc, TypeOK
  <1>4. Contents'
    BY Zenon, <1>0, <1>2, <1>3, MemStep DEF MemInv
  <1> QED BY <1>1, <1>4

\* The child of a fork sees what its parent stored.
LEMMA ForkDone_Mem ==
    ASSUME MemInv, NEW t \in Thread, NEW x \in Thread, ForkDone(t, x)
    PROVE  Entries' /\ Contents'
  <1>0. /\ TypeOK /\ OneThread /\ ForkOf(t) /\ ForkHas(t) /\ pc[t] = "fork" /\ todo[t] = {}
        /\ UNCHANGED <<pt, content, va, new, todo>>
    BY DEF ForkDone, frames, MemInv, RefInv, Forking, Contents
  <1>1. Entries'
    BY Zenon, <1>0, EntriesSame DEF MemInv
  <1>2. PICK p \in Proc : p = child[t] /\ state[p] = "forking"
    BY <1>0 DEF ForkOf
  <1>3. PICK m : m = mem[ProcOf[t]]
    OBVIOUS
  <1>4. /\ mem' = [mem EXCEPT ![p] = m] /\ mem \in [Proc -> [Private -> Value]]
        /\ \A v \in Private : Sees(p, v) = m[v]
    BY <1>0, <1>2, <1>3 DEF ForkDone, TypeOK, ForkHas
  <1>5. /\ \A q \in Proc : state'[q] = "live" /\ q # p => state[q] = "live"
        /\ \A u \in Thread : \/ pc'[u] = "user"
                             \/ pc'[u] = pc[u] /\ child'[u] = child[u] /\ todo'[u] = todo[u]
    BY <1>0, <1>2 DEF ForkDone, TypeOK
  <1>6. Contents'
    BY Zenon, <1>0, <1>2, <1>4, <1>5, MemStep DEF MemInv
  <1> QED BY <1>1, <1>6

\* A store goes to a frame that, for a private page, is in no other entry.
LEMMA Store_Mem ==
    ASSUME MemInv, NEW t \in Thread, NEW v \in Va, NEW val \in Value, Store(t, v, val)
    PROVE  Entries' /\ Contents'
  <1> DEFINE p == ProcOf[t]
             f == pt[p][v].frame
  <1>0. /\ TypeOK /\ OneThread /\ Faulting /\ Forking /\ NewFrames /\ p \in Proc /\ state[p] = "live"
        /\ pc[t] = "user" /\ pt[p][v].W /\ Present(p, v)
        /\ UNCHANGED <<state, pt, pc, va, new, child, todo>>
    BY CowAssumption DEF Store, fork, MemInv, RefInv, OneThread
  <1>1. Entries'
    BY Zenon, <1>0, EntriesSame DEF MemInv
  <1>2. f \in Frame
    BY <1>0 DEF TypeOK, PTE, Present
  <1>3. content'[f] = val /\ \A g \in Frame \cup {None} : g # f => content'[g] = content[g]
    <2>1. content' = [content EXCEPT ![f] = val] /\ content \in [Frame -> Value]
      BY <1>0 DEF Store, TypeOK
    <2> QED BY ONLY <1>2, <2>1
  <1>4. \A q \in Proc, w \in Private :
          mem'[q][w] = IF v \in Private /\ q = p /\ w = v THEN val ELSE mem[q][w]
    BY <1>0 DEF Store, TypeOK
  <1>5. \A q \in Proc, w \in Private :
          Sees(q, w)' = IF v \in Private /\ q = p /\ w = v THEN val ELSE Sees(q, w)
    <2> TAKE q \in Proc, w \in Private
    <2>0. w \in Va /\ Kind[w] # "shared" /\ pt[q][w].frame \in Frame \cup {None}
      BY <1>0 DEF Private, TypeOK, PTE
    <2>1. CASE v \in Private /\ q = p /\ w = v
      BY <1>0, <1>3, <2>1 DEF Sees, Present
    <2>2. CASE ~(v \in Private /\ q = p /\ w = v)
      <3>1. pt[q][w].frame # f
        <4>0. OneWriter /\ SameVa /\ (v \in Private <=> Kind[v] # "shared")
          BY DEF MemInv, Entries, Private
        <4>1. CASE v \in Private
          <5>1. ~(q = p /\ w = v)
            BY <2>2, <4>1
          <5> QED BY <1>0, <2>0, <4>0, <4>1, <5>1 DEF OneWriter
        <4>2. CASE v \notin Private
          BY Zenon, <1>0, <2>0, <4>0, <4>2 DEF SameVa
        <4> QED BY <4>1, <4>2
      <3> QED BY <1>0, <1>3, <2>0, <2>2, <3>1 DEF Sees, Present
    <2> QED BY <2>1, <2>2
  <1>6. \A q \in Proc, w \in Private : state'[q] = "live" => Sees(q, w)' = mem'[q][w]
    <2>1. \A q \in Proc, w \in Private : state[q] = "live" => Sees(q, w) = mem[q][w]
      BY DEF MemInv, Contents
    <2>2. state' = state
      BY <1>0
    <2> QED BY ONLY <1>4, <1>5, <2>1, <2>2
  <1>7. ASSUME NEW u \in Thread PROVE FaultHas(u)' /\ ForkHas(u)'
    <2>0. FaultHas(u) /\ ForkHas(u) /\ FaultOf(u) /\ ForkOf(u)
      BY <1>0 DEF MemInv, Contents, Faulting, Forking
    <2>1. CASE pc[u] \in {"map", "set", "fork"}
      <3>1. ProcOf[u] # p /\ ProcOf[u] \in Proc
        BY <1>0, <2>1, CowAssumption DEF OneThread
      <3>2. FaultHas(u)'
        <4>1. pc[u] \in {"map", "set"} => content'[new[u]] = content[new[u]]
          BY Zenon, <1>0, <1>3, <2>0 DEF FaultOf, NewFrames, TypeOK
        <4>2. \A w \in Private : mem'[ProcOf[u]][w] = mem[ProcOf[u]][w]
          BY <1>4, <3>1
        <4> QED BY Zenon, <1>0, <2>0, <4>1, <4>2 DEF FaultHas
      <3>3. ForkHas(u)'
        <4> SUFFICES ASSUME pc[u] = "fork", NEW q \in Proc, NEW w \in Private \ todo[u], q = child[u]
                     PROVE  Sees(q, w)' = mem'[ProcOf[u]][w]
          BY <1>0 DEF ForkHas
        <4>1. q # p
          BY <1>0, <2>0 DEF ForkOf
        <4>2. Sees(q, w) = mem[ProcOf[u]][w]
          BY <2>0 DEF ForkHas
        <4> QED BY <1>4, <1>5, <3>1, <4>1, <4>2
      <3> QED BY <3>2, <3>3
    <2>2. CASE pc[u] \notin {"map", "set", "fork"}
      BY <1>0, <2>2 DEF FaultHas, ForkHas
    <2> QED BY <2>1, <2>2
  <1> QED BY <1>1, <1>6, <1>7 DEF Contents

\* A page that parent and child share from now on: neither may write to it, unless it is of a
\* shared mapping.
LEMMA EntriesShared ==
    ASSUME Entries, NEW p \in Proc, NEW c \in Proc, NEW v \in Va, NEW e, Present(p, v), ~Present(c, v),
           pt'[p][v] = e, pt'[c][v] = e,
           \A q \in Proc, w \in Va : q \notin {p, c} \/ w # v => pt'[q][w] = pt[q][w],
           e.frame = pt[p][v].frame, Kind[v] # "shared" => ~e.W,
           Kind[v] = "private" => ~e.ro /\ (e.W \/ e.share)
    PROVE  Entries'
  <1>0. \A q \in Proc, w \in Va : pt'[q][w].frame = IF q = c /\ w = v THEN pt[p][v].frame ELSE pt[q][w].frame
    OBVIOUS
  <1>1. SameVa'
    BY <1>0 DEF Entries, SameVa, Present
  <1>2. Bits'
    BY DEF Entries, Bits, Present
  <1>3. OneWriter'
    <2> SUFFICES ASSUME NEW q \in Proc, NEW r \in Proc, NEW w \in Va, NEW x \in Va,
                        pt'[q][w].W, Kind[w] # "shared", pt'[r][x].frame = pt'[q][w].frame
                 PROVE  q = r /\ w = x
      BY DEF OneWriter
    <2>1. ~(q \in {p, c} /\ w = v) /\ pt[q][w].W
      OBVIOUS
    <2>2. CASE r = c /\ x = v
      BY <1>0, <2>1, <2>2 DEF Entries, OneWriter
    <2>3. CASE ~(r = c /\ x = v)
      BY <1>0, <2>1, <2>3 DEF Entries, OneWriter
    <2> QED BY <2>2, <2>3
  <1> QED BY <1>1, <1>2, <1>3 DEF Entries

\* What uvmcopy writes for a private page is neither writable nor read-only for good.
LEMMA SharedBits ==
    \A e \in PTE : /\ ~Shared(e).W /\ Shared(e).share
                   /\ ~e.ro /\ (e.W \/ e.share) => ~Shared(e).ro
  BY DEF Shared, PTE

\* uvmcopy changes nothing but what the child sees of page v, which is what the parent sees.
LEMMA ForkContents ==
    ASSUME Contents, Forking, Faulting, TypeOK, NEW t \in Thread, NEW p \in Proc, NEW c \in Proc,
           NEW v \in Va, p = ProcOf[t], c = child[t], pc[t] = "fork", state[p] = "live", state[c] # "live",
           todo' = [todo EXCEPT ![t] = @ \ {v}], UNCHANGED <<state, pc, va, new, child, mem>>,
           \A q \in Proc, w \in Private : ~(q = c /\ w = v) => Sees(q, w)' = Sees(q, w),
           v \in Private => Sees(c, v)' = Sees(p, v),
           \A u \in Thread : new[u] # None => content'[new[u]] = content[new[u]]
    PROVE  Contents'
  <1>1. /\ todo'[t] = todo[t] \ {v} /\ \A u \in Thread : u # t => todo'[u] = todo[u]
    BY DEF TypeOK
  <1>2. FaultHas(t)'
    BY DEF FaultHas
  <1>3. ForkHas(t)'
    <2>1. /\ v \in Private => Sees(p, v) = mem[p][v]
          /\ \A w \in Private \ todo[t] : Sees(c, w) = mem[p][w]
      BY DEF Contents, ForkHas
    <2>2. \A w \in Private \ todo'[t] : Sees(c, w)' = mem[p][w]
      BY <1>1, <2>1
    <2> QED BY <2>2 DEF ForkHas
  <1>4. \A u \in Thread : u # t /\ pc[u] = "fork" => child[u] # c
    BY DEF Forking
  <1>5. \A u \in Thread : pc[u] \in {"map", "set"} => content'[new[u]] = content[new[u]]
    BY DEF Faulting, FaultOf
  <1>6. \A q \in Proc : state'[q] = "live" =>
          state[q] = "live" /\ \A w \in Private : Sees(q, w)' = Sees(q, w)
    OBVIOUS
  <1>7. \A u \in Thread : u # t =>
          /\ pc'[u] = pc[u] /\ va'[u] = va[u] /\ new'[u] = new[u]
          /\ child'[u] = child[u] /\ todo'[u] = todo[u]
          /\ pc[u] = "fork" => \A q \in Proc, w \in Private : q = child[u] => Sees(q, w)' = Sees(q, w)
    BY <1>1, <1>4
  <1> QED BY <1>2, <1>3, <1>5, <1>6, <1>7, SeesStep

\* uvmcopy: the child sees in its page what the parent stored.
LEMMA ForkPage_Mem ==
    ASSUME MemInv, NEW t \in Thread, NEW v \in Va, ForkPage(t, v)
    PROVE  Entries' /\ Contents'
  <1>0. PICK p \in Proc, c \in Proc :
          /\ p = ProcOf[t] /\ c = child[t] /\ p # c /\ pc[t] = "fork" /\ v \in todo[t]
          /\ state[p] = "live" /\ state[c] = "forking" /\ pt[c][v].frame = None
    <2>1. pc[t] = "fork" /\ v \in todo[t] /\ state[ProcOf[t]] = "live" /\ ForkOf(t) /\ ProcOf[t] \in Proc
      BY CowAssumption DEF ForkPage, MemInv, RefInv, OneThread, Forking
    <2> QED BY <2>1 DEF ForkOf, Present
  <1>1. /\ TypeOK /\ Exact /\ Forking /\ Pages /\ ForkHas(t) /\ Faulting /\ Entries /\ Contents
        /\ todo' = [todo EXCEPT ![t] = @ \ {v}]
        /\ UNCHANGED <<state, pc, va, new, old, child, panic, mem>>
    BY DEF ForkPage, MemInv, RefInv, Contents
  <1>2. CASE Kind[v] = "stack"
    <2>1. PICK f \in Free : /\ content' = [content EXCEPT ![f] = content[pt[p][v].frame]]
                            /\ setpte(c, v, Pte(f, TRUE))
      BY Zenon, <1>0, <1>2 DEF ForkPage
    <2>2. /\ f \in Frame /\ f # None /\ \A q \in Proc, w \in Va : pt[q][w].frame # f
          /\ \A u \in Thread : new[u] # f
      BY <1>1, FreeUnheld, CowAssumption
    <2>3. PICK e \in PTE : e = Pte(f, TRUE) /\ e.frame = f
      BY Zenon, <2>2, PteType
    <2>4. \A q \in Proc, w \in Va : pt'[q][w] = IF q = c /\ w = v THEN e ELSE pt[q][w]
      <3>1. setpte(c, v, e)
        BY Zenon, <2>1, <2>3
      <3>2. TypeOK
        BY <1>1
      <3> QED BY <3>1, <3>2, EntrySet
    <2>5. Entries'
      <3>1. /\ \A q \in Proc, w \in Va : pt[q][w].frame # e.frame
            /\ e.frame # None /\ Kind[v] # "private"
        BY Zenon, <1>2, <2>2, <2>3
      <3> QED BY <1>1, <2>4, <3>1, EntriesSet
    <2>6. content'[f] = content[pt[p][v].frame] /\ \A g \in Frame \cup {None} : g # f => content'[g] = content[g]
      <3>1. content \in [Frame -> Value]
        BY <1>1 DEF TypeOK
      <3> QED BY ONLY <2>1, <2>2, <3>1
    <2>7. ASSUME NEW q \in Proc, NEW w \in Private, ~(q = c /\ w = v) PROVE Sees(q, w)' = Sees(q, w)
      <3>1. w \in Va /\ pt[q][w].frame \in Frame \cup {None} /\ pt[q][w].frame # f
        <4>1. w \in Va
          BY DEF Private
        <4>2. pt[q][w] \in PTE
          BY <1>1, <4>1 DEF TypeOK
        <4> QED BY <2>2, <4>1, <4>2 DEF PTE
      <3>2. pt'[q][w] = pt[q][w] /\ content'[pt[q][w].frame] = content[pt[q][w].frame]
        BY <2>4, <2>6, <2>7, <3>1
      <3> QED BY <3>2 DEF Sees, Present
    <2>8. Sees(c, v)' = Sees(p, v)
      <3>1. pt'[c][v].frame = f /\ Present(p, v)
        BY Zenon, <1>0, <1>1, <1>2, <2>3, <2>4 DEF Pages
      <3> QED BY <2>2, <2>6, <3>1 DEF Sees, Present
    <2>9. \A u \in Thread : new[u] # None => content'[new[u]] = content[new[u]]
      BY <1>1, <2>2, <2>6 DEF TypeOK
    <2> QED BY Zenon, <1>0, <1>1, <2>5, <2>7, <2>8, <2>9, ForkContents
  <1>3. CASE Kind[v] # "stack" /\ Present(p, v)
    <2>0. pt[p][v] \in PTE
      BY <1>1 DEF TypeOK
    <2>1. PICK e \in PTE : /\ e = IF Kind[v] = "shared" THEN pt[p][v] ELSE Shared(pt[p][v])
                           /\ e.frame = pt[p][v].frame
      BY <2>0, SharedType
    <2>2. pt' = [pt EXCEPT ![p][v] = e, ![c][v] = e] /\ content' = content
      BY <1>0, <1>3, <2>1 DEF ForkPage
    <2>3. /\ pt'[p][v] = e /\ pt'[c][v] = e
          /\ \A q \in Proc, w \in Va : q \notin {p, c} \/ w # v => pt'[q][w] = pt[q][w]
      BY <1>0, <1>1, <2>2 DEF TypeOK
    <2>4. /\ Kind[v] # "shared" => ~e.W
          /\ Kind[v] = "private" => ~e.ro /\ (e.W \/ e.share)
      BY Zenon, <1>1, <1>3, <2>0, <2>1, SharedBits DEF Entries, Bits
    <2>5. Entries'
      <3>1. Entries /\ Present(p, v) /\ ~Present(c, v)
        BY <1>0, <1>1, <1>3 DEF Present
      <3>2. e.frame = pt[p][v].frame
        BY <2>1
      <3> QED BY ONLY Zenon, <2>3, <2>4, <3>1, <3>2, EntriesShared, p \in Proc, c \in Proc, v \in Va
    <2>6. \A q \in Proc, w \in Va : ~(q = c /\ w = v) => pt'[q][w].frame = pt[q][w].frame
      BY <2>1, <2>3
    <2>7. \A q \in Proc, w \in Private : ~(q = c /\ w = v) => Sees(q, w)' = Sees(q, w)
      <3> SUFFICES ASSUME NEW q \in Proc, NEW w \in Private, ~(q = c /\ w = v)
                   PROVE  Sees(q, w)' = Sees(q, w)
        OBVIOUS
      <3>1. pt'[q][w].frame = pt[q][w].frame
        BY <2>6 DEF Private
      <3> QED BY <2>2, <3>1 DEF Sees, Present
    <2>8. pt'[c][v].frame = pt[p][v].frame
      BY <2>1, <2>3
    <2>9. Sees(c, v)' = Sees(p, v)
      BY <2>2, <2>8 DEF Sees, Present
    <2> QED BY Zenon, <1>0, <1>1, <2>2, <2>5, <2>7, <2>9, ForkContents
  <1>4. CASE Kind[v] # "stack" /\ ~Present(p, v)
    <2>1. UNCHANGED <<pt, content>>
      BY <1>0, <1>4 DEF ForkPage, frames
    <2>2. Entries'
      BY Zenon, <1>1, <2>1, EntriesSame
    <2>3. \A q \in Proc, w \in Va : Sees(q, w)' = Sees(q, w)
      BY <2>1 DEF Sees, Present
    <2>4. Sees(c, v) = Sees(p, v)
      BY <1>0, <1>4 DEF Sees, Present
    <2>5. /\ \A q \in Proc, w \in Private : ~(q = c /\ w = v) => Sees(q, w)' = Sees(q, w)
          /\ Sees(c, v)' = Sees(p, v)
      BY <2>3, <2>4 DEF Private
    <2> QED BY Zenon, <1>0, <1>1, <2>1, <2>2, <2>5, ForkContents
  <1> QED BY <1>2, <1>3, <1>4

-----------------------------------------------------------------------------
\* At first the stack is private, and everything is 0.
LEMMA MemInit == Init => MemInv
  <1> SUFFICES ASSUME Init PROVE Entries /\ Contents
    BY RefInit DEF MemInv
  <1>1. PICK t \in Thread, stack \in [{v \in Va : Kind[v] = "stack"} -> Frame] :
          /\ \A v, w \in DOMAIN stack : stack[v] = stack[w] => v = w
          /\ state = [p \in Proc |-> IF p = ProcOf[t] THEN "live" ELSE "unused"]
          /\ pt = [p \in Proc |-> [v \in Va |->
                      IF p = ProcOf[t] /\ v \in DOMAIN stack THEN Pte(stack[v], TRUE) ELSE NoPte]]
          /\ content = [f \in Frame |-> 0]
          /\ pc = [u \in Thread |-> IF u = t THEN "user" ELSE "none"]
          /\ mem = [p \in Proc |-> [v \in Private |-> 0]]
    BY Zenon DEF Init
  <1>2. PICK Stack \in SUBSET Va : Stack = DOMAIN stack /\ \A v \in Va : v \in Stack <=> Kind[v] = "stack"
    OBVIOUS
  <1>3. \A q \in Proc, v \in Va :
          /\ pt[q][v].frame = IF q = ProcOf[t] /\ v \in Stack THEN stack[v] ELSE None
          /\ pt[q][v].W <=> q = ProcOf[t] /\ v \in Stack
    <2> TAKE q \in Proc, v \in Va
    <2>1. pt[q][v] = IF q = ProcOf[t] /\ v \in Stack THEN Pte(stack[v], TRUE) ELSE NoPte
      BY <1>1, <1>2
    <2>2. /\ Pte(stack[v], TRUE).frame = stack[v] /\ Pte(stack[v], TRUE).W
          /\ NoPte.frame = None /\ ~NoPte.W
      BY DEF Pte, NoPte
    <2> QED BY ONLY <2>1, <2>2
  <1>4. None \notin Frame /\ \A v \in Stack : stack[v] \in Frame
    BY <1>2, CowAssumption
  <1>5. \A v, w \in Stack : stack[v] = stack[w] => v = w
    BY <1>1, <1>2
  <1>6. SameVa /\ Bits
    BY <1>2, <1>3, <1>4, <1>5 DEF SameVa, Bits, Present
  <1>8. OneWriter
    BY <1>2, <1>3, <1>4, <1>5 DEF OneWriter
  <1>7. Contents
    <2>1. ASSUME NEW p \in Proc, NEW v \in Private PROVE Sees(p, v) = 0 /\ mem[p][v] = 0
      <3>1. v \in Va /\ mem[p][v] = 0
        BY <1>1 DEF Private
      <3>2. Present(p, v) => pt[p][v].frame \in Frame
        BY <1>3, <1>4, <3>1 DEF Present
      <3>3. \A f \in Frame : content[f] = 0
        BY <1>1
      <3> QED BY <3>1, <3>2, <3>3 DEF Sees
    <2>2. \A u \in Thread : pc[u] \in {"user", "none"}
      BY <1>1
    <2> QED BY <2>1, <2>2 DEF Contents, FaultHas, ForkHas
  <1> QED BY <1>6, <1>7, <1>8 DEF Entries

\* Every step keeps the memories apart.
LEMMA MemNext == MemInv /\ [Next]_vars => MemInv'
  <1> SUFFICES ASSUME MemInv, [Next]_vars PROVE Entries' /\ Contents'
    BY RefNext DEF MemInv
  <1>1. CASE UNCHANGED vars
    BY <1>1, StillStep DEF vars, frames, fork
  <1>2. ASSUME NEW t \in Thread, Alloc(t) PROVE Entries' /\ Contents'
    <2>1. ASSUME NEW f \in Free, content' = [content EXCEPT ![f] = 0], new' = [new EXCEPT ![t] = f],
                 goto(t, "map"), UNCHANGED <<va, old>>
          PROVE  Entries' /\ Contents'
      BY Zenon, <1>2, <2>1, NewFrame_Mem DEF Alloc, goto, fork
    <2>2. CASE Resume(t)
      BY <1>2, <2>2, Still_Mem
    <2> QED BY <1>2, <2>1, <2>2 DEF Alloc
  <1>3. ASSUME NEW t \in Thread, cow(t) PROVE Entries' /\ Contents'
    <2>1. PICK f \in Free : /\ content' = [content EXCEPT ![f] = content[old[t]]]
                            /\ new' = [new EXCEPT ![t] = f]
      BY Zenon, <1>3 DEF cow
    <2> QED BY Zenon, <1>3, <2>1, NewFrame_Mem DEF cow, goto, fork
  <1>4. CASE Next
    BY <1>2, <1>3, <1>4, Still_Mem, Map_Mem, SetPte_Mem, Unmap_Mem, FreeProc_Mem, ForkDone_Mem,
       Store_Mem, ForkPage_Mem DEF Next
  <1> QED BY <1>1, <1>4

\* PTE_W, PTE_SHARE and PTE_READONLY: a frame that one process can write to is in no other
\* entry, and a private page does not become read-only, for every number of forks.
THEOREM RightToWriteHolds == Spec => []RightToWrite
  <1>1. MemInv => RightToWrite
    <2> SUFFICES ASSUME Entries PROVE RightToWrite
      BY DEF MemInv
    <2>1. \A p, q \in Proc, v, w \in Va :
            pt[p][v].W /\ Kind[v] # "shared" /\ pt[q][w].frame = pt[p][v].frame => <<p, v>> = <<q, w>>
      BY DEF Entries, OneWriter
    <2>2. \A p \in Proc, v \in Va :
            Kind[v] = "private" /\ Present(p, v) => pt[p][v].W \/ is_a_cow_page(pt[p][v])
      BY DEF Entries, Bits, is_a_cow_page
    <2> QED BY <2>1, <2>2 DEF RightToWrite
  <1> QED BY <1>1, MemInit, MemNext, PTL DEF Spec

\* Lazy allocation (pagefault), copy-on-write (cow) and fork (uvmcopy) give each process the
\* memory that it stored itself or had from its parent.
THEOREM PrivateMemoryHolds == Spec => []PrivateMemory
  <1>1. MemInv => PrivateMemory
    <2> SUFFICES ASSUME MemInv, NEW p \in Proc, state[p] = "live" PROVE MemoryOf(p) = mem[p]
      BY DEF PrivateMemory
    <2>1. mem[p] \in [Private -> Value]
      BY DEF MemInv, RefInv, TypeOK
    <2>2. \A v \in Private : MemoryOf(p)[v] = mem[p][v]
      BY DEF MemInv, Contents, MemoryOf, Sees
    <2>3. MemoryOf(p) = [v \in Private |-> MemoryOf(p)[v]]
      BY DEF MemoryOf
    <2>4. mem[p] = [v \in Private |-> mem[p][v]]
      BY <2>1
    <2> QED BY <2>2, <2>3, <2>4
  <1> QED BY <1>1, MemInit, MemNext, PTL DEF Spec

=============================================================================
