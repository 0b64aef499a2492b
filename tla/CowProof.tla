------------------------------- MODULE CowProof -------------------------------
(***************************************************************************)
(* Proof, for any numbers of processes, pages and frames, that the         *)
(* reference counts of module Cow are exact and that its panics are not    *)
(* reached while every process has one thread: fork, exit, and the         *)
(* theorems (the steps of a page fault are in CowRefs).                    *)
(***************************************************************************)
EXTENDS CowRefs

(* Steps of processes that move no reference *)

\* A thread exits, of itself, for a bad store or for want of memory.
LEMMA Leaves_Inv ==
    ASSUME RefInv, NEW t \in Thread, Exit(t) \/ CowNoMem(t) \/ \E v \in Va : FaultBad(t, v)
    PROVE  RefInv'
  <1> USE DEF RefInv
  <1>0. do_exit(t) /\ pc[t] \in {"user", "cow"} /\ UNCHANGED <<pt, content, refcnt, panic, mem>>
    BY DEF FaultBad, Exit, CowNoMem, frames
  <1>1. TypeOK'
    BY Zenon, <1>0, CowAssumption DEF do_exit, fork, goto, TypeOK
  <1>2. Exact'
    BY <1>0, <1>1, ExactSame DEF do_exit, fork, goto, TypeOK
  <1>3. ~panic'
    BY <1>0 DEF do_exit, fork, goto
  <1>4. OneThread'
    BY <1>0, CowAssumption DEF do_exit, fork, goto, OneThread, TypeOK
  <1>5. Faulting'
    BY <1>0, CowAssumption DEF do_exit, fork, goto, Faulting, FaultOf, TypeOK, OneThread, Present, pte
  <1>6. Forking'
    BY <1>0, CowAssumption DEF do_exit, fork, goto, Forking, ForkOf, TypeOK, OneThread, Present
  <1>7. Pages'
    BY <1>0, CowAssumption DEF do_exit, fork, goto, Pages, TypeOK, OneThread, Forking, ForkOf, Present
  <1>8. NewFrames'
    BY <1>0, CowAssumption DEF do_exit, fork, goto, NewFrames, TypeOK, Faulting, FaultOf
  <1> QED BY <1>1, <1>2, <1>3, <1>4, <1>5, <1>6, <1>7, <1>8

\* fork begins.
LEMMA ForkStart_Inv ==
    ASSUME RefInv, NEW t \in Thread, NEW q \in Proc, ForkStart(t, q)
    PROVE  RefInv'
  <1> USE DEF RefInv
  <1>1. TypeOK'
    BY CowAssumption DEF ForkStart, frames, goto, TypeOK
  <1>2. Exact'
    BY <1>1, ExactSame DEF ForkStart, frames, goto, TypeOK
  <1>3. ~panic'
    BY DEF ForkStart, frames, goto
  <1>4. OneThread'
    BY CowAssumption DEF ForkStart, frames, goto, OneThread, TypeOK
  <1>5. Faulting'
    BY CowAssumption DEF ForkStart, frames, goto, Faulting, FaultOf, TypeOK, OneThread, Present, pte
  <1>6. Forking'
    BY CowAssumption DEF ForkStart, frames, goto, Forking, ForkOf, TypeOK, OneThread, Present, Pages
  <1>7. Pages'
    BY CowAssumption DEF ForkStart, frames, goto, Pages, TypeOK, OneThread, Forking, ForkOf, Present
  <1>8. NewFrames'
    BY CowAssumption DEF ForkStart, frames, goto, NewFrames, TypeOK, Faulting, FaultOf
  <1> QED BY <1>1, <1>2, <1>3, <1>4, <1>5, <1>6, <1>7, <1>8

\* fork gives up.
LEMMA ForkNoMem_Inv ==
    ASSUME RefInv, NEW t \in Thread, ForkNoMem(t)
    PROVE  RefInv'
  <1> USE DEF RefInv
  <1>1. TypeOK'
    BY Zenon, CowAssumption DEF ForkNoMem, Resume, frames, goto, TypeOK
  <1>2. Exact'
    BY <1>1, ExactSame DEF ForkNoMem, Resume, frames, goto, TypeOK, Faulting, FaultOf
  <1>3. ~panic'
    BY DEF ForkNoMem, Resume, frames, goto
  <1>4. OneThread'
    BY CowAssumption DEF ForkNoMem, Resume, frames, goto, OneThread, TypeOK, Forking, ForkOf
  <1>5. Faulting'
    BY CowAssumption DEF ForkNoMem, Resume, frames, goto, Faulting, FaultOf, TypeOK, OneThread, Present, pte
  <1>6. Forking'
    BY CowAssumption DEF ForkNoMem, Resume, frames, goto, Forking, ForkOf, TypeOK, OneThread, Present
  <1>7. Pages'
    BY CowAssumption DEF ForkNoMem, Resume, frames, goto, Pages, TypeOK, OneThread, Forking, ForkOf, Present
  <1>8. NewFrames'
    BY CowAssumption DEF ForkNoMem, Resume, frames, goto, NewFrames, TypeOK, Faulting, FaultOf
  <1> QED BY <1>1, <1>2, <1>3, <1>4, <1>5, <1>6, <1>7, <1>8

\* fork is done.
LEMMA ForkDone_Inv ==
    ASSUME RefInv, NEW t \in Thread, NEW u \in Thread, ForkDone(t, u)
    PROVE  RefInv'
  <1> USE DEF RefInv
  <1>1. TypeOK'
    BY Zenon, CowAssumption DEF ForkDone, frames, TypeOK
  <1>2. Exact'
    BY Zenon, <1>1, ExactSame DEF ForkDone, frames, TypeOK, OneThread, Forking, ForkOf
  <1>3. ~panic'
    BY DEF ForkDone, frames
  <1>4. OneThread'
    <2>1. /\ ProcOf[t] # child[t] /\ \A x \in Thread : ProcOf[x] = child[t] => pc[x] = "none"
          /\ child[t] \in Proc
      BY CowAssumption DEF ForkDone, OneThread, Forking, ForkOf
    <2>2. /\ \A x \in Thread : pc'[x] = IF x = u \/ x = t THEN "user" ELSE pc[x]
          /\ \A p \in Proc : state'[p] = IF p = child[t] THEN "live" ELSE state[p]
      BY <2>1 DEF ForkDone, TypeOK
    <2>3. ProcOf[u] = child[t] /\ pc[t] = "fork"
      BY DEF ForkDone
    <2> QED BY <2>1, <2>2, <2>3, CowAssumption DEF OneThread
  <1>5. Faulting'
    BY CowAssumption DEF ForkDone, frames, Faulting, FaultOf, TypeOK, OneThread, Present, pte, Forking, ForkOf
  <1>6. Forking'
    BY CowAssumption DEF ForkDone, frames, Forking, ForkOf, TypeOK, OneThread, Present
  <1>7. Pages'
    BY CowAssumption DEF ForkDone, frames, Pages, TypeOK, OneThread, Forking, ForkOf, Present
  <1>8. NewFrames'
    BY CowAssumption DEF ForkDone, frames, NewFrames, TypeOK, Faulting, FaultOf
  <1> QED BY <1>1, <1>2, <1>3, <1>4, <1>5, <1>6, <1>7, <1>8

\* The process structure is free again.
LEMMA FreeProc_Inv ==
    ASSUME RefInv, NEW p \in Proc, FreeProc(p)
    PROVE  RefInv'
  <1> USE DEF RefInv
  <1>1. TypeOK'
    BY CowAssumption DEF FreeProc, frames, fork, TypeOK
  <1>2. Exact'
    BY <1>1, ExactSame DEF FreeProc, frames, fork, TypeOK
  <1>3. ~panic'
    BY DEF FreeProc, frames, fork
  <1>4. OneThread'
    BY CowAssumption DEF FreeProc, frames, fork, OneThread, TypeOK
  <1>5. Faulting'
    BY CowAssumption DEF FreeProc, frames, fork, Faulting, FaultOf, TypeOK, OneThread, Present, pte
  <1>6. Forking'
    BY CowAssumption DEF FreeProc, frames, fork, Forking, ForkOf, TypeOK, OneThread, Present
  <1>7. Pages'
    BY CowAssumption DEF FreeProc, frames, fork, Pages, TypeOK, OneThread, Forking, ForkOf, Present
  <1>8. NewFrames'
    BY CowAssumption DEF FreeProc, frames, fork, NewFrames, TypeOK, Faulting, FaultOf
  <1> QED BY <1>1, <1>2, <1>3, <1>4, <1>5, <1>6, <1>7, <1>8

-----------------------------------------------------------------------------
(* Steps that move references *)

\* uvmunmap finds the reference of the entry.
LEMMA Unmap_Inv ==
    ASSUME RefInv, NEW p \in Proc, NEW v \in Va, Unmap(p, v)
    PROVE  RefInv'
  <1> USE DEF RefInv
  <1>0. state[p] = "dead" /\ pt[p][v].frame \in Frame
    <2>1. pt[p][v].frame \in Frame \cup {None}
      BY DEF TypeOK, PTE
    <2> QED BY <2>1 DEF Unmap, Present
  <1>a. PICK f \in Frame, a \in Ref : f = pt[p][v].frame /\ a = <<p, v>> /\ target[a] = f
    BY Zenon, <1>0, TargetIs
  <1>b. refcnt[f] # 0
    BY <1>a, HeldCounted
  <1>c. /\ refcnt' = [refcnt EXCEPT ![f] = @ - 1] /\ setpte(p, v, NoPte)
        /\ UNCHANGED <<state, content, pc, va, new, old, child, todo, panic, mem>>
    BY <1>a, <1>b DEF Unmap, fork
  <1>d. /\ pt' \in [Proc -> [Va -> PTE]]
        /\ \A q \in Proc, w \in Va :
             pt'[q][w].frame = IF q = p /\ w = v THEN None ELSE pt[q][w].frame
    BY <1>c, PteType, EntrySet
  <1>1. TypeOK'
    <2>1. refcnt \in [Frame -> Nat] /\ refcnt[f] - 1 \in Nat
      BY <1>b DEF TypeOK
    <2>2. refcnt' \in [Frame -> Nat]
      BY <1>c, <2>1
    <2> QED BY <1>c, <1>d, <2>2 DEF TypeOK
  <1>2. Exact'
    <2>1. \A r \in Ref : r \notin {<<p, v>>} => target'[r] = target[r]
      <3>1. \A q \in Proc, w \in Va : <<q, w>> \notin {<<p, v>>} => pt'[q][w].frame = pt[q][w].frame
        BY <1>d
      <3> QED BY Zenon, <1>c, <3>1, TargetElse
    <2>2. target'[a] = None /\ \A r \in Ref : r # a => target'[r] = target[r]
      BY <1>a, <1>d, <2>1, TargetPrimed
    <2> QED BY Zenon, <1>1, <1>a, <1>c, <2>2, ExactLoses
  <1>4. OneThread'
    BY <1>c DEF OneThread
  <1>5. Faulting'
    <2>1. ASSUME NEW u \in Thread PROVE FaultOf(u)'
      <3>1. pc[u] # "none" => ProcOf[u] # p
        BY <1>0 DEF OneThread
      <3> QED BY <1>c, <1>d, <3>1, FaultKept, CowAssumption DEF Faulting
    <2> QED BY <2>1 DEF Faulting
  <1>6. Forking'
    <2>1. ASSUME NEW u \in Thread PROVE ForkOf(u)'
      <3>1. pc[u] = "fork" => child[u] # p /\ child[u] \in Proc
        BY <1>0 DEF Forking, ForkOf
      <3> QED BY <1>c, <1>d, <3>1, ForkKept DEF Forking
    <2> QED BY <1>c, <2>1 DEF Forking
  <1>7. Pages'
    BY <1>0, <1>c, <1>d DEF Pages, Present
  <1>8. NewFrames'
    <2>1. \A t \in Thread : new[t] # None => new[t] # pt[p][v].frame
      BY DEF NewFrames
    <2> QED BY <1>c, <1>d DEF NewFrames
  <1> QED BY <1>c, <1>1, <1>2, <1>4, <1>5, <1>6, <1>7, <1>8

\* uvmcopy: the child's page has no frame yet, and gets a new one or a share of its parent's.
LEMMA ForkPage_Inv ==
    ASSUME RefInv, NEW t \in Thread, NEW v \in Va, ForkPage(t, v)
    PROVE  RefInv'
  <1> USE DEF RefInv
  <1> DEFINE p == ProcOf[t]
             c == child[t]
             Rest == /\ todo' = [todo EXCEPT ![t] = @ \ {v}]
                     /\ UNCHANGED <<state, pc, va, new, old, child, panic, mem>>
             FrameAt(g) == \A q \in Proc, w \in Va :
                 pt'[q][w].frame = IF q = c /\ w = v THEN g ELSE pt[q][w].frame
  <1>0. /\ p \in Proc /\ c \in Proc /\ pc[t] = "fork" /\ v \in todo[t] /\ p # c
        /\ state[p] = "live" /\ state[c] = "forking" /\ pt[c][v].frame = None
    <2>1. pc[t] = "fork" /\ v \in todo[t] /\ state[p] = "live" /\ ForkOf(t)
      BY DEF ForkPage, OneThread, Forking
    <2> QED BY <2>1, CowAssumption DEF ForkOf, Present
  <1>r. Rest
    BY DEF ForkPage
  \* The child gets g: a frame with one reference more, or nothing.
  <1>g. ASSUME NEW g \in Frame \cup {None}, pt' \in [Proc -> [Va -> PTE]], FrameAt(g),
               content' \in [Frame -> Value], Kind[v] = "stack" => g # None,
               IF g = None THEN refcnt' = refcnt ELSE refcnt' = [refcnt EXCEPT ![g] = @ + 1],
               \A u \in Thread : new[u] # None => new[u] # g
        PROVE  RefInv'
    <2> HIDE DEF p, c
    <2>1. TypeOK'
      <3>1. refcnt' \in [Frame -> Nat]
        <4>1. CASE g = None
          BY <1>g, <4>1 DEF TypeOK
        <4>2. CASE g \in Frame
          <5>1. refcnt \in [Frame -> Nat] /\ refcnt[g] + 1 \in Nat /\ g # None
            BY <4>2, CowAssumption DEF TypeOK
          <5> QED BY <1>g, <4>2, <5>1
        <4> QED BY <4>1, <4>2
      <3>2. todo' \in [Thread -> SUBSET Va]
        BY <1>r DEF TypeOK
      <3> QED BY <1>g, <1>r, <3>1, <3>2 DEF TypeOK
    <2>2. Exact'
      <3>1. \A r \in Ref : r \notin {<<c, v>>} => target'[r] = target[r]
        <4>1. \A q \in Proc, w \in Va : <<q, w>> \notin {<<c, v>>} => pt'[q][w].frame = pt[q][w].frame
          BY <1>g
        <4> QED BY Zenon, <1>r, <4>1, TargetElse
      <3>2. PICK a \in Ref : a = <<c, v>>
        BY Zenon, <1>0, TargetIs
      <3>3. /\ target[a] = None /\ target'[a] = g
            /\ \A r \in Ref : r # a => target'[r] = target[r]
        BY <1>0, <1>g, <3>1, <3>2, TargetIs, TargetPrimed
      <3>4. CASE g # None
        BY <1>g, <2>1, <3>3, <3>4, ExactGains
      <3>5. CASE g = None
        <4>1. \A r \in Ref : target'[r] = target[r]
          BY <3>3, <3>5
        <4>2. \A f : {r \in Ref : target'[r] = f} = {r \in Ref : target[r] = f}
          BY <4>1
        <4> QED BY Zenon, <1>g, <3>5, <4>2 DEF Exact, Times
      <3> QED BY <3>4, <3>5
    <2>4. OneThread'
      BY <1>r DEF OneThread
    <2>5. Faulting'
      <3>1. ASSUME NEW u \in Thread PROVE FaultOf(u)'
        <4>1. pc[u] # "none" => ProcOf[u] # c
          BY <1>0 DEF OneThread
        <4> QED BY <1>g, <1>r, <4>1, FaultKept, CowAssumption DEF Faulting
      <3> QED BY <3>1 DEF Faulting
    <2>6. Forking'
      <3>1. ForkOf(t)'
        <4>1. todo'[t] = todo[t] \ {v} /\ child' = child /\ state' = state
          BY <1>r DEF TypeOK
        <4>2. \A w \in Va : /\ w \in todo[t] => pt[c][w].frame = None
                            /\ w \notin todo[t] /\ Kind[w] = "stack" => pt[c][w].frame # None
          BY <1>0 DEF Forking, ForkOf, Present, c
        <4>3. \A w \in Va : /\ w \in todo'[t] => pt'[c][w].frame = None
                            /\ w \notin todo'[t] /\ Kind[w] = "stack" => pt'[c][w].frame # None
          BY <1>0, <1>g, <4>1, <4>2
        <4> QED BY <1>0, <4>1, <4>3 DEF ForkOf, Present, c
      <3>2. ASSUME NEW u \in Thread, u # t PROVE ForkOf(u)'
        <4>1. pc[u] = "fork" => child[u] # c /\ child[u] \in Proc
          BY <1>0, <3>2 DEF Forking, ForkOf, c
        <4>2. todo'[u] = todo[u]
          BY <1>r, <3>2 DEF TypeOK
        <4> QED BY Zenon, <1>g, <1>r, <4>1, <4>2, ForkKept DEF Forking
      <3> QED BY <1>r, <3>1, <3>2 DEF Forking
    <2>7. Pages'
      BY <1>0, <1>g, <1>r DEF Pages, Present
    <2>8. NewFrames'
      BY <1>g, <1>r DEF NewFrames
    <2> QED BY <1>r, <2>1, <2>2, <2>4, <2>5, <2>6, <2>7, <2>8
  <1>1. CASE Kind[v] = "stack"
    <2>1. PICK f \in Free : /\ refcnt' = [refcnt EXCEPT ![f] = 1]
                            /\ content' = [content EXCEPT ![f] = content[pt[p][v].frame]]
                            /\ setpte(c, v, Pte(f, TRUE))
      BY Zenon, <1>1 DEF ForkPage
    <2>2. f \in Frame /\ refcnt[f] = 0 /\ \A u \in Thread : new[u] # f
      BY FreeUnheld
    <2>3. refcnt' = [refcnt EXCEPT ![f] = @ + 1] /\ f # None
      BY <2>1, <2>2, CowAssumption DEF TypeOK
    <2>4. pt[p][v].frame \in Frame
      <3>1. pt[p][v].frame \in Frame \cup {None}
        BY <1>0 DEF TypeOK, PTE
      <3> QED BY <1>0, <1>1, <3>1 DEF Pages, Present
    <2>5. content' \in [Frame -> Value]
      BY Zenon, <2>1, <2>4 DEF TypeOK
    <2>6. Pte(f, TRUE) \in PTE /\ Pte(f, TRUE).frame = f
      BY Zenon, <2>2, PteType
    <2>7. pt' \in [Proc -> [Va -> PTE]] /\ FrameAt(f)
      <3>1. PICK e \in PTE : e.frame = f /\ setpte(c, v, e)
        BY Zenon, <2>1, <2>6
      <3> QED BY <1>0, <3>1, EntrySet
    <2> HIDE DEF FrameAt
    <2> QED BY Zenon, <1>g, <2>2, <2>3, <2>5, <2>7
  <1>2. CASE Kind[v] # "stack" /\ Present(p, v)
    <2>1. PICK e \in PTE : /\ e.frame = pt[p][v].frame
                           /\ pt' = [pt EXCEPT ![p][v] = e, ![c][v] = e]
                           /\ share_page(e.frame) /\ UNCHANGED content
      <3>1. pt[p][v] \in PTE
        BY <1>0 DEF TypeOK
      <3>2. Shared(pt[p][v]) \in PTE /\ Shared(pt[p][v]).frame = pt[p][v].frame
        BY Zenon, <3>1, SharedType
      <3> QED BY Zenon, <1>2, <3>1, <3>2 DEF ForkPage
    <2>2. e.frame \in Frame /\ e.frame # None
      BY <1>2, <2>1 DEF PTE, Present
    <2>3. pt' \in [Proc -> [Va -> PTE]] /\ FrameAt(e.frame)
      BY Zenon, <1>0, <2>1 DEF TypeOK
    <2>4. content' \in [Frame -> Value] /\ refcnt' = [refcnt EXCEPT ![e.frame] = @ + 1]
      BY <2>1 DEF share_page, TypeOK
    <2>5. \A u \in Thread : new[u] # None => new[u] # e.frame
      BY <1>0, <2>1 DEF NewFrames
    <2> HIDE DEF FrameAt
    <2> QED BY Zenon, <1>2, <1>g, <2>2, <2>3, <2>4, <2>5
  <1>3. CASE Kind[v] # "stack" /\ ~Present(p, v)
    <2>1. UNCHANGED <<pt, content, refcnt>>
      BY <1>3 DEF ForkPage, frames
    <2>2. FrameAt(None) /\ pt' \in [Proc -> [Va -> PTE]] /\ content' \in [Frame -> Value]
      BY <1>0, <2>1 DEF TypeOK
    <2> HIDE DEF FrameAt
    <2> QED BY Zenon, <1>3, <1>g, <2>1, <2>2
  <1> QED BY <1>1, <1>2, <1>3

-----------------------------------------------------------------------------
\* The program that runs at first has its stack, and each page of it its own frame.
LEMMA RefInit == Init => RefInv
  <1> SUFFICES ASSUME Init PROVE RefInv
    OBVIOUS
  <1>1. PICK t \in Thread, stack \in [{v \in Va : Kind[v] = "stack"} -> Frame] :
          /\ \A v, w \in DOMAIN stack : stack[v] = stack[w] => v = w
          /\ state = [p \in Proc |-> IF p = ProcOf[t] THEN "live" ELSE "unused"]
          /\ pt = [p \in Proc |-> [v \in Va |->
                      IF p = ProcOf[t] /\ v \in DOMAIN stack THEN Pte(stack[v], TRUE) ELSE NoPte]]
          /\ content = [f \in Frame |-> 0]
          /\ refcnt = [f \in Frame |-> IF \E v \in DOMAIN stack : stack[v] = f THEN 1 ELSE 0]
          /\ pc = [u \in Thread |-> IF u = t THEN "user" ELSE "none"]
          /\ va = [u \in Thread |-> None] /\ new = [u \in Thread |-> None]
          /\ old = [u \in Thread |-> None]
          /\ child = [u \in Thread |-> None] /\ todo = [u \in Thread |-> {}]
          /\ mem = [p \in Proc |-> [v \in Private |-> 0]] /\ panic = FALSE
    BY Zenon DEF Init
  <1>a. PICK p \in Proc : p = ProcOf[t]
    BY CowAssumption
  <1>b. PICK Stack \in SUBSET Va : Stack = DOMAIN stack /\ \A v \in Va : v \in Stack <=> Kind[v] = "stack"
    OBVIOUS
  <1>2. /\ 0 \in Value /\ None \notin Frame
        /\ \A v \in Stack : stack[v] \in Frame /\ v \in Va
    BY <1>b, CowAssumption
  <1>3. /\ pt \in [Proc -> [Va -> PTE]]
        /\ \A q \in Proc, v \in Va :
             pt[q][v].frame = IF q = p /\ v \in Stack THEN stack[v] ELSE None
    <2>0. pt = [q \in Proc |-> [v \in Va |->
                  IF q = p /\ v \in Stack THEN Pte(stack[v], TRUE) ELSE NoPte]]
      BY <1>1, <1>a, <1>b
    <2>1. ASSUME NEW q \in Proc, NEW v \in Va
          PROVE  /\ pt[q][v] \in PTE
                 /\ pt[q][v].frame = IF q = p /\ v \in Stack THEN stack[v] ELSE None
      <3>1. CASE q = p /\ v \in Stack
        <4>1. pt[q][v] = Pte(stack[v], TRUE)
          BY <2>0, <3>1
        <4> QED BY Zenon, <1>2, <3>1, <4>1, PteType
      <3>2. CASE ~(q = p /\ v \in Stack)
        <4>1. pt[q][v] = NoPte
          BY Zenon, <2>0, <3>2
        <4> QED BY <3>2, <4>1, PteType
      <3> QED BY <3>1, <3>2
    <2>3. pt = [q \in Proc |-> [v \in Va |-> pt[q][v]]]
      BY <1>1
    <2> QED BY <2>1, <2>3
  <1>4. TypeOK
    <2>1. panic \in BOOLEAN
      BY Zenon, <1>1
    <2>2. refcnt \in [Frame -> Nat] /\ mem \in [Proc -> [Private -> Value]]
      BY <1>1, <1>2
    <2> QED BY Zenon, <1>1, <1>2, <1>3, <2>1, <2>2 DEF TypeOK
  <1>5. Exact
    <2> SUFFICES ASSUME NEW f \in Frame PROVE refcnt[f] = Times(target, f)
      BY DEF Exact
    <2>1. \A u \in Thread : target[<<u, "new">>] # f /\ target[<<u, "old">>] # f
      <3>1. \A u \in Thread : new[u] = None /\ old[u] = None
        BY <1>1
      <3>2. \A u \in Thread : /\ target[<<u, "new">>] = new[u]
                              /\ target[<<u, "old">>] = IF pc[u] = "kfree" THEN old[u] ELSE None
        BY Zenon, <1>4, TargetIs
      <3> QED BY <1>2, <3>1, <3>2
    <2>2. \A q \in Proc, v \in Va : target[<<q, v>>] = f <=> q = p /\ v \in Stack /\ stack[v] = f
      <3>1. \A q \in Proc, v \in Va : target[<<q, v>>] = pt[q][v].frame
        BY Zenon, <1>4, TargetIs
      <3>2. f # None
        BY <1>2
      <3>3. ASSUME NEW q \in Proc, NEW v \in Va
            PROVE  target[<<q, v>>] = f <=> q = p /\ v \in Stack /\ stack[v] = f
        <4>1. target[<<q, v>>] = pt[q][v].frame
          BY Zenon, <3>1
        <4>2. pt[q][v].frame = IF q = p /\ v \in Stack THEN stack[v] ELSE None
          BY Zenon, <1>3
        <4>3. CASE q = p /\ v \in Stack
          BY Zenon, <4>1, <4>2, <4>3
        <4>4. CASE ~(q = p /\ v \in Stack)
          BY Zenon, <3>2, <4>1, <4>2, <4>4
        <4> QED BY <4>3, <4>4
      <3> QED BY Zenon, <3>3
    <2>3. \A r \in Ref : target[r] = f => r \in Proc \X Va
      <3> SUFFICES ASSUME NEW r \in Thread \X {"new", "old"}, target[r] = f PROVE FALSE
        BY DEF Ref
      <3>1. PICK u \in Thread : r = <<u, "new">> \/ r = <<u, "old">>
        OBVIOUS
      <3> QED BY Zenon, <2>1, <3>1
    <2>4. CASE \E v \in Stack : stack[v] = f
      <3>1. PICK v \in Stack : stack[v] = f
        BY <2>4
      <3>2. {r \in Ref : target[r] = f} = {<<p, v>>}
        <4>1. <<p, v>> \in Ref /\ target[<<p, v>>] = f
          BY <1>2, <1>4, <2>2, <3>1, TargetIs
        <4>2. ASSUME NEW r \in Ref, target[r] = f PROVE r = <<p, v>>
          <5>1. PICK q \in Proc, w \in Va : r = <<q, w>>
            BY <2>3, <4>2
          <5>2. q = p /\ w \in Stack /\ stack[w] = f
            BY <2>2, <4>2, <5>1
          <5> QED BY <1>1, <1>b, <3>1, <5>1, <5>2
        <4> QED BY <4>1, <4>2
      <3> QED BY Zenon, <1>1, <1>b, <2>4, <3>2, FS_Singleton DEF Times
    <2>5. CASE ~ \E v \in Stack : stack[v] = f
      <3>1. {r \in Ref : target[r] = f} = {}
        <4> SUFFICES ASSUME NEW r \in Ref, target[r] = f PROVE FALSE
          OBVIOUS
        <4>1. PICK q \in Proc, w \in Va : r = <<q, w>>
          BY <2>3
        <4> QED BY <2>2, <2>5, <4>1
      <3> QED BY Zenon, <1>1, <1>b, <2>5, <3>1, FS_EmptySet DEF Times
    <2> QED BY <2>4, <2>5
  <1>6. OneThread /\ ~panic /\ Forking /\ NewFrames /\ Faulting
    <2>1. /\ \A u \in Thread : /\ pc[u] = IF u = t THEN "user" ELSE "none"
                               /\ new[u] = None
          /\ state[ProcOf[t]] = "live" /\ panic = FALSE
      BY <1>1, <1>a
    <2> QED BY <2>1 DEF OneThread, Forking, ForkOf, NewFrames, Faulting, FaultOf
  <1>8. Pages
    <2>1. \A q \in Proc : state[q] = IF q = p THEN "live" ELSE "unused"
      BY <1>1, <1>a
    <2> QED BY <1>2, <1>3, <1>b, <2>1 DEF Pages, Present
  <1> QED BY <1>4, <1>5, <1>6, <1>8 DEF RefInv

\* Every step keeps the references right.
LEMMA RefNext == RefInv /\ [Next]_vars => RefInv'
  <1> SUFFICES ASSUME RefInv, [Next]_vars PROVE RefInv'
    OBVIOUS
  <1>1. CASE UNCHANGED vars
    <2>1. UNCHANGED <<state, pt, content, refcnt, pc, va, new, old, child, todo, mem, panic>>
      BY <1>1 DEF vars, frames, fork
    <2>2. TypeOK'
      BY Zenon, <2>1 DEF RefInv, TypeOK
    <2>5. OneThread' /\ Pages' /\ NewFrames'
      BY Zenon, <2>1 DEF RefInv, OneThread, Pages, NewFrames, Present
    <2>3. Faulting' /\ Forking'
      BY Zenon, <2>1 DEF RefInv, Faulting, FaultOf, Forking, ForkOf, Present, pte
    <2>4. Exact'
      BY <2>1, <2>2, ExactSame DEF RefInv
    <2> QED BY <2>1, <2>2, <2>3, <2>4, <2>5 DEF RefInv
  <1>2. CASE Next
    BY <1>2, Store_Inv, FaultAbsent_Inv, FaultCow_Inv, Leaves_Inv, ForkStart_Inv, ForkNoMem_Inv,
       ForkDone_Inv, FreeProc_Inv, Alloc_Inv, cow_Inv, Map_Inv, SetPte_Inv, Kfree_Inv, Unmap_Inv,
       ForkPage_Inv DEF Next
  <1> QED BY <1>1, <1>2

\* While a process has one thread, the count of a frame is the number of its holders.
THEOREM CountsExact == Spec => []RefcntIsHolders
  <1>1. RefInv => RefcntIsHolders
    BY ExactIs DEF RefInv
  <1> QED BY <1>1, RefInit, RefNext, PTL DEF Spec

\* Then mappages and kfree do not panic.
THEOREM PanicFree == Spec => []NoPanic
  <1>1. RefInv => NoPanic
    BY DEF RefInv, NoPanic
  <1> QED BY <1>1, RefInit, RefNext, PTL DEF Spec

=============================================================================
