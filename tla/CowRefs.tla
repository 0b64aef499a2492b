------------------------------- MODULE CowRefs -------------------------------
(***************************************************************************)
(* The inductive invariant behind the exact reference counts of module     *)
(* Cow, while every process has one thread: lemmas about references, and   *)
(* the steps of a page fault.  CowProof has the other steps and the        *)
(* theorems.                                                               *)
(***************************************************************************)
EXTENDS Cow, Integers, FiniteSetTheorems, TLAPS

\* A process has one thread, which runs only while the process is live.
OneThread ==
    /\ \A t \in Thread : pc[t] # "none" => state[ProcOf[t]] = "live"
    /\ \A t, u \in Thread : pc[t] # "none" /\ pc[u] # "none" /\ ProcOf[t] = ProcOf[u] => t = u

\* What pagefault and cow know of the entry and the frames between two steps
FaultOf(t) ==
    /\ new[t] # None <=> pc[t] \in {"map", "set"}
    /\ pc[t] \in {"alloc", "map"} => va[t] \in Va /\ ~Present(ProcOf[t], va[t])
    /\ pc[t] \in {"cow", "set"} => va[t] \in Va /\ old[t] # None /\ pte(t).frame = old[t]
    /\ pc[t] = "kfree" => old[t] # None
Faulting == \A t \in Thread : FaultOf(t)

\* What uvmcopy has done to the child
ForkOf(t) ==
    pc[t] = "fork" =>
      /\ child[t] \in Proc /\ state[child[t]] = "forking"
      /\ \A v \in Va : /\ v \in todo[t] => ~Present(child[t], v)
                       /\ v \notin todo[t] /\ Kind[v] = "stack" => Present(child[t], v)
Forking ==
    /\ \A t \in Thread : ForkOf(t)
    /\ \A t, u \in Thread : pc[t] = "fork" /\ pc[u] = "fork" /\ child[t] = child[u] => t = u

\* A process that is unused has no pages, one that is live has its stack.
Pages ==
    \A p \in Proc, v \in Va :
      /\ state[p] = "unused" => ~Present(p, v)
      /\ state[p] = "live" /\ Kind[v] = "stack" => Present(p, v)

\* A frame between kmalloc and the entry that it is for is known to nobody else.
NewFrames ==
    \A t \in Thread : new[t] # None =>
      /\ \A p \in Proc, v \in Va : pt[p][v].frame # new[t]
      /\ \A u \in Thread : /\ new[u] = new[t] => u = t
                           /\ pc[u] = "kfree" => old[u] # new[t]

-----------------------------------------------------------------------------
(* References as a function from their places to frames *)

Targets == [Ref -> Frame \cup {None}]

\* The number of places at which g has f
Times(g, f) == Cardinality({r \in Ref : g[r] = f})

\* Places are finitely many.
LEMMA RefFinite == IsFiniteSet(Ref)
  <1>1. IsFiniteSet(Proc \X Va)
    BY FS_Product, CowAssumption
  <1>2. IsFiniteSet({"new", "old"})
    <2>1. IsFiniteSet({"new"})
      BY Zenon, FS_Singleton
    <2>2. IsFiniteSet({"new"} \cup {"old"})
      BY <2>1, FS_AddElement
    <2>3. {"new", "old"} = {"new"} \cup {"old"}
      OBVIOUS
    <2> QED BY <2>2, <2>3
  <1>3. IsFiniteSet(Thread \X {"new", "old"})
    BY <1>2, FS_Product, CowAssumption
  <1> QED BY Zenon, <1>1, <1>3, FS_Union DEF Ref

\* What changes when one place is set
LEMMA TimesSet ==
    ASSUME NEW g \in Targets, NEW a \in Ref, NEW b \in Frame \cup {None},
           NEW h \in Targets, h[a] = b, \A r \in Ref : r # a => h[r] = g[r], NEW f
    PROVE  /\ Times(g, f) \in Nat
           /\ g[a] # b /\ b = f => Times(h, f) = Times(g, f) + 1
           /\ g[a] # b /\ g[a] = f => Times(h, f) = Times(g, f) - 1
           /\ b # f /\ g[a] # f => Times(h, f) = Times(g, f)
  <1> USE DEF Targets
  <1> DEFINE S == {r \in Ref : g[r] = f}
             T == {r \in Ref : h[r] = f}
  <1>0. IsFiniteSet(S)
    BY RefFinite, FS_Subset
  <1>1. Cardinality(S) \in Nat
    BY <1>0, FS_CardinalityType
  <1>3. g[a] # b /\ b = f => T = S \cup {a} /\ a \notin S
    OBVIOUS
  <1>4. g[a] # b /\ g[a] = f => T = S \ {a} /\ a \in S
    OBVIOUS
  <1>5. b # f /\ g[a] # f => T = S
    OBVIOUS
  <1>6. a \notin S => Cardinality(S \cup {a}) = Cardinality(S) + 1
    BY <1>0, FS_AddElement
  <1>7. a \in S => Cardinality(S \ {a}) = Cardinality(S) - 1
    BY <1>0, FS_RemoveElement
  <1>8. Times(g, f) = Cardinality(S) /\ Times(h, f) = Cardinality(T)
    BY DEF Times
  <1> HIDE DEF S, T, Targets
  <1> QED BY Zenon, <1>1, <1>3, <1>4, <1>5, <1>6, <1>7, <1>8

\* Nobody holds a frame whose count is 0.
LEMMA TimesZero ==
    ASSUME NEW g \in Targets, NEW f, Times(g, f) = 0
    PROVE  \A r \in Ref : g[r] # f
  <1>1. IsFiniteSet({r \in Ref : g[r] = f})
    BY RefFinite, FS_Subset
  <1>2. {r \in Ref : g[r] = f} = {}
    BY <1>1, FS_EmptySet DEF Times
  <1> QED BY <1>2

-----------------------------------------------------------------------------
\* target, place by place
LEMMA TargetIs ==
    ASSUME TypeOK
    PROVE  /\ target \in Targets
           /\ \A p \in Proc, v \in Va : <<p, v>> \in Ref /\ target[<<p, v>>] = pt[p][v].frame
           /\ \A t \in Thread :
                /\ <<t, "new">> \in Ref /\ target[<<t, "new">>] = new[t]
                /\ <<t, "old">> \in Ref
                /\ target[<<t, "old">>] = IF pc[t] = "kfree" THEN old[t] ELSE None
  <1>1. \A p \in Proc, v \in Va : <<p, v>> \in Ref /\ target[<<p, v>>] = pt[p][v].frame
    BY CowAssumption DEF Ref, target
  <1>2. \A t \in Thread :
          /\ <<t, "new">> \in Ref /\ target[<<t, "new">>] = new[t]
          /\ <<t, "old">> \in Ref
          /\ target[<<t, "old">>] = IF pc[t] = "kfree" THEN old[t] ELSE None
    BY DEF Ref, target
  <1>3. \A r \in Ref : target[r] \in Frame \cup {None}
    <2> TAKE r \in Ref
    <2>1. CASE r \in Proc \X Va
      <3>1. PICK p \in Proc, v \in Va : r = <<p, v>>
        BY <2>1
      <3> QED BY <3>1, <1>1 DEF TypeOK, PTE
    <2>2. CASE r \in Thread \X {"new", "old"}
      <3>1. PICK t \in Thread : r = <<t, "new">> \/ r = <<t, "old">>
        BY <2>2
      <3> QED BY Zenon, <3>1, <1>2 DEF TypeOK
    <2> QED BY <2>1, <2>2 DEF Ref
  <1>4. target = [r \in Ref |-> target[r]]
    BY DEF target
  <1> QED BY <1>1, <1>2, <1>3, <1>4 DEF Targets

\* target has its type in the next state.
LEMMA TargetType == TypeOK' => target' \in Targets
  <1> SUFFICES ASSUME TypeOK' PROVE target' \in Targets
    OBVIOUS
  <1>1. \A r \in Ref : target'[r] \in Frame \cup {None}
    <2> TAKE r \in Ref
    <2>1. CASE r \in Proc \X Va
      <3>1. PICK p \in Proc, v \in Va : r = <<p, v>>
        BY <2>1
      <3>2. v # "new" /\ v # "old"
        BY CowAssumption
      <3>3. pt'[p][v].frame \in Frame \cup {None}
        BY DEF TypeOK, PTE
      <3> QED BY <3>1, <3>2, <3>3 DEF target
    <2>2. CASE r \in Thread \X {"new", "old"}
      <3>1. PICK t \in Thread : r = <<t, "new">> \/ r = <<t, "old">>
        BY <2>2
      <3> QED BY <3>1 DEF target, TypeOK
    <2> QED BY <2>1, <2>2 DEF Ref
  <1>2. target' = [r \in Ref |-> target'[r]]
    BY DEF target
  <1> QED BY <1>1, <1>2 DEF Targets

\* A function on the places that has these values is target in the next state.
LEMMA TargetNext ==
    ASSUME TypeOK', NEW g \in Targets,
           \A p \in Proc, v \in Va : g[<<p, v>>] = pt'[p][v].frame,
           \A t \in Thread : /\ g[<<t, "new">>] = new'[t]
                             /\ g[<<t, "old">>] = IF pc'[t] = "kfree" THEN old'[t] ELSE None
    PROVE  target' = g
  <1>1. \A r \in Ref : target'[r] = g[r]
    <2> TAKE r \in Ref
    <2>1. CASE r \in Proc \X Va
      <3>1. PICK p \in Proc, v \in Va : r = <<p, v>>
        BY <2>1
      <3>2. v # "new" /\ v # "old"
        BY CowAssumption
      <3> QED BY <3>1, <3>2 DEF target, Ref
    <2>2. CASE r \in Thread \X {"new", "old"}
      <3>1. PICK t \in Thread : r = <<t, "new">> \/ r = <<t, "old">>
        BY <2>2
      <3>2. CASE r = <<t, "new">>
        BY Zenon, <3>2 DEF target
      <3>3. CASE r = <<t, "old">>
        BY Zenon, <3>3 DEF target
      <3> QED BY <3>1, <3>2, <3>3
    <2> QED BY <2>1, <2>2 DEF Ref
  <1>2. target' = [r \in Ref |-> target'[r]]
    BY DEF target
  <1>3. g = [r \in Ref |-> g[r]]
    BY DEF Targets
  <1> QED BY <1>1, <1>2, <1>3

\* The reference counts are right.
Exact == \A f \in Frame : refcnt[f] = Times(target, f)

RefInv == TypeOK /\ Exact /\ ~panic /\ OneThread /\ Faulting /\ Forking /\ Pages /\ NewFrames

\* Exact is the property of Cow.
LEMMA ExactIs == RefcntIsHolders <=> TypeOK /\ Exact
  BY DEF RefcntIsHolders, Exact, Holders, Times

\* A frame that kmalloc may give out is nowhere referred to.
LEMMA FreeUnheld ==
    ASSUME TypeOK, Exact, NEW f \in Free
    PROVE  /\ f \in Frame /\ refcnt[f] = 0
           /\ \A p \in Proc, v \in Va : pt[p][v].frame # f
           /\ \A t \in Thread : new[t] # f /\ (pc[t] = "kfree" => old[t] # f)
  <1>1. f \in Frame /\ refcnt[f] = 0 /\ Times(target, f) = 0
    BY DEF Free, Exact
  <1>2. \A r \in Ref : target[r] # f
    BY <1>1, TargetIs, TimesZero
  <1> QED BY Zenon, <1>1, <1>2, TargetIs

\* A frame that is referred to has a count.
LEMMA HeldCounted ==
    ASSUME TypeOK, Exact, NEW r \in Ref, target[r] \in Frame
    PROVE  refcnt[target[r]] # 0
  <1> SUFFICES ASSUME NEW f \in Frame, f = target[r], refcnt[f] = 0 PROVE FALSE
    OBVIOUS
  <1>1. Times(target, f) = 0
    BY DEF Exact
  <1>2. \A x \in Ref : target[x] # f
    BY <1>1, TargetIs, TimesZero
  <1> QED BY <1>2

\* Steps that move no reference
LEMMA ExactSame ==
    ASSUME TypeOK, Exact, TypeOK', UNCHANGED <<pt, new, refcnt>>,
           \A t \in Thread : (IF pc'[t] = "kfree" THEN old'[t] ELSE None)
                                = (IF pc[t] = "kfree" THEN old[t] ELSE None)
    PROVE  Exact'
  <1>1. target' = target
    BY TargetIs, TargetNext
  <1> QED BY <1>1 DEF Exact, Times

\* target in the next state, place by place
LEMMA TargetPrimed ==
    /\ \A p \in Proc, v \in Va : target'[<<p, v>>] = pt'[p][v].frame
    /\ \A t \in Thread : /\ target'[<<t, "new">>] = new'[t]
                         /\ target'[<<t, "old">>] = IF pc'[t] = "kfree" THEN old'[t] ELSE None
  <1>1. \A p \in Proc, v \in Va : target'[<<p, v>>] = pt'[p][v].frame
    BY CowAssumption DEF Ref, target
  <1>2. \A t \in Thread : /\ target'[<<t, "new">>] = new'[t]
                          /\ target'[<<t, "old">>] = IF pc'[t] = "kfree" THEN old'[t] ELSE None
    BY DEF Ref, target
  <1> QED BY <1>1, <1>2

\* Places other than those in A keep their references.
LEMMA TargetElse ==
    ASSUME TypeOK, NEW A,
           \A p \in Proc, v \in Va : <<p, v>> \notin A => pt'[p][v].frame = pt[p][v].frame,
           \A t \in Thread : <<t, "new">> \notin A => new'[t] = new[t],
           \A t \in Thread : <<t, "old">> \notin A =>
               (IF pc'[t] = "kfree" THEN old'[t] ELSE None)
                   = (IF pc[t] = "kfree" THEN old[t] ELSE None)
    PROVE  \A r \in Ref : r \notin A => target'[r] = target[r]
  <1> TAKE r \in Ref
  <1> HAVE r \notin A
  <1>1. CASE r \in Proc \X Va
    <2>1. PICK p \in Proc, v \in Va : r = <<p, v>>
      BY <1>1
    <2> QED BY <2>1, TargetIs, TargetPrimed
  <1>2. CASE r \in Thread \X {"new", "old"}
    <2>1. PICK t \in Thread : r = <<t, "new">> \/ r = <<t, "old">>
      BY <1>2
    <2>2. CASE r = <<t, "new">>
      BY Zenon, <2>2, TargetIs, TargetPrimed
    <2>3. CASE r = <<t, "old">>
      BY Zenon, <2>3, TargetIs, TargetPrimed
    <2> QED BY <2>1, <2>2, <2>3
  <1> QED BY <1>1, <1>2 DEF Ref

\* A reference to f joins at place a, where there was none, and is counted.
LEMMA ExactGains ==
    ASSUME TypeOK, Exact, TypeOK', NEW a \in Ref, target[a] = None, NEW f \in Frame,
           target'[a] = f, \A r \in Ref : r # a => target'[r] = target[r],
           refcnt' = [refcnt EXCEPT ![f] = @ + 1]
    PROVE  Exact'
  <1> SUFFICES ASSUME NEW g \in Frame PROVE refcnt'[g] = Times(target', g)
    BY DEF Exact
  <1>1. target \in Targets /\ f \in Frame \cup {None} /\ None # f /\ None # g
    BY TargetIs, CowAssumption
  <1>2. target' \in Targets
    BY TargetType
  <1>3. /\ f = g => Times(target', g) = Times(target, g) + 1
        /\ f # g => Times(target', g) = Times(target, g)
    BY <1>1, <1>2, TimesSet
  <1> QED BY <1>3 DEF Exact, TypeOK

\* The reference at place a goes, and is no longer counted.
LEMMA ExactLoses ==
    ASSUME TypeOK, Exact, TypeOK', NEW a \in Ref, NEW f \in Frame, target[a] = f,
           target'[a] = None, \A r \in Ref : r # a => target'[r] = target[r],
           refcnt' = [refcnt EXCEPT ![f] = @ - 1]
    PROVE  Exact'
  <1> SUFFICES ASSUME NEW g \in Frame PROVE refcnt'[g] = Times(target', g)
    BY DEF Exact
  <1>1. target \in Targets /\ None \in Frame \cup {None} /\ None # f /\ None # g
    BY TargetIs, CowAssumption
  <1>2. target' \in Targets
    BY TargetType
  <1>3. /\ f = g => Times(target', g) = Times(target, g) - 1
        /\ f # g => Times(target', g) = Times(target, g)
    BY <1>1, <1>2, TimesSet
  <1> QED BY <1>3 DEF Exact, TypeOK

\* A reference moves from place a to place b, where there was none.
LEMMA TimesMoves ==
    ASSUME NEW g \in Targets, NEW a \in Ref, NEW b \in Ref, a # b, g[a] \in Frame, g[b] = None,
           NEW h \in Targets, h[b] = g[a], h[a] = None,
           \A r \in Ref : r # a /\ r # b => h[r] = g[r], NEW f \in Frame
    PROVE  Times(h, f) = Times(g, f)
  <1>1. None \notin Frame /\ None \in Frame \cup {None} /\ g[a] \in Frame \cup {None}
    BY CowAssumption
  <1>2. PICK k \in Targets : k[b] = g[a] /\ \A r \in Ref : r # b => k[r] = g[r]
    <2>1. [g EXCEPT ![b] = g[a]] \in Targets
      BY DEF Targets
    <2> QED BY Zenon, <2>1 DEF Targets
  <1>3. Times(g, f) \in Nat /\ Times(k, f) = IF g[a] = f THEN Times(g, f) + 1 ELSE Times(g, f)
    BY <1>1, <1>2, TimesSet
  <1>4. k[a] = g[a] /\ \A r \in Ref : r # a => h[r] = k[r]
    BY <1>2
  <1>5. Times(h, f) = IF k[a] = f THEN Times(k, f) - 1 ELSE Times(k, f)
    BY <1>1, <1>4, TimesSet
  <1> QED BY <1>3, <1>4, <1>5

\* A fault whose thread and page table do not change
LEMMA FaultKept ==
    ASSUME NEW u \in Thread, FaultOf(u), pc'[u] = pc[u], va'[u] = va[u], new'[u] = new[u],
           old'[u] = old[u],
           pc[u] # "none" => \A v \in Va : pt'[ProcOf[u]][v].frame = pt[ProcOf[u]][v].frame
    PROVE  FaultOf(u)'
  BY DEF FaultOf, Present, pte

\* A fork whose thread and child do not change
LEMMA ForkKept ==
    ASSUME NEW u \in Thread, ForkOf(u), pc'[u] = pc[u], child'[u] = child[u], todo'[u] = todo[u],
           pc[u] = "fork" => /\ state'[child[u]] = state[child[u]]
                             /\ \A v \in Va : pt'[child[u]][v].frame = pt[child[u]][v].frame
    PROVE  ForkOf(u)'
  BY DEF ForkOf, Present

\* An entry of type PTE leaves the page tables well-formed.
LEMMA EntrySet ==
    ASSUME TypeOK, NEW p \in Proc, NEW v \in Va, NEW e \in PTE, setpte(p, v, e)
    PROVE  /\ pt' \in [Proc -> [Va -> PTE]]
           /\ \A q \in Proc, w \in Va : pt'[q][w] = IF q = p /\ w = v THEN e ELSE pt[q][w]
  BY DEF TypeOK, setpte

\* The entries that mappages, cow and uvmunmap write
LEMMA PteType ==
    /\ \A f \in Frame \cup {None}, w \in BOOLEAN : Pte(f, w) \in PTE /\ Pte(f, w).frame = f
    /\ NoPte \in PTE /\ NoPte.frame = None
    /\ \A f \in Frame : [frame |-> f, W |-> TRUE, share |-> TRUE, ro |-> FALSE] \in PTE
  BY DEF Pte, NoPte, PTE

\* The entry that uvmcopy writes has the frame of the one it reads.
LEMMA SharedType == \A e \in PTE : Shared(e) \in PTE /\ Shared(e).frame = e.frame
  BY Zenon DEF Shared, PTE

-----------------------------------------------------------------------------
(* Steps of a fault *)

\* A step of thread t, which is in no fork, that keeps processes and forks as they are, changes
\* no page table but its own process's, takes no page from it, and no frame from another fault
LEMMA StepKept ==
    ASSUME OneThread, Faulting, Forking, Pages, NewFrames, UNCHANGED <<state, child, todo>>,
           NEW t \in Thread, pc[t] \notin {"none", "fork"}, pc'[t] \notin {"none", "fork"},
           \A u \in Thread : u # t => /\ pc'[u] = pc[u] /\ va'[u] = va[u]
                                      /\ new'[u] = new[u] /\ old'[u] = old[u],
           \A q \in Proc, w \in Va : q # ProcOf[t] => pt'[q][w].frame = pt[q][w].frame,
           \A w \in Va : Present(ProcOf[t], w) => pt'[ProcOf[t]][w].frame # None,
           \A u \in Thread : u # t /\ new[u] # None =>
               /\ new'[t] # new[u] /\ (pc'[t] = "kfree" => old'[t] # new[u])
               /\ \A w \in Va : pt'[ProcOf[t]][w].frame # new[u],
           new'[t] # None =>
               /\ \A q \in Proc, w \in Va : pt'[q][w].frame # new'[t]
               /\ \A u \in Thread : pc'[u] = "kfree" => old'[u] # new'[t],
           FaultOf(t)'
    PROVE  OneThread' /\ Faulting' /\ Forking' /\ Pages' /\ NewFrames'
  <1> DEFINE p == ProcOf[t]
  <1>0. p \in Proc /\ state[p] = "live" /\ ProcOf \in [Thread -> Proc]
    BY CowAssumption DEF OneThread
  <1>1. OneThread'
    BY DEF OneThread
  <1>2. ASSUME NEW u \in Thread, u # t PROVE FaultOf(u)'
    <2>1. pc[u] # "none" => ProcOf[u] # p /\ ProcOf[u] \in Proc
      BY <1>0, <1>2 DEF OneThread
    <2> QED BY <1>2, <2>1, FaultKept DEF Faulting
  <1>3. ASSUME NEW u \in Thread PROVE ForkOf(u)'
    <2>1. pc[u] = "fork" => child[u] # p /\ child[u] \in Proc
      BY <1>0 DEF Forking, ForkOf
    <2>2. CASE u = t
      BY <2>2 DEF ForkOf
    <2>3. CASE u # t
      BY <2>1, <2>3, ForkKept DEF Forking
    <2> QED BY <2>2, <2>3
  <1>4. \A u \in Thread : pc'[u] = "fork" => pc[u] = "fork" /\ child'[u] = child[u]
    OBVIOUS
  <1>5. Faulting' /\ Forking'
    BY <1>2, <1>3, <1>4 DEF Faulting, Forking
  <1>6. Pages'
    BY <1>0 DEF Pages, Present
  <1>7. NewFrames'
    <2> SUFFICES ASSUME NEW u \in Thread, new'[u] # None
                 PROVE  /\ \A q \in Proc, w \in Va : pt'[q][w].frame # new'[u]
                        /\ \A x \in Thread : /\ new'[x] = new'[u] => x = u
                                             /\ pc'[x] = "kfree" => old'[x] # new'[u]
      BY DEF NewFrames
    <2>1. CASE u = t
      BY <2>1
    <2>2. CASE u # t
      BY <2>2 DEF NewFrames
    <2> QED BY <2>1, <2>2
  <1> QED BY <1>1, <1>5, <1>6, <1>7


\* A step of t that touches no page table entry and takes no frame
LEMMA QuietStep ==
    ASSUME RefInv, TypeOK', NEW t \in Thread, UNCHANGED <<state, pt, refcnt, new, child, todo, panic>>,
           pc[t] \notin {"none", "fork", "kfree"}, pc'[t] \notin {"none", "fork", "kfree"},
           \A u \in Thread : u # t => pc'[u] = pc[u] /\ va'[u] = va[u] /\ old'[u] = old[u],
           FaultOf(t)'
    PROVE  RefInv'
  <1>1. \A u \in Thread : (IF pc'[u] = "kfree" THEN old'[u] ELSE None)
                             = (IF pc[u] = "kfree" THEN old[u] ELSE None)
    OBVIOUS
  <1>2. Exact'
    BY <1>1, ExactSame DEF RefInv
  <1>3. /\ \A u \in Thread : u # t /\ new[u] # None =>
               /\ new[t] # new[u] /\ \A w \in Va : pt[ProcOf[t]][w].frame # new[u]
        /\ new[t] # None => /\ \A q \in Proc, w \in Va : pt[q][w].frame # new[t]
                            /\ \A u \in Thread : pc'[u] = "kfree" => old'[u] # new[t]
    BY CowAssumption DEF RefInv, NewFrames
  <1>4. OneThread' /\ Faulting' /\ Forking' /\ Pages' /\ NewFrames'
    BY <1>3, StepKept DEF RefInv, Present
  <1> QED BY <1>2, <1>4 DEF RefInv

\* A store that the page table allows
LEMMA Store_Inv ==
    ASSUME RefInv, NEW t \in Thread, NEW v \in Va, NEW val \in Value, Store(t, v, val)
    PROVE  RefInv'
  <1>1. UNCHANGED <<state, pt, refcnt, pc, va, new, old, child, todo, panic>> /\ pc[t] = "user"
    BY DEF Store, fork
  <1>2. TypeOK'
    BY Zenon, <1>1, CowAssumption DEF Store, RefInv, TypeOK
  <1>3. FaultOf(t)'
    BY Zenon, <1>1 DEF RefInv, Faulting, FaultOf
  <1> QED BY <1>1, <1>2, <1>3, QuietStep

\* The first access to a page
LEMMA FaultAbsent_Inv ==
    ASSUME RefInv, NEW t \in Thread, NEW v \in Va, FaultAbsent(t, v)
    PROVE  RefInv'
  <1>1. /\ UNCHANGED <<state, pt, content, refcnt, new, old, child, todo, panic, mem>>
        /\ pc[t] = "user" /\ ~Present(ProcOf[t], v)
        /\ pc' = [pc EXCEPT ![t] = "alloc"] /\ va' = [va EXCEPT ![t] = v]
    BY DEF FaultAbsent, frames, fork, goto
  <1>2. TypeOK'
    BY <1>1 DEF RefInv, TypeOK
  <1>3. /\ pc'[t] = "alloc" /\ va'[t] = v
        /\ \A u \in Thread : u # t => pc'[u] = pc[u] /\ va'[u] = va[u]
    BY <1>1 DEF RefInv, TypeOK
  <1>4. FaultOf(t)'
    BY <1>1, <1>3 DEF RefInv, Faulting, FaultOf, Present
  <1> QED BY Zenon, <1>1, <1>2, <1>3, <1>4, QuietStep

\* A store to a page that is shared copy-on-write
LEMMA FaultCow_Inv ==
    ASSUME RefInv, NEW t \in Thread, NEW v \in Va, FaultCow(t, v)
    PROVE  RefInv'
  <1>1. PICK f \in Frame : f = pt[ProcOf[t]][v].frame /\ f # None
    <2>1. pt[ProcOf[t]][v].frame \in Frame \cup {None}
      BY CowAssumption DEF RefInv, TypeOK, PTE
    <2> QED BY <2>1 DEF FaultCow, Present
  <1>2. /\ UNCHANGED <<state, pt, content, refcnt, new, child, todo, panic, mem>> /\ pc[t] = "user"
        /\ pc' = [pc EXCEPT ![t] = "cow"] /\ va' = [va EXCEPT ![t] = v]
        /\ old' = [old EXCEPT ![t] = f]
    BY <1>1 DEF FaultCow, frames, fork, goto
  <1>3. TypeOK'
    BY <1>2 DEF RefInv, TypeOK
  <1>4. /\ pc'[t] = "cow" /\ va'[t] = v /\ old'[t] = f
        /\ \A u \in Thread : u # t => pc'[u] = pc[u] /\ va'[u] = va[u] /\ old'[u] = old[u]
    BY <1>2 DEF RefInv, TypeOK
  <1>5. FaultOf(t)'
    BY <1>1, <1>2, <1>4 DEF RefInv, Faulting, FaultOf, pte
  <1> QED BY <1>2, <1>3, <1>4, <1>5, QuietStep

\* kmalloc for a fault, in uvmalloc or in cow
LEMMA NewFrame_Inv ==
    ASSUME RefInv, NEW t \in Thread, NEW f \in Free, pc[t] \in {"alloc", "cow"},
           refcnt' = [refcnt EXCEPT ![f] = 1], content' \in [Frame -> Value],
           new' = [new EXCEPT ![t] = f],
           pc' = [pc EXCEPT ![t] = IF pc[t] = "alloc" THEN "map" ELSE "set"],
           UNCHANGED <<state, pt, va, old, child, todo, panic, mem>>
    PROVE  RefInv'
  <1>0. /\ f \in Frame /\ f # None /\ refcnt[f] = 0 /\ new[t] = None
        /\ \A p \in Proc, v \in Va : pt[p][v].frame # f
        /\ \A u \in Thread : new[u] # f /\ (pc[u] = "kfree" => old[u] # f)
    BY FreeUnheld, CowAssumption DEF RefInv, Faulting, FaultOf
  <1>1. TypeOK'
    BY Zenon, <1>0 DEF RefInv, TypeOK
  <1>2. /\ new'[t] = f /\ pc'[t] = IF pc[t] = "alloc" THEN "map" ELSE "set"
        /\ \A u \in Thread : u # t => pc'[u] = pc[u] /\ new'[u] = new[u]
    BY DEF RefInv, TypeOK
  <1>3. Exact'
    <2>0. /\ \A u \in Thread : <<u, "new">> \notin {<<t, "new">>} => new'[u] = new[u]
          /\ \A u \in Thread : (pc'[u] = "kfree") = (pc[u] = "kfree")
      BY <1>2
    <2>1. \A r \in Ref : r \notin {<<t, "new">>} => target'[r] = target[r]
      BY Zenon, <2>0, TargetElse DEF RefInv
    <2>2. PICK a \in Ref : a = <<t, "new">> /\ target[a] = None /\ target'[a] = f
      <3>1. <<t, "new">> \in Ref /\ target[<<t, "new">>] = None /\ target'[<<t, "new">>] = f
        BY Zenon, <1>0, <1>2, TargetIs, TargetPrimed DEF RefInv
      <3> QED BY <3>1
    <2>3. refcnt' = [refcnt EXCEPT ![f] = @ + 1]
      BY <1>0 DEF RefInv, TypeOK
    <2>4. \A r \in Ref : r # a => target'[r] = target[r]
      BY <2>1, <2>2
    <2> QED BY Zenon, <1>0, <1>1, <2>2, <2>3, <2>4, ExactGains DEF RefInv
  <1>4. FaultOf(t)'
    BY <1>0, <1>2 DEF RefInv, Faulting, FaultOf, pte, Present
  <1>5. /\ \A u \in Thread : u # t /\ new[u] # None =>
               /\ new'[t] # new[u] /\ \A w \in Va : pt[ProcOf[t]][w].frame # new[u]
        /\ \A u \in Thread : pc'[u] = "kfree" => old[u] # f
    BY <1>0, <1>2, CowAssumption DEF RefInv, NewFrames
  <1>6. OneThread' /\ Faulting' /\ Forking' /\ Pages' /\ NewFrames'
    BY <1>0, <1>2, <1>4, <1>5, StepKept DEF RefInv, Present
  <1> QED BY <1>1, <1>3, <1>6 DEF RefInv

\* kzalloc in uvmalloc, with and without memory
LEMMA Alloc_Inv ==
    ASSUME RefInv, NEW t \in Thread, Alloc(t)
    PROVE  RefInv'
  <1>1. ASSUME NEW f \in Free, refcnt' = [refcnt EXCEPT ![f] = 1],
               content' = [content EXCEPT ![f] = 0], new' = [new EXCEPT ![t] = f],
               goto(t, "map"), UNCHANGED <<va, old>>
        PROVE  RefInv'
    <2>1. content' \in [Frame -> Value]
      BY Zenon, <1>1, CowAssumption DEF RefInv, TypeOK
    <2> QED BY Zenon, <1>1, <2>1, NewFrame_Inv DEF Alloc, goto, fork
  <1>2. CASE Resume(t) /\ UNCHANGED frames
    <2>1. /\ UNCHANGED <<state, pt, content, refcnt, new, child, todo, panic, mem>>
          /\ pc[t] = "alloc" /\ new[t] = None /\ pc' = [pc EXCEPT ![t] = "user"]
          /\ va' = [va EXCEPT ![t] = None] /\ old' = [old EXCEPT ![t] = None]
      BY <1>2 DEF Alloc, Resume, goto, frames, fork, RefInv, Faulting, FaultOf, TypeOK
    <2>2. TypeOK'
      BY <2>1 DEF RefInv, TypeOK
    <2>3. /\ pc'[t] = "user"
          /\ \A u \in Thread : u # t => pc'[u] = pc[u] /\ va'[u] = va[u] /\ old'[u] = old[u]
      BY <2>1 DEF RefInv, TypeOK
    <2>4. FaultOf(t)'
      BY <2>1, <2>3 DEF FaultOf
    <2> QED BY <2>1, <2>2, <2>3, <2>4, QuietStep
  <1> QED BY <1>1, <1>2 DEF Alloc

\* kmalloc in cow
LEMMA cow_Inv ==
    ASSUME RefInv, NEW t \in Thread, cow(t)
    PROVE  RefInv'
  <1>1. PICK f \in Free : /\ refcnt' = [refcnt EXCEPT ![f] = 1]
                          /\ content' = [content EXCEPT ![f] = content[old[t]]]
                          /\ new' = [new EXCEPT ![t] = f]
    BY Zenon DEF cow
  <1>2. old[t] \in Frame
    BY DEF cow, RefInv, Faulting, FaultOf, TypeOK
  <1>3. content' \in [Frame -> Value]
    BY Zenon, <1>1, <1>2 DEF RefInv, TypeOK
  <1> QED BY Zenon, <1>1, <1>3, NewFrame_Inv DEF cow, goto, fork

\* mappages finds the entry empty, and the reference of the fault becomes that of the entry.
LEMMA Map_Inv ==
    ASSUME RefInv, NEW t \in Thread, Map(t)
    PROVE  RefInv'
  <1> DEFINE p == ProcOf[t]
             v == va[t]
             e == Pte(new[t], Writable(v))
  <1>0. /\ p \in Proc /\ v \in Va /\ new[t] \in Frame /\ pt[p][v].frame = None /\ pc[t] = "map"
    BY CowAssumption DEF Map, RefInv, Faulting, FaultOf, Present, TypeOK
  <1>1. e \in PTE /\ e.frame = new[t]
    <2>1. Writable(v) \in BOOLEAN
      BY DEF Writable
    <2> QED BY <1>0, <2>1, PteType
  <1>2. setpte(p, v, e) /\ Resume(t) /\ UNCHANGED <<state, content, refcnt, child, todo, panic, mem>>
    BY <1>0 DEF Map, pte, frames, fork
  <1>3. /\ pt' \in [Proc -> [Va -> PTE]]
        /\ \A q \in Proc, w \in Va : pt'[q][w].frame = IF q = p /\ w = v THEN new[t] ELSE pt[q][w].frame
    BY <1>0, <1>1, <1>2, EntrySet DEF RefInv
  <1>4. TypeOK'
    BY <1>2, <1>3 DEF Resume, goto, RefInv, TypeOK
  <1>5. /\ pc'[t] = "user" /\ new'[t] = None
        /\ \A u \in Thread : u # t => /\ pc'[u] = pc[u] /\ va'[u] = va[u]
                                      /\ new'[u] = new[u] /\ old'[u] = old[u]
    BY <1>2 DEF Resume, goto, RefInv, TypeOK
  <1>6. Exact'
    <2>1. PICK a \in Ref, b \in Ref : a = <<t, "new">> /\ b = <<p, v>>
      BY Zenon, <1>0, TargetIs DEF RefInv
    <2>2. a # b
      BY <1>0, <2>1, CowAssumption
    <2>3. target[a] = new[t] /\ target[b] = None /\ target'[a] = None /\ target'[b] = new[t]
      BY Zenon, <1>0, <1>3, <1>5, <2>1, TargetIs, TargetPrimed DEF RefInv
    <2>4. target \in Targets /\ target' \in Targets
      BY <1>4, TargetIs, TargetType DEF RefInv
    <2>5. \A r \in Ref : r # a /\ r # b => target'[r] = target[r]
      <3>1. /\ \A q \in Proc, w \in Va : <<q, w>> \notin {a, b} => pt'[q][w].frame = pt[q][w].frame
            /\ \A u \in Thread : <<u, "new">> \notin {a, b} => new'[u] = new[u]
        BY <1>3, <1>5, <2>1
      <3>2. \A u \in Thread : (IF pc'[u] = "kfree" THEN old'[u] ELSE None)
                                 = (IF pc[u] = "kfree" THEN old[u] ELSE None)
        BY <1>0, <1>5
      <3>3. \A r \in Ref : r \notin {a, b} => target'[r] = target[r]
        BY Zenon, <3>1, <3>2, TargetElse DEF RefInv
      <3> QED BY <3>3
    <2>6. \A f \in Frame : Times(target', f) = Times(target, f)
      BY <1>0, <2>2, <2>3, <2>4, <2>5, TimesMoves
    <2> QED BY Zenon, <1>2, <2>6 DEF Exact, RefInv
  <1>7. FaultOf(t)'
    BY <1>5 DEF FaultOf
  <1>8. \A u \in Thread : u # t /\ new[u] # None => \A w \in Va : pt'[p][w].frame # new[u]
    BY <1>0, <1>3 DEF RefInv, NewFrames
  <1>9. /\ \A q \in Proc, w \in Va : q # p => pt'[q][w].frame = pt[q][w].frame
        /\ \A w \in Va : Present(p, w) => pt'[p][w].frame # None
    BY <1>0, <1>3, CowAssumption DEF Present
  <1>10. OneThread' /\ Faulting' /\ Forking' /\ Pages' /\ NewFrames'
    <2> HIDE DEF v, e
    <2> QED BY <1>0, <1>2, <1>5, <1>7, <1>8, <1>9, StepKept DEF RefInv
  <1> QED BY <1>2, <1>4, <1>6, <1>10 DEF RefInv

\* The entry gets the new frame; the reference to the old one is the fault's until kfree.
LEMMA SetPte_Inv ==
    ASSUME RefInv, NEW t \in Thread, SetPte(t)
    PROVE  RefInv'
  <1> DEFINE p == ProcOf[t]
             v == va[t]
             e == [frame |-> new[t], W |-> TRUE, share |-> TRUE, ro |-> FALSE]
  <1>0. /\ p \in Proc /\ v \in Va /\ new[t] \in Frame /\ old[t] \in Frame
        /\ pt[p][v].frame = old[t] /\ pc[t] = "set"
    <2>1. pc[t] = "set" /\ FaultOf(t)
      BY DEF SetPte, RefInv, Faulting
    <2>2. p \in Proc /\ new[t] \in Frame \cup {None} /\ old[t] \in Frame \cup {None}
      BY CowAssumption DEF RefInv, TypeOK
    <2> QED BY <2>1, <2>2 DEF FaultOf, pte
  <1>2. /\ setpte(p, v, e) /\ pc' = [pc EXCEPT ![t] = "kfree"] /\ new' = [new EXCEPT ![t] = None]
        /\ UNCHANGED <<state, content, refcnt, va, old, child, todo, panic, mem>>
    BY DEF SetPte, frames, fork, goto
  <1>3. /\ pt' \in [Proc -> [Va -> PTE]]
        /\ \A q \in Proc, w \in Va : pt'[q][w].frame = IF q = p /\ w = v THEN new[t] ELSE pt[q][w].frame
    <2>1. e \in PTE /\ e.frame = new[t]
      BY <1>0, PteType
    <2> QED BY <1>0, <1>2, <2>1, EntrySet DEF RefInv
  <1>4. TypeOK'
    BY <1>2, <1>3 DEF RefInv, TypeOK
  <1>5. /\ pc'[t] = "kfree" /\ new'[t] = None
        /\ \A u \in Thread : u # t => pc'[u] = pc[u] /\ new'[u] = new[u]
    BY <1>2 DEF RefInv, TypeOK
  <1>6. Exact'
    <2>1. PICK a \in Ref, b \in Ref, d \in Ref : a = <<t, "new">> /\ b = <<p, v>> /\ d = <<t, "old">>
      BY Zenon, <1>0, TargetIs DEF RefInv
    <2>2. a # b /\ a # d /\ b # d
      BY <1>0, <2>1, CowAssumption
    <2>3. target[a] = new[t] /\ target[b] = old[t] /\ target[d] = None
      BY <1>0, <2>1, TargetIs DEF RefInv
    <2>4. target'[a] = None /\ target'[b] = new[t] /\ target'[d] = old[t]
      BY Zenon, <1>0, <1>2, <1>3, <1>5, <2>1, TargetPrimed
    <2>5. target \in Targets /\ target' \in Targets
      BY <1>4, TargetIs, TargetType DEF RefInv
    <2>6. \A r \in Ref : r \notin {a, b, d} => target'[r] = target[r]
      <3>1. /\ \A q \in Proc, w \in Va : <<q, w>> \notin {a, b, d} => pt'[q][w].frame = pt[q][w].frame
            /\ \A u \in Thread : <<u, "new">> \notin {a, b, d} => new'[u] = new[u]
        BY <1>3, <1>5, <2>1
      <3>2. \A u \in Thread : <<u, "old">> \notin {a, b, d} =>
                (IF pc'[u] = "kfree" THEN old'[u] ELSE None)
                    = (IF pc[u] = "kfree" THEN old[u] ELSE None)
        BY Zenon, <1>2, <1>5, <2>1
      <3> QED BY Zenon, <3>1, <3>2, TargetElse DEF RefInv
    <2>7. PICK k \in Targets : k[b] = None /\ k[d] = old[t] /\ k[a] = new[t]
                               /\ \A r \in Ref : r # b /\ r # d => k[r] = target[r]
      <3>1. [target EXCEPT ![b] = None, ![d] = old[t]] \in Targets
        BY <1>0, <2>5 DEF Targets
      <3> QED BY Zenon, <2>2, <2>3, <2>5, <3>1 DEF Targets
    <2>8. \A f \in Frame : Times(k, f) = Times(target, f)
      BY <1>0, <2>2, <2>3, <2>5, <2>7, TimesMoves
    <2>9. \A r \in Ref : r # a /\ r # b => target'[r] = k[r]
      BY <2>4, <2>6, <2>7
    <2>10. \A f \in Frame : Times(target', f) = Times(k, f)
      BY <1>0, <2>2, <2>4, <2>5, <2>7, <2>9, TimesMoves
    <2> QED BY <1>2, <2>8, <2>10 DEF Exact, RefInv
  <1>7. FaultOf(t)'
    BY <1>0, <1>2, <1>5, CowAssumption DEF FaultOf
  <1>8. \A u \in Thread : u # t /\ new[u] # None => /\ old[t] # new[u]
                                                    /\ \A w \in Va : pt'[p][w].frame # new[u]
    <2>1. \A u \in Thread : u # t /\ new[u] # None =>
            new[t] # new[u] /\ old[t] # new[u] /\ \A w \in Va : pt[p][w].frame # new[u]
      BY <1>0 DEF RefInv, NewFrames
    <2> QED BY ONLY <1>0, <1>3, <2>1
  <1>9. /\ \A q \in Proc, w \in Va : q # p => pt'[q][w].frame = pt[q][w].frame
        /\ \A w \in Va : Present(p, w) => pt'[p][w].frame # None
    BY <1>0, <1>3, CowAssumption DEF Present
  <1>10. OneThread' /\ Faulting' /\ Forking' /\ Pages' /\ NewFrames'
    <2> HIDE DEF v, e
    <2> QED BY Zenon, <1>0, <1>2, <1>5, <1>7, <1>8, <1>9, StepKept DEF RefInv
  <1> QED BY <1>2, <1>4, <1>6, <1>10 DEF RefInv

\* kfree of the old frame finds the reference that the entry had.
LEMMA Kfree_Inv ==
    ASSUME RefInv, NEW t \in Thread, Kfree(t)
    PROVE  RefInv'
  <1>0. pc[t] = "kfree" /\ old[t] \in Frame /\ new[t] = None
    BY DEF Kfree, RefInv, Faulting, FaultOf, TypeOK
  <1>1. PICK a \in Ref : a = <<t, "old">> /\ target[a] = old[t]
    BY Zenon, <1>0, TargetIs DEF RefInv
  <1>2. refcnt[old[t]] # 0
    BY <1>0, <1>1, HeldCounted DEF RefInv
  <1>3. /\ refcnt' = [refcnt EXCEPT ![old[t]] = @ - 1] /\ Resume(t)
        /\ UNCHANGED <<state, pt, content, child, todo, panic, mem>>
    BY <1>2 DEF Kfree, fork
  <1>4. TypeOK'
    <2>1. refcnt \in [Frame -> Nat] /\ refcnt[old[t]] - 1 \in Nat
      BY <1>0, <1>2 DEF RefInv, TypeOK
    <2>2. refcnt' \in [Frame -> Nat]
      BY <1>0, <1>3, <2>1
    <2> QED BY <1>3, <2>2 DEF Resume, goto, RefInv, TypeOK
  <1>5. /\ pc'[t] = "user" /\ new' = new
        /\ \A u \in Thread : u # t => pc'[u] = pc[u] /\ va'[u] = va[u] /\ old'[u] = old[u]
    BY <1>0, <1>3 DEF Resume, goto, RefInv, TypeOK
  <1>6. Exact'
    <2>0. \A u \in Thread : <<u, "old">> \notin {a} =>
                (IF pc'[u] = "kfree" THEN old'[u] ELSE None)
                    = (IF pc[u] = "kfree" THEN old[u] ELSE None)
      BY <1>1, <1>5
    <2>1. \A r \in Ref : r \notin {a} => target'[r] = target[r]
      BY Zenon, <1>3, <1>5, <2>0, TargetElse DEF RefInv
    <2>2. target'[a] = None /\ \A r \in Ref : r # a => target'[r] = target[r]
      BY Zenon, <1>1, <1>5, <2>1, TargetPrimed
    <2> QED BY Zenon, <1>0, <1>1, <1>3, <1>4, <2>2, ExactLoses DEF RefInv
  <1>7. FaultOf(t)'
    BY <1>0, <1>5 DEF FaultOf
  <1>8. \A u \in Thread : new[u] # None => \A w \in Va : pt[ProcOf[t]][w].frame # new[u]
    BY CowAssumption DEF RefInv, NewFrames
  <1>9. OneThread' /\ Faulting' /\ Forking' /\ Pages' /\ NewFrames'
    BY Zenon, <1>0, <1>3, <1>5, <1>7, <1>8, StepKept DEF RefInv, Present
  <1> QED BY <1>3, <1>4, <1>6, <1>9 DEF RefInv

=============================================================================
