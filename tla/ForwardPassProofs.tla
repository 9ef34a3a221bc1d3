-------------------------- MODULE ForwardPassProofs --------------------------
(***************************************************************************)
(* lower_forward builds, of every graph, a list that the scheduler can     *)
(* finish.  The heart of it: a kernel does not end before its root is      *)
(* resolved, so no later sweep starts another kernel for the root.  It     *)
(* fails only for want of a parameter that no order of sweeps could have   *)
(* done without, and what one kernel loads another stores.                 *)
(***************************************************************************)
EXTENDS ForwardPass, KernelListProofs

Frame == [do : {"visit", "finish"}, node : Nodes(graph)]

TypeOK ==
  /\ graph \in Graphs
  /\ roots \in Seq(Nodes(graph)) /\ todo \in Seq(Nodes(graph))
  /\ resolved \in Seq(Nodes(graph)) /\ visited \in Seq(Nodes(graph))
  /\ stack \in Seq(Frame)
  /\ stable \in BOOLEAN

\* The kernel under construction has resolved its root, is about to evaluate it, with nothing yet
\* to keep it from being fused, or will finish it last.
RootIsPending ==
  \/ kernel.root \in Range(resolved)
  \/ stack = << Visit(kernel.root) >> /\ stable
  \/ stack # << >> /\ stack[Len(stack)] = Finish(kernel.root)

KernelIsNew ==
  IF kernel = NoKernel THEN stack = << >>
  ELSE /\ IsKernel(kernel)
       /\ todo # << >> /\ kernel.root = Head(todo)
       /\ \A i \in DOMAIN chain : chain[i].kernel.root # kernel.root
       /\ RootIsPending

Order == [i \in DOMAIN chain |-> chain[i].kernel.root]

ListSoFar ==
  /\ chain \in Seq(Range(chain))
  /\ \A i \in DOMAIN chain :
       /\ chain[i] = [kernel |-> chain[i].kernel, dep |-> chain[i].dep]
       /\ chain[i].kernel.root \in Range(resolved)
       /\ chain[i].dep = ForwardList(Order)[i].dep
  /\ \A i, j \in DOMAIN chain : chain[i].kernel.root = chain[j].kernel.root => i = j

IndInv == TypeOK /\ KernelIsNew /\ ListSoFar

-----------------------------------------------------------------------------
LEMMA GraphFacts ==
  ASSUME TypeOK
  PROVE  /\ IsGraph(graph) /\ Len(graph) \in Nat
         /\ \A n \in Nodes(graph) : /\ n \in Nat /\ n # 0
                                   /\ graph[n].op \in OpNames /\ graph[n].inputs \in Seq(Nodes(graph))
<1>1. IsGraph(graph)
  BY GraphsAssumption DEF TypeOK, Prepared
<1>2. Len(graph) \in Nat
  BY <1>1 DEF IsGraph
<1> QED BY <1>1, <1>2, GraphNodes DEF Nodes

LEMMA InitInv == Init => IndInv
<1> SUFFICES ASSUME Init PROVE IndInv
  OBVIOUS
<1>1. IsGraph(graph) /\ Len(graph) \in Nat
  <2>1. IsGraph(graph)
    BY GraphsAssumption DEF Init, Prepared
  <2> QED BY <2>1 DEF IsGraph
<1>2. roots \in Seq(Nodes(graph))
  <2>1. Sinks(graph) \in SUBSET (1 .. Len(graph))
    BY DEF Sinks, Nodes
  <2>2. Ascending(Sinks(graph)) \in Seq(Sinks(graph))
    BY <1>1, <2>1, AscendingType
  <2> QED BY <2>1, <2>2 DEF Init, Nodes
<1>3. TypeOK
  BY <1>2 DEF Init, TypeOK
<1>4. KernelIsNew
  BY DEF Init, KernelIsNew
<1>5. ListSoFar
  <2>1. chain = << >> /\ DOMAIN chain = {} /\ chain \in Seq(Range(chain))
    BY DEF Init
  <2> QED BY <2>1 DEF ListSoFar
<1> QED BY <1>3, <1>4, <1>5 DEF IndInv

\* Steps that leave the kernel under construction and the list alone.
LEMMA Undisturbed ==
  ASSUME IndInv, TypeOK', UNCHANGED << resolved, kernel, stack, stable, chain >>,
         kernel = NoKernel \/ todo' = todo
  PROVE  IndInv'
<1>1. ListSoFar'
  BY DEF IndInv, ListSoFar, Order
<1>2. KernelIsNew'
  BY DEF IndInv, KernelIsNew, RootIsPending, Visit, Finish, NoKernel
<1> QED BY <1>1, <1>2 DEF IndInv

LEMMA ListKept ==
  ASSUME ListSoFar, chain' = chain, Range(resolved) \subseteq Range(resolved')
  PROVE  ListSoFar'
BY DEF ListSoFar, Order

LEMMA Failed ==
  ASSUME IndInv, UNCHANGED << graph, roots, todo, resolved, kernel, stack, visited, stable, chain >>
  PROVE  IndInv'
<1>1. TypeOK'
  BY DEF IndInv, TypeOK, Frame
<1> QED BY <1>1, Undisturbed

-----------------------------------------------------------------------------
(* The loops over the roots. *)

LEMMA LoopSteps ==
  ASSUME IndInv, StartSweep \/ Return \/ SkipRoot
  PROVE  IndInv'
<1>1. UNCHANGED << graph, resolved, kernel, stack, visited, stable, chain >> /\ kernel = NoKernel
  BY DEF StartSweep, Return, SkipRoot, BetweenKernels
<1>2. roots' \in Seq(Nodes(graph)) /\ todo' \in Seq(Nodes(graph))
  <2>1. CASE StartSweep
    BY <2>1 DEF StartSweep, IndInv, TypeOK
  <2>2. CASE Return
    BY <2>2 DEF Return, IndInv, TypeOK
  <2>3. CASE SkipRoot
    <3>1. todo \in Seq(Nodes(graph)) /\ todo # << >>
      BY <2>3 DEF SkipRoot, IndInv, TypeOK
    <3>2. Tail(todo) \in Seq(Nodes(graph))
      BY <3>1, Popped
    <3> QED BY <2>3, <3>2 DEF SkipRoot, IndInv, TypeOK
  <2> QED BY <2>1, <2>2, <2>3
<1>3. TypeOK'
  BY <1>1, <1>2 DEF IndInv, TypeOK, Frame
<1> QED BY <1>1, <1>3, Undisturbed

LEMMA StartKernelStep ==
  ASSUME IndInv, StartKernel
  PROVE  IndInv'
<1> DEFINE root == Head(todo)
<1>1. root \in Nodes(graph) /\ root \in Nat /\ root # 0 /\ todo # << >>
  <2>1. todo \in Seq(Nodes(graph)) /\ todo # << >>
    BY DEF StartKernel, IndInv, TypeOK
  <2>2. root \in Nodes(graph)
    BY <2>1, Popped
  <2> QED BY <2>1, <2>2, GraphFacts DEF IndInv
<1>2. CASE graph[root].shape = << >>
  BY <1>2, Failed DEF StartKernel
<1>3. CASE graph[root].shape # << >>
  <2>1. /\ kernel' = NewKernel(graph, root) /\ stack' = << Visit(root) >>
        /\ visited' = << >> /\ stable' = TRUE
        /\ UNCHANGED << graph, roots, todo, resolved, chain >>
        /\ root \notin Range(resolved)
    BY <1>3 DEF StartKernel
  <2>2. TypeOK'
    <3>1. Visit(root) \in Frame
      BY <1>1 DEF Visit, Frame
    <3>2. << Visit(root) >> \in Seq(Frame) /\ Frame' = Frame
      BY <2>1, <3>1 DEF Frame
    <3> QED BY <2>1, <3>2 DEF IndInv, TypeOK
  <2>3. IsKernel(kernel') /\ kernel'.root = root
    BY <2>1, KernelFacts
  <2>4. kernel' # NoKernel
    BY <1>1, <2>3 DEF NoKernel
  <2>5. \A i \in DOMAIN chain' : chain'[i].kernel.root # kernel'.root
    BY <2>1, <2>3 DEF IndInv, ListSoFar
  <2>6. KernelIsNew'
    BY <1>1, <2>1, <2>3, <2>4, <2>5 DEF KernelIsNew, RootIsPending, NoKernel, Visit
  <2>7. ListSoFar'
    BY <2>1, ListKept DEF IndInv
  <2> QED BY <2>2, <2>6, <2>7 DEF IndInv
<1> QED BY <1>2, <1>3

\* The finished kernel is appended; the entries before it keep theirs, and learn of its root.
LEMMA ChainGrows ==
  ASSUME IndInv, FinishKernel
  PROVE  LET n == Len(chain) IN
         /\ n \in Nat /\ DOMAIN chain = 1 .. n
         /\ DOMAIN chain' = 1 .. n + 1 /\ Len(chain') = n + 1 /\ chain' \in Seq(Range(chain'))
         /\ chain'[n + 1] = [kernel |-> kernel, dep |-> {}]
         /\ \A i \in 1 .. n :
              /\ chain'[i].kernel = chain[i].kernel
              /\ chain'[i] = [kernel |-> chain'[i].kernel, dep |-> chain'[i].dep]
              /\ chain'[i].dep = chain[i].dep \cup
                   (IF chain[i].kernel.root > kernel.root THEN {kernel.root} ELSE {})
<1> DEFINE root == kernel.root
           n == Len(chain)
           depend(e) == IF DependsOn(e.kernel.root, root) THEN [e EXCEPT !.dep = @ \cup {root}] ELSE e
<1>1. chain' = Append([i \in DOMAIN chain |-> depend(chain[i])], [kernel |-> kernel, dep |-> {}])
  BY DEF FinishKernel
<1>6. n \in Nat /\ DOMAIN chain = 1 .. n
  BY DEF IndInv, ListSoFar
<1>7. /\ DOMAIN chain' = 1 .. n + 1 /\ Len(chain') = n + 1
      /\ chain' \in Seq(Range(chain'))
      /\ chain'[n + 1] = [kernel |-> kernel, dep |-> {}]
      /\ \A i \in 1 .. n : chain'[i] = depend(chain[i])
  <2> DEFINE old == [i \in DOMAIN chain |-> depend(chain[i])]
             new == [kernel |-> kernel, dep |-> {}]
             S == {depend(chain[i]) : i \in DOMAIN chain} \cup {new}
  <2>1. old \in Seq(S) /\ new \in S /\ Len(old) = n /\ \A i \in 1 .. n : old[i] = depend(chain[i])
    <3>1. new \in S /\ \A i \in 1 .. n : depend(chain[i]) \in S
      <4> HIDE DEF depend, new
      <4> QED BY <1>6
    <3>2. old = [i \in 1 .. n |-> depend(chain[i])]
      BY <1>6
    <3> HIDE DEF depend, new, S, old
    <3> QED BY <1>6, <3>1, <3>2
  <2> HIDE DEF old, new, S, depend
  <2>2. /\ DOMAIN chain' = 1 .. n + 1 /\ Len(chain') = n + 1 /\ chain'[n + 1] = new
        /\ \A i \in 1 .. n : chain'[i] = old[i]
        /\ chain' \in Seq(S)
    BY <1>1, <1>6, <2>1 DEF old, new
  <2>3. chain' \in Seq(Range(chain'))
    <3>1. \A i \in 1 .. n + 1 : chain'[i] \in Range(chain')
      BY <2>2 DEF Range
    <3>2. chain' = [i \in 1 .. n + 1 |-> chain'[i]]
      BY <2>2
    <3> HIDE DEF n
    <3> QED BY <1>6, <3>1, <3>2
  <2> QED BY <1>6, <2>1, <2>2, <2>3 DEF new
<1>8. \A i \in 1 .. n : /\ chain'[i].kernel = chain[i].kernel
                        /\ chain'[i] = [kernel |-> chain'[i].kernel, dep |-> chain'[i].dep]
                        /\ chain'[i].dep = chain[i].dep \cup
                             (IF chain[i].kernel.root > root THEN {root} ELSE {})
  <2>1. ASSUME NEW i \in 1 .. n
        PROVE  depend(chain[i]) = [kernel |-> chain[i].kernel,
                 dep |-> chain[i].dep \cup (IF chain[i].kernel.root > root THEN {root} ELSE {})]
    <3>1. chain[i] = [kernel |-> chain[i].kernel, dep |-> chain[i].dep]
      BY <1>6 DEF IndInv, ListSoFar
    <3> QED BY <3>1 DEF DependsOn
  <2> DEFINE D(i) == chain[i].dep \cup (IF chain[i].kernel.root > root THEN {root} ELSE {})
  <2>2. \A i \in 1 .. n : chain'[i] = [kernel |-> chain[i].kernel, dep |-> D(i)]
    <3> HIDE DEF depend
    <3> QED BY <1>7, <2>1
  <2> HIDE DEF D, n
  <2>3. \A i \in 1 .. n : /\ chain'[i].kernel = chain[i].kernel /\ chain'[i].dep = D(i)
                          /\ chain'[i] = [kernel |-> chain'[i].kernel, dep |-> chain'[i].dep]
    BY <2>2, EntryFields
  <2> QED BY <2>3 DEF D
<1> QED BY <1>6, <1>7, <1>8

LEMMA FinishKernelStep ==
  ASSUME IndInv, FinishKernel
  PROVE  IndInv'
<1> DEFINE root == kernel.root
           n == Len(chain)
           fresh == Nodes(graph) \ (Range(roots) \cup {root})
<1>1. /\ kernel # NoKernel /\ stack = << >>
      /\ roots' = PushAll(roots, visited, fresh)
      /\ todo' = Tail(todo) /\ kernel' = NoKernel
      /\ UNCHANGED << graph, resolved, stack, visited, stable >>
  BY DEF FinishKernel
<1>2. root = Head(todo) /\ todo # << >> /\ root \in Range(resolved)
      /\ \A i \in DOMAIN chain : chain[i].kernel.root # root
  BY <1>1 DEF IndInv, KernelIsNew, RootIsPending
<1>3. root \in Nodes(graph) /\ root \in Nat /\ Tail(todo) \in Seq(Nodes(graph))
  <2>1. todo \in Seq(Nodes(graph))
    BY DEF IndInv, TypeOK
  <2>2. root \in Nodes(graph) /\ Tail(todo) \in Seq(Nodes(graph))
    BY <1>2, <2>1, Popped
  <2> QED BY <2>2, GraphFacts DEF IndInv
<1>4. TypeOK'
  <2>1. roots' \in Seq(Nodes(graph))
    <3>1. roots \in Seq(Nodes(graph)) /\ visited \in Seq(Nodes(graph))
      BY DEF IndInv, TypeOK
    <3> HIDE DEF fresh
    <3> QED BY <1>1, <3>1, PushAllType
  <2> QED BY <1>1, <1>3, <2>1 DEF IndInv, TypeOK, Frame
<1>5. KernelIsNew'
  BY <1>1 DEF KernelIsNew, NoKernel
<1>6. n \in Nat /\ DOMAIN chain = 1 .. n
  BY ChainGrows
<1>7. /\ DOMAIN chain' = 1 .. n + 1 /\ Len(chain') = n + 1
      /\ chain' \in Seq(Range(chain'))
      /\ chain'[n + 1] = [kernel |-> kernel, dep |-> {}]
  BY ChainGrows
<1>8. \A i \in 1 .. n : /\ chain'[i].kernel = chain[i].kernel
                        /\ chain'[i] = [kernel |-> chain'[i].kernel, dep |-> chain'[i].dep]
                        /\ chain'[i].dep = chain[i].dep \cup
                             (IF chain[i].kernel.root > root THEN {root} ELSE {})
  BY ChainGrows
<1>9. Order \in Seq(Nat) /\ Len(Order) = n /\ \A i \in 1 .. n : Order[i] = chain[i].kernel.root
  <2>1. \A i \in 1 .. n : chain[i].kernel.root \in Nat
    <3>1. \A i \in 1 .. n : chain[i].kernel.root \in Range(resolved)
      BY <1>6 DEF IndInv, ListSoFar
    <3>2. Range(resolved) \subseteq Nodes(graph)
      <4>1. resolved \in Seq(Nodes(graph))
        BY DEF IndInv, TypeOK
      <4> HIDE DEF IndInv
      <4> QED BY <4>1 DEF Range
    <3> QED BY <3>1, <3>2, GraphFacts DEF IndInv
  <2>2. Order = [i \in 1 .. n |-> chain[i].kernel.root]
    BY <1>6 DEF Order
  <2> HIDE DEF n
  <2> QED BY <1>6, <2>1, <2>2
<1>10. Order' = Append(Order, root)
  <2>1. /\ chain'[n + 1].kernel.root = root
        /\ \A i \in 1 .. n : chain'[i].kernel.root = Order[i]
    <3>1. chain'[n + 1].kernel = kernel
      BY <1>7
    <3> QED BY <1>8, <1>9, <3>1
  <2>2. Order' = [i \in 1 .. n + 1 |-> chain'[i].kernel.root]
    BY <1>7 DEF Order
  <2>3. Append(Order, root) = [i \in 1 .. n + 1 |-> IF i = n + 1 THEN root ELSE Order[i]]
    BY <1>3, <1>6, <1>9
  <2>4. \A i \in 1 .. n + 1 : i = n + 1 \/ i \in 1 .. n
    BY <1>6
  <2> HIDE DEF n, root
  <2> QED BY <2>1, <2>2, <2>3, <2>4
<1>11. ASSUME NEW i \in 1 .. n + 1 PROVE chain'[i].dep = ForwardList(Order')[i].dep
  <2>1. CASE i = n + 1
    <3>1. ForwardList(Append(Order, root))[n + 1].dep = {}
      BY <1>3, <1>9, ForwardListGrows
    <3> QED BY <1>7, <1>10, <2>1, <3>1
  <2>2. CASE i \in 1 .. n
    <3>1. ForwardList(Append(Order, root))[i].dep =
            ForwardList(Order)[i].dep \cup (IF Order[i] > root THEN {root} ELSE {})
      BY <1>3, <1>9, <2>2, ForwardListGrows
    <3>2. chain[i].dep = ForwardList(Order)[i].dep
      BY <1>6, <2>2 DEF IndInv, ListSoFar
    <3> QED BY <1>8, <1>9, <1>10, <2>2, <3>1, <3>2
  <2> QED BY <1>6, <2>1, <2>2
<1>12. ASSUME NEW i \in 1 .. n + 1
       PROVE  /\ chain'[i] = [kernel |-> chain'[i].kernel, dep |-> chain'[i].dep]
              /\ chain'[i].kernel.root \in Range(resolved')
  <2>1. CASE i = n + 1
    <3>1. chain'[i].kernel = kernel /\ chain'[i].dep = {}
      BY <1>7, <2>1
    <3>2. chain'[i] = [kernel |-> kernel, dep |-> {}]
      BY <1>7, <2>1
    <3>3. kernel.root \in Range(resolved')
      BY <1>1, <1>2
    <3> QED BY <3>1, <3>2, <3>3
  <2>2. CASE i \in 1 .. n
    <3>1. chain[i].kernel.root \in Range(resolved)
      BY <1>6, <2>2 DEF IndInv, ListSoFar
    <3> QED BY <1>1, <1>8, <2>2, <3>1
  <2> QED BY <1>6, <2>1, <2>2
<1>13. ASSUME NEW i \in 1 .. n + 1, NEW j \in 1 .. n + 1,
              chain'[i].kernel.root = chain'[j].kernel.root
       PROVE  i = j
  <2>1. \A k \in 1 .. n : chain'[k].kernel.root # root
    BY <1>2, <1>6, <1>8
  <2>2. chain'[n + 1].kernel.root = root
    BY <1>7
  <2>3. CASE i \in 1 .. n /\ j \in 1 .. n
    BY <1>6, <1>8, <1>13, <2>3 DEF IndInv, ListSoFar
  <2> QED BY <1>6, <1>13, <2>1, <2>2, <2>3
<1>14. ListSoFar'
  BY <1>7, <1>11, <1>12, <1>13 DEF ListSoFar
<1> QED BY <1>4, <1>5, <1>14 DEF IndInv

-----------------------------------------------------------------------------
(* The frames of the evaluation. *)

\* The frame that is run: the kernel has one, and what comes after it keeps the last.
LEMMA RunningFacts ==
  ASSUME IndInv, NEW do, Running(do)
  PROVE  /\ kernel # NoKernel /\ stack # << >> /\ Head(stack).do = do
         /\ node \in Nodes(graph) /\ Tail(stack) \in Seq(Frame)
         /\ graph[node].op \in OpNames
         /\ stack = << Visit(kernel.root) >> =>
              do = "visit" /\ node = kernel.root /\ Tail(stack) = << >>
         /\ stack[Len(stack)] = Finish(kernel.root) =>
              \/ do = "finish" /\ node = kernel.root /\ Tail(stack) = << >>
              \/ Tail(stack) # << >> /\ Tail(stack)[Len(Tail(stack))] = Finish(kernel.root)
<1>1. stack \in Seq(Frame) /\ stack # << >> /\ Head(stack).do = do /\ TypeOK
  BY DEF Running, IndInv, TypeOK
<1>2. kernel # NoKernel
  BY <1>1 DEF IndInv, KernelIsNew
<1>3. /\ Head(stack) \in Frame /\ Tail(stack) \in Seq(Frame) /\ Len(stack) \in Nat \ {0}
      /\ Head(stack) = stack[1]
      /\ Len(stack) = 1 => Tail(stack) = << >>
      /\ Len(stack) # 1 => Tail(stack) # << >> /\ Tail(stack)[Len(Tail(stack))] = stack[Len(stack)]
  BY <1>1, Popped
<1>4. node \in Nodes(graph)
  <2>1. \A f \in Frame : f.node \in Nodes(graph)
    BY DEF Frame
  <2> QED BY <1>3, <2>1 DEF node
<1>5. graph[node].op \in OpNames
  BY <1>1, <1>4, GraphFacts
<1>6. ASSUME stack = << Visit(kernel.root) >>
      PROVE  do = "visit" /\ node = kernel.root /\ Tail(stack) = << >>
  <2>1. Head(stack) = Visit(kernel.root) /\ Tail(stack) = << >>
    BY <1>6
  <2>2. Visit(kernel.root).do = "visit" /\ Visit(kernel.root).node = kernel.root
    BY DEF Visit
  <2> QED BY <1>1, <2>1, <2>2 DEF node
<1>7. ASSUME stack[Len(stack)] = Finish(kernel.root), Len(stack) = 1
      PROVE  do = "finish" /\ node = kernel.root /\ Tail(stack) = << >>
  <2>1. Head(stack) = Finish(kernel.root)
    BY <1>3, <1>7
  <2>2. Finish(kernel.root).do = "finish" /\ Finish(kernel.root).node = kernel.root
    BY DEF Finish
  <2>3. Tail(stack) = << >>
    BY <1>3, <1>7
  <2> QED BY <1>1, <2>1, <2>2, <2>3 DEF node
<1>8. ASSUME stack[Len(stack)] = Finish(kernel.root), Len(stack) # 1
      PROVE  Tail(stack) # << >> /\ Tail(stack)[Len(Tail(stack))] = Finish(kernel.root)
  BY <1>3, <1>8
<1> HIDE DEF node
<1> QED BY <1>1, <1>2, <1>3, <1>4, <1>5, <1>6, <1>7, <1>8

\* What an evaluation step has to show of the invariant.
LEMMA EvalPreserves ==
  ASSUME IndInv, kernel # NoKernel,
         UNCHANGED << graph, roots, todo, chain >>,
         resolved' \in Seq(Nodes(graph)), Range(resolved) \subseteq Range(resolved'),
         visited' \in Seq(Nodes(graph)), stack' \in Seq(Frame), stable' \in BOOLEAN,
         IsKernel(kernel'), kernel'.root = kernel.root,
         RootIsPending'
  PROVE  IndInv'
<1>1. TypeOK'
  BY DEF IndInv, TypeOK, Frame
<1>2. ListSoFar'
  BY ListKept DEF IndInv
<1>3. kernel.root \in Nat /\ kernel.root # 0
  <2>1. kernel.root = Head(todo) /\ todo # << >> /\ todo \in Seq(Nodes(graph))
    BY DEF IndInv, KernelIsNew, TypeOK
  <2>2. kernel.root \in Nodes(graph)
    BY <2>1, Popped
  <2> QED BY <2>2, GraphFacts DEF IndInv
<1>4. kernel' # NoKernel
  BY <1>3 DEF NoKernel
<1>5. KernelIsNew'
  BY <1>4 DEF IndInv, KernelIsNew
<1> QED BY <1>1, <1>2, <1>5 DEF IndInv

LEMMA PendingGrows ==
  ASSUME kernel.root \in Range(resolved), kernel'.root = kernel.root,
         Range(resolved) \subseteq Range(resolved')
  PROVE  RootIsPending'
BY DEF RootIsPending

LEMMA SeenFacts ==
  ASSUME IndInv, kernel # NoKernel
  PROVE  IsKernel(kernel) /\ IsKernel(Seen) /\ Seen.root = kernel.root
<1>1. IsKernel(kernel)
  BY DEF IndInv, KernelIsNew
<1> QED BY <1>1, KernelFacts DEF Seen

\* Of what is kept of a node, its value only makes a difference to the results.
LEMMA KeepFacts ==
  ASSUME IsKernel(kernel)
  PROVE  /\ IsKernel(Keep) /\ Keep.root = kernel.root
         /\ Keep.reads = kernel.reads /\ Keep.ops = kernel.ops
         /\ Keep.writes = kernel.writes \cup {SavedParam(node)}
         /\ Keep.results = kernel.results \cup (IF attr.auto_save THEN {SavedParam(node)} ELSE {})
<1>1. CASE attr.auto_save
  <2>1. Keep = Store(kernel, SavedParam(node))
    BY <1>1 DEF Keep
  <2> QED BY <1>1, <2>1, KernelFacts, KernelTensors, KernelOps, KernelResults
<1>2. CASE ~attr.auto_save
  <2>1. Keep = StoreInner(kernel, SavedParam(node))
    BY <1>2 DEF Keep
  <2> QED BY <1>2, <2>1, KernelFacts, KernelTensors, KernelOps, KernelResults
<1> QED BY <1>1, <1>2

LEMMA VisitedType ==
  ASSUME IndInv, node \in Nodes(graph)
  PROVE  Visited \in Seq(Nodes(graph))
<1>1. visited \in Seq(Nodes(graph))
  BY DEF IndInv, TypeOK
<1> QED BY <1>1, PushNewType DEF Visited

LEMMA VisitLeafStep ==
  ASSUME IndInv, VisitLeaf
  PROVE  IndInv'
<1>1. CASE graph[node].op = "input" /\ ~HasInputParam(node)
  BY <1>1, Failed DEF VisitLeaf, Fail
<1>2. CASE ~(graph[node].op = "input" /\ ~HasInputParam(node))
  <2>1. /\ kernel' = IF graph[node].op = "input" THEN Load(Seen, In(node)) ELSE Seen
        /\ stack' = << Finish(node) >> \o Tail(stack)
        /\ UNCHANGED << graph, saved, roots, todo, resolved, visited, stable, chain, status >>
        /\ Running("visit")
    BY <1>2 DEF VisitLeaf
  <2>2. /\ kernel # NoKernel /\ node \in Nodes(graph) /\ Tail(stack) \in Seq(Frame)
        /\ stack = << Visit(kernel.root) >> => node = kernel.root /\ Tail(stack) = << >>
        /\ stack[Len(stack)] = Finish(kernel.root) =>
             Tail(stack) # << >> /\ Tail(stack)[Len(Tail(stack))] = Finish(kernel.root)
    BY <2>1, RunningFacts
  <2>3. IsKernel(kernel') /\ kernel'.root = kernel.root
    BY <2>1, <2>2, SeenFacts, KernelFacts
  <2>4. /\ stack' \in Seq(Frame) /\ stack' # << >>
        /\ Tail(stack) = << >> => stack' = << Finish(node) >>
        /\ Tail(stack) # << >> => stack'[Len(stack')] = Tail(stack)[Len(Tail(stack))]
    <3>1. Finish(node) \in Frame
      BY <2>2 DEF Finish, Frame
    <3> DEFINE next == << Finish(node) >> \o Tail(stack)
    <3>2. /\ next \in Seq(Frame) /\ next # << >>
          /\ Tail(stack) = << >> => next = << Finish(node) >>
          /\ Tail(stack) # << >> => next[Len(next)] = Tail(stack)[Len(Tail(stack))]
      BY <2>2, <3>1, LastOfPush
    <3>3. stack' = next
      BY <2>1
    <3> HIDE DEF next
    <3> QED BY <3>2, <3>3
  <2>5. RootIsPending'
    <3>1. CASE kernel.root \in Range(resolved)
      BY <2>1, <2>3, <3>1, PendingGrows
    <3>2. CASE stack = << Visit(kernel.root) >>
      <4>1. stack' = << Finish(kernel.root) >>
        BY <2>2, <2>4, <3>2
      <4>2. stack'[Len(stack')] = Finish(kernel.root)
        BY <4>1
      <4> QED BY <2>3, <2>4, <4>2 DEF RootIsPending, Finish
    <3>3. CASE stack[Len(stack)] = Finish(kernel.root)
      BY <2>2, <2>3, <2>4, <3>3 DEF RootIsPending, Finish
    <3> QED BY <2>2, <3>1, <3>2, <3>3 DEF IndInv, KernelIsNew, RootIsPending
  <2>6. resolved \in Seq(Nodes(graph)) /\ visited \in Seq(Nodes(graph)) /\ stable \in BOOLEAN
    BY DEF IndInv, TypeOK
  <2> QED BY <2>1, <2>2, <2>3, <2>4, <2>5, <2>6, EvalPreserves
<1> QED BY <1>1, <1>2

LEMMA VisitSplitStep ==
  ASSUME IndInv, VisitSplit
  PROVE  IndInv'
<1>1. CASE ~HasSavedParam(node)
  BY <1>1, Failed DEF VisitSplit, Fail
<1>2. CASE HasSavedParam(node)
  <2>1. /\ kernel' = Load(Seen, SavedParam(node))
        /\ stack' = Tail(stack)
        /\ visited' = Visited
        /\ UNCHANGED << graph, saved, roots, todo, resolved, stable, chain, status >>
        /\ Running("visit") /\ MustSplit /\ ~is_leaf(graph[node].op)
    BY <1>2 DEF VisitSplit
  <2>2. /\ kernel # NoKernel /\ node \in Nodes(graph) /\ Tail(stack) \in Seq(Frame)
        /\ graph[node].op \in OpNames
        /\ stack[Len(stack)] = Finish(kernel.root) =>
             Tail(stack) # << >> /\ Tail(stack)[Len(Tail(stack))] = Finish(kernel.root)
    BY <2>1, RunningFacts
  <2>3. IsKernel(kernel') /\ kernel'.root = kernel.root
    BY <2>1, <2>2, SeenFacts, KernelFacts
  <2>4. resolved \in Seq(Nodes(graph)) /\ Visited \in Seq(Nodes(graph)) /\ stable \in BOOLEAN
    BY <2>2, VisitedType DEF IndInv, TypeOK
  <2>5. ~stable
    <3>1. ~DimsInvalid(graph, resolved, node)
      <4>1. IsGraph(graph)
        BY GraphFacts DEF IndInv
      <4> QED BY <2>4, <4>1, DimsValid
    <3>2. attr.computes_gid
      BY <2>1, <2>2, OpFacts DEF attr, is_leaf
    <3> QED BY <2>1, <3>1, <3>2 DEF MustSplit
  <2>6. RootIsPending'
    <3>1. CASE kernel.root \in Range(resolved)
      BY <2>1, <2>3, <3>1, PendingGrows
    <3>2. CASE stack[Len(stack)] = Finish(kernel.root)
      BY <2>1, <2>2, <2>3, <3>2 DEF RootIsPending, Finish
    <3> QED BY <2>2, <2>5, <3>1, <3>2 DEF IndInv, KernelIsNew, RootIsPending
  <2> QED BY <2>1, <2>2, <2>3, <2>4, <2>6, EvalPreserves
<1> QED BY <1>1, <1>2

LEMMA VisitFusedStep ==
  ASSUME IndInv, VisitFused
  PROVE  IndInv'
<1>1. /\ stable' = (stable /\ attr.stable_iter)
      /\ stack' = Operands(node) \o << Finish(node) >> \o Tail(stack)
      /\ visited' = Visited
      /\ UNCHANGED << graph, saved, roots, todo, resolved, chain, status >>
      /\ Running("visit")
  BY DEF VisitFused
<1>2. /\ kernel # NoKernel /\ node \in Nodes(graph) /\ Tail(stack) \in Seq(Frame)
      /\ graph[node].op \in OpNames
      /\ stack = << Visit(kernel.root) >> => node = kernel.root /\ Tail(stack) = << >>
      /\ stack[Len(stack)] = Finish(kernel.root) =>
           Tail(stack) # << >> /\ Tail(stack)[Len(Tail(stack))] = Finish(kernel.root)
  BY <1>1, RunningFacts
<1>3. IsKernel(kernel') /\ kernel'.root = kernel.root
  <2>1. IsKernel(Seen) /\ Seen.root = kernel.root
    BY <1>2, SeenFacts
  <2>2. \A y : IsKernel([Seen EXCEPT !.meta = y]) /\ [Seen EXCEPT !.meta = y].root = kernel.root
    BY <2>1, KernelFacts
  <2> DEFINE meta == Seen.meta \cup MatmulMeta(graph[graph[node].inputs[1]].shape,
                                               graph[graph[node].inputs[2]].shape)
  <2>3. kernel' = Seen \/ kernel' = [Seen EXCEPT !.meta = meta]
    BY DEF VisitFused
  <2> HIDE DEF meta
  <2> QED BY <2>1, <2>2, <2>3
<1>4. /\ stack' \in Seq(Frame) /\ stack' # << >>
      /\ stack'[Len(stack')] = IF Tail(stack) = << >> THEN Finish(node) ELSE Tail(stack)[Len(Tail(stack))]
  <2>1. Finish(node) \in Frame
    BY <1>2 DEF Finish, Frame
  <2>2. Operands(node) \in Seq(Frame)
    <3>1. graph[node].inputs \in Seq(Nodes(graph))
      BY <1>2, GraphFacts DEF IndInv
    <3>2. \A n \in Nodes(graph) : Visit(n) \in Frame
      BY DEF Visit, Frame
    <3> HIDE DEF Frame
    <3>3. Len(graph[node].inputs) \in Nat /\ DOMAIN graph[node].inputs = 1 .. Len(graph[node].inputs)
          /\ \A p \in DOMAIN graph[node].inputs : graph[node].inputs[p] \in Nodes(graph)
      BY <3>1
    <3> QED BY <3>2, <3>3 DEF Operands
  <2> DEFINE next == Operands(node) \o << Finish(node) >> \o Tail(stack)
  <2>3. /\ next \in Seq(Frame) /\ next # << >>
        /\ next[Len(next)] = IF Tail(stack) = << >> THEN Finish(node) ELSE Tail(stack)[Len(Tail(stack))]
    <3> DEFINE rest == Tail(stack)
               end == Finish(node)
               operands == Operands(node)
    <3>1. rest \in Seq(Frame) /\ end \in Frame /\ operands \in Seq(Frame)
      BY <1>2, <2>1, <2>2
    <3> HIDE DEF rest, end, operands
    <3>2. /\ operands \o << end >> \o rest \in Seq(Frame) /\ operands \o << end >> \o rest # << >>
          /\ (operands \o << end >> \o rest)[Len(operands \o << end >> \o rest)]
               = IF rest = << >> THEN end ELSE rest[Len(rest)]
      BY <3>1, LastOfFrames
    <3> QED BY <3>2 DEF rest, end, operands
  <2>4. stack' = next
    BY <1>1
  <2> HIDE DEF next
  <2> QED BY <2>3, <2>4
<1>5. RootIsPending'
  <2>1. CASE kernel.root \in Range(resolved)
    BY <1>1, <1>3, <2>1, PendingGrows
  <2>2. CASE stack = << Visit(kernel.root) >> \/ stack[Len(stack)] = Finish(kernel.root)
    <3>1. stack'[Len(stack')] = Finish(kernel.root)
      BY <1>2, <1>4, <2>2
    <3> QED BY <1>3, <1>4, <3>1 DEF RootIsPending, Finish
  <2> QED BY <1>2, <2>1, <2>2 DEF IndInv, KernelIsNew, RootIsPending
<1>6. resolved \in Seq(Nodes(graph)) /\ Visited \in Seq(Nodes(graph)) /\ stable' \in BOOLEAN
  <2>1. attr.stable_iter \in BOOLEAN
    BY <1>2, OpFacts DEF attr
  <2>2. stable \in BOOLEAN /\ resolved \in Seq(Nodes(graph))
    BY DEF IndInv, TypeOK
  <2> QED BY <1>1, <1>2, <2>1, <2>2, VisitedType
<1> QED BY <1>1, <1>2, <1>3, <1>4, <1>5, <1>6, EvalPreserves

LEMMA FinishNodeStep ==
  ASSUME IndInv, FinishNode
  PROVE  IndInv'
<1>1. CASE attr.save_inner /\ ~HasSavedParam(node)
  BY <1>1, Failed DEF FinishNode, Fail
<1>2. CASE ~(attr.save_inner /\ ~HasSavedParam(node))
  <2>1. /\ kernel' = IF Stores THEN Keep ELSE kernel
        /\ resolved' = PushNew(resolved, node)
        /\ stack' = Tail(stack)
        /\ UNCHANGED << graph, saved, roots, todo, visited, stable, chain, status >>
        /\ Running("finish")
    BY <1>2 DEF FinishNode
  <2>2. /\ kernel # NoKernel /\ node \in Nodes(graph) /\ Tail(stack) \in Seq(Frame)
        /\ stack # << Visit(kernel.root) >>
        /\ stack[Len(stack)] = Finish(kernel.root) =>
             \/ node = kernel.root
             \/ Tail(stack) # << >> /\ Tail(stack)[Len(Tail(stack))] = Finish(kernel.root)
    BY <2>1, RunningFacts
  <2>3. IsKernel(kernel') /\ kernel'.root = kernel.root
    BY <2>1, <2>2, SeenFacts, KeepFacts
  <2>4. resolved' \in Seq(Nodes(graph)) /\ Range(resolved') = Range(resolved) \cup {node}
    <3>1. resolved \in Seq(Nodes(graph))
      BY DEF IndInv, TypeOK
    <3>2. /\ PushNew(resolved, node) \in Seq(Nodes(graph))
          /\ Range(PushNew(resolved, node)) = Range(resolved) \cup {node}
      BY <2>2, <3>1, PushNewType
    <3>3. resolved' = PushNew(resolved, node)
      BY <2>1
    <3> QED BY <3>2, <3>3
  <2>5. RootIsPending'
    <3>1. CASE kernel.root \in Range(resolved)
      BY <2>3, <2>4, <3>1, PendingGrows
    <3>2. CASE stack[Len(stack)] = Finish(kernel.root)
      BY <2>1, <2>2, <2>3, <2>4, <3>2 DEF RootIsPending, Finish
    <3> QED BY <2>2, <3>1, <3>2 DEF IndInv, KernelIsNew, RootIsPending
  <2>6. visited \in Seq(Nodes(graph)) /\ stable \in BOOLEAN
    BY DEF IndInv, TypeOK
  <2> QED BY <2>1, <2>2, <2>3, <2>4, <2>5, <2>6, EvalPreserves
<1> QED BY <1>1, <1>2

-----------------------------------------------------------------------------
LEMMA NextInv == IndInv /\ [Next]_vars => IndInv'
<1> SUFFICES ASSUME IndInv, [Next]_vars PROVE IndInv'
  OBVIOUS
<1>1. CASE UNCHANGED vars
  BY <1>1, Failed DEF vars, lowerVars
<1>2. CASE StartSweep \/ Return \/ SkipRoot
  BY <1>2, LoopSteps
<1>3. CASE StartKernel
  BY <1>3, StartKernelStep
<1>4. CASE FinishKernel
  BY <1>4, FinishKernelStep
<1>5. CASE EvalNode
  BY <1>5, VisitLeafStep, VisitSplitStep, VisitFusedStep, FinishNodeStep DEF EvalNode
<1> QED BY <1>1, <1>2, <1>3, <1>4, <1>5 DEF Next

LEMMA ListIs ==
  ASSUME IndInv
  PROVE  ChainIsForwardList /\ Order \in Seq(Nat) /\ IsInjective(Order)
<1>1. Len(chain) \in Nat /\ DOMAIN chain = 1 .. Len(chain)
  BY DEF IndInv, ListSoFar
<1>2. Order \in Seq(Nat) /\ Len(Order) = Len(chain) /\ DOMAIN Order = 1 .. Len(chain)
      /\ \A i \in 1 .. Len(chain) : Order[i] = chain[i].kernel.root
  <2>1. Range(resolved) \subseteq Nodes(graph)
    <3>1. resolved \in Seq(Nodes(graph))
      BY DEF IndInv, TypeOK
    <3> QED BY <3>1 DEF Range
  <2>2. \A i \in 1 .. Len(chain) : chain[i].kernel.root \in Nat
    <3>1. \A i \in 1 .. Len(chain) : chain[i].kernel.root \in Range(resolved)
      BY <1>1 DEF IndInv, ListSoFar
    <3> QED BY <2>1, <3>1, GraphFacts DEF IndInv
  <2>3. Order = [i \in 1 .. Len(chain) |-> chain[i].kernel.root]
    BY <1>1 DEF Order
  <2> QED BY <1>1, <2>2, <2>3
<1>3. IsInjective(Order)
  BY <1>1, <1>2 DEF IsInjective, IndInv, ListSoFar
<1>4. ForwardList(Order) =
        [i \in DOMAIN chain |-> [root |-> Order[i], dep |-> chain[i].dep, redirect |-> Unmasked]]
  <2>1. \A i \in 1 .. Len(chain) :
          ForwardList(Order)[i] = [root |-> Order[i], dep |-> chain[i].dep, redirect |-> Unmasked]
    <3>1. \A i \in 1 .. Len(chain) :
            /\ ForwardList(Order)[i] =
                 [root |-> Order[i], dep |-> ForwardList(Order)[i].dep, redirect |-> Unmasked]
            /\ chain[i].dep = ForwardList(Order)[i].dep
      BY <1>1, <1>2 DEF ForwardList, IndInv, ListSoFar
    <3> QED BY <3>1
  <2>2. ForwardList(Order) = [i \in 1 .. Len(chain) |-> ForwardList(Order)[i]]
    BY <1>2 DEF ForwardList
  <2> QED BY <1>1, <2>1, <2>2
<1>5. ChainIsForwardList
  BY <1>3, <1>4 DEF ChainIsForwardList, Order
<1> QED BY <1>2, <1>3, <1>5

\* lower_forward builds the list KernelList describes, whatever the graph, at every step: no root
\* has two kernels, and each depends on exactly the later ones with a smaller root.
THEOREM ListIsForwardList == Spec => []ChainIsForwardList
<1>1. IndInv => ChainIsForwardList
  BY ListIs
<1> QED BY <1>1, InitInv, NextInv, PTL DEF Spec

\* So every list that lower_forward hands over is one that the scheduler can finish.
THEOREM ForwardListIsSchedulable == Spec => []Schedulable(ForwardList(Order))
<1>1. IndInv => Schedulable(ForwardList(Order))
  BY ListIs, ForwardListsAreSchedulable
<1> QED BY <1>1, InitInv, NextInv, PTL DEF Spec
-----------------------------------------------------------------------------
(***************************************************************************)
(* Which graphs are lowered, and that nothing is left behind: every node a *)
(* graph computes is computed by some kernel, and what the node keeps is   *)
(* stored there.                                                           *)
(***************************************************************************)

\* Nodes that are computed, or that a kernel will be started for.
Known == Range(roots) \cup Range(todo) \cup Range(resolved) \cup Range(visited)

WrittenSoFar == WrittenBy(chain) \cup (IF kernel = NoKernel THEN {} ELSE kernel.writes)
ReadSoFar == ReadBy(chain) \cup (IF kernel = NoKernel THEN {} ELSE kernel.reads)

\* Between two kernels, the last one's nodes are among the roots.
VisitedAreKnown ==
  /\ Range(visited) \subseteq Computed
  /\ kernel = NoKernel => Range(visited) \subseteq Range(roots) \cup Range(todo) \cup Range(resolved)

\* Nothing that is to be computed is forgotten: neither the sinks, nor the operands of what has
\* been computed,
NoneForgotten ==
  /\ Sinks(graph) \cap Computed \subseteq Known
  /\ \A n \in Range(resolved) : Range(graph[n].inputs) \cap Computed \subseteq Known

\* nor, in a kernel, the operands of what it is going to finish.
OperandsAhead ==
  \A i \in DOMAIN stack :
    stack[i].do = "finish" =>
      \A m \in Range(graph[stack[i].node].inputs) \cap Computed :
        m \in Range(visited) \/ \E j \in 1 .. i - 1 : stack[j] = Visit(m)

\* What has been computed and is kept has been stored.
ComputedAreStored ==
  \A n \in Range(resolved) \cap Computed :
    /\ Op[graph[n].op].save_inner => HasSavedParam(n)
    /\ HasSavedParam(n) => SavedParam(n) \in WrittenSoFar

\* Kernels load inputs and kept values.
Loadable(t) ==
  \/ \E n \in Nodes(graph) : graph[n].op = "input" /\ t = In(n)
  \/ \E n \in Computed : HasSavedParam(n) /\ t = SavedParam(n)
LoadsAreKept == \A t \in ReadSoFar : Loadable(t)

UnusedLeaves == Sinks(graph) \ Computed

\* An unused leaf stays a root, and the only one of its kernel, until it makes the lowering fail.
UnusedLeavesAreRoots ==
  /\ UnusedLeaves \subseteq (Range(roots) \cup Range(todo)) \ Range(resolved)
  /\ \A f \in Range(stack) :
       f.node \in UnusedLeaves => f.do = "visit" /\ graph[f.node].op = "input"
  /\ (Range(roots) \cup Range(todo)) \ Computed \subseteq UnusedLeaves
  /\ Range(roots) \subseteq Computed \/ Sinks(graph) \subseteq Range(roots)
  /\ todo # << >> => Computed # {}

Outcome ==
  /\ status \in {"failed", "panicked"} => ~Lowerable
  /\ status = "lowered" =>
       Lowerable /\ kernel = NoKernel /\ Computed \subseteq Range(resolved)

Complete ==
  /\ saved = compute_saved_nodes(graph)
  /\ VisitedAreKnown /\ NoneForgotten /\ OperandsAhead
  /\ ComputedAreStored /\ LoadsAreKept
  /\ UnusedLeavesAreRoots
  /\ Outcome

LowerInv == IndInv /\ Complete

-----------------------------------------------------------------------------
LEMMA NodeFacts ==
  ASSUME IndInv, NEW n \in Nodes(graph)
  PROVE  /\ n \in Nat /\ n # 0 /\ graph[n].op \in OpNames /\ graph[n].inputs \in Seq(Nodes(graph))
         /\ n \in Computed <=> ~is_leaf(graph[n].op)
         /\ n \in Computed <=> graph[n].inputs # << >>
         /\ graph[n].shape = << >> => n \notin Computed
         /\ graph[n].op = "const" => graph[n].shape = << >>
         /\ \A m \in Range(graph[n].inputs) : m \in Nodes(graph) /\ m < n /\ m \notin Sinks(graph)
         /\ n \notin Sinks(graph) =>
              \E u \in Computed : n < u /\ n \in Range(graph[u].inputs)
<1>1. Prepared(graph)
  BY GraphsAssumption DEF IndInv, TypeOK
<1> QED BY <1>1, PreparedFacts DEF Computed, Sinks

LEMMA RangesAreNodes ==
  ASSUME IndInv
  PROVE  /\ Range(roots) \subseteq Nodes(graph) /\ Range(todo) \subseteq Nodes(graph)
         /\ Range(resolved) \subseteq Nodes(graph) /\ Range(visited) \subseteq Nodes(graph)
<1>1. \A s \in Seq(Nodes(graph)) : Range(s) \subseteq Nodes(graph)
  <2> HIDE DEF Nodes
  <2> QED BY DEF Range
<1> QED BY <1>1 DEF IndInv, TypeOK

LEMMA SameGraph ==
  ASSUME graph' = graph, saved' = saved
  PROVE  /\ Computed' = Computed /\ UnusedLeaves' = UnusedLeaves
         /\ Sinks(graph)' = Sinks(graph) /\ Nodes(graph)' = Nodes(graph)
         /\ \A n : (HasSavedParam(n)' <=> HasSavedParam(n)) /\ SavedParam(n)' = SavedParam(n)
         /\ \A t : Loadable(t)' <=> Loadable(t)
         /\ Lowerable' <=> Lowerable
<1>1. Computed' = Computed /\ UnusedLeaves' = UnusedLeaves
  BY DEF Computed, UnusedLeaves
<1>2. \A n : (HasSavedParam(n)' <=> HasSavedParam(n)) /\ SavedParam(n)' = SavedParam(n)
  BY DEF HasSavedParam, SavedParam
<1>3. \A t : Loadable(t)' <=> Loadable(t)
  BY <1>1, <1>2 DEF Loadable
<1>4. Lowerable' <=> Lowerable
  BY <1>1, <1>2 DEF Lowerable
<1> QED BY <1>1, <1>2, <1>3, <1>4

\* A matrix product keeps its value, which every split at it loads.
LEMMA TransformsAreKept ==
  ASSUME IndInv, saved = compute_saved_nodes(graph),
         NEW n \in Nodes(graph), is_transform(graph[n].op)
  PROVE  HasSavedParam(n)
<1>1. graph[n].op = "matmul" /\ Op["matmul"].save = "matmul"
  BY NodeFacts, ComputeFacts
<1>2. "DEFINED_IN_FORWARD" \in SaveRequest(graph, n, n)
  BY <1>1 DEF SaveRequest
<1>3. "DEFINED_IN_FORWARD" \in saved[n]
  BY <1>2 DEF compute_saved_nodes
<1> QED BY <1>3 DEF HasSavedParam, is_defined_in_forward

-----------------------------------------------------------------------------
(* What a step has to show of each part. *)

LEMMA TensorsKept ==
  ASSUME ComputedAreStored, LoadsAreKept, UNCHANGED << graph, saved, resolved >>,
         WrittenSoFar \subseteq WrittenSoFar',
         \A t \in ReadSoFar' : t \in ReadSoFar \/ Loadable(t)
  PROVE  ComputedAreStored' /\ LoadsAreKept'
<1>1. LoadsAreKept'
  BY SameGraph DEF LoadsAreKept
<1>2. ComputedAreStored'
  BY SameGraph DEF ComputedAreStored
<1> QED BY <1>1, <1>2

LEMMA KnownKept ==
  ASSUME NoneForgotten, UNCHANGED << graph, saved, resolved >>, Known \subseteq Known'
  PROVE  NoneForgotten'
BY SameGraph DEF NoneForgotten

\* A step that changes nothing but the status.
LEMMA StatusOnly ==
  ASSUME LowerInv, Outcome', IndInv',
         UNCHANGED << graph, saved, roots, todo, resolved, kernel, stack, visited, stable, chain >>
  PROVE  LowerInv'
<1>1. WrittenSoFar' = WrittenSoFar /\ ReadSoFar' = ReadSoFar /\ Known' = Known
  BY DEF WrittenSoFar, ReadSoFar, Known, WrittenBy, ReadBy, KernelsOf, NoKernel
<1>2. VisitedAreKnown' /\ UnusedLeavesAreRoots' /\ OperandsAhead'
  BY SameGraph
     DEF LowerInv, Complete, VisitedAreKnown, UnusedLeavesAreRoots, OperandsAhead, NoKernel, Visit
<1>3. NoneForgotten' /\ ComputedAreStored' /\ LoadsAreKept'
  BY <1>1, KnownKept, TensorsKept DEF LowerInv, Complete
<1> QED BY <1>2, <1>3 DEF LowerInv, Complete

-----------------------------------------------------------------------------
(* The loops over the roots. *)

\* A graph that computes something computes one of its sinks.
LEMMA SomeSinkIsComputed ==
  ASSUME IndInv, Computed # {}
  PROVE  Computed \cap Sinks(graph) # {}
<1> SUFFICES ASSUME Computed \cap Sinks(graph) = {} PROVE FALSE
  OBVIOUS
<1>1. \A n \in Computed : \E u \in Computed : n < u
  <2> TAKE n \in Computed
  <2>1. n \in Nodes(graph) /\ n \notin Sinks(graph)
    BY DEF Computed
  <2> QED BY <2>1, NodeFacts
<1>2. Computed \subseteq 1 .. Len(graph) /\ Len(graph) \in Nat
  <2>1. IsGraph(graph)
    BY GraphFacts DEF IndInv
  <2> QED BY <2>1 DEF Computed, Nodes, IsGraph
<1>3. PICK n \in Computed : \A u \in Computed : u <= n
  <2> HIDE DEF Computed
  <2> QED BY <1>2, LargestExists
<1>4. \A u \in Computed : u \in Nat
  BY <1>2
<1> QED BY <1>1, <1>3, <1>4

\* When no root is left to be computed, no node is.
LEMMA AllComputed ==
  ASSUME LowerInv, Return
  PROVE  Computed \subseteq Range(resolved)
<1> DEFINE Missing == Computed \ Range(resolved)
<1>1. /\ kernel = NoKernel /\ Range(todo) = {}
      /\ \A r \in Range(roots) : graph[r].inputs = << >>
  BY DEF Return, BetweenKernels, SweepNeeded, Range
<1>2. Known \cap Computed \subseteq Range(resolved)
  <2>1. Range(roots) \cap Computed = {}
    BY <1>1, RangesAreNodes, NodeFacts DEF LowerInv
  <2> QED BY <1>1, <2>1 DEF LowerInv, Complete, VisitedAreKnown, Known
<1>3. ASSUME NEW n \in Missing PROVE \E u \in Missing : n < u
  <2>1. n \in Nodes(graph) /\ n \notin Sinks(graph)
    BY <1>2 DEF LowerInv, Complete, NoneForgotten, Computed
  <2>2. PICK u \in Computed : n < u /\ n \in Range(graph[u].inputs)
    BY <2>1, NodeFacts DEF LowerInv
  <2>3. u \notin Range(resolved)
    BY <1>2, <2>2 DEF LowerInv, Complete, NoneForgotten
  <2> QED BY <2>2, <2>3
<1>4. Missing \subseteq 1 .. Len(graph) /\ Len(graph) \in Nat
  <2>1. IsGraph(graph)
    BY GraphFacts DEF LowerInv, IndInv
  <2> QED BY <2>1 DEF Computed, Nodes, IsGraph
<1>5. ASSUME Missing # {} PROVE FALSE
  <2> HIDE DEF Missing
  <2>1. PICK n \in Missing : \A u \in Missing : u <= n
    BY <1>4, <1>5, LargestExists
  <2>2. \A u \in Missing : u \in Nat
    BY <1>4
  <2> QED BY <1>3, <2>1, <2>2
<1> QED BY <1>5

LEMMA ReturnCompletes ==
  ASSUME LowerInv, Return, IndInv'
  PROVE  LowerInv'
<1>1. /\ kernel = NoKernel /\ todo = << >> /\ status' = "lowered"
      /\ UNCHANGED << graph, saved, roots, todo, resolved, kernel, stack, visited, stable, chain >>
      /\ \A r \in Range(roots) : graph[r].inputs = << >>
  BY DEF Return, BetweenKernels, SweepNeeded
<1>2. Computed \subseteq Range(resolved)
  BY AllComputed
<1>3. ASSUME Computed # {} PROVE UnusedLeaves = {}
  <2>1. PICK s \in Computed : s \in Sinks(graph)
    BY <1>3, SomeSinkIsComputed DEF LowerInv
  <2>2. s \notin Range(roots)
    BY <1>1, <2>1, NodeFacts DEF LowerInv, Computed
  <2>3. Range(roots) \subseteq Computed
    BY <2>1, <2>2 DEF LowerInv, Complete, UnusedLeavesAreRoots
  <2>4. Range(todo) = {}
    BY <1>1 DEF Range
  <2> QED BY <2>3, <2>4 DEF LowerInv, Complete, UnusedLeavesAreRoots, UnusedLeaves
<1>4. \A n \in Computed : Op[graph[n].op].save_inner => HasSavedParam(n)
  BY <1>2 DEF LowerInv, Complete, ComputedAreStored
<1>5. Lowerable
  BY <1>3, <1>4 DEF Lowerable, UnusedLeaves
<1>6. Outcome'
  <2>1. Lowerable' /\ Computed' = Computed
    BY <1>1, <1>5, SameGraph
  <2> QED BY <1>1, <1>2, <2>1 DEF Outcome, NoKernel
<1> QED BY <1>1, <1>6, StatusOnly

LEMMA NoFramesBetweenKernels ==
  ASSUME IndInv, kernel = NoKernel
  PROVE  stack = << >> /\ DOMAIN stack = {} /\ Range(stack) = {}
BY DEF IndInv, KernelIsNew, Range

LEMMA StartSweepCompletes ==
  ASSUME LowerInv, StartSweep, IndInv'
  PROVE  LowerInv'
<1>1. /\ kernel = NoKernel /\ todo = << >> /\ status = "lowering" /\ SweepNeeded
      /\ todo' = roots /\ roots' = << >>
      /\ UNCHANGED << graph, saved, resolved, kernel, stack, visited, stable, chain, status >>
  BY DEF StartSweep, BetweenKernels
<1>2. Range(todo) = {} /\ Range(roots') = {} /\ Range(todo') = Range(roots)
  BY <1>1 DEF Range
<1>3. Known' = Known /\ WrittenSoFar' = WrittenSoFar /\ ReadSoFar' = ReadSoFar
  BY <1>1, <1>2 DEF WrittenSoFar, ReadSoFar, Known, WrittenBy, ReadBy, KernelsOf, NoKernel
<1>4. Computed # {}
  <2>1. PICK r \in Range(roots) : graph[r].inputs # << >>
    BY <1>1 DEF SweepNeeded
  <2>2. r \in Nodes(graph)
    BY <2>1, RangesAreNodes DEF LowerInv
  <2> QED BY <2>1, <2>2, NodeFacts DEF LowerInv
<1>5. VisitedAreKnown'
  BY <1>1, <1>2, SameGraph DEF LowerInv, Complete, VisitedAreKnown
<1>6. UnusedLeavesAreRoots'
  BY <1>1, <1>2, <1>4, SameGraph DEF LowerInv, Complete, UnusedLeavesAreRoots
<1>7. OperandsAhead'
  BY <1>1, NoFramesBetweenKernels DEF LowerInv, OperandsAhead
<1>8. NoneForgotten' /\ ComputedAreStored' /\ LoadsAreKept'
  BY <1>1, <1>3, KnownKept, TensorsKept DEF LowerInv, Complete
<1>9. Outcome'
  BY <1>1 DEF Outcome
<1> QED BY <1>1, <1>5, <1>6, <1>7, <1>8, <1>9 DEF LowerInv, Complete

LEMMA SkipRootCompletes ==
  ASSUME LowerInv, SkipRoot, IndInv'
  PROVE  LowerInv'
<1>1. /\ kernel = NoKernel /\ todo # << >> /\ status = "lowering"
      /\ Head(todo) \in Range(resolved) /\ todo' = Tail(todo)
      /\ UNCHANGED << graph, saved, roots, resolved, kernel, stack, visited, stable, chain, status >>
  BY DEF SkipRoot, BetweenKernels
<1>2. Range(todo) = {Head(todo)} \cup Range(todo')
  <2>1. todo \in Seq(Nodes(graph))
    BY DEF LowerInv, IndInv, TypeOK
  <2> QED BY <1>1, <2>1, PoppedRange
<1>3. Known' = Known /\ WrittenSoFar' = WrittenSoFar /\ ReadSoFar' = ReadSoFar
  BY <1>1, <1>2 DEF WrittenSoFar, ReadSoFar, Known, WrittenBy, ReadBy, KernelsOf, NoKernel
<1>4. VisitedAreKnown'
  BY <1>1, <1>2, SameGraph DEF LowerInv, Complete, VisitedAreKnown
<1>5. UnusedLeavesAreRoots'
  BY <1>1, <1>2, SameGraph DEF LowerInv, Complete, UnusedLeavesAreRoots
<1>6. OperandsAhead'
  BY <1>1, NoFramesBetweenKernels DEF LowerInv, OperandsAhead
<1>7. NoneForgotten' /\ ComputedAreStored' /\ LoadsAreKept'
  BY <1>1, <1>3, KnownKept, TensorsKept DEF LowerInv, Complete
<1>8. Outcome'
  BY <1>1 DEF Outcome
<1> QED BY <1>1, <1>4, <1>5, <1>6, <1>7, <1>8 DEF LowerInv, Complete

LEMMA StartKernelCompletes ==
  ASSUME LowerInv, StartKernel, IndInv'
  PROVE  LowerInv'
<1> DEFINE root == Head(todo)
<1>1. /\ kernel = NoKernel /\ todo # << >> /\ status = "lowering"
      /\ UNCHANGED << graph, saved, roots, todo, resolved, chain >>
  BY DEF StartKernel, BetweenKernels
<1>2. root \in Range(todo) /\ root \in Nodes(graph) /\ root # 0
  <2>1. todo \in Seq(Nodes(graph))
    BY DEF LowerInv, IndInv, TypeOK
  <2>2. root \in Range(todo)
    BY <1>1, <2>1, PoppedRange
  <2> QED BY <2>2, RangesAreNodes, NodeFacts DEF LowerInv
<1>3. CASE graph[root].shape = << >>
  <2>1. status' = "panicked" /\ UNCHANGED << kernel, stack, visited, stable >>
    BY <1>3 DEF StartKernel
  <2>2. root \in UnusedLeaves /\ Computed # {}
    BY <1>1, <1>2, <1>3, NodeFacts DEF LowerInv, Complete, UnusedLeavesAreRoots
  <2>3. ~Lowerable
    BY <2>2 DEF Lowerable, UnusedLeaves
  <2>4. Outcome'
    BY <1>1, <2>1, <2>3, SameGraph DEF Outcome
  <2> QED BY <1>1, <2>1, <2>4, StatusOnly
<1>4. CASE graph[root].shape # << >>
  <2>1. /\ kernel' = NewKernel(graph, root) /\ stack' = << Visit(root) >>
        /\ visited' = << >> /\ stable' = TRUE /\ status' = status
    BY <1>4 DEF StartKernel
  <2>2. kernel' # NoKernel /\ kernel'.reads = {} /\ kernel'.writes = {}
    <3>1. kernel'.root = root /\ kernel'.reads = {} /\ kernel'.writes = {}
      BY <2>1 DEF NewKernel
    <3> QED BY <1>2, <3>1 DEF NoKernel
  <2>3. WrittenSoFar' = WrittenSoFar /\ ReadSoFar' = ReadSoFar
    BY <1>1, <2>2 DEF WrittenSoFar, ReadSoFar, WrittenBy, ReadBy, KernelsOf
  <2>4. Known \subseteq Known' /\ Range(visited') = {}
    BY <1>1, <2>1 DEF LowerInv, Complete, VisitedAreKnown, Known, Range
  <2>5. VisitedAreKnown'
    BY <2>2, <2>4 DEF VisitedAreKnown
  <2>6. NoneForgotten' /\ ComputedAreStored' /\ LoadsAreKept'
    BY <1>1, <2>3, <2>4, KnownKept, TensorsKept DEF LowerInv, Complete
  <2>7. DOMAIN stack' = {1} /\ stack'[1] = Visit(root) /\ Range(stack') = {Visit(root)}
        /\ Visit(root).do = "visit" /\ Visit(root).node = root
    BY <2>1 DEF Visit, Range
  <2>8. OperandsAhead'
    BY <2>7 DEF OperandsAhead
  <2>9. root \in UnusedLeaves => graph[root].op = "input"
    <3>1. graph[root].op # "const"
      BY <1>2, <1>4, NodeFacts DEF LowerInv
    <3>2. root \in UnusedLeaves => is_leaf(graph[root].op)
      BY <1>2, NodeFacts DEF UnusedLeaves, LowerInv
    <3> QED BY <1>2, <3>1, <3>2, NodeFacts, ComputeFacts DEF LowerInv
  <2>10. UnusedLeavesAreRoots'
    BY <1>1, <2>7, <2>9, SameGraph DEF LowerInv, Complete, UnusedLeavesAreRoots
  <2>11. Outcome'
    BY <1>1, <2>1 DEF Outcome
  <2> QED BY <1>1, <2>5, <2>6, <2>8, <2>10, <2>11 DEF LowerInv, Complete
<1> QED BY <1>3, <1>4

LEMMA FinishKernelCompletes ==
  ASSUME LowerInv, FinishKernel, IndInv'
  PROVE  LowerInv'
<1> DEFINE root == kernel.root
           fresh == Nodes(graph) \ (Range(roots) \cup {root})
<1>1. /\ kernel # NoKernel /\ stack = << >> /\ status = "lowering"
      /\ roots' = PushAll(roots, visited, fresh)
      /\ todo' = Tail(todo) /\ kernel' = NoKernel
      /\ UNCHANGED << graph, saved, resolved, stack, visited, stable, status >>
  BY DEF FinishKernel
<1>2. root = Head(todo) /\ todo # << >> /\ root \in Range(resolved)
  BY <1>1 DEF LowerInv, IndInv, KernelIsNew, RootIsPending
<1>3. /\ Range(todo) = {root} \cup Range(todo')
      /\ Range(roots') = Range(roots) \cup (Range(visited) \cap fresh)
      /\ Range(visited) \subseteq Nodes(graph)
  <2>1. /\ todo \in Seq(Nodes(graph)) /\ roots \in Seq(Nodes(graph))
        /\ visited \in Seq(Nodes(graph))
    BY DEF LowerInv, IndInv, TypeOK
  <2>2. Range(todo) = {root} \cup Range(todo')
    BY <1>1, <1>2, <2>1, PoppedRange
  <2> HIDE DEF fresh
  <2>3. Range(roots') = Range(roots) \cup (Range(visited) \cap fresh)
    BY <1>1, <2>1, PushAllType
  <2> QED BY <2>2, <2>3, RangesAreNodes DEF LowerInv
<1>4. WrittenSoFar' = WrittenSoFar /\ ReadSoFar' = ReadSoFar
  <2>1. KernelsOf(chain') = KernelsOf(chain) \cup {kernel}
    <3> DEFINE n == Len(chain)
    <3>1. /\ n \in Nat /\ DOMAIN chain = 1 .. n /\ DOMAIN chain' = 1 .. n + 1
          /\ chain'[n + 1] = [kernel |-> kernel, dep |-> {}]
          /\ \A i \in 1 .. n : chain'[i].kernel = chain[i].kernel
      BY ChainGrows DEF LowerInv
    <3>2. chain'[n + 1].kernel = kernel
      BY <3>1
    <3> HIDE DEF n
    <3>3. \A i \in 1 .. n + 1 : i = n + 1 \/ i \in 1 .. n
      BY <3>1
    <3>4. n + 1 \in 1 .. n + 1 /\ \A i \in 1 .. n : i \in 1 .. n + 1
      BY <3>1
    <3> QED BY <3>1, <3>2, <3>3, <3>4 DEF KernelsOf
  <2> QED BY <1>1, <2>1 DEF WrittenSoFar, ReadSoFar, WrittenBy, ReadBy
<1>5. Known \subseteq Known'
  BY <1>1, <1>2, <1>3 DEF Known
<1>6. VisitedAreKnown'
  BY <1>1, <1>2, <1>3, SameGraph DEF LowerInv, Complete, VisitedAreKnown
<1>7. NoneForgotten' /\ ComputedAreStored' /\ LoadsAreKept'
  BY <1>1, <1>4, <1>5, KnownKept, TensorsKept DEF LowerInv, Complete
<1>8. DOMAIN stack' = {} /\ Range(stack') = {}
  BY <1>1 DEF Range
<1>9. OperandsAhead'
  BY <1>8 DEF OperandsAhead
<1>10. UnusedLeavesAreRoots'
  <2>1. Range(visited) \subseteq Computed
    BY DEF LowerInv, Complete, VisitedAreKnown
  <2>2. UnusedLeaves \subseteq (Range(roots') \cup Range(todo')) \ Range(resolved)
    BY <1>2, <1>3 DEF LowerInv, Complete, UnusedLeavesAreRoots
  <2>3. /\ (Range(roots') \cup Range(todo')) \ Computed \subseteq UnusedLeaves
        /\ Range(roots') \subseteq Computed \/ Sinks(graph) \subseteq Range(roots')
        /\ Computed # {}
    BY <1>2, <1>3, <2>1 DEF LowerInv, Complete, UnusedLeavesAreRoots
  <2> QED BY <1>1, <1>8, <2>2, <2>3, SameGraph DEF UnusedLeavesAreRoots
<1>11. Outcome'
  BY <1>1 DEF Outcome
<1> QED BY <1>1, <1>6, <1>7, <1>9, <1>10, <1>11 DEF LowerInv, Complete

-----------------------------------------------------------------------------
(* The frames of the evaluation. *)

\* What an evaluation step has to show.
LEMMA EvalCompletes ==
  ASSUME LowerInv, IndInv', kernel # NoKernel, status = "lowering",
         UNCHANGED << graph, saved, roots, todo, resolved, chain, status >>,
         IsKernel(kernel'), kernel'.root = kernel.root,
         Range(visited) \subseteq Range(visited'), Range(visited') \subseteq Range(visited) \cup Computed,
         kernel.writes \subseteq kernel'.writes,
         \A t \in kernel'.reads : t \in kernel.reads \/ Loadable(t),
         \A f \in Range(stack') : f \in Range(stack) \/ f.node \notin UnusedLeaves,
         OperandsAhead'
  PROVE  LowerInv'
<1>1. kernel' # NoKernel
  <2>1. kernel.root = Head(todo) /\ todo # << >> /\ todo \in Seq(Nodes(graph))
    BY DEF LowerInv, IndInv, KernelIsNew, TypeOK
  <2>2. kernel.root \in Nodes(graph)
    BY <2>1, Popped
  <2> QED BY <2>2, NodeFacts DEF LowerInv, NoKernel
<1>2. Known \subseteq Known'
  BY DEF Known
<1>3. WrittenSoFar \subseteq WrittenSoFar' /\ \A t \in ReadSoFar' : t \in ReadSoFar \/ Loadable(t)
  BY <1>1 DEF WrittenSoFar, ReadSoFar, WrittenBy, ReadBy, KernelsOf
<1>4. VisitedAreKnown'
  BY <1>1, SameGraph DEF LowerInv, Complete, VisitedAreKnown
<1>5. NoneForgotten' /\ ComputedAreStored' /\ LoadsAreKept'
  BY <1>2, <1>3, KnownKept, TensorsKept DEF LowerInv, Complete
<1>6. UnusedLeavesAreRoots'
  BY SameGraph DEF LowerInv, Complete, UnusedLeavesAreRoots
<1>7. Outcome'
  BY DEF Outcome
<1> QED BY <1>4, <1>5, <1>6, <1>7 DEF LowerInv, Complete

\* A node with operands is recorded as visited.
LEMMA VisitedRange ==
  ASSUME IndInv, node \in Nodes(graph), graph[node].inputs # << >>
  PROVE  Range(Visited) = Range(visited) \cup {node}
<1>1. visited \in Seq(Nodes(graph))
  BY DEF IndInv, TypeOK
<1> QED BY <1>1, PushNewType DEF Visited

\* The frames below the one that is run still find their operands ahead, unless it was one.
LEMMA RestAhead ==
  ASSUME LowerInv, NEW do, Running(do),
         NEW k \in DOMAIN Tail(stack), Tail(stack)[k].do = "finish",
         NEW m \in Range(graph[Tail(stack)[k].node].inputs) \cap Computed
  PROVE  \/ m \in Range(visited) \/ Head(stack) = Visit(m)
         \/ \E j \in 1 .. k - 1 : Tail(stack)[j] = Visit(m)
<1>1. stack \in Seq(Frame) /\ stack # << >>
  BY DEF LowerInv, IndInv, TypeOK, Running
<1>2. k + 1 \in DOMAIN stack /\ Tail(stack)[k] = stack[k + 1] /\ k \in Nat
  <2>1. DOMAIN Tail(stack) \subseteq Nat
    BY <1>1, Popped
  <2> QED BY <1>1, <2>1, PoppedRange
<1>3. m \in Range(visited) \/ \E j \in 1 .. (k + 1) - 1 : stack[j] = Visit(m)
  BY <1>2 DEF LowerInv, Complete, OperandsAhead
<1>4. (k + 1) - 1 = k
  BY <1>2
<1>5. ASSUME Head(stack) # Visit(m), \E j \in 1 .. k : stack[j] = Visit(m)
      PROVE  \E j \in 1 .. k - 1 : Tail(stack)[j] = Visit(m)
  <2> DEFINE f == Visit(m)
  <2> HIDE DEF f
  <2> QED BY <1>1, <1>5, AheadAfterPop DEF f
<1> QED BY <1>3, <1>4, <1>5

LEMMA RunningKernel ==
  ASSUME LowerInv, NEW do, Running(do)
  PROVE  /\ kernel # NoKernel /\ IsKernel(kernel) /\ status = "lowering"
         /\ stack \in Seq(Frame) /\ stack # << >> /\ Tail(stack) \in Seq(Frame)
         /\ Head(stack) \in Range(stack) /\ Range(Tail(stack)) \subseteq Range(stack)
         /\ Head(stack).do = do /\ node \in Nodes(graph)
         /\ Computed # {}
<1>1. stack \in Seq(Frame) /\ stack # << >> /\ status = "lowering"
  BY DEF LowerInv, IndInv, TypeOK, Running
<1>2. Head(stack) \in Range(stack) /\ Range(Tail(stack)) \subseteq Range(stack)
  BY <1>1, PoppedRange
<1>3. kernel # NoKernel /\ node \in Nodes(graph) /\ Tail(stack) \in Seq(Frame) /\ Head(stack).do = do
  BY RunningFacts DEF LowerInv
<1>4. IsKernel(kernel) /\ todo # << >>
  BY <1>3 DEF LowerInv, IndInv, KernelIsNew
<1>5. Computed # {}
  BY <1>4 DEF LowerInv, Complete, UnusedLeavesAreRoots
<1> QED BY <1>1, <1>2, <1>3, <1>4, <1>5

LEMMA VisitLeafCompletes ==
  ASSUME LowerInv, VisitLeaf, IndInv'
  PROVE  LowerInv'
<1>1. Running("visit") /\ is_leaf(graph[node].op)
  BY DEF VisitLeaf
<1>2. /\ kernel # NoKernel /\ IsKernel(kernel) /\ status = "lowering"
      /\ stack \in Seq(Frame) /\ stack # << >> /\ Tail(stack) \in Seq(Frame)
      /\ Head(stack) \in Range(stack) /\ Range(Tail(stack)) \subseteq Range(stack)
      /\ node \in Nodes(graph) /\ Computed # {}
  BY <1>1, RunningKernel
<1>3. node \notin Computed
  BY <1>1 DEF Computed
<1>4. CASE graph[node].op = "input" /\ ~HasInputParam(node)
  <2>1. /\ status' = "failed"
        /\ UNCHANGED << graph, saved, roots, todo, resolved, kernel, stack, visited, stable, chain >>
    BY <1>4 DEF VisitLeaf, Fail
  <2>2. node \in Sinks(graph)
    BY <1>2, <1>4 DEF HasInputParam, Sinks, IsSink
  <2>3. ~Lowerable
    BY <1>2, <1>3, <2>2 DEF Lowerable
  <2>4. Outcome'
    BY <2>1, <2>3, SameGraph DEF Outcome
  <2> QED BY <2>1, <2>4, StatusOnly
<1>5. CASE ~(graph[node].op = "input" /\ ~HasInputParam(node))
  <2>1. /\ kernel' = IF graph[node].op = "input" THEN Load(Seen, In(node)) ELSE Seen
        /\ stack' = << Finish(node) >> \o Tail(stack)
        /\ UNCHANGED << graph, saved, roots, todo, resolved, visited, stable, chain, status >>
    BY <1>5 DEF VisitLeaf
  <2>2. IsKernel(kernel') /\ kernel'.root = kernel.root
    BY <1>2, <2>1, SeenFacts, KernelFacts DEF LowerInv
  <2>3. /\ kernel.writes \subseteq kernel'.writes
        /\ \A t \in kernel'.reads : t \in kernel.reads \/ Loadable(t)
    <3>1. IsKernel(Seen) /\ Seen.writes = kernel.writes /\ Seen.reads = kernel.reads
      BY <1>2, SeenFacts, KernelTensors DEF LowerInv, Seen
    <3>2. graph[node].op = "input" => Loadable(In(node))
      BY <1>2 DEF Loadable
    <3> QED BY <2>1, <3>1, <3>2, KernelTensors
  <2>4. node \notin UnusedLeaves
    <3>1. node \in UnusedLeaves => graph[node].op = "input"
      BY <1>2 DEF LowerInv, Complete, UnusedLeavesAreRoots, node
    <3> QED BY <1>5, <3>1 DEF HasInputParam, UnusedLeaves, Sinks, IsSink
  <2> DEFINE end == Finish(node)
             rest == Tail(stack)
             none == << >>
  <2>5. end \in Frame /\ end.node = node /\ rest \in Seq(Frame)
    BY <1>2 DEF Frame, Finish
  <2>6. /\ stack' = none \o << end >> \o rest /\ none \in Seq(Frame) /\ Len(none) = 0
        /\ Range(none) = {}
    <3>1. << end >> \in Seq(Frame)
      BY <2>5
    <3>2. << >> \o << end >> = << end >>
      BY <3>1
    <3> QED BY <2>1, <3>2 DEF Range
  <2> HIDE DEF end, rest, none
  <2>7. /\ DOMAIN stack' = 1 .. Len(none) + 1 + Len(rest) /\ stack'[Len(none) + 1] = end
        /\ Len(rest) \in Nat /\ DOMAIN rest = 1 .. Len(rest)
        /\ \A k \in 1 .. Len(rest) : stack'[Len(none) + 1 + k] = rest[k]
        /\ Range(stack') = Range(none) \cup {end} \cup Range(rest)
    <3> DEFINE next == none \o << end >> \o rest
    <3>1. /\ DOMAIN next = 1 .. Len(none) + 1 + Len(rest) /\ next[Len(none) + 1] = end
          /\ Len(rest) \in Nat /\ DOMAIN rest = 1 .. Len(rest)
          /\ \A k \in 1 .. Len(rest) : next[Len(none) + 1 + k] = rest[k]
          /\ Range(next) = Range(none) \cup {end} \cup Range(rest)
      <4>1. end \in Frame /\ rest \in Seq(Frame) /\ none \in Seq(Frame)
        BY <2>5, <2>6
      <4> HIDE DEF Frame
      <4> QED BY <4>1, FramesPushed
    <3>2. stack' = next
      BY <2>6
    <3> HIDE DEF next
    <3> QED BY <3>1, <3>2
  <2>8. \A f \in Range(stack') : f \in Range(stack) \/ f.node \notin UnusedLeaves
    BY <1>2, <2>4, <2>5, <2>6, <2>7 DEF rest
  <2>9. OperandsAhead'
    <3> SUFFICES ASSUME NEW i \in DOMAIN stack', stack'[i].do = "finish",
                        NEW m \in Range(graph[stack'[i].node].inputs) \cap Computed
                 PROVE  m \in Range(visited) \/ \E j \in 1 .. i - 1 : stack'[j] = Visit(m)
      BY <2>1, SameGraph DEF OperandsAhead, Visit
    <3>1. CASE i = 1
      <4>1. stack'[i].node = node
        BY <2>5, <2>6, <2>7, <3>1
      <4>2. graph[node].inputs = << >> /\ Range(<< >>) = {}
        BY <1>2, <1>3, NodeFacts DEF LowerInv, Range
      <4> QED BY <4>1, <4>2
    <3>2. CASE i # 1
      <4> DEFINE k == i - 1
      <4>1. k \in 1 .. Len(rest) /\ i = Len(none) + 1 + k /\ i - 1 = k
        BY <2>6, <2>7, <3>2
      <4> HIDE DEF k
      <4>2. k \in DOMAIN rest /\ rest[k].do = "finish"
            /\ m \in Range(graph[rest[k].node].inputs) \cap Computed
        BY <2>7, <4>1
      <4>3. Head(stack) # Visit(m)
        <5>1. m # node
          BY <1>3
        <5> QED BY <5>1 DEF node, Visit
      <4>4. m \in Range(visited) \/ \E j \in 1 .. k - 1 : rest[j] = Visit(m)
        BY <1>1, <4>2, <4>3, RestAhead DEF rest
      <4>5. ASSUME NEW j \in 1 .. k - 1, rest[j] = Visit(m)
            PROVE  \E h \in 1 .. i - 1 : stack'[h] = Visit(m)
        <5>1. j \in 1 .. Len(rest) /\ Len(none) + 1 + j \in 1 .. i - 1
          BY <2>6, <2>7, <4>1
        <5> QED BY <2>7, <4>5, <5>1
      <4> QED BY <4>4, <4>5
    <3> QED BY <3>1, <3>2
  <2> QED BY <1>2, <2>1, <2>2, <2>3, <2>8, <2>9, EvalCompletes
<1> QED BY <1>4, <1>5

LEMMA VisitSplitCompletes ==
  ASSUME LowerInv, VisitSplit, IndInv'
  PROVE  LowerInv'
<1>1. Running("visit") /\ ~is_leaf(graph[node].op) /\ MustSplit
  BY DEF VisitSplit
<1>2. /\ kernel # NoKernel /\ IsKernel(kernel) /\ status = "lowering"
      /\ stack \in Seq(Frame) /\ stack # << >> /\ Tail(stack) \in Seq(Frame)
      /\ Range(Tail(stack)) \subseteq Range(stack) /\ node \in Nodes(graph)
  BY <1>1, RunningKernel
<1>3. node \in Computed /\ graph[node].inputs # << >>
  BY <1>1, <1>2, NodeFacts DEF LowerInv
<1>4. HasSavedParam(node)
  <2>1. graph[node].op \in OpNames
    BY <1>2, NodeFacts DEF LowerInv
  <2>2. ~DimsInvalid(graph, resolved, node)
    <3>1. IsGraph(graph) /\ resolved \in Seq(Nodes(graph))
      BY GraphFacts DEF LowerInv, IndInv, TypeOK
    <3> QED BY <3>1, DimsValid
  <2>3. attr.computes_gid
    BY <1>1, <2>1, OpFacts DEF attr, is_leaf
  <2>4. is_transform(graph[node].op)
    BY <1>1, <2>2, <2>3 DEF MustSplit, attr, is_transform
  <2> QED BY <1>2, <2>4, TransformsAreKept DEF LowerInv, Complete
<1>5. /\ kernel' = Load(Seen, SavedParam(node))
      /\ stack' = Tail(stack) /\ visited' = Visited
      /\ UNCHANGED << graph, saved, roots, todo, resolved, stable, chain, status >>
  BY <1>4 DEF VisitSplit
<1>6. IsKernel(kernel') /\ kernel'.root = kernel.root
  BY <1>2, <1>5, SeenFacts, KernelFacts DEF LowerInv
<1>7. /\ kernel.writes \subseteq kernel'.writes
      /\ \A t \in kernel'.reads : t \in kernel.reads \/ Loadable(t)
  <2>1. IsKernel(Seen) /\ Seen.writes = kernel.writes /\ Seen.reads = kernel.reads
    BY <1>2, SeenFacts, KernelTensors DEF LowerInv, Seen
  <2>2. Loadable(SavedParam(node))
    BY <1>3, <1>4 DEF Loadable
  <2> QED BY <1>5, <2>1, <2>2, KernelTensors
<1>8. Range(visited') = Range(visited) \cup {node}
  BY <1>2, <1>3, <1>5, VisitedRange DEF LowerInv
<1>9. OperandsAhead'
  <2> SUFFICES ASSUME NEW i \in DOMAIN Tail(stack), Tail(stack)[i].do = "finish",
                      NEW m \in Range(graph[Tail(stack)[i].node].inputs) \cap Computed
               PROVE  m \in Range(visited') \/ \E j \in 1 .. i - 1 : Tail(stack)[j] = Visit(m)
    BY <1>5, SameGraph DEF OperandsAhead, Visit
  <2>1. Head(stack) = Visit(m) => m = node
    BY DEF node, Visit
  <2> QED BY <1>1, <1>8, <2>1, RestAhead
<1> QED BY <1>2, <1>3, <1>5, <1>6, <1>7, <1>8, <1>9, EvalCompletes

LEMMA OperandFrames ==
  ASSUME IndInv, NEW n \in Nodes(graph)
  PROVE  /\ Operands(n) \in Seq(Frame) /\ Len(Operands(n)) = Len(graph[n].inputs)
         /\ \A p \in 1 .. Len(graph[n].inputs) :
              Operands(n)[p] = Visit(graph[n].inputs[p]) /\ Operands(n)[p].do = "visit"
         /\ \A f \in Range(Operands(n)) : f.node \in Range(graph[n].inputs)
<1>1. graph[n].inputs \in Seq(Nodes(graph))
  BY GraphFacts DEF IndInv
<1>2. \A m \in Nodes(graph) : Visit(m) \in Frame /\ Visit(m).do = "visit" /\ Visit(m).node = m
  BY DEF Visit, Frame
<1> DEFINE operands == graph[n].inputs
<1>3. /\ Len(operands) \in Nat /\ DOMAIN operands = 1 .. Len(operands)
      /\ \A p \in 1 .. Len(operands) : operands[p] \in Nodes(graph)
      /\ Operands(n) = [p \in DOMAIN operands |-> Visit(operands[p])]
  BY <1>1 DEF Operands
<1> HIDE DEF operands, Frame
<1>4. /\ DOMAIN Operands(n) = 1 .. Len(operands)
      /\ \A p \in 1 .. Len(operands) : Operands(n)[p] = Visit(operands[p])
  BY <1>3
<1>5. Operands(n) \in Seq(Frame) /\ Len(Operands(n)) = Len(operands)
  BY <1>2, <1>3
<1>6. \A f \in Range(Operands(n)) : f.node \in Range(operands)
  BY <1>2, <1>3, <1>4 DEF Range
<1> QED BY <1>2, <1>3, <1>4, <1>5, <1>6 DEF operands

LEMMA VisitFusedCompletes ==
  ASSUME LowerInv, VisitFused, IndInv'
  PROVE  LowerInv'
<1>1. /\ stack' = Operands(node) \o << Finish(node) >> \o Tail(stack)
      /\ visited' = Visited
      /\ UNCHANGED << graph, saved, roots, todo, resolved, chain, status >>
      /\ Running("visit") /\ ~is_leaf(graph[node].op)
  BY DEF VisitFused
<1>2. /\ kernel # NoKernel /\ IsKernel(kernel) /\ status = "lowering"
      /\ stack \in Seq(Frame) /\ stack # << >> /\ Tail(stack) \in Seq(Frame)
      /\ Range(Tail(stack)) \subseteq Range(stack) /\ node \in Nodes(graph)
  BY <1>1, RunningKernel
<1>3. /\ node \in Computed /\ graph[node].inputs # << >>
      /\ graph[node].inputs \in Seq(Nodes(graph))
      /\ \A m \in Range(graph[node].inputs) : m \notin UnusedLeaves
  BY <1>1, <1>2, NodeFacts DEF LowerInv, UnusedLeaves
<1>4. /\ IsKernel(kernel') /\ kernel'.root = kernel.root
      /\ kernel'.writes = kernel.writes /\ kernel'.reads = kernel.reads
  <2>1. /\ IsKernel(Seen) /\ Seen.root = kernel.root
        /\ Seen.writes = kernel.writes /\ Seen.reads = kernel.reads
    BY <1>2, SeenFacts, KernelTensors DEF LowerInv, Seen
  <2>2. \A y : /\ IsKernel([Seen EXCEPT !.meta = y]) /\ [Seen EXCEPT !.meta = y].root = kernel.root
               /\ [Seen EXCEPT !.meta = y].writes = kernel.writes
               /\ [Seen EXCEPT !.meta = y].reads = kernel.reads
    BY <2>1, KernelFacts, KernelTensors
  <2> DEFINE meta == Seen.meta \cup MatmulMeta(graph[graph[node].inputs[1]].shape,
                                               graph[graph[node].inputs[2]].shape)
  <2>3. kernel' = Seen \/ kernel' = [Seen EXCEPT !.meta = meta]
    BY DEF VisitFused
  <2> HIDE DEF meta
  <2> QED BY <2>1, <2>2, <2>3
<1>5. Range(visited') = Range(visited) \cup {node}
  BY <1>1, <1>2, <1>3, VisitedRange DEF LowerInv
<1> DEFINE operands == Operands(node)
           end == Finish(node)
           rest == Tail(stack)
           L == Len(operands)
<1>6. operands \in Seq(Frame) /\ end \in Frame /\ end.node = node /\ rest \in Seq(Frame)
  BY <1>2, OperandFrames DEF LowerInv, Frame, Finish
<1>7. stack' = operands \o << end >> \o rest
  BY <1>1
<1>8. /\ L = Len(graph[node].inputs)
      /\ \A p \in 1 .. L : operands[p] = Visit(graph[node].inputs[p]) /\ operands[p].do = "visit"
      /\ \A f \in Range(operands) : f.node \notin UnusedLeaves
  BY <1>2, <1>3, OperandFrames DEF LowerInv
<1> HIDE DEF operands, end, rest
<1>9. /\ DOMAIN stack' = 1 .. L + 1 + Len(rest) /\ stack'[L + 1] = end
      /\ L \in Nat /\ Len(rest) \in Nat /\ DOMAIN rest = 1 .. Len(rest)
      /\ \A k \in 1 .. L : stack'[k] = operands[k]
      /\ \A k \in 1 .. Len(rest) : stack'[L + 1 + k] = rest[k]
      /\ Range(stack') = Range(operands) \cup {end} \cup Range(rest)
  <2> DEFINE next == operands \o << end >> \o rest
  <2>1. /\ DOMAIN next = 1 .. L + 1 + Len(rest) /\ next[L + 1] = end
        /\ L \in Nat /\ Len(rest) \in Nat /\ DOMAIN rest = 1 .. Len(rest)
        /\ \A k \in 1 .. L : next[k] = operands[k]
        /\ \A k \in 1 .. Len(rest) : next[L + 1 + k] = rest[k]
        /\ Range(next) = Range(operands) \cup {end} \cup Range(rest)
    <3>1. end \in Frame /\ rest \in Seq(Frame) /\ operands \in Seq(Frame)
      BY <1>6
    <3> HIDE DEF Frame
    <3> QED BY <3>1, FramesPushed
  <2>2. stack' = next
    BY <1>7
  <2> HIDE DEF next, L
  <2> QED BY <2>1, <2>2
<1> HIDE DEF L
<1>10. \A f \in Range(stack') : f \in Range(stack) \/ f.node \notin UnusedLeaves
  <2>1. node \notin UnusedLeaves
    BY <1>3 DEF UnusedLeaves
  <2> QED BY <1>2, <1>6, <1>8, <1>9, <2>1 DEF rest
<1>11. OperandsAhead'
  <2> SUFFICES ASSUME NEW i \in DOMAIN stack', stack'[i].do = "finish",
                      NEW m \in Range(graph[stack'[i].node].inputs) \cap Computed
               PROVE  m \in Range(visited') \/ \E j \in 1 .. i - 1 : stack'[j] = Visit(m)
    BY <1>1, SameGraph DEF OperandsAhead, Visit
  <2>1. CASE i \in 1 .. L
    BY <1>8, <1>9, <2>1
  <2>2. CASE i = L + 1
    <3>1. m \in Range(graph[node].inputs)
      BY <1>6, <1>9, <2>2
    <3>2. PICK p \in 1 .. L : graph[node].inputs[p] = m
      BY <1>3, <1>8, <3>1 DEF Range
    <3>3. p \in 1 .. i - 1 /\ stack'[p] = Visit(m)
      BY <1>8, <1>9, <2>2, <3>2
    <3> QED BY <3>3
  <2>3. CASE i \notin 1 .. L /\ i # L + 1
    <3> DEFINE k == i - L - 1
    <3>1. k \in 1 .. Len(rest) /\ i = L + 1 + k /\ k \in DOMAIN rest
      <4>1. i \in 1 .. L + 1 + Len(rest) /\ L \in Nat /\ Len(rest) \in Nat
            /\ DOMAIN rest = 1 .. Len(rest)
        BY <1>9
      <4> DEFINE size == Len(rest)
      <4>2. size = Len(rest)
        OBVIOUS
      <4> HIDE DEF size
      <4>3. k \in 1 .. size /\ i = L + 1 + k
        BY <2>3, <4>1, <4>2
      <4> QED BY <4>1, <4>2, <4>3
    <3> HIDE DEF k
    <3>2. k \in DOMAIN rest /\ rest[k].do = "finish"
          /\ m \in Range(graph[rest[k].node].inputs) \cap Computed
      BY <1>9, <3>1
    <3>3. Head(stack) = Visit(m) => m = node
      BY DEF node, Visit
    <3>4. m \in Range(visited') \/ \E j \in 1 .. k - 1 : rest[j] = Visit(m)
      BY <1>1, <1>5, <3>2, <3>3, RestAhead DEF rest
    <3>5. ASSUME NEW j \in 1 .. k - 1, rest[j] = Visit(m)
          PROVE  \E h \in 1 .. i - 1 : stack'[h] = Visit(m)
      <4>1. j \in 1 .. Len(rest) /\ L + 1 + j \in 1 .. i - 1
        BY <1>9, <3>1
      <4> QED BY <1>9, <3>5, <4>1
    <3> QED BY <3>4, <3>5
  <2> QED BY <2>1, <2>2, <2>3
<1> QED BY <1>1, <1>2, <1>3, <1>4, <1>5, <1>10, <1>11, EvalCompletes

LEMMA FinishNodeCompletes ==
  ASSUME LowerInv, FinishNode, IndInv'
  PROVE  LowerInv'
<1>1. Running("finish")
  BY DEF FinishNode
<1>2. /\ kernel # NoKernel /\ IsKernel(kernel) /\ status = "lowering"
      /\ stack \in Seq(Frame) /\ stack # << >> /\ Tail(stack) \in Seq(Frame)
      /\ Head(stack) \in Range(stack) /\ Range(Tail(stack)) \subseteq Range(stack)
      /\ Head(stack).do = "finish" /\ node \in Nodes(graph)
  BY <1>1, RunningKernel
<1>3. graph[node].op \in OpNames
  BY <1>2, NodeFacts DEF LowerInv
<1>4. CASE attr.save_inner /\ ~HasSavedParam(node)
  <2>1. /\ status' = "failed"
        /\ UNCHANGED << graph, saved, roots, todo, resolved, kernel, stack, visited, stable, chain >>
    BY <1>4 DEF FinishNode, Fail
  <2>2. node \in Computed
    BY <1>2, <1>3, <1>4, ComputeFacts DEF Computed, attr
  <2>3. ~Lowerable
    BY <1>4, <2>2 DEF Lowerable, attr
  <2>4. Outcome'
    BY <2>1, <2>3, SameGraph DEF Outcome
  <2> QED BY <2>1, <2>4, StatusOnly
<1>5. CASE ~(attr.save_inner /\ ~HasSavedParam(node))
  <2>1. /\ kernel' = IF Stores THEN Keep ELSE kernel
        /\ resolved' = PushNew(resolved, node)
        /\ stack' = Tail(stack)
        /\ UNCHANGED << graph, saved, roots, todo, visited, stable, chain, status >>
    BY <1>5 DEF FinishNode
  <2>2. Range(resolved') = Range(resolved) \cup {node}
    <3>1. resolved \in Seq(Nodes(graph))
      BY DEF LowerInv, IndInv, TypeOK
    <3> QED BY <1>2, <2>1, <3>1, PushNewType
  <2>3. kernel'.root = kernel.root
    BY <1>2, <2>1, KeepFacts
  <2>4. kernel' # NoKernel
    <3>1. kernel.root = Head(todo) /\ todo # << >> /\ todo \in Seq(Nodes(graph))
      BY <1>2 DEF LowerInv, IndInv, KernelIsNew, TypeOK
    <3>2. kernel.root \in Nodes(graph)
      BY <3>1, Popped
    <3> QED BY <2>3, <3>2, NodeFacts DEF LowerInv, NoKernel
  <2>5. /\ kernel'.reads = kernel.reads /\ kernel.writes \subseteq kernel'.writes
        /\ Stores => SavedParam(node) \in kernel'.writes
    BY <1>2, <2>1, KeepFacts
  <2>6. Known \subseteq Known'
    BY <2>1, <2>2 DEF Known
  <2>7. VisitedAreKnown'
    BY <2>1, <2>4, SameGraph DEF LowerInv, Complete, VisitedAreKnown
  <2>8. Range(graph[node].inputs) \cap Computed \subseteq Range(visited)
    <3>1. 1 \in DOMAIN stack /\ stack[1] = Head(stack)
      BY <1>2
    <3>2. 1 .. 1 - 1 = {}
      OBVIOUS
    <3> QED BY <1>2, <3>1, <3>2 DEF LowerInv, Complete, OperandsAhead, node
  <2>9. NoneForgotten'
    <3>1. Sinks(graph) \cap Computed \subseteq Known'
      BY <2>6 DEF LowerInv, Complete, NoneForgotten
    <3>2. \A n \in Range(resolved') : Range(graph[n].inputs) \cap Computed \subseteq Known'
      <4>1. Range(graph[node].inputs) \cap Computed \subseteq Known
        BY <2>8 DEF Known
      <4> QED BY <2>2, <2>6, <4>1 DEF LowerInv, Complete, NoneForgotten
    <3> QED BY <2>1, <3>1, <3>2, SameGraph DEF NoneForgotten
  <2>10. OperandsAhead'
    <3> SUFFICES ASSUME NEW i \in DOMAIN Tail(stack), Tail(stack)[i].do = "finish",
                        NEW m \in Range(graph[Tail(stack)[i].node].inputs) \cap Computed
                 PROVE  m \in Range(visited) \/ \E j \in 1 .. i - 1 : Tail(stack)[j] = Visit(m)
      BY <2>1, SameGraph DEF OperandsAhead, Visit
    <3>1. Head(stack) # Visit(m)
      BY <1>2 DEF Visit
    <3> QED BY <1>1, <3>1, RestAhead
  <2>11. WrittenSoFar \subseteq WrittenSoFar' /\ kernel'.writes \subseteq WrittenSoFar'
         /\ ReadSoFar' = ReadSoFar
    BY <1>2, <2>1, <2>4, <2>5 DEF WrittenSoFar, ReadSoFar, WrittenBy, ReadBy, KernelsOf
  <2>12. LoadsAreKept'
    BY <2>1, <2>11, SameGraph DEF LowerInv, Complete, LoadsAreKept
  <2>13. ComputedAreStored'
    <3>1. ASSUME node \in Computed
          PROVE  /\ Op[graph[node].op].save_inner => HasSavedParam(node)
                 /\ HasSavedParam(node) => SavedParam(node) \in WrittenSoFar'
      <4>1. attr.auto_save \/ attr.save_inner
        BY <1>3, <3>1, ComputeFacts DEF Computed, attr
      <4> QED BY <1>5, <2>5, <2>11, <4>1 DEF Stores, attr
    <3>2. \A n \in Range(resolved') \cap Computed :
            /\ Op[graph[n].op].save_inner => HasSavedParam(n)
            /\ HasSavedParam(n) => SavedParam(n) \in WrittenSoFar'
      BY <2>2, <2>11, <3>1 DEF LowerInv, Complete, ComputedAreStored
    <3> QED BY <2>1, <3>2, SameGraph DEF ComputedAreStored
  <2>14. UnusedLeavesAreRoots'
    <3>1. node \notin UnusedLeaves
      BY <1>2 DEF LowerInv, Complete, UnusedLeavesAreRoots, node
    <3> QED BY <1>2, <2>1, <2>2, <3>1, SameGraph DEF LowerInv, Complete, UnusedLeavesAreRoots
  <2>15. Outcome'
    BY <1>2, <2>1 DEF Outcome
  <2> QED BY <2>1, <2>7, <2>9, <2>10, <2>12, <2>13, <2>14, <2>15 DEF LowerInv, Complete
<1> QED BY <1>4, <1>5

-----------------------------------------------------------------------------
LEMMA LowerInit == Init => LowerInv
<1> SUFFICES ASSUME Init PROVE LowerInv
  OBVIOUS
<1>1. IndInv
  BY InitInv
<1>2. Range(roots) = Sinks(graph)
  <2>1. IsGraph(graph) /\ Len(graph) \in Nat
    BY <1>1, GraphFacts DEF IndInv
  <2>2. Sinks(graph) \in SUBSET (1 .. Len(graph))
    BY DEF Sinks, Nodes
  <2> QED BY <2>1, <2>2, AscendingRange DEF Init
<1>3. /\ Range(todo) = {} /\ Range(resolved) = {} /\ Range(visited) = {} /\ Range(stack) = {}
      /\ DOMAIN stack = {} /\ DOMAIN chain = {} /\ kernel = NoKernel /\ todo = << >>
  BY DEF Init, Range
<1>4. ReadSoFar = {}
  BY <1>3 DEF ReadSoFar, ReadBy, KernelsOf
<1>5. VisitedAreKnown /\ NoneForgotten /\ OperandsAhead /\ ComputedAreStored /\ LoadsAreKept
  BY <1>2, <1>3, <1>4
     DEF VisitedAreKnown, NoneForgotten, OperandsAhead, ComputedAreStored, LoadsAreKept, Known
<1>6. UnusedLeavesAreRoots
  BY <1>2, <1>3 DEF UnusedLeavesAreRoots, UnusedLeaves
<1>7. Outcome /\ saved = compute_saved_nodes(graph)
  BY DEF Outcome, Init
<1> QED BY <1>1, <1>5, <1>6, <1>7 DEF LowerInv, Complete

LEMMA LowerNext == LowerInv /\ [Next]_vars => LowerInv'
<1> SUFFICES ASSUME LowerInv, [Next]_vars PROVE LowerInv'
  OBVIOUS
<1>1. IndInv'
  BY NextInv DEF LowerInv
<1>2. CASE UNCHANGED vars
  <2>1. Outcome'
    BY <1>2, SameGraph DEF vars, lowerVars, LowerInv, Complete, Outcome, NoKernel
  <2> QED BY <1>1, <1>2, <2>1, StatusOnly DEF vars, lowerVars
<1>3. CASE StartSweep
  BY <1>1, <1>3, StartSweepCompletes
<1>4. CASE Return
  BY <1>1, <1>4, ReturnCompletes
<1>5. CASE SkipRoot
  BY <1>1, <1>5, SkipRootCompletes
<1>6. CASE StartKernel
  BY <1>1, <1>6, StartKernelCompletes
<1>7. CASE FinishKernel
  BY <1>1, <1>7, FinishKernelCompletes
<1>8. CASE EvalNode
  BY <1>1, <1>8, VisitLeafCompletes, VisitSplitCompletes, VisitFusedCompletes, FinishNodeCompletes
     DEF EvalNode
<1> QED BY <1>2, <1>3, <1>4, <1>5, <1>6, <1>7, <1>8 DEF Next

\* lower_forward fails on exactly the graphs it must fail on: those with a leaf that no node uses
\* (but something to compute), or with a gelu of which nobody asked to keep anything.
THEOREM LoweringSucceedsWhenItCan == Spec => []LoweringSucceeds
<1>1. LowerInv => LoweringSucceeds
  BY DEF LowerInv, Complete, Outcome, LoweringSucceeds
<1> QED BY <1>1, LowerInit, LowerNext, PTL DEF Spec

-----------------------------------------------------------------------------
(***************************************************************************)
(* Values and what is kept instead of them.  A tensor that a kernel stores *)
(* for a node whose operation saves itself (auto_save) gets the value of   *)
(* the node, and no other is ever loaded where a kernel is split.          *)
(***************************************************************************)

\* Nodes keep their values apart from one another, and from the inputs.
LEMMA SavedDistinct ==
  \A m, n : /\ SavedParam(m) = SavedParam(n) => m = n
            /\ SavedParam(m) # In(n)
BY DEF SavedParam, Saved, Out, In

AutoSaved(n) == is_auto_save(graph[n].op)

HandlesValues(k) ==
  \A n \in Computed :
    /\ AutoSaved(n) /\ SavedParam(n) \in k.writes => SavedParam(n) \in k.results
    /\ SavedParam(n) \in k.reads => AutoSaved(n)

ValuesInv ==
  /\ LowerInv
  /\ kernel # NoKernel => HandlesValues(kernel)
  /\ \A i \in DOMAIN chain : HandlesValues(chain[i].kernel)

LEMMA SameValues ==
  ASSUME UNCHANGED << graph, saved >>
  PROVE  \A k : HandlesValues(k)' <=> HandlesValues(k)
BY SameGraph DEF HandlesValues, AutoSaved

LEMMA ValuesKept ==
  ASSUME ValuesInv, LowerInv', UNCHANGED << graph, saved, chain >>,
         kernel' # NoKernel => HandlesValues(kernel')
  PROVE  ValuesInv'
BY SameValues DEF ValuesInv, NoKernel

LEMMA VisitValues ==
  ASSUME ValuesInv, LowerInv', VisitLeaf \/ VisitSplit \/ VisitFused
  PROVE  ValuesInv'
<1>1. /\ Running("visit") /\ UNCHANGED << graph, saved, chain >>
  BY DEF VisitLeaf, VisitSplit, VisitFused, Fail
<1>2. /\ kernel # NoKernel /\ IsKernel(kernel) /\ node \in Nodes(graph)
  BY <1>1, RunningKernel DEF ValuesInv
<1>3. /\ IsKernel(Seen) /\ Seen.writes = kernel.writes /\ Seen.reads = kernel.reads
      /\ Seen.results = kernel.results
  BY <1>2, KernelFacts, KernelTensors, KernelResults DEF Seen
<1>4. HandlesValues(kernel) /\ HandlesValues(Seen)
  BY <1>2, <1>3 DEF ValuesInv, HandlesValues
<1>5. ASSUME VisitSplit PROVE AutoSaved(node)
  <2>1. graph[node].op \in OpNames
    BY <1>2, NodeFacts DEF ValuesInv, LowerInv
  <2>2. ~DimsInvalid(graph, resolved, node)
    <3>1. IsGraph(graph) /\ resolved \in Seq(Nodes(graph))
      BY GraphFacts DEF ValuesInv, LowerInv, IndInv, TypeOK
    <3> QED BY <1>2, <3>1, DimsValid
  <2>3. attr.computes_gid
    BY <1>5, <2>1, OpFacts DEF VisitSplit, attr, is_leaf
  <2>4. is_transform(graph[node].op)
    BY <1>5, <2>2, <2>3 DEF VisitSplit, MustSplit, attr, is_transform
  <2> QED BY <2>1, <2>4, ComputeFacts DEF AutoSaved, is_auto_save
<1>6. CASE VisitLeaf
  <2>1. kernel' = kernel \/ kernel' = Seen \/ kernel' = Load(Seen, In(node))
    BY <1>6 DEF VisitLeaf, Fail
  <2>2. HandlesValues(Load(Seen, In(node)))
    BY <1>3, <1>4, KernelTensors, KernelResults, SavedDistinct DEF HandlesValues
  <2> QED BY <1>1, <1>4, <2>1, <2>2, ValuesKept
<1>7. CASE VisitSplit
  <2>1. kernel' = kernel \/ kernel' = Load(Seen, SavedParam(node))
    BY <1>7 DEF VisitSplit, Fail
  <2> DEFINE Loaded == Load(Seen, SavedParam(node))
  <2>2. /\ Loaded.writes = Seen.writes /\ Loaded.results = Seen.results
        /\ Loaded.reads \subseteq Seen.reads \cup {SavedParam(node)}
    BY <1>3, KernelTensors, KernelResults
  <2>3. AutoSaved(node)
    BY <1>5, <1>7
  <2> HIDE DEF Loaded
  <2>4. ASSUME NEW n \in Computed, SavedParam(n) \in Loaded.reads PROVE AutoSaved(n)
    <3>1. CASE SavedParam(n) \in Seen.reads
      BY <1>4, <3>1 DEF HandlesValues
    <3>2. CASE SavedParam(n) = SavedParam(node)
      BY <2>3, <3>2, SavedDistinct
    <3> QED BY <2>2, <2>4, <3>1, <3>2
  <2>5. HandlesValues(Loaded)
    BY <1>4, <2>2, <2>4 DEF HandlesValues
  <2> QED BY <1>1, <1>4, <2>1, <2>5, ValuesKept DEF Loaded
<1>8. CASE VisitFused
  <2> DEFINE meta == Seen.meta \cup MatmulMeta(graph[graph[node].inputs[1]].shape,
                                               graph[graph[node].inputs[2]].shape)
  <2>1. kernel' = Seen \/ kernel' = [Seen EXCEPT !.meta = meta]
    BY <1>8 DEF VisitFused
  <2> HIDE DEF meta
  <2>2. HandlesValues([Seen EXCEPT !.meta = meta])
    BY <1>3, <1>4, KernelTensors, KernelResults DEF HandlesValues
  <2> QED BY <1>1, <1>4, <2>1, <2>2, ValuesKept
<1> QED BY <1>6, <1>7, <1>8

LEMMA FinishKernelValues ==
  ASSUME ValuesInv, LowerInv', FinishKernel
  PROVE  ValuesInv'
<1> DEFINE L == Len(chain)
<1>1. kernel # NoKernel /\ kernel' = NoKernel /\ UNCHANGED << graph, saved >>
  BY DEF FinishKernel
<1>2. /\ L \in Nat /\ DOMAIN chain = 1 .. L /\ DOMAIN chain' = 1 .. L + 1
      /\ chain'[L + 1] = [kernel |-> kernel, dep |-> {}]
      /\ \A i \in 1 .. L : chain'[i].kernel = chain[i].kernel
  BY ChainGrows DEF ValuesInv, LowerInv
<1> HIDE DEF L
<1>3. \A i \in 1 .. L + 1 : i = L + 1 \/ i \in 1 .. L
  BY <1>2
<1>4. \A i \in DOMAIN chain' : HandlesValues(chain'[i].kernel)
  BY <1>1, <1>2, <1>3 DEF ValuesInv
<1> QED BY <1>1, <1>4, SameValues DEF ValuesInv

LEMMA FinishNodeValues ==
  ASSUME ValuesInv, LowerInv', FinishNode
  PROVE  ValuesInv'
<1>1. Running("finish") /\ UNCHANGED << graph, saved, chain >>
  BY DEF FinishNode, Fail
<1>2. /\ kernel # NoKernel /\ IsKernel(kernel) /\ HandlesValues(kernel)
  BY <1>1, RunningKernel DEF ValuesInv
<1>3. kernel' = kernel \/ kernel' = Keep
  BY DEF FinishNode, Fail
<1>4. HandlesValues(Keep)
  BY <1>2, KeepFacts, SavedDistinct DEF HandlesValues, AutoSaved, is_auto_save, attr
<1> QED BY <1>1, <1>2, <1>3, <1>4, ValuesKept

LEMMA ValuesInit == Init => ValuesInv
BY LowerInit DEF Init, ValuesInv

LEMMA ValuesNext == ValuesInv /\ [Next]_vars => ValuesInv'
<1> SUFFICES ASSUME ValuesInv, [Next]_vars PROVE ValuesInv'
  OBVIOUS
<1>1. LowerInv'
  BY LowerNext DEF ValuesInv
<1>2. CASE UNCHANGED << graph, saved, kernel, chain >>
  BY <1>1, <1>2, ValuesKept DEF ValuesInv
<1>3. CASE StartKernel
  <2>1. kernel' = kernel \/ (kernel'.writes = {} /\ kernel'.reads = {})
    BY <1>3 DEF StartKernel, NewKernel
  <2>2. kernel' # NoKernel => HandlesValues(kernel')
    BY <2>1 DEF ValuesInv, HandlesValues
  <2> QED BY <1>1, <1>3, <2>2, ValuesKept DEF StartKernel
<1>4. CASE FinishKernel
  BY <1>1, <1>4, FinishKernelValues
<1>5. CASE EvalNode
  BY <1>1, <1>5, VisitValues, FinishNodeValues DEF EvalNode
<1> QED BY <1>2, <1>3, <1>4, <1>5 DEF Next, StartSweep, Return, SkipRoot, vars, lowerVars

\* When lower_forward returns, every node with operands has been computed by some kernel, and
\* a kernel has stored the value of every node that keeps it; of a gelu that keeps something, the
\* tanh inside it.
EveryNodeIsComputed ==
  status = "lowered" =>
    /\ Computed \subseteq Range(resolved)
    /\ \A n \in Computed :
         HasSavedParam(n) =>
           SavedParam(n) \in (IF AutoSaved(n) THEN ResultsOf(chain) ELSE WrittenBy(chain))

LEMMA LoweredFacts == ValuesInv => EveryNodeIsComputed /\ SplitValuesAreStored
<1> SUFFICES ASSUME ValuesInv, status = "lowered" PROVE EveryNodeIsComputed /\ SplitValuesAreStored
  BY DEF EveryNodeIsComputed, SplitValuesAreStored
<1>1. Computed \subseteq Range(resolved) /\ WrittenSoFar = WrittenBy(chain)
      /\ ReadSoFar = ReadBy(chain)
  BY DEF ValuesInv, LowerInv, Complete, Outcome, WrittenSoFar, ReadSoFar
<1>2. \A n \in Computed : HasSavedParam(n) => SavedParam(n) \in WrittenBy(chain)
  BY <1>1 DEF ValuesInv, LowerInv, Complete, ComputedAreStored
<1>3. \A n \in Computed : AutoSaved(n) /\ HasSavedParam(n) => SavedParam(n) \in ResultsOf(chain)
  BY <1>2 DEF ValuesInv, HandlesValues, WrittenBy, ResultsOf, KernelsOf
<1>4. ASSUME NEW t \in ReadBy(chain), t \notin {In(n) : n \in Nodes(graph)}
      PROVE  t \in ResultsOf(chain)
  <2>1. PICK n \in Computed : HasSavedParam(n) /\ t = SavedParam(n)
    BY <1>1, <1>4 DEF ValuesInv, LowerInv, Complete, LoadsAreKept, Loadable
  <2>2. AutoSaved(n)
    BY <1>4, <2>1 DEF ReadBy, KernelsOf, ValuesInv, HandlesValues
  <2> QED BY <1>3, <2>1, <2>2
<1> QED BY <1>1, <1>2, <1>3, <1>4 DEF EveryNodeIsComputed, SplitValuesAreStored

\* No root that was put off is lost, and no split or fused value that is to be kept.
THEOREM NothingIsLeftBehind == Spec => []EveryNodeIsComputed
BY LoweredFacts, ValuesInit, ValuesNext, PTL DEF Spec

\* What a kernel loads where it was split is a value that a kernel of the same pass stores.
THEOREM SplitsAreStored == Spec => []SplitValuesAreStored
BY LoweredFacts, ValuesInit, ValuesNext, PTL DEF Spec

-----------------------------------------------------------------------------
(***************************************************************************)
(* The forward pass as a whole.  What a kernel loads and stores tells its  *)
(* root: a kernel touches the value of its root, if that is kept, and of   *)
(* others only values that are smaller and not outputs.  Two kernels that  *)
(* eliminate_kernels takes for the same must so be those of outputs that   *)
(* nobody keeps.  The list that is left can be scheduled, and the schedule *)
(* stores all that is to be kept; of an expression, it stores every value  *)
(* before it is loaded.                                                    *)
(***************************************************************************)

\* The kernels that are started: those of the sinks, and of the products they are split at.
Cut(n) == n \in Sinks(graph) \/ is_transform(graph[n].op)

\* What the kernel of root can meet.
Below(root, n) == n = root \/ (n < root /\ n \notin Sinks(graph))

Touches(k, t) ==
  \/ \E n \in Nodes(graph) : t = In(n)
  \/ \E n \in Nodes(graph) : Below(k.root, n) /\ t = SavedParam(n)
TouchesBelow(k) == \A t \in k.reads \cup k.writes : Touches(k, t)

StartsWithRoot(k) == k.ops # << >> /\ k.ops[1] = graph[k.root].op
KeepsRoot(k) == HasSavedParam(k.root) => SavedParam(k.root) \in k.writes

KernelUnderWay ==
  kernel # NoKernel =>
    /\ Cut(kernel.root)
    /\ \A f \in Range(stack) : Below(kernel.root, f.node)
    /\ TouchesBelow(kernel)
    /\ kernel.ops \in Seq(OpNames)
    /\ StartsWithRoot(kernel) \/ (stack = << Visit(kernel.root) >> /\ kernel.ops = << >>)
    /\ kernel.root \in Range(resolved) \cap Computed => KeepsRoot(kernel)

\* What the next kernels will be started for.
RootsAreCuts ==
  \A r \in Range(roots) \cup Range(todo) \cup Range(visited) :
    r \in Range(resolved) \/ Cut(r) \/ Finish(r) \in Range(stack)

FinishedKernel(k) ==
  k.root \in Computed /\ Cut(k.root) /\ TouchesBelow(k) /\ StartsWithRoot(k) /\ KeepsRoot(k)

ChainProfile == \A i \in DOMAIN chain : FinishedKernel(chain[i].kernel)

ProfileInv == LowerInv /\ KernelUnderWay /\ RootsAreCuts /\ ChainProfile

-----------------------------------------------------------------------------
LEMMA SameProfile ==
  ASSUME graph' = graph, saved' = saved
  PROVE  /\ \A n : (Cut(n)' <=> Cut(n)) /\ \A r : Below(r, n)' <=> Below(r, n)
         /\ \A k : /\ TouchesBelow(k)' <=> TouchesBelow(k)
                   /\ StartsWithRoot(k)' <=> StartsWithRoot(k)
                   /\ KeepsRoot(k)' <=> KeepsRoot(k)
                   /\ FinishedKernel(k)' <=> FinishedKernel(k)
<1>1. \A n : (Cut(n)' <=> Cut(n)) /\ \A r : Below(r, n)' <=> Below(r, n)
  BY DEF Cut, Below
<1>2. \A k, t : Touches(k, t)' <=> Touches(k, t)
  BY <1>1, SameGraph DEF Touches
<1>3. \A k : /\ TouchesBelow(k)' <=> TouchesBelow(k)
             /\ StartsWithRoot(k)' <=> StartsWithRoot(k)
             /\ KeepsRoot(k)' <=> KeepsRoot(k)
  BY <1>2, SameGraph DEF TouchesBelow, StartsWithRoot, KeepsRoot
<1>4. \A k : FinishedKernel(k)' <=> FinishedKernel(k)
  BY <1>1, <1>3, SameGraph DEF FinishedKernel
<1> QED BY <1>1, <1>3, <1>4

LEMMA ChainProfileKept ==
  ASSUME ProfileInv, UNCHANGED << graph, saved, chain >>
  PROVE  ChainProfile'
BY SameProfile DEF ProfileInv, ChainProfile

\* Steps between two kernels, and those that end the lowering.
LEMMA LoopProfile ==
  ASSUME ProfileInv, LowerInv',
         UNCHANGED << graph, saved, resolved, kernel, stack, visited, chain >>,
         kernel = NoKernel \/ UNCHANGED << roots, todo >>,
         Range(roots') \cup Range(todo') \subseteq Range(roots) \cup Range(todo)
  PROVE  ProfileInv'
<1>1. RootsAreCuts'
  BY SameProfile DEF ProfileInv, RootsAreCuts, Finish
<1>2. KernelUnderWay'
  BY SameProfile, SameGraph DEF ProfileInv, KernelUnderWay, NoKernel, Visit
<1> QED BY <1>1, <1>2, ChainProfileKept DEF ProfileInv

LEMMA LoopStepsProfile ==
  ASSUME ProfileInv, LowerInv', StartSweep \/ Return \/ SkipRoot
  PROVE  ProfileInv'
<1>1. UNCHANGED << graph, saved, resolved, kernel, stack, visited, chain >> /\ kernel = NoKernel
  BY DEF StartSweep, Return, SkipRoot, BetweenKernels
<1>2. Range(roots') \cup Range(todo') \subseteq Range(roots) \cup Range(todo)
  <2>1. CASE StartSweep
    BY <2>1 DEF StartSweep, Range
  <2>2. CASE Return
    BY <2>2 DEF Return
  <2>3. CASE SkipRoot
    <3>1. todo \in Seq(Nodes(graph)) /\ todo # << >> /\ todo' = Tail(todo) /\ roots' = roots
      BY <2>3 DEF SkipRoot, ProfileInv, LowerInv, IndInv, TypeOK
    <3> QED BY <3>1, PoppedRange
  <2> QED BY <2>1, <2>2, <2>3
<1> QED BY <1>1, <1>2, LoopProfile

LEMMA StartKernelProfile ==
  ASSUME ProfileInv, LowerInv', StartKernel
  PROVE  ProfileInv'
<1> DEFINE root == Head(todo)
<1>1. /\ kernel = NoKernel /\ todo # << >> /\ root \notin Range(resolved)
      /\ UNCHANGED << graph, saved, roots, todo, resolved, chain >>
  BY DEF StartKernel, BetweenKernels
<1>2. root \in Range(todo) /\ Range(stack) = {}
  <2>1. todo \in Seq(Nodes(graph))
    BY DEF ProfileInv, LowerInv, IndInv, TypeOK
  <2> QED BY <1>1, <2>1, PoppedRange, NoFramesBetweenKernels DEF ProfileInv, LowerInv
<1>3. CASE graph[root].shape = << >>
  <2>1. UNCHANGED << kernel, stack, visited >>
    BY <1>3 DEF StartKernel
  <2> QED BY <1>1, <2>1, LoopProfile
<1>4. CASE graph[root].shape # << >>
  <2>1. kernel' = NewKernel(graph, root) /\ stack' = << Visit(root) >> /\ visited' = << >>
    BY <1>4 DEF StartKernel
  <2>2. kernel'.root = root /\ kernel'.ops = << >> /\ kernel'.reads = {} /\ kernel'.writes = {}
    BY <2>1 DEF NewKernel
  <2>3. \A r \in Range(roots) \cup Range(todo) : r \in Range(resolved) \/ Cut(r)
    BY <1>2 DEF ProfileInv, RootsAreCuts
  <2>4. RootsAreCuts'
    <3>1. Range(visited') = {}
      BY <2>1 DEF Range
    <3> QED BY <1>1, <2>3, <3>1, SameProfile DEF RootsAreCuts
  <2>5. KernelUnderWay'
    <3>1. Cut(kernel'.root)
      BY <1>1, <1>2, <2>2, <2>3, SameProfile
    <3>2. \A f \in Range(stack') : Below(root, f.node)
      <4>1. Range(stack') = {Visit(root)} /\ Visit(root).node = root
        BY <2>1 DEF Range, Visit
      <4> QED BY <4>1 DEF Below
    <3>3. TouchesBelow(kernel')
      BY <2>2 DEF TouchesBelow
    <3>4. kernel'.ops \in Seq(OpNames)
      BY <2>2
    <3>5. stack' = << Visit(kernel'.root) >>
      BY <2>1, <2>2
    <3> QED BY <1>1, <2>2, <3>1, <3>2, <3>3, <3>4, <3>5, SameProfile DEF KernelUnderWay, Visit
  <2> QED BY <1>1, <2>4, <2>5, ChainProfileKept DEF ProfileInv
<1> QED BY <1>3, <1>4

LEMMA FinishKernelProfile ==
  ASSUME ProfileInv, LowerInv', FinishKernel
  PROVE  ProfileInv'
<1> DEFINE root == kernel.root
           fresh == Nodes(graph) \ (Range(roots) \cup {root})
<1>1. /\ kernel # NoKernel /\ stack = << >>
      /\ roots' = PushAll(roots, visited, fresh)
      /\ todo' = Tail(todo) /\ kernel' = NoKernel
      /\ UNCHANGED << graph, saved, resolved, stack, visited >>
  BY DEF FinishKernel
<1>2. root = Head(todo) /\ todo # << >> /\ root \in Range(resolved)
  BY <1>1 DEF ProfileInv, LowerInv, IndInv, KernelIsNew, RootIsPending
<1>3. /\ Range(todo') \subseteq Range(todo) /\ root \in Range(todo)
      /\ Range(roots') \subseteq Range(roots) \cup Range(visited)
  <2>1. /\ todo \in Seq(Nodes(graph)) /\ roots \in Seq(Nodes(graph))
        /\ visited \in Seq(Nodes(graph))
    BY DEF ProfileInv, LowerInv, IndInv, TypeOK
  <2>2. Range(todo') \subseteq Range(todo) /\ root \in Range(todo)
    BY <1>1, <1>2, <2>1, PoppedRange
  <2> HIDE DEF fresh
  <2>3. Range(roots') = Range(roots) \cup (Range(visited) \cap fresh)
    BY <1>1, <2>1, PushAllType
  <2> QED BY <2>2, <2>3
<1>4. Range(stack) = {} /\ Range(stack') = {}
  BY <1>1 DEF Range
<1>5. RootsAreCuts'
  BY <1>1, <1>3, <1>4, SameProfile DEF ProfileInv, RootsAreCuts
<1>6. FinishedKernel(kernel)
  <2>1. root \in Computed
    BY <1>2, <1>3 DEF ProfileInv, LowerInv, Complete, UnusedLeavesAreRoots
  <2>2. StartsWithRoot(kernel)
    BY <1>1 DEF ProfileInv, KernelUnderWay
  <2> QED BY <1>1, <1>2, <2>1, <2>2 DEF ProfileInv, KernelUnderWay, FinishedKernel
<1>7. ChainProfile'
  <2>1. /\ Len(chain) \in Nat /\ DOMAIN chain = 1 .. Len(chain)
        /\ DOMAIN chain' = 1 .. Len(chain) + 1
        /\ chain'[Len(chain) + 1] = [kernel |-> kernel, dep |-> {}]
        /\ \A i \in 1 .. Len(chain) : chain'[i].kernel = chain[i].kernel
    BY ChainGrows DEF ProfileInv, LowerInv
  <2>2. chain'[Len(chain) + 1].kernel = kernel
    BY <2>1
  <2>3. \A i \in 1 .. Len(chain) + 1 : i = Len(chain) + 1 \/ i \in 1 .. Len(chain)
    BY <2>1
  <2>4. \A i \in 1 .. Len(chain) + 1 : FinishedKernel(chain'[i].kernel)
    BY <1>6, <2>1, <2>2, <2>3 DEF ProfileInv, ChainProfile
  <2> QED BY <1>1, <2>1, <2>4, SameProfile DEF ChainProfile
<1>8. KernelUnderWay'
  BY <1>1 DEF KernelUnderWay, NoKernel
<1> QED BY <1>5, <1>7, <1>8 DEF ProfileInv

-----------------------------------------------------------------------------
(* The evaluation of a kernel. *)

LEMMA EvalProfile ==
  ASSUME ProfileInv, LowerInv', kernel # NoKernel,
         UNCHANGED << graph, saved, roots, todo, chain >>,
         Range(resolved) \subseteq Range(resolved'), kernel'.root = kernel.root,
         \A f \in Range(stack') : Below(kernel.root, f.node),
         \A t \in kernel'.reads \cup kernel'.writes :
           t \in kernel.reads \cup kernel.writes \/ Touches(kernel, t),
         kernel'.ops \in Seq(OpNames), StartsWithRoot(kernel'),
         kernel.root \in Range(resolved') \cap Computed => KeepsRoot(kernel'),
         \A r \in Range(visited') : r \in Range(visited) \/ Cut(r) \/ Finish(r) \in Range(stack'),
         \A r : Finish(r) \in Range(stack) => Finish(r) \in Range(stack') \/ r \in Range(resolved')
  PROVE  ProfileInv'
<1>1. RootsAreCuts'
  BY SameProfile DEF ProfileInv, RootsAreCuts, Finish
<1>2. TouchesBelow(kernel')
  <2>1. \A t : Touches(kernel, t) => Touches(kernel', t)
    BY DEF Touches
  <2> QED BY <2>1 DEF ProfileInv, KernelUnderWay, TouchesBelow
<1>3. Cut(kernel'.root)
  BY DEF ProfileInv, KernelUnderWay
<1>4. KernelUnderWay'
  BY <1>2, <1>3, SameProfile, SameGraph DEF KernelUnderWay
<1> QED BY <1>1, <1>4, ChainProfileKept DEF ProfileInv

\* The frame that is run, and the kernel once it has seen the frame's node.
LEMMA RunningProfile ==
  ASSUME ProfileInv, NEW do, Running(do)
  PROVE  /\ kernel # NoKernel /\ IsKernel(kernel) /\ stack # << >> /\ stack \in Seq(Frame)
         /\ Range(stack) = {Head(stack)} \cup Range(Tail(stack)) /\ Tail(stack) \in Seq(Frame)
         /\ node \in Nodes(graph) /\ Below(kernel.root, node) /\ kernel.root \in Nodes(graph)
         /\ \A f \in Range(Tail(stack)) : Below(kernel.root, f.node)
         /\ kernel.ops \in Seq(OpNames)
         /\ StartsWithRoot(kernel) \/ (do = "visit" /\ node = kernel.root /\ kernel.ops = << >>)
<1>1. LowerInv /\ IndInv
  BY DEF ProfileInv, LowerInv
<1>2. /\ kernel # NoKernel /\ IsKernel(kernel) /\ stack \in Seq(Frame) /\ stack # << >>
      /\ Tail(stack) \in Seq(Frame) /\ Head(stack).do = do /\ node \in Nodes(graph)
      /\ stack = << Visit(kernel.root) >> => do = "visit" /\ node = kernel.root
  BY <1>1, RunningKernel, RunningFacts
<1>3. Range(stack) = {Head(stack)} \cup Range(Tail(stack))
  <2> HIDE DEF Frame
  <2> QED BY <1>2, PoppedRange
<1>4. kernel.root \in Nodes(graph)
  <2>1. todo \in Seq(Nodes(graph)) /\ todo # << >> /\ kernel.root = Head(todo)
    BY <1>1, <1>2 DEF IndInv, TypeOK, KernelIsNew
  <2> QED BY <2>1, Popped
<1> QED BY <1>2, <1>3, <1>4 DEF ProfileInv, KernelUnderWay, node

LEMMA SeenProfile ==
  ASSUME ProfileInv, Running("visit")
  PROVE  /\ IsKernel(Seen) /\ Seen.root = kernel.root
         /\ Seen.reads = kernel.reads /\ Seen.writes = kernel.writes
         /\ Seen.ops \in Seq(OpNames) /\ StartsWithRoot(Seen)
<1>1. /\ kernel # NoKernel /\ IsKernel(kernel) /\ node \in Nodes(graph)
      /\ kernel.ops \in Seq(OpNames)
      /\ StartsWithRoot(kernel) \/ (node = kernel.root /\ kernel.ops = << >>)
  BY RunningProfile
<1>2. IndInv /\ graph[node].op \in OpNames
  BY <1>1, NodeFacts DEF ProfileInv, LowerInv
<1>3. /\ IsKernel(Seen) /\ Seen.root = kernel.root
      /\ Seen.reads = kernel.reads /\ Seen.writes = kernel.writes
      /\ Seen.ops = Append(kernel.ops, graph[node].op)
  BY <1>1, <1>2, SeenFacts, KernelTensors, KernelOps DEF Seen
<1>4. Seen.ops \in Seq(OpNames) /\ Seen.ops # << >>
  BY <1>1, <1>2, <1>3
<1>5. Seen.ops[1] = graph[kernel.root].op
  <2>1. CASE kernel.ops = << >>
    BY <1>1, <1>3, <2>1 DEF StartsWithRoot
  <2>2. CASE kernel.ops # << >>
    <3>1. Append(kernel.ops, graph[node].op)[1] = kernel.ops[1]
      BY <1>1, <2>2
    <3> QED BY <1>1, <1>3, <2>2, <3>1 DEF StartsWithRoot
  <2> QED BY <2>1, <2>2
<1> QED BY <1>3, <1>4, <1>5 DEF StartsWithRoot

LEMMA FailProfile ==
  ASSUME ProfileInv, LowerInv', Fail
  PROVE  ProfileInv'
BY LoopProfile DEF Fail

LEMMA VisitLeafProfile ==
  ASSUME ProfileInv, LowerInv', VisitLeaf
  PROVE  ProfileInv'
<1>1. CASE graph[node].op = "input" /\ ~HasInputParam(node)
  BY <1>1, FailProfile DEF VisitLeaf
<1>2. CASE ~(graph[node].op = "input" /\ ~HasInputParam(node))
  <2>1. /\ kernel' = IF graph[node].op = "input" THEN Load(Seen, In(node)) ELSE Seen
        /\ stack' = << Finish(node) >> \o Tail(stack)
        /\ UNCHANGED << graph, saved, roots, todo, resolved, visited, chain >>
        /\ Running("visit")
    BY <1>2 DEF VisitLeaf
  <2>2. /\ kernel # NoKernel /\ Range(stack) = {Head(stack)} \cup Range(Tail(stack))
        /\ Tail(stack) \in Seq(Frame) /\ node \in Nodes(graph) /\ Below(kernel.root, node)
        /\ \A f \in Range(Tail(stack)) : Below(kernel.root, f.node)
        /\ Head(stack).do = "visit"
    BY <2>1, RunningProfile DEF Running
  <2>3. /\ kernel'.root = kernel.root /\ kernel'.writes = kernel.writes
        /\ kernel'.reads \subseteq kernel.reads \cup {In(node)}
        /\ kernel'.ops = Seen.ops
    BY <2>1, SeenProfile, KernelFacts, KernelTensors, KernelOps
  <2>4. kernel'.ops \in Seq(OpNames) /\ StartsWithRoot(kernel')
    BY <2>1, <2>3, SeenProfile DEF StartsWithRoot
  <2>5. Range(stack') = {Finish(node)} \cup Range(Tail(stack))
    <3> DEFINE top == << Finish(node) >>
               rest == Tail(stack)
    <3>1. top \in Seq(Frame) /\ Range(top) = {Finish(node)}
      <4>1. Finish(node) \in Frame
        BY <2>2 DEF Finish, Frame
      <4> HIDE DEF Frame
      <4> QED BY <4>1 DEF Range
    <3>2. stack' = top \o rest /\ rest \in Seq(Frame)
      BY <2>1, <2>2
    <3> HIDE DEF Frame, top, rest
    <3>3. Range(stack') = Range(top) \cup Range(rest)
      BY <3>1, <3>2, RangeConcat
    <3> QED BY <3>1, <3>3 DEF rest
  <2>6. \A f \in Range(stack') : Below(kernel.root, f.node)
    BY <2>2, <2>5 DEF Finish
  <2>7. \A r : Finish(r) \in Range(stack) => Finish(r) \in Range(stack')
    BY <2>2, <2>5 DEF Finish
  <2>8. \A t \in kernel'.reads \cup kernel'.writes :
          t \in kernel.reads \cup kernel.writes \/ Touches(kernel, t)
    BY <2>2, <2>3 DEF Touches
  <2>9. kernel.root \in Range(resolved') \cap Computed => KeepsRoot(kernel')
    BY <2>1, <2>2, <2>3 DEF ProfileInv, KernelUnderWay, KeepsRoot
  <2> QED BY <2>1, <2>2, <2>3, <2>4, <2>6, <2>7, <2>8, <2>9, EvalProfile
<1> QED BY <1>1, <1>2

LEMMA VisitSplitProfile ==
  ASSUME ProfileInv, LowerInv', VisitSplit
  PROVE  ProfileInv'
<1>1. CASE ~HasSavedParam(node)
  BY <1>1, FailProfile DEF VisitSplit
<1>2. CASE HasSavedParam(node)
  <2>1. /\ kernel' = Load(Seen, SavedParam(node))
        /\ stack' = Tail(stack) /\ visited' = Visited
        /\ UNCHANGED << graph, saved, roots, todo, resolved, chain >>
        /\ Running("visit") /\ MustSplit /\ ~is_leaf(graph[node].op)
    BY <1>2 DEF VisitSplit
  <2>2. /\ kernel # NoKernel /\ Range(stack) = {Head(stack)} \cup Range(Tail(stack))
        /\ node \in Nodes(graph) /\ Below(kernel.root, node)
        /\ \A f \in Range(Tail(stack)) : Below(kernel.root, f.node)
        /\ Head(stack).do = "visit"
    BY <2>1, RunningProfile DEF Running
  <2>3. /\ kernel'.root = kernel.root /\ kernel'.writes = kernel.writes
        /\ kernel'.reads \subseteq kernel.reads \cup {SavedParam(node)}
        /\ kernel'.ops = Seen.ops
    BY <2>1, SeenProfile, KernelFacts, KernelTensors, KernelOps
  <2>4. kernel'.ops \in Seq(OpNames) /\ StartsWithRoot(kernel')
    BY <2>1, <2>3, SeenProfile DEF StartsWithRoot
  <2>5. IndInv /\ IsGraph(graph) /\ graph[node].op \in OpNames /\ graph[node].inputs # << >>
        /\ resolved \in Seq(Nodes(graph))
    BY <2>1, <2>2, NodeFacts, GraphFacts DEF ProfileInv, LowerInv, IndInv, TypeOK
  <2>6. Cut(node)
    <3>1. ~DimsInvalid(graph, resolved, node)
      BY <2>5, DimsValid
    <3>2. attr.computes_gid
      BY <2>1, <2>5, OpFacts DEF attr, is_leaf
    <3> QED BY <2>1, <3>1, <3>2 DEF MustSplit, Cut, attr, is_transform
  <2>7. \A r \in Range(visited') : r \in Range(visited) \/ Cut(r)
    <3>1. Range(visited') = Range(visited) \cup {node}
      BY <2>1, <2>2, <2>5, VisitedRange
    <3> QED BY <2>6, <3>1
  <2>8. \A r : Finish(r) \in Range(stack) => Finish(r) \in Range(stack')
    BY <2>1, <2>2 DEF Finish
  <2>9. \A t \in kernel'.reads \cup kernel'.writes :
          t \in kernel.reads \cup kernel.writes \/ Touches(kernel, t)
    BY <2>2, <2>3 DEF Touches
  <2>10. kernel.root \in Range(resolved') \cap Computed => KeepsRoot(kernel')
    BY <2>1, <2>2, <2>3 DEF ProfileInv, KernelUnderWay, KeepsRoot
  <2> QED BY <2>1, <2>2, <2>3, <2>4, <2>7, <2>8, <2>9, <2>10, EvalProfile
<1> QED BY <1>1, <1>2

LEMMA VisitFusedProfile ==
  ASSUME ProfileInv, LowerInv', VisitFused
  PROVE  ProfileInv'
<1>1. /\ stack' = Operands(node) \o << Finish(node) >> \o Tail(stack)
      /\ visited' = Visited
      /\ UNCHANGED << graph, saved, roots, todo, resolved, chain >>
      /\ Running("visit") /\ ~is_leaf(graph[node].op)
  BY DEF VisitFused
<1>2. /\ kernel # NoKernel /\ Range(stack) = {Head(stack)} \cup Range(Tail(stack))
      /\ Tail(stack) \in Seq(Frame) /\ node \in Nodes(graph) /\ Below(kernel.root, node)
      /\ kernel.root \in Nodes(graph)
      /\ \A f \in Range(Tail(stack)) : Below(kernel.root, f.node)
      /\ Head(stack).do = "visit"
  BY <1>1, RunningProfile DEF Running
<1>3. /\ kernel'.root = kernel.root /\ kernel'.writes = kernel.writes
      /\ kernel'.reads = kernel.reads /\ kernel'.ops = Seen.ops
  <2>1. /\ IsKernel(Seen) /\ Seen.root = kernel.root
        /\ Seen.reads = kernel.reads /\ Seen.writes = kernel.writes
    BY <1>1, SeenProfile
  <2>2. \A y : /\ [Seen EXCEPT !.meta = y].root = kernel.root
               /\ [Seen EXCEPT !.meta = y].reads = kernel.reads
               /\ [Seen EXCEPT !.meta = y].writes = kernel.writes
               /\ [Seen EXCEPT !.meta = y].ops = Seen.ops
    BY <2>1, KernelFacts, KernelTensors, KernelOps
  <2> DEFINE meta == Seen.meta \cup MatmulMeta(graph[graph[node].inputs[1]].shape,
                                               graph[graph[node].inputs[2]].shape)
  <2>3. kernel' = Seen \/ kernel' = [Seen EXCEPT !.meta = meta]
    BY DEF VisitFused
  <2> HIDE DEF meta
  <2> QED BY <2>1, <2>2, <2>3
<1>4. kernel'.ops \in Seq(OpNames) /\ StartsWithRoot(kernel')
  BY <1>1, <1>3, SeenProfile DEF StartsWithRoot
<1>5. IndInv /\ graph[node].inputs # << >>
  BY <1>1, <1>2, NodeFacts DEF ProfileInv, LowerInv
<1>6. \A m \in Range(graph[node].inputs) : Below(kernel.root, m)
  <2>1. \A m \in Range(graph[node].inputs) : m \in Nodes(graph) /\ m < node /\ m \notin Sinks(graph)
    BY <1>2, <1>5, NodeFacts
  <2>2. \A m \in Nodes(graph) : m \in Nat
    BY <1>5, NodeFacts
  <2> QED BY <1>2, <2>1, <2>2 DEF Below
<1>7. Range(stack') = Range(Operands(node)) \cup {Finish(node)} \cup Range(Tail(stack))
  <2> DEFINE operands == Operands(node)
             end == Finish(node)
             rest == Tail(stack)
  <2>1. operands \in Seq(Frame) /\ end \in Frame /\ rest \in Seq(Frame)
    BY <1>2, <1>5, OperandFrames DEF Frame, Finish
  <2>2. stack' = operands \o << end >> \o rest
    BY <1>1
  <2> HIDE DEF Frame, operands, end, rest
  <2>3. Range(operands \o << end >> \o rest) = Range(operands) \cup {end} \cup Range(rest)
    BY <2>1, FramesPushed
  <2> QED BY <2>2, <2>3 DEF operands, end, rest
<1>8. \A f \in Range(stack') : Below(kernel.root, f.node)
  BY <1>2, <1>5, <1>6, <1>7, OperandFrames DEF Finish
<1>9. \A r : Finish(r) \in Range(stack) => Finish(r) \in Range(stack')
  BY <1>2, <1>7 DEF Finish
<1>10. \A r \in Range(visited') : r \in Range(visited) \/ Finish(r) \in Range(stack')
  BY <1>1, <1>2, <1>5, <1>7, VisitedRange
<1>11. kernel.root \in Range(resolved') \cap Computed => KeepsRoot(kernel')
  BY <1>1, <1>2, <1>3 DEF ProfileInv, KernelUnderWay, KeepsRoot
<1> QED BY <1>1, <1>2, <1>3, <1>4, <1>8, <1>9, <1>10, <1>11, EvalProfile

LEMMA FinishNodeProfile ==
  ASSUME ProfileInv, LowerInv', FinishNode
  PROVE  ProfileInv'
<1>1. CASE attr.save_inner /\ ~HasSavedParam(node)
  BY <1>1, FailProfile DEF FinishNode
<1>2. CASE ~(attr.save_inner /\ ~HasSavedParam(node))
  <2>1. /\ kernel' = IF Stores THEN Keep ELSE kernel
        /\ resolved' = PushNew(resolved, node)
        /\ stack' = Tail(stack)
        /\ UNCHANGED << graph, saved, roots, todo, visited, chain >>
        /\ Running("finish")
    BY <1>2 DEF FinishNode
  <2>2. /\ kernel # NoKernel /\ IsKernel(kernel)
        /\ Range(stack) = {Head(stack)} \cup Range(Tail(stack))
        /\ node \in Nodes(graph) /\ Below(kernel.root, node)
        /\ \A f \in Range(Tail(stack)) : Below(kernel.root, f.node)
        /\ kernel.ops \in Seq(OpNames) /\ StartsWithRoot(kernel)
    BY <2>1, RunningProfile
  <2>3. /\ kernel'.root = kernel.root /\ kernel'.reads = kernel.reads /\ kernel'.ops = kernel.ops
        /\ kernel.writes \subseteq kernel'.writes
        /\ kernel'.writes \subseteq kernel.writes \cup {SavedParam(node)}
        /\ Stores => SavedParam(node) \in kernel'.writes
    BY <2>1, <2>2, KeepFacts
  <2>4. Range(resolved') = Range(resolved) \cup {node}
    <3>1. resolved \in Seq(Nodes(graph))
      BY DEF ProfileInv, LowerInv, IndInv, TypeOK
    <3> QED BY <2>1, <2>2, <3>1, PushNewType
  <2>5. kernel.root \in Range(resolved') \cap Computed => KeepsRoot(kernel')
    <3>1. CASE kernel.root \in Range(resolved)
      BY <2>2, <2>3, <3>1 DEF ProfileInv, KernelUnderWay, KeepsRoot
    <3>2. CASE kernel.root = node
      <4>1. node \in Computed => attr.auto_save \/ attr.save_inner
        <5>1. graph[node].op \in OpNames
          BY <2>2, NodeFacts DEF ProfileInv, LowerInv
        <5> QED BY <5>1, ComputeFacts DEF Computed, attr
      <4> QED BY <2>3, <3>2, <4>1 DEF Stores, KeepsRoot
    <3> QED BY <2>4, <3>1, <3>2
  <2>6. \A t \in kernel'.reads \cup kernel'.writes :
          t \in kernel.reads \cup kernel.writes \/ Touches(kernel, t)
    BY <2>2, <2>3 DEF Touches
  <2>7. \A r : Finish(r) \in Range(stack) => Finish(r) \in Range(stack') \/ r \in Range(resolved')
    BY <2>1, <2>2, <2>4 DEF Finish, node
  <2>8. StartsWithRoot(kernel') /\ \A r \in Range(visited') : r \in Range(visited)
    BY <2>1, <2>2, <2>3 DEF StartsWithRoot
  <2> QED BY <2>1, <2>2, <2>3, <2>4, <2>5, <2>6, <2>7, <2>8, EvalProfile
<1> QED BY <1>1, <1>2

-----------------------------------------------------------------------------
LEMMA ProfileInit == Init => ProfileInv
<1> SUFFICES ASSUME Init PROVE ProfileInv
  OBVIOUS
<1>1. /\ Range(todo) = {} /\ Range(visited) = {} /\ DOMAIN chain = {} /\ kernel = NoKernel
  BY DEF Init, Range
<1>2. Range(roots) = Sinks(graph)
  <2>1. IsGraph(graph) /\ Len(graph) \in Nat
    BY InitInv, GraphFacts DEF IndInv
  <2>2. Sinks(graph) \in SUBSET (1 .. Len(graph))
    BY DEF Sinks, Nodes
  <2> QED BY <2>1, <2>2, AscendingRange DEF Init
<1> QED BY <1>1, <1>2, LowerInit DEF ProfileInv, KernelUnderWay, RootsAreCuts, ChainProfile, Cut

LEMMA ProfileNext == ProfileInv /\ [Next]_vars => ProfileInv'
<1> SUFFICES ASSUME ProfileInv, [Next]_vars PROVE ProfileInv'
  OBVIOUS
<1>1. LowerInv'
  BY LowerNext DEF ProfileInv
<1>2. CASE UNCHANGED vars
  BY <1>1, <1>2, LoopProfile DEF vars, lowerVars
<1>3. CASE StartSweep \/ Return \/ SkipRoot
  BY <1>1, <1>3, LoopStepsProfile
<1>4. CASE StartKernel
  BY <1>1, <1>4, StartKernelProfile
<1>5. CASE FinishKernel
  BY <1>1, <1>5, FinishKernelProfile
<1>6. CASE EvalNode
  BY <1>1, <1>6, VisitLeafProfile, VisitSplitProfile, VisitFusedProfile, FinishNodeProfile
     DEF EvalNode
<1> QED BY <1>2, <1>3, <1>4, <1>5, <1>6 DEF Next

-----------------------------------------------------------------------------
(* Elimination. *)

\* A kernel that touches the value of another kernel's root is not one that starts the way that
\* one does: it would be its own root, and be met below that one.
LEMMA ForeignRootsArePlain ==
  ASSUME ProfileInv, NEW a, NEW b, FinishedKernel(a), FinishedKernel(b), a.root # b.root,
         a.ops = b.ops, Touches(a, SavedParam(b.root))
  PROVE  b.root < a.root /\ is_transform(graph[a.root].op)
<1>1. b.root \in Nodes(graph)
  BY DEF FinishedKernel, Computed
<1>2. PICK n \in Nodes(graph) : Below(a.root, n) /\ SavedParam(b.root) = SavedParam(n)
  <2>1. \A n \in Nodes(graph) : SavedParam(b.root) # In(n)
    BY DEF SavedParam, Saved, Out, In
  <2> QED BY <2>1 DEF Touches
<1>3. n = b.root
  BY <1>2 DEF SavedParam, Saved, Out
<1>4. b.root < a.root /\ b.root \notin Sinks(graph)
  BY <1>2, <1>3 DEF Below
<1>5. is_transform(graph[b.root].op)
  BY <1>4 DEF FinishedKernel, Cut
<1> QED BY <1>4, <1>5 DEF FinishedKernel, StartsWithRoot

LEMMA TwinIsUnkept ==
  ASSUME ProfileInv, NEW a, NEW b, FinishedKernel(a), FinishedKernel(b), a.root # b.root,
         SameKernel(a, b)
  PROVE  b.root \in Sinks(graph) /\ ~HasSavedParam(b.root)
<1>1. a.root \in Nodes(graph) /\ b.root \in Nodes(graph) /\ a.root \in Nat /\ b.root \in Nat
  BY NodeFacts DEF ProfileInv, LowerInv, FinishedKernel, Computed
<1>2. \A n \in Nodes(graph) : is_transform(graph[n].op) => HasSavedParam(n)
  BY TransformsAreKept DEF ProfileInv, LowerInv, Complete
<1>3. a.ops = b.ops /\ a.reads \cup a.writes = b.reads \cup b.writes
  BY DEF SameKernel
<1>4. ~HasSavedParam(b.root)
  <2> SUFFICES ASSUME HasSavedParam(b.root) PROVE FALSE
    OBVIOUS
  <2>1. Touches(a, SavedParam(b.root))
    BY <1>3 DEF FinishedKernel, KeepsRoot, TouchesBelow
  <2>2. b.root < a.root /\ HasSavedParam(a.root)
    BY <1>1, <1>2, <1>3, <2>1, ForeignRootsArePlain
  <2>3. Touches(b, SavedParam(a.root))
    BY <1>3, <2>2 DEF FinishedKernel, KeepsRoot, TouchesBelow
  <2>4. a.root < b.root
    BY <1>3, <2>3, ForeignRootsArePlain
  <2> QED BY <1>1, <2>2, <2>4
<1> QED BY <1>1, <1>2, <1>4 DEF FinishedKernel, Cut

\* The list is handed over once lowering is done, and never changes again.
HandedOver ==
  outcome # "waiting" => status = "lowered" /\ kernels = eliminate_kernels(chain)

LEMMA EliminatedAreUnkept ==
  ASSUME ProfileInv, HandedOver, outcome # "waiting"
  PROVE  /\ DOMAIN kernels = 1 .. Len(chain) /\ DOMAIN chain = 1 .. Len(chain) /\ Len(chain) \in Nat
         /\ \A i \in 1 .. Len(chain) :
              /\ kernels[i] = [root |-> chain[i].kernel.root, dep |-> chain[i].dep,
                               redirect |-> kernels[i].redirect]
              /\ kernels[i].root = chain[i].kernel.root /\ chain[i].kernel.root \in Nodes(graph)
              /\ \/ kernels[i].redirect = Unmasked
                 \/ /\ kernels[i].redirect \in 1 .. i - 1
                    /\ kernels[kernels[i].redirect].redirect = Unmasked
                    /\ LET m == chain[i].kernel.root
                           n == chain[kernels[i].redirect].kernel.root
                       IN  /\ m # n /\ m \in Sinks(graph) /\ n \in Sinks(graph)
                           /\ ~HasSavedParam(m) /\ ~HasSavedParam(n)
<1>1. DOMAIN chain = 1 .. Len(chain) /\ Len(chain) \in Nat
  BY DEF ProfileInv, LowerInv, IndInv, ListSoFar
<1>2. /\ kernels = [i \in 1 .. Len(chain) |->
                      [root |-> chain[i].kernel.root, dep |-> chain[i].dep,
                       redirect |-> kernels[i].redirect]]
      /\ \A i \in 1 .. Len(chain) :
           \/ kernels[i].redirect = Unmasked
           \/ /\ kernels[i].redirect \in 1 .. i - 1
              /\ kernels[kernels[i].redirect].redirect = Unmasked
              /\ SameKernel(chain[kernels[i].redirect].kernel, chain[i].kernel)
  BY <1>1, EliminateFacts DEF HandedOver
<1>3. ASSUME NEW i \in 1 .. Len(chain), kernels[i].redirect # Unmasked
      PROVE  LET m == chain[i].kernel.root
                 n == chain[kernels[i].redirect].kernel.root
             IN  /\ m # n /\ m \in Sinks(graph) /\ n \in Sinks(graph)
                 /\ ~HasSavedParam(m) /\ ~HasSavedParam(n)
  <2> DEFINE j == kernels[i].redirect
  <2>1. j \in 1 .. i - 1 /\ SameKernel(chain[j].kernel, chain[i].kernel)
    BY <1>2, <1>3
  <2>2. j \in DOMAIN chain /\ i \in DOMAIN chain /\ j # i
    BY <1>1, <2>1
  <2> HIDE DEF j
  <2>3. chain[i].kernel.root # chain[j].kernel.root
    BY <2>2 DEF ProfileInv, LowerInv, IndInv, ListSoFar
  <2>4. FinishedKernel(chain[i].kernel) /\ FinishedKernel(chain[j].kernel)
    BY <2>2 DEF ProfileInv, ChainProfile
  <2>5. SameKernel(chain[i].kernel, chain[j].kernel)
    BY <2>1 DEF SameKernel
  <2> QED BY <2>1, <2>3, <2>4, <2>5, TwinIsUnkept DEF j
<1>4. \A i \in 1 .. Len(chain) : chain[i].kernel.root \in Nodes(graph)
  BY <1>1 DEF ProfileInv, ChainProfile, FinishedKernel, Computed
<1>5. /\ DOMAIN kernels = 1 .. Len(chain)
      /\ \A i \in 1 .. Len(chain) :
           /\ kernels[i] = [root |-> chain[i].kernel.root, dep |-> chain[i].dep,
                            redirect |-> kernels[i].redirect]
           /\ kernels[i].root = chain[i].kernel.root
  <2> DEFINE K(i) == [root |-> chain[i].kernel.root, dep |-> chain[i].dep,
                      redirect |-> kernels[i].redirect]
  <2>1. kernels = [i \in 1 .. Len(chain) |-> K(i)]
    BY <1>2
  <2>2. \A i : K(i).root = chain[i].kernel.root
    OBVIOUS
  <2> HIDE DEF K
  <2>3. DOMAIN kernels = 1 .. Len(chain) /\ \A i \in 1 .. Len(chain) : kernels[i] = K(i)
    BY <2>1
  <2> QED BY <2>2, <2>3 DEF K
<1> QED BY <1>1, <1>2, <1>3, <1>4, <1>5

-----------------------------------------------------------------------------
(* The schedule of the list. *)

\* What is proved of the scheduling loop, whatever the list, of the loop in this pass.
Loop == INSTANCE KernelScheduleProofs
  WITH KernelLists <- {ks \in Seq(KernelEntry) : IsKernelList(ks)},
       resolved <- placed, tmp_res <- batch, scheduled <- schedule, status <- outcome

LEMMA LoopAssumption == Loop!KernelListsAssumption
BY DEF Loop!IsKernelList, IsKernelList, Loop!KernelEntry, KernelEntry

LEMMA SameLoop == Scheduler!Next <=> Loop!Next
BY DEF Scheduler!Next, Loop!Next, Scheduler!StartSweep, Loop!StartSweep, Scheduler!Return, Loop!Return,
   Scheduler!Fail, Loop!Fail, Scheduler!Skip, Loop!Skip, Scheduler!Postpone, Loop!Postpone,
   Scheduler!Place, Loop!Place, Scheduler!EndSweep, Loop!EndSweep,
   Scheduler!N, Loop!N, Scheduler!Target, Loop!Target, Scheduler!Root, Loop!Root,
   Scheduler!DoublyRedirected, Loop!DoublyRedirected, Scheduler!Resolved, Loop!Resolved,
   Scheduler!Ready, Loop!Ready, Scheduler!TargetIn, Loop!TargetIn, Scheduler!RootIn, Loop!RootIn,
   Scheduler!Unmasked, Loop!Unmasked, Scheduler!Range, Loop!Range

LEMMA LoopStarts == Loop!Init' => Loop!IndInv'
BY LoopAssumption, Loop!LoopInit, PTL

\* The list of a lowered graph is one the scheduler can be given.
LEMMA ListIsKernelList ==
  ASSUME ProfileInv
  PROVE  eliminate_kernels(chain) \in Seq(KernelEntry) /\ IsKernelList(eliminate_kernels(chain))
<1> DEFINE ks == eliminate_kernels(chain)
           L == Len(chain)
<1>1. DOMAIN chain = 1 .. L /\ L \in Nat
  BY DEF ProfileInv, LowerInv, IndInv, ListSoFar
<1>2. /\ ks = [i \in 1 .. L |-> [root |-> chain[i].kernel.root, dep |-> chain[i].dep,
                                redirect |-> ks[i].redirect]]
      /\ \A i \in 1 .. L : ks[i].redirect = Unmasked \/ ks[i].redirect \in 1 .. i - 1
  BY <1>1, EliminateFacts
<1>3. ASSUME NEW i \in 1 .. L
      PROVE  chain[i].kernel.root \in Nat /\ chain[i].dep \in SUBSET Nat
  <2>1. chain[i].kernel.root \in Nat
    BY <1>1, NodeFacts DEF ProfileInv, LowerInv, ChainProfile, FinishedKernel, Computed
  <2>2. chain[i].dep = ForwardList(Order)[i].dep /\ Order \in Seq(Nat) /\ DOMAIN Order = 1 .. L
    BY <1>1, ListIs DEF ProfileInv, LowerInv, IndInv, ListSoFar, Order
  <2>3. ForwardList(Order)[i].dep \subseteq Range(Order) /\ Range(Order) \subseteq Nat
    <3>1. Len(Order) = L
      BY <1>1, <2>2
    <3>2. ForwardList(Order)[i].dep \subseteq Range(Order)
      BY <3>1 DEF ForwardList
    <3>3. Range(Order) \subseteq Nat
      BY <2>2 DEF Range
    <3> QED BY <3>2, <3>3
  <2> QED BY <2>1, <2>2, <2>3
<1>4. \A i \in 1 .. L : ks[i].redirect \in Nat /\ ks[i].redirect \in 0 .. L
  <2>1. ASSUME NEW i \in 1 .. L, NEW r, r = Unmasked \/ r \in 1 .. i - 1
        PROVE  r \in Nat /\ r \in 0 .. L
    BY <1>1, <2>1 DEF Unmasked
  <2> HIDE DEF ks, L
  <2> QED BY <1>2, <2>1
<1> DEFINE K(i) == [root |-> chain[i].kernel.root, dep |-> chain[i].dep, redirect |-> ks[i].redirect]
<1>5. \A i \in 1 .. L : K(i) \in KernelEntry
  BY <1>3, <1>4 DEF KernelEntry
<1>6. ks = [i \in 1 .. L |-> K(i)]
  BY <1>2
<1> HIDE DEF ks, L, K
<1>7. ks \in Seq(KernelEntry) /\ Len(ks) = L
  BY <1>1, <1>5, <1>6
<1> QED BY <1>4, <1>7 DEF IsKernelList, ks

PassInv ==
  /\ ProfileInv
  /\ HandedOver
  /\ outcome = "waiting" => placed = << >> /\ batch = << >> /\ schedule = << >> /\ pos = 0
  /\ outcome # "waiting" => Loop!IndInv
  /\ outcome # "error"

LEMMA PassStarts == PassInit => PassInv
BY ProfileInit DEF PassInit, PassInv, HandedOver

LEMMA LowerPass == PassInv /\ Lower => PassInv'
<1> SUFFICES ASSUME PassInv, Lower PROVE PassInv'
  OBVIOUS
<1>1. ProfileInv'
  BY ProfileNext DEF PassInv, Lower
<1>2. status = "lowering"
  BY DEF Lower, Next, StartSweep, Return, SkipRoot, StartKernel, FinishKernel, BetweenKernels,
         EvalNode, VisitLeaf, VisitSplit, VisitFused, FinishNode, Running
<1>3. outcome = "waiting" /\ UNCHANGED scheduleVars
  BY <1>2 DEF PassInv, HandedOver, Lower
<1> QED BY <1>1, <1>3 DEF PassInv, HandedOver, scheduleVars

LEMMA HandOverPass == PassInv /\ HandOver => PassInv'
<1> SUFFICES ASSUME PassInv, HandOver PROVE PassInv'
  OBVIOUS
<1>1. ProfileInv'
  BY ProfileNext DEF PassInv, HandOver
<1>2. HandedOver'
  BY DEF HandOver, HandedOver, vars, lowerVars
<1>3. Loop!Init'
  <2>1. kernels' \in {ks \in Seq(KernelEntry) : IsKernelList(ks)}
    BY ListIsKernelList DEF PassInv, HandOver
  <2> QED BY <2>1 DEF PassInv, HandOver, Loop!Init
<1>4. Loop!IndInv' /\ outcome' = "running"
  BY <1>3, LoopStarts DEF HandOver
<1> QED BY <1>1, <1>2, <1>4 DEF PassInv

\* No entry is redirected to a redirected one, so the loop never gives up.
LEMMA SchedulePass == PassInv /\ Schedule => PassInv'
<1> SUFFICES ASSUME PassInv, Schedule PROVE PassInv'
  OBVIOUS
<1>1. ProfileInv'
  BY ProfileNext DEF PassInv, Schedule
<1>2. /\ outcome = "running" /\ outcome' # "waiting" /\ kernels' = kernels
      /\ outcome' = "error" => Scheduler!Fail
  BY DEF Schedule, Scheduler!Next, Scheduler!StartSweep, Scheduler!Return, Scheduler!Fail,
         Scheduler!Skip, Scheduler!Postpone, Scheduler!Place, Scheduler!EndSweep
<1>3. HandedOver'
  BY <1>2 DEF PassInv, Schedule, HandedOver, vars, lowerVars
<1>4. Loop!IndInv'
  BY <1>2, SameLoop, LoopAssumption, Loop!LoopNext DEF PassInv, Schedule
<1>5. ~Scheduler!Fail
  <2>1. DOMAIN kernels = 1 .. Len(chain) /\ Len(chain) \in Nat
        /\ \A i \in 1 .. Len(chain) :
             kernels[i].redirect = Unmasked \/ kernels[kernels[i].redirect].redirect = Unmasked
    BY <1>2, EliminatedAreUnkept DEF PassInv
  <2>2. Len(kernels) = Len(chain)
    BY <1>2, ListIsKernelList, <2>1 DEF PassInv, HandedOver
  <2> QED BY <2>1, <2>2
          DEF Scheduler!Fail, Scheduler!DoublyRedirected, Scheduler!Target, Scheduler!TargetIn,
              Scheduler!N, Scheduler!Unmasked, Unmasked
<1> QED BY <1>1, <1>2, <1>3, <1>4, <1>5 DEF PassInv

LEMMA PassSteps == PassInv /\ [PassNext]_passVars => PassInv'
<1> SUFFICES ASSUME PassInv, UNCHANGED passVars PROVE PassInv'
  BY LowerPass, HandOverPass, SchedulePass DEF PassNext
<1>1. UNCHANGED vars /\ UNCHANGED scheduleVars
  BY DEF passVars
<1>2. ProfileInv'
  BY <1>1, ProfileNext DEF PassInv
<1>3. HandedOver'
  BY <1>1 DEF PassInv, HandedOver, vars, lowerVars, scheduleVars
<1>4. outcome # "waiting" => Loop!IndInv'
  BY <1>1, LoopAssumption, Loop!LoopNext DEF PassInv, scheduleVars, Loop!vars
<1> QED BY <1>1, <1>2, <1>3, <1>4 DEF PassInv, scheduleVars

\* Of the kernels of the list, only those of unread outputs whose value nobody keeps are ever
\* taken for one another.
THEOREM OnlyUnkeptOutputsAreEliminated == PassSpec => []EliminationIsSound
<1>1. PassInv => EliminationIsSound
  <2> SUFFICES ASSUME PassInv, outcome # "waiting" PROVE EliminationIsSound
    BY DEF EliminationIsSound
  <2>1. /\ DOMAIN kernels = 1 .. Len(chain)
        /\ \A i \in 1 .. Len(chain) :
             /\ kernels[i].root = chain[i].kernel.root /\ chain[i].kernel.root \in Nodes(graph)
             /\ \/ kernels[i].redirect = Unmasked
                \/ LET m == chain[i].kernel.root
                       n == chain[kernels[i].redirect].kernel.root
                   IN  /\ m # n /\ m \in Sinks(graph) /\ n \in Sinks(graph)
                       /\ ~HasSavedParam(m) /\ ~HasSavedParam(n)
    BY EliminatedAreUnkept DEF PassInv
  <2>2. \A i \in DOMAIN kernels :
          kernels[i].redirect # Unmasked =>
            IsSink(graph, kernels[i].root) /\ ~HasSavedParam(kernels[i].root)
    BY <2>1 DEF Sinks
  <2>3. OneUnkeptOutput => \A i \in DOMAIN kernels : kernels[i].redirect = Unmasked
    BY <2>1 DEF OneUnkeptOutput
  <2>4. OneUnkeptOutput => TwinsAgree(chain, kernels)
    BY <2>3 DEF TwinsAgree, TargetIn
  <2> QED BY <2>2, <2>4 DEF EliminationIsSound
<1> QED BY <1>1, PassStarts, PassSteps, PTL DEF PassSpec

\* The scheduler finds no redirection to a redirected entry, which would make it return an error.
THEOREM SchedulingNeverFails == PassSpec => [](outcome # "error")
BY PassStarts, PassSteps, PTL DEF PassSpec, PassInv

\* The schedule, once there is a list: its entries, each launching the kernel it stands for.
LEMMA ScheduleFacts ==
  ASSUME PassInv, outcome # "waiting"
  PROVE  /\ Len(schedule) \in Nat /\ DOMAIN schedule = 1 .. Len(schedule)
         /\ Len(kernels) = Len(chain)
         /\ \A p \in 1 .. Len(schedule) :
              /\ schedule[p].entry \in 1 .. Len(chain) /\ schedule[p].kernel \in 1 .. Len(chain)
              /\ kernels[schedule[p].entry].redirect = Unmasked =>
                   schedule[p].kernel = schedule[p].entry
         /\ outcome = "done" => {schedule[p].entry : p \in 1 .. Len(schedule)} = 1 .. Len(chain)
<1>1. Loop!IndInv /\ Loop!TypeOK /\ Loop!Ledger
  BY DEF PassInv, Loop!IndInv
<1>2. Len(kernels) = Len(chain) /\ Loop!N = Len(chain)
  <2>1. kernels \in Seq(KernelEntry) /\ DOMAIN kernels = 1 .. Len(chain) /\ Len(chain) \in Nat
    BY ListIsKernelList, EliminatedAreUnkept DEF PassInv, HandedOver
  <2> QED BY <2>1 DEF Loop!N
<1>3. schedule \in Seq([entry : 1 .. Len(chain), kernel : 1 .. Len(chain)])
  BY <1>1, <1>2 DEF Loop!TypeOK
<1>4. Len(schedule) \in Nat /\ DOMAIN schedule = 1 .. Len(schedule)
      /\ \A p \in 1 .. Len(schedule) :
           schedule[p].entry \in 1 .. Len(chain) /\ schedule[p].kernel \in 1 .. Len(chain)
  <2> DEFINE E == [entry : 1 .. Len(chain), kernel : 1 .. Len(chain)]
  <2>1. \A e \in E : e.entry \in 1 .. Len(chain) /\ e.kernel \in 1 .. Len(chain)
    OBVIOUS
  <2> HIDE DEF E
  <2>2. schedule \in Seq(E)
    BY <1>3 DEF E
  <2>3. \A p \in 1 .. Len(schedule) : schedule[p] \in E
    BY <2>2
  <2> QED BY <2>1, <2>2, <2>3
<1>5. \A p \in 1 .. Len(schedule) :
        kernels[schedule[p].entry].redirect = Unmasked => schedule[p].kernel = schedule[p].entry
  BY <1>1 DEF Loop!Ledger, Loop!Target, Loop!TargetIn, Loop!Unmasked, Unmasked
<1>6. outcome = "done" => {schedule[p].entry : p \in 1 .. Len(schedule)} = 1 .. Len(chain)
  BY <1>1, <1>2, LoopAssumption, Loop!DoneIsComplete DEF Loop!ReturnedScheduleIsComplete
<1> QED BY <1>2, <1>4, <1>5, <1>6

\* A returned schedule stores all that is kept: the value of a node whose operation saves itself,
\* so that of the last one unless it is a gelu, and of a gelu the tanh that its gradient reads.
THEOREM KeptValuesAreComputed == PassSpec => []EveryKeptValueIsComputed
<1>1. PassInv /\ ValuesInv => EveryKeptValueIsComputed
  <2> DEFINE Stored(k, n) == SavedParam(n) \in (IF AutoSaved(n) THEN k.results ELSE k.writes)
  <2> SUFFICES ASSUME PassInv, ValuesInv, outcome = "done", OneUnkeptOutput,
                      NEW n \in Computed, HasSavedParam(n)
               PROVE  \E p \in DOMAIN schedule : Stored(chain[schedule[p].kernel].kernel, n)
    BY DEF EveryKeptValueIsComputed, Launched, AutoSaved
  <2>1. \E i \in DOMAIN chain : Stored(chain[i].kernel, n)
    BY LoweredFacts
       DEF PassInv, HandedOver, EveryNodeIsComputed, WrittenBy, ResultsOf, KernelsOf
  <2> HIDE DEF Stored
  <2>2. DOMAIN chain = 1 .. Len(chain)
        /\ \A i \in 1 .. Len(chain) : kernels[i].redirect = Unmasked
    BY EliminatedAreUnkept DEF PassInv, OneUnkeptOutput
  <2>3. PICK i \in 1 .. Len(chain) : Stored(chain[i].kernel, n)
    BY <2>1, <2>2
  <2>4. DOMAIN schedule = 1 .. Len(schedule)
        /\ i \in {schedule[p].entry : p \in 1 .. Len(schedule)}
        /\ \A p \in 1 .. Len(schedule) :
             /\ schedule[p].entry \in 1 .. Len(chain)
             /\ kernels[schedule[p].entry].redirect = Unmasked =>
                  schedule[p].kernel = schedule[p].entry
    BY <2>3, ScheduleFacts
  <2>5. PICK p \in 1 .. Len(schedule) : schedule[p].entry = i
    BY <2>4
  <2> QED BY <2>2, <2>3, <2>4, <2>5
<1>2. PassInit => ValuesInv
  BY ValuesInit DEF PassInit
<1>3. ValuesInv /\ [PassNext]_passVars => ValuesInv'
  BY ValuesNext DEF PassNext, Lower, HandOver, Schedule, passVars
<1> QED BY <1>1, <1>2, <1>3, PassStarts, PassSteps, PTL DEF PassSpec

\* Nor can the loop go on sweeping for ever: with one such output at most, every sweep over the
\* list of a graph places a kernel.
SweepsOfThePassMakeProgress ==
  OneUnkeptOutput /\ outcome = "running" => ~(pos = Len(kernels) + 1 /\ batch = << >>)

\* So, of a graph with at most one output that is not kept, the loop cannot spin.
THEOREM PassNeverSpins == PassSpec => []SweepsOfThePassMakeProgress
<1>1. PassInv => SweepsOfThePassMakeProgress
  <2> SUFFICES ASSUME PassInv, OneUnkeptOutput, outcome = "running"
               PROVE  ~(pos = Len(kernels) + 1 /\ batch = << >>)
    BY DEF SweepsOfThePassMakeProgress
  <2>1. kernels = ForwardList(Order)
    <3>1. /\ DOMAIN kernels = 1 .. Len(chain) /\ Len(chain) \in Nat /\ DOMAIN chain = 1 .. Len(chain)
          /\ \A i \in 1 .. Len(chain) :
               kernels[i] = [root |-> chain[i].kernel.root, dep |-> chain[i].dep,
                             redirect |-> Unmasked]
      BY EliminatedAreUnkept DEF PassInv, OneUnkeptOutput
    <3>2. ForwardList(Order) =
            [i \in DOMAIN chain |-> [root |-> Order[i], dep |-> chain[i].dep, redirect |-> Unmasked]]
      BY ListIs DEF PassInv, ProfileInv, LowerInv, ChainIsForwardList, Order
    <3>3. \A i \in DOMAIN chain : Order[i] = chain[i].kernel.root
      BY DEF Order
    <3>4. kernels = [i \in DOMAIN chain |-> kernels[i]]
      BY <3>1, ListIsKernelList DEF PassInv, HandedOver
    <3> QED BY <3>1, <3>2, <3>3, <3>4
  <2>2. Schedulable(kernels)
    BY <2>1, ListIs, ForwardListsAreSchedulable DEF PassInv, ProfileInv, LowerInv
  <2>3. Loop!Schedulable(kernels)
    BY <2>2 DEF Schedulable, Loop!Schedulable, TargetIn, Loop!TargetIn, RootIn, Loop!RootIn,
                Unmasked, Loop!Unmasked
  <2> QED BY <2>3, LoopAssumption, Loop!SweepsAreFruitful DEF PassInv, Loop!SweepsMakeProgress, Loop!N
<1> QED BY <1>1, PassStarts, PassSteps, PTL DEF PassSpec

-----------------------------------------------------------------------------
(***************************************************************************)
(* Expressions.  A value of an expression is met once, through its one     *)
(* user.  So a kernel that is split at a node is there before the node's   *)
(* kernel is, depends on it, and is launched after it.                     *)
(***************************************************************************)

\* What kernels compute themselves, and what they have met.
Fused == Range(resolved) \cup {n \in Nodes(graph) : Finish(n) \in Range(stack)}
UserFused(n) == \E u \in Fused : n \in Range(graph[u].inputs)

RootIsFirst == kernel # NoKernel /\ Visit(kernel.root) \in Range(stack) => stack = << Visit(kernel.root) >>

\* A node that is about to be visited is met for the first time, unless it is the root.
VisitsAreFresh ==
  \A n \in Computed :
    Visit(n) \in Range(stack) =>
      /\ n \notin Fused
      /\ n # kernel.root => UserFused(n) /\ SavedParam(n) \notin ReadSoFar
VisitedOnce ==
  \A n \in Computed : \A j, k \in DOMAIN stack : stack[j] = Visit(n) /\ stack[k] = Visit(n) => j = k

\* Nothing is met but through its user.
UsersComeFirst ==
  \A n \in Computed \ Sinks(graph) :
    n \in Fused \cup Range(roots) \cup Range(todo) \cup Range(visited) => UserFused(n)

\* Where the kernel under way was split, and where the others were.
SplitsOfKernel ==
  kernel # NoKernel =>
    \A n \in Computed :
      SavedParam(n) \in kernel.reads =>
        n \notin Fused /\ n # kernel.root /\ n \in Range(visited)
SplitsOfChain ==
  \A i \in DOMAIN chain : \A n \in Computed :
    SavedParam(n) \in chain[i].kernel.reads =>
      /\ \A j \in 1 .. i : chain[j].kernel.root # n
      /\ n \in Fused \cup Range(roots) \cup Range(todo)
      /\ n \in Fused => n = kernel.root \/ \E j \in DOMAIN chain : chain[j].kernel.root = n

ExpressionInv ==
  /\ RootIsFirst /\ VisitsAreFresh /\ VisitedOnce /\ UsersComeFirst
  /\ SplitsOfKernel /\ SplitsOfChain

LEMMA ExpressionFacts ==
  ASSUME IndInv, ValuesUsedOnce(graph)
  PROVE  /\ OneUnkeptOutput
         /\ \A n \in Computed :
              /\ n \in Nodes(graph)
              /\ \A u, w \in Nodes(graph) :
                   n \in Range(graph[u].inputs) /\ n \in Range(graph[w].inputs) => u = w
              /\ \A u \in Nodes(graph) : \A p, q \in DOMAIN graph[u].inputs :
                   graph[u].inputs[p] = n /\ graph[u].inputs[q] = n => p = q
<1>1. IsGraph(graph) /\ OutputsMatchInputs(graph)
  BY GraphsAssumption DEF IndInv, TypeOK, Prepared
<1>2. ASSUME NEW m \in Sinks(graph), NEW n \in Sinks(graph) PROVE m = n
  <2>1. Cardinality(Sinks(graph)) = 1
    BY DEF ValuesUsedOnce
  <2>2. IsFiniteSet(Sinks(graph))
    <3>1. Sinks(graph) \in SUBSET (1 .. Len(graph)) /\ Len(graph) \in Nat
      BY <1>1, GraphFacts DEF Sinks, Nodes, IndInv
    <3>2. IsFiniteSet(1 .. Len(graph))
      BY <3>1, FS_Interval
    <3> HIDE DEF Sinks
    <3> QED BY <3>1, <3>2, FS_Subset
  <2>3. \E x : Sinks(graph) = {x}
    BY <2>1, <2>2, FS_Singleton
  <2> QED BY <1>2, <2>3
<1>3. OneUnkeptOutput
  BY <1>2 DEF OneUnkeptOutput
<1>4. \A n \in Computed : n \in Nodes(graph) /\ Len(graph[n].outputs) <= 1
  BY DEF ValuesUsedOnce, Computed
<1> QED BY <1>1, <1>3, <1>4, OneUse

\* What is loaded where a kernel was split was met through its user.
LEMMA LoadsHaveUsers ==
  ASSUME ExpressionInv, NEW n \in Computed \ Sinks(graph), SavedParam(n) \in ReadSoFar
  PROVE  UserFused(n)
<1>1. CASE kernel # NoKernel /\ SavedParam(n) \in kernel.reads
  BY <1>1 DEF ExpressionInv, SplitsOfKernel, UsersComeFirst
<1>2. CASE SavedParam(n) \in ReadBy(chain)
  <2>1. PICK i \in DOMAIN chain : SavedParam(n) \in chain[i].kernel.reads
    BY <1>2 DEF ReadBy, KernelsOf
  <2>2. n \in Fused \cup Range(roots) \cup Range(todo)
    BY <2>1 DEF ExpressionInv, SplitsOfChain
  <2> QED BY <2>2 DEF ExpressionInv, UsersComeFirst
<1> QED BY <1>1, <1>2 DEF ReadSoFar

LEMMA FusedKept ==
  ASSUME graph' = graph, Fused \subseteq Fused'
  PROVE  \A n : UserFused(n) => UserFused(n)'
BY DEF UserFused

\* Steps that start, evaluate and finish no kernel.
LEMMA LoopExpression ==
  ASSUME ExpressionInv,
         UNCHANGED << graph, saved, resolved, kernel, stack, visited, chain >>,
         Range(roots') \cup Range(todo') \subseteq Range(roots) \cup Range(todo),
         (Range(roots) \cup Range(todo)) \ Range(resolved) \subseteq Range(roots') \cup Range(todo')
  PROVE  ExpressionInv'
<1>1. Fused' = Fused
  BY DEF Fused, Finish
<1>2. \A n : UserFused(n)' <=> UserFused(n)
  BY <1>1 DEF UserFused
<1>3. ReadSoFar' = ReadSoFar
  BY DEF ReadSoFar, ReadBy, KernelsOf, NoKernel
<1>4. RootIsFirst' /\ VisitsAreFresh' /\ VisitedOnce'
  BY <1>1, <1>2, <1>3, SameGraph
     DEF ExpressionInv, RootIsFirst, VisitsAreFresh, VisitedOnce, NoKernel, Visit
<1>5. UsersComeFirst'
  BY <1>1, <1>2, SameGraph DEF ExpressionInv, UsersComeFirst
<1>6. SplitsOfKernel'
  BY <1>1, SameGraph DEF ExpressionInv, SplitsOfKernel, NoKernel
<1>7. Range(resolved) \subseteq Fused
  BY DEF Fused
<1>8. SplitsOfChain'
  BY <1>1, <1>7, SameGraph DEF ExpressionInv, SplitsOfChain
<1> QED BY <1>4, <1>5, <1>6, <1>8 DEF ExpressionInv

LEMMA LoopStepsExpression ==
  ASSUME LowerInv, ExpressionInv, StartSweep \/ Return \/ SkipRoot
  PROVE  ExpressionInv'
<1>1. UNCHANGED << graph, saved, resolved, kernel, stack, visited, chain >>
  BY DEF StartSweep, Return, SkipRoot
<1>2. /\ Range(roots') \cup Range(todo') \subseteq Range(roots) \cup Range(todo)
      /\ (Range(roots) \cup Range(todo)) \ Range(resolved) \subseteq Range(roots') \cup Range(todo')
  <2>1. CASE StartSweep
    BY <2>1 DEF StartSweep, Range
  <2>2. CASE Return
    BY <2>2 DEF Return
  <2>3. CASE SkipRoot
    <3>1. todo \in Seq(Nodes(graph)) /\ todo # << >> /\ todo' = Tail(todo) /\ roots' = roots
          /\ Head(todo) \in Range(resolved)
      BY <2>3 DEF SkipRoot, LowerInv, IndInv, TypeOK
    <3>2. Range(todo) = {Head(todo)} \cup Range(Tail(todo))
      BY <3>1, PoppedRange
    <3> QED BY <3>1, <3>2
  <2> QED BY <2>1, <2>2, <2>3
<1> QED BY <1>1, <1>2, LoopExpression

LEMMA StartKernelExpression ==
  ASSUME LowerInv, ExpressionInv, StartKernel
  PROVE  ExpressionInv'
<1> DEFINE root == Head(todo)
<1>1. /\ kernel = NoKernel /\ todo # << >> /\ root \notin Range(resolved)
      /\ UNCHANGED << graph, saved, roots, todo, resolved, chain >>
  BY DEF StartKernel, BetweenKernels
<1>2. root \in Nodes(graph) /\ Range(stack) = {}
  <2>1. todo \in Seq(Nodes(graph))
    BY DEF LowerInv, IndInv, TypeOK
  <2> QED BY <1>1, <2>1, Popped, NoFramesBetweenKernels DEF LowerInv
<1>3. CASE graph[root].shape = << >>
  <2>1. UNCHANGED << kernel, stack, visited >>
    BY <1>3 DEF StartKernel
  <2> QED BY <1>1, <2>1, LoopExpression
<1>4. CASE graph[root].shape # << >>
  <2>1. /\ kernel' = NewKernel(graph, root) /\ stack' = << Visit(root) >> /\ visited' = << >>
        /\ kernel'.root = root /\ kernel'.reads = {}
    BY <1>4 DEF StartKernel, NewKernel
  <2>2. Range(stack') = {Visit(root)} /\ DOMAIN stack' = {1} /\ Range(visited') = {}
    BY <2>1 DEF Range
  <2>3. Fused = Range(resolved) /\ Fused' = Fused
    BY <1>1, <1>2, <2>2 DEF Fused, Visit, Finish
  <2>4. \A n : UserFused(n)' <=> UserFused(n)
    BY <1>1, <2>3 DEF UserFused
  <2>5. RootIsFirst' /\ VisitedOnce'
    BY <2>1, <2>2 DEF RootIsFirst, VisitedOnce
  <2>6. VisitsAreFresh'
    BY <1>1, <2>1, <2>2, <2>3 DEF VisitsAreFresh, Visit
  <2>7. UsersComeFirst'
    BY <1>1, <2>2, <2>3, <2>4, SameGraph DEF ExpressionInv, UsersComeFirst
  <2>8. SplitsOfKernel'
    BY <2>1 DEF SplitsOfKernel
  <2>9. SplitsOfChain'
    <3>1. \A n \in Computed : n # kernel.root
      BY <1>1, NodeFacts DEF NoKernel, Computed, LowerInv
    <3> QED BY <1>1, <2>3, <3>1, SameGraph DEF ExpressionInv, SplitsOfChain
  <2> QED BY <2>5, <2>6, <2>7, <2>8, <2>9 DEF ExpressionInv
<1> QED BY <1>3, <1>4

LEMMA FinishKernelExpression ==
  ASSUME LowerInv, ExpressionInv, FinishKernel
  PROVE  ExpressionInv'
<1> DEFINE root == kernel.root
           fresh == Nodes(graph) \ (Range(roots) \cup {root})
           L == Len(chain)
<1>1. /\ kernel # NoKernel /\ stack = << >>
      /\ roots' = PushAll(roots, visited, fresh)
      /\ todo' = Tail(todo) /\ kernel' = NoKernel
      /\ UNCHANGED << graph, saved, resolved, stack, visited >>
  BY DEF FinishKernel
<1>2. root = Head(todo) /\ todo # << >> /\ root \in Range(resolved)
  BY <1>1 DEF LowerInv, IndInv, KernelIsNew, RootIsPending
<1>3. /\ Range(todo) = {root} \cup Range(todo')
      /\ Range(roots') = Range(roots) \cup (Range(visited) \cap fresh)
      /\ Range(visited) \subseteq Nodes(graph)
  <2>1. /\ todo \in Seq(Nodes(graph)) /\ roots \in Seq(Nodes(graph))
        /\ visited \in Seq(Nodes(graph))
    BY DEF LowerInv, IndInv, TypeOK
  <2>2. Range(todo) = {root} \cup Range(todo')
    BY <1>1, <1>2, <2>1, PoppedRange
  <2>3. Range(visited) \subseteq Nodes(graph)
    BY RangesAreNodes DEF LowerInv
  <2> HIDE DEF fresh
  <2> QED BY <1>1, <2>1, <2>2, <2>3, PushAllType
<1>4. Range(stack) = {} /\ Range(stack') = {} /\ DOMAIN stack' = {}
  BY <1>1 DEF Range
<1>5. Fused = Range(resolved) /\ Fused' = Fused /\ root \in Fused
  BY <1>1, <1>2, <1>4 DEF Fused
<1>6. \A n : UserFused(n)' <=> UserFused(n)
  BY <1>1, <1>5 DEF UserFused
<1>7. RootIsFirst' /\ VisitsAreFresh' /\ VisitedOnce' /\ SplitsOfKernel'
  BY <1>1, <1>4 DEF RootIsFirst, VisitsAreFresh, VisitedOnce, SplitsOfKernel
<1>8. UsersComeFirst'
  BY <1>1, <1>3, <1>5, <1>6, SameGraph DEF ExpressionInv, UsersComeFirst
<1>9. /\ L \in Nat /\ DOMAIN chain = 1 .. L /\ DOMAIN chain' = 1 .. L + 1
      /\ chain'[L + 1].kernel = kernel
      /\ \A i \in 1 .. L : chain'[i].kernel = chain[i].kernel
  <2>1. /\ L \in Nat /\ DOMAIN chain = 1 .. L /\ DOMAIN chain' = 1 .. L + 1
        /\ chain'[L + 1] = [kernel |-> kernel, dep |-> {}]
        /\ \A i \in 1 .. L : chain'[i].kernel = chain[i].kernel
    BY ChainGrows DEF LowerInv
  <2> HIDE DEF L
  <2> QED BY <2>1
<1>10. ASSUME NEW i \in 1 .. L + 1, NEW n \in Computed, SavedParam(n) \in chain'[i].kernel.reads
       PROVE  /\ \A j \in 1 .. i : chain'[j].kernel.root # n
              /\ n \in Fused \cup Range(roots') \cup Range(todo')
              /\ n \in Fused => \E j \in DOMAIN chain' : chain'[j].kernel.root = n
  <2>1. CASE i \in 1 .. L
    <3>1. /\ \A j \in 1 .. i : chain[j].kernel.root # n
          /\ n \in Fused \cup Range(roots) \cup Range(todo)
          /\ n \in Fused => n = root \/ \E j \in DOMAIN chain : chain[j].kernel.root = n
      BY <1>9, <1>10, <2>1 DEF ExpressionInv, SplitsOfChain
    <3>2. \A j \in 1 .. i : j \in 1 .. L
      BY <1>9, <2>1
    <3>3. L + 1 \in DOMAIN chain' /\ \A j \in 1 .. L : j \in DOMAIN chain'
      BY <1>9
    <3>4. n \in Fused => \E j \in DOMAIN chain' : chain'[j].kernel.root = n
      BY <1>9, <3>1, <3>3
    <3>5. n \notin Fused => n \in Range(roots') \cup Range(todo')
      BY <1>3, <1>5, <3>1
    <3> QED BY <1>9, <3>1, <3>2, <3>4, <3>5
  <2>2. CASE i = L + 1
    <3>1. n \notin Fused /\ n # root /\ n \in Range(visited)
      BY <1>1, <1>9, <1>10, <2>2 DEF ExpressionInv, SplitsOfKernel
    <3>2. n \in Range(roots')
      BY <1>3, <3>1
    <3>3. \A j \in 1 .. L : chain[j].kernel.root \in Fused
      BY <1>5, <1>9 DEF LowerInv, IndInv, ListSoFar
    <3>4. \A j \in 1 .. i : j = L + 1 \/ j \in 1 .. L
      BY <1>9, <2>2
    <3> QED BY <1>9, <3>1, <3>2, <3>3, <3>4
  <2> QED BY <1>9, <2>1, <2>2
<1>11. SplitsOfChain'
  <2> HIDE DEF root, L, fresh
  <2>1. Computed' = Computed /\ \A n \in Computed : SavedParam(n)' = SavedParam(n)
    BY <1>1, SameGraph
  <2>2. \A i \in DOMAIN chain' : \A n \in Computed : SavedParam(n) \in chain'[i].kernel.reads =>
          /\ \A j \in 1 .. i : chain'[j].kernel.root # n
          /\ n \in Fused' \cup Range(roots') \cup Range(todo')
          /\ n \in Fused' => \E j \in DOMAIN chain' : chain'[j].kernel.root = n
    BY <1>5, <1>9, <1>10
  <2> QED BY <2>1, <2>2 DEF SplitsOfChain
<1> QED BY <1>7, <1>8, <1>11 DEF ExpressionInv

\* Steps of the evaluation that push no visits: the frames of the visits are those below the top,
\* d places up.
LEMMA QuietEval ==
  ASSUME ExpressionInv, UNCHANGED << graph, saved, roots, todo, chain >>,
         kernel # NoKernel, kernel' # NoKernel, kernel'.root = kernel.root,
         Fused \subseteq Fused', Fused' \cap Computed \subseteq Fused,
         NEW d \in {0, 1}, DOMAIN stack \subseteq Nat, DOMAIN stack' \subseteq Nat,
         \A j \in DOMAIN stack' : \A n : stack'[j] = Visit(n) =>
           j + d \in DOMAIN stack /\ j + d # 1 /\ stack[j + d] = Visit(n),
         \A n \in Computed : SavedParam(n) \in kernel'.reads =>
           \/ SavedParam(n) \in kernel.reads
           \/ /\ n \notin Fused /\ n # kernel.root /\ n \in Range(visited')
              /\ \A j \in DOMAIN stack : stack[j] = Visit(n) => j = 1,
         Range(visited) \subseteq Range(visited'),
         \A n \in Computed \ Sinks(graph) :
           n \in Range(visited') => n \in Range(visited) \/ UserFused(n)
  PROVE  ExpressionInv'
<1>1. \A n : UserFused(n) => UserFused(n)'
  BY FusedKept
<1>2. \A n : Visit(n) \in Range(stack') =>
        \E j \in DOMAIN stack : j # 1 /\ stack[j] = Visit(n)
  BY DEF Range
<1>3. \A n : Visit(n) \in Range(stack') => Visit(n) \in Range(stack)
  BY <1>2 DEF Range
<1>4. RootIsFirst'
  <2>1. Visit(kernel.root) \notin Range(stack')
    <3> SUFFICES ASSUME Visit(kernel.root) \in Range(stack') PROVE FALSE
      OBVIOUS
    <3>1. PICK j \in DOMAIN stack : j # 1 /\ stack[j] = Visit(kernel.root)
      BY <1>2
    <3>2. stack = << Visit(kernel.root) >>
      BY <1>3 DEF ExpressionInv, RootIsFirst
    <3>3. DOMAIN stack = {1}
      BY <3>2
    <3> QED BY <3>1, <3>3
  <2>2. Visit(kernel'.root) \notin Range(stack')
    BY <2>1
  <2> QED BY <2>2, SameGraph DEF RootIsFirst, Visit
<1>5. \A n \in Computed : Visit(n) \in Range(stack') /\ n # kernel.root =>
        SavedParam(n) \notin ReadSoFar'
  <2>1. ReadSoFar = ReadBy(chain) \cup kernel.reads /\ ReadSoFar' = ReadBy(chain) \cup kernel'.reads
    BY DEF ReadSoFar, ReadBy, KernelsOf, NoKernel
  <2> SUFFICES ASSUME NEW n \in Computed, Visit(n) \in Range(stack'), n # kernel.root,
                      SavedParam(n) \in ReadSoFar'
               PROVE  FALSE
    OBVIOUS
  <2>2. SavedParam(n) \notin ReadSoFar
    BY <1>3 DEF ExpressionInv, VisitsAreFresh
  <2>3. \A j \in DOMAIN stack : stack[j] = Visit(n) => j = 1
    BY <2>1, <2>2
  <2> QED BY <1>2, <2>3
<1>6. VisitsAreFresh'
  <2>1. \A n \in Computed : Visit(n) \in Range(stack') =>
          /\ n \notin Fused'
          /\ n # kernel'.root => UserFused(n)' /\ SavedParam(n) \notin ReadSoFar'
    BY <1>1, <1>3, <1>5 DEF ExpressionInv, VisitsAreFresh
  <2> QED BY <2>1, SameGraph DEF VisitsAreFresh, Visit
<1>7. VisitedOnce'
  <2>1. ASSUME NEW n \in Computed, NEW j \in DOMAIN stack', NEW k \in DOMAIN stack',
               stack'[j] = Visit(n), stack'[k] = Visit(n)
        PROVE  j = k
    <3>1. j + d \in DOMAIN stack /\ k + d \in DOMAIN stack
          /\ stack[j + d] = Visit(n) /\ stack[k + d] = Visit(n)
      BY <2>1
    <3>2. j + d = k + d
      BY <3>1 DEF ExpressionInv, VisitedOnce
    <3> QED BY <3>2
  <2> QED BY <2>1, SameGraph DEF VisitedOnce, Visit
<1>8. UsersComeFirst'
  <2>1. \A n \in Computed \ Sinks(graph) :
          n \in Fused' \cup Range(roots') \cup Range(todo') \cup Range(visited') => UserFused(n)'
    BY <1>1 DEF ExpressionInv, UsersComeFirst
  <2> QED BY <2>1, SameGraph DEF UsersComeFirst
<1>9. SplitsOfKernel'
  <2>1. \A n \in Computed : SavedParam(n) \in kernel'.reads =>
          n \notin Fused' /\ n # kernel'.root /\ n \in Range(visited')
    BY DEF ExpressionInv, SplitsOfKernel
  <2> QED BY <2>1, SameGraph DEF SplitsOfKernel
<1>10. SplitsOfChain'
  <2>1. \A i \in DOMAIN chain : \A n \in Computed : SavedParam(n) \in chain[i].kernel.reads =>
          /\ \A j \in 1 .. i : chain[j].kernel.root # n
          /\ n \in Fused' \cup Range(roots') \cup Range(todo')
          /\ n \in Fused' => n = kernel'.root \/ \E j \in DOMAIN chain : chain[j].kernel.root = n
    BY DEF ExpressionInv, SplitsOfChain
  <2> QED BY <2>1, SameGraph DEF SplitsOfChain
<1> QED BY <1>4, <1>6, <1>7, <1>8, <1>9, <1>10 DEF ExpressionInv

LEMMA FailExpression ==
  ASSUME ExpressionInv, Fail
  PROVE  ExpressionInv'
BY LoopExpression DEF Fail

\* The frames of a run: the one at the top, and those below it.
LEMMA RunningStack ==
  ASSUME ProfileInv, NEW do, Running(do)
  PROVE  LET rest == Tail(stack) IN
         /\ Len(stack) \in Nat \ {0} /\ DOMAIN stack = 1 .. Len(stack) /\ 1 \in DOMAIN stack
         /\ DOMAIN rest = 1 .. Len(stack) - 1
         /\ \A i \in DOMAIN rest : i + 1 \in DOMAIN stack /\ rest[i] = stack[i + 1]
         /\ stack[1] = IF do = "visit" THEN Visit(node) ELSE stack[1]
         /\ do = "finish" => stack[1] = Finish(node)
<1>1. stack # << >> /\ stack \in Seq(Frame) /\ Head(stack).do = do /\ Head(stack).node = node
  BY RunningProfile DEF Running, node
<1>2. Head(stack) = stack[1] /\ Head(stack) = [do |-> do, node |-> node]
  <2>1. Head(stack) \in Frame /\ Head(stack) = stack[1]
    <3> HIDE DEF Frame
    <3> QED BY <1>1, Popped
  <2> QED BY <1>1, <2>1 DEF Frame
<1>3. /\ DOMAIN stack = 1 .. Len(stack) /\ DOMAIN Tail(stack) = 1 .. Len(stack) - 1
      /\ \A i \in DOMAIN Tail(stack) : i + 1 \in DOMAIN stack /\ Tail(stack)[i] = stack[i + 1]
      /\ Len(stack) \in Nat \ {0}
  <2> HIDE DEF Frame
  <2> QED BY <1>1, PoppedRange, Popped
<1>4. 1 \in DOMAIN stack
  BY <1>3
<1> QED BY <1>2, <1>3, <1>4 DEF Visit, Finish

LEMMA VisitLeafExpression ==
  ASSUME ProfileInv, ProfileInv', ExpressionInv, VisitLeaf
  PROVE  ExpressionInv'
<1>1. CASE graph[node].op = "input" /\ ~HasInputParam(node)
  BY <1>1, FailExpression DEF VisitLeaf
<1>2. CASE ~(graph[node].op = "input" /\ ~HasInputParam(node))
  <2>1. /\ kernel' = IF graph[node].op = "input" THEN Load(Seen, In(node)) ELSE Seen
        /\ stack' = << Finish(node) >> \o Tail(stack)
        /\ UNCHANGED << graph, saved, roots, todo, resolved, visited, chain >>
        /\ Running("visit") /\ is_leaf(graph[node].op)
    BY <1>2 DEF VisitLeaf
  <2>2. /\ kernel # NoKernel /\ kernel.root \in Nodes(graph) /\ node \in Nodes(graph)
        /\ stack \in Seq(Frame) /\ stack # << >>
    BY <2>1, RunningProfile
  <2>3. /\ kernel'.root = kernel.root
        /\ kernel'.reads \subseteq kernel.reads \cup {In(node)}
    BY <2>1, SeenProfile, KernelFacts, KernelTensors
  <2>4. kernel' # NoKernel
    <3>1. kernel'.root # 0
      BY <2>2, <2>3, NodeFacts DEF ProfileInv, LowerInv
    <3> QED BY <3>1 DEF NoKernel
  <2>5. DOMAIN stack' = DOMAIN stack /\ stack'[1] = Finish(node)
        /\ \A j \in DOMAIN stack : j # 1 => stack'[j] = stack[j]
    <3>1. Finish(node) \in Frame
      BY <2>2 DEF Finish, Frame
    <3> DEFINE top == Finish(node)
    <3> HIDE DEF Frame, top
    <3>2. top \in Frame /\ stack' = << top >> \o Tail(stack)
      BY <2>1, <3>1 DEF top
    <3>3. DOMAIN stack' = DOMAIN stack /\ stack'[1] = top
          /\ \A j \in DOMAIN stack : j # 1 => stack'[j] = stack[j]
      BY <2>2, <3>2, TopReplaced
    <3> QED BY <3>3 DEF top
  <2>6. /\ DOMAIN stack \subseteq Nat /\ stack[1] = Visit(node) /\ 1 \in DOMAIN stack
    BY <2>1, RunningStack
  <2>7. \A j \in DOMAIN stack' : \A n : stack'[j] = Visit(n) =>
          j + 0 \in DOMAIN stack /\ j + 0 # 1 /\ stack[j + 0] = Visit(n)
    <3> SUFFICES ASSUME NEW j \in DOMAIN stack', NEW n, stack'[j] = Visit(n)
                 PROVE  j + 0 \in DOMAIN stack /\ j + 0 # 1 /\ stack[j + 0] = Visit(n)
      OBVIOUS
    <3>1. j # 1
      BY <2>5 DEF Visit, Finish
    <3>2. j + 0 = j
      BY <2>5, <2>6
    <3> QED BY <2>5, <3>1, <3>2
  <2>8. Fused \subseteq Fused' /\ Fused' \cap Computed \subseteq Fused
    <3>1. \A n : Finish(n) \in Range(stack) => Finish(n) \in Range(stack')
      <4> SUFFICES ASSUME NEW n, Finish(n) \in Range(stack) PROVE Finish(n) \in Range(stack')
        OBVIOUS
      <4>1. PICK j \in DOMAIN stack : stack[j] = Finish(n)
        BY DEF Range
      <4>2. j # 1
        BY <2>6, <4>1 DEF Visit, Finish
      <4> QED BY <2>5, <4>1, <4>2 DEF Range
    <3>2. \A n : Finish(n) \in Range(stack') => Finish(n) \in Range(stack) \/ n = node
      <4> SUFFICES ASSUME NEW n, Finish(n) \in Range(stack')
                   PROVE  Finish(n) \in Range(stack) \/ n = node
        OBVIOUS
      <4>1. PICK j \in DOMAIN stack' : stack'[j] = Finish(n)
        BY DEF Range
      <4> QED BY <2>5, <4>1 DEF Range, Finish
    <3> QED BY <2>1, <3>1, <3>2 DEF Fused, Computed, Finish
  <2>9. \A n \in Computed : SavedParam(n) \in kernel'.reads => SavedParam(n) \in kernel.reads
    BY <2>3, SavedDistinct
  <2>10. Range(visited') = Range(visited) /\ DOMAIN stack' \subseteq Nat
    BY <2>1, <2>5, <2>6
  <2> QED BY <2>1, <2>2, <2>3, <2>4, <2>6, <2>7, <2>8, <2>9, <2>10, QuietEval
<1> QED BY <1>1, <1>2

LEMMA VisitSplitExpression ==
  ASSUME ProfileInv, ProfileInv', ExpressionInv, VisitSplit
  PROVE  ExpressionInv'
<1>1. CASE ~HasSavedParam(node)
  BY <1>1, FailExpression DEF VisitSplit
<1>2. CASE HasSavedParam(node)
  <2>1. /\ kernel' = Load(Seen, SavedParam(node))
        /\ stack' = Tail(stack) /\ visited' = Visited
        /\ UNCHANGED << graph, saved, roots, todo, resolved, chain >>
        /\ Running("visit") /\ MustSplit /\ ~is_leaf(graph[node].op)
    BY <1>2 DEF VisitSplit
  <2>2. /\ kernel # NoKernel /\ kernel.root \in Nodes(graph) /\ node \in Nodes(graph)
        /\ Range(stack) = {Head(stack)} \cup Range(Tail(stack))
        /\ Head(stack).do = "visit"
    BY <2>1, RunningProfile DEF Running
  <2>3. /\ kernel'.root = kernel.root
        /\ kernel'.reads \subseteq kernel.reads \cup {SavedParam(node)}
    BY <2>1, SeenProfile, KernelFacts, KernelTensors
  <2>4. kernel' # NoKernel
    <3>1. kernel'.root # 0
      BY <2>2, <2>3, NodeFacts DEF ProfileInv, LowerInv
    <3> QED BY <3>1 DEF NoKernel
  <2>5. /\ DOMAIN stack \subseteq Nat /\ stack[1] = Visit(node) /\ 1 \in DOMAIN stack
        /\ DOMAIN stack' \subseteq Nat
        /\ \A j \in DOMAIN stack' :
             j + 1 \in DOMAIN stack /\ j + 1 # 1 /\ stack[j + 1] = stack'[j]
    <3>1. \A j \in Nat : j + 1 = 1 => j = 0
      OBVIOUS
    <3> QED BY <2>1, <3>1, RunningStack
  <2>6. IndInv /\ node \in Computed /\ graph[node].op \in OpNames /\ graph[node].inputs # << >>
    BY <2>1, <2>2, NodeFacts DEF ProfileInv, LowerInv, Computed
  <2>7. node \notin Fused /\ Visit(node) \in Range(stack)
    BY <2>5, <2>6 DEF ExpressionInv, VisitsAreFresh, Range
  <2>8. node # kernel.root
    <3> SUFFICES ASSUME node = kernel.root PROVE FALSE
      OBVIOUS
    <3>1. stack = << Visit(kernel.root) >>
      BY <2>2, <2>7 DEF ExpressionInv, RootIsFirst
    <3>2. Len(stack) = 1 /\ stack[Len(stack)] # Finish(kernel.root)
      BY <3>1 DEF Visit, Finish
    <3>3. stable
      BY <2>2, <2>6, <2>7, <3>2 DEF IndInv, KernelIsNew, RootIsPending, Fused
    <3>4. ~DimsInvalid(graph, resolved, node)
      BY <2>6, GraphFacts, DimsValid DEF IndInv, TypeOK
    <3>5. attr.computes_gid
      BY <2>1, <2>6, OpFacts DEF attr, is_leaf
    <3> QED BY <2>1, <3>3, <3>4, <3>5 DEF MustSplit
  <2>9. UserFused(node)
    BY <2>6, <2>7, <2>8 DEF ExpressionInv, VisitsAreFresh
  <2>10. Range(visited') = Range(visited) \cup {node}
    BY <2>1, <2>2, <2>6, VisitedRange
  <2>11. \A n \in Computed : SavedParam(n) \in kernel'.reads =>
           \/ SavedParam(n) \in kernel.reads
           \/ /\ n \notin Fused /\ n # kernel.root /\ n \in Range(visited')
              /\ \A j \in DOMAIN stack : stack[j] = Visit(n) => j = 1
    <3>1. \A j \in DOMAIN stack : stack[j] = Visit(node) => j = 1
      BY <2>5, <2>6 DEF ExpressionInv, VisitedOnce
    <3>2. \A n \in Computed : SavedParam(n) \in kernel'.reads => SavedParam(n) \in kernel.reads \/ n = node
      BY <2>3, SavedDistinct
    <3> QED BY <2>7, <2>8, <2>10, <3>1, <3>2
  <2>12. Fused' = Fused
    <3>1. \A n : Finish(n) \in Range(stack) <=> Finish(n) \in Range(stack')
      BY <2>1, <2>2 DEF Finish
    <3> QED BY <2>1, <3>1 DEF Fused, Finish
  <2> DEFINE d == 1
  <2>13. d \in {0, 1} /\ \A j \in DOMAIN stack' : \A n : stack'[j] = Visit(n) =>
          j + d \in DOMAIN stack /\ j + d # 1 /\ stack[j + d] = Visit(n)
    BY <2>5
  <2> HIDE DEF d
  <2> QED BY <2>1, <2>2, <2>3, <2>4, <2>5, <2>9, <2>10, <2>11, <2>12, <2>13, QuietEval
<1> QED BY <1>1, <1>2

LEMMA FinishNodeExpression ==
  ASSUME ProfileInv, ProfileInv', ExpressionInv, FinishNode
  PROVE  ExpressionInv'
<1>1. CASE attr.save_inner /\ ~HasSavedParam(node)
  BY <1>1, FailExpression DEF FinishNode
<1>2. CASE ~(attr.save_inner /\ ~HasSavedParam(node))
  <2>1. /\ kernel' = IF Stores THEN Keep ELSE kernel
        /\ resolved' = PushNew(resolved, node)
        /\ stack' = Tail(stack)
        /\ UNCHANGED << graph, saved, roots, todo, visited, chain >>
        /\ Running("finish")
    BY <1>2 DEF FinishNode
  <2>2. /\ kernel # NoKernel /\ IsKernel(kernel) /\ kernel.root \in Nodes(graph)
        /\ Range(stack) = {Head(stack)} \cup Range(Tail(stack))
        /\ node \in Nodes(graph)
    BY <2>1, RunningProfile
  <2>3. /\ kernel'.root = kernel.root /\ kernel'.reads = kernel.reads
    BY <2>1, <2>2, KeepFacts
  <2>4. kernel' # NoKernel
    <3>1. kernel'.root # 0
      BY <2>2, <2>3, NodeFacts DEF ProfileInv, LowerInv
    <3> QED BY <3>1 DEF NoKernel
  <2>5. /\ DOMAIN stack \subseteq Nat /\ stack[1] = Finish(node) /\ 1 \in DOMAIN stack
        /\ DOMAIN stack' \subseteq Nat
        /\ \A j \in DOMAIN stack' :
             j + 1 \in DOMAIN stack /\ j + 1 # 1 /\ stack[j + 1] = stack'[j]
    <3>1. \A j \in Nat : j + 1 = 1 => j = 0
      OBVIOUS
    <3> QED BY <2>1, <3>1, RunningStack
  <2>6. Range(resolved') = Range(resolved) \cup {node}
    <3>1. resolved \in Seq(Nodes(graph))
      BY DEF ProfileInv, LowerInv, IndInv, TypeOK
    <3> QED BY <2>1, <2>2, <3>1, PushNewType
  <2>7. Fused' = Fused
    <3>1. Finish(node) \in Range(stack)
      BY <2>5 DEF Range
    <3>2. \A n : Finish(n) \in Range(stack) <=> Finish(n) \in Range(stack') \/ n = node
      BY <2>1, <2>2, <2>5, <3>1 DEF Finish, node
    <3> QED BY <2>1, <2>2, <2>6, <3>1, <3>2 DEF Fused, Finish
  <2> DEFINE d == 1
  <2>8. d \in {0, 1} /\ \A j \in DOMAIN stack' : \A n : stack'[j] = Visit(n) =>
          j + d \in DOMAIN stack /\ j + d # 1 /\ stack[j + d] = Visit(n)
    BY <2>5
  <2> HIDE DEF d
  <2> QED BY <2>1, <2>2, <2>3, <2>4, <2>5, <2>7, <2>8, QuietEval
<1> QED BY <1>1, <1>2

\* The operands of the node that is fused have not been met.
LEMMA OperandsAreNew ==
  ASSUME ProfileInv, ExpressionInv, ValuesUsedOnce(graph),
         NEW u \in Computed, u \notin Fused, Below(kernel.root, u), kernel.root \in Nodes(graph),
         NEW n \in Computed, n \in Range(graph[u].inputs)
  PROVE  /\ n # u /\ n # kernel.root
         /\ n \notin Fused /\ Visit(n) \notin Range(stack) /\ SavedParam(n) \notin ReadSoFar
<1>1. /\ IndInv /\ u \in Nodes(graph) /\ u \in Nat /\ n \in Nodes(graph) /\ n \in Nat
      /\ n < u /\ n \notin Sinks(graph) /\ kernel.root \in Nat
  BY NodeFacts DEF ProfileInv, LowerInv, Computed
<1>2. n # u /\ n # kernel.root
  BY <1>1 DEF Below
<1>3. Fused \subseteq Nodes(graph)
  BY <1>1, RangesAreNodes DEF Fused
<1>4. ~UserFused(n)
  BY <1>1, <1>3, ExpressionFacts DEF UserFused
<1>5. n \notin Fused
  BY <1>1, <1>4 DEF ExpressionInv, UsersComeFirst
<1>6. Visit(n) \notin Range(stack)
  BY <1>2, <1>4 DEF ExpressionInv, VisitsAreFresh
<1>7. SavedParam(n) \notin ReadSoFar
  BY <1>1, <1>4, LoadsHaveUsers
<1> QED BY <1>2, <1>5, <1>6, <1>7

LEMMA VisitFusedExpression ==
  ASSUME ProfileInv, ProfileInv', ExpressionInv, ValuesUsedOnce(graph), VisitFused
  PROVE  ExpressionInv'
<1> DEFINE u == node
           inputs == graph[u].inputs
           L == Len(inputs)
<1>1. /\ stack' = Operands(u) \o << Finish(u) >> \o Tail(stack)
      /\ visited' = Visited
      /\ UNCHANGED << graph, saved, roots, todo, resolved, chain >>
      /\ Running("visit") /\ ~is_leaf(graph[u].op)
  BY DEF VisitFused
<1>2. /\ kernel # NoKernel /\ kernel.root \in Nodes(graph) /\ u \in Nodes(graph)
      /\ Below(kernel.root, u) /\ Tail(stack) \in Seq(Frame)
      /\ Range(stack) = {Head(stack)} \cup Range(Tail(stack))
      /\ Head(stack).do = "visit"
  BY <1>1, RunningProfile DEF Running
<1>3. kernel'.root = kernel.root /\ kernel'.reads = kernel.reads
  <2>1. IsKernel(Seen) /\ Seen.root = kernel.root /\ Seen.reads = kernel.reads
    BY <1>1, SeenProfile
  <2>2. \A y : /\ [Seen EXCEPT !.meta = y].root = kernel.root
               /\ [Seen EXCEPT !.meta = y].reads = kernel.reads
    BY <2>1, KernelFacts, KernelTensors
  <2> DEFINE meta == Seen.meta \cup MatmulMeta(graph[graph[u].inputs[1]].shape,
                                               graph[graph[u].inputs[2]].shape)
  <2>3. kernel' = Seen \/ kernel' = [Seen EXCEPT !.meta = meta]
    BY DEF VisitFused
  <2> HIDE DEF meta
  <2> QED BY <2>1, <2>2, <2>3
<1>4. kernel' # NoKernel
  <2>1. kernel'.root # 0
    BY <1>2, <1>3, NodeFacts DEF ProfileInv, LowerInv
  <2> QED BY <2>1 DEF NoKernel
<1>5. IndInv /\ u \in Computed /\ inputs # << >>
  BY <1>1, <1>2, NodeFacts DEF ProfileInv, LowerInv, Computed
<1>6. /\ Len(stack) \in Nat \ {0} /\ DOMAIN stack = 1 .. Len(stack)
      /\ stack[1] = Visit(u) /\ 1 \in DOMAIN stack
      /\ Len(Tail(stack)) = Len(stack) - 1
      /\ \A i \in 1 .. Len(stack) - 1 : Tail(stack)[i] = stack[i + 1]
  BY <1>1, <1>2, RunningStack
<1>7. /\ L \in Nat
      /\ DOMAIN stack' = 1 .. L + Len(stack)
      /\ \A j \in 1 .. L : stack'[j] = Visit(inputs[j])
      /\ stack'[L + 1] = Finish(u)
      /\ \A j \in 1 .. Len(stack) - 1 : stack'[L + 1 + j] = stack[j + 1]
      /\ Range(stack') = Range(Operands(u)) \cup {Finish(u)} \cup Range(Tail(stack))
  <2> DEFINE operands == Operands(u)
             end == Finish(u)
             rest == Tail(stack)
  <2>1. operands \in Seq(Frame) /\ end \in Frame /\ rest \in Seq(Frame) /\ Len(operands) = L
        /\ \A p \in 1 .. L : operands[p] = Visit(inputs[p])
    BY <1>2, <1>5, OperandFrames DEF Frame, Finish
  <2>2. stack' = operands \o << end >> \o rest /\ Len(rest) = Len(stack) - 1
        /\ \A j \in 1 .. Len(stack) - 1 : rest[j] = stack[j + 1]
    BY <1>1, <1>6
  <2> HIDE DEF Frame, operands, end, rest, L, inputs
  <2> DEFINE pushed == operands \o << end >> \o rest
             l == Len(operands)
  <2>6. /\ l \in Nat /\ Len(rest) \in Nat
        /\ DOMAIN pushed = 1 .. l + 1 + Len(rest)
        /\ \A j \in 1 .. l : pushed[j] = operands[j]
        /\ pushed[l + 1] = end
        /\ \A j \in 1 .. Len(rest) : pushed[l + 1 + j] = rest[j]
        /\ Range(pushed) = Range(operands) \cup {end} \cup Range(rest)
    <3>1. operands \in Seq(Frame) /\ end \in Frame /\ rest \in Seq(Frame)
      BY <2>1
    <3> QED BY <3>1, FramesPushed
  <2>7. stack' = pushed /\ l = L
    BY <2>1, <2>2
  <2> HIDE DEF pushed, l
  <2>3. /\ L \in Nat /\ Len(rest) \in Nat
        /\ DOMAIN stack' = 1 .. L + 1 + Len(rest)
        /\ \A j \in 1 .. L : stack'[j] = operands[j]
        /\ stack'[L + 1] = end
        /\ \A j \in 1 .. Len(rest) : stack'[L + 1 + j] = rest[j]
        /\ Range(stack') = Range(operands) \cup {end} \cup Range(rest)
    BY <2>6, <2>7
  <2>4. L + 1 + Len(rest) = L + Len(stack)
    BY <1>6, <2>2, <2>3
  <2>5. DOMAIN stack' = 1 .. L + Len(stack)
    BY <2>3, <2>4
  <2> QED BY <2>1, <2>2, <2>3, <2>5 DEF operands, end, rest
<1>8. u \notin Fused /\ Visit(u) \in Range(stack)
  BY <1>5, <1>6 DEF ExpressionInv, VisitsAreFresh, Range
<1>9. \A n \in Computed : n \in Range(inputs) =>
        /\ n # u /\ n # kernel.root
        /\ n \notin Fused /\ Visit(n) \notin Range(stack) /\ SavedParam(n) \notin ReadSoFar
  BY <1>2, <1>5, <1>8, OperandsAreNew
<1>10. kernel.root \notin Range(inputs)
  <2>1. \A n \in Range(inputs) : n \in Nat /\ n < u
    BY <1>2, <1>5, NodeFacts
  <2> QED BY <1>2, <1>5, <2>1, NodeFacts DEF Below
\* Where the visits are.
<1>11. ASSUME NEW j \in DOMAIN stack', NEW n, stack'[j] = Visit(n)
       PROVE  \/ j \in 1 .. L /\ n = inputs[j] /\ n \in Range(inputs)
              \/ j - L \in DOMAIN stack /\ j - L # 1 /\ stack[j - L] = Visit(n)
  <2>1. CASE j \in 1 .. L
    <3>1. n = inputs[j]
      <4> HIDE DEF L, inputs, u
      <4>1. Visit(inputs[j]) = Visit(n)
        BY <1>7, <1>11, <2>1
      <4> QED BY <4>1 DEF Visit
    <3>2. j \in DOMAIN inputs
      <4>1. inputs \in Seq(Nodes(graph))
        BY <1>2, <1>5, NodeFacts
      <4> QED BY <2>1, <4>1
    <3> QED BY <2>1, <3>1, <3>2 DEF Range
  <2>2. CASE j = L + 1
    BY <1>7, <1>11, <2>2 DEF Visit, Finish
  <2>3. CASE j \notin 1 .. L /\ j # L + 1
    <3> DEFINE k == j - L - 1
               m == Len(stack)
    <3> HIDE DEF L
    <3>1. k \in 1 .. m - 1 /\ j = L + 1 + k /\ j - L = k + 1 /\ k + 1 \in 1 .. m /\ k + 1 # 1
      <4>1. m \in Nat \ {0} /\ L \in Nat /\ j \in 1 .. L + m
        BY <1>6, <1>7
      <4> HIDE DEF m
      <4> QED BY <2>3, <4>1
    <3>2. stack'[L + 1 + k] = stack[k + 1]
      BY <1>7, <3>1
    <3> HIDE DEF k
    <3> QED BY <1>6, <1>11, <3>1, <3>2
  <2> QED BY <2>1, <2>2, <2>3
<1>12. \A n : Visit(n) \in Range(stack') =>
         n \in Range(inputs) \/ \E j \in DOMAIN stack : j # 1 /\ stack[j] = Visit(n)
  BY <1>11 DEF Range
<1>13. \A n : Visit(n) \in Range(stack') => n \in Range(inputs) \/ Visit(n) \in Range(stack)
  BY <1>12 DEF Range
<1>14. Fused' = Fused \cup {u}
  <2>1. \A n : Finish(n) \in Range(stack') <=> Finish(n) \in Range(stack) \/ n = u
    <3>1. \A f \in Range(Operands(u)) : f.do = "visit"
      BY <1>2, <1>5, OperandFrames DEF Range
    <3> QED BY <1>2, <1>7, <3>1 DEF Finish
  <2> QED BY <1>1, <1>2, <2>1 DEF Fused, Finish
<1>15. \A n : UserFused(n)' <=> UserFused(n) \/ n \in Range(inputs)
  BY <1>1, <1>14 DEF UserFused
<1>16. Range(visited') = Range(visited) \cup {u}
  BY <1>1, <1>2, <1>5, VisitedRange
<1>17. ReadSoFar' = ReadSoFar
  BY <1>1, <1>2, <1>3, <1>4 DEF ReadSoFar, ReadBy, KernelsOf, NoKernel
<1>18. u \notin Sinks(graph) => UserFused(u)
  <2>1. CASE u # kernel.root
    BY <1>5, <1>8, <2>1 DEF ExpressionInv, VisitsAreFresh
  <2>2. CASE u = kernel.root
    <3>1. todo \in Seq(Nodes(graph)) /\ todo # << >> /\ u = Head(todo)
      BY <1>2, <1>5, <2>2 DEF IndInv, TypeOK, KernelIsNew
    <3>2. u \in Range(todo)
      BY <3>1, PoppedRange
    <3> QED BY <1>5, <3>2 DEF ExpressionInv, UsersComeFirst
  <2> QED BY <2>1, <2>2
<1>19. u # kernel.root => SavedParam(u) \notin ReadSoFar
  BY <1>5, <1>8 DEF ExpressionInv, VisitsAreFresh
<1> HIDE DEF u, inputs, L
<1>20. RootIsFirst'
  <2>1. Visit(kernel.root) \notin Range(stack')
    <3> SUFFICES ASSUME Visit(kernel.root) \in Range(stack') PROVE FALSE
      OBVIOUS
    <3>1. PICK j \in DOMAIN stack : j # 1 /\ stack[j] = Visit(kernel.root)
      BY <1>10, <1>12
    <3>2. stack = << Visit(kernel.root) >>
      BY <1>2, <3>1 DEF ExpressionInv, RootIsFirst, Range
    <3>3. DOMAIN stack = {1}
      BY <3>2
    <3> QED BY <3>1, <3>3
  <2>2. Visit(kernel'.root) \notin Range(stack')
    BY <1>3, <2>1
  <2> QED BY <2>2 DEF RootIsFirst, Visit
<1>21. VisitsAreFresh'
  <2>1. ASSUME NEW n \in Computed, Visit(n) \in Range(stack')
        PROVE  /\ n \notin Fused'
               /\ n # kernel'.root => UserFused(n)' /\ SavedParam(n) \notin ReadSoFar'
    <3>1. CASE n \in Range(inputs)
      BY <1>9, <1>14, <1>15, <1>17, <3>1
    <3>2. CASE n \notin Range(inputs)
      <4>1. PICK j \in DOMAIN stack : j # 1 /\ stack[j] = Visit(n)
        BY <1>12, <2>1, <3>2
      <4>2. n # u
        BY <1>5, <1>6, <4>1 DEF ExpressionInv, VisitedOnce
      <4>3. Visit(n) \in Range(stack)
        BY <4>1 DEF Range
      <4> QED BY <1>3, <1>14, <1>15, <1>17, <4>2, <4>3 DEF ExpressionInv, VisitsAreFresh
    <3> QED BY <3>1, <3>2
  <2> QED BY <1>1, <2>1, SameGraph DEF VisitsAreFresh, Visit
<1>22. VisitedOnce'
  <2>1. ASSUME NEW n \in Computed, NEW j \in DOMAIN stack', NEW k \in DOMAIN stack',
               stack'[j] = Visit(n), stack'[k] = Visit(n)
        PROVE  j = k
    <3>1. CASE n \in Range(inputs)
      <4>1. Visit(n) \notin Range(stack)
        BY <1>9, <3>1
      <4>2. \A i \in DOMAIN stack : stack[i] # Visit(n)
        BY <4>1 DEF Range
      <4>3. j \in 1 .. L /\ inputs[j] = n /\ k \in 1 .. L /\ inputs[k] = n
        BY <1>11, <2>1, <4>2
      <4>4. j \in DOMAIN inputs /\ k \in DOMAIN inputs
        <5>1. inputs \in Seq(Nodes(graph))
          BY <1>2, <1>5, NodeFacts DEF inputs
        <5> QED BY <4>3, <5>1 DEF L
      <4> QED BY <1>2, <1>5, <4>3, <4>4, ExpressionFacts DEF inputs
    <3>2. CASE n \notin Range(inputs)
      <4>1. /\ j - L \in DOMAIN stack /\ stack[j - L] = Visit(n)
            /\ k - L \in DOMAIN stack /\ stack[k - L] = Visit(n)
        BY <1>11, <2>1, <3>2
      <4>2. j - L = k - L
        BY <4>1 DEF ExpressionInv, VisitedOnce
      <4>3. j \in Nat /\ k \in Nat /\ L \in Nat
        BY <1>6, <1>7
      <4> QED BY <4>2, <4>3
    <3> QED BY <3>1, <3>2
  <2> QED BY <1>1, <2>1, SameGraph DEF VisitedOnce, Visit
<1>23. UsersComeFirst'
  <2>1. \A n \in Computed \ Sinks(graph) :
          n \in Fused' \cup Range(roots') \cup Range(todo') \cup Range(visited') => UserFused(n)'
    BY <1>1, <1>14, <1>15, <1>16, <1>18 DEF ExpressionInv, UsersComeFirst
  <2> QED BY <1>1, <2>1, SameGraph DEF UsersComeFirst
<1>24. SplitsOfKernel'
  <2>1. kernel.reads \subseteq ReadSoFar
    BY <1>2 DEF ReadSoFar
  <2>2. \A n \in Computed : SavedParam(n) \in kernel'.reads =>
          n \notin Fused' /\ n # kernel'.root /\ n \in Range(visited')
    BY <1>2, <1>3, <1>14, <1>16, <1>19, <2>1 DEF ExpressionInv, SplitsOfKernel
  <2> QED BY <1>1, <2>2, SameGraph DEF SplitsOfKernel
<1>25. SplitsOfChain'
  <2>1. \A i \in DOMAIN chain : chain[i].kernel.reads \subseteq ReadSoFar
    BY DEF ReadSoFar, ReadBy, KernelsOf
  <2>2. \A i \in DOMAIN chain : \A n \in Computed : SavedParam(n) \in chain[i].kernel.reads =>
          /\ \A j \in 1 .. i : chain[j].kernel.root # n
          /\ n \in Fused' \cup Range(roots') \cup Range(todo')
          /\ n \in Fused' => n = kernel'.root \/ \E j \in DOMAIN chain : chain[j].kernel.root = n
    BY <1>1, <1>3, <1>14, <1>19, <2>1 DEF ExpressionInv, SplitsOfChain
  <2> QED BY <1>1, <2>2, SameGraph DEF SplitsOfChain
<1> QED BY <1>20, <1>21, <1>22, <1>23, <1>24, <1>25 DEF ExpressionInv

-----------------------------------------------------------------------------
(* What kernels store. *)

\* Only values that are computed and kept are stored.
StoresComputed(k) == \A t \in k.writes : \E n \in Computed : HasSavedParam(n) /\ t = SavedParam(n)
StoresInv ==
  /\ kernel # NoKernel => StoresComputed(kernel)
  /\ \A i \in DOMAIN chain : StoresComputed(chain[i].kernel)

LEMMA StoresKept ==
  ASSUME StoresInv, UNCHANGED << graph, saved, chain >>,
         kernel' # NoKernel => StoresComputed(kernel')
  PROVE  StoresInv'
<1>1. \A k : StoresComputed(k)' <=> StoresComputed(k)
  BY SameGraph DEF StoresComputed
<1> QED BY <1>1 DEF StoresInv, NoKernel

LEMMA StoresNext ==
  ASSUME ProfileInv, StoresInv, [Next]_vars
  PROVE  StoresInv'
<1>1. CASE UNCHANGED << graph, saved, kernel, chain >>
  BY <1>1, StoresKept DEF StoresInv
<1>2. CASE StartKernel
  <2>1. kernel' = kernel \/ kernel'.writes = {}
    BY <1>2 DEF StartKernel, NewKernel
  <2>2. kernel' # NoKernel => StoresComputed(kernel')
    BY <2>1 DEF StoresInv, StoresComputed
  <2> QED BY <1>2, <2>2, StoresKept DEF StartKernel
<1>3. CASE FinishKernel
  <2> DEFINE L == Len(chain)
  <2>1. kernel # NoKernel /\ kernel' = NoKernel /\ UNCHANGED << graph, saved >>
    BY <1>3 DEF FinishKernel
  <2>2. /\ L \in Nat /\ DOMAIN chain = 1 .. L /\ DOMAIN chain' = 1 .. L + 1
        /\ chain'[L + 1] = [kernel |-> kernel, dep |-> {}]
        /\ \A i \in 1 .. L : chain'[i].kernel = chain[i].kernel
    BY <1>3, ChainGrows DEF ProfileInv, LowerInv
  <2> HIDE DEF L
  <2>3. \A i \in 1 .. L + 1 : i = L + 1 \/ i \in 1 .. L
    BY <2>2
  <2>4. \A i \in DOMAIN chain' : StoresComputed(chain'[i].kernel)
    BY <2>1, <2>2, <2>3 DEF StoresInv
  <2>5. \A k : StoresComputed(k)' <=> StoresComputed(k)
    BY <2>1, SameGraph DEF StoresComputed
  <2> QED BY <2>1, <2>4, <2>5 DEF StoresInv
<1>4. CASE VisitLeaf \/ VisitSplit \/ VisitFused
  <2>1. /\ Running("visit") /\ kernel # NoKernel /\ UNCHANGED << graph, saved, chain >>
        /\ IsKernel(Seen) /\ Seen.writes = kernel.writes
    <3>1. Running("visit") /\ UNCHANGED << graph, saved, chain >>
      BY <1>4 DEF VisitLeaf, VisitSplit, VisitFused, Fail
    <3> QED BY <3>1, RunningProfile, SeenProfile
  <2>2. kernel'.writes = kernel.writes
    <3> DEFINE meta == Seen.meta \cup MatmulMeta(graph[graph[node].inputs[1]].shape,
                                                 graph[graph[node].inputs[2]].shape)
    <3>1. \/ kernel' = kernel \/ kernel' = Seen \/ \E t : kernel' = Load(Seen, t)
          \/ kernel' = [Seen EXCEPT !.meta = meta]
      BY <1>4 DEF VisitLeaf, VisitSplit, VisitFused, Fail
    <3>2. \A y : [Seen EXCEPT !.meta = y].writes = Seen.writes
      BY <2>1, KernelTensors
    <3>3. \A t : Load(Seen, t).writes = Seen.writes
      BY <2>1, KernelTensors
    <3> HIDE DEF meta
    <3> QED BY <2>1, <3>1, <3>2, <3>3
  <2> QED BY <2>1, <2>2, StoresKept DEF StoresInv, StoresComputed
<1>5. CASE FinishNode
  <2>1. /\ Running("finish") /\ kernel # NoKernel /\ UNCHANGED << graph, saved, chain >>
        /\ IsKernel(kernel) /\ node \in Nodes(graph)
    <3>1. Running("finish") /\ UNCHANGED << graph, saved, chain >>
      BY <1>5 DEF FinishNode, Fail
    <3> QED BY <3>1, RunningProfile
  <2>2. \/ kernel' = kernel
        \/ Stores /\ kernel' = Keep
    BY <1>5 DEF FinishNode, Fail
  <2>3. Stores => node \in Computed /\ HasSavedParam(node)
    <3>1. graph[node].op \in OpNames
      BY <2>1, NodeFacts DEF ProfileInv, LowerInv
    <3> QED BY <2>1, <3>1, ComputeFacts DEF Stores, attr, Computed
  <2>4. StoresComputed(kernel')
    BY <2>1, <2>2, <2>3, KeepFacts DEF StoresInv, StoresComputed
  <2> QED BY <2>1, <2>4, StoresKept
<1> QED BY <1>1, <1>2, <1>3, <1>4, <1>5
        DEF Next, EvalNode, StartSweep, Return, SkipRoot, vars, lowerVars

-----------------------------------------------------------------------------
(* The order in which the kernels of an expression are launched. *)

LoadInv == ProfileInv /\ StoresInv /\ (ValuesUsedOnce(graph) => ExpressionInv)

LEMMA LoadInit == Init => LoadInv
<1> SUFFICES ASSUME Init PROVE LoadInv
  OBVIOUS
<1>1. /\ Range(todo) = {} /\ Range(visited) = {} /\ DOMAIN chain = {} /\ kernel = NoKernel
      /\ Range(resolved) = {} /\ Range(stack) = {} /\ DOMAIN stack = {}
  BY DEF Init, Range
<1>2. Range(roots) = Sinks(graph)
  <2>1. IsGraph(graph) /\ Len(graph) \in Nat
    BY InitInv, GraphFacts DEF IndInv
  <2>2. Sinks(graph) \in SUBSET (1 .. Len(graph))
    BY DEF Sinks, Nodes
  <2> QED BY <2>1, <2>2, AscendingRange DEF Init
<1>3. ExpressionInv
  BY <1>1, <1>2 DEF ExpressionInv, RootIsFirst, VisitsAreFresh, VisitedOnce, UsersComeFirst,
                    SplitsOfKernel, SplitsOfChain, Fused
<1>4. StoresInv
  BY <1>1 DEF StoresInv
<1> QED BY <1>3, <1>4, ProfileInit DEF LoadInv

LEMMA LoadNext == LoadInv /\ [Next]_vars => LoadInv'
<1> SUFFICES ASSUME LoadInv, [Next]_vars PROVE LoadInv'
  OBVIOUS
<1>1. ProfileInv /\ ProfileInv' /\ LowerInv /\ StoresInv'
  BY ProfileNext, StoresNext DEF LoadInv, ProfileInv
<1>2. graph' = graph
  BY DEF Next, EvalNode, StartSweep, Return, SkipRoot, StartKernel, FinishKernel, VisitLeaf,
         VisitSplit, VisitFused, FinishNode, Fail, vars, lowerVars
<1>3. ASSUME ValuesUsedOnce(graph) PROVE ExpressionInv'
  <2>1. ExpressionInv
    BY <1>3 DEF LoadInv
  <2>2. CASE UNCHANGED vars
    BY <2>1, <2>2, LoopExpression DEF vars, lowerVars
  <2>3. CASE StartSweep \/ Return \/ SkipRoot
    BY <1>1, <2>1, <2>3, LoopStepsExpression
  <2>4. CASE StartKernel
    BY <1>1, <2>1, <2>4, StartKernelExpression
  <2>5. CASE FinishKernel
    BY <1>1, <2>1, <2>5, FinishKernelExpression
  <2>6. CASE EvalNode
    BY <1>1, <1>3, <2>1, <2>6, VisitLeafExpression, VisitSplitExpression, VisitFusedExpression,
       FinishNodeExpression DEF EvalNode
  <2> QED BY <2>2, <2>3, <2>4, <2>5, <2>6 DEF Next
<1>4. ValuesUsedOnce(graph)' => ValuesUsedOnce(graph)
  BY <1>2
<1> QED BY <1>1, <1>3, <1>4 DEF LoadInv

\* Of an expression, whatever kernel i of the list loads from another is of a root it depends on.
LEMMA LoadsAreDependencies ==
  ASSUME LoadInv, ValuesUsedOnce(graph), status = "lowered",
         NEW i \in DOMAIN chain, NEW t \in chain[i].kernel.reads \cap WrittenBy(chain)
  PROVE  \E m \in Computed : m \in chain[i].dep /\ t = SavedParam(m) /\ HasSavedParam(m)
<1>1. /\ IndInv /\ kernel = NoKernel /\ Computed \subseteq Range(resolved)
      /\ Len(chain) \in Nat /\ DOMAIN chain = 1 .. Len(chain)
  BY DEF LoadInv, ProfileInv, LowerInv, Complete, Outcome, IndInv, ListSoFar
<1>2. PICK m \in Computed : t = SavedParam(m)
  BY DEF WrittenBy, KernelsOf, LoadInv, StoresInv, StoresComputed
<1>3. HasSavedParam(m)
  <2>1. Loadable(t)
    BY DEF ReadSoFar, ReadBy, KernelsOf, LoadInv, ProfileInv, LowerInv, Complete, LoadsAreKept
  <2> QED BY <1>2, <2>1, SavedDistinct DEF Loadable
<1>4. m \in Nodes(graph) /\ m \in Nat /\ m # 0 /\ m # kernel.root
  BY <1>1, NodeFacts DEF Computed, NoKernel
<1>5. /\ \A j \in 1 .. i : chain[j].kernel.root # m
      /\ \E j \in DOMAIN chain : chain[j].kernel.root = m
  <2>1. SplitsOfChain
    BY DEF LoadInv, ExpressionInv
  <2>2. m \in Fused
    BY <1>1 DEF Fused
  <2> QED BY <1>2, <1>4, <2>1, <2>2 DEF SplitsOfChain
<1>6. PICK j \in 1 .. Len(chain) : chain[j].kernel.root = m
  BY <1>1, <1>5
<1>7. j \in i + 1 .. Len(chain) /\ i \in 1 .. i
  BY <1>1, <1>5, <1>6
<1>8. m < chain[i].kernel.root
  <2>1. Touches(chain[i].kernel, SavedParam(m))
    BY <1>2 DEF LoadInv, ProfileInv, ChainProfile, FinishedKernel, TouchesBelow
  <2>2. PICK n \in Nodes(graph) : Below(chain[i].kernel.root, n) /\ SavedParam(m) = SavedParam(n)
    BY <2>1, SavedDistinct DEF Touches
  <2>3. n = m
    BY <2>2, SavedDistinct
  <2> QED BY <1>5, <1>7, <2>2, <2>3 DEF Below
<1>9. m \in chain[i].dep
  <2>1. /\ Len(Order) = Len(chain) /\ DOMAIN Order = 1 .. Len(chain)
        /\ \A k \in 1 .. Len(chain) : Order[k] = chain[k].kernel.root
    <3>1. Order \in Seq(Nat)
      BY <1>1, ListIs
    <3> QED BY <1>1, <3>1 DEF Order
  <2>2. chain[i].dep = ForwardList(Order)[i].dep
    BY <1>1 DEF IndInv, ListSoFar
  <2>3. ForwardList(Order)[i].dep =
          {r \in Range(Order) : r < Order[i] /\ \E k \in i + 1 .. Len(Order) : Order[k] = r}
    BY <1>1, <2>1 DEF ForwardList
  <2>4. m \in Range(Order)
    BY <1>6, <2>1 DEF Range
  <2> QED BY <1>1, <1>6, <1>7, <1>8, <2>1, <2>2, <2>3, <2>4
<1> QED BY <1>2, <1>3, <1>9

\* Of an expression, every value that one kernel keeps for another is stored before it is loaded.
THEOREM ExpressionsAreOrdered == PassSpec => []ExpressionsStoreBeforeLoading
<1> DEFINE Inv == PassInv /\ LoadInv
<1>1. PassInit => Inv
  BY PassStarts, LoadInit DEF PassInit
<1>2. Inv /\ [PassNext]_passVars => Inv'
  <2>1. [PassNext]_passVars => [Next]_vars
    BY DEF PassNext, Lower, HandOver, Schedule, passVars
  <2> QED BY <2>1, PassSteps, LoadNext
<1>3. Inv => ExpressionsStoreBeforeLoading
  <2> SUFFICES ASSUME PassInv, LoadInv, ValuesUsedOnce(graph), NEW q \in DOMAIN schedule,
                      NEW t \in chain[schedule[q].kernel].kernel.reads \cap WrittenBy(chain)
               PROVE  \E p \in 1 .. q - 1 : t \in chain[schedule[p].kernel].kernel.writes
    BY DEF ExpressionsStoreBeforeLoading, StoredBeforeLoaded, LoadsFollowStores
  <2>1. outcome # "waiting"
    <3>1. schedule = << >> => DOMAIN schedule = {}
      OBVIOUS
    <3> QED BY <3>1 DEF PassInv
  <2>2. OneUnkeptOutput /\ status = "lowered"
    BY <2>1, ExpressionFacts DEF PassInv, ProfileInv, LowerInv, HandedOver
  <2>3. /\ DOMAIN chain = 1 .. Len(chain)
        /\ \A i \in 1 .. Len(chain) : /\ kernels[i].redirect = Unmasked
                                      /\ kernels[i].dep = chain[i].dep
                                      /\ kernels[i].root = chain[i].kernel.root
    <3> DEFINE K(i) == [root |-> chain[i].kernel.root, dep |-> chain[i].dep,
                        redirect |-> kernels[i].redirect]
    <3>1. /\ DOMAIN chain = 1 .. Len(chain)
          /\ \A i \in 1 .. Len(chain) : kernels[i].redirect = Unmasked /\ kernels[i] = K(i)
      BY <2>1, <2>2, EliminatedAreUnkept DEF PassInv, OneUnkeptOutput
    <3>2. \A i : K(i).dep = chain[i].dep /\ K(i).root = chain[i].kernel.root
      OBVIOUS
    <3> HIDE DEF K
    <3> QED BY <3>1, <3>2
  <2>4. /\ DOMAIN schedule = 1 .. Len(schedule) /\ Len(schedule) \in Nat
        /\ \A p \in 1 .. Len(schedule) :
             schedule[p].entry \in 1 .. Len(chain) /\ schedule[p].kernel = schedule[p].entry
    BY <2>1, <2>3, ScheduleFacts
  <2> DEFINE i == schedule[q].entry
  <2>5. i \in DOMAIN chain /\ schedule[q].kernel = i /\ q \in 1 .. Len(schedule)
    BY <2>3, <2>4
  <2>6. PICK m \in Computed : m \in chain[i].dep /\ t = SavedParam(m) /\ HasSavedParam(m)
    <3> HIDE DEF i
    <3>1. t \in chain[i].kernel.reads \cap WrittenBy(chain)
      BY <2>5
    <3> QED BY <2>2, <2>5, <3>1, LoadsAreDependencies
  <2>7. m \in kernels[i].dep
    BY <2>3, <2>5, <2>6
  <2>8. PICK p \in 1 .. q - 1 : kernels[schedule[p].kernel].root = m
    <3>1. Loop!DependenciesFirst
      BY <2>1 DEF PassInv, Loop!IndInv
    <3> QED BY <2>5, <2>7, <3>1 DEF Loop!DependenciesFirst
  <2>9. p \in 1 .. Len(schedule)
    BY <2>4, <2>5
  <2> DEFINE k == schedule[p].kernel
  <2>10. k \in DOMAIN chain /\ chain[k].kernel.root = m
    BY <2>3, <2>4, <2>8, <2>9
  <2> HIDE DEF k
  <2>11. SavedParam(m) \in chain[k].kernel.writes
    BY <2>6, <2>10 DEF LoadInv, ProfileInv, ChainProfile, FinishedKernel, KeepsRoot
  <2> QED BY <2>6, <2>11 DEF k
<1> QED BY <1>1, <1>2, <1>3, PTL DEF PassSpec

-----------------------------------------------------------------------------
(* The parameters. *)

\* What the scheduler binds.
LEMMA Bound ==
  ASSUME IndInv, saved = compute_saved_nodes(graph)
  PROVE  Range(forward_bindings(graph, saved)) =
           {Meta, Out} \cup {Saved(n) : n \in {m \in Nodes(graph) : is_defined_in_forward(saved, m)}}
             \cup {In(n) : n \in {m \in Nodes(graph) : graph[m].op = "input"}}
<1> DEFINE F == {m \in Nodes(graph) : is_defined_in_forward(saved, m)}
           I == {m \in Nodes(graph) : graph[m].op = "input"}
           a == << Meta >>
           b == Each(Saved, DefinedInForward(saved))
           c == Each(In, Inputs(graph))
           d == << Out >>
           S == Range(a) \cup Range(b) \cup Range(c) \cup Range(d)
<1>1. DOMAIN saved = Nodes(graph) /\ Len(graph) \in Nat
  BY GraphFacts DEF IndInv, compute_saved_nodes
<1>2. ASSUME NEW T \in SUBSET Nodes(graph)
      PROVE  Ascending(T) \in Seq(Nat) /\ Range(Ascending(T)) = T
  <2>1. T \in SUBSET (1 .. Len(graph)) /\ T \subseteq Nat
    BY <1>1 DEF Nodes
  <2>2. Ascending(T) \in Seq(T) /\ Range(Ascending(T)) = T
    BY <1>1, <2>1, AscendingType, AscendingRange
  <2>3. \A A, B : A \subseteq B => Seq(A) \subseteq Seq(B)
    OBVIOUS
  <2> QED BY <2>1, <2>2, <2>3
<1>3. DefinedInForward(saved) = Ascending(F) /\ Inputs(graph) = Ascending(I)
  BY <1>1 DEF DefinedInForward, Inputs
<1>4. F \in SUBSET Nodes(graph) /\ I \in SUBSET Nodes(graph)
  OBVIOUS
<1> HIDE DEF F, I
<1>5. b \in Seq(Range(b)) /\ Range(b) = {Saved(n) : n \in F}
  BY <1>2, <1>3, <1>4, EachRange
<1>6. c \in Seq(Range(c)) /\ Range(c) = {In(n) : n \in I}
  BY <1>2, <1>3, <1>4, EachRange
<1>7. \A x : << x >> \in Seq(Range(<< x >>)) /\ Range(<< x >>) = {x}
  <2> SUFFICES ASSUME NEW x PROVE << x >> \in Seq(Range(<< x >>)) /\ Range(<< x >>) = {x}
    OBVIOUS
  <2>1. DOMAIN << x >> = 1 .. 1 /\ << x >>[1] = x /\ << x >> \in Seq({x})
    OBVIOUS
  <2>2. Range(<< x >>) = {x}
    BY <2>1 DEF Range
  <2> QED BY <2>1, <2>2
<1>8. a \in Seq(Range(a)) /\ Range(a) = {Meta} /\ d \in Seq(Range(d)) /\ Range(d) = {Out}
  BY <1>7
<1>9. forward_bindings(graph, saved) = a \o b \o c \o d
  BY DEF forward_bindings
<1> HIDE DEF a, b, c, d
<1>10. a \in Seq(S) /\ b \in Seq(S) /\ c \in Seq(S) /\ d \in Seq(S)
  <2>1. \A A, B : A \subseteq B => Seq(A) \subseteq Seq(B)
    OBVIOUS
  <2> QED BY <1>5, <1>6, <1>8, <2>1
<1> HIDE DEF S
<1>11. Range(a \o b \o c \o d) = Range(a) \cup Range(b) \cup Range(c) \cup Range(d)
  <2> DEFINE ab == a \o b
             abc == ab \o c
  <2>1. Range(ab) = Range(a) \cup Range(b)
    BY <1>10, RangeConcat
  <2>2. ab \in Seq(S) /\ abc \in Seq(S)
    BY <1>10
  <2>3. Range(abc) = Range(ab) \cup Range(c)
    <3> HIDE DEF ab
    <3> QED BY <1>10, <2>2, RangeConcat
  <2>4. Range(abc \o d) = Range(abc) \cup Range(d)
    <3> HIDE DEF abc
    <3> QED BY <1>10, <2>2, RangeConcat
  <2> QED BY <2>1, <2>3, <2>4
<1> QED BY <1>5, <1>6, <1>8, <1>9, <1>11 DEF F, I

\* What a launched kernel loads or stores is among it.
LEMMA UsesAreBound ==
  ASSUME PassInv, LoadInv, NEW p \in DOMAIN schedule,
         NEW t \in chain[schedule[p].kernel].kernel.reads \cup chain[schedule[p].kernel].kernel.writes
  PROVE  t \in Range(forward_bindings(graph, saved))
<1>1. outcome # "waiting"
  <2>1. schedule = << >> => DOMAIN schedule = {}
    OBVIOUS
  <2> QED BY <2>1 DEF PassInv
<1>2. IndInv /\ saved = compute_saved_nodes(graph)
  BY DEF PassInv, ProfileInv, LowerInv, Complete
<1> DEFINE i == schedule[p].kernel
<1>3. i \in DOMAIN chain
  <2>1. DOMAIN chain = 1 .. Len(chain)
    BY <1>2 DEF IndInv, ListSoFar
  <2> QED BY <1>1, <2>1, ScheduleFacts
<1> HIDE DEF i
<1>4. \/ \E n \in Nodes(graph) : graph[n].op = "input" /\ t = In(n)
      \/ \E n \in Computed : HasSavedParam(n) /\ t = SavedParam(n)
  <2>1. CASE t \in chain[i].kernel.reads
    <3>1. Loadable(t)
      BY <1>3, <2>1 DEF ReadSoFar, ReadBy, KernelsOf, LoadInv, ProfileInv, LowerInv, Complete,
                        LoadsAreKept
    <3> QED BY <3>1 DEF Loadable
  <2>2. CASE t \in chain[i].kernel.writes
    BY <1>3, <2>2 DEF LoadInv, StoresInv, StoresComputed
  <2> QED BY <2>1, <2>2 DEF i
<1>5. \/ \E n \in Nodes(graph) : graph[n].op = "input" /\ t = In(n)
      \/ \E n \in Nodes(graph) : is_defined_in_forward(saved, n) /\ t = Saved(n)
      \/ t = Out
  BY <1>4 DEF HasSavedParam, SavedParam, Computed
<1> QED BY <1>2, <1>5, Bound

\* The forward pass of a graph that uses its inputs in their order binds every parameter of a
\* launched kernel to the tensor it was declared for, and binds no other.
THEOREM InputsInOrderAreBoundAsDeclared == PassSpec => []InputsInOrderAreBound
<1> DEFINE Inv == PassInv /\ LoadInv
<1>1. PassInit => Inv
  BY PassStarts, LoadInit DEF PassInit
<1>2. Inv /\ [PassNext]_passVars => Inv'
  <2>1. [PassNext]_passVars => [Next]_vars
    BY DEF PassNext, Lower, HandOver, Schedule, passVars
  <2> QED BY <2>1, PassSteps, LoadNext
<1>3. Inv => InputsInOrderAreBound
  <2> DEFINE params == forward_params(graph, saved)
             bindings == forward_bindings(graph, saved)
  <2> SUFFICES ASSUME PassInv, LoadInv, InputsUsedInOrder(graph), schedule # << >>
               PROVE  /\ Len(bindings) = Len(params)
                      /\ \A p \in DOMAIN schedule :
                           LET k == chain[schedule[p].kernel].kernel
                           IN  \A t \in k.reads \cup k.writes :
                                 \E s \in DOMAIN params : params[s] = t /\ bindings[s] = t
    BY DEF InputsInOrderAreBound, TensorsAreBound, BoundAsDeclared
  <2>1. outcome # "waiting"
    BY DEF PassInv
  <2>2. status = "lowered" /\ IndInv /\ Lowerable
    BY <2>1 DEF PassInv, HandedOver, ProfileInv, LowerInv, Complete, Outcome
  <2>3. Computed # {}
    <3>1. /\ DOMAIN chain = 1 .. Len(chain) /\ DOMAIN schedule = 1 .. Len(schedule)
          /\ Len(schedule) \in Nat
          /\ \A p \in 1 .. Len(schedule) : schedule[p].kernel \in 1 .. Len(chain)
      BY <2>1, <2>2, ScheduleFacts DEF IndInv, ListSoFar
    <3>2. 1 \in DOMAIN schedule
      <4>1. Len(schedule) # 0
        <5>1. Loop!TypeOK
          BY <2>1 DEF PassInv, Loop!IndInv
        <5>2. \E E : schedule \in Seq(E)
          BY <5>1 DEF Loop!TypeOK
        <5> QED BY <5>2
      <4> QED BY <3>1, <4>1
    <3>3. schedule[1].kernel \in DOMAIN chain
      BY <3>1, <3>2
    <3> QED BY <3>3 DEF PassInv, ProfileInv, ChainProfile, FinishedKernel
  <2>4. bindings = params
    <3>1. Prepared(graph) /\ IsGraph(graph) /\ OutputsMatchInputs(graph) /\ Len(graph) > 0
      BY <2>2, GraphsAssumption DEF IndInv, TypeOK, Prepared
    <3>2. \A n \in Nodes(graph) : graph[n].op = "input" => ~IsSink(graph, n)
      <4>1. is_leaf("input")
        BY DEF is_leaf, Op, Leaf
      <4> QED BY <2>2, <2>3, <4>1 DEF Lowerable, Sinks, Computed
    <3>3. UsedInputs(graph) = Inputs(graph)
      BY <3>1, <3>2, UsedInputsAreInputs
    <3> QED BY <3>3 DEF forward_params, forward_bindings
  <2> HIDE DEF params, bindings
  <2>5. ASSUME NEW p \in DOMAIN schedule,
               NEW t \in chain[schedule[p].kernel].kernel.reads
                           \cup chain[schedule[p].kernel].kernel.writes
        PROVE  \E s \in DOMAIN params : params[s] = t /\ bindings[s] = t
    <3>1. t \in Range(bindings)
      BY UsesAreBound DEF bindings
    <3> QED BY <2>4, <3>1 DEF Range
  <2> QED BY <2>4, <2>5
<1> QED BY <1>1, <1>2, <1>3, PTL DEF PassSpec
=============================================================================
