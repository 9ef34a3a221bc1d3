------------------------ MODULE BackwardLoweringProofs ------------------------
(***************************************************************************)
(* lower_backward builds, of every graph, lists of the form the scheduler   *)
(* relies on.  As in the forward pass a kernel does not end before its root *)
(* is resolved; the outputs never are, and only they can have more kernels  *)
(* than one.  A kernel stores the gradient of its root and nothing else; it *)
(* loads only what another kernel of its input, the forward pass or the     *)
(* caller provides; and it adds up a term for every walk from its root to   *)
(* where the gradient comes from, which gives the chain rule.  When all     *)
(* paths from a node cross the same number of products, the sweeps go       *)
(* level by level: then lowering succeeds, and dependencies cover loads.    *)
(***************************************************************************)
EXTENDS BackwardLowering, KernelListProofs

Edges == {get_edge(graph, n, u) : n \in Nodes(graph), u \in Nodes(graph)}
Path == Seq([user : Nodes(graph), edge : Edges, exact : BOOLEAN])
Frame == [do : {"visit", "finish"}, node : Nodes(graph), user : {0}, path : Path]
           \cup [do : {"follow"}, node : Nodes(graph), user : Nodes(graph), path : Path]

TypeOK ==
  /\ graph \in Graphs
  /\ inputs \in Seq(Nodes(graph))
  /\ roots \in Seq(Nodes(graph)) /\ todo \in Seq(Nodes(graph))
  /\ resolved \in Seq(Nodes(graph)) /\ visited \in Seq(Nodes(graph))
  /\ stack \in Seq(Frame)
  /\ stable \in BOOLEAN

\* Once resolved, or an output: what is known of the root of a finished kernel.
Settled(root) == root \in Range(resolved) \/ IsSink(graph, root)

\* The kernel under construction has settled its root, is about to evaluate it, with nothing yet
\* to keep it from following its uses, or will finish it last.
RootIsPending ==
  \/ Settled(kernel.root)
  \/ stack = << Visit(kernel.root, << >>) >> /\ stable
  \/ stack # << >> /\ stack[Len(stack)] = Finish(kernel.root)

KernelIsNew ==
  IF kernel = NoKernel THEN stack = << >>
  ELSE /\ IsKernel(kernel)
       /\ todo # << >> /\ kernel.root = Head(todo)
       /\ \A i \in DOMAIN segment :
            segment[i].kernel.root = kernel.root => IsSink(graph, kernel.root)
       /\ RootIsPending

Order == [i \in DOMAIN segment |-> segment[i].kernel.root]

ListSoFar ==
  /\ segment \in Seq(Range(segment))
  /\ \A i \in DOMAIN segment :
       /\ segment[i] = [kernel |-> segment[i].kernel, dep |-> segment[i].dep]
       /\ segment[i].kernel.root \in Nodes(graph)
       /\ Settled(segment[i].kernel.root)
       /\ segment[i].dep = BackwardList(Order)[i].dep
  /\ \A i, j \in DOMAIN segment :
       segment[i].kernel.root = segment[j].kernel.root => i = j \/ IsSink(graph, segment[i].kernel.root)

IndInv == TypeOK /\ KernelIsNew /\ ListSoFar

-----------------------------------------------------------------------------
LEMMA GraphFacts ==
  ASSUME TypeOK
  PROVE  /\ IsGraph(graph) /\ Len(graph) \in Nat
         /\ \A n \in Nodes(graph) : /\ n \in Nat /\ n # 0
                                   /\ graph[n].op \in OpNames
                                   /\ graph[n].outputs \in Seq(Nodes(graph))
<1>1. IsGraph(graph)
  BY GraphsAssumption DEF TypeOK, Prepared
<1>2. Len(graph) \in Nat
  BY <1>1 DEF IsGraph
<1> QED BY <1>1, <1>2, GraphNodes DEF Nodes

LEMMA FirstOfType ==
  ASSUME NEW S, NEW s \in Seq(S)
  PROVE  FirstOf(s) \in Seq(S)
<1>1. CASE s = << >>
  BY <1>1 DEF FirstOf
<1>2. CASE s # << >>
  <2>1. Head(s) \in S
    BY <1>2, Popped
  <2> QED BY <1>2, <2>1 DEF FirstOf
<1> QED BY <1>1, <1>2

LEMMA InitInv == Init => IndInv
<1> SUFFICES ASSUME Init PROVE IndInv
  OBVIOUS
<1>1. IsGraph(graph) /\ Len(graph) \in Nat
  <2>1. IsGraph(graph)
    BY GraphsAssumption DEF Init, Prepared
  <2> QED BY <2>1 DEF IsGraph
<1>2. inputs \in Seq(Nodes(graph))
  <2> DEFINE S == {n \in Nodes(graph) : graph[n].op = "input"}
  <2>1. S \in SUBSET (1 .. Len(graph)) /\ S \subseteq Nodes(graph)
    BY DEF Nodes
  <2>2. inputs = Ascending(S)
    BY DEF Init
  <2> HIDE DEF S
  <2>3. Ascending(S) \in Seq(S)
    BY <1>1, <2>1, AscendingType
  <2>4. \A T : S \subseteq T => Seq(S) \subseteq Seq(T)
    OBVIOUS
  <2> QED BY <2>1, <2>2, <2>3, <2>4
<1>3. roots \in Seq(Nodes(graph))
  BY <1>2, FirstOfType DEF Init
<1>4. TypeOK
  BY <1>2, <1>3 DEF Init, TypeOK
<1>5. KernelIsNew
  BY DEF Init, KernelIsNew
<1>6. ListSoFar
  <2>1. segment = << >> /\ DOMAIN segment = {} /\ segment \in Seq(Range(segment))
    BY DEF Init
  <2> QED BY <2>1 DEF ListSoFar
<1> QED BY <1>4, <1>5, <1>6 DEF IndInv

\* Steps that leave the kernel under construction and the list alone.
LEMMA Undisturbed ==
  ASSUME IndInv, TypeOK', UNCHANGED << graph, resolved, kernel, stack, stable, segment >>,
         kernel = NoKernel \/ todo' = todo
  PROVE  IndInv'
<1>1. ListSoFar'
  BY DEF IndInv, ListSoFar, Order, Settled
<1>2. KernelIsNew'
  BY DEF IndInv, KernelIsNew, RootIsPending, Settled, Visit, Finish, NoKernel
<1> QED BY <1>1, <1>2 DEF IndInv

LEMMA ListKept ==
  ASSUME ListSoFar, UNCHANGED << graph, segment >>, Range(resolved) \subseteq Range(resolved')
  PROVE  ListSoFar'
BY DEF ListSoFar, Order, Settled

LEMMA Failed ==
  ASSUME IndInv, UNCHANGED << graph, inputs, roots, todo, resolved, kernel, stack, visited, stable,
                              segment >>
  PROVE  IndInv'
<1>1. TypeOK'
  BY DEF IndInv, TypeOK, Frame, Path, Edges
<1> QED BY <1>1, Undisturbed

-----------------------------------------------------------------------------
(* The loops over the inputs and the roots. *)

LEMMA LoopSteps ==
  ASSUME IndInv, StartSweep \/ Return \/ SkipRoot
  PROVE  IndInv'
<1>1. UNCHANGED << graph, inputs, resolved, kernel, stack, visited, stable, segment >>
      /\ kernel = NoKernel
  BY DEF StartSweep, Return, SkipRoot, BetweenKernels
<1>2. roots' \in Seq(Nodes(graph)) /\ todo' \in Seq(Nodes(graph))
  <2>1. CASE StartSweep
    BY <2>1 DEF StartSweep, IndInv, TypeOK
  <2>2. CASE Return
    BY <2>2 DEF Return, IndInv, TypeOK
  <2>3. CASE SkipRoot
    <3>1. todo \in Seq(Nodes(graph)) /\ todo # << >>
      BY <2>3 DEF SkipRoot, IndInv, TypeOK
    <3>2. Tail(todo) \in Seq(Nodes(graph))
      BY <3>1, Popped
    <3> QED BY <2>3, <3>2 DEF SkipRoot, IndInv, TypeOK
  <2> QED BY <2>1, <2>2, <2>3
<1>3. TypeOK'
  BY <1>1, <1>2 DEF IndInv, TypeOK, Frame, Path, Edges
<1> QED BY <1>1, <1>3, Undisturbed

LEMMA EndInputStep ==
  ASSUME IndInv, EndInput
  PROVE  IndInv'
<1>1. /\ kernel = NoKernel /\ inputs # << >>
      /\ segment' = << >> /\ resolved' = << >>
      /\ inputs' = Tail(inputs) /\ roots' = FirstOf(Tail(inputs))
      /\ UNCHANGED << graph, todo, kernel, stack, visited, stable >>
  BY DEF EndInput, BetweenKernels
<1>2. inputs' \in Seq(Nodes(graph)) /\ roots' \in Seq(Nodes(graph))
  <2>1. inputs \in Seq(Nodes(graph))
    BY DEF IndInv, TypeOK
  <2>2. Tail(inputs) \in Seq(Nodes(graph))
    BY <1>1, <2>1, Popped
  <2>3. FirstOf(Tail(inputs)) \in Seq(Nodes(graph))
    BY <2>2, FirstOfType
  <2> QED BY <1>1, <2>2, <2>3
<1>3. TypeOK'
  BY <1>1, <1>2 DEF IndInv, TypeOK, Frame, Path, Edges
<1>4. KernelIsNew'
  BY <1>1 DEF IndInv, KernelIsNew, NoKernel
<1>5. ListSoFar'
  <2>1. DOMAIN segment' = {} /\ segment' \in Seq(Range(segment'))
    BY <1>1
  <2> QED BY <2>1 DEF ListSoFar
<1> QED BY <1>3, <1>4, <1>5 DEF IndInv

LEMMA StartKernelStep ==
  ASSUME IndInv, StartKernel
  PROVE  IndInv'
<1> DEFINE root == Head(todo)
<1>1. root \in Nodes(graph) /\ root \in Nat /\ root # 0 /\ todo # << >>
  <2>1. todo \in Seq(Nodes(graph)) /\ todo # << >>
    BY DEF StartKernel, IndInv, TypeOK
  <2>2. root \in Nodes(graph)
    BY <2>1, Popped
  <2> QED BY <2>1, <2>2, GraphFacts DEF IndInv
<1>2. /\ kernel' = NewKernel(graph, root) /\ stack' = << Visit(root, << >>) >>
      /\ visited' = << >> /\ stable' = TRUE
      /\ UNCHANGED << graph, inputs, roots, todo, resolved, segment >>
      /\ root \notin Range(resolved)
  BY DEF StartKernel
<1>3. TypeOK'
  <2>1. Visit(root, << >>) \in Frame
    <3>1. << >> \in Path
      BY DEF Path
    <3> HIDE DEF root
    <3> QED BY <1>1, <3>1 DEF Visit, Frame
  <2>2. << Visit(root, << >>) >> \in Seq(Frame)
    BY <2>1
  <2>3. Frame' = Frame
    BY <1>2 DEF Frame, Path, Edges
  <2> QED BY <1>2, <2>2, <2>3 DEF IndInv, TypeOK
<1>4. IsKernel(kernel') /\ kernel'.root = root
  BY <1>2, KernelFacts
<1>5. kernel' # NoKernel
  BY <1>1, <1>4 DEF NoKernel
<1>6. \A i \in DOMAIN segment' :
        segment'[i].kernel.root = kernel'.root => IsSink(graph', kernel'.root)
  BY <1>2, <1>4 DEF IndInv, ListSoFar, Settled
<1>7. KernelIsNew'
  BY <1>1, <1>2, <1>4, <1>5, <1>6 DEF KernelIsNew, RootIsPending, NoKernel, Visit
<1>8. ListSoFar'
  BY <1>2, ListKept DEF IndInv
<1> QED BY <1>3, <1>7, <1>8 DEF IndInv

Stored == IF StoresGradient(kernel.root) THEN Store(kernel, Grad(kernel.root)) ELSE kernel

\* The list after a kernel: the entries it had, their dependencies extended, and the new one.
LEMMA SegmentGrows ==
  ASSUME IndInv, FinishKernel, ~(StoresGradient(kernel.root) /\ ~HasGradParam(kernel.root))
  PROVE  LET root == kernel.root
             n == Len(segment)
         IN
         /\ n \in Nat /\ DOMAIN segment = 1 .. n
         /\ DOMAIN segment' = 1 .. n + 1 /\ Len(segment') = n + 1
         /\ segment' \in Seq(Range(segment'))
         /\ segment'[n + 1] = [kernel |-> Stored, dep |-> {}]
         /\ \A i \in 1 .. n : /\ segment'[i].kernel = segment[i].kernel
                              /\ segment'[i] = [kernel |-> segment'[i].kernel,
                                                dep |-> segment'[i].dep]
                              /\ segment'[i].dep = segment[i].dep \cup
                                   (IF segment[i].kernel.root < root THEN {root} ELSE {})
<1> DEFINE root == kernel.root
           n == Len(segment)
           depend(e) == IF DependsOn(e.kernel.root, root) THEN [e EXCEPT !.dep = @ \cup {root}] ELSE e
           stored == Stored
<1>1. segment' = Append([i \in DOMAIN segment |-> depend(segment[i])], [kernel |-> stored, dep |-> {}])
  BY DEF FinishKernel, Stored
<1>6. n \in Nat /\ DOMAIN segment = 1 .. n
  BY DEF IndInv, ListSoFar
<1>7. /\ DOMAIN segment' = 1 .. n + 1 /\ Len(segment') = n + 1
      /\ segment' \in Seq(Range(segment'))
      /\ segment'[n + 1] = [kernel |-> stored, dep |-> {}]
      /\ \A i \in 1 .. n : segment'[i] = depend(segment[i])
  <2> DEFINE old == [i \in DOMAIN segment |-> depend(segment[i])]
             new == [kernel |-> stored, dep |-> {}]
             S == {depend(segment[i]) : i \in DOMAIN segment} \cup {new}
  <2>1. old \in Seq(S) /\ new \in S /\ Len(old) = n /\ \A i \in 1 .. n : old[i] = depend(segment[i])
    <3>1. new \in S /\ \A i \in 1 .. n : depend(segment[i]) \in S
      <4> HIDE DEF depend, new
      <4> QED BY <1>6
    <3>2. old = [i \in 1 .. n |-> depend(segment[i])]
      BY <1>6
    <3> HIDE DEF depend, new, S, old
    <3> QED BY <1>6, <3>1, <3>2
  <2> HIDE DEF old, new, S, depend
  <2>2. /\ DOMAIN segment' = 1 .. n + 1 /\ Len(segment') = n + 1 /\ segment'[n + 1] = new
        /\ \A i \in 1 .. n : segment'[i] = old[i]
        /\ segment' \in Seq(S)
    BY <1>1, <1>6, <2>1 DEF old, new
  <2>3. segment' \in Seq(Range(segment'))
    <3>1. \A i \in 1 .. n + 1 : segment'[i] \in Range(segment')
      BY <2>2 DEF Range
    <3>2. segment' = [i \in 1 .. n + 1 |-> segment'[i]]
      BY <2>2
    <3> HIDE DEF n
    <3> QED BY <1>6, <3>1, <3>2
  <2> QED BY <1>6, <2>1, <2>2, <2>3 DEF new
<1>8. \A i \in 1 .. n : /\ segment'[i].kernel = segment[i].kernel
                        /\ segment'[i] = [kernel |-> segment'[i].kernel, dep |-> segment'[i].dep]
                        /\ segment'[i].dep = segment[i].dep \cup
                             (IF segment[i].kernel.root < root THEN {root} ELSE {})
  <2>1. ASSUME NEW i \in 1 .. n
        PROVE  depend(segment[i]) = [kernel |-> segment[i].kernel,
                 dep |-> segment[i].dep \cup (IF segment[i].kernel.root < root THEN {root} ELSE {})]
    <3>1. segment[i] = [kernel |-> segment[i].kernel, dep |-> segment[i].dep]
      BY <1>6 DEF IndInv, ListSoFar
    <3> QED BY <3>1 DEF DependsOn
  <2> DEFINE D(i) == segment[i].dep \cup (IF segment[i].kernel.root < root THEN {root} ELSE {})
  <2>2. \A i \in 1 .. n : segment'[i] = [kernel |-> segment[i].kernel, dep |-> D(i)]
    <3> HIDE DEF depend
    <3> QED BY <1>7, <2>1
  <2> HIDE DEF D, n
  <2>3. \A i \in 1 .. n : /\ segment'[i].kernel = segment[i].kernel /\ segment'[i].dep = D(i)
                          /\ segment'[i] = [kernel |-> segment'[i].kernel, dep |-> segment'[i].dep]
    BY <2>2, EntryFields
  <2> QED BY <2>3 DEF D
<1> QED BY <1>6, <1>7, <1>8

LEMMA FinishKernelStep ==
  ASSUME IndInv, FinishKernel
  PROVE  IndInv'
<1> DEFINE root == kernel.root
           n == Len(segment)
           fresh == Nodes(graph) \ (Range(roots) \cup Range(resolved) \cup {root})
           stored == IF StoresGradient(root) THEN Store(kernel, Grad(root)) ELSE kernel
<1>0. CASE StoresGradient(root) /\ ~HasGradParam(root)
  BY <1>0, Failed DEF FinishKernel, Fail
<1> SUFFICES ASSUME ~(StoresGradient(root) /\ ~HasGradParam(root)) PROVE IndInv'
  BY <1>0
<1>1. /\ kernel # NoKernel /\ stack = << >>
      /\ roots' = PushAll(roots, visited, fresh)
      /\ todo' = Tail(todo) /\ kernel' = NoKernel
      /\ UNCHANGED << graph, inputs, resolved, stack, visited, stable >>
  BY DEF FinishKernel
<1>2. /\ root = Head(todo) /\ todo # << >> /\ Settled(root) /\ stored.root = root
      /\ \A i \in DOMAIN segment : segment[i].kernel.root = root => IsSink(graph, root)
  <2>1. IsKernel(kernel)
    BY <1>1 DEF IndInv, KernelIsNew
  <2>2. stored.root = root
    BY <2>1, KernelFacts
  <2> HIDE DEF stored
  <2> QED BY <1>1, <2>2 DEF IndInv, KernelIsNew, RootIsPending
<1>3. root \in Nodes(graph) /\ root \in Nat /\ Tail(todo) \in Seq(Nodes(graph))
  <2>1. todo \in Seq(Nodes(graph))
    BY DEF IndInv, TypeOK
  <2>2. root \in Nodes(graph) /\ Tail(todo) \in Seq(Nodes(graph))
    BY <1>2, <2>1, Popped
  <2> QED BY <2>2, GraphFacts DEF IndInv
<1>4. TypeOK'
  <2>1. roots' \in Seq(Nodes(graph))
    <3>1. roots \in Seq(Nodes(graph)) /\ visited \in Seq(Nodes(graph))
      BY DEF IndInv, TypeOK
    <3> HIDE DEF fresh
    <3> QED BY <1>1, <3>1, PushAllType
  <2> QED BY <1>1, <1>3, <2>1 DEF IndInv, TypeOK, Frame, Path, Edges
<1>5. KernelIsNew'
  BY <1>1 DEF KernelIsNew, NoKernel
<1>6. n \in Nat /\ DOMAIN segment = 1 .. n
  BY DEF IndInv, ListSoFar
<1>7. /\ DOMAIN segment' = 1 .. n + 1 /\ Len(segment') = n + 1
      /\ segment' \in Seq(Range(segment'))
      /\ segment'[n + 1] = [kernel |-> stored, dep |-> {}]
  BY SegmentGrows DEF Stored
<1>8. \A i \in 1 .. n : /\ segment'[i].kernel = segment[i].kernel
                        /\ segment'[i] = [kernel |-> segment'[i].kernel, dep |-> segment'[i].dep]
                        /\ segment'[i].dep = segment[i].dep \cup
                             (IF segment[i].kernel.root < root THEN {root} ELSE {})
  BY SegmentGrows
<1>9. Order \in Seq(Nat) /\ Len(Order) = n /\ \A i \in 1 .. n : Order[i] = segment[i].kernel.root
  <2>1. \A i \in 1 .. n : segment[i].kernel.root \in Nat
    <3>1. \A i \in 1 .. n : segment[i].kernel.root \in Nodes(graph)
      BY <1>6 DEF IndInv, ListSoFar
    <3> QED BY <3>1, GraphFacts DEF IndInv
  <2>2. Order = [i \in 1 .. n |-> segment[i].kernel.root]
    BY <1>6 DEF Order
  <2> HIDE DEF n
  <2> QED BY <1>6, <2>1, <2>2
<1>10. Order' = Append(Order, root)
  <2>1. /\ segment'[n + 1].kernel.root = root
        /\ \A i \in 1 .. n : segment'[i].kernel.root = Order[i]
    <3>1. segment'[n + 1].kernel = stored
      BY <1>7
    <3> QED BY <1>2, <1>8, <1>9, <3>1
  <2>2. Order' = [i \in 1 .. n + 1 |-> segment'[i].kernel.root]
    BY <1>7 DEF Order
  <2>3. Append(Order, root) = [i \in 1 .. n + 1 |-> IF i = n + 1 THEN root ELSE Order[i]]
    BY <1>3, <1>6, <1>9
  <2>4. \A i \in 1 .. n + 1 : i = n + 1 \/ i \in 1 .. n
    BY <1>6
  <2> HIDE DEF n, root
  <2> QED BY <2>1, <2>2, <2>3, <2>4
<1>11. ASSUME NEW i \in 1 .. n + 1 PROVE segment'[i].dep = BackwardList(Order')[i].dep
  <2>1. CASE i = n + 1
    <3>1. BackwardList(Append(Order, root))[n + 1].dep = {}
      BY <1>3, <1>9, BackwardListGrows
    <3> QED BY <1>7, <1>10, <2>1, <3>1
  <2>2. CASE i \in 1 .. n
    <3>1. BackwardList(Append(Order, root))[i].dep =
            BackwardList(Order)[i].dep \cup (IF Order[i] < root THEN {root} ELSE {})
      BY <1>3, <1>9, <2>2, BackwardListGrows
    <3>2. segment[i].dep = BackwardList(Order)[i].dep
      BY <1>6, <2>2 DEF IndInv, ListSoFar
    <3> QED BY <1>8, <1>9, <1>10, <2>2, <3>1, <3>2
  <2> QED BY <1>6, <2>1, <2>2
<1>12. ASSUME NEW i \in 1 .. n + 1
       PROVE  /\ segment'[i] = [kernel |-> segment'[i].kernel, dep |-> segment'[i].dep]
              /\ segment'[i].kernel.root \in Nodes(graph) /\ Settled(segment'[i].kernel.root)
  <2>1. CASE i = n + 1
    <3>1. segment'[i] = [kernel |-> stored, dep |-> {}]
      BY <1>7, <2>1
    <3> HIDE DEF stored
    <3>2. segment'[i].kernel = stored /\ segment'[i].dep = {}
      BY <3>1, EntryFields
    <3> QED BY <1>2, <1>3, <3>1, <3>2
  <2>2. CASE i \in 1 .. n
    <3>1. segment[i].kernel.root \in Nodes(graph) /\ Settled(segment[i].kernel.root)
      BY <1>6, <2>2 DEF IndInv, ListSoFar
    <3> QED BY <1>8, <2>2, <3>1
  <2> QED BY <1>6, <2>1, <2>2
<1>13. ASSUME NEW i \in 1 .. n + 1, NEW j \in 1 .. n + 1,
              segment'[i].kernel.root = segment'[j].kernel.root
       PROVE  i = j \/ IsSink(graph, segment'[i].kernel.root)
  <2>1. \A k \in 1 .. n : segment'[k].kernel.root = root => IsSink(graph, root)
    BY <1>2, <1>6, <1>8
  <2>2. segment'[n + 1].kernel.root = root
    <3> HIDE DEF stored
    <3> QED BY <1>2, <1>7
  <2>3. CASE i \in 1 .. n /\ j \in 1 .. n
    BY <1>6, <1>8, <1>13, <2>3 DEF IndInv, ListSoFar
  <2> QED BY <1>6, <1>13, <2>1, <2>2, <2>3
<1>14. ListSoFar'
  BY <1>1, <1>7, <1>11, <1>12, <1>13 DEF ListSoFar, Settled, IsSink
<1> QED BY <1>4, <1>5, <1>14 DEF IndInv

-----------------------------------------------------------------------------
(* The frames of the evaluation. *)

\* The frame that is run: the kernel has one, and what comes after it keeps the last.
LEMMA RunningFacts ==
  ASSUME IndInv, NEW do, Running(do)
  PROVE  /\ kernel # NoKernel /\ stack # << >> /\ Head(stack).do = do
         /\ node \in Nodes(graph) /\ Tail(stack) \in Seq(Frame)
         /\ graph[node].op \in OpNames /\ path \in Path
         /\ do = "follow" => user \in Nodes(graph)
         /\ stack = << Visit(kernel.root, << >>) >> =>
              do = "visit" /\ node = kernel.root /\ Tail(stack) = << >>
         /\ stack[Len(stack)] = Finish(kernel.root) =>
              \/ do = "finish" /\ node = kernel.root /\ Tail(stack) = << >>
              \/ Tail(stack) # << >> /\ Tail(stack)[Len(Tail(stack))] = Finish(kernel.root)
<1>1. stack \in Seq(Frame) /\ stack # << >> /\ Head(stack).do = do /\ TypeOK
  BY DEF Running, IndInv, TypeOK
<1>2. kernel # NoKernel
  BY <1>1 DEF IndInv, KernelIsNew
<1>3. /\ Head(stack) \in Frame /\ Tail(stack) \in Seq(Frame) /\ Len(stack) \in Nat \ {0}
      /\ Head(stack) = stack[1]
      /\ Len(stack) = 1 => Tail(stack) = << >>
      /\ Len(stack) # 1 => Tail(stack) # << >> /\ Tail(stack)[Len(Tail(stack))] = stack[Len(stack)]
  BY <1>1, Popped
<1>4. node \in Nodes(graph)
  <2>1. \A f \in Frame : f.node \in Nodes(graph)
    BY DEF Frame
  <2> QED BY <1>3, <2>1 DEF node
<1>9. path \in Path /\ (do = "follow" => user \in Nodes(graph))
  <2>1. \A f \in Frame : f.path \in Path /\ (f.do = "follow" => f.user \in Nodes(graph))
    BY DEF Frame
  <2> QED BY <1>1, <1>3, <2>1 DEF path, user
<1>5. graph[node].op \in OpNames
  BY <1>1, <1>4, GraphFacts
<1>6. ASSUME stack = << Visit(kernel.root, << >>) >>
      PROVE  do = "visit" /\ node = kernel.root /\ Tail(stack) = << >>
  <2>1. Head(stack) = Visit(kernel.root, << >>) /\ Tail(stack) = << >>
    BY <1>6
  <2>2. Visit(kernel.root, << >>).do = "visit" /\ Visit(kernel.root, << >>).node = kernel.root
    BY DEF Visit
  <2> QED BY <1>1, <2>1, <2>2 DEF node
<1>7. ASSUME stack[Len(stack)] = Finish(kernel.root), Len(stack) = 1
      PROVE  do = "finish" /\ node = kernel.root /\ Tail(stack) = << >>
  <2>1. Head(stack) = Finish(kernel.root)
    BY <1>3, <1>7
  <2>2. Finish(kernel.root).do = "finish" /\ Finish(kernel.root).node = kernel.root
    BY DEF Finish
  <2>3. Tail(stack) = << >>
    BY <1>3, <1>7
  <2> QED BY <1>1, <2>1, <2>2, <2>3 DEF node
<1>8. ASSUME stack[Len(stack)] = Finish(kernel.root), Len(stack) # 1
      PROVE  Tail(stack) # << >> /\ Tail(stack)[Len(Tail(stack))] = Finish(kernel.root)
  BY <1>3, <1>8
<1> HIDE DEF node, path, user
<1> QED BY <1>1, <1>2, <1>3, <1>4, <1>5, <1>6, <1>7, <1>8, <1>9

\* What an evaluation step has to show of the invariant.
LEMMA EvalPreserves ==
  ASSUME IndInv, kernel # NoKernel,
         UNCHANGED << graph, inputs, roots, todo, segment >>,
         resolved' \in Seq(Nodes(graph)), Range(resolved) \subseteq Range(resolved'),
         visited' \in Seq(Nodes(graph)), stack' \in Seq(Frame), stable' \in BOOLEAN,
         IsKernel(kernel'), kernel'.root = kernel.root,
         RootIsPending'
  PROVE  IndInv'
<1>1. TypeOK'
  BY DEF IndInv, TypeOK, Frame, Path, Edges
<1>2. ListSoFar'
  BY ListKept DEF IndInv
<1>3. kernel.root \in Nat /\ kernel.root # 0
  <2>1. kernel.root = Head(todo) /\ todo # << >> /\ todo \in Seq(Nodes(graph))
    BY DEF IndInv, KernelIsNew, TypeOK
  <2>2. kernel.root \in Nodes(graph)
    BY <2>1, Popped
  <2> QED BY <2>2, GraphFacts DEF IndInv
<1>4. kernel' # NoKernel
  BY <1>3 DEF NoKernel
<1>5. KernelIsNew'
  BY <1>4 DEF IndInv, KernelIsNew, IsSink
<1> QED BY <1>1, <1>2, <1>5 DEF IndInv

LEMMA PendingGrows ==
  ASSUME Settled(kernel.root), kernel'.root = kernel.root, graph' = graph,
         Range(resolved) \subseteq Range(resolved')
  PROVE  RootIsPending'
BY DEF RootIsPending, Settled, IsSink

LEMMA SeenFacts ==
  ASSUME IndInv, kernel # NoKernel
  PROVE  IsKernel(kernel) /\ IsKernel(Seen) /\ Seen.root = kernel.root
<1>1. IsKernel(kernel)
  BY DEF IndInv, KernelIsNew
<1> QED BY <1>1, KernelFacts DEF Seen

LEMMA VisitedType ==
  ASSUME IndInv, node \in Nodes(graph)
  PROVE  Visited \in Seq(Nodes(graph))
<1>1. visited \in Seq(Nodes(graph))
  BY DEF IndInv, TypeOK
<1> QED BY <1>1, PushNewType DEF Visited

LEMMA TermFacts ==
  ASSUME IndInv, kernel # NoKernel, NEW t
  PROVE  IsKernel(AddTerm(t)) /\ AddTerm(t).root = kernel.root
<1> DEFINE loaded == Load(Seen, t)
<1>1. IsKernel(loaded) /\ loaded.root = kernel.root
  BY SeenFacts, KernelFacts
<1>2. \A y : IsKernel([loaded EXCEPT !.terms = y]) /\ [loaded EXCEPT !.terms = y].root = kernel.root
  <2> HIDE DEF loaded
  <2> QED BY <1>1, KernelFacts
<1> HIDE DEF loaded
<1>3. AddTerm(t) = [loaded EXCEPT !.terms = loaded.terms \cup {<< path, node >>}]
  BY DEF AddTerm, loaded
<1> QED BY <1>2, <1>3

LEMMA VisitSinkStep ==
  ASSUME IndInv, VisitSink
  PROVE  IndInv'
<1>1. /\ kernel' = AddTerm(Seed) /\ stack' = Tail(stack) /\ visited' = Visited
      /\ UNCHANGED << graph, inputs, roots, todo, resolved, stable, segment >>
      /\ Running("visit") /\ IsSink(graph, node)
  BY DEF VisitSink
<1>2. /\ kernel # NoKernel /\ node \in Nodes(graph) /\ Tail(stack) \in Seq(Frame)
      /\ stack = << Visit(kernel.root, << >>) >> => node = kernel.root
      /\ stack[Len(stack)] = Finish(kernel.root) =>
           Tail(stack) # << >> /\ Tail(stack)[Len(Tail(stack))] = Finish(kernel.root)
  BY <1>1, RunningFacts
<1>3. IsKernel(kernel') /\ kernel'.root = kernel.root
  BY <1>1, <1>2, TermFacts
<1>4. resolved \in Seq(Nodes(graph)) /\ Visited \in Seq(Nodes(graph)) /\ stable \in BOOLEAN
  BY <1>2, VisitedType DEF IndInv, TypeOK
<1>5. RootIsPending'
  <2>1. CASE Settled(kernel.root)
    BY <1>1, <1>3, <2>1, PendingGrows
  <2>2. CASE stack = << Visit(kernel.root, << >>) >>
    <3>1. Settled(kernel.root)
      BY <1>1, <1>2, <2>2 DEF Settled
    <3> QED BY <1>1, <1>3, <3>1, PendingGrows
  <2>3. CASE stack[Len(stack)] = Finish(kernel.root)
    BY <1>1, <1>2, <1>3, <2>3 DEF RootIsPending, Finish
  <2> QED BY <1>2, <2>1, <2>2, <2>3 DEF IndInv, KernelIsNew, RootIsPending
<1> QED BY <1>1, <1>2, <1>3, <1>4, <1>5, EvalPreserves

LEMMA VisitSplitStep ==
  ASSUME IndInv, VisitSplit
  PROVE  IndInv'
<1>1. CASE ~HasGradParam(node)
  BY <1>1, Failed DEF VisitSplit, Fail
<1>2. CASE HasGradParam(node)
  <2>1. /\ kernel' = AddTerm(Grad(node)) /\ stack' = Tail(stack) /\ visited' = Visited
        /\ UNCHANGED << graph, inputs, roots, todo, resolved, stable, segment >>
        /\ Running("visit") /\ MustSplit
    BY <1>2 DEF VisitSplit
  <2>2. /\ kernel # NoKernel /\ node \in Nodes(graph) /\ Tail(stack) \in Seq(Frame)
        /\ stack[Len(stack)] = Finish(kernel.root) =>
             Tail(stack) # << >> /\ Tail(stack)[Len(Tail(stack))] = Finish(kernel.root)
    BY <2>1, RunningFacts
  <2>3. IsKernel(kernel') /\ kernel'.root = kernel.root
    BY <2>1, <2>2, TermFacts
  <2>4. resolved \in Seq(Nodes(graph)) /\ Visited \in Seq(Nodes(graph)) /\ stable \in BOOLEAN
    BY <2>2, VisitedType DEF IndInv, TypeOK
  <2>5. ~stable
    <3>1. ~DimsInvalid(graph, resolved, node)
      <4>1. IsGraph(graph)
        BY GraphFacts DEF IndInv
      <4> QED BY <2>4, <4>1, DimsValid
    <3> QED BY <2>1, <3>1 DEF MustSplit
  <2>6. RootIsPending'
    <3>1. CASE Settled(kernel.root)
      BY <2>1, <2>3, <3>1, PendingGrows
    <3>2. CASE stack[Len(stack)] = Finish(kernel.root)
      BY <2>1, <2>2, <2>3, <3>2 DEF RootIsPending, Finish
    <3> QED BY <2>2, <2>5, <3>1, <3>2 DEF IndInv, KernelIsNew, RootIsPending
  <2> QED BY <2>1, <2>2, <2>3, <2>4, <2>6, EvalPreserves
<1> QED BY <1>1, <1>2

LEMMA VisitUsersStep ==
  ASSUME IndInv, VisitUsers
  PROVE  IndInv'
<1> DEFINE uses == [k \in DOMAIN Users |-> Follow(node, Users[k], path)]
<1>1. /\ kernel' = Seen
      /\ stack' = uses \o << Finish(node) >> \o Tail(stack)
      /\ visited' = Visited
      /\ UNCHANGED << graph, inputs, roots, todo, resolved, stable, segment >>
      /\ Running("visit")
  BY DEF VisitUsers
<1>2. /\ kernel # NoKernel /\ node \in Nodes(graph) /\ Tail(stack) \in Seq(Frame)
      /\ path \in Path
      /\ stack = << Visit(kernel.root, << >>) >> => node = kernel.root /\ Tail(stack) = << >>
      /\ stack[Len(stack)] = Finish(kernel.root) =>
           Tail(stack) # << >> /\ Tail(stack)[Len(Tail(stack))] = Finish(kernel.root)
  BY <1>1, RunningFacts
<1>3. IsKernel(kernel') /\ kernel'.root = kernel.root
  BY <1>1, <1>2, SeenFacts
<1>4. /\ stack' \in Seq(Frame) /\ stack' # << >>
      /\ stack'[Len(stack')] = IF Tail(stack) = << >> THEN Finish(node) ELSE Tail(stack)[Len(Tail(stack))]
  <2> DEFINE rest == Tail(stack)
             end == Finish(node)
  <2>1. end \in Frame
    <3>1. << >> \in Path
      BY DEF Path
    <3> HIDE DEF node
    <3> QED BY <1>2, <3>1 DEF Finish, Frame
  <2>2. uses \in Seq(Frame)
    <3>1. Users \in Seq(Nodes(graph))
      BY <1>2, GraphFacts DEF IndInv, Users
    <3>2. \A u \in Nodes(graph) : Follow(node, u, path) \in Frame
      <4> HIDE DEF node, path
      <4> QED BY <1>2 DEF Follow, Frame
    <3> HIDE DEF Users, node, path
    <3>3. /\ Len(Users) \in Nat /\ DOMAIN Users = 1 .. Len(Users)
          /\ \A p \in DOMAIN Users : Users[p] \in Nodes(graph)
      BY <3>1
    <3> QED BY <3>2, <3>3
  <2> HIDE DEF uses, end, rest
  <2>3. rest \in Seq(Frame)
    BY <1>2 DEF rest
  <2>4. /\ uses \o << end >> \o rest \in Seq(Frame) /\ uses \o << end >> \o rest # << >>
        /\ (uses \o << end >> \o rest)[Len(uses \o << end >> \o rest)]
             = IF rest = << >> THEN end ELSE rest[Len(rest)]
    BY <2>1, <2>2, <2>3, LastOfFrames
  <2>5. stack' = uses \o << end >> \o rest
    BY <1>1 DEF end, rest
  <2>6. /\ stack' \in Seq(Frame) /\ stack' # << >>
        /\ stack'[Len(stack')] = IF rest = << >> THEN end ELSE rest[Len(rest)]
    BY <2>4, <2>5
  <2> QED BY <2>6 DEF end, rest
<1>5. RootIsPending'
  <2>1. CASE Settled(kernel.root)
    BY <1>1, <1>3, <2>1, PendingGrows
  <2>2. CASE stack = << Visit(kernel.root, << >>) >> \/ stack[Len(stack)] = Finish(kernel.root)
    <3>1. stack'[Len(stack')] = Finish(kernel.root)
      BY <1>2, <1>4, <2>2
    <3> QED BY <1>3, <1>4, <3>1 DEF RootIsPending, Finish
  <2> QED BY <1>2, <2>1, <2>2 DEF IndInv, KernelIsNew, RootIsPending
<1>6. resolved \in Seq(Nodes(graph)) /\ Visited \in Seq(Nodes(graph)) /\ stable \in BOOLEAN
  BY <1>2, VisitedType DEF IndInv, TypeOK
<1> HIDE DEF uses
<1> QED BY <1>1, <1>2, <1>3, <1>4, <1>5, <1>6, EvalPreserves

LEMMA FollowEdgeStep ==
  ASSUME IndInv, FollowEdge
  PROVE  IndInv'
<1> DEFINE edge == get_edge(graph, node, user)
           needed == Needed(edge)
           present == {n \in needed : HasSavedParam(n)}
           step == [user |-> user, edge |-> edge, exact |-> Exact(edge)]
           next == Visit(user, Append(path, step))
<1>1. CASE Op[graph[user].op].must /\ present # needed
  BY <1>1, Failed DEF FollowEdge, Fail
<1>2. CASE ~(Op[graph[user].op].must /\ present # needed)
  <2>1. /\ stable' = (stable /\ Op[graph[user].op].stable_iter)
        /\ stack' = << next >> \o Tail(stack)
        /\ UNCHANGED << graph, inputs, roots, todo, resolved, visited, segment >>
        /\ Running("follow")
    BY <1>2 DEF FollowEdge
  <2>2. /\ kernel # NoKernel /\ node \in Nodes(graph) /\ Tail(stack) \in Seq(Frame)
        /\ path \in Path /\ user \in Nodes(graph)
        /\ stack # << Visit(kernel.root, << >>) >>
        /\ stack[Len(stack)] = Finish(kernel.root) =>
             Tail(stack) # << >> /\ Tail(stack)[Len(Tail(stack))] = Finish(kernel.root)
    BY <2>1, RunningFacts
  <2>3. IsKernel(kernel') /\ kernel'.root = kernel.root
    <3> DEFINE kept == kernel.reads \cup {SavedParam(n) : n \in present}
               other == Transposed(graph[graph[user].inputs[3 - edge]].shape)
               added == IF edge = 1 THEN MatmulMeta(graph[user].shape, other)
                                    ELSE MatmulMeta(other, graph[user].shape)
               loaded == [kernel EXCEPT !.reads = kept]
    <3>1. kernel' = loaded \/ kernel' = [loaded EXCEPT !.meta = loaded.meta \cup added]
      BY <1>2 DEF FollowEdge
    <3>2. IsKernel(kernel)
      BY <2>2, SeenFacts
    <3> HIDE DEF kept, added
    <3>3. IsKernel(loaded) /\ loaded.root = kernel.root
      BY <3>2, KernelFacts
    <3> HIDE DEF loaded
    <3>4. \A m : IsKernel([loaded EXCEPT !.meta = m])
                  /\ [loaded EXCEPT !.meta = m].root = loaded.root
      BY <3>3, KernelFacts
    <3> QED BY <3>1, <3>3, <3>4
  <2>4. next \in Frame
    <3>1. edge \in Edges
      BY <2>2 DEF Edges
    <3>2. step \in [user : Nodes(graph), edge : Edges, exact : BOOLEAN]
      <4>1. Exact(edge) \in BOOLEAN
        BY DEF Exact
      <4> HIDE DEF edge, user, needed, present
      <4> QED BY <2>2, <3>1, <4>1
    <3>3. Append(path, step) \in Path
      <4> HIDE DEF step, path
      <4> QED BY <2>2, <3>2 DEF Path
    <3> HIDE DEF step, path, user
    <3> QED BY <2>2, <3>3 DEF Visit, Frame
  <2>5. /\ stack' \in Seq(Frame) /\ stack' # << >>
        /\ Tail(stack) # << >> => stack'[Len(stack')] = Tail(stack)[Len(Tail(stack))]
    <3> DEFINE rest == Tail(stack)
    <3> HIDE DEF next, rest
    <3>1. rest \in Seq(Frame)
      BY <2>2 DEF rest
    <3>2. /\ << next >> \o rest \in Seq(Frame) /\ << next >> \o rest # << >>
          /\ rest # << >> => (<< next >> \o rest)[Len(<< next >> \o rest)] = rest[Len(rest)]
      BY <2>4, <3>1, LastOfPush
    <3>3. stack' = << next >> \o rest
      BY <2>1 DEF rest
    <3> QED BY <3>2, <3>3 DEF rest
  <2>6. RootIsPending'
    <3>1. CASE Settled(kernel.root)
      BY <2>1, <2>3, <3>1, PendingGrows
    <3>2. CASE stack[Len(stack)] = Finish(kernel.root)
      BY <2>2, <2>3, <2>5, <3>2 DEF RootIsPending, Finish
    <3> QED BY <2>2, <3>1, <3>2 DEF IndInv, KernelIsNew, RootIsPending
  <2>7. resolved \in Seq(Nodes(graph)) /\ visited \in Seq(Nodes(graph)) /\ stable' \in BOOLEAN
    <3>1. graph[user].op \in OpNames
      BY <2>2, GraphFacts DEF IndInv
    <3>2. Op[graph[user].op].stable_iter \in BOOLEAN
      BY <3>1, OpFacts
    <3> QED BY <2>1, <3>2 DEF IndInv, TypeOK
  <2> HIDE DEF next
  <2> QED BY <2>1, <2>2, <2>3, <2>5, <2>6, <2>7, EvalPreserves
<1> QED BY <1>1, <1>2

LEMMA FinishNodeStep ==
  ASSUME IndInv, FinishNode
  PROVE  IndInv'
<1>1. /\ resolved' = PushNew(resolved, node) /\ stack' = Tail(stack)
      /\ UNCHANGED << graph, inputs, roots, todo, kernel, visited, stable, segment >>
      /\ Running("finish")
  BY DEF FinishNode
<1>2. /\ kernel # NoKernel /\ node \in Nodes(graph) /\ Tail(stack) \in Seq(Frame)
      /\ stack # << Visit(kernel.root, << >>) >>
      /\ stack[Len(stack)] = Finish(kernel.root) =>
           \/ node = kernel.root
           \/ Tail(stack) # << >> /\ Tail(stack)[Len(Tail(stack))] = Finish(kernel.root)
  BY <1>1, RunningFacts
<1>3. IsKernel(kernel') /\ kernel'.root = kernel.root
  BY <1>1, <1>2, SeenFacts
<1>4. resolved' \in Seq(Nodes(graph)) /\ Range(resolved') = Range(resolved) \cup {node}
  <2>1. resolved \in Seq(Nodes(graph))
    BY DEF IndInv, TypeOK
  <2>2. /\ PushNew(resolved, node) \in Seq(Nodes(graph))
        /\ Range(PushNew(resolved, node)) = Range(resolved) \cup {node}
    BY <1>2, <2>1, PushNewType
  <2>3. resolved' = PushNew(resolved, node)
    BY <1>1
  <2> QED BY <2>2, <2>3
<1>5. RootIsPending'
  <2>1. CASE Settled(kernel.root)
    BY <1>1, <1>3, <1>4, <2>1, PendingGrows
  <2>2. CASE stack[Len(stack)] = Finish(kernel.root)
    BY <1>1, <1>2, <1>3, <1>4, <2>2 DEF RootIsPending, Settled, Finish
  <2> QED BY <1>2, <2>1, <2>2 DEF IndInv, KernelIsNew, RootIsPending
<1>6. visited \in Seq(Nodes(graph)) /\ stable \in BOOLEAN
  BY DEF IndInv, TypeOK
<1> QED BY <1>1, <1>2, <1>3, <1>4, <1>5, <1>6, EvalPreserves

-----------------------------------------------------------------------------
LEMMA NextInv == IndInv /\ [Next]_vars => IndInv'
<1> SUFFICES ASSUME IndInv, [Next]_vars PROVE IndInv'
  OBVIOUS
<1>1. CASE UNCHANGED vars
  BY <1>1, Failed DEF vars
<1>2. CASE StartSweep \/ Return \/ SkipRoot
  BY <1>2, LoopSteps
<1>3. CASE EndInput
  BY <1>3, EndInputStep
<1>4. CASE StartKernel
  BY <1>4, StartKernelStep
<1>5. CASE FinishKernel
  BY <1>5, FinishKernelStep
<1>6. CASE EvalGrad
  BY <1>6, VisitSinkStep, VisitSplitStep, VisitUsersStep, FollowEdgeStep, FinishNodeStep DEF EvalGrad
<1> QED BY <1>1, <1>2, <1>3, <1>4, <1>5, <1>6 DEF Next

LEMMA ListIs ==
  ASSUME IndInv
  PROVE  /\ SegmentIsBackwardList /\ Order \in Seq(Nat)
         /\ \A i \in 1 .. Len(Order) : Order[i] \in Nodes(graph)
         /\ \A i, j \in 1 .. Len(Order) : Order[i] = Order[j] => i = j \/ IsSink(graph, Order[i])
<1>1. Len(segment) \in Nat /\ DOMAIN segment = 1 .. Len(segment)
  BY DEF IndInv, ListSoFar
<1>2. /\ Order \in Seq(Nat) /\ Len(Order) = Len(segment) /\ DOMAIN Order = 1 .. Len(segment)
      /\ \A i \in 1 .. Len(segment) : Order[i] = segment[i].kernel.root /\ Order[i] \in Nodes(graph)
  <2>1. \A i \in 1 .. Len(segment) : segment[i].kernel.root \in Nodes(graph)
    BY <1>1 DEF IndInv, ListSoFar
  <2>2. \A i \in 1 .. Len(segment) : segment[i].kernel.root \in Nat
    BY <2>1, GraphFacts DEF IndInv
  <2>3. Order = [i \in 1 .. Len(segment) |-> segment[i].kernel.root]
    BY <1>1 DEF Order
  <2> QED BY <1>1, <2>1, <2>2, <2>3
<1>3. \A i, j \in 1 .. Len(segment) : Order[i] = Order[j] => i = j \/ IsSink(graph, Order[i])
  BY <1>1, <1>2 DEF IndInv, ListSoFar
<1>4. BackwardList(Order) =
        [i \in DOMAIN segment |-> [root |-> Order[i], dep |-> segment[i].dep, redirect |-> Unmasked]]
  <2>1. \A i \in 1 .. Len(segment) :
          BackwardList(Order)[i] = [root |-> Order[i], dep |-> segment[i].dep, redirect |-> Unmasked]
    <3>1. \A i \in 1 .. Len(segment) :
            /\ BackwardList(Order)[i] =
                 [root |-> Order[i], dep |-> BackwardList(Order)[i].dep, redirect |-> Unmasked]
            /\ segment[i].dep = BackwardList(Order)[i].dep
      BY <1>1, <1>2 DEF BackwardList, IndInv, ListSoFar
    <3> QED BY <3>1
  <2>2. BackwardList(Order) = [i \in 1 .. Len(segment) |-> BackwardList(Order)[i]]
    BY <1>2 DEF BackwardList
  <2> QED BY <1>1, <2>1, <2>2
<1>5. SegmentIsBackwardList
  BY <1>1, <1>2, <1>3, <1>4 DEF SegmentIsBackwardList, Order
<1> QED BY <1>2, <1>3, <1>5

\* lower_backward builds, for each input of any graph, the list KernelList describes, at every
\* step: each kernel depends on exactly the later ones with a larger root, and a root has one
\* kernel unless it is an output.
THEOREM ListIsBackwardList == Spec => []SegmentIsBackwardList
<1>1. IndInv => SegmentIsBackwardList
  BY ListIs
<1> QED BY <1>1, InitInv, NextInv, PTL DEF Spec

\* So, when the last node is the only output, every list of an input is one that the scheduler
\* can finish.
THEOREM BackwardListIsSchedulable ==
  ASSUME \A g \in Graphs : Sinks(g) = {LastNode(g)}
  PROVE  Spec => []Schedulable(BackwardList(Order))
<1>1. IndInv => Schedulable(BackwardList(Order))
  <2> SUFFICES ASSUME IndInv PROVE Schedulable(BackwardList(Order))
    OBVIOUS
  <2>1. /\ Order \in Seq(Nat) /\ \A i \in 1 .. Len(Order) : Order[i] \in Nodes(graph)
        /\ \A i, j \in 1 .. Len(Order) : Order[i] = Order[j] => i = j \/ IsSink(graph, Order[i])
    BY ListIs
  <2>2. \A n \in Nodes(graph) : IsSink(graph, n) => n = Len(graph)
    BY DEF IndInv, TypeOK, Sinks, LastNode
  <2>3. \A n \in Nodes(graph) : n \in Nat /\ n <= Len(graph)
    BY GraphFacts DEF IndInv, Nodes
  <2>4. ASSUME NEW i \in 1 .. Len(Order), NEW j \in 1 .. Len(Order), Order[i] = Order[j], i # j
        PROVE  \A k \in 1 .. Len(Order) : Order[k] <= Order[i]
    <3>1. Order[i] = Len(graph)
      BY <2>1, <2>2, <2>4
    <3> QED BY <2>1, <2>3, <3>1
  <2> HIDE DEF Order
  <2> QED BY <2>1, <2>4, BackwardListsAreSchedulable
<1> QED BY <1>1, InitInv, NextInv, PTL DEF Spec
-----------------------------------------------------------------------------
(***************************************************************************)
(* What the kernels of a pass load and store.  A kernel is started for an  *)
(* input, an output or a transform.  It loads the gradient of a transform  *)
(* it cannot fuse, which then becomes a root itself; the kernel of a root  *)
(* stores the root's gradient and nothing else.                            *)
(***************************************************************************)
IsInput(n) == graph[n].op = "input"
Transform(n) == is_transform(graph[n].op)

\* Where the paths of a kernel end.
Ends(n) == IsSink(graph, n) \/ Transform(n)
StartsKernels(n) == IsInput(n) \/ Ends(n)

\* Nodes a kernel of the current input has followed, or will have when its stack is empty.
Followed(n) == n \in Range(resolved) \/ Finish(n) \in Range(stack)

Rooted(n) == \E i \in DOMAIN segment : segment[i].kernel.root = n
Ahead(n) == n \in Range(roots) \/ n \in Range(todo) \/ Rooted(n)

\* What a kernel of the given root loads: the gradient of the loss, gradients of later transforms,
\* inputs, and values that the forward pass keeps.
Loadable(t, root) ==
  \/ t = Seed
  \/ \E n \in Nodes(graph) : t = Grad(n) /\ Transform(n) /\ ~IsSink(graph, n) /\ root < n
  \/ \E n \in Nodes(graph) : t = In(n) /\ IsInput(n)
  \/ \E n \in Nodes(graph) :
       t = Saved(n) /\ is_defined_in_forward(saved, n) /\ n # LastNode(graph)

Complete(k) ==
  /\ k.root \in Nodes(graph) /\ HasGradParam(k.root)
  /\ k.writes = {Grad(k.root)}
  /\ \A t \in k.reads : Loadable(t, k.root)

KernelsAreComplete ==
  /\ chain \in Seq(Range(chain))
  /\ \A e \in Range(chain) \cup Range(segment) : Complete(e.kernel)
  /\ kernel # NoKernel => kernel.writes = {} /\ \A t \in kernel.reads : Loadable(t, kernel.root)

\* A kernel leaves its root along every path, reaches a transform only when it cannot fuse it, and
\* ends every path there or at an output.
FrameFits(f) ==
  /\ f.do = "visit" =>
       IF f.path = << >> THEN f.node = kernel.root /\ stable
       ELSE kernel.root < f.node /\ ~IsInput(f.node) /\ (Transform(f.node) => ~stable)
  /\ f.do = "follow" => kernel.root <= f.node /\ f.user \in Range(graph[f.node].outputs)
  /\ f.do = "finish" =>
       /\ ~IsSink(graph, f.node)
       /\ f.node = kernel.root \/ (kernel.root < f.node /\ ~StartsKernels(f.node))

PathsLeaveTheRoot ==
  \A i \in DOMAIN stack : FrameFits(stack[i]) /\ (stack[i].do = "visit" => i = 1)

\* Of the nodes that kernels are started for, only those that had one have been followed.
RootsAreFollowedOnce ==
  /\ \A n \in Range(roots) \cup Range(todo) : StartsKernels(n)
  /\ \A n \in Range(resolved) : ~IsSink(graph, n)
  /\ \A n \in Range(resolved) :
       StartsKernels(n) => Rooted(n) \/ (kernel # NoKernel /\ n = kernel.root)

\* Whatever is visited is followed, or a transform or an output, and then remembered as a root.
VisitedAreFollowed ==
  kernel # NoKernel => \A n \in Range(visited) : Followed(n) \/ Ends(n)

\* A gradient that is loaded has a kernel, or a root, or will become one.
SplitsAreAhead ==
  \A n \in Nodes(graph) :
    /\ Grad(n) \in ReadBy(segment) => Ahead(n)
    /\ kernel # NoKernel /\ Grad(n) \in kernel.reads => Ahead(n) \/ n \in Range(visited)

\* The kernel of the current input is not forgotten either, nor are those of the inputs done.
InputsAreAhead ==
  /\ \A n \in Range(inputs) : IsInput(n)
  /\ inputs # << >> => Ahead(Head(inputs))
  /\ \A n \in Nodes(graph) :
       IsInput(n) /\ ~IsSink(graph, n) =>
         n \in Range(inputs) \/ \E e \in Range(chain) : e.kernel.root = n

ProfileInv ==
  /\ IndInv
  /\ saved = compute_saved_nodes(graph)
  /\ KernelsAreComplete /\ PathsLeaveTheRoot /\ RootsAreFollowedOnce /\ VisitedAreFollowed
  /\ SplitsAreAhead /\ InputsAreAhead

-----------------------------------------------------------------------------
LEMMA NodeFacts ==
  ASSUME IndInv, NEW n \in Nodes(graph)
  PROVE  /\ Prepared(graph) /\ n \in Nat /\ n # 0 /\ graph[n].op \in OpNames
         /\ graph[n].inputs \in Seq(Nodes(graph)) /\ graph[n].outputs \in Seq(Nodes(graph))
         /\ \A u \in Range(graph[n].outputs) :
              u \in Nodes(graph) /\ n < u /\ n \in Range(graph[u].inputs) /\ ~is_leaf(graph[u].op)
<1>1. Prepared(graph)
  BY GraphsAssumption DEF IndInv, TypeOK
<1>2. IsGraph(graph) /\ OutputsMatchInputs(graph)
  BY <1>1 DEF Prepared
<1>3. graph[n].outputs \in Seq(Nodes(graph))
  BY <1>2, GraphNodes
<1>4. ASSUME NEW u \in Range(graph[n].outputs)
      PROVE  u \in Nodes(graph) /\ n < u /\ n \in Range(graph[u].inputs) /\ ~is_leaf(graph[u].op)
  <2>1. u \in Nodes(graph)
    <3> HIDE DEF Nodes
    <3> QED BY <1>3 DEF Range
  <2>2. n \in Range(graph[u].inputs)
    BY <1>2, <2>1, EdgeFacts
  <2>3. Range(<< >>) = {}
    BY DEF Range
  <2> QED BY <1>1, <2>1, <2>2, <2>3, PreparedFacts
<1> QED BY <1>1, <1>3, <1>4, PreparedFacts

LEMMA RangesAreNodes ==
  ASSUME IndInv
  PROVE  /\ Range(roots) \subseteq Nodes(graph) /\ Range(todo) \subseteq Nodes(graph)
         /\ Range(resolved) \subseteq Nodes(graph) /\ Range(visited) \subseteq Nodes(graph)
         /\ Range(inputs) \subseteq Nodes(graph)
<1>1. \A s \in Seq(Nodes(graph)) : Range(s) \subseteq Nodes(graph)
  <2> HIDE DEF Nodes
  <2> QED BY DEF Range
<1> QED BY <1>1 DEF IndInv, TypeOK

LEMMA SameGraph ==
  ASSUME graph' = graph, saved' = saved
  PROVE  /\ Nodes(graph)' = Nodes(graph) /\ LastNode(graph)' = LastNode(graph)
         /\ \A n : (IsInput(n)' <=> IsInput(n)) /\ (Transform(n)' <=> Transform(n))
         /\ \A n : (IsSink(graph, n)' <=> IsSink(graph, n)) /\ (Ends(n)' <=> Ends(n))
         /\ \A n : StartsKernels(n)' <=> StartsKernels(n)
         /\ \A n : HasGradParam(n)' <=> HasGradParam(n)
         /\ \A t, r : Loadable(t, r)' <=> Loadable(t, r)
         /\ \A k : Complete(k)' <=> Complete(k)
<1>1. \A n : (IsInput(n)' <=> IsInput(n)) /\ (Transform(n)' <=> Transform(n))
  BY DEF IsInput, Transform
<1>2. \A n : (IsSink(graph, n)' <=> IsSink(graph, n)) /\ (Ends(n)' <=> Ends(n))
  BY <1>1 DEF IsSink, Ends
<1>3. \A n : StartsKernels(n)' <=> StartsKernels(n)
  BY <1>1, <1>2 DEF StartsKernels
<1>4. \A n : HasGradParam(n)' <=> HasGradParam(n)
  BY DEF HasGradParam
<1>5. \A t, r : Loadable(t, r)' <=> Loadable(t, r)
  BY <1>1, <1>2 DEF Loadable, LastNode
<1>6. \A k : Complete(k)' <=> Complete(k)
  BY <1>4, <1>5 DEF Complete
<1> QED BY <1>1, <1>2, <1>3, <1>4, <1>5, <1>6 DEF LastNode

\* Only matrix products fix the iteration space, and a kernel can go on from any other node.
LEMMA SplitsAreTransforms ==
  ASSUME IndInv
  PROVE  MustSplit <=> Transform(node) /\ ~stable
<1>1. IsGraph(graph) /\ resolved \in Seq(Nodes(graph))
  BY GraphFacts DEF IndInv, TypeOK
<1>2. ~DimsInvalid(graph, resolved, node)
  BY <1>1, DimsValid
<1> QED BY <1>2 DEF MustSplit, Transform

-----------------------------------------------------------------------------
(* The loops over the inputs and the roots. *)

\* A step between two evaluations, or one that only fails.
LEMMA LoopProfile ==
  ASSUME ProfileInv, IndInv',
         UNCHANGED << graph, saved, inputs, resolved, kernel, stack, visited, stable, segment, chain >>,
         Range(roots') \cup Range(todo') \subseteq Range(roots) \cup Range(todo),
         \A n \in Range(roots) \cup Range(todo) :
           n \in Range(roots') \/ n \in Range(todo') \/ Rooted(n)
  PROVE  ProfileInv'
<1>1. \A n : (Rooted(n)' <=> Rooted(n)) /\ (Ahead(n) => Ahead(n)')
  BY DEF Rooted, Ahead
<1>2. KernelsAreComplete'
  BY SameGraph DEF ProfileInv, KernelsAreComplete, NoKernel
<1>3. PathsLeaveTheRoot'
  BY SameGraph DEF ProfileInv, PathsLeaveTheRoot, FrameFits
<1>4. RootsAreFollowedOnce' /\ VisitedAreFollowed'
  BY <1>1, SameGraph
     DEF ProfileInv, RootsAreFollowedOnce, VisitedAreFollowed, Followed, Finish, NoKernel
<1>5. SplitsAreAhead' /\ InputsAreAhead'
  BY <1>1, SameGraph
     DEF ProfileInv, SplitsAreAhead, InputsAreAhead, NoKernel, ReadBy, KernelsOf, Grad
<1> QED BY <1>2, <1>3, <1>4, <1>5 DEF ProfileInv

LEMMA FailProfile ==
  ASSUME ProfileInv, IndInv', Fail
  PROVE  ProfileInv'
BY LoopProfile DEF Fail

LEMMA LoopStepsProfile ==
  ASSUME ProfileInv, IndInv', StartSweep \/ Return \/ SkipRoot
  PROVE  ProfileInv'
<1>1. CASE StartSweep
  <2>1. Range(<< >>) = {}
    BY DEF Range
  <2> QED BY <1>1, <2>1, LoopProfile DEF StartSweep
<1>2. CASE Return
  BY <1>2, LoopProfile DEF Return
<1>3. CASE SkipRoot
  <2>1. /\ todo # << >> /\ Head(todo) \in Range(resolved) /\ todo' = Tail(todo) /\ kernel = NoKernel
        /\ UNCHANGED << graph, saved, inputs, roots, resolved, kernel, stack, visited, stable,
                        segment, chain >>
    BY <1>3 DEF SkipRoot, BetweenKernels
  <2>2. Range(todo) = {Head(todo)} \cup Range(Tail(todo))
    BY <2>1, PoppedRange DEF ProfileInv, IndInv, TypeOK
  <2>3. Rooted(Head(todo))
    BY <2>1, <2>2 DEF ProfileInv, RootsAreFollowedOnce
  <2> QED BY <2>1, <2>2, <2>3, LoopProfile
<1> QED BY <1>1, <1>2, <1>3

LEMMA EndInputProfile ==
  ASSUME ProfileInv, IndInv', EndInput
  PROVE  ProfileInv'
<1>1. /\ kernel = NoKernel /\ inputs # << >> /\ todo = << >> /\ ~SweepNeeded
      /\ chain' = chain \o segment /\ segment' = << >> /\ resolved' = << >>
      /\ inputs' = Tail(inputs) /\ roots' = FirstOf(inputs')
      /\ UNCHANGED << graph, saved, todo, kernel, stack, visited, stable >>
  BY DEF EndInput, BetweenKernels
<1>2. stack = << >> /\ DOMAIN stack = {} /\ Range(<< >>) = {}
  BY <1>1 DEF ProfileInv, IndInv, KernelIsNew, Range
<1>3. Range(chain') = Range(chain) \cup Range(segment) /\ chain' \in Seq(Range(chain'))
  <2> DEFINE S == Range(chain) \cup Range(segment)
  <2>1. chain \in Seq(S) /\ segment \in Seq(S)
    <3>1. chain \in Seq(Range(chain)) /\ segment \in Seq(Range(segment))
      BY DEF ProfileInv, KernelsAreComplete, IndInv, ListSoFar
    <3>2. \A A, B : Seq(A) \subseteq Seq(A \cup B) /\ Seq(B) \subseteq Seq(A \cup B)
      OBVIOUS
    <3> QED BY <3>1, <3>2
  <2> HIDE DEF S
  <2>2. Range(chain') = Range(chain) \cup Range(segment) /\ chain' \in Seq(S)
    BY <1>1, <2>1, RangeConcat
  <2> QED BY <2>2 DEF S
<1>4. /\ Range(inputs) = {Head(inputs)} \cup Range(Tail(inputs)) /\ inputs' \in Seq(Nodes(graph))
      /\ inputs' # << >> => roots' = << Head(inputs') >> /\ Head(inputs') \in Range(inputs')
  <2>1. inputs \in Seq(Nodes(graph))
    BY DEF ProfileInv, IndInv, TypeOK
  <2>2. Range(inputs) = {Head(inputs)} \cup Range(Tail(inputs)) /\ Tail(inputs) \in Seq(Nodes(graph))
    BY <1>1, <2>1, PoppedRange, Popped
  <2>3. inputs' # << >> => Head(inputs') \in Range(inputs')
    BY <1>1, <2>2, PoppedRange
  <2> QED BY <1>1, <2>2, <2>3 DEF FirstOf
<1>5. KernelsAreComplete'
  BY <1>1, <1>2, <1>3, SameGraph DEF ProfileInv, KernelsAreComplete
<1>6. PathsLeaveTheRoot' /\ VisitedAreFollowed'
  BY <1>1, <1>2 DEF PathsLeaveTheRoot, VisitedAreFollowed
<1>7. /\ roots' = << >> \/ (inputs' # << >> /\ roots' = << Head(inputs') >>)
      /\ \A n \in Range(inputs') : IsInput(n)
  <2>1. inputs' = << >> => roots' = << >>
    BY <1>1 DEF FirstOf
  <2> QED BY <1>1, <1>4, <2>1 DEF ProfileInv, InputsAreAhead
<1>8. RootsAreFollowedOnce'
  <2>1. \A n \in Range(roots') : IsInput(n)
    <3>1. \A x : Range(<< x >>) = {x}
      BY DEF Range
    <3> QED BY <1>2, <1>4, <1>7, <3>1
  <2> QED BY <1>1, <1>2, <2>1, SameGraph DEF RootsAreFollowedOnce, StartsKernels
<1>9. SplitsAreAhead'
  <2>1. ReadBy(segment)' = {}
    <3>1. DOMAIN segment' = {}
      BY <1>1
    <3> QED BY <3>1 DEF ReadBy, KernelsOf
  <2> QED BY <1>1, <2>1 DEF SplitsAreAhead
<1>10. InputsAreAhead'
  <2>1. inputs' # << >> => Ahead(Head(inputs))'
    <3>1. inputs' # << >> => Head(inputs') \in Range(roots')
      BY <1>4 DEF Range
    <3> QED BY <3>1 DEF Ahead
  <2>2. ASSUME NEW n \in Nodes(graph), IsInput(n), ~IsSink(graph, n)
        PROVE  n \in Range(inputs') \/ \E e \in Range(chain') : e.kernel.root = n
    <3>1. CASE n = Head(inputs)
      <4>1. n \notin Range(roots) /\ n \notin Range(todo)
        BY <1>1, <1>2, <2>2 DEF SweepNeeded
      <4>2. Rooted(n)
        BY <1>1, <3>1, <4>1 DEF ProfileInv, InputsAreAhead, Ahead
      <4> QED BY <1>3, <4>2 DEF Rooted, Range
    <3>2. CASE n # Head(inputs)
      BY <1>1, <1>3, <1>4, <2>2, <3>2 DEF ProfileInv, InputsAreAhead
    <3> QED BY <3>1, <3>2
  <2> QED BY <1>1, <1>7, <2>1, <2>2, SameGraph DEF InputsAreAhead
<1> QED BY <1>1, <1>5, <1>6, <1>8, <1>9, <1>10 DEF ProfileInv

LEMMA StartKernelProfile ==
  ASSUME ProfileInv, IndInv', StartKernel
  PROVE  ProfileInv'
<1> DEFINE root == Head(todo)
<1>1. /\ kernel = NoKernel /\ todo # << >> /\ root \notin Range(resolved)
      /\ kernel' = NewKernel(graph, root) /\ stack' = << Visit(root, << >>) >>
      /\ visited' = << >> /\ stable' = TRUE
      /\ UNCHANGED << graph, saved, inputs, roots, todo, resolved, segment, chain >>
  BY DEF StartKernel, BetweenKernels
<1>2. kernel'.root = root /\ kernel'.reads = {} /\ kernel'.writes = {}
  BY <1>1 DEF NewKernel
<1>3. \A n : (Rooted(n)' <=> Rooted(n)) /\ (Ahead(n)' <=> Ahead(n))
  BY <1>1 DEF Rooted, Ahead
<1>4. KernelsAreComplete'
  BY <1>1, <1>2, SameGraph DEF ProfileInv, KernelsAreComplete
<1>5. PathsLeaveTheRoot'
  <2>1. DOMAIN stack' = {1} /\ stack'[1] = Visit(root, << >>)
    BY <1>1
  <2>2. \A f : f = Visit(root, << >>) => FrameFits(f)' /\ f.do = "visit"
    BY <1>1, <1>2 DEF FrameFits, Visit
  <2> QED BY <2>1, <2>2 DEF PathsLeaveTheRoot
<1>6. RootsAreFollowedOnce'
  BY <1>1, <1>3, SameGraph DEF ProfileInv, RootsAreFollowedOnce
<1>7. VisitedAreFollowed'
  <2>1. Range(visited') = {}
    BY <1>1 DEF Range
  <2> QED BY <2>1 DEF VisitedAreFollowed
<1>8. SplitsAreAhead' /\ InputsAreAhead'
  BY <1>1, <1>2, <1>3, SameGraph DEF ProfileInv, SplitsAreAhead, InputsAreAhead, ReadBy, KernelsOf
<1> QED BY <1>1, <1>4, <1>5, <1>6, <1>7, <1>8 DEF ProfileInv

\* A kernel that is added to the list: what becomes a root, and what the list becomes.
LEMMA KernelAdded ==
  ASSUME ProfileInv, FinishKernel, ~(StoresGradient(kernel.root) /\ ~HasGradParam(kernel.root))
  PROVE  LET root == kernel.root
             n == Len(segment)
             fresh == Nodes(graph) \ (Range(roots) \cup Range(resolved) \cup {root})
         IN
         /\ kernel # NoKernel /\ stack = << >> /\ todo' = Tail(todo) /\ kernel' = NoKernel
         /\ UNCHANGED << graph, saved, inputs, resolved, stack, visited, stable, chain >>
         /\ IsKernel(kernel) /\ todo # << >> /\ root = Head(todo) /\ root \in Nodes(graph)
         /\ Range(todo) = {root} \cup Range(todo')
         /\ HasGradParam(root)
         /\ Stored.root = root /\ Stored.writes = {Grad(root)} /\ Stored.reads = kernel.reads
         /\ n \in Nat /\ DOMAIN segment = 1 .. n /\ DOMAIN segment' = 1 .. n + 1
         /\ segment'[n + 1].kernel = Stored
         /\ \A i \in 1 .. n : segment'[i].kernel = segment[i].kernel
         /\ \A i \in 1 .. n + 1 : i = n + 1 \/ i \in 1 .. n
         /\ Range(roots') = Range(roots) \cup (Range(visited) \cap fresh)
         /\ \A m : Rooted(m)' <=> Rooted(m) \/ m = root
         /\ \A m \in Range(visited) : m \in Range(resolved) \/ Ends(m)
<1> DEFINE root == kernel.root
           n == Len(segment)
           fresh == Nodes(graph) \ (Range(roots) \cup Range(resolved) \cup {root})
<1>1. /\ kernel # NoKernel /\ stack = << >>
      /\ roots' = PushAll(roots, visited, fresh)
      /\ todo' = Tail(todo) /\ kernel' = NoKernel
      /\ UNCHANGED << graph, saved, inputs, resolved, stack, visited, stable, chain >>
  BY DEF FinishKernel
<1>2. IndInv
  BY DEF ProfileInv
<1>3. /\ IsKernel(kernel) /\ todo # << >> /\ root = Head(todo) /\ root \in Nodes(graph)
      /\ Range(todo) = {root} \cup Range(Tail(todo))
  <2>1. todo \in Seq(Nodes(graph)) /\ todo # << >> /\ root = Head(todo) /\ IsKernel(kernel)
    BY <1>1, <1>2 DEF IndInv, TypeOK, KernelIsNew
  <2> HIDE DEF root
  <2> QED BY <2>1, Popped, PoppedRange
<1>4. StoresGradient(root) /\ HasGradParam(root)
  <2>1. graph[root].op \in OpNames
    BY <1>2, <1>3, NodeFacts
  <2> QED BY <2>1, OpFacts DEF StoresGradient
<1>5. /\ Stored.root = root /\ Stored.writes = {Grad(root)} /\ Stored.reads = kernel.reads
  <2>1. Stored = Store(kernel, Grad(root)) /\ kernel.writes = {}
    BY <1>1, <1>4 DEF Stored, ProfileInv, KernelsAreComplete
  <2> QED BY <1>3, <2>1, KernelFacts, KernelTensors
<1>7. /\ n \in Nat /\ DOMAIN segment = 1 .. n /\ DOMAIN segment' = 1 .. n + 1
      /\ segment'[n + 1].kernel = Stored
      /\ \A i \in 1 .. n : segment'[i].kernel = segment[i].kernel
  <2>1. segment'[n + 1] = [kernel |-> Stored, dep |-> {}]
    BY <1>2, SegmentGrows
  <2>2. segment'[n + 1].kernel = Stored
    BY <2>1, EntryFields
  <2> QED BY <1>2, <2>2, SegmentGrows
<1>8. \A i \in 1 .. n + 1 : i = n + 1 \/ i \in 1 .. n
  BY <1>7
<1>9. Range(roots') = Range(roots) \cup (Range(visited) \cap fresh)
  <2>1. roots \in Seq(Nodes(graph)) /\ visited \in Seq(Nodes(graph))
    BY <1>2 DEF IndInv, TypeOK
  <2> HIDE DEF fresh
  <2> QED BY <1>1, <2>1, PushAllType
<1>10. \A m : Rooted(m)' <=> Rooted(m) \/ m = root
  <2>1. \A m : Rooted(m)' <=> \E i \in 1 .. n + 1 : segment'[i].kernel.root = m
    BY <1>7 DEF Rooted
  <2>2. n + 1 \in 1 .. n + 1 /\ \A i \in 1 .. n : i \in 1 .. n + 1
    BY <1>7
  <2> HIDE DEF n, root
  <2> QED BY <1>5, <1>7, <1>8, <2>1, <2>2 DEF Rooted
<1>14. \A m \in Range(visited) : m \in Range(resolved) \/ Ends(m)
  <2>1. Range(stack) = {}
    BY <1>1 DEF Range
  <2> QED BY <1>1, <2>1 DEF ProfileInv, VisitedAreFollowed, Followed
<1> HIDE DEF root, n, fresh
<1> QED BY <1>1, <1>3, <1>4, <1>5, <1>7, <1>8, <1>9, <1>10, <1>14 DEF root, n, fresh

LEMMA FinishKernelProfile ==
  ASSUME ProfileInv, IndInv', FinishKernel
  PROVE  ProfileInv'
<1> DEFINE root == kernel.root
           n == Len(segment)
           fresh == Nodes(graph) \ (Range(roots) \cup Range(resolved) \cup {root})
<1>0. CASE StoresGradient(root) /\ ~HasGradParam(root)
  BY <1>0, FailProfile DEF FinishKernel
<1> SUFFICES ASSUME ~(StoresGradient(root) /\ ~HasGradParam(root)) PROVE ProfileInv'
  BY <1>0
<1>1. /\ kernel # NoKernel /\ stack = << >> /\ todo' = Tail(todo) /\ kernel' = NoKernel
      /\ UNCHANGED << graph, saved, inputs, resolved, stack, visited, stable, chain >>
  BY KernelAdded
<1>2. IndInv
  BY DEF ProfileInv
<1>3. IsKernel(kernel) /\ root \in Nodes(graph) /\ Range(todo) = {root} \cup Range(todo')
  BY KernelAdded
<1>4. HasGradParam(root)
  BY KernelAdded
<1>5. Stored.root = root /\ Stored.writes = {Grad(root)} /\ Stored.reads = kernel.reads
  BY KernelAdded
<1>6. Complete(Stored)
  BY <1>1, <1>3, <1>4, <1>5 DEF Complete, ProfileInv, KernelsAreComplete
<1>7. /\ n \in Nat /\ DOMAIN segment = 1 .. n /\ DOMAIN segment' = 1 .. n + 1
      /\ segment'[n + 1].kernel = Stored
      /\ \A i \in 1 .. n : segment'[i].kernel = segment[i].kernel
  BY KernelAdded
<1>8. \A i \in 1 .. n + 1 : i = n + 1 \/ i \in 1 .. n
  BY KernelAdded
<1>9. Range(roots') = Range(roots) \cup (Range(visited) \cap fresh)
  BY KernelAdded
<1>10. \A m : Rooted(m)' <=> Rooted(m) \/ m = root
  BY KernelAdded
<1>11. \A m : Ahead(m) => Ahead(m)'
  BY <1>1, <1>3, <1>9, <1>10 DEF Ahead
<1>12. KernelsAreComplete'
  <2>1. \A i \in DOMAIN segment' : Complete(segment'[i].kernel)
    BY <1>6, <1>7, <1>8 DEF ProfileInv, KernelsAreComplete, Range
  <2> QED BY <1>1, <2>1, SameGraph DEF ProfileInv, KernelsAreComplete, Range
<1>13. PathsLeaveTheRoot' /\ VisitedAreFollowed'
  BY <1>1 DEF PathsLeaveTheRoot, VisitedAreFollowed
<1>14. \A m \in Range(visited) : m \in Range(resolved) \/ Ends(m)
  BY KernelAdded
<1>15. RootsAreFollowedOnce'
  <2>1. \A m \in Range(roots') \cup Range(todo') : StartsKernels(m)
    BY <1>1, <1>3, <1>9, <1>14 DEF ProfileInv, RootsAreFollowedOnce, StartsKernels
  <2> QED BY <1>1, <1>10, <2>1, SameGraph DEF ProfileInv, RootsAreFollowedOnce
<1>16. SplitsAreAhead'
  <2>1. ASSUME NEW m \in Nodes(graph), Grad(m) \in kernel.reads PROVE Ahead(m)'
    <3>1. CASE Ahead(m)
      BY <1>11, <3>1
    <3>2. CASE m \in Range(visited)
      <4>1. Transform(m)
        <5>1. Loadable(Grad(m), root)
          BY <1>1, <2>1 DEF ProfileInv, KernelsAreComplete
        <5> QED BY <5>1 DEF Loadable, Grad, Seed, In, Saved
      <4>2. CASE m \in Range(resolved)
        BY <1>10, <4>1, <4>2 DEF ProfileInv, RootsAreFollowedOnce, StartsKernels, Ends, Ahead
      <4>3. CASE m \notin Range(resolved)
        BY <1>9, <1>10, <2>1, <3>2, <4>3 DEF Ahead
      <4> QED BY <4>2, <4>3
    <3> QED BY <1>1, <2>1, <3>1, <3>2 DEF ProfileInv, SplitsAreAhead
  <2>2. \A t \in ReadBy(segment') : t \in ReadBy(segment) \/ t \in kernel.reads
    BY <1>5, <1>7, <1>8 DEF ReadBy, KernelsOf
  <2> QED BY <1>1, <1>11, <2>1, <2>2, SameGraph DEF ProfileInv, SplitsAreAhead, Grad
<1>17. InputsAreAhead'
  BY <1>1, <1>11, SameGraph DEF ProfileInv, InputsAreAhead
<1> QED BY <1>1, <1>12, <1>13, <1>15, <1>16, <1>17 DEF ProfileInv

-----------------------------------------------------------------------------
(* The evaluation of a kernel. *)

LEMMA EvalProfile ==
  ASSUME ProfileInv, IndInv', kernel # NoKernel,
         UNCHANGED << graph, saved, inputs, roots, todo, segment, chain >>,
         kernel'.root = kernel.root, kernel'.writes = kernel.writes,
         \A t \in kernel'.reads : t \in kernel.reads \/ Loadable(t, kernel.root),
         \A n \in Nodes(graph) :
           Grad(n) \in kernel'.reads => Grad(n) \in kernel.reads \/ n \in Range(visited'),
         PathsLeaveTheRoot',
         \A n \in Range(resolved') :
           \/ n \in Range(resolved)
           \/ ~IsSink(graph, n) /\ (n = kernel.root \/ ~StartsKernels(n)),
         Range(visited) \subseteq Range(visited'),
         \A n \in Range(visited') : Followed(n)' \/ Ends(n)
  PROVE  ProfileInv'
<1>0. kernel' # NoKernel
  <2>1. todo \in Seq(Nodes(graph)) /\ todo # << >> /\ kernel.root = Head(todo) /\ IndInv
    BY DEF ProfileInv, IndInv, TypeOK, KernelIsNew
  <2>2. kernel.root \in Nodes(graph)
    BY <2>1, Popped
  <2> QED BY <2>1, <2>2, NodeFacts DEF NoKernel
<1>1. \A n : (Rooted(n)' <=> Rooted(n)) /\ (Ahead(n)' <=> Ahead(n))
  BY DEF Rooted, Ahead
<1>2. KernelsAreComplete'
  BY SameGraph DEF ProfileInv, KernelsAreComplete
<1>3. RootsAreFollowedOnce'
  BY <1>0, <1>1, SameGraph DEF ProfileInv, RootsAreFollowedOnce
<1>4. VisitedAreFollowed'
  BY SameGraph DEF VisitedAreFollowed
<1>5. SplitsAreAhead' /\ InputsAreAhead'
  BY <1>1, SameGraph DEF ProfileInv, SplitsAreAhead, InputsAreAhead, ReadBy, KernelsOf, Grad
<1> QED BY <1>2, <1>3, <1>4, <1>5 DEF ProfileInv

\* The frame that is run, and those after it.
LEMMA RunningProfile ==
  ASSUME ProfileInv, NEW do, Running(do)
  PROVE  /\ IndInv /\ kernel # NoKernel /\ IsKernel(kernel)
         /\ stack \in Seq(Frame) /\ stack # << >> /\ Tail(stack) \in Seq(Frame)
         /\ node \in Nodes(graph) /\ kernel.root \in Nodes(graph) /\ kernel.root <= node
         /\ Head(stack).do = do /\ FrameFits(Head(stack))
         /\ Range(stack) = {Head(stack)} \cup Range(Tail(stack))
         /\ \A f \in Range(Tail(stack)) : FrameFits(f) /\ f.do # "visit"
<1>1. IndInv
  BY DEF ProfileInv
<1>2. /\ kernel # NoKernel /\ stack \in Seq(Frame) /\ stack # << >> /\ Tail(stack) \in Seq(Frame)
      /\ Head(stack).do = do /\ node \in Nodes(graph)
  BY <1>1, RunningFacts DEF IndInv, TypeOK
<1>3. IsKernel(kernel) /\ kernel.root \in Nodes(graph)
  <2>1. todo \in Seq(Nodes(graph)) /\ todo # << >> /\ kernel.root = Head(todo) /\ IsKernel(kernel)
    BY <1>1, <1>2 DEF IndInv, TypeOK, KernelIsNew
  <2> QED BY <2>1, Popped
<1>4. /\ Range(stack) = {Head(stack)} \cup Range(Tail(stack))
      /\ DOMAIN stack = 1 .. Len(stack) /\ DOMAIN Tail(stack) = 1 .. Len(stack) - 1
      /\ \A i \in DOMAIN Tail(stack) : i + 1 \in DOMAIN stack /\ Tail(stack)[i] = stack[i + 1]
      /\ Len(stack) \in Nat \ {0} /\ Head(stack) = stack[1]
  <2> HIDE DEF Frame
  <2> QED BY <1>2, PoppedRange, Popped
<1>5. FrameFits(Head(stack))
  BY <1>4 DEF ProfileInv, PathsLeaveTheRoot
<1>6. ASSUME NEW f \in Range(Tail(stack)) PROVE FrameFits(f) /\ f.do # "visit"
  <2>1. PICK i \in DOMAIN Tail(stack) : Tail(stack)[i] = f
    BY DEF Range
  <2>2. i + 1 \in DOMAIN stack /\ stack[i + 1] = f /\ i + 1 # 1
    BY <1>4, <2>1
  <2> QED BY <2>2 DEF ProfileInv, PathsLeaveTheRoot
<1>7. kernel.root <= node
  <2>1. Head(stack) \in Frame
    <3> HIDE DEF Frame
    <3> QED BY <1>2
  <2>2. Head(stack).do \in {"visit", "finish", "follow"}
    BY <2>1 DEF Frame
  <2>3. kernel.root \in Nat
    BY <1>1, <1>3, NodeFacts
  <2>4. node \in Nat
    BY <1>1, <1>2, NodeFacts
  <2> QED BY <1>5, <2>2, <2>3, <2>4 DEF FrameFits, node
<1> QED BY <1>1, <1>2, <1>3, <1>4, <1>5, <1>6, <1>7

LEMMA SeenProfile ==
  ASSUME ProfileInv, Running("visit")
  PROVE  /\ IsKernel(Seen) /\ Seen.root = kernel.root
         /\ Seen.reads = kernel.reads /\ Seen.writes = kernel.writes
         /\ Visited \in Seq(Nodes(graph)) /\ Range(Visited) = Range(visited) \cup {node}
<1>1. IndInv /\ kernel # NoKernel /\ IsKernel(kernel) /\ node \in Nodes(graph)
  BY RunningProfile
<1>2. Visited \in Seq(Nodes(graph)) /\ Range(Visited) = Range(visited) \cup {node}
  <2>1. visited \in Seq(Nodes(graph))
    BY <1>1 DEF IndInv, TypeOK
  <2> QED BY <1>1, <2>1, PushNewType DEF Visited
<1> QED BY <1>1, <1>2, SeenFacts, KernelTensors DEF Seen

LEMMA TermProfile ==
  ASSUME ProfileInv, Running("visit"), NEW t
  PROVE  /\ IsKernel(AddTerm(t)) /\ AddTerm(t).root = kernel.root
         /\ AddTerm(t).writes = kernel.writes /\ AddTerm(t).reads \subseteq kernel.reads \cup {t}
<1> DEFINE loaded == Load(Seen, t)
<1>1. /\ IsKernel(loaded) /\ loaded.root = kernel.root
      /\ loaded.writes = kernel.writes /\ loaded.reads \subseteq kernel.reads \cup {t}
  BY SeenProfile, KernelFacts, KernelTensors
<1> HIDE DEF loaded
<1>2. \A y : /\ IsKernel([loaded EXCEPT !.terms = y])
             /\ [loaded EXCEPT !.terms = y].root = loaded.root
             /\ [loaded EXCEPT !.terms = y].writes = loaded.writes
             /\ [loaded EXCEPT !.terms = y].reads = loaded.reads
  BY <1>1 DEF IsKernel
<1>3. AddTerm(t) = [loaded EXCEPT !.terms = loaded.terms \cup {<< path, node >>}]
  BY DEF AddTerm, loaded
<1> QED BY <1>1, <1>2, <1>3

\* A path that ends.
LEMMA PathEnds ==
  ASSUME ProfileInv, IndInv', Running("visit"), NEW t, Loadable(t, kernel.root), Ends(node),
         \A n \in Nodes(graph) : t = Grad(n) => n = node,
         kernel' = AddTerm(t), stack' = Tail(stack), visited' = Visited,
         UNCHANGED << graph, saved, inputs, roots, todo, resolved, stable, segment, chain >>
  PROVE  ProfileInv'
<1>1. /\ IndInv /\ kernel # NoKernel /\ node \in Nodes(graph)
      /\ Range(stack) = {Head(stack)} \cup Range(Tail(stack)) /\ Head(stack).do = "visit"
      /\ \A f \in Range(Tail(stack)) : FrameFits(f) /\ f.do # "visit"
  BY RunningProfile
<1>2. /\ kernel'.root = kernel.root /\ kernel'.writes = kernel.writes
      /\ kernel'.reads \subseteq kernel.reads \cup {t}
  BY TermProfile
<1>4. Range(visited') = Range(visited) \cup {node}
  BY SeenProfile
<1>5. PathsLeaveTheRoot'
  <2>1. \A f : FrameFits(f)' <=> FrameFits(f)
    BY <1>2, SameGraph DEF FrameFits
  <2> QED BY <1>1, <2>1 DEF PathsLeaveTheRoot, Range
<1>6. \A n : Followed(n) => Followed(n)'
  <2>1. \A n : Finish(n) # Head(stack)
    BY <1>1 DEF Finish
  <2> QED BY <1>1, <2>1 DEF Followed, Finish
<1>7. \A n \in Range(visited') : Followed(n)' \/ Ends(n)
  BY <1>1, <1>4, <1>6 DEF ProfileInv, VisitedAreFollowed
<1> QED BY <1>1, <1>2, <1>4, <1>5, <1>7, EvalProfile

LEMMA VisitSinkProfile ==
  ASSUME ProfileInv, IndInv', VisitSink
  PROVE  ProfileInv'
<1>1. Ends(node) /\ Loadable(Seed, kernel.root) /\ \A n : Seed # Grad(n)
  BY DEF VisitSink, Ends, Loadable, Seed, Grad
<1> QED BY <1>1, PathEnds DEF VisitSink

LEMMA VisitSplitProfile ==
  ASSUME ProfileInv, IndInv', VisitSplit
  PROVE  ProfileInv'
<1>1. CASE ~HasGradParam(node)
  BY <1>1, FailProfile DEF VisitSplit
<1>2. CASE HasGradParam(node)
  <2>1. /\ Running("visit") /\ ~IsSink(graph, node) /\ MustSplit
        /\ kernel' = AddTerm(Grad(node)) /\ stack' = Tail(stack) /\ visited' = Visited
        /\ UNCHANGED << graph, saved, inputs, roots, todo, resolved, stable, segment, chain >>
    BY <1>2 DEF VisitSplit
  <2>2. IndInv /\ node \in Nodes(graph) /\ FrameFits(Head(stack)) /\ Head(stack).do = "visit"
    BY <2>1, RunningProfile
  <2>3. Transform(node) /\ ~stable
    BY <2>1, <2>2, SplitsAreTransforms
  <2>4. kernel.root < node
    BY <2>2, <2>3 DEF FrameFits, node
  <2>5. Ends(node) /\ Loadable(Grad(node), kernel.root) /\ \A n : Grad(node) = Grad(n) => n = node
    BY <2>1, <2>2, <2>3, <2>4 DEF Ends, Loadable, Grad
  <2> QED BY <2>1, <2>5, PathEnds
<1> QED BY <1>1, <1>2

LEMMA UsersPushed ==
  ASSUME ProfileInv, Running("visit")
  PROVE  LET uses == [k \in DOMAIN Users |-> Follow(node, Users[k], path)]
             end == Finish(node)
             rest == Tail(stack)
         IN  Range(uses \o << end >> \o rest) = Range(uses) \cup {end} \cup Range(rest)
<1> DEFINE uses == [k \in DOMAIN Users |-> Follow(node, Users[k], path)]
           end == Finish(node)
           rest == Tail(stack)
<1>2. IndInv /\ node \in Nodes(graph) /\ rest \in Seq(Frame)
  BY RunningProfile
<1>3. end \in Frame /\ uses \in Seq(Frame)
  <2>1. node \in Nodes(graph) /\ path \in Path /\ Users \in Seq(Nodes(graph))
    BY <1>2, RunningFacts, NodeFacts DEF Users
  <2>2. << >> \in Path
    BY DEF Path
  <2>3. \A u \in Nodes(graph) : Follow(node, u, path) \in Frame
    <3> HIDE DEF node, path
    <3> QED BY <2>1 DEF Follow, Frame
  <2> HIDE DEF Users, node, path
  <2>4. /\ Len(Users) \in Nat /\ DOMAIN Users = 1 .. Len(Users)
        /\ \A p \in DOMAIN Users : Users[p] \in Nodes(graph)
    BY <2>1
  <2>5. end \in Frame
    BY <2>1, <2>2 DEF Finish, Frame
  <2> QED BY <2>3, <2>4, <2>5
<1> DEFINE next == uses \o << end >> \o rest
<1>4. Range(next) = Range(uses) \cup {end} \cup Range(rest)
  <2> HIDE DEF Frame, uses, end, rest
  <2>1. uses \in Seq(Frame) /\ end \in Frame /\ rest \in Seq(Frame)
    BY <1>2, <1>3
  <2> QED BY <2>1, FramesPushed
<1> QED BY <1>4

LEMMA VisitUsersProfile ==
  ASSUME ProfileInv, IndInv', VisitUsers
  PROVE  ProfileInv'
<1> DEFINE uses == [k \in DOMAIN Users |-> Follow(node, Users[k], path)]
           end == Finish(node)
           rest == Tail(stack)
<1>1. /\ Running("visit") /\ ~IsSink(graph, node) /\ ~MustSplit
      /\ kernel' = Seen /\ stack' = uses \o << end >> \o rest /\ visited' = Visited
      /\ UNCHANGED << graph, saved, inputs, roots, todo, resolved, stable, segment, chain >>
  BY DEF VisitUsers
<1>2. /\ IndInv /\ kernel # NoKernel /\ node \in Nodes(graph) /\ kernel.root <= node
      /\ rest \in Seq(Frame) /\ kernel.root \in Nodes(graph)
      /\ Head(stack).do = "visit" /\ FrameFits(Head(stack))
      /\ Range(stack) = {Head(stack)} \cup Range(rest)
      /\ \A f \in Range(rest) : FrameFits(f) /\ f.do # "visit"
  BY <1>1, RunningProfile
<1>3. Range(stack') = Range(uses) \cup {end} \cup Range(rest)
  BY <1>1, UsersPushed
<1>4. kernel'.root = kernel.root /\ kernel'.writes = kernel.writes /\ kernel'.reads = kernel.reads
  BY <1>1, SeenProfile
<1>5. \A f : FrameFits(f)' <=> FrameFits(f)
  BY <1>1, <1>4, SameGraph DEF FrameFits
<1>6. PathsLeaveTheRoot'
  <2>1. ASSUME NEW f \in Range(uses) PROVE FrameFits(f) /\ f.do # "visit"
    <3>1. PICK k \in DOMAIN Users : f = Follow(node, Users[k], path)
      BY DEF Range
    <3>2. Users[k] \in Range(graph[node].outputs)
      BY DEF Users, Range
    <3> QED BY <1>2, <3>1, <3>2 DEF FrameFits, Follow
  <2>2. FrameFits(end) /\ end.do # "visit"
    <3>1. node # kernel.root => kernel.root < node /\ ~StartsKernels(node)
      <4>1. node # kernel.root =>
              kernel.root < node /\ ~IsInput(node) /\ (Transform(node) => ~stable)
        BY <1>2 DEF FrameFits, node
      <4>2. ~(Transform(node) /\ ~stable)
        BY <1>1, <1>2, SplitsAreTransforms
      <4> QED BY <1>1, <4>1, <4>2 DEF StartsKernels, Ends
    <3> QED BY <1>1, <1>2, <3>1 DEF FrameFits, Finish
  <2>3. \A f \in Range(stack') : FrameFits(f)' /\ f.do # "visit"
    BY <1>2, <1>3, <1>5, <2>1, <2>2
  <2> QED BY <2>3 DEF PathsLeaveTheRoot, Range
<1>7. \A n \in Range(visited') : Followed(n)' \/ Ends(n)
  <2>1. \A n : Followed(n) => Followed(n)'
    <3>1. \A n : Finish(n) # Head(stack)
      BY <1>2 DEF Finish
    <3> QED BY <1>1, <1>2, <1>3, <3>1 DEF Followed, Finish
  <2>2. \A n : n = node => Followed(n)'
    BY <1>3 DEF Followed, Finish
  <2> QED BY <1>1, <1>2, <2>1, <2>2, SeenProfile DEF ProfileInv, VisitedAreFollowed
<1> QED BY <1>1, <1>2, <1>4, <1>6, <1>7, SeenProfile, EvalProfile

\* The edge from a node to one that uses it.
LEMMA EdgeIsThere ==
  ASSUME IndInv, NEW m \in Nodes(graph), NEW u \in Range(graph[m].outputs)
  PROVE  LET edge == get_edge(graph, m, u)
             operands == graph[u].inputs
         IN
         /\ edge \in DOMAIN operands /\ operands[edge] = m
         /\ DOMAIN operands = 1 .. Op[graph[u].op].arity /\ Op[graph[u].op].arity \in {1, 2}
         /\ operands \in Seq(Nodes(graph)) /\ u \in Nodes(graph) /\ graph[u].op \in OpNames
<1> DEFINE operands == graph[u].inputs
           arity == Op[graph[u].op].arity
           First(e) == operands[e] = m /\ \A d \in 1 .. e - 1 : operands[d] # m
           edge == get_edge(graph, m, u)
<1>1. /\ u \in Nodes(graph) /\ m \in Range(operands) /\ ~is_leaf(graph[u].op)
      /\ graph[u].op \in OpNames /\ operands \in Seq(Nodes(graph))
  <2>1. u \in Nodes(graph) /\ m \in Range(operands) /\ ~is_leaf(graph[u].op)
    BY NodeFacts
  <2> QED BY <2>1, NodeFacts
<1>2. DOMAIN operands = 1 .. arity /\ arity \in {1, 2}
  <2>1. ValidNode(graph, u)
    BY <1>1, NodeFacts DEF Prepared, Valid
  <2>2. Len(operands) = arity
    BY <1>1, <2>1 DEF ValidNode
  <2>3. arity \in {1, 2}
    BY <1>1, ComputeFacts
  <2> HIDE DEF arity, operands
  <2> QED BY <1>1, <2>2, <2>3
<1>3. \E e \in DOMAIN operands : First(e)
  <2>1. PICK p \in DOMAIN operands : operands[p] = m
    BY <1>1 DEF Range
  <2> HIDE DEF operands, arity
  <2>2. 1 .. 1 = {1} /\ 1 .. 2 = {1, 2} /\ 1 .. 0 = {} /\ 1 - 1 = 0 /\ 2 - 1 = 1
    OBVIOUS
  <2>3. CASE operands[1] = m
    BY <1>2, <2>1, <2>2, <2>3
  <2>4. CASE operands[1] # m
    BY <1>2, <2>1, <2>2, <2>4
  <2> QED BY <2>3, <2>4
<1>4. edge \in DOMAIN operands /\ operands[edge] = m
  <2>1. edge = CHOOSE e \in DOMAIN operands : First(e)
    BY DEF get_edge
  <2> HIDE DEF edge
  <2> QED BY <1>3, <2>1
<1> QED BY <1>1, <1>2, <1>4

\* What the derivative along an edge reads.
LEMMA NeededFacts ==
  ASSUME IndInv, node \in Nodes(graph), user \in Range(graph[node].outputs)
  PROVE  LET edge == get_edge(graph, node, user)
             operands == graph[user].inputs
         IN
         /\ edge \in DOMAIN operands /\ operands[edge] = node
         /\ DOMAIN operands = 1 .. Op[graph[user].op].arity
         /\ \A n \in Needed(edge) :
              /\ n \in Nodes(graph)
              /\ \/ n = user /\ Op[graph[user].op].grad_own
                 \/ \E p \in Op[graph[user].op].grad[edge] : p \in DOMAIN operands /\ n = operands[p]
<1> DEFINE operands == graph[user].inputs
           u == user
           m == node
           arity == Op[graph[u].op].arity
           edge == get_edge(graph, m, u)
<1>1. /\ u \in Nodes(graph) /\ graph[u].op \in OpNames /\ operands \in Seq(Nodes(graph))
      /\ DOMAIN operands = 1 .. arity /\ edge \in DOMAIN operands /\ operands[edge] = m
  BY EdgeIsThere
<1>2. Op[graph[u].op].grad[edge] \subseteq DOMAIN operands
  <2> HIDE DEF edge, u, operands
  <2> QED BY <1>1, GradFacts DEF arity
<1>3. ASSUME NEW n \in Needed(edge)
      PROVE  /\ n \in Nodes(graph)
             /\ \/ n = u /\ Op[graph[u].op].grad_own
                \/ \E p \in Op[graph[u].op].grad[edge] : p \in DOMAIN operands /\ n = operands[p]
  <2>1. \/ n = u /\ Op[graph[u].op].grad_own
        \/ \E p \in Op[graph[u].op].grad[edge] : n = operands[p]
    BY DEF Needed
  <2>2. \A p \in DOMAIN operands : operands[p] \in Nodes(graph)
    <3> HIDE DEF operands
    <3>1. operands \in Seq(Nodes(graph))
      BY <1>1
    <3> QED BY <3>1
  <2> HIDE DEF u, operands, edge
  <2> QED BY <1>1, <1>2, <2>1, <2>2
<1> QED BY <1>1, <1>3

\* What is kept, or an input, can be loaded for a derivative.
LEMMA NeededAreLoadable ==
  ASSUME ProfileInv, node \in Nodes(graph), user \in Range(graph[node].outputs),
         NEW n \in Needed(get_edge(graph, node, user)), HasSavedParam(n), NEW root
  PROVE  Loadable(SavedParam(n), root)
<1>1. IndInv /\ Prepared(graph) /\ saved = compute_saved_nodes(graph)
  BY NodeFacts DEF ProfileInv
<1>2. /\ n \in Nodes(graph)
      /\ \/ n = user /\ Op[graph[user].op].grad_own
         \/ n \in Range(graph[user].inputs)
  BY <1>1, NeededFacts DEF Range
<1>3. CASE is_defined_in_forward(saved, n)
  <2>1. \E u \in Nodes(graph) : n \in Range(graph[u].inputs)
    <3>1. user \in Nodes(graph)
      BY <1>1, NodeFacts
    <3>2. n \notin Range(graph[user].inputs) => graph[n].op # "matmul"
      BY <1>2, GradFacts
    <3> QED BY <1>1, <1>2, <1>3, <3>1, <3>2, SavedFacts
  <2>2. PICK u \in Nodes(graph) : n \in Range(graph[u].inputs)
    BY <2>1
  <2>3. n < u
    BY <1>1, <2>2, PreparedFacts
  <2>4. n # LastNode(graph)
    BY <1>1, <1>2, <2>2, <2>3, GraphFacts DEF IndInv, Nodes, LastNode
  <2> QED BY <1>2, <1>3, <2>4 DEF Loadable, SavedParam
<1>4. CASE ~is_defined_in_forward(saved, n)
  BY <1>2, <1>4 DEF Loadable, SavedParam, HasSavedParam, IsInput
<1> QED BY <1>3, <1>4

\* What the derivative along the edge that is followed loads, and the visit that comes next.
Present == {n \in Needed(get_edge(graph, node, user)) : HasSavedParam(n)}
NextVisit ==
  LET edge == get_edge(graph, node, user)
  IN  Visit(user, Append(path, [user |-> user, edge |-> edge, exact |-> Exact(edge)]))

LEMMA EdgeFollowed ==
  ASSUME ProfileInv, IndInv', FollowEdge, ~Fail
  PROVE  /\ DOMAIN stack' = DOMAIN stack /\ stack'[1] = NextVisit
         /\ \A i \in DOMAIN stack : i # 1 => stack'[i] = stack[i]
         /\ Range(stack') = {NextVisit} \cup Range(Tail(stack))
         /\ Running("follow")
         /\ stable' = (stable /\ Op[graph[user].op].stable_iter)
         /\ UNCHANGED << graph, saved, inputs, roots, todo, resolved, visited, segment, chain, status >>
         /\ user \in Range(graph[node].outputs) /\ user \in Nodes(graph) /\ kernel.root < user
         /\ ~IsInput(user)
         /\ kernel'.root = kernel.root /\ kernel'.writes = kernel.writes
         /\ kernel'.terms = kernel.terms
         /\ kernel'.reads = kernel.reads \cup {SavedParam(n) : n \in Present}
<1> DEFINE edge == get_edge(graph, node, user)
           needed == Needed(edge)
           present == {n \in needed : HasSavedParam(n)}
           step == [user |-> user, edge |-> edge, exact |-> Exact(edge)]
           next == Visit(user, Append(path, step))
           rest == Tail(stack)
<1>1. /\ stable' = (stable /\ Op[graph[user].op].stable_iter)
      /\ stack' = << next >> \o rest
      /\ UNCHANGED << graph, saved, inputs, roots, todo, resolved, visited, segment, chain, status >>
      /\ Running("follow")
  BY DEF FollowEdge
<1>2. /\ IndInv /\ kernel # NoKernel /\ IsKernel(kernel) /\ node \in Nodes(graph)
      /\ kernel.root \in Nodes(graph) /\ kernel.root <= node
      /\ rest \in Seq(Frame) /\ Head(stack).do = "follow" /\ FrameFits(Head(stack))
  BY <1>1, RunningProfile
<1>3. /\ user \in Range(graph[node].outputs) /\ user \in Nodes(graph) /\ kernel.root < user
      /\ ~IsInput(user)
  <2>1. user \in Range(graph[node].outputs)
    BY <1>2 DEF FrameFits, node, user
  <2>2. user \in Nodes(graph) /\ node < user /\ ~is_leaf(graph[user].op)
    BY <1>2, <2>1, NodeFacts
  <2>3. user \in Nat /\ node \in Nat /\ kernel.root \in Nat /\ graph[user].op \in OpNames
    BY <1>2, <2>2, NodeFacts
  <2>4. kernel.root < user
    <3> HIDE DEF user, node
    <3> QED BY <1>2, <2>2, <2>3
  <2>5. ~IsInput(user)
    BY <2>2, <2>3, ComputeFacts DEF IsInput
  <2> QED BY <2>1, <2>2, <2>4, <2>5
<1>4. /\ kernel'.root = kernel.root /\ kernel'.writes = kernel.writes
      /\ kernel'.terms = kernel.terms
      /\ kernel'.reads = kernel.reads \cup {SavedParam(n) : n \in present}
  <2> DEFINE kept == kernel.reads \cup {SavedParam(n) : n \in present}
             other == Transposed(graph[graph[user].inputs[3 - edge]].shape)
             added == IF edge = 1 THEN MatmulMeta(graph[user].shape, other)
                                  ELSE MatmulMeta(other, graph[user].shape)
             loaded == [kernel EXCEPT !.reads = kept]
  <2>1. kernel' = loaded \/ kernel' = [loaded EXCEPT !.meta = loaded.meta \cup added]
    BY DEF FollowEdge
  <2> HIDE DEF kept, added
  <2>2. /\ IsKernel(loaded) /\ loaded.root = kernel.root /\ loaded.writes = kernel.writes
        /\ loaded.reads = kept /\ loaded.terms = kernel.terms
    BY <1>2, KernelTerms DEF IsKernel
  <2> HIDE DEF loaded
  <2>3. \A y : /\ [loaded EXCEPT !.meta = y].root = loaded.root
               /\ [loaded EXCEPT !.meta = y].writes = loaded.writes
               /\ [loaded EXCEPT !.meta = y].reads = loaded.reads
               /\ [loaded EXCEPT !.meta = y].terms = loaded.terms
    BY <2>2, KernelTerms DEF IsKernel
  <2> QED BY <2>1, <2>2, <2>3 DEF kept
<1>5. /\ DOMAIN stack' = DOMAIN stack /\ stack'[1] = next
      /\ \A i \in DOMAIN stack : i # 1 => stack'[i] = stack[i]
      /\ Range(stack') = {next} \cup Range(rest)
  <2>1. next \in Frame
    <3>1. stack' \in Seq(Frame) /\ stack' # << >> /\ Head(stack') = next
      <4>1. stack' \in Seq(Frame')
        BY DEF IndInv, TypeOK
      <4>2. Frame' = Frame
        BY <1>1 DEF Frame, Path, Edges
      <4> HIDE DEF next, rest, Frame
      <4> QED BY <1>1, <1>2, <4>1, <4>2
    <3> HIDE DEF next, Frame
    <3> QED BY <3>1
  <2>2. stack \in Seq(Frame) /\ stack # << >>
    BY <1>1 DEF Running, IndInv, TypeOK, ProfileInv
  <2> HIDE DEF next, Frame
  <2>3. DOMAIN stack' = DOMAIN stack /\ stack'[1] = next
        /\ \A i \in DOMAIN stack : i # 1 => stack'[i] = stack[i]
    BY <1>1, <2>1, <2>2, TopReplaced DEF rest
  <2>4. Range(<< next >> \o rest) = {next} \cup Range(rest)
    <3> DEFINE first == << next >>
    <3>1. first \in Seq(Frame) /\ Range(first) = {next}
      BY <2>1 DEF Range
    <3>2. rest \in Seq(Frame)
      BY <1>2
    <3> HIDE DEF rest, first
    <3>3. Range(first \o rest) = Range(first) \cup Range(rest)
      BY <3>1, <3>2, RangeConcat
    <3> QED BY <3>1, <3>3 DEF first
  <2> QED BY <1>1, <2>3, <2>4
<1>6. next = NextVisit /\ present = Present
  BY DEF NextVisit, Present
<1>7. kernel'.reads = kernel.reads \cup {SavedParam(n) : n \in Present}
  BY <1>4, <1>6
<1>8. /\ DOMAIN stack' = DOMAIN stack /\ stack'[1] = NextVisit
      /\ Range(stack') = {NextVisit} \cup Range(Tail(stack))
  <2>1. next = NextVisit
    BY <1>6
  <2>2. /\ DOMAIN stack' = DOMAIN stack /\ stack'[1] = next
        /\ Range(stack') = {next} \cup Range(Tail(stack))
    BY <1>5
  <2> HIDE DEF next
  <2> QED BY <2>1, <2>2
<1>9. \A i \in DOMAIN stack : i # 1 => stack'[i] = stack[i]
  BY <1>5
<1> HIDE DEF next, present, rest
<1> QED BY <1>1, <1>3, <1>4, <1>7, <1>8, <1>9

LEMMA FollowEdgeProfile ==
  ASSUME ProfileInv, IndInv', FollowEdge
  PROVE  ProfileInv'
<1> DEFINE edge == get_edge(graph, node, user)
           needed == Needed(edge)
           present == {n \in needed : HasSavedParam(n)}
           step == [user |-> user, edge |-> edge, exact |-> Exact(edge)]
           next == Visit(user, Append(path, step))
           rest == Tail(stack)
<1>1. CASE Fail
  BY <1>1, FailProfile
<1>2. CASE ~Fail
  <2>1. /\ stable' = (stable /\ Op[graph[user].op].stable_iter)
        /\ UNCHANGED << graph, saved, inputs, roots, todo, resolved, visited, segment, chain >>
        /\ Running("follow")
    BY <1>2, EdgeFollowed DEF NextVisit, Present
  <2>2. /\ IndInv /\ kernel # NoKernel /\ IsKernel(kernel) /\ node \in Nodes(graph)
        /\ kernel.root \in Nodes(graph) /\ kernel.root <= node
        /\ rest \in Seq(Frame) /\ Head(stack).do = "follow" /\ FrameFits(Head(stack))
        /\ Range(stack) = {Head(stack)} \cup Range(rest)
        /\ \A f \in Range(rest) : FrameFits(f) /\ f.do # "visit"
    BY <2>1, RunningProfile
  <2>3. /\ user \in Range(graph[node].outputs) /\ user \in Nodes(graph) /\ kernel.root < user
        /\ ~IsInput(user)
    BY <1>2, EdgeFollowed DEF NextVisit, Present
  <2>4. /\ kernel'.root = kernel.root /\ kernel'.writes = kernel.writes
        /\ kernel'.reads = kernel.reads \cup {SavedParam(n) : n \in present}
    BY <1>2, EdgeFollowed DEF NextVisit, Present
  <2>10. /\ DOMAIN stack' = DOMAIN stack /\ stack'[1] = next
         /\ \A i \in DOMAIN stack : i # 1 => stack'[i] = stack[i]
         /\ Range(stack') = {next} \cup Range(rest)
    BY <1>2, EdgeFollowed DEF NextVisit, Present
  <2>5. \A t \in kernel'.reads : t \in kernel.reads \/ Loadable(t, kernel.root)
    BY <2>2, <2>3, <2>4, NeededAreLoadable
  <2>6. \A n \in Nodes(graph) : Grad(n) \in kernel'.reads => Grad(n) \in kernel.reads
    BY <2>4 DEF Grad, SavedParam, Saved, In
  <2>7. PathsLeaveTheRoot'
    <3>1. next.do = "visit" /\ next.node = user /\ next.path # << >>
      <4>1. Append(path, step) # << >>
        <5>1. path \in Path
          BY <2>1, <2>2, RunningFacts
        <5> HIDE DEF path, step
        <5> QED BY <5>1, Appended DEF Path
      <4> QED BY <4>1 DEF Visit
    <3>2. Transform(user) => ~stable'
      BY <2>1 DEF Transform, is_transform
    <3>3. ASSUME NEW f, f.do = "visit", f.node = user, f.path # << >> PROVE FrameFits(f)'
      BY <2>1, <2>3, <2>4, <3>2, <3>3, SameGraph DEF FrameFits
    <3>4. ASSUME NEW f, f.do # "visit", FrameFits(f) PROVE FrameFits(f)'
      BY <2>1, <2>4, <3>4, SameGraph DEF FrameFits
    <3>5. DOMAIN stack' = DOMAIN stack /\ stack'[1] = next
          /\ \A i \in DOMAIN stack : i # 1 => stack'[i] = stack[i]
      BY <2>10
    <3>6. \A i \in DOMAIN stack : i # 1 => FrameFits(stack[i]) /\ stack[i].do # "visit"
      BY DEF ProfileInv, PathsLeaveTheRoot
    <3> HIDE DEF next
    <3> QED BY <3>1, <3>3, <3>4, <3>5, <3>6 DEF PathsLeaveTheRoot
  <2>8. \A n : Followed(n) => Followed(n)'
    <3>1. Range(stack') = {next} \cup Range(rest)
      BY <2>10
    <3>2. \A n : Finish(n) # Head(stack)
      BY <2>2 DEF Finish
    <3> HIDE DEF next
    <3> QED BY <2>1, <2>2, <3>1, <3>2 DEF Followed, Finish
  <2>9. \A n \in Range(visited') : Followed(n)' \/ Ends(n)
    BY <2>1, <2>2, <2>8 DEF ProfileInv, VisitedAreFollowed
  <2> HIDE DEF next, needed, present, rest
  <2> QED BY <2>1, <2>2, <2>4, <2>5, <2>6, <2>7, <2>9, EvalProfile
<1> QED BY <1>1, <1>2

LEMMA FinishNodeProfile ==
  ASSUME ProfileInv, IndInv', FinishNode
  PROVE  ProfileInv'
<1>1. /\ Running("finish") /\ resolved' = PushNew(resolved, node) /\ stack' = Tail(stack)
      /\ UNCHANGED << graph, saved, inputs, roots, todo, kernel, visited, stable, segment, chain >>
  BY DEF FinishNode
<1>2. /\ IndInv /\ kernel # NoKernel /\ node \in Nodes(graph)
      /\ Head(stack).do = "finish" /\ FrameFits(Head(stack))
      /\ Range(stack) = {Head(stack)} \cup Range(Tail(stack))
      /\ \A f \in Range(Tail(stack)) : FrameFits(f) /\ f.do # "visit"
  BY <1>1, RunningProfile
<1>3. Range(resolved') = Range(resolved) \cup {node}
  <2>1. resolved \in Seq(Nodes(graph))
    BY <1>2 DEF IndInv, TypeOK
  <2> QED BY <1>1, <1>2, <2>1, PushNewType
<1>4. ~IsSink(graph, node) /\ (node = kernel.root \/ ~StartsKernels(node))
  BY <1>2 DEF FrameFits, node
<1>5. PathsLeaveTheRoot'
  <2>1. \A f : FrameFits(f)' <=> FrameFits(f)
    BY <1>1, SameGraph DEF FrameFits
  <2> QED BY <1>1, <1>2, <2>1 DEF PathsLeaveTheRoot, Range
<1>6. \A n : Followed(n) => Followed(n)'
  <2>1. \A n : Finish(n) = Head(stack) => n = node
    BY DEF Finish, node
  <2> QED BY <1>1, <1>2, <1>3, <2>1 DEF Followed, Finish
<1>7. \A n \in Range(visited') : Followed(n)' \/ Ends(n)
  BY <1>1, <1>2, <1>6 DEF ProfileInv, VisitedAreFollowed
<1> QED BY <1>1, <1>2, <1>3, <1>4, <1>5, <1>7, EvalProfile DEF ProfileInv, KernelsAreComplete

-----------------------------------------------------------------------------
LEMMA ProfileInit == Init => ProfileInv
<1> SUFFICES ASSUME Init PROVE ProfileInv
  OBVIOUS
<1>1. IndInv
  BY InitInv
<1>2. /\ Range(inputs) = {n \in Nodes(graph) : IsInput(n)}
      /\ inputs # << >> => Head(inputs) \in Range(inputs) /\ roots = << Head(inputs) >>
      /\ inputs = << >> => roots = << >>
  <2> DEFINE S == {n \in Nodes(graph) : IsInput(n)}
  <2>1. S \in SUBSET (1 .. Len(graph)) /\ Len(graph) \in Nat
    BY <1>1, GraphFacts DEF Nodes, IndInv
  <2>2. inputs = Ascending(S)
    BY DEF Init, IsInput
  <2> HIDE DEF S
  <2>3. Range(inputs) = S /\ inputs \in Seq(S)
    BY <2>1, <2>2, AscendingRange, AscendingType
  <2>4. inputs # << >> => Head(inputs) \in Range(inputs)
    BY <2>3, PoppedRange
  <2> QED BY <2>3, <2>4 DEF S, Init, FirstOf
<1>3. /\ Range(<< >>) = {} /\ DOMAIN << >> = {} /\ << >> \in Seq(Range(<< >>))
      /\ \A x : Range(<< x >>) = {x}
  BY DEF Range
<1>4. /\ todo = << >> /\ resolved = << >> /\ stack = << >> /\ segment = << >> /\ chain = << >>
      /\ kernel = NoKernel /\ saved = compute_saved_nodes(graph)
  BY DEF Init
<1>5. KernelsAreComplete /\ PathsLeaveTheRoot /\ VisitedAreFollowed
  BY <1>3, <1>4 DEF KernelsAreComplete, PathsLeaveTheRoot, VisitedAreFollowed
<1>6. RootsAreFollowedOnce /\ InputsAreAhead
  BY <1>2, <1>3, <1>4 DEF RootsAreFollowedOnce, InputsAreAhead, StartsKernels, Ahead
<1>7. SplitsAreAhead
  BY <1>3, <1>4 DEF SplitsAreAhead, ReadBy, KernelsOf
<1> QED BY <1>1, <1>4, <1>5, <1>6, <1>7 DEF ProfileInv

LEMMA ProfileNext == ProfileInv /\ [Next]_vars => ProfileInv'
<1> SUFFICES ASSUME ProfileInv, [Next]_vars PROVE ProfileInv'
  OBVIOUS
<1>1. IndInv'
  BY NextInv DEF ProfileInv
<1>2. CASE UNCHANGED vars
  BY <1>1, <1>2, LoopProfile DEF vars
<1>3. CASE StartSweep \/ Return \/ SkipRoot
  BY <1>1, <1>3, LoopStepsProfile
<1>4. CASE EndInput
  BY <1>1, <1>4, EndInputProfile
<1>5. CASE StartKernel
  BY <1>1, <1>5, StartKernelProfile
<1>6. CASE FinishKernel
  BY <1>1, <1>6, FinishKernelProfile
<1>7. CASE EvalGrad
  BY <1>1, <1>7, VisitSinkProfile, VisitSplitProfile, VisitUsersProfile, FollowEdgeProfile,
     FinishNodeProfile DEF EvalGrad
<1> QED BY <1>2, <1>3, <1>4, <1>5, <1>6, <1>7 DEF Next

\* A gradient that a kernel of an input loads where it was split is stored by a kernel of the same
\* input: the transform became a root, and no kernel but the one started for it follows it.
THEOREM SplitGradientsAreKept == Spec => []SplitGradientsAreStored
<1>1. ProfileInv => SplitGradientsAreStored
  <2> SUFFICES ASSUME ProfileInv, BetweenKernels, inputs # << >>, todo = << >>, ~SweepNeeded,
                      NEW n \in Nodes(graph), Grad(n) \in ReadBy(segment)
               PROVE  Grad(n) \in WrittenBy(segment)
    BY DEF SplitGradientsAreStored
  <2>1. PICK i \in DOMAIN segment : Grad(n) \in segment[i].kernel.reads
    BY DEF ReadBy, KernelsOf
  <2>2. ~IsSink(graph, n)
    <3>1. Loadable(Grad(n), segment[i].kernel.root)
      BY <2>1 DEF ProfileInv, KernelsAreComplete, Complete, Range
    <3> QED BY <3>1 DEF Loadable, Grad, Seed, In, Saved
  <2>3. Rooted(n)
    <3>1. Range(<< >>) = {}
      BY DEF Range
    <3> QED BY <2>2, <3>1 DEF ProfileInv, SplitsAreAhead, Ahead, SweepNeeded
  <2>4. PICK j \in DOMAIN segment : segment[j].kernel.root = n
    BY <2>3 DEF Rooted
  <2>5. Grad(n) \in segment[j].kernel.writes
    BY <2>4 DEF ProfileInv, KernelsAreComplete, Complete, Range
  <2> QED BY <2>5 DEF WrittenBy, KernelsOf
<1> QED BY <1>1, ProfileInit, ProfileNext, PTL DEF Spec

\* A backward kernel never loads a value that the forward pass does not keep.
THEOREM OnlyKeptValuesAreLoaded == Spec => []SavedValuesAreKept
<1>1. ProfileInv => SavedValuesAreKept
  <2> SUFFICES ASSUME ProfileInv, NEW n \in Nodes(graph), Saved(n) \in ReadBy(chain \o segment)
               PROVE  is_defined_in_forward(saved, n) /\ n # LastNode(graph)
    BY DEF SavedValuesAreKept
  <2>1. \E e \in Range(chain) \cup Range(segment) : Saved(n) \in e.kernel.reads
    <3> DEFINE S == Range(chain) \cup Range(segment)
    <3>1. chain \in Seq(S) /\ segment \in Seq(S)
      <4>1. chain \in Seq(Range(chain)) /\ segment \in Seq(Range(segment))
        BY DEF ProfileInv, KernelsAreComplete, IndInv, ListSoFar
      <4>2. \A A, B : Seq(A) \subseteq Seq(A \cup B) /\ Seq(B) \subseteq Seq(A \cup B)
        OBVIOUS
      <4> QED BY <4>1, <4>2
    <3>2. Range(chain \o segment) = Range(chain) \cup Range(segment)
      <4> HIDE DEF S
      <4> QED BY <3>1, RangeConcat
    <3>3. PICK i \in DOMAIN (chain \o segment) : Saved(n) \in (chain \o segment)[i].kernel.reads
      BY DEF ReadBy, KernelsOf
    <3>4. (chain \o segment)[i] \in Range(chain \o segment)
      BY DEF Range
    <3> QED BY <3>2, <3>3, <3>4
  <2>2. PICK k : Saved(n) \in k.reads /\ Complete(k)
    BY <2>1 DEF ProfileInv, KernelsAreComplete
  <2>3. Loadable(Saved(n), k.root)
    BY <2>2 DEF Complete
  <2> QED BY <2>3 DEF Loadable, Grad, Seed, In, Saved
<1> QED BY <1>1, ProfileInit, ProfileNext, PTL DEF Spec

-----------------------------------------------------------------------------
(***************************************************************************)
(* What the kernels add up.  A walk leaves a root along uses, from node to *)
(* user, and goes on from the root or from a node that is no transform; it *)
(* is complete at an output, or at a transform other than the root.  A     *)
(* kernel adds up exactly the complete walks from its root: each is a term *)
(* already or starts with the path of a frame that is still to be run.     *)
(***************************************************************************)
NeededAlong(n, u) ==
  {graph[u].inputs[p] : p \in Op[graph[u].op].grad[get_edge(graph, n, u)]}
    \cup (IF Op[graph[u].op].grad_own THEN {u} ELSE {})

\* The derivative along the edge from n to u loads what its formula stands on.
HasItsValues(n, u) ==
  \A m \in NeededAlong(n, u) : HasSavedParam(m) /\ (Op[graph[m].op].save_inner => m = u)

StepTo(n, u) ==
  [user |-> u, edge |-> get_edge(graph, n, u),
   exact |-> HasItsValues(n, u)]

\* Where step i of path p leaves from, and where p ends.
Before(root, p, i) == IF i = 1 THEN root ELSE p[i - 1].user
At(root, p) == Before(root, p, Len(p) + 1)

StepFits(n, i, s) ==
  s.user \in Range(graph[n].outputs) /\ s = StepTo(n, s.user) /\ (i # 1 => ~Transform(n))

IsWalk(root, p) == \A i \in 1 .. Len(p) : StepFits(Before(root, p, i), i, p[i])

FullWalk(root, p) ==
  IsWalk(root, p) /\ (IsSink(graph, At(root, p)) \/ (Len(p) # 0 /\ Transform(At(root, p))))

Terms(root) == {<< p, At(root, p) >> : p \in {q \in Path : FullWalk(root, q)}}

Prefix(q, p) == Len(q) <= Len(p) /\ \A i \in 1 .. Len(q) : p[i] = q[i]

\* The walks that a frame still has to follow.
Covers(f, p) ==
  /\ f.do # "finish" /\ Prefix(f.path, p)
  /\ f.do = "follow" => Len(f.path) < Len(p) /\ p[Len(f.path) + 1].user = f.user

FrameWalks(f) ==
  f.do # "finish" =>
    /\ IsWalk(kernel.root, f.path) /\ f.node = At(kernel.root, f.path)
    /\ f.do = "follow" => Len(f.path) = 0 \/ ~Transform(f.node)

WalksUnderWay ==
  kernel # NoKernel =>
    /\ \A f \in Range(stack) : FrameWalks(f)
    /\ kernel.terms \subseteq Terms(kernel.root)
    /\ \A p \in Path :
         FullWalk(kernel.root, p) =>
           \/ << p, At(kernel.root, p) >> \in kernel.terms
           \/ \E f \in Range(stack) : Covers(f, p)

WalksAreSummed == \A e \in Range(chain) \cup Range(segment) : e.kernel.terms = Terms(e.kernel.root)

WalkInv == ProfileInv /\ WalksUnderWay /\ WalksAreSummed

-----------------------------------------------------------------------------
LEMMA SameWalks ==
  ASSUME graph' = graph, saved' = saved
  PROVE  /\ Path' = Path
         /\ \A r, p : At(r, p)' = At(r, p) /\ (IsWalk(r, p)' <=> IsWalk(r, p))
                      /\ (FullWalk(r, p)' <=> FullWalk(r, p))
         /\ \A r : Terms(r)' = Terms(r)
<1>1. Path' = Path
  BY DEF Path, Edges
<1>2. \A n, u : StepTo(n, u)' = StepTo(n, u)
  BY DEF StepTo, HasItsValues, NeededAlong, HasSavedParam
<1>3. \A n, i, s : StepFits(n, i, s)' <=> StepFits(n, i, s)
  BY <1>2 DEF StepFits, Transform
<1>4. \A r, p : At(r, p)' = At(r, p) /\ (IsWalk(r, p)' <=> IsWalk(r, p))
  BY <1>3 DEF At, IsWalk, Before
<1>5. \A r, p : FullWalk(r, p)' <=> FullWalk(r, p)
  BY <1>4 DEF FullWalk, IsSink, Transform
<1>6. \A r : Terms(r)' = Terms(r)
  BY <1>1, <1>4, <1>5 DEF Terms
<1> QED BY <1>1, <1>4, <1>5, <1>6

LEMMA PathFacts ==
  ASSUME NEW p \in Path
  PROVE  /\ Len(p) \in Nat /\ DOMAIN p = 1 .. Len(p) /\ (p = << >> <=> Len(p) = 0)
         /\ \A i \in 1 .. Len(p) : p[i].user \in Nodes(graph)
<1> DEFINE S == [user : Nodes(graph), edge : Edges, exact : BOOLEAN]
<1>1. \A s \in S : s.user \in Nodes(graph)
  OBVIOUS
<1>2. p \in Seq(S)
  BY DEF Path
<1> HIDE DEF S
<1> QED BY <1>1, <1>2, EmptySeq

\* A path that starts another leads where the other goes on from.
LEMMA PrefixFacts ==
  ASSUME NEW q \in Path, NEW p \in Path, Prefix(q, p), NEW root
  PROVE  /\ Before(root, p, Len(q) + 1) = At(root, q)
         /\ Len(q) = Len(p) => p = q
         /\ Len(q) # Len(p) => Len(q) < Len(p) /\ Len(q) + 1 \in 1 .. Len(p)
<1>1. /\ Len(q) \in Nat /\ DOMAIN q = 1 .. Len(q) /\ Len(p) \in Nat /\ DOMAIN p = 1 .. Len(p)
      /\ q = [i \in 1 .. Len(q) |-> q[i]] /\ p = [i \in 1 .. Len(p) |-> p[i]]
  <2>1. \A s \in Path : s = [i \in DOMAIN s |-> s[i]]
    BY DEF Path
  <2> QED BY <2>1, PathFacts
<1>2. Len(q) <= Len(p) /\ \A i \in 1 .. Len(q) : p[i] = q[i]
  BY DEF Prefix
<1>3. Before(root, p, Len(q) + 1) = At(root, q)
  <2>1. Len(q) + 1 = 1 <=> Len(q) = 0
    BY <1>1
  <2>2. Len(q) # 0 => (Len(q) + 1) - 1 = Len(q) /\ Len(q) \in 1 .. Len(q)
    BY <1>1
  <2> QED BY <1>2, <2>1, <2>2 DEF At, Before
<1>4. Len(q) = Len(p) => p = q
  BY <1>1, <1>2
<1>5. Len(q) # Len(p) => Len(q) < Len(p) /\ Len(q) + 1 \in 1 .. Len(p)
  <2>1. \A a, b \in Nat : a <= b /\ a # b => a < b /\ a + 1 \in 1 .. b
    OBVIOUS
  <2>2. Len(q) \in Nat /\ Len(p) \in Nat
    BY <1>1
  <2> QED BY <1>2, <2>1, <2>2
<1> QED BY <1>3, <1>4, <1>5

\* One more step.
LEMMA WalkExtends ==
  ASSUME NEW q \in Path, NEW root, IsWalk(root, q), NEW u \in Range(graph[At(root, q)].outputs),
         Len(q) = 0 \/ ~Transform(At(root, q))
  PROVE  LET p == Append(q, StepTo(At(root, q), u))
         IN  IsWalk(root, p) /\ At(root, p) = u /\ Len(p) = Len(q) + 1 /\ Len(p) # 0
<1> DEFINE n == At(root, q)
           s == StepTo(n, u)
           p == Append(q, s)
<1>1. Len(q) \in Nat
  BY PathFacts
<1>2. /\ Len(p) = Len(q) + 1 /\ p[Len(q) + 1] = s /\ \A i \in 1 .. Len(q) : p[i] = q[i]
  <2> HIDE DEF s
  <2> QED BY Appended DEF Path
<1> HIDE DEF p
<1>3. s.user = u
  BY DEF StepTo
<1>4. \A i \in 1 .. Len(q) + 1 : Before(root, p, i) = Before(root, q, i)
  <2>1. \A i \in 1 .. Len(q) + 1 : i = 1 \/ i - 1 \in 1 .. Len(q)
    BY <1>1
  <2> QED BY <1>2, <2>1 DEF Before
<1>5. IsWalk(root, p)
  <2>1. ASSUME NEW i \in 1 .. Len(q) PROVE StepFits(Before(root, p, i), i, p[i])
    <3>1. i \in 1 .. Len(q) + 1
      BY <1>1
    <3> QED BY <1>2, <1>4, <3>1 DEF IsWalk
  <2>2. StepFits(Before(root, p, Len(q) + 1), Len(q) + 1, p[Len(q) + 1])
    <3>1. Len(q) + 1 \in 1 .. Len(q) + 1 /\ (Len(q) + 1 # 1 => Len(q) # 0)
      BY <1>1
    <3>2. Before(root, p, Len(q) + 1) = n
      BY <1>4, <3>1 DEF At
    <3> HIDE DEF s, n
    <3>3. StepFits(n, Len(q) + 1, s)
      BY <1>3, <3>1 DEF StepFits, s, n
    <3> QED BY <1>2, <3>2, <3>3
  <2>3. \A i \in 1 .. Len(p) : i \in 1 .. Len(q) \/ i = Len(q) + 1
    BY <1>1, <1>2
  <2> QED BY <2>1, <2>2, <2>3 DEF IsWalk
<1>6. At(root, p) = u
  <2>1. Len(p) + 1 # 1 /\ (Len(p) + 1) - 1 = Len(q) + 1
    BY <1>1, <1>2
  <2> QED BY <1>2, <1>3, <2>1 DEF At, Before
<1>7. Len(p) # 0
  BY <1>1, <1>2
<1> QED BY <1>2, <1>5, <1>6, <1>7 DEF p

LEMMA PrefixExtends ==
  ASSUME NEW q \in Path, NEW p \in Path, Prefix(q, p), NEW root, IsWalk(root, p),
         Len(q) < Len(p)
  PROVE  LET n == At(root, q)
             u == p[Len(q) + 1].user
         IN  /\ u \in Range(graph[n].outputs) /\ (Len(q) # 0 => ~Transform(n))
             /\ Prefix(Append(q, StepTo(n, u)), p)
<1> DEFINE n == At(root, q)
           u == p[Len(q) + 1].user
           s == StepTo(n, u)
<1>1. Len(q) \in Nat /\ Len(p) \in Nat /\ Len(q) + 1 \in 1 .. Len(p) /\ (Len(q) # 0 => Len(q) + 1 # 1)
  BY PathFacts
<1>2. Before(root, p, Len(q) + 1) = n
  BY PrefixFacts
<1>3. StepFits(n, Len(q) + 1, p[Len(q) + 1])
  BY <1>1, <1>2 DEF IsWalk
<1>4. u \in Range(graph[n].outputs) /\ p[Len(q) + 1] = s /\ (Len(q) # 0 => ~Transform(n))
  BY <1>1, <1>3 DEF StepFits
<1>5. Prefix(Append(q, s), p)
  <2> HIDE DEF s
  <2>1. /\ Len(Append(q, s)) = Len(q) + 1 /\ Append(q, s)[Len(q) + 1] = s
        /\ \A i \in 1 .. Len(q) : Append(q, s)[i] = q[i]
    BY Appended DEF Path
  <2>2. \A i \in 1 .. Len(q) + 1 : i \in 1 .. Len(q) \/ i = Len(q) + 1
    BY <1>1
  <2>3. Len(q) + 1 <= Len(p)
    BY <1>1
  <2> QED BY <1>4, <2>1, <2>2, <2>3 DEF Prefix
<1> QED BY <1>4, <1>5

-----------------------------------------------------------------------------
\* A frame that is run, in the place of which others stand that cover its walks.
LEMMA EvalWalk ==
  ASSUME WalkInv, ProfileInv', kernel # NoKernel, stack # << >>, stack \in Seq(Frame),
         UNCHANGED << graph, saved, segment, chain >>, kernel'.root = kernel.root,
         NEW new, kernel'.terms = kernel.terms \cup new, new \subseteq Terms(kernel.root),
         Range(Tail(stack)) \subseteq Range(stack'),
         \A f \in Range(stack') : f \in Range(Tail(stack)) \/ FrameWalks(f),
         \A p \in Path :
           FullWalk(kernel.root, p) /\ Covers(Head(stack), p) =>
             << p, At(kernel.root, p) >> \in new \/ \E f \in Range(stack') : Covers(f, p)
  PROVE  WalkInv'
<1>1. Range(stack) = {Head(stack)} \cup Range(Tail(stack))
  <2> HIDE DEF Frame
  <2> QED BY PoppedRange
<1>2. \A f : FrameWalks(f)' <=> FrameWalks(f)
  BY SameWalks DEF FrameWalks, Transform
<1>3. \A f, p : Covers(f, p)' <=> Covers(f, p)
  BY DEF Covers, Prefix
<1>4. \A f \in Range(stack') : FrameWalks(f)
  BY <1>1 DEF WalkInv, WalksUnderWay
<1>5. kernel'.terms \subseteq Terms(kernel.root)
  BY DEF WalkInv, WalksUnderWay
<1>6. ASSUME NEW p \in Path, FullWalk(kernel.root, p)
      PROVE  << p, At(kernel.root, p) >> \in kernel'.terms \/ \E f \in Range(stack') : Covers(f, p)
  <2>1. CASE << p, At(kernel.root, p) >> \in kernel.terms
    BY <2>1
  <2>2. CASE \E f \in Range(stack) : Covers(f, p)
    BY <1>1, <1>6, <2>2
  <2> QED BY <1>6, <2>1, <2>2 DEF WalkInv, WalksUnderWay
<1>7. WalksUnderWay'
  BY <1>2, <1>3, <1>4, <1>5, <1>6, SameWalks DEF WalksUnderWay
<1>8. WalksAreSummed'
  BY SameWalks DEF WalkInv, WalksAreSummed
<1> QED BY <1>7, <1>8 DEF WalkInv

LEMMA QuietWalk ==
  ASSUME WalkInv, ProfileInv', kernel # NoKernel, stack # << >>, stack \in Seq(Frame),
         UNCHANGED << graph, saved, segment, chain >>,
         kernel'.root = kernel.root, kernel'.terms = kernel.terms,
         Range(Tail(stack)) \subseteq Range(stack'),
         \A f \in Range(stack') : f \in Range(Tail(stack)) \/ FrameWalks(f),
         \A p \in Path :
           FullWalk(kernel.root, p) /\ Covers(Head(stack), p) =>
             \E f \in Range(stack') : Covers(f, p)
  PROVE  WalkInv'
<1> DEFINE new == {}
<1>1. kernel'.terms = kernel.terms \cup new /\ new \subseteq Terms(kernel.root)
  OBVIOUS
<1> HIDE DEF new
<1> QED BY <1>1, EvalWalk

\* A step between two kernels.
LEMMA LoopWalk ==
  ASSUME WalkInv, ProfileInv',
         UNCHANGED << graph, saved, kernel, stack >>,
         Range(chain') \cup Range(segment') \subseteq Range(chain) \cup Range(segment)
  PROVE  WalkInv'
<1>1. \A f : FrameWalks(f)' <=> FrameWalks(f)
  BY SameWalks DEF FrameWalks, Transform
<1>2. \A f, p : Covers(f, p)' <=> Covers(f, p)
  BY DEF Covers, Prefix
<1>3. WalksUnderWay'
  BY <1>1, <1>2, SameWalks DEF WalkInv, WalksUnderWay, NoKernel
<1>4. WalksAreSummed'
  BY SameWalks DEF WalkInv, WalksAreSummed
<1> QED BY <1>3, <1>4 DEF WalkInv

LEMMA FailWalk ==
  ASSUME WalkInv, ProfileInv', Fail
  PROVE  WalkInv'
BY LoopWalk DEF Fail

LEMMA EndInputWalk ==
  ASSUME WalkInv, ProfileInv', EndInput
  PROVE  WalkInv'
<1>1. /\ chain' = chain \o segment /\ segment' = << >>
      /\ UNCHANGED << graph, saved, kernel, stack >>
  BY DEF EndInput
<1>2. Range(chain') \cup Range(segment') \subseteq Range(chain) \cup Range(segment)
  <2> DEFINE S == Range(chain) \cup Range(segment)
  <2>1. chain \in Seq(S) /\ segment \in Seq(S)
    <3>1. chain \in Seq(Range(chain)) /\ segment \in Seq(Range(segment))
      BY DEF WalkInv, ProfileInv, KernelsAreComplete, IndInv, ListSoFar
    <3>2. \A A, B : Seq(A) \subseteq Seq(A \cup B) /\ Seq(B) \subseteq Seq(A \cup B)
      OBVIOUS
    <3> QED BY <3>1, <3>2
  <2> HIDE DEF S
  <2>2. Range(chain') = Range(chain) \cup Range(segment)
    BY <1>1, <2>1, RangeConcat
  <2>3. Range(<< >>) = {}
    BY DEF Range
  <2> QED BY <1>1, <2>2, <2>3
<1> QED BY <1>1, <1>2, LoopWalk

LEMMA StartKernelWalk ==
  ASSUME WalkInv, ProfileInv', StartKernel
  PROVE  WalkInv'
<1> DEFINE root == Head(todo)
           first == Visit(root, << >>)
<1>1. /\ kernel' = NewKernel(graph, root) /\ stack' = << first >>
      /\ UNCHANGED << graph, saved, segment, chain >>
  BY DEF StartKernel
<1>2. kernel'.root = root /\ kernel'.terms = {}
  BY <1>1 DEF NewKernel
<1>3. /\ Range(stack') = {first} /\ first.do = "visit" /\ first.node = root /\ first.path = << >>
  BY <1>1 DEF Range, Visit
<1> HIDE DEF first, root
<1>4. IsWalk(root, << >>) /\ At(root, << >>) = root
  <2>1. Len(<< >>) = 0 /\ 1 .. 0 = {}
    OBVIOUS
  <2> QED BY <2>1 DEF IsWalk, At, Before
<1>5. \A p \in Path : Prefix(<< >>, p)
  <2>1. Len(<< >>) = 0 /\ 1 .. 0 = {}
    OBVIOUS
  <2> QED BY <2>1, PathFacts DEF Prefix
<1>6. ASSUME NEW f, f = first
      PROVE  FrameWalks(f)' /\ \A p \in Path : Covers(f, p)'
  <2>1. \A r : r = root => IsWalk(r, f.path) /\ At(r, f.path) = root
    BY <1>3, <1>4, <1>6
  <2>2. \A r : r = root => IsWalk(r, f.path)' /\ At(r, f.path)' = root
    BY <1>1, <2>1, SameWalks
  <2>3. f.do = "visit" /\ f.node = root
    BY <1>3, <1>6
  <2>4. FrameWalks(f)'
    BY <1>2, <2>2, <2>3 DEF FrameWalks
  <2>5. \A p \in Path : Covers(f, p)'
    BY <1>3, <1>5, <1>6 DEF Covers, Prefix
  <2> QED BY <2>4, <2>5
<1>8. WalksUnderWay'
  BY <1>1, <1>2, <1>3, <1>6, SameWalks DEF WalksUnderWay
<1>9. WalksAreSummed'
  BY <1>1, SameWalks DEF WalkInv, WalksAreSummed
<1> QED BY <1>8, <1>9 DEF WalkInv

\* When no frame is left, every complete walk is a term.
LEMMA FinishKernelWalk ==
  ASSUME WalkInv, ProfileInv', FinishKernel
  PROVE  WalkInv'
<1> DEFINE root == kernel.root
           n == Len(segment)
<1>0. CASE StoresGradient(root) /\ ~HasGradParam(root)
  BY <1>0, FailWalk DEF FinishKernel
<1> SUFFICES ASSUME ~(StoresGradient(root) /\ ~HasGradParam(root)) PROVE WalkInv'
  BY <1>0
<1>1. /\ kernel # NoKernel /\ stack = << >> /\ kernel' = NoKernel
      /\ UNCHANGED << graph, saved, chain >>
  BY DEF FinishKernel
<1>2. IndInv /\ IsKernel(kernel)
  BY <1>1 DEF WalkInv, ProfileInv, IndInv, KernelIsNew
<1>3. kernel.terms = Terms(root)
  <2>1. Range(stack) = {}
    BY <1>1 DEF Range
  <2>2. Terms(root) \subseteq kernel.terms
    BY <1>1, <2>1 DEF WalkInv, WalksUnderWay, Terms
  <2> QED BY <1>1, <2>2 DEF WalkInv, WalksUnderWay
<1>4. Stored.root = root /\ Stored.terms = Terms(root)
  BY <1>2, <1>3, KernelFacts, KernelTerms DEF Stored
<1>5. /\ n \in Nat /\ DOMAIN segment = 1 .. n /\ DOMAIN segment' = 1 .. n + 1
      /\ segment'[n + 1].kernel = Stored
      /\ \A i \in 1 .. n : segment'[i].kernel = segment[i].kernel
  BY KernelAdded DEF WalkInv
<1>6. \A i \in 1 .. n + 1 : i = n + 1 \/ i \in 1 .. n
  BY KernelAdded DEF WalkInv
<1>7. \A i \in DOMAIN segment' : segment'[i].kernel.terms = Terms(segment'[i].kernel.root)
  <2>1. \A i \in DOMAIN segment : segment[i].kernel.terms = Terms(segment[i].kernel.root)
    BY DEF WalkInv, WalksAreSummed, Range
  <2> HIDE DEF n, root
  <2> QED BY <1>4, <1>5, <1>6, <2>1
<1>8. WalksAreSummed'
  BY <1>1, <1>7, SameWalks DEF WalkInv, WalksAreSummed, Range
<1>9. WalksUnderWay'
  BY <1>1 DEF WalksUnderWay
<1> QED BY <1>8, <1>9 DEF WalkInv

LEMMA NewTerm ==
  ASSUME WalkInv, Running("visit"), NEW t
  PROVE  /\ Seen.terms = kernel.terms
         /\ AddTerm(t).terms = kernel.terms \cup {<< path, node >>}
<1>1. IsKernel(kernel)
  BY RunningProfile DEF WalkInv
<1>2. IsKernel(Seen) /\ Seen.terms = kernel.terms
  BY <1>1, KernelFacts, KernelTerms DEF Seen
<1> DEFINE loaded == Load(Seen, t)
<1>3. IsKernel(loaded) /\ loaded.terms = kernel.terms
  BY <1>2, KernelFacts, KernelTerms
<1>4. AddTerm(t) = [loaded EXCEPT !.terms = loaded.terms \cup {<< path, node >>}]
  BY DEF AddTerm
<1> HIDE DEF loaded
<1>5. \A y : [loaded EXCEPT !.terms = y].terms = y
  BY <1>3, KernelTerms
<1> QED BY <1>2, <1>3, <1>4, <1>5

\* A walk that ends: a walk that its frame covers is that walk.
LEMMA WalkEnds ==
  ASSUME WalkInv, ProfileInv', Running("visit"), NEW t,
         IsSink(graph, node) \/ (Transform(node) /\ ~stable),
         kernel' = AddTerm(t), stack' = Tail(stack), UNCHANGED << graph, saved, segment, chain >>
  PROVE  WalkInv'
<1> DEFINE new == {<< path, node >>}
<1>1. /\ kernel # NoKernel /\ stack # << >> /\ stack \in Seq(Frame) /\ IndInv
      /\ Head(stack).do = "visit" /\ FrameFits(Head(stack))
      /\ Range(stack) = {Head(stack)} \cup Range(Tail(stack)) /\ node \in Nodes(graph)
  BY RunningProfile DEF WalkInv
<1>2. path \in Path
  BY <1>1, RunningFacts
<1>3. kernel'.root = kernel.root /\ kernel'.terms = kernel.terms \cup new
  BY NewTerm, TermProfile DEF WalkInv
<1>4. IsWalk(kernel.root, path) /\ node = At(kernel.root, path)
  <2>1. FrameWalks(Head(stack))
    BY <1>1 DEF WalkInv, WalksUnderWay
  <2> QED BY <1>1, <2>1 DEF FrameWalks, path, node
<1>5. FullWalk(kernel.root, path)
  <2>1. ~IsSink(graph, node) => path # << >>
    BY <1>1 DEF FrameFits, path, node
  <2> QED BY <1>2, <1>4, <2>1, PathFacts DEF FullWalk
<1>6. new \subseteq Terms(kernel.root)
  BY <1>2, <1>4, <1>5 DEF Terms
<1>7. ASSUME NEW p \in Path, FullWalk(kernel.root, p), Covers(Head(stack), p)
      PROVE  << p, At(kernel.root, p) >> \in new
  <2>1. Prefix(path, p) /\ IsWalk(kernel.root, p)
    BY <1>1, <1>7 DEF Covers, FullWalk, path
  <2>2. CASE Len(path) = Len(p)
    BY <1>2, <1>4, <2>1, <2>2, PrefixFacts
  <2>3. CASE Len(path) # Len(p)
    <3>1. Len(path) < Len(p)
      BY <1>2, <2>1, <2>3, PrefixFacts
    <3>2. p[Len(path) + 1].user \in Range(graph[node].outputs)
          /\ (Len(path) # 0 => ~Transform(node))
      BY <1>2, <1>4, <2>1, <3>1, PrefixExtends
    <3>3. Range(<< >>) = {}
      BY DEF Range
    <3>4. Len(path) # 0 \/ IsSink(graph, node)
      BY <1>2, <1>4, <1>5, PathFacts DEF FullWalk
    <3>5. CASE IsSink(graph, node)
      BY <3>2, <3>3, <3>5 DEF IsSink
    <3>6. CASE ~IsSink(graph, node)
      BY <3>2, <3>4, <3>6
    <3> QED BY <3>5, <3>6
  <2> QED BY <2>2, <2>3
<1> HIDE DEF new
<1> QED BY <1>1, <1>3, <1>6, <1>7, EvalWalk

LEMMA VisitEndWalk ==
  ASSUME WalkInv, ProfileInv', VisitSink \/ VisitSplit
  PROVE  WalkInv'
<1>1. CASE VisitSink
  BY <1>1, WalkEnds DEF VisitSink
<1>2. CASE VisitSplit /\ ~HasGradParam(node)
  BY <1>2, FailWalk DEF VisitSplit
<1>3. CASE VisitSplit /\ HasGradParam(node)
  <2>1. Running("visit") /\ MustSplit /\ kernel' = AddTerm(Grad(node)) /\ stack' = Tail(stack)
        /\ UNCHANGED << graph, saved, segment, chain >>
    BY <1>3 DEF VisitSplit
  <2>2. Transform(node) /\ ~stable
    <3>1. IndInv
      BY DEF WalkInv, ProfileInv
    <3> QED BY <2>1, <3>1, SplitsAreTransforms
  <2> QED BY <2>1, <2>2, WalkEnds
<1> QED BY <1>1, <1>2, <1>3

\* A walk that goes on takes one of the uses of the node.
LEMMA VisitUsersWalk ==
  ASSUME WalkInv, ProfileInv', VisitUsers
  PROVE  WalkInv'
<1> DEFINE uses == [k \in DOMAIN Users |-> Follow(node, Users[k], path)]
           end == Finish(node)
           rest == Tail(stack)
<1>1. /\ Running("visit") /\ ~IsSink(graph, node) /\ ~MustSplit
      /\ kernel' = Seen /\ stack' = uses \o << end >> \o rest
      /\ UNCHANGED << graph, saved, segment, chain >>
  BY DEF VisitUsers
<1>2. /\ IndInv /\ kernel # NoKernel /\ stack # << >> /\ stack \in Seq(Frame)
      /\ node \in Nodes(graph) /\ rest \in Seq(Frame)
      /\ Head(stack).do = "visit" /\ FrameFits(Head(stack))
      /\ Range(stack) = {Head(stack)} \cup Range(rest)
  BY <1>1, RunningProfile DEF WalkInv
<1>3. path \in Path /\ Users \in Seq(Nodes(graph))
  BY <1>1, <1>2, RunningFacts, NodeFacts DEF Users
<1>4. Range(stack') = Range(uses) \cup {end} \cup Range(rest)
  BY <1>1, UsersPushed DEF WalkInv
<1>5. kernel'.root = kernel.root /\ kernel'.terms = kernel.terms
  BY <1>1, NewTerm, SeenProfile DEF WalkInv
<1>6. IsWalk(kernel.root, path) /\ node = At(kernel.root, path)
  <2>1. FrameWalks(Head(stack))
    BY <1>2 DEF WalkInv, WalksUnderWay
  <2> QED BY <1>2, <2>1 DEF FrameWalks, path, node
<1>7. Len(path) = 0 \/ ~Transform(node)
  <2>1. path # << >> => (Transform(node) => ~stable)
    BY <1>2 DEF FrameFits, path, node
  <2>2. ~(Transform(node) /\ ~stable)
    BY <1>1, <1>2, SplitsAreTransforms
  <2> QED BY <1>3, <2>1, <2>2, PathFacts
<1>8. \A f \in Range(stack') : f \in Range(rest) \/ FrameWalks(f)
  <2>1. ASSUME NEW f \in Range(uses) PROVE FrameWalks(f)
    <3>1. PICK k \in DOMAIN Users : f = Follow(node, Users[k], path)
      BY DEF Range
    <3>2. f.path = path /\ f.node = node
      BY <3>1 DEF Follow
    <3> QED BY <1>6, <1>7, <3>2 DEF FrameWalks
  <2>2. FrameWalks(end)
    BY DEF FrameWalks, Finish
  <2> QED BY <1>4, <2>1, <2>2
<1>9. ASSUME NEW p \in Path, FullWalk(kernel.root, p), Covers(Head(stack), p)
      PROVE  \E f \in Range(stack') : Covers(f, p)
  <2>1. Prefix(path, p) /\ IsWalk(kernel.root, p)
    BY <1>2, <1>9 DEF Covers, FullWalk, path
  <2>2. Len(path) < Len(p)
    <3>1. Len(path) # Len(p)
      <4>1. SUFFICES ASSUME Len(path) = Len(p) PROVE FALSE
        OBVIOUS
      <4>2. p = path
        BY <1>3, <2>1, <4>1, PrefixFacts
      <4> QED BY <1>1, <1>6, <1>7, <1>9, <4>2 DEF FullWalk
    <3> QED BY <1>3, <2>1, <3>1, PrefixFacts
  <2> DEFINE u == p[Len(path) + 1].user
  <2>3. u \in Range(Users)
    BY <1>3, <1>6, <2>1, <2>2, PrefixExtends DEF Users
  <2>4. Follow(node, u, path) \in Range(uses)
    <3>1. PICK k \in DOMAIN Users : Users[k] = u
      BY <2>3 DEF Range
    <3>2. uses[k] = Follow(node, u, path) /\ k \in DOMAIN uses
      BY <3>1
    <3> QED BY <3>2 DEF Range
  <2>5. Covers(Follow(node, u, path), p)
    BY <2>1, <2>2 DEF Covers, Follow
  <2> QED BY <1>4, <2>4, <2>5
<1> HIDE DEF uses, end
<1> QED BY <1>1, <1>2, <1>4, <1>5, <1>8, <1>9, QuietWalk

LEMMA FollowEdgeWalk ==
  ASSUME WalkInv, ProfileInv', FollowEdge
  PROVE  WalkInv'
<1> DEFINE edge == get_edge(graph, node, user)
           needed == Needed(edge)
           present == {n \in needed : HasSavedParam(n)}
           step == [user |-> user, edge |-> edge, exact |-> Exact(edge)]
           next == Visit(user, Append(path, step))
           rest == Tail(stack)
<1>1. CASE Fail
  BY <1>1, FailWalk
<1>2. CASE ~Fail
  <2>1. Running("follow") /\ UNCHANGED << graph, saved, segment, chain >>
    BY <1>2, EdgeFollowed DEF WalkInv, ProfileInv, NextVisit, Present
  <2>2. /\ IndInv /\ kernel # NoKernel /\ IsKernel(kernel) /\ stack # << >> /\ stack \in Seq(Frame)
        /\ rest \in Seq(Frame) /\ Head(stack).do = "follow" /\ FrameFits(Head(stack))
        /\ Range(stack) = {Head(stack)} \cup Range(rest) /\ path \in Path
    BY <2>1, RunningProfile, RunningFacts DEF WalkInv
  <2>3. user \in Range(graph[node].outputs)
    BY <2>2 DEF FrameFits, node, user
  <2>4. step = StepTo(node, user)
    <3>1. needed = NeededAlong(node, user)
      BY DEF Needed, NeededAlong
    <3>2. Exact(edge) = HasItsValues(node, user)
      <4> HIDE DEF edge, user
      <4> QED BY <3>1 DEF Exact, HasItsValues, needed
    <3> QED BY <3>2 DEF StepTo
  <2>5. /\ IsWalk(kernel.root, path) /\ node = At(kernel.root, path)
        /\ Len(path) = 0 \/ ~Transform(node)
    <3>1. FrameWalks(Head(stack))
      BY <2>2 DEF WalkInv, WalksUnderWay
    <3> QED BY <2>2, <3>1 DEF FrameWalks, path, node
  <2>6. IsWalk(kernel.root, Append(path, step)) /\ At(kernel.root, Append(path, step)) = user
    <3> HIDE DEF step
    <3> QED BY <2>2, <2>3, <2>4, <2>5, WalkExtends
  <2>7. kernel'.root = kernel.root /\ kernel'.terms = kernel.terms
    BY <1>2, EdgeFollowed DEF WalkInv, ProfileInv, NextVisit, Present
  <2>8. Range(stack') = {next} \cup Range(rest)
    BY <1>2, EdgeFollowed DEF WalkInv, ProfileInv, NextVisit, Present
  <2>9. next.do = "visit" /\ next.node = user /\ next.path = Append(path, step)
    BY DEF Visit
  <2>10. FrameWalks(next)
    <3> HIDE DEF next
    <3> QED BY <2>6, <2>9 DEF FrameWalks
  <2>11. ASSUME NEW p \in Path, FullWalk(kernel.root, p), Covers(Head(stack), p)
         PROVE  Covers(next, p)
    <3>1. /\ Prefix(path, p) /\ IsWalk(kernel.root, p)
          /\ Len(path) < Len(p) /\ p[Len(path) + 1].user = user
      BY <2>2, <2>11 DEF Covers, FullWalk, path, user
    <3>2. Prefix(Append(path, step), p)
      <4> HIDE DEF step
      <4> QED BY <2>2, <2>4, <2>5, <3>1, PrefixExtends
    <3> HIDE DEF next
    <3> QED BY <2>9, <3>2 DEF Covers
  <2> HIDE DEF next, step, needed, present
  <2> QED BY <2>1, <2>2, <2>7, <2>8, <2>10, <2>11, QuietWalk
<1> QED BY <1>1, <1>2

LEMMA FinishNodeWalk ==
  ASSUME WalkInv, ProfileInv', FinishNode
  PROVE  WalkInv'
<1>1. Running("finish") /\ stack' = Tail(stack) /\ UNCHANGED << graph, saved, kernel, segment, chain >>
  BY DEF FinishNode
<1>2. kernel # NoKernel /\ stack # << >> /\ stack \in Seq(Frame) /\ Head(stack).do = "finish"
  BY <1>1, RunningProfile DEF WalkInv
<1>3. \A p : ~Covers(Head(stack), p)
  BY <1>2 DEF Covers
<1>4. kernel'.root = kernel.root /\ kernel'.terms = kernel.terms
  BY <1>1
<1> QED BY <1>1, <1>2, <1>3, <1>4, QuietWalk

LEMMA WalkInit == Init => WalkInv
<1> SUFFICES ASSUME Init PROVE WalkInv
  OBVIOUS
<1>1. ProfileInv
  BY ProfileInit
<1>2. Range(<< >>) = {}
  BY DEF Range
<1>3. WalksUnderWay /\ WalksAreSummed
  BY <1>2 DEF Init, WalksUnderWay, WalksAreSummed
<1> QED BY <1>1, <1>3 DEF WalkInv

LEMMA WalkNext == WalkInv /\ [Next]_vars => WalkInv'
<1> SUFFICES ASSUME WalkInv, [Next]_vars PROVE WalkInv'
  OBVIOUS
<1>1. ProfileInv'
  BY ProfileNext DEF WalkInv
<1>2. CASE UNCHANGED vars
  BY <1>1, <1>2, LoopWalk DEF vars
<1>3. CASE StartSweep \/ Return \/ SkipRoot
  BY <1>1, <1>3, LoopWalk DEF StartSweep, Return, SkipRoot
<1>4. CASE EndInput
  BY <1>1, <1>4, EndInputWalk
<1>5. CASE StartKernel
  BY <1>1, <1>5, StartKernelWalk
<1>6. CASE FinishKernel
  BY <1>1, <1>6, FinishKernelWalk
<1>7. CASE EvalGrad
  BY <1>1, <1>7, VisitEndWalk, VisitUsersWalk, FollowEdgeWalk, FinishNodeWalk DEF EvalGrad
<1> QED BY <1>2, <1>3, <1>4, <1>5, <1>6, <1>7 DEF Next

\* Every finished kernel adds up a term for each complete walk from its root, and no other: no use
\* of a value is forgotten, however the walks of a kernel share their nodes.
THEOREM KernelsAddUpTheirWalks == Spec => []WalksAreSummed
<1>1. WalkInv => WalksAreSummed
  BY DEF WalkInv
<1> QED BY <1>1, WalkInit, WalkNext, PTL DEF Spec

-----------------------------------------------------------------------------
(***************************************************************************)
(* The chain rule.  A route is what PathsToSinks counts: the edges from a   *)
(* node to an output.  Cut where it first reaches a transform, a route is a *)
(* complete walk, which some term of the kernel stands for, and a route of  *)
(* the node the kernel then loads the gradient of.                         *)
(***************************************************************************)
EdgesAreDistinct == \A u \in Nodes(graph) : IsInjective(graph[u].inputs)
DerivativesHaveTheirValues ==
  \A n \in Nodes(graph) : \A u \in Range(graph[n].outputs) : HasItsValues(n, u)

Steps == [user : Nodes(graph), edge : {1, 2}, exact : {TRUE}]
UsesOf(n) ==
  {s \in Steps : /\ s.edge \in DOMAIN graph[s.user].inputs
                 /\ graph[s.user].inputs[s.edge] = n}

Leads(n, p) == \A i \in 1 .. Len(p) : p[i] \in UsesOf(Before(n, p, i))
IsRoute(n, p) == Leads(n, p) /\ IsSink(graph, At(n, p))
Routes == [n \in Nodes(graph) |-> {p \in Seq(Steps) : IsRoute(n, p)}]

RoutesAlong(f, n) ==
  IF IsSink(graph, n) THEN {<< >>}
  ELSE UNION {{<< s >> \o rest : rest \in f[s.user]} : s \in UsesOf(n)}

LEMMA Concatenated ==
  ASSUME NEW S, NEW p \in Seq(S), NEW q \in Seq(S), NEW n
  PROVE  /\ Len(p) \in Nat /\ Len(q) \in Nat /\ p \o q \in Seq(S)
         /\ Len(p \o q) = Len(p) + Len(q)
         /\ \A i \in 1 .. Len(p) : (p \o q)[i] = p[i]
         /\ \A i \in 1 .. Len(p) : Before(n, p \o q, i) = Before(n, p, i)
         /\ \A i \in 1 .. Len(q) :
              /\ (p \o q)[Len(p) + i] = q[i]
              /\ Before(n, p \o q, Len(p) + i) = Before(At(n, p), q, i)
         /\ At(n, p \o q) = At(At(n, p), q)
<1> DEFINE r == p \o q
           a == Len(p)
           b == Len(q)
<1>1. /\ a \in Nat /\ b \in Nat /\ r \in Seq(S) /\ Len(r) = a + b
      /\ \A i \in 1 .. a : r[i] = p[i]
      /\ \A i \in 1 .. b : r[a + i] = q[i]
  OBVIOUS
<1> HIDE DEF r, a, b
<1>2. \A i \in 1 .. a : Before(n, r, i) = Before(n, p, i)
  <2>1. \A i \in 1 .. a : i = 1 \/ i - 1 \in 1 .. a
    BY <1>1
  <2> QED BY <1>1, <2>1 DEF Before
<1>3. ASSUME NEW i \in 1 .. b + 1 PROVE Before(n, r, a + i) = Before(At(n, p), q, i)
  <2>1. CASE i = 1 /\ a = 0
    <3>1. a + i = 1 /\ a + 1 = 1
      BY <2>1
    <3> QED BY <2>1, <3>1 DEF Before, At, a
  <2>2. CASE i = 1 /\ a # 0
    <3>1. a + i # 1 /\ (a + i) - 1 = a /\ a + 1 # 1 /\ (a + 1) - 1 = a /\ a \in 1 .. a
      BY <1>1, <2>2
    <3>2. Before(n, r, a + i) = p[a].user
      BY <1>1, <3>1 DEF Before
    <3>3. At(n, p) = p[a].user
      BY <3>1 DEF Before, At, a
    <3> QED BY <2>2, <3>2, <3>3 DEF Before
  <2>3. CASE i # 1
    <3>1. a + i # 1 /\ (a + i) - 1 = a + (i - 1) /\ i - 1 \in 1 .. b
      BY <1>1, <2>3
    <3> QED BY <1>1, <2>3, <3>1 DEF Before
  <2> QED BY <2>1, <2>2, <2>3
<1>4. At(n, r) = At(At(n, p), q)
  <2>1. b + 1 \in 1 .. b + 1 /\ Len(r) + 1 = a + (b + 1)
    BY <1>1
  <2>2. Before(n, r, a + (b + 1)) = Before(At(n, p), q, b + 1)
    BY <1>3, <2>1
  <2> QED BY <2>1, <2>2 DEF At, b
<1>5. \A i \in 1 .. b : i \in 1 .. b + 1
  BY <1>1
<1> QED BY <1>1, <1>2, <1>3, <1>4, <1>5 DEF r, a, b

LEMMA RouteConcat ==
  ASSUME NEW p \in Seq(Steps), NEW q \in Seq(Steps), NEW n
  PROVE  IsRoute(n, p \o q) <=> Leads(n, p) /\ IsRoute(At(n, p), q)
<1> DEFINE r == p \o q
           a == Len(p)
           b == Len(q)
           m == At(n, p)
<1>1. /\ a \in Nat /\ b \in Nat /\ Len(r) = a + b
      /\ \A i \in 1 .. a : r[i] = p[i] /\ Before(n, r, i) = Before(n, p, i)
      /\ \A i \in 1 .. b : r[a + i] = q[i] /\ Before(n, r, a + i) = Before(m, q, i)
      /\ At(n, r) = At(m, q)
  <2>1. a \in Nat /\ b \in Nat /\ Len(r) = a + b
    BY Concatenated
  <2>2. \A i \in 1 .. a : r[i] = p[i] /\ Before(n, r, i) = Before(n, p, i)
    <3>1. \A i \in 1 .. a : r[i] = p[i]
      OBVIOUS
    <3>2. \A i \in 1 .. a : i = 1 \/ i - 1 \in 1 .. a
      BY <2>1
    <3> HIDE DEF r, a, b
    <3> QED BY <3>1, <3>2 DEF Before
  <2>3. \A i \in 1 .. b : r[a + i] = q[i] /\ Before(n, r, a + i) = Before(m, q, i)
    BY Concatenated
  <2>4. At(n, r) = At(m, q)
    BY Concatenated
  <2> QED BY <2>1, <2>2, <2>3, <2>4
<1>2. Leads(n, r) <=> Leads(n, p) /\ Leads(m, q)
  <2> HIDE DEF r, a, b, m
  <2> DEFINE F(i) == r[i] \in UsesOf(Before(n, r, i))
  <2>1. \A i \in 1 .. a : F(i) <=> p[i] \in UsesOf(Before(n, p, i))
    BY <1>1
  <2>2. \A i \in 1 .. b : F(a + i) <=> q[i] \in UsesOf(Before(m, q, i))
    BY <1>1
  <2> HIDE DEF F
  <2>3. (\A i \in 1 .. a + b : F(i)) <=> (\A i \in 1 .. a : F(i)) /\ (\A i \in 1 .. b : F(a + i))
    <3>1. \A i \in 1 .. a + b : i \in 1 .. a \/ (i - a \in 1 .. b /\ a + (i - a) = i)
      BY <1>1
    <3>2. (\A i \in 1 .. a : i \in 1 .. a + b) /\ (\A i \in 1 .. b : a + i \in 1 .. a + b)
      BY <1>1
    <3> QED BY <3>1, <3>2
  <2>4. Leads(n, r) <=> \A i \in 1 .. a + b : F(i)
    BY <1>1 DEF Leads, F
  <2>5. (Leads(n, p) <=> \A i \in 1 .. a : F(i)) /\ (Leads(m, q) <=> \A i \in 1 .. b : F(a + i))
    BY <2>1, <2>2 DEF Leads, a, b
  <2> QED BY <2>3, <2>4, <2>5
<1> QED BY <1>1, <1>2 DEF IsRoute

\* A node's uses, and the edges a kernel follows from it.
LEMMA UseFacts ==
  ASSUME IndInv, NEW n \in Nodes(graph)
  PROVE  /\ IsSink(graph, n) => UsesOf(n) = {}
         /\ \A s \in UsesOf(n) : s.user \in Range(graph[n].outputs) /\ s.user \in Nodes(graph)
                                /\ n < s.user
<1>1. IsGraph(graph) /\ OutputsMatchInputs(graph)
  BY NodeFacts DEF Prepared
<1>2. ASSUME NEW s \in UsesOf(n)
      PROVE  s.user \in Range(graph[n].outputs) /\ s.user \in Nodes(graph) /\ n \in Range(graph[s.user].inputs)
  <2>1. /\ s.user \in Nodes(graph) /\ s.edge \in DOMAIN graph[s.user].inputs
        /\ graph[s.user].inputs[s.edge] = n
    BY DEF UsesOf, Steps
  <2>2. n \in Range(graph[s.user].inputs)
    BY <2>1 DEF Range
  <2> QED BY <1>1, <2>1, <2>2, EdgeFacts
<1> QED BY <1>1, <1>2, EdgeFacts, NodeFacts

LEMMA UsesAreSteps ==
  ASSUME IndInv, EdgesAreDistinct, DerivativesHaveTheirValues, NEW n \in Nodes(graph), NEW s
  PROVE  s \in UsesOf(n) <=> s.user \in Range(graph[n].outputs) /\ s = StepTo(n, s.user)
<1> DEFINE u == s.user
           edge == get_edge(graph, n, u)
<1>1. ASSUME u \in Range(graph[n].outputs)
      PROVE  /\ u \in Nodes(graph) /\ edge \in DOMAIN graph[u].inputs /\ graph[u].inputs[edge] = n
             /\ edge \in {1, 2} /\ StepTo(n, u) = [user |-> u, edge |-> edge, exact |-> TRUE]
             /\ \A d \in DOMAIN graph[u].inputs : graph[u].inputs[d] = n => d = edge
  <2>1. /\ u \in Nodes(graph) /\ edge \in DOMAIN graph[u].inputs /\ graph[u].inputs[edge] = n
        /\ DOMAIN graph[u].inputs = 1 .. Op[graph[u].op].arity /\ Op[graph[u].op].arity \in {1, 2}
    BY <1>1, EdgeIsThere
  <2>2. edge \in {1, 2}
    <3> HIDE DEF edge, u
    <3>1. \A a \in {1, 2} : \A e \in 1 .. a : e \in {1, 2}
      OBVIOUS
    <3> QED BY <2>1, <3>1
  <2>3. HasItsValues(n, u) = TRUE
    BY <1>1 DEF DerivativesHaveTheirValues, HasItsValues
  <2>4. StepTo(n, u) = [user |-> u, edge |-> edge, exact |-> TRUE]
    BY <2>3 DEF StepTo
  <2>5. \A d \in DOMAIN graph[u].inputs : graph[u].inputs[d] = n => d = edge
    BY <2>1 DEF EdgesAreDistinct, IsInjective
  <2> QED BY <2>1, <2>2, <2>4, <2>5
<1>2. ASSUME s \in UsesOf(n) PROVE u \in Range(graph[n].outputs) /\ s = StepTo(n, u)
  <2>1. u \in Range(graph[n].outputs)
    BY <1>2, UseFacts
  <2>2. /\ s = [user |-> s.user, edge |-> s.edge, exact |-> s.exact] /\ s.exact = TRUE
        /\ s.edge \in DOMAIN graph[s.user].inputs /\ graph[s.user].inputs[s.edge] = n
    BY <1>2 DEF UsesOf, Steps
  <2> QED BY <1>1, <2>1, <2>2
<1>3. ASSUME u \in Range(graph[n].outputs), s = StepTo(n, u) PROVE s \in UsesOf(n)
  <2>1. /\ s = [user |-> u, edge |-> edge, exact |-> TRUE] /\ u \in Nodes(graph) /\ edge \in {1, 2}
        /\ edge \in DOMAIN graph[u].inputs /\ graph[u].inputs[edge] = n
    BY <1>1, <1>3
  <2>2. s.user = u
    OBVIOUS
  <2> HIDE DEF u, edge
  <2>3. s \in Steps /\ s.edge = edge
    BY <2>1 DEF Steps
  <2> QED BY <2>1, <2>2, <2>3 DEF UsesOf
<1> QED BY <1>2, <1>3

LEMMA OneStep ==
  ASSUME NEW s, NEW n
  PROVE  At(n, << s >>) = s.user /\ (Leads(n, << s >>) <=> s \in UsesOf(n))
<1> DEFINE p == << s >>
<1>1. Len(p) = 1 /\ p[1] = s /\ 1 .. 1 = {1} /\ 1 + 1 # 1 /\ (1 + 1) - 1 = 1
  OBVIOUS
<1> HIDE DEF p
<1>2. At(n, p) = s.user
  BY <1>1 DEF At, Before
<1>3. Leads(n, p) <=> s \in UsesOf(n)
  BY <1>1 DEF Leads, Before
<1> QED BY <1>2, <1>3 DEF p

LEMMA NoStep ==
  ASSUME NEW n
  PROVE  At(n, << >>) = n /\ Leads(n, << >>)
<1> DEFINE p == << >>
<1>1. Len(p) = 0 /\ 0 + 1 = 1 /\ 1 .. 0 = {}
  OBVIOUS
<1> HIDE DEF p
<1>2. At(n, p) = n /\ Leads(n, p)
  BY <1>1 DEF At, Before, Leads
<1> QED BY <1>2 DEF p

LEMMA RoutesSolve ==
  ASSUME IndInv, NEW n \in Nodes(graph)
  PROVE  Routes[n] = RoutesAlong(Routes, n)
<1>1. \A m \in Nodes(graph) : Routes[m] = {p \in Seq(Steps) : IsRoute(m, p)}
  BY DEF Routes
<1>2. \A p \in Seq(Steps) : Len(p) \in Nat /\ (Len(p) = 0 => p = << >>)
  <2> HIDE DEF Steps
  <2> QED BY EmptySeq
<1>3. << >> \in Seq(Steps)
  OBVIOUS
<1>4. CASE IsSink(graph, n)
  <2>1. ASSUME NEW p \in Seq(Steps), IsRoute(n, p) PROVE p = << >>
    <3>1. Len(p) # 0 => p[1] \in UsesOf(n)
      <4>1. Len(p) # 0 => 1 \in 1 .. Len(p)
        BY <1>2
      <4> QED BY <2>1, <4>1 DEF IsRoute, Leads, Before
    <3> QED BY <1>2, <1>4, <3>1, UseFacts
  <2>2. IsRoute(n, << >>)
    BY <1>4, NoStep DEF IsRoute
  <2> QED BY <1>1, <1>3, <1>4, <2>1, <2>2 DEF RoutesAlong
<1>5. CASE ~IsSink(graph, n)
  <2>1. RoutesAlong(Routes, n) = UNION {{<< s >> \o rest : rest \in Routes[s.user]} : s \in UsesOf(n)}
    BY <1>5 DEF RoutesAlong
  <2>2. ASSUME NEW s \in UsesOf(n), NEW rest \in Routes[s.user]
        PROVE  << s >> \o rest \in Routes[n]
    <3>1. s \in Steps /\ s.user \in Nodes(graph) /\ rest \in Seq(Steps) /\ IsRoute(s.user, rest)
      BY <1>1, <2>2, UseFacts DEF UsesOf
    <3>2. << s >> \in Seq(Steps) /\ << s >> \o rest \in Seq(Steps)
      BY <3>1
    <3>3. IsRoute(n, << s >> \o rest)
      <4> DEFINE one == << s >>
      <4>1. At(n, one) = s.user /\ Leads(n, one) /\ one \in Seq(Steps)
        BY <3>2, OneStep
      <4> HIDE DEF one
      <4>2. IsRoute(n, one \o rest)
        BY <3>1, <4>1, RouteConcat
      <4> QED BY <4>2 DEF one
    <3> QED BY <1>1, <3>2, <3>3
  <2>3. ASSUME NEW p \in Routes[n]
        PROVE  \E s \in UsesOf(n) : \E rest \in Routes[s.user] : p = << s >> \o rest
    <3>1. p \in Seq(Steps) /\ IsRoute(n, p)
      BY <1>1
    <3>2. p # << >>
      BY <1>5, <3>1, NoStep DEF IsRoute
    <3> DEFINE s == Head(p)
               rest == Tail(p)
    <3>3. s \in Steps /\ << s >> \in Seq(Steps) /\ rest \in Seq(Steps) /\ p = << s >> \o rest
      <4> HIDE DEF Steps
      <4>1. s \in Steps /\ rest \in Seq(Steps) /\ p = << s >> \o rest
        BY <3>1, <3>2
      <4> QED BY <4>1
    <3> HIDE DEF s, rest
    <3>4. s \in UsesOf(n) /\ IsRoute(s.user, rest)
      BY <3>1, <3>3, OneStep, RouteConcat
    <3>5. rest \in Routes[s.user]
      BY <1>1, <3>3, <3>4, UseFacts
    <3> QED BY <3>3, <3>4, <3>5
  <2> DEFINE V(s) == {<< s >> \o rest : rest \in Routes[s.user]}
             U == UNION {V(s) : s \in UsesOf(n)}
  <2>4. \A x : x \in U <=> \E s \in UsesOf(n) : \E rest \in Routes[s.user] : x = << s >> \o rest
    <3>1. \A s, x : x \in V(s) <=> \E rest \in Routes[s.user] : x = << s >> \o rest
      OBVIOUS
    <3> HIDE DEF V
    <3>2. \A x : x \in U <=> \E s \in UsesOf(n) : x \in V(s)
      OBVIOUS
    <3> HIDE DEF U
    <3>3. ASSUME NEW x PROVE x \in U <=> \E s \in UsesOf(n) : \E rest \in Routes[s.user] : x = << s >> \o rest
      <4>1. \A s : x \in V(s) <=> \E rest \in Routes[s.user] : x = << s >> \o rest
        BY <3>1
      <4> DEFINE W(s) == \E rest \in Routes[s.user] : x = << s >> \o rest
      <4>2. \A s : x \in V(s) <=> W(s)
        BY <4>1
      <4> HIDE DEF W
      <4>3. x \in U <=> \E s \in UsesOf(n) : W(s)
        BY <3>2, <4>2
      <4> QED BY <4>3 DEF W
    <3> QED BY <3>3
  <2>5. RoutesAlong(Routes, n) = U
    BY <2>1
  <2> HIDE DEF V, U, Routes
  <2>6. ASSUME NEW x \in RoutesAlong(Routes, n) PROVE x \in Routes[n]
    <3>0. x \in U
      BY <2>5, <2>6
    <3>1. PICK s \in UsesOf(n) : \E rest \in Routes[s.user] : x = << s >> \o rest
      BY <2>4, <3>0
    <3>2. PICK rest \in Routes[s.user] : x = << s >> \o rest
      BY <3>1
    <3> QED BY <2>2, <3>2
  <2>7. \A x \in Routes[n] : x \in RoutesAlong(Routes, n)
    BY <2>3, <2>4, <2>5
  <2> QED BY <2>6, <2>7
<1> QED BY <1>4, <1>5

\* Every step leads to a larger node, so the routes are determined from the last node down.
LEMMA RoutesAreUnique ==
  ASSUME IndInv, NEW f, \A n \in Nodes(graph) : f[n] = RoutesAlong(f, n)
  PROVE  \A n \in Nodes(graph) : f[n] = Routes[n]
<1> DEFINE L == Len(graph)
           Agree(k) == \A n \in Nodes(graph) : L - n < k => f[n] = Routes[n]
           W == {k \in Nat : Agree(k)}
<1>1. L \in Nat /\ \A n \in Nodes(graph) : n \in Nat /\ n <= L
  BY GraphFacts DEF IndInv, Nodes
<1>2. 0 \in W
  <2> HIDE DEF L
  <2> QED BY <1>1
<1>3. ASSUME NEW k \in W PROVE k + 1 \in W
  <2>1. k \in Nat /\ Agree(k)
    BY <1>3
  <2>2. ASSUME NEW n \in Nodes(graph), L - n < k + 1 PROVE f[n] = Routes[n]
    <3>1. ASSUME NEW s \in UsesOf(n) PROVE f[s.user] = Routes[s.user]
      <4>1. s.user \in Nodes(graph) /\ n < s.user
        BY UseFacts
      <4>2. L - s.user < k
        <5> HIDE DEF L
        <5>1. \A a, b, c \in Nat : \A d \in Nat : a - b < d + 1 /\ b < c => a - c < d
          OBVIOUS
        <5>2. s.user \in Nat /\ n \in Nat
          BY <1>1, <4>1
        <5> QED BY <1>1, <2>1, <2>2, <4>1, <5>1, <5>2
      <4> QED BY <2>1, <4>1, <4>2
    <3>2. RoutesAlong(f, n) = RoutesAlong(Routes, n)
      <4>1. \A s \in UsesOf(n) :
              {<< s >> \o rest : rest \in f[s.user]} = {<< s >> \o rest : rest \in Routes[s.user]}
        BY <3>1
      <4> DEFINE A(s) == {<< s >> \o rest : rest \in f[s.user]}
                 B(s) == {<< s >> \o rest : rest \in Routes[s.user]}
      <4>2. \A s \in UsesOf(n) : A(s) = B(s)
        BY <4>1
      <4>3. /\ RoutesAlong(f, n) = IF IsSink(graph, n) THEN {<< >>} ELSE UNION {A(s) : s \in UsesOf(n)}
            /\ RoutesAlong(Routes, n) =
                 IF IsSink(graph, n) THEN {<< >>} ELSE UNION {B(s) : s \in UsesOf(n)}
        BY DEF RoutesAlong
      <4> HIDE DEF A, B
      <4> QED BY <4>2, <4>3
    <3> QED BY <3>2, RoutesSolve
  <2> HIDE DEF L
  <2> QED BY <2>1, <2>2
<1>4. W = Nat
  <2> HIDE DEF Agree
  <2> QED BY <1>2, <1>3, SetInduction
<1>5. ASSUME NEW n \in Nodes(graph) PROVE f[n] = Routes[n]
  <2>1. Agree(L + 1)
    BY <1>1, <1>4
  <2>2. L - n < L + 1
    <3> HIDE DEF L
    <3> QED BY <1>1
  <2> QED BY <2>1, <2>2
<1> QED BY <1>5

LEMMA PathsAreRoutes ==
  ASSUME IndInv
  PROVE  \A n \in Nodes(graph) : PathsToSinks[n] = Routes[n]
<1> DEFINE Solves(f) == f = [n \in Nodes(graph) |-> RoutesAlong(f, n)]
           g == CHOOSE f : Solves(f)
<1>1. PathsToSinks = g
  BY DEF PathsToSinks, RoutesAlong, UsesOf, Steps
<1>2. Solves(Routes)
  <2>1. Routes = [n \in Nodes(graph) |-> Routes[n]]
    BY DEF Routes
  <2> QED BY <2>1, RoutesSolve
<1>3. Solves(g)
  <2> HIDE DEF Solves
  <2> QED BY <1>2
<1>4. \A n \in Nodes(graph) : g[n] = RoutesAlong(g, n)
  <2> HIDE DEF g
  <2> QED BY <1>3
<1> HIDE DEF g, Solves
<1> QED BY <1>1, <1>4, RoutesAreUnique
LEMMA LeastExists ==
  ASSUME NEW m \in Nat, NEW S \in SUBSET (1 .. m), S # {}
  PROVE  \E x \in S : \A y \in S : x <= y
<1> DEFINE T == {k \in 1 .. m : (m + 1) - k \in S}
<1>1. \A x \in S : x \in 1 .. m /\ (m + 1) - x \in T
  BY SMT
<1>2. PICK k \in T : \A j \in T : j <= k
  <2>1. T \in SUBSET (1 .. m) /\ T # {}
    BY <1>1
  <2> HIDE DEF T
  <2> QED BY <2>1, LargestExists
<1>3. k \in 1 .. m /\ (m + 1) - k \in S
  OBVIOUS
<1>4. \A y \in S : (m + 1) - y <= k
  BY <1>1, <1>2
<1>5. \A y \in S : (m + 1) - k <= y
  <2> HIDE DEF T
  <2> QED BY <1>1, <1>3, <1>4
<1> QED BY <1>3, <1>5

\* With distinct operands and exact derivatives, a walk is the beginning of a route, and the
\* beginning of a route is a walk as long as it goes through no transform.
LEMMA WalksLead ==
  ASSUME IndInv, EdgesAreDistinct, DerivativesHaveTheirValues, NEW root \in Nodes(graph)
  PROVE  /\ \A p \in Path : IsWalk(root, p) =>
              p \in Seq(Steps) /\ Leads(root, p) /\ At(root, p) \in Nodes(graph)
         /\ \A p \in Seq(Steps) :
              Leads(root, p) /\ (\A i \in 1 .. Len(p) : i # 1 => ~Transform(Before(root, p, i))) =>
                p \in Path /\ IsWalk(root, p) /\ At(root, p) \in Nodes(graph)
<1> DEFINE S == [user : Nodes(graph), edge : Edges, exact : BOOLEAN]
<1>1. ASSUME NEW p, Len(p) \in Nat, \A i \in 1 .. Len(p) : p[i].user \in Nodes(graph)
      PROVE  \A i \in 1 .. Len(p) + 1 : Before(root, p, i) \in Nodes(graph)
  <2>1. \A i \in 1 .. Len(p) + 1 : i = 1 \/ i - 1 \in 1 .. Len(p)
    BY <1>1
  <2> QED BY <1>1, <2>1 DEF Before
<1>2. ASSUME NEW p, Len(p) \in Nat, \A i \in 1 .. Len(p) : p[i].user \in Nodes(graph)
      PROVE  At(root, p) \in Nodes(graph) /\ \A i \in 1 .. Len(p) : Before(root, p, i) \in Nodes(graph)
  <2>1. Len(p) + 1 \in 1 .. Len(p) + 1 /\ \A i \in 1 .. Len(p) : i \in 1 .. Len(p) + 1
    BY <1>2
  <2> QED BY <1>1, <1>2, <2>1 DEF At
<1>3. ASSUME NEW p \in Path, IsWalk(root, p)
      PROVE  p \in Seq(Steps) /\ Leads(root, p) /\ At(root, p) \in Nodes(graph)
  <2>1. /\ Len(p) \in Nat /\ \A i \in 1 .. Len(p) : p[i].user \in Nodes(graph)
        /\ p = [i \in 1 .. Len(p) |-> p[i]]
    <3>1. \A q \in Path : q = [i \in DOMAIN q |-> q[i]]
      BY DEF Path
    <3> QED BY <3>1, PathFacts
  <2>2. At(root, p) \in Nodes(graph) /\ \A i \in 1 .. Len(p) : Before(root, p, i) \in Nodes(graph)
    BY <1>2, <2>1
  <2>3. \A i \in 1 .. Len(p) : p[i] \in UsesOf(Before(root, p, i))
    BY <1>3, <2>2, UsesAreSteps DEF IsWalk, StepFits
  <2>4. \A i \in 1 .. Len(p) : p[i] \in Steps
    BY <2>3 DEF UsesOf
  <2>5. p \in Seq(Steps)
    <3> HIDE DEF Steps
    <3> QED BY <2>1, <2>4
  <2> QED BY <2>2, <2>3, <2>5 DEF Leads
<1>4. ASSUME NEW p \in Seq(Steps), Leads(root, p),
             \A i \in 1 .. Len(p) : i # 1 => ~Transform(Before(root, p, i))
      PROVE  p \in Path /\ IsWalk(root, p) /\ At(root, p) \in Nodes(graph)
  <2>1. Len(p) \in Nat /\ p = [i \in 1 .. Len(p) |-> p[i]] /\ \A i \in 1 .. Len(p) : p[i] \in Steps
    <3> HIDE DEF Steps
    <3> QED OBVIOUS
  <2>2. \A i \in 1 .. Len(p) : p[i].user \in Nodes(graph)
    BY <2>1 DEF Steps
  <2>3. At(root, p) \in Nodes(graph) /\ \A i \in 1 .. Len(p) : Before(root, p, i) \in Nodes(graph)
    BY <1>2, <2>1, <2>2
  <2>4. ASSUME NEW i \in 1 .. Len(p)
        PROVE  /\ p[i].user \in Range(graph[Before(root, p, i)].outputs)
               /\ p[i] = StepTo(Before(root, p, i), p[i].user)
    BY <1>4, <2>3, UsesAreSteps DEF Leads
  <2>5. IsWalk(root, p)
    BY <1>4, <2>4 DEF IsWalk, StepFits
  <2>6. ASSUME NEW i \in 1 .. Len(p) PROVE p[i] \in S
    <3> DEFINE n == Before(root, p, i)
               u == p[i].user
               edge == get_edge(graph, n, u)
               x == HasItsValues(n, u)
    <3>1. n \in Nodes(graph) /\ u \in Nodes(graph) /\ p[i] = [user |-> u, edge |-> edge, exact |-> x]
      BY <2>2, <2>3, <2>4 DEF StepTo
    <3>2. edge \in Edges /\ x \in BOOLEAN
      BY <3>1 DEF Edges, HasItsValues
    <3> HIDE DEF n, u, edge, x
    <3> QED BY <3>1, <3>2
  <2>7. p \in Path
    <3> HIDE DEF S
    <3>1. p \in Seq(S)
      BY <2>1, <2>6
    <3> QED BY <3>1 DEF Path, S
  <2> QED BY <2>3, <2>5, <2>7
<1> QED BY <1>3, <1>4

\* A route cut where it first reaches a transform.
LEMMA RouteIsCut ==
  ASSUME IndInv, EdgesAreDistinct, DerivativesHaveTheirValues, NEW root \in Nodes(graph),
         NEW q \in Routes[root]
  PROVE  \E p \in Path : /\ FullWalk(root, p) /\ At(root, p) \in Nodes(graph)
                         /\ \E rest \in Routes[At(root, p)] : q = p \o rest
<1>1. \A m \in Nodes(graph) : Routes[m] = {p \in Seq(Steps) : IsRoute(m, p)}
  BY DEF Routes
<1>2. q \in Seq(Steps) /\ IsRoute(root, q)
  BY <1>1
<1> DEFINE L == Len(q)
<1>3. L \in Nat /\ \A i \in 1 .. L : q[i] \in Steps
  <2> HIDE DEF Steps
  <2> QED BY <1>2
<1>4. CASE L = 0
  <2>1. q = << >> /\ << >> \in Seq(Steps) /\ q = q \o << >>
    <3> HIDE DEF Steps
    <3> QED BY <1>2, <1>4, EmptySeq
  <2>2. q \in Path /\ IsWalk(root, q) /\ At(root, q) = root
    <3>1. \A i \in 1 .. L : FALSE
      BY <1>4
    <3>2. Leads(root, q) /\ At(root, q) = root
      BY <2>1, NoStep
    <3> HIDE DEF L
    <3> QED BY <1>2, <3>1, <3>2, WalksLead DEF L
  <2>3. IsSink(graph, root)
    BY <1>2, <2>2 DEF IsRoute
  <2>4. FullWalk(root, q)
    BY <2>2, <2>3 DEF FullWalk
  <2> QED BY <1>1, <1>2, <2>1, <2>2, <2>4
<1>5. CASE L # 0
  <2> DEFINE C == {i \in 1 .. L : i = L \/ Transform(q[i].user)}
  <2>1. PICK m \in C : \A y \in C : m <= y
    <3>1. C \in SUBSET (1 .. L) /\ L \in C
      BY <1>3, <1>5
    <3> HIDE DEF C, L
    <3> QED BY <1>3, <3>1, LeastExists
  <2>2. m \in 1 .. L /\ (m = L \/ Transform(q[m].user)) /\ \A i \in 1 .. m - 1 : ~Transform(q[i].user)
    <3>1. \A i \in 1 .. m - 1 : i \in 1 .. L /\ ~(m <= i)
      BY <1>3
    <3> QED BY <2>1, <3>1
  <2> HIDE DEF C
  <2> DEFINE p == [i \in 1 .. m |-> q[i]]
             rest == [i \in 1 .. L - m |-> q[m + i]]
  <2>3. p \in Seq(Steps) /\ rest \in Seq(Steps) /\ q = p \o rest /\ Len(p) = m
    <3> HIDE DEF Steps
    <3>1. m \in Nat /\ L - m \in Nat /\ L = m + (L - m)
      BY <1>3, <2>2
    <3>2. (\A i \in 1 .. m : i \in 1 .. L) /\ (\A i \in 1 .. L - m : m + i \in 1 .. L)
      BY <1>3, <2>2
    <3>3. p \in Seq(Steps) /\ rest \in Seq(Steps) /\ Len(p) = m /\ Len(rest) = L - m
      BY <1>3, <3>1, <3>2
    <3>4. /\ p \o rest \in Seq(Steps) /\ Len(p \o rest) = L
          /\ \A i \in 1 .. L : (p \o rest)[i] = IF i <= m THEN p[i] ELSE rest[i - m]
      <4> HIDE DEF p, rest, L
      <4> QED BY <3>1, <3>3
    <3>5. \A i \in 1 .. L : (p \o rest)[i] = q[i]
      <4>1. ASSUME NEW i \in 1 .. L PROVE (p \o rest)[i] = q[i]
        <5>1. CASE i <= m
          <6>1. i \in 1 .. m
            BY <1>3, <2>2, <5>1
          <6>2. p[i] = q[i]
            BY <6>1
          <6> HIDE DEF p, rest, L
          <6> QED BY <3>4, <5>1, <6>2
        <5>2. CASE ~(i <= m)
          <6>1. i - m \in 1 .. L - m /\ m + (i - m) = i
            BY <1>3, <2>2, <5>2
          <6>2. rest[i - m] = q[i]
            BY <6>1
          <6> HIDE DEF p, rest, L
          <6> QED BY <3>4, <5>2, <6>2
        <5> QED BY <5>1, <5>2
      <4> QED BY <4>1
    <3> HIDE DEF p, rest
    <3> DEFINE r == p \o rest
    <3>6. \A s \in Seq(Steps) : s = [i \in 1 .. Len(s) |-> s[i]]
      OBVIOUS
    <3>7. q = r
      <4>1. r \in Seq(Steps) /\ Len(r) = L /\ \A i \in 1 .. L : r[i] = q[i]
        BY <3>4, <3>5
      <4>2. q \in Seq(Steps)
        BY <1>2
      <4> HIDE DEF r
      <4>3. q = [i \in 1 .. L |-> q[i]]
        BY <3>6, <4>2
      <4>4. r = [i \in 1 .. L |-> r[i]]
        BY <3>6, <4>1
      <4> HIDE DEF L
      <4> QED BY <4>1, <4>3, <4>4
    <3> QED BY <3>3, <3>7
  <2>4. \A i \in 1 .. m : p[i] = q[i]
    OBVIOUS
  <2> HIDE DEF p, rest
  <2>5. Leads(root, p) /\ IsRoute(At(root, p), rest) /\ At(root, q) = At(At(root, p), rest)
    BY <1>2, <2>3, RouteConcat, Concatenated
  <2>6. m \in Nat /\ m # 0 /\ m + 1 # 1 /\ (m + 1) - 1 = m /\ m \in 1 .. m
    BY <1>3, <2>2
  <2>7. At(root, p) = q[m].user
    BY <2>3, <2>4, <2>6 DEF At, Before
  <2>8. \A i \in 1 .. Len(p) : i # 1 => ~Transform(Before(root, p, i))
    <3>1. \A i \in 1 .. m : i # 1 => i - 1 \in 1 .. m - 1 /\ i - 1 \in 1 .. m
      BY <2>6
    <3> QED BY <2>2, <2>3, <2>4, <3>1 DEF Before
  <2>9. p \in Path /\ IsWalk(root, p) /\ At(root, p) \in Nodes(graph)
    BY <2>3, <2>5, <2>8, WalksLead
  <2>10. FullWalk(root, p)
    <3>1. CASE Transform(q[m].user)
      BY <2>3, <2>6, <2>7, <2>9, <3>1 DEF FullWalk
    <3>2. CASE m = L
      <4>1. At(root, q) = q[m].user
        BY <2>6, <3>2 DEF At, Before
      <4> QED BY <1>2, <2>7, <2>9, <4>1 DEF FullWalk, IsRoute
    <3> QED BY <2>2, <3>1, <3>2
  <2>11. rest \in Routes[At(root, p)]
    BY <1>1, <2>3, <2>5, <2>9
  <2> QED BY <2>3, <2>9, <2>10, <2>11
<1> QED BY <1>4, <1>5

LEMMA TermsAreRoutes ==
  ASSUME IndInv, EdgesAreDistinct, DerivativesHaveTheirValues, NEW root \in Nodes(graph)
  PROVE  UNION {{t[1] \o rest : rest \in Routes[t[2]]} : t \in Terms(root)} = Routes[root]
<1> DEFINE Sum == UNION {{t[1] \o rest : rest \in Routes[t[2]]} : t \in Terms(root)}
<1>1. \A m \in Nodes(graph) : Routes[m] = {p \in Seq(Steps) : IsRoute(m, p)}
  BY DEF Routes
<1>2. \A x : x \in Sum <=> \E t \in Terms(root) : \E rest \in Routes[t[2]] : x = t[1] \o rest
  OBVIOUS
<1> HIDE DEF Sum
<1>3. \A t : t \in Terms(root) <=> \E p \in Path : FullWalk(root, p) /\ t = << p, At(root, p) >>
  BY DEF Terms
<1>4. ASSUME NEW x \in Sum PROVE x \in Routes[root]
  <2>1. PICK p \in Path : FullWalk(root, p) /\ \E rest \in Routes[At(root, p)] : x = p \o rest
    <3>1. PICK t \in Terms(root) : \E rest \in Routes[t[2]] : x = t[1] \o rest
      BY <1>2
    <3>2. PICK p \in Path : FullWalk(root, p) /\ t = << p, At(root, p) >>
      BY <1>3
    <3>3. t[1] = p /\ t[2] = At(root, p)
      BY <3>2
    <3> QED BY <3>1, <3>2, <3>3
  <2>2. p \in Seq(Steps) /\ Leads(root, p) /\ At(root, p) \in Nodes(graph)
    BY <2>1, WalksLead DEF FullWalk
  <2>3. PICK rest \in Routes[At(root, p)] : x = p \o rest
    BY <2>1
  <2>4. rest \in Seq(Steps) /\ IsRoute(At(root, p), rest)
    BY <1>1, <2>2
  <2>5. p \o rest \in Seq(Steps) /\ IsRoute(root, p \o rest)
    BY <2>2, <2>4, RouteConcat, Concatenated
  <2> QED BY <1>1, <2>3, <2>5
<1>5. ASSUME NEW x \in Routes[root] PROVE x \in Sum
  <2>1. PICK p \in Path : FullWalk(root, p) /\ \E rest \in Routes[At(root, p)] : x = p \o rest
    BY RouteIsCut
  <2> DEFINE t == << p, At(root, p) >>
  <2>2. t \in Terms(root) /\ t[1] = p /\ t[2] = At(root, p)
    BY <1>3, <2>1
  <2> HIDE DEF t
  <2> QED BY <1>2, <2>1, <2>2
<1>6. Sum = Routes[root]
  <2> HIDE DEF Routes
  <2> QED BY <1>4, <1>5
<1> QED BY <1>6 DEF Sum

\* The chain rule: when no node uses another twice and every value a derivative reads is an input
\* or kept, a kernel adds up, for its root, exactly one term for every path to an output, once
\* the gradients that it loads are complete.
THEOREM GradientsFollowTheChainRule ==
  Spec => [](EdgesAreDistinct /\ DerivativesHaveTheirValues => GradientsAreComplete)
<1>1. WalkInv => (EdgesAreDistinct /\ DerivativesHaveTheirValues => GradientsAreComplete)
  <2> SUFFICES ASSUME WalkInv, EdgesAreDistinct, DerivativesHaveTheirValues, NEW i \in DOMAIN segment
               PROVE  LET k == segment[i].kernel
                      IN  UNION {{t[1] \o rest : rest \in PathsToSinks[t[2]]} : t \in k.terms} =
                            PathsToSinks[k.root]
    BY DEF GradientsAreComplete, KernelsOf
  <2> DEFINE root == segment[i].kernel.root
  <2>1. IndInv /\ root \in Nodes(graph) /\ segment[i].kernel.terms = Terms(root)
    BY DEF WalkInv, ProfileInv, KernelsAreComplete, Complete, WalksAreSummed, Range
  <2> HIDE DEF root
  <2>2. \A t \in Terms(root) : t[2] \in Nodes(graph)
    <3>1. ASSUME NEW p \in Path, FullWalk(root, p) PROVE << p, At(root, p) >>[2] \in Nodes(graph)
      BY <2>1, <3>1, WalksLead DEF FullWalk
    <3> QED BY <3>1 DEF Terms
  <2> DEFINE A(t) == {t[1] \o rest : rest \in PathsToSinks[t[2]]}
             B(t) == {t[1] \o rest : rest \in Routes[t[2]]}
  <2>3. \A t \in Terms(root) : A(t) = B(t)
    <3>1. \A t \in Terms(root) : PathsToSinks[t[2]] = Routes[t[2]]
      BY <2>1, <2>2, PathsAreRoutes
    <3> QED BY <3>1
  <2>4. UNION {B(t) : t \in Terms(root)} = PathsToSinks[root]
    BY <2>1, PathsAreRoutes, TermsAreRoutes
  <2>5. UNION {A(t) : t \in Terms(root)} = PathsToSinks[root]
    <3> HIDE DEF A, B
    <3> QED BY <2>3, <2>4
  <2> QED BY <2>1, <2>5 DEF root
<1> QED BY <1>1, WalkInit, WalkNext, PTL DEF Spec

-----------------------------------------------------------------------------
(***************************************************************************)
(* Levelled graphs.  The roots of one sweep then have the same level: a     *)
(* kernel ends at transforms one level below its root or, from level 0, at  *)
(* outputs.  So an output that is no transform is never a root beside a     *)
(* root that keeps the sweeps going, and whatever a kernel loads the        *)
(* gradient of gets its kernel in a later sweep, which makes it a           *)
(* dependency.                                                             *)
(***************************************************************************)
Bare(n) == IsSink(graph, n) /\ ~Transform(n)
Open(n) == ~IsSink(graph, n)

\* What a sweep over root a leaves for the next one.
Under(lev, a, r) == (Open(r) => lev[a] = lev[r] + 1) /\ (Bare(r) => lev[a] = 0)

SweepIsLevel(lev) ==
  /\ \A a \in Range(todo) : ~Bare(a)
  /\ \A a, b \in Range(todo) : Open(a) /\ Open(b) => lev[a] = lev[b]
  /\ \A a \in Range(todo), r \in Range(roots) : Open(a) => Under(lev, a, r)
  /\ \A r, s \in Range(roots) : Open(r) => ~Bare(s) /\ (Open(s) => lev[r] = lev[s])
  /\ \A n \in Range(todo) \cup Range(roots), m \in Nodes(graph) :
       Open(n) /\ Open(m) /\ Rooted(m) => lev[n] <= lev[m]

\* What the kernel of a root gets to.
Reaches(lev, root, v) ==
  \/ v = root
  \/ Open(root) /\ IsSink(graph, v) /\ Transform(v)
  \/ Open(root) /\ lev[root] = lev[v] + (IF Transform(v) THEN 1 ELSE 0)

FrameIsLevel(lev, f) ==
  /\ f.do = "visit" => Reaches(lev, kernel.root, f.node)
  /\ f.do = "follow" => f.node = kernel.root \/ (Reaches(lev, kernel.root, f.node) /\ ~Transform(f.node))

KernelIsLevel(lev) ==
  kernel # NoKernel =>
    /\ \A f \in Range(stack) : FrameIsLevel(lev, f)
    /\ \A v \in Range(visited) : Reaches(lev, kernel.root, v)
    /\ \A n \in Nodes(graph) :
         Grad(n) \in kernel.reads => Open(kernel.root) /\ lev[kernel.root] = lev[n] + 1

\* A kernel depends on the kernels whose gradients it loads.
LoadsAreDeps ==
  /\ \A e \in Range(chain) : \A n \in Nodes(graph) : Grad(n) \in e.kernel.reads => n \in e.dep
  /\ \A i \in DOMAIN segment : \A n \in Nodes(graph) :
       Grad(n) \in segment[i].kernel.reads /\ Rooted(n) => n \in segment[i].dep

LevelAt(lev) ==
  /\ lev \in [Nodes(graph) -> Nat] /\ Levelling(graph, lev)
  /\ SweepIsLevel(lev) /\ KernelIsLevel(lev) /\ LoadsAreDeps

LevelInv ==
  /\ ProfileInv
  /\ \A lev \in [Nodes(graph) -> Nat] : Levelling(graph, lev) => LevelAt(lev)

LEMMA LevelFacts ==
  ASSUME ProfileInv, NEW lev \in [Nodes(graph) -> Nat], Levelling(graph, lev), NEW n \in Nodes(graph)
  PROVE  /\ lev[n] \in Nat
         /\ Bare(n) => lev[n] = 0
         /\ \A u \in Range(graph[n].outputs) :
              (IsSink(graph, u) /\ Transform(u)) \/ lev[n] = lev[u] + (IF Transform(u) THEN 1 ELSE 0)
<1>1. IndInv
  BY DEF ProfileInv
<1>2. Bare(n) => lev[n] = 0
  BY DEF Levelling, Bare, Transform
<1>3. ASSUME NEW u \in Range(graph[n].outputs), ~(IsSink(graph, u) /\ Transform(u))
      PROVE  lev[n] = lev[u] + (IF Transform(u) THEN 1 ELSE 0)
  <2>1. u \in Nodes(graph) /\ n \in Range(graph[u].inputs)
    BY <1>1, NodeFacts
  <2>2. PICK p \in DOMAIN graph[u].inputs : graph[u].inputs[p] = n
    BY <2>1 DEF Range
  <2> QED BY <1>3, <2>1, <2>2 DEF Levelling, Transform
<1> QED BY <1>2, <1>3

LEMMA SameLevels ==
  ASSUME graph' = graph, saved' = saved
  PROVE  /\ \A n : (Bare(n)' <=> Bare(n)) /\ (Open(n)' <=> Open(n))
         /\ \A lev, a, r : Under(lev, a, r)' <=> Under(lev, a, r)
         /\ \A lev, root, v : Reaches(lev, root, v)' <=> Reaches(lev, root, v)
<1>1. \A n : (Transform(n)' <=> Transform(n)) /\ (IsSink(graph, n)' <=> IsSink(graph, n))
  BY SameGraph
<1>2. \A n : (Bare(n)' <=> Bare(n)) /\ (Open(n)' <=> Open(n))
  BY <1>1 DEF Bare, Open
<1>3. \A lev, a, r : Under(lev, a, r)' <=> Under(lev, a, r)
  BY <1>2 DEF Under
<1>4. \A lev, root, v : Reaches(lev, root, v)' <=> Reaches(lev, root, v)
  <2>1. \A v : (IF Transform(v) THEN 1 ELSE 0)' = IF Transform(v) THEN 1 ELSE 0
    BY <1>1
  <2> QED BY <1>1, <1>2, <2>1 DEF Reaches
<1> QED BY <1>2, <1>3, <1>4

\* Between two evaluations.
LEMMA LoopLevel ==
  ASSUME ProfileInv, NEW lev, LevelAt(lev),
         UNCHANGED << graph, saved, segment, chain >>,
         SweepIsLevel(lev)', KernelIsLevel(lev)'
  PROVE  LevelAt(lev)'
<1>1. \A n : Rooted(n)' <=> Rooted(n)
  BY DEF Rooted
<1>2. LoadsAreDeps'
  BY <1>1 DEF LevelAt, LoadsAreDeps, Grad
<1> QED BY <1>2 DEF LevelAt

LEMMA QuietLevel ==
  ASSUME ProfileInv, NEW lev, LevelAt(lev),
         UNCHANGED << graph, saved, kernel, stack, visited, segment, chain >>,
         Range(roots') = Range(roots), Range(todo') \subseteq Range(todo)
  PROVE  LevelAt(lev)'
<1>1. \A n : Rooted(n)' <=> Rooted(n)
  BY DEF Rooted
<1>2. SweepIsLevel(lev)'
  BY <1>1, SameLevels DEF LevelAt, SweepIsLevel
<1>3. KernelIsLevel(lev)'
  BY SameLevels, SameGraph DEF LevelAt, KernelIsLevel, FrameIsLevel, NoKernel, Grad
<1> QED BY <1>2, <1>3, LoopLevel

LEMMA StartSweepLevel ==
  ASSUME ProfileInv, NEW lev, LevelAt(lev), StartSweep
  PROVE  LevelAt(lev)'
<1>1. /\ kernel = NoKernel /\ SweepNeeded /\ todo' = roots /\ roots' = << >>
      /\ UNCHANGED << graph, saved, kernel, stack, visited, segment, chain >>
  BY DEF StartSweep, BetweenKernels
<1>2. Range(roots') = {}
  BY <1>1 DEF Range
<1>3. PICK r \in Range(roots) : Open(r)
  BY <1>1 DEF SweepNeeded, Open
<1>4. \A n : Rooted(n)' <=> Rooted(n)
  BY <1>1 DEF Rooted
<1>5. SweepIsLevel(lev)'
  BY <1>1, <1>2, <1>3, <1>4, SameLevels DEF LevelAt, SweepIsLevel
<1>6. KernelIsLevel(lev)'
  BY <1>1 DEF KernelIsLevel
<1> QED BY <1>1, <1>5, <1>6, LoopLevel

LEMMA StartKernelLevel ==
  ASSUME ProfileInv, NEW lev, LevelAt(lev), StartKernel
  PROVE  LevelAt(lev)'
<1> DEFINE root == Head(todo)
           first == Visit(root, << >>)
<1>1. /\ kernel' = NewKernel(graph, root) /\ stack' = << first >> /\ visited' = << >>
      /\ UNCHANGED << graph, saved, roots, todo, segment, chain >>
  BY DEF StartKernel
<1>2. kernel'.root = root /\ kernel'.reads = {} /\ Range(visited') = {} /\ Range(stack') = {first}
  BY <1>1 DEF NewKernel, Range
<1>3. \A n : Rooted(n)' <=> Rooted(n)
  BY <1>1 DEF Rooted
<1>4. SweepIsLevel(lev)'
  BY <1>1, <1>3, SameLevels DEF LevelAt, SweepIsLevel
<1>5. KernelIsLevel(lev)'
  <2>1. \A f : f = first => f.do = "visit" /\ f.node = root
    BY DEF Visit
  <2>2. \A f : f.do = "visit" /\ f.node = root => FrameIsLevel(lev, f)'
    BY <1>2 DEF FrameIsLevel, Reaches
  <2>3. \A f \in Range(stack') : FrameIsLevel(lev, f)'
    <3> HIDE DEF first
    <3> QED BY <1>2, <2>1, <2>2
  <2> QED BY <1>2, <2>3 DEF KernelIsLevel
<1> QED BY <1>1, <1>4, <1>5, LoopLevel

LEMMA EndInputLevel ==
  ASSUME ProfileInv, ProfileInv', NEW lev, LevelAt(lev), EndInput
  PROVE  LevelAt(lev)'
<1>1. /\ kernel = NoKernel /\ inputs # << >> /\ todo = << >> /\ ~SweepNeeded
      /\ chain' = chain \o segment /\ segment' = << >> /\ roots' = FirstOf(inputs')
      /\ inputs' = Tail(inputs)
      /\ UNCHANGED << graph, saved, todo, kernel, stack, visited >>
  BY DEF EndInput, BetweenKernels
<1>2. Range(<< >>) = {} /\ \A x : Range(<< x >>) = {x}
  BY DEF Range
<1>3. Range(chain') = Range(chain) \cup Range(segment)
  <2> DEFINE S == Range(chain) \cup Range(segment)
  <2>1. chain \in Seq(S) /\ segment \in Seq(S)
    <3>1. chain \in Seq(Range(chain)) /\ segment \in Seq(Range(segment))
      BY DEF ProfileInv, KernelsAreComplete, IndInv, ListSoFar
    <3>2. \A A, B : Seq(A) \subseteq Seq(A \cup B) /\ Seq(B) \subseteq Seq(A \cup B)
      OBVIOUS
    <3> QED BY <3>1, <3>2
  <2> HIDE DEF S
  <2> QED BY <1>1, <2>1, RangeConcat
<1>4. \A n : ~Rooted(n)'
  BY <1>1 DEF Rooted
<1>5. \A r, s \in Range(roots') : r = s
  BY <1>1, <1>2 DEF FirstOf
<1>6. SweepIsLevel(lev)'
  <2>1. \A n : ~(Open(n) /\ Bare(n))'
    BY DEF Open, Bare
  <2> QED BY <1>1, <1>2, <1>4, <1>5, <2>1 DEF SweepIsLevel
<1>7. KernelIsLevel(lev)'
  BY <1>1 DEF KernelIsLevel
<1>8. LoadsAreDeps'
  <2>1. ASSUME NEW e \in Range(segment), NEW n \in Nodes(graph), Grad(n) \in e.kernel.reads
        PROVE  n \in e.dep
    <3>1. PICK i \in DOMAIN segment : segment[i] = e
      BY DEF Range
    <3>2. Open(n)
      <4>1. Loadable(Grad(n), e.kernel.root)
        BY <2>1 DEF ProfileInv, KernelsAreComplete, Complete
      <4> QED BY <4>1 DEF Loadable, Grad, Seed, In, Saved, Open
    <3>3. Rooted(n)
      <4>1. Grad(n) \in ReadBy(segment)
        BY <2>1, <3>1 DEF ReadBy, KernelsOf
      <4> QED BY <1>1, <1>2, <3>2, <4>1 DEF ProfileInv, SplitsAreAhead, Ahead, SweepNeeded, Open
    <3> QED BY <2>1, <3>1, <3>3 DEF LevelAt, LoadsAreDeps
  <2>2. \A n : Grad(n)' = Grad(n)
    BY DEF Grad
  <2> QED BY <1>1, <1>3, <1>4, <2>1, <2>2 DEF LevelAt, LoadsAreDeps
<1> QED BY <1>1, <1>6, <1>7, <1>8 DEF LevelAt

LEMMA FinishKernelLevel ==
  ASSUME ProfileInv, NEW lev, LevelAt(lev), FinishKernel, ~Fail
  PROVE  LevelAt(lev)'
<1> DEFINE root == kernel.root
           n == Len(segment)
           fresh == Nodes(graph) \ (Range(roots) \cup Range(resolved) \cup {root})
<1>0. ~(StoresGradient(root) /\ ~HasGradParam(root))
  BY DEF FinishKernel
<1>1. /\ kernel # NoKernel /\ kernel' = NoKernel
      /\ UNCHANGED << graph, saved, chain >>
      /\ root \in Nodes(graph) /\ Range(todo) = {root} \cup Range(todo')
  BY <1>0, KernelAdded
<1>2. /\ Stored.root = root /\ Stored.reads = kernel.reads
      /\ n \in Nat /\ DOMAIN segment = 1 .. n /\ DOMAIN segment' = 1 .. n + 1
      /\ segment'[n + 1].kernel = Stored
      /\ \A i \in 1 .. n : segment'[i].kernel = segment[i].kernel
      /\ \A i \in 1 .. n + 1 : i = n + 1 \/ i \in 1 .. n
  BY <1>0, KernelAdded
<1>3. Range(roots') = Range(roots) \cup (Range(visited) \cap fresh)
  BY <1>0, KernelAdded
<1>4. \A m : Rooted(m)' <=> Rooted(m) \/ m = root
  BY <1>0, KernelAdded
<1>5. \A m \in Range(visited) : m \in Range(resolved) \/ Ends(m)
  BY <1>0, KernelAdded
<1>6. Range(roots) \subseteq Nodes(graph) /\ Range(todo) \subseteq Nodes(graph)
      /\ Range(visited) \subseteq Nodes(graph)
  BY RangesAreNodes DEF ProfileInv
<1>7. /\ \A m \in Nodes(graph) : lev[m] \in Nat /\ (Bare(m) => lev[m] = 0)
  BY LevelFacts DEF LevelAt
<1> HIDE DEF root, n
<1>8. ASSUME NEW v \in Range(roots'), v \notin Range(roots)
      PROVE  Open(root) /\ Under(lev, root, v)
  <2>1. v \in Range(visited) /\ v # root /\ Ends(v)
    BY <1>3, <1>5, <1>8
  <2>2. Reaches(lev, root, v)
    BY <1>1, <2>1 DEF LevelAt, KernelIsLevel, root
  <2>3. Open(v) => Transform(v)
    BY <2>1 DEF Ends, Open
  <2> QED BY <1>6, <1>7, <2>1, <2>2, <2>3 DEF Reaches, Under, Open, Bare
<1>9. Open(root) => \A v \in Range(roots') : Under(lev, root, v)
  BY <1>1, <1>8 DEF LevelAt, SweepIsLevel
<1>10. ~Open(root) => Range(roots') = Range(roots)
  BY <1>3, <1>8
<1>11. Range(roots') \subseteq Nodes(graph)
  BY <1>3, <1>6
<1>12. SweepIsLevel(lev)'
  <2>1. \A a \in Range(todo') : ~Bare(a)
    BY <1>1 DEF LevelAt, SweepIsLevel
  <2>2. \A a, b \in Range(todo') : Open(a) /\ Open(b) => lev[a] = lev[b]
    BY <1>1 DEF LevelAt, SweepIsLevel
  <2>3. ASSUME NEW a \in Range(todo'), NEW r \in Range(roots'), Open(a) PROVE Under(lev, a, r)
    <3>1. CASE Open(root)
      <4>1. lev[a] = lev[root]
        BY <1>1, <2>3, <3>1 DEF LevelAt, SweepIsLevel
      <4> QED BY <1>9, <3>1, <4>1 DEF Under
    <3>2. CASE ~Open(root)
      BY <1>1, <1>10, <2>3, <3>2 DEF LevelAt, SweepIsLevel
    <3> QED BY <3>1, <3>2
  <2>4. ASSUME NEW r \in Range(roots'), NEW s \in Range(roots'), Open(r)
        PROVE  ~Bare(s) /\ (Open(s) => lev[r] = lev[s])
    <3>1. CASE Open(root)
      <4>1. lev[root] = lev[r] + 1 /\ lev[r] \in Nat /\ lev[root] \in Nat
        BY <1>1, <1>7, <1>9, <1>11, <2>4, <3>1 DEF Under
      <4>2. lev[root] # 0 /\ (Open(s) => lev[s] \in Nat)
        BY <1>7, <1>11, <4>1
      <4> QED BY <1>9, <3>1, <4>1, <4>2 DEF Under
    <3>2. CASE ~Open(root)
      BY <1>10, <2>4, <3>2 DEF LevelAt, SweepIsLevel
    <3> QED BY <3>1, <3>2
  <2>5. ASSUME NEW x \in Range(todo') \cup Range(roots'), NEW m \in Nodes(graph),
               Open(x), Open(m), Rooted(m) \/ m = root
        PROVE  lev[x] <= lev[m]
    <3>1. x \in Nodes(graph) /\ lev[x] \in Nat /\ lev[m] \in Nat /\ lev[root] \in Nat
      BY <1>1, <1>6, <1>7, <1>11
    <3>2. CASE x \in Range(roots)
      <4>1. Rooted(m) => lev[x] <= lev[m]
        BY <2>5, <3>2 DEF LevelAt, SweepIsLevel
      <4>2. m = root => lev[m] = lev[x] + 1
        BY <1>1, <2>5, <3>2 DEF LevelAt, SweepIsLevel, Under
      <4> QED BY <2>5, <3>1, <4>1, <4>2
    <3>3. CASE x \in Range(todo')
      <4>1. Rooted(m) => lev[x] <= lev[m]
        BY <1>1, <2>5, <3>3 DEF LevelAt, SweepIsLevel
      <4>2. m = root => lev[m] = lev[x]
        BY <1>1, <2>5, <3>3 DEF LevelAt, SweepIsLevel
      <4> QED BY <2>5, <3>1, <4>1, <4>2
    <3>4. CASE x \in Range(roots') /\ x \notin Range(roots)
      <4>1. Open(root) /\ lev[root] = lev[x] + 1
        BY <1>8, <2>5, <3>4 DEF Under
      <4>2. Rooted(m) => lev[root] <= lev[m]
        BY <1>1, <2>5, <4>1 DEF LevelAt, SweepIsLevel
      <4> QED BY <2>5, <3>1, <4>1, <4>2
    <3> QED BY <2>5, <3>2, <3>3, <3>4
  <2> QED BY <1>1, <1>4, <2>1, <2>2, <2>3, <2>4, <2>5, SameLevels, SameGraph DEF SweepIsLevel
<1>13. KernelIsLevel(lev)'
  BY <1>1 DEF KernelIsLevel
<1>14. ASSUME NEW i \in 1 .. n + 1, NEW m \in Nodes(graph), Grad(m) \in segment'[i].kernel.reads,
              Rooted(m) \/ m = root
       PROVE  m \in segment'[i].dep
  <2>1. CASE i \in 1 .. n
    <3>1. Grad(m) \in segment[i].kernel.reads
      BY <1>2, <1>14, <2>1
    <3>2. segment'[i].dep = segment[i].dep \cup (IF segment[i].kernel.root < root THEN {root} ELSE {})
      BY <1>0, <2>1, SegmentGrows DEF ProfileInv, root, n
    <3>3. CASE Rooted(m)
      BY <1>2, <2>1, <3>1, <3>2, <3>3 DEF LevelAt, LoadsAreDeps
    <3>4. CASE m = root
      <4>1. Loadable(Grad(m), segment[i].kernel.root)
        BY <1>2, <2>1, <3>1 DEF ProfileInv, KernelsAreComplete, Complete, Range
      <4>2. segment[i].kernel.root < m
        BY <4>1 DEF Loadable, Grad, Seed, In, Saved
      <4> QED BY <3>2, <3>4, <4>2
    <3> QED BY <1>14, <3>3, <3>4
  <2>2. CASE i = n + 1
    <3>1. Grad(m) \in kernel.reads
      BY <1>2, <1>14, <2>2
    <3>2. Open(root) /\ lev[root] = lev[m] + 1
      BY <1>1, <3>1 DEF LevelAt, KernelIsLevel, root
    <3>3. Open(m) /\ m # root
      <4>1. Loadable(Grad(m), root)
        BY <1>1, <3>1 DEF ProfileInv, KernelsAreComplete, root
      <4>2. root < m /\ Open(m)
        BY <4>1 DEF Loadable, Grad, Seed, In, Saved, Open
      <4>3. root \in Nat
        BY <1>1, NodeFacts DEF ProfileInv
      <4> QED BY <4>2, <4>3
    <3>4. lev[root] <= lev[m]
      BY <1>1, <1>14, <3>2, <3>3 DEF LevelAt, SweepIsLevel
    <3>5. lev[m] \in Nat
      BY <1>7
    <3> QED BY <3>2, <3>4, <3>5
  <2> QED BY <1>2, <2>1, <2>2
<1>15. LoadsAreDeps'
  <2>1. \A m : Grad(m)' = Grad(m)
    BY DEF Grad
  <2> QED BY <1>1, <1>2, <1>4, <1>14, <2>1 DEF LevelAt, LoadsAreDeps
<1> QED BY <1>1, <1>12, <1>13, <1>15 DEF LevelAt

\* A step of an evaluation.
LEMMA EvalLevel ==
  ASSUME ProfileInv, NEW lev, LevelAt(lev), kernel # NoKernel,
         UNCHANGED << graph, saved, roots, todo, segment, chain >>,
         kernel'.root = kernel.root,
         \A f \in Range(stack') : f \in Range(stack) \/ FrameIsLevel(lev, f),
         \A v \in Range(visited') : v \in Range(visited) \/ Reaches(lev, kernel.root, v),
         \A n \in Nodes(graph) :
           Grad(n) \in kernel'.reads =>
             \/ Grad(n) \in kernel.reads
             \/ Open(kernel.root) /\ lev[kernel.root] = lev[n] + 1
  PROVE  LevelAt(lev)'
<1>1. \A n : Rooted(n)' <=> Rooted(n)
  BY DEF Rooted
<1>2. SweepIsLevel(lev)'
  BY <1>1, SameLevels DEF LevelAt, SweepIsLevel
<1>3. \A f : FrameIsLevel(lev, f)' <=> FrameIsLevel(lev, f)
  BY SameLevels, SameGraph DEF FrameIsLevel
<1>4. \A n : Grad(n)' = Grad(n)
  BY DEF Grad
<1>5. KernelIsLevel(lev)'
  BY <1>3, <1>4, SameLevels DEF LevelAt, KernelIsLevel
<1> QED BY <1>2, <1>5, LoopLevel

LEMMA VisitEndLevel ==
  ASSUME ProfileInv, NEW lev, LevelAt(lev), VisitSink \/ VisitSplit, ~Fail
  PROVE  LevelAt(lev)'
<1>1. /\ Running("visit")
      /\ stack' = Tail(stack) /\ visited' = Visited
      /\ UNCHANGED << graph, saved, roots, todo, segment, chain >>
  BY DEF VisitSink, VisitSplit
<1>2. /\ IndInv /\ kernel # NoKernel /\ node \in Nodes(graph) /\ kernel.root \in Nodes(graph)
      /\ FrameFits(Head(stack)) /\ Head(stack).do = "visit"
      /\ Range(stack) = {Head(stack)} \cup Range(Tail(stack))
  BY <1>1, RunningProfile
<1>3. Range(visited') = Range(visited) \cup {node}
  BY <1>1, SeenProfile
<1>4. Reaches(lev, kernel.root, node)
  BY <1>2 DEF LevelAt, KernelIsLevel, FrameIsLevel, node
<1>5. CASE VisitSink
  <2>1. kernel' = AddTerm(Seed)
    BY <1>5 DEF VisitSink
  <2>2. kernel'.root = kernel.root /\ kernel'.reads \subseteq kernel.reads \cup {Seed}
    BY <1>1, <2>1, TermProfile
  <2>3. \A n : Seed # Grad(n)
    BY DEF Seed, Grad
  <2> QED BY <1>1, <1>2, <1>3, <1>4, <2>2, <2>3, EvalLevel
<1>6. CASE VisitSplit
  <2>1. kernel' = AddTerm(Grad(node)) /\ MustSplit /\ ~IsSink(graph, node)
    BY <1>6 DEF VisitSplit
  <2>2. kernel'.root = kernel.root /\ kernel'.reads \subseteq kernel.reads \cup {Grad(node)}
    BY <1>1, <2>1, TermProfile
  <2>3. \A n : Grad(node) = Grad(n) => n = node
    BY DEF Grad
  <2>4. Transform(node) /\ ~stable
    BY <1>2, <2>1, SplitsAreTransforms
  <2>5. node # kernel.root
    <3>1. kernel.root < node
      BY <1>2, <2>4 DEF FrameFits, node
    <3>2. kernel.root \in Nat
      BY <1>2, NodeFacts
    <3> QED BY <3>1, <3>2
  <2>6. Open(kernel.root) /\ lev[kernel.root] = lev[node] + 1
    BY <1>4, <2>1, <2>4, <2>5 DEF Reaches, Open
  <2> HIDE DEF node
  <2> QED BY <1>1, <1>2, <1>3, <1>4, <2>2, <2>3, <2>6, EvalLevel
<1> QED BY <1>5, <1>6

LEMMA VisitUsersLevel ==
  ASSUME ProfileInv, NEW lev, LevelAt(lev), VisitUsers
  PROVE  LevelAt(lev)'
<1> DEFINE uses == [k \in DOMAIN Users |-> Follow(node, Users[k], path)]
           end == Finish(node)
           rest == Tail(stack)
<1>1. /\ Running("visit") /\ ~IsSink(graph, node) /\ ~MustSplit
      /\ kernel' = Seen /\ stack' = uses \o << end >> \o rest /\ visited' = Visited
      /\ UNCHANGED << graph, saved, roots, todo, segment, chain >>
  BY DEF VisitUsers
<1>2. /\ IndInv /\ kernel # NoKernel /\ node \in Nodes(graph)
      /\ FrameFits(Head(stack)) /\ Head(stack).do = "visit"
      /\ Range(stack) = {Head(stack)} \cup Range(rest)
  BY <1>1, RunningProfile
<1>3. Range(stack') = Range(uses) \cup {end} \cup Range(rest)
  BY <1>1, UsersPushed
<1>4. Range(visited') = Range(visited) \cup {node} /\ kernel'.root = kernel.root
      /\ kernel'.reads = kernel.reads
  BY <1>1, SeenProfile
<1>5. Reaches(lev, kernel.root, node)
  BY <1>2 DEF LevelAt, KernelIsLevel, FrameIsLevel, node
<1>6. node = kernel.root \/ ~Transform(node)
  <2>1. node # kernel.root => (Transform(node) => ~stable)
    BY <1>2 DEF FrameFits, node
  <2> QED BY <1>1, <1>2, <2>1, SplitsAreTransforms
<1>7. \A f \in Range(uses) : FrameIsLevel(lev, f)
  <2>1. ASSUME NEW f \in Range(uses) PROVE FrameIsLevel(lev, f)
    <3>1. PICK k \in DOMAIN Users : f = Follow(node, Users[k], path)
      BY DEF Range
    <3>2. f.do = "follow" /\ f.node = node
      BY <3>1 DEF Follow
    <3> QED BY <1>5, <1>6, <3>2 DEF FrameIsLevel
  <2> QED BY <2>1
<1>8. FrameIsLevel(lev, end)
  BY DEF FrameIsLevel, Finish
<1> HIDE DEF uses, end, rest
<1> QED BY <1>1, <1>2, <1>3, <1>4, <1>5, <1>7, <1>8, EvalLevel

LEMMA FollowEdgeLevel ==
  ASSUME ProfileInv, IndInv', NEW lev, LevelAt(lev), FollowEdge, ~Fail
  PROVE  LevelAt(lev)'
<1>1. /\ Running("follow")
      /\ UNCHANGED << graph, saved, roots, todo, visited, segment, chain >>
      /\ user \in Range(graph[node].outputs) /\ user \in Nodes(graph)
      /\ kernel'.root = kernel.root
      /\ kernel'.reads = kernel.reads \cup {SavedParam(n) : n \in Present}
      /\ Range(stack') = {NextVisit} \cup Range(Tail(stack))
  BY EdgeFollowed
<1>2. /\ IndInv /\ kernel # NoKernel /\ node \in Nodes(graph) /\ kernel.root \in Nodes(graph)
      /\ Head(stack).do = "follow" /\ Range(stack) = {Head(stack)} \cup Range(Tail(stack))
  BY <1>1, RunningProfile
<1>3. node = kernel.root \/ (Reaches(lev, kernel.root, node) /\ ~Transform(node))
  BY <1>2 DEF LevelAt, KernelIsLevel, FrameIsLevel, node
<1>4. Open(kernel.root) /\ lev[kernel.root] = lev[node]
  <2>1. Open(node)
    <3>1. Range(<< >>) = {}
      BY DEF Range
    <3> QED BY <1>1, <3>1 DEF Open, IsSink
  <2>2. lev[node] \in Nat
    BY <1>2, LevelFacts DEF LevelAt
  <2> QED BY <1>3, <2>1, <2>2 DEF Reaches, Open
<1>5. Reaches(lev, kernel.root, user)
  <2>1. (IsSink(graph, user) /\ Transform(user))
          \/ lev[node] = lev[user] + (IF Transform(user) THEN 1 ELSE 0)
    BY <1>1, <1>2, LevelFacts DEF LevelAt
  <2> QED BY <1>4, <2>1 DEF Reaches
<1>6. FrameIsLevel(lev, NextVisit)
  <2>1. NextVisit.do = "visit" /\ NextVisit.node = user
    BY DEF NextVisit, Visit
  <2> QED BY <1>5, <2>1 DEF FrameIsLevel
<1>7. \A n, m : Grad(n) # SavedParam(m)
  BY DEF Grad, SavedParam, Saved, In
<1> QED BY <1>1, <1>2, <1>6, <1>7, EvalLevel

LEMMA FinishNodeLevel ==
  ASSUME ProfileInv, NEW lev, LevelAt(lev), FinishNode
  PROVE  LevelAt(lev)'
<1>1. /\ Running("finish") /\ stack' = Tail(stack)
      /\ UNCHANGED << graph, saved, roots, todo, kernel, visited, segment, chain >>
  BY DEF FinishNode
<1>2. kernel # NoKernel /\ Range(stack) = {Head(stack)} \cup Range(Tail(stack))
  BY <1>1, RunningProfile
<1> QED BY <1>1, <1>2, EvalLevel

LEMMA LevelInit == Init => LevelInv
<1> SUFFICES ASSUME Init, NEW lev \in [Nodes(graph) -> Nat], Levelling(graph, lev)
             PROVE  LevelAt(lev)
  BY ProfileInit DEF LevelInv
<1>1. /\ todo = << >> /\ segment = << >> /\ chain = << >> /\ kernel = NoKernel
      /\ roots = FirstOf(inputs)
  BY DEF Init
<1>2. Range(<< >>) = {} /\ DOMAIN << >> = {} /\ \A x : Range(<< x >>) = {x}
  BY DEF Range
<1>3. \A r, s \in Range(roots) : r = s
  BY <1>1, <1>2 DEF FirstOf
<1>4. \A n : ~Rooted(n) /\ ~(Open(n) /\ Bare(n))
  BY <1>1, <1>2 DEF Rooted, Open, Bare
<1>5. SweepIsLevel(lev)
  BY <1>1, <1>2, <1>3, <1>4 DEF SweepIsLevel
<1>6. LoadsAreDeps
  BY <1>1, <1>2 DEF LoadsAreDeps
<1> QED BY <1>1, <1>5, <1>6 DEF LevelAt, KernelIsLevel

LEMMA LevelNext == LevelInv /\ [Next]_vars => LevelInv'
<1> SUFFICES ASSUME LevelInv, [Next]_vars PROVE LevelInv'
  OBVIOUS
<1>1. ProfileInv /\ ProfileInv' /\ IndInv'
  BY ProfileNext DEF LevelInv, ProfileInv
<1>2. graph' = graph
  BY DEF vars, Next, EvalGrad, StartSweep, EndInput, Return, SkipRoot, StartKernel, FinishKernel,
         VisitSink, VisitSplit, VisitUsers, FollowEdge, FinishNode, Fail
<1> SUFFICES ASSUME NEW lev \in [Nodes(graph) -> Nat], Levelling(graph, lev) PROVE LevelAt(lev)'
  BY <1>1, <1>2 DEF LevelInv
<1>3. LevelAt(lev)
  BY DEF LevelInv
<1>4. CASE UNCHANGED vars \/ Return \/ Fail
  BY <1>1, <1>3, <1>4, QuietLevel DEF vars, Return, Fail
<1>5. CASE SkipRoot
  <2>1. /\ todo # << >> /\ todo' = Tail(todo)
        /\ UNCHANGED << graph, saved, roots, kernel, stack, visited, segment, chain >>
    BY <1>5 DEF SkipRoot
  <2>2. Range(todo') \subseteq Range(todo)
    BY <1>1, <2>1, PoppedRange DEF ProfileInv, IndInv, TypeOK
  <2> QED BY <1>1, <1>3, <2>1, <2>2, QuietLevel
<1>6. CASE StartSweep \/ StartKernel \/ EndInput
  BY <1>1, <1>3, <1>6, StartSweepLevel, StartKernelLevel, EndInputLevel
<1>7. CASE FinishKernel /\ ~Fail
  BY <1>1, <1>3, <1>7, FinishKernelLevel
<1>8. CASE EvalGrad /\ ~Fail
  BY <1>1, <1>3, <1>8, VisitEndLevel, VisitUsersLevel, FollowEdgeLevel, FinishNodeLevel DEF EvalGrad
<1> QED BY <1>4, <1>5, <1>6, <1>7, <1>8 DEF Next

-----------------------------------------------------------------------------
\* matmul has no constant among its operands: their shapes are equally long.
LEMMA OperandsHaveShapes ==
  ASSUME IndInv, NEW u \in Nodes(graph), Transform(u), NEW p \in DOMAIN graph[u].inputs
  PROVE  graph[graph[u].inputs[p]].op # "const"
<1> DEFINE operands == graph[u].inputs
           shape(q) == graph[operands[q]].shape
<1>1. graph[u].op \in OpNames /\ graph[u].op = "matmul" /\ operands \in Seq(Nodes(graph)) /\ graph \in Graphs
  BY NodeFacts, ComputeFacts DEF Transform, IndInv, TypeOK
<1>2. ValidNode(graph, u) /\ ~is_leaf(graph[u].op)
  <2>1. "matmul" \in OpNames /\ Op["matmul"].arity = 2
    BY <1>1, ComputeFacts
  <2>2. Prepared(graph)
    BY NodeFacts
  <2>3. operands # << >>
    BY DEF operands
  <2> QED BY <2>2, <2>3, PreparedFacts DEF Prepared, Valid
<1>3. Len(operands) = 2 /\ Len(shape(1)) = Len(shape(2))
      /\ ~(graph[operands[1]].op = "const" /\ graph[operands[2]].op = "const")
  <2>1. Len(operands) = 2
    BY <1>1, <1>2, ComputeFacts DEF ValidNode
  <2> QED BY <1>2, <2>1 DEF ValidNode, Transform
<1>4. operands[1] \in Nodes(graph) /\ operands[2] \in Nodes(graph) /\ p \in {1, 2}
  <2> HIDE DEF operands
  <2>1. DOMAIN operands = {1, 2}
    BY <1>1, <1>3
  <2> QED BY <1>1, <2>1 DEF operands
<1>5. ASSUME NEW q \in Nodes(graph), Len(graph[q].shape) = 0 PROVE graph[q].op = "const"
  <2>1. graph[q].shape = << >>
    <3>1. graph[q].shape \in Seq(Nat)
      BY NodeFacts, GraphShapes DEF Prepared
    <3> QED BY <1>5, <3>1
  <2>2. graph[q].op \in OpNames /\ is_leaf(graph[q].op)
    BY <2>1, NodeFacts, PreparedFacts
  <2>3. graph[q].op # "input"
    BY <1>1, <1>5, <2>1, GraphsAssumption
  <2> QED BY <2>2, <2>3, ComputeFacts
<1>6. \A q \in Nodes(graph) : graph[q].op = "const" => Len(graph[q].shape) = 0
  <2>1. \A q \in Nodes(graph) : graph[q].op = "const" => graph[q].shape = << >>
    BY NodeFacts, PreparedFacts
  <2>2. Len(<< >>) = 0
    OBVIOUS
  <2> QED BY <2>1, <2>2
<1> QED BY <1>3, <1>4, <1>5, <1>6

\* Nothing a derivative insists on is missing.
LEMMA NothingIsMissing ==
  ASSUME ProfileInv, OwnValuesKept(graph), Running("follow"), Op[graph[user].op].must
  PROVE  Present = Needed(get_edge(graph, node, user))
<1> DEFINE edge == get_edge(graph, node, user)
           operands == graph[user].inputs
<1>1. /\ IndInv /\ node \in Nodes(graph) /\ saved = compute_saved_nodes(graph)
      /\ user \in Range(graph[node].outputs)
  BY RunningProfile DEF FrameFits, ProfileInv, node, user, Running
<1>2. /\ user \in Nodes(graph) /\ graph[user].op \in OpNames /\ edge \in DOMAIN operands
      /\ DOMAIN operands = 1 .. Op[graph[user].op].arity
  BY <1>1, EdgeIsThere
<1>3. ASSUME NEW n \in Needed(edge) PROVE HasSavedParam(n)
  <2>1. n \in Nodes(graph)
    BY <1>1, NeededFacts
  <2>2. CASE n = user /\ Op[graph[user].op].grad_own
    BY <1>1, <1>2, <2>2 DEF OwnValuesKept, HasSavedParam
  <2>3. CASE \E p \in Op[graph[user].op].grad[edge] : p \in DOMAIN operands /\ n = operands[p]
    <3>1. PICK p \in Op[graph[user].op].grad[edge] : p \in DOMAIN operands /\ n = operands[p]
      BY <2>3
    <3>2. graph[user].op = "matmul"
      <4>1. Op[graph[user].op].arity = 1 => edge = 1
        <5> HIDE DEF edge, operands
        <5> QED BY <1>2
      <4> QED BY <1>2, <3>1, <4>1, GradFacts
    <3>3. Transform(user)
      <4>1. "stable_iter" \in DOMAIN Binary
        BY DEF Binary, Elementwise, Leaf
      <4>2. matmul.stable_iter = FALSE
        BY <4>1 DEF matmul
      <4>3. Op["matmul"] = matmul
        BY DEF Op
      <4> QED BY <3>2, <4>2, <4>3 DEF Transform, is_transform
    <3>4. graph[n].op # "const"
      BY <1>1, <1>2, <3>1, <3>3, OperandsHaveShapes
    <3>5. CASE graph[n].inputs = << >>
      <4>1. graph[n].op \in OpNames /\ is_leaf(graph[n].op)
        BY <1>1, <2>1, <3>5, NodeFacts, PreparedFacts
      <4> QED BY <3>4, <4>1, ComputeFacts DEF HasSavedParam
    <3>6. CASE graph[n].inputs # << >>
      <4>1. n \in Range(operands)
        BY <3>1 DEF Range
      <4> QED BY <1>1, <1>2, <2>1, <3>3, <3>6, <4>1, NodeFacts, SavedFacts DEF Transform, HasSavedParam
    <3> QED BY <3>5, <3>6
  <2> QED BY <1>1, <2>2, <2>3, NeededFacts
<1> QED BY <1>3 DEF Present

\* A root has a gradient parameter, and so has a transform that a kernel splits at.
LEMMA RootsHaveGradParams ==
  ASSUME ProfileInv, NEW n \in Nodes(graph), IsInput(n) \/ Transform(n)
  PROVE  HasGradParam(n)
BY NodeFacts, SavedFacts DEF ProfileInv, IsInput, Transform, HasGradParam

SuccessInv == LevelInv /\ (Differentiable(graph) => status # "failed")

LEMMA SuccessNext == SuccessInv /\ [Next]_vars => SuccessInv'
<1> SUFFICES ASSUME SuccessInv, [Next]_vars PROVE SuccessInv'
  OBVIOUS
<1>1. LevelInv /\ LevelInv' /\ ProfileInv /\ IndInv
  BY LevelNext DEF SuccessInv, LevelInv, ProfileInv
<1>2. graph' = graph
  BY DEF vars, Next, EvalGrad, StartSweep, EndInput, Return, SkipRoot, StartKernel, FinishKernel,
         VisitSink, VisitSplit, VisitUsers, FollowEdge, FinishNode, Fail
<1> SUFFICES ASSUME Differentiable(graph), status # "failed" PROVE status' # "failed"
  BY <1>1, <1>2 DEF SuccessInv
<1>3. CASE UNCHANGED vars \/ StartSweep \/ EndInput \/ Return \/ SkipRoot \/ StartKernel
  BY <1>3 DEF vars, StartSweep, EndInput, Return, SkipRoot, StartKernel
<1>4. CASE VisitSink \/ VisitUsers \/ FinishNode
  BY <1>4 DEF VisitSink, VisitUsers, FinishNode
<1>5. CASE VisitSplit
  <2>1. Running("visit") /\ MustSplit
    BY <1>5 DEF VisitSplit
  <2>2. node \in Nodes(graph) /\ Transform(node)
    BY <1>1, <2>1, RunningProfile, SplitsAreTransforms
  <2>3. HasGradParam(node)
    BY <1>1, <2>2, RootsHaveGradParams
  <2> QED BY <1>5, <2>3 DEF VisitSplit
<1>6. CASE FollowEdge
  <2>1. Running("follow")
    BY <1>6 DEF FollowEdge
  <2>2. Op[graph[user].op].must => Present = Needed(get_edge(graph, node, user))
    BY <1>1, <2>1, NothingIsMissing DEF Differentiable
  <2> QED BY <1>6, <2>2 DEF FollowEdge, Present
<1>7. CASE FinishKernel
  <2> DEFINE root == kernel.root
  <2>1. kernel # NoKernel
    BY <1>7 DEF FinishKernel
  <2>2. todo # << >> /\ root = Head(todo) /\ todo \in Seq(Nodes(graph))
    BY <1>1, <2>1 DEF IndInv, KernelIsNew, TypeOK
  <2>3. root \in Range(todo) /\ root \in Nodes(graph)
    <3>1. root \in Range(todo)
      BY <2>2, PoppedRange
    <3> QED BY <1>1, <3>1, RangesAreNodes
  <2>4. IsInput(root) \/ Transform(root)
    <3>1. StartsKernels(root)
      BY <1>1, <2>3 DEF ProfileInv, RootsAreFollowedOnce
    <3>2. CASE Levelled(graph)
      <4>1. PICK lev \in [Nodes(graph) -> 0 .. Len(graph)] : Levelling(graph, lev)
        BY <3>2 DEF Levelled
      <4>2. lev \in [Nodes(graph) -> Nat]
        <5>1. 0 .. Len(graph) \subseteq Nat
          BY <1>1, GraphFacts DEF IndInv
        <5> QED BY <5>1
      <4>3. ~Bare(root)
        BY <1>1, <2>3, <4>1, <4>2 DEF LevelInv, LevelAt, SweepIsLevel
      <4> QED BY <3>1, <4>3 DEF StartsKernels, Ends, Bare
    <3>3. CASE \A n \in Sinks(graph) : is_transform(graph[n].op)
      BY <2>3, <3>1, <3>3 DEF StartsKernels, Ends, Sinks, Transform
    <3> QED BY <3>2, <3>3 DEF Differentiable
  <2>5. HasGradParam(root)
    BY <1>1, <2>3, <2>4, RootsHaveGradParams
  <2> QED BY <1>7, <2>5 DEF FinishKernel
<1> QED BY <1>3, <1>4, <1>5, <1>6, <1>7 DEF Next, EvalGrad

\* lower_backward succeeds on a differentiable graph: no output is ever a root of its own, and
\* what the derivatives insist on is kept.
THEOREM GradientsCanBeLowered == Spec => []DifferentiableGraphsAreLowered
<1>1. Init => SuccessInv
  BY LevelInit DEF SuccessInv, Init
<1>2. SuccessInv => DifferentiableGraphsAreLowered
  BY DEF SuccessInv, DifferentiableGraphsAreLowered, LoweringSucceeds
<1> QED BY <1>1, <1>2, SuccessNext, PTL DEF Spec
=============================================================================
