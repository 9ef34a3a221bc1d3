-------------------------- MODULE ForwardLowering --------------------------
(***************************************************************************)
(* lower_forward: cut the graph into kernels, from the sinks upwards.      *)
(*                                                                         *)
(* A sweep starts one kernel for every root that no kernel has computed    *)
(* yet.  The kernel evaluates its root recursively (eval_node): a node is  *)
(* fused into the kernel, or, when it is a transform met after the         *)
(* iteration space has been fixed by another one, the kernel is split      *)
(* there and loads the node's saved value.  Every compute node the kernel  *)
(* visited is a root of the next sweep; those it fused are skipped then.   *)
(*                                                                         *)
(* The recursion is an explicit stack of frames still to be run: visit a   *)
(* node, or finish one whose operands have been evaluated.                 *)
(***************************************************************************)
EXTENDS KernelIR

CONSTANT Graphs   \* the graphs to lower, outputs rebuilt

ASSUME GraphsAssumption == \A g \in Graphs : Prepared(g) /\ Len(g) > 0

VARIABLES
  graph,      \* the graph (constant once chosen)
  saved,      \* its save indicators
  roots,      \* the roots of the next sweep, in order
  todo,       \* the roots this sweep has still to do (roots_clone)
  resolved,   \* nodes some kernel has computed
  kernel,     \* the kernel under construction, or NoKernel
  stack,      \* frames of its evaluation still to be run
  visited,    \* compute nodes it has visited, in first-visit order (deepest)
  stable,     \* stable_iteration_space
  chain,      \* the kernels so far, with their dependencies
  status      \* "lowering", "lowered" (Ok), "failed" (Err) or "panicked"

lowerVars == << roots, todo, resolved, kernel, stack, visited, stable, chain, status >>
vars == << graph, saved, lowerVars >>

NoKernel == [root |-> 0]

Visit(n) == [do |-> "visit", node |-> n]
Finish(n) == [do |-> "finish", node |-> n]

\* Which nodes have a parameter slot: used inputs, and the values kept; the last node's value
\* is the output.
\* Slip: unused inputs get a parameter.
EveryInputHasParam(n) == graph[n].op = "input"
HasInputParam(n) == graph[n].op = "input" /\ graph[n].outputs # << >>
HasSavedParam(n) == n = LastNode(graph) \/ is_defined_in_forward(saved, n)
SavedParam(n) == IF n = LastNode(graph) THEN Out ELSE Saved(n)

Init ==
  /\ graph \in Graphs
  /\ saved = compute_saved_nodes(graph)
  /\ roots = Ascending(Sinks(graph))
  /\ todo = << >>
  /\ resolved = << >>
  /\ kernel = NoKernel
  /\ stack = << >>
  /\ visited = << >>
  /\ stable = TRUE
  /\ chain = << >>
  /\ status = "lowering"

-----------------------------------------------------------------------------
(* The sweeps over the roots. *)

BetweenKernels == status = "lowering" /\ kernel = NoKernel
SweepNeeded == \E r \in Range(roots) : graph[r].inputs # << >>

\* Slip: the roots are copied, not taken.
StartSweepKeepingRoots ==
  /\ BetweenKernels
  /\ todo = << >>
  /\ SweepNeeded
  /\ todo' = roots
  /\ UNCHANGED << graph, saved, roots, resolved, kernel, stack, visited, stable, chain, status >>

StartSweep ==
  /\ BetweenKernels
  /\ todo = << >>
  /\ SweepNeeded
  /\ todo' = roots
  /\ roots' = << >>
  /\ UNCHANGED << graph, saved, resolved, kernel, stack, visited, stable, chain, status >>

Return ==
  /\ BetweenKernels
  /\ todo = << >>
  /\ ~SweepNeeded
  /\ status' = "lowered"
  /\ UNCHANGED << graph, saved, roots, todo, resolved, kernel, stack, visited, stable, chain >>

SkipRoot ==
  /\ BetweenKernels
  /\ todo # << >>
  /\ Head(todo) \in Range(resolved)
  /\ todo' = Tail(todo)
  /\ UNCHANGED << graph, saved, roots, resolved, kernel, stack, visited, stable, chain, status >>

\* The kernel indexes by the dimensions of its root: dims[0] panics when there is none.
StartKernel ==
  /\ BetweenKernels
  /\ todo # << >>
  /\ Head(todo) \notin Range(resolved)
  /\ IF graph[Head(todo)].shape = << >>
     THEN status' = "panicked" /\ UNCHANGED << kernel, stack, visited, stable >>
     ELSE /\ kernel' = NewKernel(graph, Head(todo))
          /\ stack' = << Visit(Head(todo)) >>
          /\ visited' = << >>
          /\ stable' = TRUE
          /\ UNCHANGED status
  /\ UNCHANGED << graph, saved, roots, todo, resolved, chain >>

\* Slip: the comparison is the other way round.
DependsOnLarger(other, root) == other < root

\* Kernels already in the chain with a larger root get this root as a dependency.
DependsOn(other, root) == other > root

FinishKernel ==
  LET root == kernel.root
      fresh == Nodes(graph) \ (Range(roots) \cup {root})
      depend(e) == IF DependsOn(e.kernel.root, root) THEN [e EXCEPT !.dep = @ \cup {root}] ELSE e
  IN
  /\ status = "lowering"
  /\ kernel # NoKernel
  /\ stack = << >>
  /\ roots' = PushAll(roots, visited, fresh)
  /\ chain' = Append([i \in DOMAIN chain |-> depend(chain[i])], [kernel |-> kernel, dep |-> {}])
  /\ todo' = Tail(todo)
  /\ kernel' = NoKernel
  /\ UNCHANGED << graph, saved, resolved, stack, visited, stable, status >>

-----------------------------------------------------------------------------
(* eval_node, one frame at a time. *)

Running(do) == status = "lowering" /\ stack # << >> /\ Head(stack).do = do
node == Head(stack).node
attr == Op[graph[node].op]

\* kernel.ops.push, deepest.push
Seen == [kernel EXCEPT !.ops = Append(@, graph[node].op)]
\* Slip: deepest is not filled.
VisitedNothing == visited
Visited == IF graph[node].inputs = << >> THEN visited ELSE PushNew(visited, node)

Fail ==
  /\ status' = "failed"
  /\ UNCHANGED << graph, saved, roots, todo, resolved, kernel, stack, visited, stable, chain >>

VisitLeaf ==
  /\ Running("visit")
  /\ is_leaf(graph[node].op)
  /\ IF graph[node].op = "input" /\ ~HasInputParam(node)
     THEN Fail
     ELSE /\ kernel' = IF graph[node].op = "input" THEN Load(Seen, In(node)) ELSE Seen
          /\ stack' = << Finish(node) >> \o Tail(stack)
          /\ UNCHANGED << graph, saved, roots, todo, resolved, visited, stable, chain, status >>

MustSplit ==
  \/ ~(attr.stable_iter \/ stable)
  \/ DimsInvalid(graph, resolved, node)
  \/ ~attr.computes_gid

VisitSplit ==
  /\ Running("visit")
  /\ ~is_leaf(graph[node].op)
  /\ MustSplit
  /\ IF ~HasSavedParam(node)
     THEN Fail
     ELSE /\ kernel' = Load(Seen, SavedParam(node))
          /\ stack' = Tail(stack)
          /\ visited' = Visited
          /\ UNCHANGED << graph, saved, roots, todo, resolved, stable, chain, status >>

\* lower evaluates the operands in order, in this kernel.
Operands(n) == [p \in DOMAIN graph[n].inputs |-> Visit(graph[n].inputs[p])]

\* matmul fixes the iteration space before its operands are evaluated.
VisitFused ==
  LET operands == graph[node].inputs
  IN
  /\ Running("visit")
  /\ ~is_leaf(graph[node].op)
  /\ ~MustSplit
  /\ kernel' = IF is_transform(graph[node].op)
               THEN [Seen EXCEPT !.meta = @ \cup MatmulMeta(graph[operands[1]].shape,
                                                            graph[operands[2]].shape)]
               ELSE Seen
  /\ stable' = (stable /\ attr.stable_iter)
  /\ stack' = Operands(node) \o << Finish(node) >> \o Tail(stack)
  /\ visited' = Visited
  /\ UNCHANGED << graph, saved, roots, todo, resolved, chain, status >>

Stores == HasSavedParam(node) /\ (attr.auto_save \/ attr.save_inner)

\* eval_node stores the node's value, unless lower has stored what the operation keeps instead.
Keep == IF attr.auto_save THEN Store(kernel, SavedParam(node))
                          ELSE StoreInner(kernel, SavedParam(node))

\* The operands are evaluated: store what is kept of the node, and mark it resolved.
FinishNode ==
  /\ Running("finish")
  /\ IF attr.save_inner /\ ~HasSavedParam(node)
     THEN Fail
     ELSE /\ kernel' = IF Stores THEN Keep ELSE kernel
          /\ resolved' = PushNew(resolved, node)
          /\ stack' = Tail(stack)
          /\ UNCHANGED << graph, saved, roots, todo, visited, stable, chain, status >>

EvalNode == VisitLeaf \/ VisitSplit \/ VisitFused \/ FinishNode

Next == StartSweep \/ Return \/ SkipRoot \/ StartKernel \/ FinishKernel \/ EvalNode

\* lower_forward runs on the caller's thread without waiting for anything.
Spec == Init /\ [][Next]_vars /\ WF_vars(Next)

-----------------------------------------------------------------------------
(* Properties. *)

Computed == {n \in Nodes(graph) : ~is_leaf(graph[n].op)}

\* No leaf is left unused, unless there is nothing to lower, and an operation that always stores
\* something has where to.
Lowerable ==
  /\ Computed # {} => Sinks(graph) \subseteq Computed
  /\ \A n \in Computed : Op[graph[n].op].save_inner => HasSavedParam(n)

\* The graphs that are lowered are the lowerable ones: no other lacks a parameter (forward.rs:331,
\* forward.rs:382, unary.rs:133), nor has a root without dimensions (forward.rs:155).
LoweringSucceeds ==
  /\ status \in {"failed", "panicked"} => ~Lowerable
  /\ status = "lowered" => Lowerable

\* What a kernel loads where it was split is the value of the node, stored by a kernel of the same
\* pass.
SplitValuesAreStored ==
  status = "lowered" => ReadBy(chain) \ {In(n) : n \in Nodes(graph)} \subseteq ResultsOf(chain)

\* The list is the one KernelList describes and KernelSchedule relies on: a root has one kernel,
\* which depends on exactly the later kernels with a smaller root.
ChainIsForwardList ==
  LET order == [i \in DOMAIN chain |-> chain[i].kernel.root]
  IN  /\ IsInjective(order)
      /\ ForwardList(order) =
           [i \in DOMAIN chain |-> [root |-> order[i], dep |-> chain[i].dep, redirect |-> Unmasked]]
=============================================================================
