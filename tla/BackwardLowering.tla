-------------------------- MODULE BackwardLowering --------------------------
(***************************************************************************)
(* lower_backward: for every graph input, kernels that carry the gradient  *)
(* of the loss from the outputs of the graph down to that input.           *)
(*                                                                         *)
(* The kernel of a root computes the root's gradient: it follows every use *)
(* of the root upwards (eval_grad), multiplying by the derivative along    *)
(* each edge, until it reaches a sink, where it loads the gradient of the  *)
(* loss (Seed), or a transform it cannot fuse, where it loads that node's  *)
(* gradient, which the next sweep has to compute.                          *)
(*                                                                         *)
(* What a kernel adds up is kept as a set of terms: a term is the path of  *)
(* edges that was followed and the node where it ended.  A step of a path  *)
(* is exact unless an operand's value was replaced by the constant 0       *)
(* (read_saved), or by the other value that its operation keeps.           *)
(***************************************************************************)
EXTENDS KernelIR

CONSTANT Graphs   \* the graphs to lower, outputs rebuilt

ASSUME GraphsAssumption ==
  \A g \in Graphs :
    Prepared(g) /\ Len(g) > 0 /\ \A n \in Nodes(g) : g[n].op = "input" => g[n].shape # << >>

VARIABLES
  graph,      \* the graph (constant once chosen)
  saved,      \* its save indicators
  inputs,     \* the graph inputs still to do, the current one first
  roots,      \* the roots of the next sweep, in order
  todo,       \* the roots this sweep has still to do (roots_clone)
  resolved,   \* nodes whose gradient some kernel of the current input has followed to the end
  kernel,     \* the kernel under construction, or NoKernel
  stack,      \* frames of its evaluation still to be run
  visited,    \* nodes it has visited, in first-visit order (deepest)
  stable,     \* stable_iteration_space
  segment,    \* the kernels of the current input, with their dependencies (grad_kernels)
  chain,      \* the kernels of the inputs done
  status      \* "lowering", "lowered" (Ok) or "failed" (Err)

vars == << graph, saved, inputs, roots, todo, resolved, kernel, stack, visited, stable,
           segment, chain, status >>

NoKernel == [root |-> 0]

Visit(n, path) == [do |-> "visit", node |-> n, user |-> 0, path |-> path]
Follow(n, user, path) == [do |-> "follow", node |-> n, user |-> user, path |-> path]
Finish(n) == [do |-> "finish", node |-> n, user |-> 0, path |-> << >>]

\* Slip: inner nodes get no gradient parameter.
OnlyInputsHaveGradParam(n) == graph[n].op = "input"
HasGradParam(n) == is_defined_in_backward(saved, n)
HasSavedParam(n) == graph[n].op = "input" \/ is_defined_in_forward(saved, n)
\* Slip: the value is looked for among the kept ones only.
SavedParamOfAny(n) == Saved(n)
SavedParam(n) == IF is_defined_in_forward(saved, n) THEN Saved(n) ELSE In(n)

FirstOf(s) == IF s = << >> THEN << >> ELSE << Head(s) >>

Init ==
  /\ graph \in Graphs
  /\ saved = compute_saved_nodes(graph)
  /\ inputs = Ascending({n \in Nodes(graph) : graph[n].op = "input"})
  /\ roots = FirstOf(inputs)
  /\ todo = << >>
  /\ resolved = << >>
  /\ kernel = NoKernel
  /\ stack = << >>
  /\ visited = << >>
  /\ stable = TRUE
  /\ segment = << >>
  /\ chain = << >>
  /\ status = "lowering"

-----------------------------------------------------------------------------
(* The inputs, and the sweeps over the roots of one input. *)

BetweenKernels == status = "lowering" /\ kernel = NoKernel
SweepNeeded == \E r \in Range(roots) : ~IsSink(graph, r)

StartSweep ==
  /\ BetweenKernels
  /\ inputs # << >> /\ todo = << >>
  /\ SweepNeeded
  /\ todo' = roots
  /\ roots' = << >>
  /\ UNCHANGED << graph, saved, inputs, resolved, kernel, stack, visited, stable, segment,
                  chain, status >>

\* Each input starts over: kernels of other inputs are neither reused nor depended upon.
EndInput ==
  /\ BetweenKernels
  /\ inputs # << >> /\ todo = << >>
  /\ ~SweepNeeded
  /\ chain' = chain \o segment
  /\ segment' = << >>
  /\ inputs' = Tail(inputs)
  /\ roots' = FirstOf(Tail(inputs))
  /\ resolved' = << >>
  /\ UNCHANGED << graph, saved, todo, kernel, stack, visited, stable, status >>

Return ==
  /\ BetweenKernels
  /\ inputs = << >>
  /\ status' = "lowered"
  /\ UNCHANGED << graph, saved, inputs, roots, todo, resolved, kernel, stack, visited, stable,
                  segment, chain >>

SkipRoot ==
  /\ BetweenKernels
  /\ todo # << >>
  /\ Head(todo) \in Range(resolved)
  /\ todo' = Tail(todo)
  /\ UNCHANGED << graph, saved, inputs, roots, resolved, kernel, stack, visited, stable, segment,
                  chain, status >>

StartKernel ==
  /\ BetweenKernels
  /\ todo # << >>
  /\ Head(todo) \notin Range(resolved)
  /\ kernel' = NewKernel(graph, Head(todo))
  /\ stack' = << Visit(Head(todo), << >>) >>
  /\ visited' = << >>
  /\ stable' = TRUE
  /\ UNCHANGED << graph, saved, inputs, roots, todo, resolved, segment, chain, status >>

Fail ==
  /\ status' = "failed"
  /\ UNCHANGED << graph, saved, inputs, roots, todo, resolved, kernel, stack, visited, stable,
                  segment, chain >>

\* Slip: the comparison is the other way round.
DependsOnSmaller(other, root) == other > root

\* Kernels of this input with a smaller root depend on this one.
DependsOn(other, root) == other < root

\* Slip: the gradient of an input is not stored.
StoresUnlessLeaf(root) == Op[graph[root].op].computes_gid
StoresGradient(root) == Op[graph[root].op].computes_gid \/ Op[graph[root].op].leaf

FinishKernel ==
  LET root == kernel.root
      stored == IF StoresGradient(root) THEN Store(kernel, Grad(root)) ELSE kernel
      fresh == Nodes(graph) \ (Range(roots) \cup Range(resolved) \cup {root})
      depend(e) == IF DependsOn(e.kernel.root, root) THEN [e EXCEPT !.dep = @ \cup {root}] ELSE e
  IN
  /\ status = "lowering"
  /\ kernel # NoKernel
  /\ stack = << >>
  /\ IF StoresGradient(root) /\ ~HasGradParam(root)
     THEN Fail
     ELSE /\ roots' = PushAll(roots, visited, fresh)
          /\ segment' = Append([i \in DOMAIN segment |-> depend(segment[i])],
                               [kernel |-> stored, dep |-> {}])
          /\ todo' = Tail(todo)
          /\ kernel' = NoKernel
          /\ UNCHANGED << graph, saved, inputs, resolved, stack, visited, stable, chain, status >>

-----------------------------------------------------------------------------
(* eval_grad, one frame at a time. *)

Running(do) == status = "lowering" /\ stack # << >> /\ Head(stack).do = do
node == Head(stack).node
user == Head(stack).user
path == Head(stack).path
attr == Op[graph[node].op]

\* kernel.ops.push, deepest.push
Seen == [kernel EXCEPT !.ops = Append(@, graph[node].op)]
\* Slip: deepest is not filled.
VisitedNothing == visited
Visited == PushNew(visited, node)

\* The path ends here: its term is multiplied by the gradient loaded from t.
AddTerm(t) == [Load(Seen, t) EXCEPT !.terms = @ \cup {<< path, node >>}]

VisitSink ==
  /\ Running("visit")
  /\ IsSink(graph, node)
  /\ kernel' = AddTerm(Seed)
  /\ stack' = Tail(stack)
  /\ visited' = Visited
  /\ UNCHANGED << graph, saved, inputs, roots, todo, resolved, stable, segment, chain, status >>

MustSplit ==
  \/ is_transform(graph[node].op) /\ ~stable
  \/ ~attr.computes_gid /\ DimsInvalid(graph, resolved, node)

VisitSplit ==
  /\ Running("visit")
  /\ ~IsSink(graph, node)
  /\ MustSplit
  /\ IF ~HasGradParam(node)
     THEN Fail
     ELSE /\ kernel' = AddTerm(Grad(node))
          /\ stack' = Tail(stack)
          /\ visited' = Visited
          /\ UNCHANGED << graph, saved, inputs, roots, todo, resolved, stable, segment, chain,
                          status >>

\* Slip: only the first use is followed.
FirstUser == SubSeq(graph[node].outputs, 1, 1)
Users == graph[node].outputs

VisitUsers ==
  /\ Running("visit")
  /\ ~IsSink(graph, node)
  /\ ~MustSplit
  /\ kernel' = Seen
  /\ stack' = [k \in DOMAIN Users |-> Follow(node, Users[k], path)]
                \o << Finish(node) >> \o Tail(stack)
  /\ visited' = Visited
  /\ UNCHANGED << graph, saved, inputs, roots, todo, resolved, stable, segment, chain, status >>

\* The nodes whose values the derivative of user along edge reads.
Needed(edge) ==
  {graph[user].inputs[p] : p \in Op[graph[user].op].grad[edge]}
    \cup (IF Op[graph[user].op].grad_own THEN {user} ELSE {})

\* What is loaded is what the formula of the derivative stands on: the values of operands, and
\* for the user itself whatever its operation keeps.
Exact(edge) ==
  \A n \in Needed(edge) :
    HasSavedParam(n) /\ (Op[graph[n].op].save_inner => n = user)

\* lower(Some(edge)): load what the derivative reads, then go on to the user itself.
FollowEdge ==
  LET edge == get_edge(graph, node, user)
      op == Op[graph[user].op]
      operands == graph[user].inputs
      needed == Needed(edge)
      present == {n \in needed : HasSavedParam(n)}
      loaded == [kernel EXCEPT !.reads = @ \cup {SavedParam(n) : n \in present}]
      step == [user |-> user, edge |-> edge, exact |-> Exact(edge)]
      other == Transposed(graph[operands[3 - edge]].shape)
      meta == IF edge = 1 THEN MatmulMeta(graph[user].shape, other)
                          ELSE MatmulMeta(other, graph[user].shape)
  IN
  /\ Running("follow")
  /\ IF op.must /\ present # needed
     THEN Fail
     ELSE /\ kernel' = IF is_transform(graph[user].op)
                       THEN [loaded EXCEPT !.meta = @ \cup meta] ELSE loaded
          /\ stable' = (stable /\ op.stable_iter)
          /\ stack' = << Visit(user, Append(path, step)) >> \o Tail(stack)
          /\ UNCHANGED << graph, saved, inputs, roots, todo, resolved, visited, segment, chain,
                          status >>

FinishNode ==
  /\ Running("finish")
  /\ resolved' = PushNew(resolved, node)
  /\ stack' = Tail(stack)
  /\ UNCHANGED << graph, saved, inputs, roots, todo, kernel, visited, stable, segment, chain,
                  status >>

EvalGrad == VisitSink \/ VisitSplit \/ VisitUsers \/ FollowEdge \/ FinishNode

Next == StartSweep \/ EndInput \/ Return \/ SkipRoot \/ StartKernel \/ FinishKernel \/ EvalGrad

\* lower_backward runs on the caller's thread without waiting for anything.
Spec == Init /\ [][Next]_vars /\ WF_vars(Next)

-----------------------------------------------------------------------------
(* Properties. *)

\* No graph of the class under test lacks a parameter (backward.rs:166, backward.rs:300,
\* matmul.rs:73, unary.rs:156).
LoweringSucceeds == status # "failed"

\* None lacks one in a graph where functions of their own value have it kept and no elementwise
\* output becomes a root beside one that keeps the sweeps going.
DifferentiableGraphsAreLowered == ~LoweringSucceeds => ~Differentiable(graph)

\* The paths of edges from node n to a sink, one per summand of the chain rule.
PathsToSinks ==
  LET paths[n \in Nodes(graph)] ==
        IF IsSink(graph, n) THEN {<< >>}
        ELSE LET uses == {s \in [user : Nodes(graph), edge : {1, 2}, exact : {TRUE}] :
                            /\ s.edge \in DOMAIN graph[s.user].inputs
                            /\ graph[s.user].inputs[s.edge] = n}
             IN  UNION {{<< s >> \o rest : rest \in paths[s.user]} : s \in uses}
  IN  paths

\* The chain rule: once the gradients it loads are complete, a kernel adds up, for its root,
\* one term for every path to a sink, no more and no fewer, each with its exact derivatives.
GradientsAreComplete ==
  \A k \in KernelsOf(segment) :
    UNION {{t[1] \o rest : rest \in PathsToSinks[t[2]]} : t \in k.terms} = PathsToSinks[k.root]

\* A gradient that a kernel of an input loads where it was split is stored by a kernel of the
\* same input.
SplitGradientsAreStored ==
  BetweenKernels /\ inputs # << >> /\ todo = << >> /\ ~SweepNeeded =>
    ReadBy(segment) \cap {Grad(n) : n \in Nodes(graph)} \subseteq WrittenBy(segment)

\* A value of the forward pass is loaded only if that pass keeps it: the last node's goes to the
\* output parameter instead of its own (forward.rs:82).
SavedValuesAreKept ==
  \A n \in Nodes(graph) :
    Saved(n) \in ReadBy(chain \o segment) =>
      is_defined_in_forward(saved, n) /\ n # LastNode(graph)

\* The kernels of one input are the list KernelList describes: each depends on exactly the later
\* ones with a larger root, and a root has one kernel unless it is an output, which no sweep
\* marks as resolved (backward.rs:265).
SegmentIsBackwardList ==
  LET order == [i \in DOMAIN segment |-> segment[i].kernel.root]
  IN  /\ \A i, j \in DOMAIN order : order[i] = order[j] => i = j \/ IsSink(graph, order[i])
      /\ BackwardList(order) =
           [i \in DOMAIN segment |->
              [root |-> order[i], dep |-> segment[i].dep, redirect |-> Unmasked]]
=============================================================================
