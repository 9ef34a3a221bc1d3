----------------------------- MODULE FusedGraph -----------------------------
(***************************************************************************)
(* The execution graph: a sequence of nodes, built by appending, each with *)
(* its operation, its inputs and the nodes that use it.  Node ids are      *)
(* positions counted from 1 (the code counts from 0).                      *)
(***************************************************************************)
EXTENDS GraphOps, SequencesExt

Nodes(g) == 1 .. Len(g)
LastNode(g) == Len(g)

Node(op, inputs, shape) == [op |-> op, inputs |-> inputs, outputs |-> << >>, shape |-> shape]

\* Every input learns of its new user, once per occurrence; then the node is pushed.
add_node(g, op, inputs, shape) ==
  LET id == Len(g) + 1
      uses(n) == [k \in 1 .. Cardinality({p \in DOMAIN inputs : inputs[p] = n}) |-> id]
  IN  Append([n \in Nodes(g) |-> [g[n] EXCEPT !.outputs = @ \o uses(n)]],
             Node(op, inputs, shape))

\* The shape add_node is given: a constant takes the shape of the other operand.
ResultShape(g, op, inputs) ==
  LET shape(p) == g[inputs[p]].shape
  IN  IF is_transform(op) THEN [shape(1) EXCEPT ![Len(shape(1))] = shape(2)[Len(shape(1))]]
      ELSE IF Len(inputs) = 2 /\ g[inputs[1]].op = "const" THEN shape(2)
      ELSE shape(1)

\* matmul indexes the shapes of its operands and can only be called when they are long enough.
Callable(g, op, inputs) ==
  is_transform(op) => Len(g[inputs[1]].shape) \in 1 .. Len(g[inputs[2]].shape)

\* The position of the first input of user that is node: a node used twice has one edge.
get_edge(g, node, user) ==
  CHOOSE e \in DOMAIN g[user].inputs :
    /\ g[user].inputs[e] = node
    /\ \A d \in 1 .. e - 1 : g[user].inputs[d] # node

\* The members of a set of positions, smallest first: what a loop that enumerates the positions
\* and pushes those that satisfy a test collects.
Ascending(S) ==
  CHOOSE s \in [1 .. Cardinality(S) -> S] : \A i, j \in DOMAIN s : i < j => s[i] < s[j]

-----------------------------------------------------------------------------
(***************************************************************************)
(* topo_sort: Kahn's algorithm.  zeros is at once the queue and the        *)
(* resulting order; step k takes its k-th node and appends, in ascending   *)
(* order, the users that wait for no other input.                          *)
(***************************************************************************)
Uses(g, node, user) == Cardinality({p \in DOMAIN g[user].inputs : g[user].inputs[p] = node})

\* Slip: of the users that become ready the latest comes first.
KahnStepLatestFirst(g, k, s) ==
  LET degree == [m \in Nodes(g) |-> s.degree[m] - Uses(g, s.zeros[k], m)]
      ready == {m \in Nodes(g) : degree[m] = 0 /\ s.degree[m] > 0}
  IN  IF k > Len(s.zeros) THEN s
      ELSE [zeros |-> s.zeros \o Reverse(Ascending(ready)), degree |-> degree]

KahnStep(g, k, s) ==
  LET degree == [m \in Nodes(g) |-> s.degree[m] - Uses(g, s.zeros[k], m)]
      ready == {m \in Nodes(g) : degree[m] = 0 /\ s.degree[m] > 0}
  IN  IF k > Len(s.zeros) THEN s
      ELSE [zeros |-> s.zeros \o Ascending(ready), degree |-> degree]

KahnStart(g) ==
  [zeros |-> Ascending({m \in Nodes(g) : g[m].inputs = << >>}),
   degree |-> [m \in Nodes(g) |-> Len(g[m].inputs)]]

\* The order in which topo_sort leaves the nodes: every node, or (Err) fewer when there is a cycle.
KahnOrder(g) ==
  LET after[k \in 0 .. Len(g)] == IF k = 0 THEN KahnStart(g) ELSE KahnStep(g, k, after[k - 1])
  IN  after[Len(g)].zeros

\* Slip: the inputs keep their old ids.
topo_sort_without_renumbering(g) ==
  LET order == KahnOrder(g)
  IN  [k \in DOMAIN order |-> [g[order[k]] EXCEPT !.outputs = << >>]]

\* Nodes move, inputs are renumbered, outputs are forgotten.
topo_sort(g) ==
  LET order == KahnOrder(g)
      position(m) == CHOOSE k \in DOMAIN order : order[k] = m
      renumbered(inputs) == [p \in DOMAIN inputs |-> position(inputs[p])]
  IN  [k \in DOMAIN order |->
         [g[order[k]] EXCEPT !.inputs = renumbered(@), !.outputs = << >>]]

\* Slip: a user is listed once however often it uses the node.
rebuild_outputs_once(g) ==
  LET users(m) == {u \in Nodes(g) : Uses(g, m, u) > 0}
  IN  [m \in Nodes(g) |-> [g[m] EXCEPT !.outputs = Ascending(users(m))]]

\* Users in ascending order, once per occurrence.
rebuild_outputs(g) ==
  LET users(m) == FlattenSeq([u \in Nodes(g) |-> [k \in 1 .. Uses(g, m, u) |-> u]])
  IN  [m \in Nodes(g) |-> [g[m] EXCEPT !.outputs = users(m)]]

\* validate, on the nodes add_node can have built.
ValidNode(g, n) ==
  LET inputs == g[n].inputs
      shape(p) == g[inputs[p]].shape
      const(p) == g[inputs[p]].op = "const"
  IN
  \/ is_leaf(g[n].op) /\ inputs = << >>
  \/ /\ ~is_leaf(g[n].op)
     /\ Len(inputs) = Op[g[n].op].arity
     /\ Len(g[n].shape) >= 2
     /\ Len(inputs) = 2 => ~(const(1) /\ const(2))
     /\ IF is_transform(g[n].op)
        THEN Len(shape(1)) = Len(shape(2)) /\ shape(1)[Len(shape(1))] = shape(2)[Len(shape(2)) - 1]
        ELSE \A p, q \in DOMAIN inputs : const(p) \/ const(q) \/ shape(p) = shape(q)

Valid(g) == \A n \in Nodes(g) : ValidNode(g, n)

\* matmul's check looks at the last dimension but one of its second operand in any case.
ValidatePanics(g) ==
  \E n \in Nodes(g) : is_transform(g[n].op) /\ Len(g[g[n].inputs[2]].shape) < 2

-----------------------------------------------------------------------------
(* Which values and gradients are kept between kernels. *)

SaveFlags == {"DEFINED_IN_FORWARD", "USED_BY_FORWARD", "DEFINED_IN_BACKWARD", "USED_BY_BACKWARD"}

\* What the save function of node n asks for node k.
SaveRequest(g, n, k) ==
  LET kept == \E p \in DOMAIN g[n].inputs : g[n].inputs[p] = k /\ g[k].inputs # << >>
      save == Op[g[n].op].save
  IN  CASE g[n].op = "input" ->
             IF k = n THEN {"DEFINED_IN_BACKWARD", "USED_BY_BACKWARD"} ELSE {}
        [] save = "operands" ->
             IF kept THEN {"DEFINED_IN_FORWARD", "USED_BY_BACKWARD"} ELSE {}
        [] save = "matmul" ->
             (IF k = n THEN {"DEFINED_IN_FORWARD", "USED_BY_FORWARD",
                             "DEFINED_IN_BACKWARD", "USED_BY_BACKWARD"} ELSE {})
               \cup (IF kept THEN {"DEFINED_IN_FORWARD", "USED_BY_FORWARD"} ELSE {})
        [] OTHER -> {}

compute_saved_nodes(g) ==
  [k \in Nodes(g) |-> UNION {SaveRequest(g, n, k) : n \in Nodes(g)}]

is_defined_in_forward(saved, n) == "DEFINED_IN_FORWARD" \in saved[n]
is_defined_in_backward(saved, n) == "DEFINED_IN_BACKWARD" \in saved[n]

-----------------------------------------------------------------------------
(* Vocabulary for the properties. *)

IsSink(g, n) == g[n].outputs = << >>
Sinks(g) == {n \in Nodes(g) : IsSink(g, n)}

\* What add_node has pushed: the edges of a graph join its nodes.
IsGraph(g) ==
  g \in Seq([op : OpNames, inputs : Seq(Nodes(g)), outputs : Seq(Nodes(g)), shape : Seq(Nat)])

\* Every input precedes its user, as add_node and topo_sort leave the graph.
TopologicallyOrdered(g) ==
  \A n \in Nodes(g) : \A p \in DOMAIN g[n].inputs : g[n].inputs[p] < n

\* The outputs list of every node names its users, once per use, in ascending order.
OutputsMatchInputs(g) ==
  \A n \in Nodes(g) :
    /\ \A u \in Nodes(g) :
         Cardinality({k \in DOMAIN g[n].outputs : g[n].outputs[k] = u}) =
         Cardinality({p \in DOMAIN g[u].inputs : g[u].inputs[p] = n})
    /\ \A k \in DOMAIN g[n].outputs : k > 1 => g[n].outputs[k - 1] <= g[n].outputs[k]

\* A graph as the caller hands it to the lowering passes: built, validated, sorted, outputs
\* rebuilt.
Prepared(g) ==
  /\ IsGraph(g) /\ TopologicallyOrdered(g) /\ OutputsMatchInputs(g) /\ Valid(g)
  /\ \A n \in Nodes(g) : g[n].op = "const" => g[n].shape = << >>

-----------------------------------------------------------------------------
(* Classes of graphs that properties are stated of. *)

\* An expression: every value is used once, by the node that leads to the one output.
ValuesUsedOnce(g) ==
  /\ Cardinality(Sinks(g)) = 1
  /\ \A n \in Nodes(g) : is_leaf(g[n].op) \/ Len(g[n].outputs) <= 1

LeavesUsedOnce(g) == \A n \in Nodes(g) : is_leaf(g[n].op) => Len(g[n].outputs) <= 1

\* lev counts the transforms between a node and the outputs: all paths from a node that do not end
\* in an output that is itself a transform cross the same number.
Levelling(g, lev) ==
  \A u \in Nodes(g) :
    LET transform == is_transform(g[u].op)
    IN  /\ IsSink(g, u) /\ ~transform => lev[u] = 0
        /\ ~(IsSink(g, u) /\ transform) =>
             \A p \in DOMAIN g[u].inputs : lev[g[u].inputs[p]] = lev[u] + (IF transform THEN 1 ELSE 0)

Levelled(g) == \E lev \in [Nodes(g) -> 0 .. Len(g)] : Levelling(g, lev)

\* The value of every function whose derivative is computed from it is kept.
OwnValuesKept(g) ==
  \A n \in Nodes(g) : Op[g[n].op].grad_own => is_defined_in_forward(compute_saved_nodes(g), n)

\* Whose gradients lower_backward can compute.
Differentiable(g) ==
  OwnValuesKept(g) /\ (Levelled(g) \/ \A n \in Sinks(g) : is_transform(g[n].op))
=============================================================================
