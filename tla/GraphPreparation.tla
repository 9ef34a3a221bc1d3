-------------------------- MODULE GraphPreparation --------------------------
(***************************************************************************)
(* From the first builder call to a graph that can be lowered, in the      *)
(* order of the tests and of the example: build, compute_saved_nodes,      *)
(* validate, topo_sort, rebuild_outputs.                                   *)
(***************************************************************************)
EXTENDS FusedGraph

CONSTANTS
  MaxNodes,   \* bound on the nodes of a graph
  OpsUsed,    \* the operations to use
  Shapes      \* the shapes of inputs

VARIABLES
  graph,      \* the graph
  built,      \* the graph as it was when building ended
  saved,      \* the save indicators the caller holds
  phase       \* "building", "saved", "validated", "rejected", "panicked", "sorted" or "ready"

vars == << graph, built, saved, phase >>

ASSUME PreparationAssumption ==
  /\ MaxNodes \in Nat
  /\ OpsUsed \subseteq {op \in OpNames : ~is_leaf(op)}
  /\ Shapes \subseteq Seq(Nat)

Init ==
  /\ graph = << >>
  /\ built = << >>
  /\ saved = << >>
  /\ phase = "building"

Add(g) ==
  /\ phase = "building"
  /\ Len(graph) < MaxNodes
  /\ graph' = g
  /\ UNCHANGED << built, saved, phase >>

input(shape) == Add(add_node(graph, "input", << >>, shape))
constant_f32 == Add(add_node(graph, "const", << >>, << >>))

operation(op, inputs) ==
  /\ Callable(graph, op, inputs)
  /\ Add(add_node(graph, op, inputs, ResultShape(graph, op, inputs)))

Build ==
  \/ \E shape \in Shapes : input(shape)
  \/ constant_f32
  \/ \E op \in OpsUsed : \E inputs \in [1 .. Op[op].arity -> Nodes(graph)] : operation(op, inputs)

ComputeSaved ==
  /\ phase = "building"
  /\ saved' = compute_saved_nodes(graph)
  /\ built' = graph
  /\ phase' = "saved"
  /\ UNCHANGED graph

Validate ==
  /\ phase = "saved"
  /\ phase' = IF ValidatePanics(graph) THEN "panicked"
              ELSE IF Valid(graph) THEN "validated" ELSE "rejected"
  /\ UNCHANGED << graph, built, saved >>

TopoSort ==
  /\ phase = "validated"
  /\ graph' = topo_sort(graph)
  /\ phase' = "sorted"
  /\ UNCHANGED << built, saved >>

RebuildOutputs ==
  /\ phase = "sorted"
  /\ graph' = rebuild_outputs(graph)
  /\ phase' = "ready"
  /\ UNCHANGED << built, saved >>

Next == Build \/ ComputeSaved \/ Validate \/ TopoSort \/ RebuildOutputs

Spec == Init /\ [][Next]_vars

-----------------------------------------------------------------------------
(* Properties. *)

\* At every moment the graph can be read in node order, and its edges agree in both directions
\* except between topo_sort, which forgets the outputs, and rebuild_outputs.
GraphIsWellFormed ==
  /\ TopologicallyOrdered(graph)
  /\ phase # "sorted" => OutputsMatchInputs(graph)

\* The value of every node as an expression; an input is known by its rank among the inputs,
\* which is the position of its tensor in the caller's list.
Expressions(g) ==
  LET rank(n) == Cardinality({m \in 1 .. n : g[m].op = "input"})
      value[n \in Nodes(g)] ==
        << g[n].op, IF g[n].op = "input" THEN << rank(n) >>
                    ELSE [p \in DOMAIN g[n].inputs |-> value[g[n].inputs[p]]] >>
  IN  value

\* Renumbering changes no value and no binding of the inputs: every value is computed as often
\* as before, with the inputs bound as before, and a single output stays the last node.
SortKeepsTheProgram ==
  phase = "ready" =>
    /\ Len(graph) = Len(built)
    /\ \A v \in Range(Expressions(built)) :
         Cardinality({n \in Nodes(graph) : Expressions(graph)[n] = v}) =
         Cardinality({n \in Nodes(built) : Expressions(built)[n] = v})
    /\ Cardinality(Sinks(graph)) = 1 /\ graph # << >> =>
         Expressions(graph)[LastNode(graph)] = Expressions(built)[LastNode(built)]

\* As the tests make graphs: the leaves first, then every operation after those whose operands were
\* complete before its own.
MadeInOrder(g) ==
  \A m, n \in Nodes(g) :
    m < n =>
      /\ is_leaf(g[n].op) => is_leaf(g[m].op)
      /\ \A p \in DOMAIN g[m].inputs : \E q \in DOMAIN g[n].inputs : g[m].inputs[p] <= g[n].inputs[q]

\* The caller lowers with the save indicators taken before sorting: of a graph made in that order
\* each still belongs to its node.
IndicatorsSurviveSorting ==
  phase = "ready" /\ MadeInOrder(built) => saved = compute_saved_nodes(graph)
=============================================================================
