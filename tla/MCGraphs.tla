------------------------------ MODULE MCGraphs ------------------------------
(***************************************************************************)
(* Small execution graphs for the runs of the passes: every graph that the *)
(* builder methods can make of some inputs, some constants and 1 to        *)
(* maxCompute operations under the given restrictions, validated, sorted   *)
(* and with its outputs rebuilt, as the tests prepare graphs.  All         *)
(* matrices are square, with one metadata field for both dimensions; all   *)
(* constants are equal.                                                    *)
(***************************************************************************)
EXTENDS FusedGraph

\* The restrictions that hold of a graph to which left more operations may be added.
Satisfied(g, left) ==
  LET leaves == {n \in Nodes(g) : is_leaf(g[n].op)}
  IN  (IF Cardinality(Sinks(g) \cap leaves) <= 2 * left THEN {"leaves used"} ELSE {})
      \cup (IF Cardinality(Sinks(g)) <= left + 1 THEN {"one output"} ELSE {})
      \cup (IF \A n \in Nodes(g) : IsInjective(g[n].inputs) THEN {"distinct operands"} ELSE {})
      \cup (IF \A n \in Nodes(g) \ leaves : Len(g[n].outputs) <= 1
            THEN {"values used once"} ELSE {})
      \cup (IF \A n \in leaves : Len(g[n].outputs) <= 1 THEN {"leaves used once"} ELSE {})
      \cup (IF left > 0 \/ g[LastNode(g)].op = "matmul" THEN {"matmul last"} ELSE {})

Leaves(numInputs, numConsts) ==
  [i \in 1 .. numInputs + numConsts |->
     IF i <= numInputs THEN Node("input", << >>, << 1, 1 >>) ELSE Node("const", << >>, << >>)]

Calls(g, ops) ==
  {c \in UNION {{op} \X [1 .. Op[op].arity -> Nodes(g)] : op \in ops} : Callable(g, c[1], c[2])}

Extended(g, ops) ==
  {add_node(g, c[1], c[2], ResultShape(g, c[1], c[2])) : c \in Calls(g, ops)}

Built(leaves, count, ops, restrictions) ==
  LET admitted(g, left) == Valid(g) /\ restrictions \subseteq Satisfied(g, left)
      built[k \in 0 .. count] ==
        IF k = 0 THEN {leaves}
        ELSE UNION {{h \in Extended(g, ops) : admitted(h, count - k)} : g \in built[k - 1]}
  IN  built[count]

GraphsOf(numInputs, numConsts, maxCompute, ops, restrictions) ==
  UNION {{rebuild_outputs(topo_sort(g)) :
            g \in Built(Leaves(numInputs, numConsts), k, ops, restrictions)} : k \in 1 .. maxCompute}
=============================================================================
