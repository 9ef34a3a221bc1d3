---------------------------- MODULE MCForwardPass ----------------------------
(* Graphs for checking ForwardPass. *)
EXTENDS ForwardPass, MCGraphs

\* Values, inputs and operands shared and repeated freely, several outputs; and smaller graphs
\* with constants, activations and unused leaves.
AnyGraphs ==
  GraphsOf(2, 0, 3, {"matmul", "sub"}, {"leaves used"})
    \cup GraphsOf(2, 1, 2, {"matmul", "mul", "tanh", "gelu"}, {})

\* Expressions over three inputs.
Trees == GraphsOf(3, 0, 3, {"matmul", "sub"}, {"one output", "values used once"})

\* Nothing to compute.
OnlyLeaves == {Leaves(1, 0), Leaves(1, 1)}

ForwardGraphs == AnyGraphs \cup Trees \cup OnlyLeaves

\* One operation with its operands in either order.
OneOperation == GraphsOf(2, 0, 1, {"sub"}, {"leaves used"})

\* Values used by several nodes.
SharedValues == GraphsOf(3, 0, 3, {"matmul", "add"}, {"one output", "distinct operands"})
==============================================================================
