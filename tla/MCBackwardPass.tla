---------------------------- MODULE MCBackwardPass ----------------------------
(* Graphs for checking BackwardPass. *)
EXTENDS BackwardPass, MCGraphs

\* Values and inputs shared by several nodes under a final product, operations that keep no
\* operand value.
SharedGraphs ==
  GraphsOf(3, 0, 3, {"matmul", "sub"}, {"one output", "distinct operands", "matmul last"})

\* Expression trees, with operations whose derivatives read their operands.
Trees ==
  GraphsOf(3, 0, 3, {"matmul", "mul", "div", "neg"},
           {"one output", "values used once", "leaves used once", "distinct operands"})

\* The output is reached in the first sweep, by the kernel of input 1, and again, by a chain of
\* products, in a later one.
LateOutput ==
  LET leaves == Leaves(2, 0)
      call == << << "matmul", << 1, 2 >> >>, << "matmul", << 1, 2 >> >>, << "matmul", << 4, 2 >> >>,
                 << "matmul", << 5, 2 >> >>, << "add", << 1, 3 >> >>, << "matmul", << 7, 6 >> >> >>
      built[k \in 0 .. Len(call)] ==
        IF k = 0 THEN leaves ELSE add_node(built[k - 1], call[k][1], call[k][2], << 1, 1 >>)
  IN  rebuild_outputs(topo_sort(built[Len(call)]))

\* Activations, whether or not their values are kept; gelu where no derivative reads what it keeps.
Activations ==
  GraphsOf(3, 0, 3, {"matmul", "mul", "tanh"},
           {"one output", "values used once", "leaves used once", "distinct operands"})
    \cup GraphsOf(1, 0, 3, {"neg", "tanh", "gelu"}, {"one output"})

BackwardGraphs == SharedGraphs \cup Trees \cup Activations \cup {LateOutput}

\* The first node used by the second.
Residual == GraphsOf(2, 0, 2, {"matmul", "add"}, {"one output", "distinct operands"})

\* Two products that may share an operand.
TiedWeight == GraphsOf(2, 0, 2, {"matmul"}, {"one output", "distinct operands"})
===============================================================================
