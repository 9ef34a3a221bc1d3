------------------------------ MODULE Bindings ------------------------------
(***************************************************************************)
(* The parameters a lowered pass declares and the buffers the scheduler    *)
(* binds to them.  Both are lists, matched by position: the lowering pass  *)
(* numbers its parameters, and GpuContext::schedule lists the buffers      *)
(* anew, from what alloc_tensors made of the save indicators and from the  *)
(* caller's input tensors, which come in the order of the graph's inputs.  *)
(***************************************************************************)
EXTENDS KernelIR

Meta == << "meta", 0 >>

Inputs(g) == Ascending({n \in Nodes(g) : g[n].op = "input"})
DefinedInForward(saved) == Ascending({n \in DOMAIN saved : is_defined_in_forward(saved, n)})
DefinedInBackward(saved) == Ascending({n \in DOMAIN saved : is_defined_in_backward(saved, n)})

Each(tensor(_), nodes) == [k \in DOMAIN nodes |-> tensor(nodes[k])]

\* ensure_param_slot meets the operands node by node; an input gets its parameter at its first use.
OperandUses(g) == FlattenSeq([n \in Nodes(g) |-> g[n].inputs])
FirstUses(g) ==
  LET uses == OperandUses(g)
  IN  {k \in DOMAIN uses : g[uses[k]].op = "input" /\ \A h \in 1 .. k - 1 : uses[h] # uses[k]}

UsedInputs(g) ==
  LET uses == OperandUses(g)
      at == Ascending(FirstUses(g))
  IN  [j \in DOMAIN at |-> uses[at[j]]]

forward_params(g, saved) ==
  << Meta >> \o Each(Saved, DefinedInForward(saved)) \o Each(In, UsedInputs(g)) \o << Out >>

\* Slip: the output is bound before the inputs.
forward_bindings_output_first(g, saved) ==
  << Meta >> \o Each(Saved, DefinedInForward(saved)) \o << Out >> \o Each(In, Inputs(g))

forward_bindings(g, saved) ==
  << Meta >> \o Each(Saved, DefinedInForward(saved)) \o Each(In, Inputs(g)) \o << Out >>

backward_params(g, saved) ==
  << Meta, Seed >> \o Each(Grad, DefinedInBackward(saved)) \o Each(In, Inputs(g))
                   \o Each(Saved, DefinedInForward(saved))

\* Slip: the kept values come before the inputs, as in the forward pass.
backward_bindings_as_forward(g, saved) ==
  << Meta, Seed >> \o Each(Grad, DefinedInBackward(saved)) \o Each(Saved, DefinedInForward(saved))
                   \o Each(In, Inputs(g))

backward_bindings(g, saved) ==
  << Meta, Seed >> \o Each(Grad, DefinedInBackward(saved)) \o Each(In, Inputs(g))
                   \o Each(Saved, DefinedInForward(saved))

-----------------------------------------------------------------------------
(* Vocabulary for the properties. *)

\* The first uses of the inputs come in the order of the inputs.
InputsUsedInOrder(g) ==
  LET uses == OperandUses(g)
  IN  \A h, k \in FirstUses(g) : h < k => uses[h] < uses[k]

\* Every parameter a launched kernel uses is bound to the tensor it was declared for, and no
\* buffer is bound that was not declared (schedule would index params out of its bounds).
BoundAsDeclared(chain, schedule, params, bindings) ==
  schedule # << >> =>
    /\ Len(bindings) = Len(params)
    /\ \A p \in DOMAIN schedule :
         LET k == chain[schedule[p].kernel].kernel
         IN  \A t \in k.reads \cup k.writes : \E s \in DOMAIN params : params[s] = t /\ bindings[s] = t
=============================================================================
