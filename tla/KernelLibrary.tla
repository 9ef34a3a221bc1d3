---------------------------- MODULE KernelLibrary ----------------------------
(***************************************************************************)
(* The kernels of single operations, as std_lib lowers them: the forward    *)
(* kernel of an operation on inputs, the kernel of the gradient of an       *)
(* operand, and the loss kernels.  Indices, and the values they are         *)
(* computed from, are left out.                                             *)
(*                                                                         *)
(* Parameters: "a" and "b" are the operands (of a loss: the prediction and  *)
(* the target), "own" is what the node itself has kept, "g" its gradient,   *)
(* "col" the column of the invocation.  What is stored goes to "out", going *)
(* forward the parameter that keeps the value of the node.                  *)
(***************************************************************************)
EXTENDS KernelValues

I(init) == Value("Inline", init)
L(init) == Value("Immut", init)

Define(k, defs) == FoldLeft(def_value, k, defs)

\* A variable, and what is loaded into it or added to it.
Loaded(k, param) ==
  overwrite_var(def_var(k, "Mut", Const(0)), Len(k.values) + 1, ParamLoad(param))
LoadedInto(k, param) ==
  overwrite_var(def_var(k, "Mut", NoInit), Len(k.values) + 1, ParamLoad(param))
Accumulated(k, param) ==
  accum_var(def_var(k, "Mut", Const(0)), Len(k.values) + 1, ParamLoad(param))

----------------------------------------------------------------------------
(* Operations with two operands.  1 is out, 2 and 4 are the operands.       *)

Binary(op) ==
  LET operands == LoadedInto(LoadedInto(def_var(EmptyKernel, "Mut", NoInit), "a"), "b")
  IN param_store(overwrite_var(operands, 1, <<op, 2, 4>>), "out", 1)

\* The gradient of an operand: 1 is out, 2 the gradient of the node.
BinaryGradient(defs, init) ==
  LET upstream == Accumulated(def_var(EmptyKernel, "Mut", Const(0)), "g")
  IN param_store(accum_var(Define(upstream, defs), 1, init), "out", 1)

AddGradient == param_store(accum_var(def_var(EmptyKernel, "Mut", Const(0)), 1, ParamLoad("g")), "out", 1)

\* read_saved of a value that was kept.
read_saved(param) == L(ParamLoad(param))

----------------------------------------------------------------------------
(* Operations with one operand.  Forward, 1 is out and 2 the operand;       *)
(* backward, 1 is out, 2 the saved value and 4 the gradient of the node.    *)

Evaluated(defs, init) ==
  overwrite_var(Define(Loaded(def_var(EmptyKernel, "Mut", NoInit), "a"), defs), 1, init)
Unary(defs, init) == param_store(Evaluated(defs, init), "out", 1)

Upstream(param) ==
  Accumulated(Accumulated(def_var(EmptyKernel, "Mut", Const(0)), param), "g")

UnaryGradient(defs, init) ==
  param_store(accum_var(Define(Upstream("own"), defs), 1, init), "out", 1)

elu_values ==
  << I(Const(0)), I(Const(1)), I(<<"Exp", 2>>), I(<<"Sub", 6, 5>>), Flag(<<"Ge", 2, 4>>) >>

elu_gradient ==
  << I(Const(0)), I(Const(1)), I(<<"Add", 2, 7>>), I(<<"Mul", 4, 8>>), Flag(<<"Ge", 2, 6>>) >>

\* The saved value is declared, not loaded: 2, the gradient of the node is 3.
NegGradient ==
  LET saved == def_var(def_var(EmptyKernel, "Mut", Const(0)), "Mut", Const(0))
  IN param_store(accum_var(Accumulated(saved, "g"), 1, <<"Neg", 3>>), "out", 1)

\* Slip: one minus the saved value, not one minus its square.
tanh_gradient_unsquared == << I(Const(1)), I(<<"CopyVar", 2>>), I(<<"Sub", 6, 7>>) >>

tanh_gradient == << I(Const(1)), I(<<"Mul", 2, 2>>), I(<<"Sub", 6, 7>>) >>

\* The constants are 0.044715, sqrt(2/pi), 0.5 and 1.
gelu_values ==
  << I(Const(2)), I(Const(4)), I(Const(3)), I(Const(1)),
     I(<<"Mul", 2, 2>>), I(<<"Mul", 8, 2>>), I(<<"Mul", 9, 4>>), I(<<"Add", 2, 10>>),
     I(<<"Mul", 5, 11>>), I(<<"Tanh", 12>>), I(<<"Add", 7, 13>>), I(<<"Mul", 6, 2>>) >>

\* Its value of tanh is what is stored, and not its result.
gelu == param_store(Evaluated(gelu_values, <<"Mul", 15, 14>>), "out", 13)

\* The constants are 0.5, 1, 3, 0.044715 and sqrt(2/pi).
gelu_gradient ==
  << I(Const(3)), I(Const(1)), I(Const(3)), I(Const(2)), I(Const(4)),
     Value("Const", <<"Mul", 9, 8>>),
     I(<<"Mul", 2, 2>>), L(<<"Add", 7, 2>>), I(<<"Mul", 2, 2>>), L(<<"Sub", 7, 14>>),
     I(<<"Mul", 11, 12>>), I(<<"Add", 7, 16>>), L(<<"Mul", 10, 17>>), L(<<"Mul", 2, 18>>),
     L(<<"Mul", 15, 19>>), L(<<"Add", 13, 20>>), L(<<"Mul", 6, 21>>) >>

\* The gradient is added under a condition on the saved value.
ReluGradient ==
  LET test == Define(Upstream("own"), << I(Const(0)), Flag(<<"Ge", 2, 6>>) >>)
  IN param_store(end_scope(accum_var(push_if(test, 7), 1, <<"CopyVar", 4>>)), "out", 1)

\* The gradient is added, subtracted, or left alone, under two conditions on
\* the saved value, which are the same one.
AbsGradient ==
  LET test == Define(Upstream("own"),
                     << I(Const(0)), I(<<"Ge", 2, 6>>), I(<<"Ge", 2, 6>>) >>)
      positive == accum_var(push_if(test, 7), 1, <<"CopyVar", 4>>)
      negative == accum_var(push_if(push_else(positive), 8), 1, <<"Neg", 4>>)
      neither == accum_var(push_else(negative), 1, Const(0))
  IN param_store(end_scope(end_scope(neither)), "out", 1)

----------------------------------------------------------------------------
(* Loss kernels: 1 is the prediction, 2 the target.                         *)

Loss(defs, loss, grad) ==
  LET loaded == Define(EmptyKernel, << L(ParamLoad("a")), L(ParamLoad("b")) >> \o defs)
  IN param_store(param_store(loaded, "loss", loss), "out", grad)

MEAN_SQUARED_ERROR ==
  Loss(<< L(<<"Sub", 1, 2>>), L(<<"Mul", 3, 3>>), I(Const(2)), L(<<"Mul", 5, 3>>) >>, 4, 6)

BINARY_CROSS_ENTROPY ==
  Loss(<< I(Const(1)), L(<<"Log", 1>>), L(<<"Sub", 3, 2>>), L(<<"Sub", 3, 2>>),
          L(<<"Log", 6>>), L(<<"Mul", 2, 4>>), L(<<"Mul", 5, 7>>), L(<<"Sub", 9, 8>>),
          L(<<"Sub", 1, 2>>) >>, 10, 11)

\* The target is a class, and the row and column decide what is stored.
CROSS_ENTROPY ==
  LET loaded == Define(EmptyKernel,
                  << L(ParamLoad("a")), [L(ParamLoad("b")) EXCEPT !.float = FALSE],
                     [L(ParamLoad("col")) EXCEPT !.float = FALSE], Flag(<<"Eq", 2, 3>>),
                     Value("Mut", Const(0)), Value("Mut", <<"CopyVar", 1>>) >>)
      test == Define(push_if(loaded, 4), << I(Const(1)), I(<<"Log", 1>>) >>)
      set == overwrite_var(overwrite_var(test, 5, <<"Neg", 8>>), 6, <<"Sub", 1, 7>>)
  IN param_store(param_store(end_scope(set), "loss", 5), "out", 6)

----------------------------------------------------------------------------
Forward ==
  [add |-> Binary("Add"), sub |-> Binary("Sub"), mul |-> Binary("Mul"), div |-> Binary("Div"),
   log |-> Unary(<<>>, <<"Log", 2>>), tanh |-> Unary(<<>>, <<"Tanh", 2>>),
   exp |-> Unary(<<>>, <<"Exp", 2>>), abs |-> Unary(<<>>, <<"Abs", 2>>),
   neg |-> Unary(<<>>, <<"Neg", 2>>), relu |-> Unary(<<I(Const(0))>>, <<"Max", 2, 4>>),
   elu |-> Unary(elu_values, <<"Select", 8, 2, 7>>), gelu |-> gelu]

\* Along the first operand.
Gradient ==
  [add |-> AddGradient, sub |-> AddGradient,
   mul |-> BinaryGradient(<<read_saved("b")>>, <<"Mul", 2, 4>>),
   div |-> BinaryGradient(<<read_saved("b")>>, <<"Div", 2, 4>>),
   log |-> UnaryGradient(<<>>, <<"Div", 4, 2>>), exp |-> UnaryGradient(<<>>, <<"Mul", 4, 2>>),
   tanh |-> UnaryGradient(tanh_gradient, <<"Mul", 4, 8>>), abs |-> AbsGradient,
   elu |-> UnaryGradient(elu_gradient, <<"Select", 10, 4, 9>>), relu |-> ReluGradient,
   neg |-> NegGradient,
   gelu |-> UnaryGradient(gelu_gradient, <<"Mul", 4, 22>>)]

\* Along the second operand.
SecondGradient ==
  [add |-> AddGradient, sub |-> BinaryGradient(<<>>, <<"Neg", 2>>),
   mul |-> BinaryGradient(<<read_saved("a")>>, <<"Mul", 2, 4>>),
   div |-> BinaryGradient(<<read_saved("a"), read_saved("b"), I(<<"Mul", 5, 5>>),
                            I(<<"Neg", 2>>), I(<<"Div", 4, 6>>)>>, <<"Mul", 7, 8>>)]

Losses ==
  [mse |-> MEAN_SQUARED_ERROR, bce |-> BINARY_CROSS_ENTROPY, ce |-> CROSS_ENTROPY]
=============================================================================
