--------------------------- MODULE LibraryMeaning ---------------------------
(***************************************************************************)
(* What the operations of std_lib mean, and that their kernels compute it,  *)
(* as they were lowered and after each pass of the optimizer.  Derivatives  *)
(* are those of the functions; where a function has none (at 0), nothing    *)
(* is claimed.                                                              *)
(***************************************************************************)
EXTENDS KernelOptimizer, KernelLibrary

Squared(x) == (x * x) % Modulus
Over(x, y) == Compute("Div", x, y, 0)

\* The argument of tanh in gelu, and its derivative.
GeluArgument(x) == (4 * (x + 2 * x * x * x)) % Modulus
GeluSlope(x) == (4 * (1 + 2 * 3 * x * x)) % Modulus

\* The values of the operations, at operands a and b.
ValueOf(name, a, b) ==
  CASE name = "add" -> (a + b) % Modulus
    [] name = "sub" -> (a - b) % Modulus
    [] name = "mul" -> (a * b) % Modulus
    [] name = "div" -> Over(a, b)
    [] name = "log" -> Table.Log[a + 1]
    [] name = "exp" -> Table.Exp[a + 1]
    [] name = "tanh" -> Table.Tanh[a + 1]
    [] name = "neg" -> (-a) % Modulus
    [] name = "abs" -> IF Negative(a) THEN (-a) % Modulus ELSE a
    [] name = "relu" -> IF Negative(a) THEN 0 ELSE a
    [] name = "elu" -> IF Negative(a) THEN (Table.Exp[a + 1] - 1) % Modulus ELSE a
    [] name = "gelu" -> (3 * a * (1 + Table.Tanh[GeluArgument(a) + 1])) % Modulus

\* What a kernel stores for the node, which is all that its gradient can load: the value, but
\* for gelu the tanh that its value is computed from.
Kept(name, a, b) ==
  IF name = "gelu" THEN Table.Tanh[GeluArgument(a) + 1] ELSE ValueOf(name, a, b)

\* The derivatives along the first operand, and along the second.
Derivative(name, a, b) ==
  CASE name \in {"add", "sub"} -> 1
    [] name = "mul" -> b
    [] name = "div" -> Over(1, b)
    [] name = "log" -> Over(1, a)
    [] name = "exp" -> Table.Exp[a + 1]
    [] name = "tanh" -> (1 - Squared(Table.Tanh[a + 1])) % Modulus
    [] name = "neg" -> Modulus - 1
    [] name = "abs" -> IF Negative(a) THEN Modulus - 1 ELSE 1
    [] name = "relu" -> IF Negative(a) THEN 0 ELSE 1
    [] name = "elu" -> IF Negative(a) THEN Table.Exp[a + 1] ELSE 1
    [] name = "gelu" ->
         LET t == Table.Tanh[GeluArgument(a) + 1]
         IN (3 * (1 + t + (1 - Squared(t)) * a * GeluSlope(a))) % Modulus

SecondDerivative(name, a, b) ==
  CASE name = "add" -> 1
    [] name = "sub" -> Modulus - 1
    [] name = "mul" -> a
    [] name = "div" -> (-Over(a, Squared(b))) % Modulus

\* The losses, and their derivatives, at the prediction and the target.
LossOf(name, a, b, col) ==
  CASE name = "mse" -> <<Squared(a - b), (2 * (a - b)) % Modulus>>
    [] name = "ce" -> IF b = col THEN <<(-Table.Log[a + 1]) % Modulus, (a - 1) % Modulus>>
                      ELSE <<0, a>>

----------------------------------------------------------------------------
Stores(inputs, out) == Range(Results(kernel, inputs)) = out

ForwardIsRight(name) == \A i \in Inputs : Stores(i, {<<"out", Kept(name, i.a, i.b)>>})

GradientIsRight(name, derivative(_, _, _)) ==
  \A i \in Inputs :
    i.a # 0 => Stores([i EXCEPT !.own = Kept(name, i.a, i.b)],
                      {<<"out", (i.g * derivative(name, i.a, i.b)) % Modulus>>})

LossIsRight(name) ==
  \A i \in Inputs :
    LET both == LossOf(name, i.a, i.b, i.col)
    IN Stores(i, {<<"loss", both[1]>>, <<"out", both[2]>>})

\* Activations whose gradients lose what they need to know of the operand, and those whose
\* kernels are no valid shaders.
LossyActivations == {"log", "abs", "relu", "gelu"}
Uncompiled == {"elu"}

(***************************************************************************)
(* The kernels of std_lib compute their operation, the gradients of its     *)
(* operands, and the losses and their gradients, whatever passes they have  *)
(* gone through.  Left out are the activations above, the value of gelu,    *)
(* which is not stored, and binary cross entropy, whose loss takes the      *)
(* logarithm of one minus the target.                                       *)
(***************************************************************************)
KernelsComputeTheirOperation ==
  /\ \A name \in DOMAIN Forward \ Uncompiled : source = Forward[name] => ForwardIsRight(name)
  /\ \A name \in DOMAIN Gradient \ (LossyActivations \cup Uncompiled) :
       source = Gradient[name] => GradientIsRight(name, Derivative)
  /\ \A name \in DOMAIN SecondGradient :
       source = SecondGradient[name] => GradientIsRight(name, SecondDerivative)
  /\ \A name \in {"mse", "ce"} : source = Losses[name] => LossIsRight(name)

(***************************************************************************)
(* The same of the gradients of relu and abs: "Other unary/binary           *)
(* operations are likely trivially correct" (src/README.md).  They test the *)
(* value of the node itself, which is never negative, where the sign of the *)
(* operand decides.                                                         *)
(***************************************************************************)
DerivativesAreRight ==
  \A name \in {"relu", "abs"} :
    source = Gradient[name] => GradientIsRight(name, Derivative)
=============================================================================
