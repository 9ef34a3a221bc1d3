------------------------- MODULE MCKernelOptimizer -------------------------
EXTENDS LibraryMeaning

CONSTANT Flags

MCInputs ==
  { [a |-> a, b |-> (a + 3) % Modulus, own |-> 2, g |-> 2, col |-> (2 * a + 3) % Modulus] :
      a \in Number }

LibraryKernels ==
  UNION {Range(Forward), Range(Gradient), Range(SecondGradient), Range(Losses)}

\* Kernels of two operations on a parameter, a constant that may be a variable
\* and may be assigned to between the two, and the result of the first.
\* 1 is the parameter, 2 the constant.
Constants ==
  { def_var(def_var(EmptyKernel, "Immut", ParamLoad("a")), state, Const(c)) :
      state \in {"Inline", "Mut"}, c \in 0 .. 2 }

FirstOps == { <<op, p[1], p[2]>> : op \in {"Add", "Mul", "Div"},
                                   p \in {<<1, 2>>, <<2, 1>>, <<2, 2>>} }
SecondOps(id) == { <<op, p[1], p[2]>> : op \in {"Add", "Sub", "Mul", "Div"},
                                        p \in {<<id, 1>>, <<2, id>>, <<id, 2>>} }

SmallKernels ==
  LET firsts == { def_var(k, state, init) :
                    k \in Constants, state \in {"Inline", "Immut"}, init \in FirstOps }
      mutated == { overwrite_var(k, 2, ParamLoad("b")) :
                     k \in {k \in firsts : k.values[2].state = "Mut"} }
  IN UNION { { LET d == def_var(k, "Inline", init)
               IN param_store(d, "out", Len(d.values)) : init \in SecondOps(3) } :
             k \in firsts \cup mutated }

MCKernels == LibraryKernels \cup { k \in SmallKernels : Disciplined(k) }
GradientKernels == Range(Gradient)

\* Everything on, one pass off, one pass alone.
MCFlagSets ==
  {Flags} \cup {Flags \ {f} : f \in Flags} \cup {{f} : f \in Flags}
=============================================================================
