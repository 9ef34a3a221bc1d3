--------------------------- MODULE KernelOptimizer ---------------------------
(***************************************************************************)
(* optimize: the peephole passes over one kernel.  Each pass goes over the  *)
(* values in their order and rewrites them in place.                        *)
(***************************************************************************)
EXTENDS KernelValues

CONSTANTS Kernels,   \* the kernels to optimize
          FlagSets,  \* the choices of options.opt.flags
          Inputs,    \* what the parameters of a kernel may hold
          Passes     \* options.opt.passes

ASSUME PassesAssumption == Passes \in Nat \ {0}

VARIABLES source,  \* the kernel as it was lowered
          kernel,  \* the kernel as it has been rewritten
          flags,   \* options.opt.flags
          pc,      \* what optimize does next
          round    \* which execution of the loop over the passes

vars == <<source, kernel, flags, pc, round>>

----------------------------------------------------------------------------
(* The passes, at one value.                                                *)

Live(k, id) == k.values[id].state # "Masked"
IsMut(k, id) == k.values[id].state = "Mut"
InitOf(k, id) == k.values[id].init
InitOp(k, id) == k.values[id].init[1]
Replace(k, id, init) == [k EXCEPT !.values[id].init = init]
Mask(k, id) == [k EXCEPT !.values[id].state = "Masked"]

Used(k, id) ==
  \/ \E i \in DOMAIN k.ops : ReadsValue(k.ops[i], id) /\ ~WritesValue(k.ops[i], id)
  \/ \E i \in DOMAIN k.values : id \in Operands(InitOf(k, i))

EraseWrites(k, id) ==
  [k EXCEPT !.ops = [i \in DOMAIN k.ops |->
     IF WritesValue(k.ops[i], id) THEN Statement("Nop", 0, 0) ELSE k.ops[i]]]

DeadCode(k, id) ==
  IF Live(k, id) /\ ~Used(k, id) THEN EraseWrites(Mask(k, id), id) ELSE k

\* The product of m becomes part of the sum at id, with c the other term.
Fuse(k, id, m, c) == Replace(Mask(k, m), id, <<"Fma", InitOf(k, m)[2], InitOf(k, m)[3], c>>)

MulAdd(k, id) ==
  LET init == InitOf(k, id) IN
  CASE ~Live(k, id) \/ ~k.values[id].float \/ init[1] # "Add" -> k
    [] InitOp(k, init[2]) = "Mul" -> Fuse(k, id, init[2], init[3])
    [] InitOp(k, init[3]) = "Mul" -> Fuse(k, id, init[3], init[2])
    [] OTHER -> k

DivConst(k, id) ==
  LET init == InitOf(k, id) IN
  IF /\ Live(k, id) /\ k.values[id].float /\ init[1] = "Div"
     /\ ~IsMut(k, init[3]) /\ InitOp(k, init[3]) = "Const"
  THEN Replace(Replace(k, init[3], Const(Recip(InitOf(k, init[3])[2]))),
               id, <<"Mul", init[2], init[3]>>)
  ELSE k

\* Slip: a variable is taken for the constant it was declared with.
FoldableAtFirst(k, id) == InitOp(k, id) = "Const"

Foldable(k, id) == ~IsMut(k, id) /\ InitOp(k, id) = "Const"

ConstFold(k, id) ==
  LET init == InitOf(k, id)
      c(i) == IF i <= Len(init) THEN InitOf(k, init[i])[2] ELSE 0
  IN IF /\ Live(k, id) /\ init[1] \in {"Add", "Sub", "Mul", "Div", "Fma"}
        /\ \A i \in Operands(init) : Foldable(k, i)
     THEN Replace(k, id, Const(Compute(init[1], c(2), c(3), c(4))))
     ELSE k

IsZero(k, id) == ~IsMut(k, id) /\ is_zero(InitOf(k, id))
IsOne(k, id) == ~IsMut(k, id) /\ is_one(InitOf(k, id))

Identity(k, id) ==
  LET init == InitOf(k, id)
      Copy(i) == Replace(k, id, <<"CopyVar", init[i]>>)
  IN CASE ~Live(k, id) -> k
       [] init[1] = "Add" /\ IsZero(k, init[2]) -> Copy(3)
       [] init[1] \in {"Add", "Sub"} /\ IsZero(k, init[3]) -> Copy(2)
       [] init[1] \in {"Mul", "Div"} /\ IsOne(k, init[3]) -> Copy(2)
       [] init[1] = "Mul" /\ IsOne(k, init[2]) -> Copy(3)
       [] OTHER -> k

----------------------------------------------------------------------------
\* A pass goes over the values in their order.
Ids == [id \in DOMAIN kernel.values |-> id]

\* What the pass makes of the kernel counts if the pass is switched on.
Pass(rewritten, flag) == kernel' = IF flag \in flags THEN rewritten ELSE kernel

Init ==
  /\ source \in Kernels
  /\ kernel = source
  /\ flags \in FlagSets
  /\ pc = "deadCode" /\ round = 1

Goto(at, label) == pc = at /\ pc' = label /\ UNCHANGED <<source, flags, round>>

dead_code_elimination == Goto("deadCode", "mulAdd") /\ Pass(FoldLeft(DeadCode, kernel, Ids), "DEAD_CODE")
mul_add == Goto("mulAdd", "divConst") /\ Pass(FoldLeft(MulAdd, kernel, Ids), "MUL_ADD")
div_const == Goto("divConst", "constFold") /\ Pass(FoldLeft(DivConst, kernel, Ids), "DIV_CONST")
const_fold == Goto("constFold", "identity") /\ Pass(FoldLeft(ConstFold, kernel, Ids), "CONST_FOLD")
identity == Goto("identity", "eraseNops") /\ Pass(FoldLeft(Identity, kernel, Ids), "IDENTITY")

erase_nops ==
  /\ pc = "eraseNops"
  /\ kernel' = [kernel EXCEPT !.ops = SelectSeq(@, LAMBDA st : st.op # "Nop")]
  /\ pc' = IF round < Passes THEN "deadCode" ELSE "last"
  /\ round' = IF round < Passes THEN round + 1 ELSE round
  /\ UNCHANGED <<source, flags>>

last_elimination == Goto("last", "done") /\ Pass(FoldLeft(DeadCode, kernel, Ids), "DEAD_CODE")

Next ==
  \/ dead_code_elimination \/ mul_add \/ div_const \/ const_fold \/ identity
  \/ erase_nops \/ last_elimination

Spec == Init /\ [][Next]_vars

----------------------------------------------------------------------------
(***************************************************************************)
(* The kernels the passes are meant for.  A term of a sum that is or may    *)
(* become a product is read by that sum alone, is not a variable, and would *)
(* have the same value if it were computed where the sum is.  A divisor     *)
(* that is or may become a constant is read by that division alone.         *)
(***************************************************************************)
Uses(k, id) ==
  Cardinality({<<i, j>> \in (DOMAIN k.values) \X (2 .. 4) :
                 /\ InitOp(k, i) \notin Leaves
                 /\ j <= Len(InitOf(k, i)) /\ InitOf(k, i)[j] = id})
  + Cardinality({i \in DOMAIN k.ops : ReadsValue(k.ops[i], id)})

\* The value is the same wherever it is evaluated after its definition.
Steady(k) ==
  LET steady[id \in DOMAIN k.values] ==
        CASE IsMut(k, id) -> FALSE
          [] k.values[id].state = "Inline" ->
               \A i \in Operands(InitOf(k, id)) : steady[i]
          [] OTHER -> TRUE
  IN steady

FusesSafely(k, m) ==
  /\ Uses(k, m) = 1
  /\ ~IsMut(k, m)
  /\ k.values[m].state = "Inline" \/ \A i \in Operands(InitOf(k, m)) : Steady(k)[i]

Disciplined(k) ==
  \A id \in DOMAIN k.values :
    /\ InitOp(k, id) = "Add" =>
         \A m \in Operands(InitOf(k, id)) : InitOp(k, m) \in {"Mul", "Div"} => FusesSafely(k, m)
    /\ InitOp(k, id) = "Div" =>
         LET d == InitOf(k, id)[3]
         IN IsMut(k, d) \/ InitOp(k, d) = "ParamLoad" \/ Uses(k, d) = 1

(***************************************************************************)
(* Whatever passes are switched on, after every one of them the kernel      *)
(* stores what it stored as it was lowered: no value is read that is not    *)
(* rendered any more, no value is folded that may still change, and no      *)
(* value is changed under another one that reads it.                        *)
(***************************************************************************)
ResultsArePreserved ==
  Disciplined(source) =>
    \A inputs \in Inputs : Results(kernel, inputs) = Results(source, inputs)
=============================================================================
