---------------------------- MODULE KernelValues ----------------------------
(***************************************************************************)
(* The inside of a kernel: its values and statements, the builder methods   *)
(* of RawKernel, and what the shader text generated from them computes.     *)
(*                                                                         *)
(* A value is [state, float, init].  Its initializer is a tuple, <<"Const", *)
(* c>>, <<"ParamLoad", p>>, <<"None">>, or an operation and the values it   *)
(* reads.  A statement is [op, id, val]: id is what it writes (a variable,  *)
(* or the parameter stored to) and val the value it reads, 0 if none.       *)
(* Statements of the loops and tiles of products are in KernelLaunch.       *)
(*                                                                         *)
(* Numbers are the integers modulo 5, the upper two of them negative:       *)
(* addition and multiplication have their laws, rounding is left out, and   *)
(* 1/0 is 0, so that x/0 = x * (1/0) as with infinities.  The functions     *)
(* exp, log and tanh are tables that tell arguments apart and have the      *)
(* right values at 0 and the right signs.                                   *)
(***************************************************************************)
EXTENDS Integers, FiniteSets, SequencesExt

Modulus == 5
Number == 0 .. Modulus - 1

\* The outcome of a text that does not compile: a name that is not declared,
\* an expression one part of which was rendered as nothing, or a call that has
\* arguments of the wrong types.
Invalid == Modulus

----------------------------------------------------------------------------
(* The builder.                                                             *)

EmptyKernel == [values |-> <<>>, ops |-> <<>>]

Const(c) == <<"Const", c>>
ParamLoad(p) == <<"ParamLoad", p>>
NoInit == <<"None">>

Value(state, init) == [state |-> state, float |-> TRUE, init |-> init]
Flag(init) == [state |-> "Inline", float |-> FALSE, init |-> init]
Statement(op, id, val) == [op |-> op, id |-> id, val |-> val]

Push(k, op, id, val) == [k EXCEPT !.ops = Append(@, Statement(op, id, val))]

def_value(k, value) ==
  Push([k EXCEPT !.values = Append(@, value)], "DefineVar", Len(k.values) + 1, 0)
def_var(k, state, init) == def_value(k, Value(state, init))

Assign(k, op, id, init) ==
  LET d == def_value(k, [Value("Inline", init) EXCEPT !.float = k.values[id].float])
  IN Push(d, op, id, Len(d.values))
overwrite_var(k, id, init) == Assign(k, "OverwriteVar", id, init)
accum_var(k, id, init) == Assign(k, "AddAssign", id, init)

param_store(k, param, val) == Push(k, "ParamStore", param, val)
push_if(k, cond) == Push(k, "IfBegin", 0, cond)
end_scope(k) == Push(k, "EndScope", 0, 0)
push_else(k) == Push(end_scope(k), "ElseBegin", 0, 0)

----------------------------------------------------------------------------
(* What operations read and write.                                          *)

Leaves == {"Const", "ParamLoad", "None"}
Operands(init) == IF init[1] \in Leaves THEN {} ELSE Range(Tail(init))

\* does_read and does_write of a statement; an initializer writes nothing.
ReadsValue(s, id) == s.val = id
WritesValue(s, id) == s.op \in {"DefineVar", "OverwriteVar", "AddAssign"} /\ s.id = id

is_zero(init) == init = Const(0)
is_one(init) == init = Const(1)

----------------------------------------------------------------------------
(* The arithmetic.                                                          *)

Negative(x) == x > Modulus \div 2
Signed(x) == IF Negative(x) THEN x - Modulus ELSE x
Recip(x) == IF x = 0 THEN 0 ELSE CHOOSE y \in Number : (x * y) % Modulus = 1

\* Functions of one argument, at 0, 1, 2, -2 and -1.
Table == [Exp |-> <<1, 3, 2, 4, 0>>, Log |-> <<2, 0, 1, 4, 3>>, Tanh |-> <<0, 2, 1, 4, 3>>]

\* A selection has the condition as its first argument: select of WGSL, which takes it last and
\* two numbers before it, has no overload for that.
Compute(op, x, y, z) ==
  CASE op = "Add" -> (x + y) % Modulus
    [] op = "Sub" -> (x - y) % Modulus
    [] op = "Mul" -> (x * y) % Modulus
    [] op = "Div" -> (x * Recip(y)) % Modulus
    [] op = "Fma" -> (x * y + z) % Modulus
    [] op = "Neg" -> (-x) % Modulus
    [] op = "Abs" -> IF Negative(x) THEN (-x) % Modulus ELSE x
    [] op \in DOMAIN Table -> Table[op][x + 1]
    [] op = "Max" -> IF Signed(x) < Signed(y) THEN y ELSE x
    [] op = "Ge" -> IF Signed(x) >= Signed(y) THEN 1 ELSE 0
    [] op = "Eq" -> IF x = y THEN 1 ELSE 0
    [] op = "Select" -> Invalid
    [] op = "CopyVar" -> x

----------------------------------------------------------------------------
(* The generated shader.                                                    *)

\* What an initializer evaluates to where it is rendered, given the values.
Evaluate(init, val, inputs) ==
  LET arg(i) == IF i <= Len(init) THEN val[init[i]] ELSE 0
  IN CASE init[1] = "Const" -> init[2]
       [] init[1] = "ParamLoad" -> inputs[init[2]]
       [] init[1] = "None" -> 0
       [] OTHER -> IF \E i \in Operands(init) : val[i] = Invalid THEN Invalid
                   ELSE Compute(init[1], arg(2), arg(3), arg(4))

\* render_val: an inline value is its initializer, at every use anew; a masked
\* one is rendered as nothing; any other one is a variable by its name.
Rendered(k, env, inputs) ==
  LET val[id \in DOMAIN k.values] ==
        CASE k.values[id].state = "Inline" -> Evaluate(k.values[id].init, val, inputs)
          [] k.values[id].state = "Masked" -> Invalid
          [] OTHER -> env[id]
  IN val

IsVariable(k, id) == k.values[id].state \notin {"Inline", "Masked"}

\* The generated text runs statement by statement.  env holds the variables,
\* out what has been stored, skip the number of open scopes that are not
\* executed, and failed whether the condition before the last "}" failed.  A text
\* that is not valid is noted in out as well.
Execute(k, inputs, s, st) ==
  LET val == Rendered(k, s.env, inputs)
      written == IF st.op = "AddAssign" THEN (s.env[st.id] + val[st.val]) % Modulus
                 ELSE val[st.val]
  IN CASE st.op = "IfBegin" ->
            IF s.skip > 0 \/ val[st.val] = 0 THEN [s EXCEPT !.skip = @ + 1] ELSE s
       [] st.op = "ElseBegin" ->
            IF s.skip > 0 \/ ~s.failed THEN [s EXCEPT !.skip = @ + 1] ELSE s
       [] st.op = "EndScope" ->
            [s EXCEPT !.skip = IF @ > 0 THEN @ - 1 ELSE 0, !.failed = s.skip = 1]
       [] s.skip > 0 \/ st.op = "Nop" -> s
       [] st.op = "DefineVar" ->
            IF IsVariable(k, st.id)
            THEN [s EXCEPT !.env[st.id] = Evaluate(k.values[st.id].init, val, inputs)]
            ELSE s
       [] st.op = "ParamStore" -> [s EXCEPT !.out = Append(@, <<st.id, val[st.val]>>)]
       [] OTHER ->
            IF Invalid \in {s.env[st.id], val[st.val]} \/ ~IsVariable(k, st.id)
            THEN [s EXCEPT !.out = Append(@, <<"text", Invalid>>)]
            ELSE [s EXCEPT !.env[st.id] = written]

Results(k, inputs) ==
  LET start == [env |-> [id \in DOMAIN k.values |-> Invalid], out |-> <<>>, skip |-> 0,
                failed |-> FALSE]
  IN FoldLeft(LAMBDA s, st : Execute(k, inputs, s, st), start, k.ops).out
=============================================================================
