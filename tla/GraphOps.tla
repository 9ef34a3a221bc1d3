------------------------------ MODULE GraphOps ------------------------------
(***************************************************************************)
(* The operations of std_lib as data: the attributes every GraphOp::Custom *)
(* declares, the tensors its save function asks to keep, and what its      *)
(* lower function reads when it differentiates.  The arithmetic itself is  *)
(* left out: a kernel is known by the tensors it reads and writes.         *)
(*                                                                         *)
(* Edges are input positions counted from 1 (the code counts from 0).      *)
(*                                                                         *)
(*   save      the nodes whose value save keeps: "none", its "operands",   *)
(*             or "matmul" (its operands, and the node's own value and     *)
(*             gradient)                                                   *)
(*   grad[e]   the operands whose value the derivative along edge e reads  *)
(*   grad_own  the derivative reads the node's own saved value             *)
(*   must      a value the derivative reads must have a saved parameter;   *)
(*             otherwise read_saved puts the constant 0 in its place       *)
(*   save_inner  the forward lowering stores a value it meets on the way,  *)
(*             and not the node's, in the node's saved parameter, and      *)
(*             fails when there is none                                    *)
(***************************************************************************)
EXTENDS Naturals, Sequences

Leaf ==
  [leaf |-> TRUE, arity |-> 0, need_dims |-> FALSE, stable_iter |-> TRUE, auto_save |-> FALSE,
   computes_gid |-> FALSE, prefer_separate |-> FALSE, valid_dispatch |-> "Any",
   save |-> "none", grad |-> << >>, grad_own |-> FALSE, must |-> FALSE, save_inner |-> FALSE]

Elementwise ==
  [Leaf EXCEPT !.leaf = FALSE, !.auto_save = TRUE, !.computes_gid = TRUE]

Binary == [Elementwise EXCEPT !.arity = 2, !.grad = << {}, {} >>]
Unary  == [Elementwise EXCEPT !.arity = 1, !.grad = << {} >>, !.must = TRUE, !.save = "operands"]

add == Binary
sub == Binary
mul == [Binary EXCEPT !.save = "operands", !.grad = << {2}, {1} >>]
div == [Binary EXCEPT !.save = "operands", !.grad = << {2}, {1, 2} >>]

\* lower_unary!(true, ...): the derivative is computed from the node's own saved value.
log  == [Unary EXCEPT !.grad_own = TRUE]
tanh == [Unary EXCEPT !.grad_own = TRUE]
elu  == [Unary EXCEPT !.grad_own = TRUE]
relu == [Unary EXCEPT !.grad_own = TRUE]
exp  == [Unary EXCEPT !.grad_own = TRUE]
abs  == [Unary EXCEPT !.grad_own = TRUE]
\* What gelu saves is the tanh inside it; its own value is stored nowhere.
gelu == [Unary EXCEPT !.grad_own = TRUE, !.auto_save = FALSE, !.prefer_separate = TRUE,
                      !.save_inner = TRUE]

\* lower_unary!(false, ...): the derivative is a constant.
neg == Unary

matmul ==
  [Binary EXCEPT !.need_dims = TRUE, !.stable_iter = FALSE, !.prefer_separate = TRUE,
                 !.save = "matmul", !.grad = << {2}, {1} >>, !.must = TRUE]

Op ==
  [input |-> Leaf, const |-> Leaf,
   add |-> add, sub |-> sub, mul |-> mul, div |-> div,
   log |-> log, tanh |-> tanh, elu |-> elu, relu |-> relu,
   exp |-> exp, abs |-> abs, neg |-> neg, gelu |-> gelu,
   matmul |-> matmul]

OpNames == DOMAIN Op

is_leaf(op) == Op[op].leaf
is_transform(op) == ~Op[op].stable_iter
is_compute_gid(op) == Op[op].computes_gid
is_auto_save(op) == Op[op].auto_save
=============================================================================
