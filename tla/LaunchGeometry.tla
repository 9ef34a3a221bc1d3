--------------------------- MODULE LaunchGeometry ---------------------------
(***************************************************************************)
(* Where the invocations of a kernel are and which elements they touch: the *)
(* workgroup sizes chosen by the lowering passes, calc_grid, the index a    *)
(* kernel stores at, and the indices a matrix product loads from.           *)
(*                                                                         *)
(* A launch is a record [kernel, rows, inner, cols].  For the kernels of a  *)
(* product A . B, rows, inner and cols are the dimensions of A and B:       *)
(*   "forward"  A . B             "gradA"  G . B^T       "gradB"  A^T . G   *)
(* where G is the gradient of the product.  The other kernels do not load   *)
(* from elsewhere than where they store (inner is not used):                *)
(*   "map"      a forward or backward kernel without a product              *)
(*   "loss", "classLoss"  the loss kernel of a graph with a product; the    *)
(*              latter (cross entropy) also looks at its row and column     *)
(*   "mapLoss"  the loss kernel of a graph of elementwise nodes             *)
(* Tensors are matrices.  Vectors have no grid (calc_grid subtracts 2 from  *)
(* the rank) and tensors of rank 3 and more are not modelled.               *)
(***************************************************************************)
EXTENDS Integers

CONSTANTS Tile,      \* options.opt.tile_size
          LossTile,  \* the 16 of the loss kernel's two-dimensional block
          LossRow    \* the 256 of its one-dimensional block

ASSUME BlockAssumption ==
  /\ Tile \in Nat \ {0}
  /\ LossTile \in Nat \ {0}
  /\ LossRow \in Nat \ {0, 1}

Products == {"forward", "gradA", "gradB"}
Losses == {"loss", "classLoss"}
Kernels == Products \cup Losses \cup {"map", "mapLoss"}
LaunchType == [kernel : Kernels, rows : Nat, inner : Nat, cols : Nat]

\* What validate_meta asks for, with the 16 it writes for the block sizes.
MultipleOf(n, b) == \E q \in 0 .. n : n = q * b
ValidLaunch(l) ==
  \A b \in {Tile, LossTile} :
    MultipleOf(l.rows, b) /\ MultipleOf(l.inner, b) /\ MultipleOf(l.cols, b)

(***************************************************************************)
(* The matrix a kernel computes, by build_dims of its iteration space.      *)
(***************************************************************************)
OutRows(l) == IF l.kernel = "gradB" THEN l.inner ELSE l.rows
OutCols(l) == IF l.kernel = "gradA" THEN l.inner ELSE l.cols

Block(l) ==
  CASE l.kernel = "mapLoss" -> [x |-> LossRow, y |-> 1]
    [] l.kernel \in Losses  -> [x |-> LossTile, y |-> LossTile]
    [] OTHER                -> [x |-> Tile, y |-> Tile]

\* Slip: one more block even where the blocks fit exactly.
DivAndOne(a, b) == a \div b + 1

DivCeil(a, b) == (a + b - 1) \div b

\* Slip: the last dimension of the tensor is laid along the second axis.
CalcGridTransposed(l) ==
  [x |-> DivCeil(OutRows(l), Block(l).x), y |-> DivCeil(OutCols(l), Block(l).y)]

CalcGrid(l) ==
  LET block == Block(l) IN
  CASE block.x = block.y ->
         [x |-> DivCeil(OutCols(l), block.x), y |-> DivCeil(OutRows(l), block.y)]
    [] block.x = 1 /\ block.y # 1 -> [x |-> 1, y |-> OutCols(l)]
    [] OTHER -> [x |-> OutRows(l), y |-> 1]

(***************************************************************************)
(* An invocation is its workgroup and its place in it.                      *)
(***************************************************************************)
Workgroups(l) == (0 .. CalcGrid(l).x - 1) \X (0 .. CalcGrid(l).y - 1)
Locals(l) == (0 .. Block(l).x - 1) \X (0 .. Block(l).y - 1)
Threads(l) == Workgroups(l) \X Locals(l)

LocalCol(t) == t[2][1]
LocalRow(t) == t[2][2]
Col(l, t) == t[1][1] * Block(l).x + LocalCol(t)
Row(l, t) == t[1][2] * Block(l).y + LocalRow(t)

\* Slip: the row is multiplied by the number of rows.
GidByRows(l, t) == Col(l, t) + OutRows(l) * Row(l, t)

\* The index a kernel stores at, computed from the dimensions of its
\* iteration space.
Gid(l, t) == Col(l, t) + OutCols(l) * Row(l, t)

(***************************************************************************)
(* The product of a kernel, [m, k] times [k, n]: the shapes of the two      *)
(* operands with the last two dimensions of a transposed one exchanged.     *)
(***************************************************************************)
SwapA(l) == l.kernel = "gradB"
SwapB(l) == l.kernel = "gradA"

AShape(l) ==
  CASE l.kernel = "forward" -> [m |-> l.rows, k |-> l.inner]
    [] l.kernel = "gradA"   -> [m |-> l.rows, k |-> l.cols]
    [] OTHER                -> [m |-> l.inner, k |-> l.rows]

BShape(l) ==
  CASE l.kernel = "forward" -> [k |-> l.inner, n |-> l.cols]
    [] l.kernel = "gradA"   -> [k |-> l.cols, n |-> l.inner]
    [] OTHER                -> [k |-> l.rows, n |-> l.cols]

M(l) == AShape(l).m
N(l) == BShape(l).n
K(l) == AShape(l).k

\* Slip: a transposed operand is read as if it were not.
AIdxUnswapped(l, row, ak) == row * K(l) + ak

AIdx(l, row, ak) == IF SwapA(l) THEN ak * M(l) + row ELSE row * K(l) + ak
BIdx(l, bk, col) == IF SwapB(l) THEN col * K(l) + bk ELSE bk * N(l) + col
=============================================================================
