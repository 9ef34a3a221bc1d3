--------------------------- MODULE MCKernelLaunch ---------------------------
EXTENDS KernelLaunch

Launch(kernel, rows, inn, cols) ==
  [kernel |-> kernel, rows |-> rows, inner |-> inn, cols |-> cols]

\* Every kernel on matrices of valid dimensions (multiples of the tile).  One
\* workgroup and two tiles along the inner dimension, two workgroups and one
\* tile; the one-dimensional block of the loss kernel fits the row.
ValidLaunches ==
  {Launch("forward", 2, 4, 2), Launch("gradA", 2, 2, 4), Launch("gradB", 4, 2, 2),
   Launch("forward", 2, 2, 4), Launch("gradA", 2, 4, 2), Launch("gradB", 2, 4, 2)}
  \cup {Launch(kernel, 2, 2, cols) :
         kernel \in {"map", "loss", "classLoss", "mapLoss"}, cols \in {4}}
=============================================================================
