---------------------------- MODULE KernelLaunch ----------------------------
(***************************************************************************)
(* One dispatch_workgroups of one kernel: every invocation runs the kernel  *)
(* (forward_matmul of std_lib/matmul.rs, when it has a product), reading    *)
(* and writing the tiles its workgroup shares, and stores its result.       *)
(* Workgroups and invocations run at their own pace; a barrier lets the     *)
(* invocations of a workgroup go on when all of them have reached it.       *)
(*                                                                         *)
(* A value is known by where it was loaded from.  The accumulator of a      *)
(* product is the sequence of the pairs of elements whose products have     *)
(* been added, in the order of the additions.                               *)
(***************************************************************************)
EXTENDS LaunchGeometry, Sequences

CONSTANTS Launches,  \* the launches to consider
          None       \* what a slot of a tile holds before it is written

ASSUME LaunchAssumption ==
  Launches \subseteq LaunchType /\ \A l \in Launches : ValidLaunch(l)

VARIABLES launch,  \* the launch under way
          pc,      \* what each invocation does next
          tk,      \* its position in the inner dimension, in steps of a tile
          inner,   \* its position in the tile
          acc,     \* its accumulator
          aTile, bTile,  \* the tiles of each workgroup
          output   \* the tensor stored into: of each element, the set of its
                   \* value, empty as long as nothing has been stored

vars == <<launch, pc, tk, inner, acc, aTile, bTile, output>>

Size(l) == OutRows(l) * OutCols(l)
Slots == 0 .. Tile * Tile - 1

SharedIdx(t) == LocalRow(t) * Tile + LocalCol(t)

----------------------------------------------------------------------------
Start(l) == IF l.kernel \in Products /\ K(l) > 0 THEN "loadA" ELSE "store"

Init ==
  /\ launch \in Launches
  /\ pc = [t \in Threads(launch) |-> Start(launch)]
  /\ tk = [t \in Threads(launch) |-> 0]
  /\ inner = [t \in Threads(launch) |-> 0]
  /\ acc = [t \in Threads(launch) |-> <<>>]
  /\ aTile = [w \in Workgroups(launch) |-> [s \in Slots |-> None]]
  /\ bTile = [w \in Workgroups(launch) |-> [s \in Slots |-> None]]
  /\ output = [i \in 0 .. Size(launch) - 1 |-> {}]

Goto(t, label) == pc' = [pc EXCEPT ![t] = label]

LoadA(t) ==
  /\ pc[t] = "loadA"
  /\ aTile' = [aTile EXCEPT ![t[1]][SharedIdx(t)] =
                 AIdx(launch, Row(launch, t), tk[t] + LocalCol(t))]
  /\ Goto(t, "loadB")
  /\ UNCHANGED <<launch, tk, inner, acc, bTile, output>>

\* Slip: only the first row of a workgroup takes the way to the barrier.
LoadBInBranch(t) ==
  /\ pc[t] = "loadB"
  /\ bTile' = [bTile EXCEPT ![t[1]][SharedIdx(t)] =
                 BIdx(launch, tk[t] + LocalRow(t), Col(launch, t))]
  /\ Goto(t, IF LocalRow(t) = 0 THEN "loaded" ELSE "sum")
  /\ UNCHANGED <<launch, tk, inner, acc, aTile, output>>

LoadB(t) ==
  /\ pc[t] = "loadB"
  /\ bTile' = [bTile EXCEPT ![t[1]][SharedIdx(t)] =
                 BIdx(launch, tk[t] + LocalRow(t), Col(launch, t))]
  /\ Goto(t, "loaded")
  /\ UNCHANGED <<launch, tk, inner, acc, aTile, output>>

Arrived(w, label) == \A t \in Threads(launch) : t[1] = w => pc[t] = label

TilesLoaded(w) ==
  /\ Arrived(w, "loaded")
  /\ pc' = [t \in Threads(launch) |-> IF t[1] = w THEN "sum" ELSE pc[t]]
  /\ inner' = [t \in Threads(launch) |-> IF t[1] = w THEN 0 ELSE inner[t]]
  /\ UNCHANGED <<launch, tk, acc, aTile, bTile, output>>

AddTerm(t) ==
  /\ pc[t] = "sum"
  /\ acc' = [acc EXCEPT ![t] = Append(@,
               <<aTile[t[1]][LocalRow(t) * Tile + inner[t]],
                 bTile[t[1]][inner[t] * Tile + LocalCol(t)]>>)]
  /\ inner' = [inner EXCEPT ![t] = @ + 1]
  /\ UNCHANGED <<launch, aTile, bTile, output>>

\* Slip: no barrier between the sum over a tile and the loads of the next.
SumAndGoOn(t) ==
  /\ AddTerm(t)
  /\ Goto(t, IF inner[t] + 1 < Tile THEN "sum"
             ELSE IF tk[t] + Tile < K(launch) THEN "loadA" ELSE "store")
  /\ tk' = [tk EXCEPT ![t] = IF inner[t] + 1 < Tile THEN @ ELSE @ + Tile]

\* One iteration of the inner loop.
Sum(t) ==
  /\ AddTerm(t)
  /\ Goto(t, IF inner[t] + 1 < Tile THEN "sum" ELSE "summed")
  /\ UNCHANGED tk

\* The end of the outer loop's body, and its test.
TilesSummed(w) ==
  /\ Arrived(w, "summed")
  /\ tk' = [t \in Threads(launch) |-> IF t[1] = w THEN tk[t] + Tile ELSE tk[t]]
  /\ pc' = [t \in Threads(launch) |->
              IF t[1] # w THEN pc[t]
              ELSE IF tk[t] + Tile < K(launch) THEN "loadA" ELSE "store"]
  /\ UNCHANGED <<launch, inner, acc, aTile, bTile, output>>

Result(t) ==
  CASE launch.kernel \in Products   -> acc[t]
    [] launch.kernel = "classLoss" -> <<Gid(launch, t), Row(launch, t), Col(launch, t)>>
    [] OTHER                       -> <<Gid(launch, t)>>

\* A store past the end of the tensor has no effect on it.
Store(t) ==
  /\ pc[t] = "store"
  /\ output' = [i \in DOMAIN output |->
                  IF i = Gid(launch, t) THEN {Result(t)} ELSE output[i]]
  /\ Goto(t, "done")
  /\ UNCHANGED <<launch, tk, inner, acc, aTile, bTile>>

Step(t) == LoadA(t) \/ LoadB(t) \/ Sum(t) \/ Store(t)
Barrier(w) == TilesLoaded(w) \/ TilesSummed(w)

Next ==
  \/ \E t \in Threads(launch) : Step(t)
  \/ \E w \in Workgroups(launch) : Barrier(w)

Spec == Init /\ [][Next]_vars

\* Every invocation is run to its end, and a barrier all have reached opens.
FairSpec ==
  /\ Spec
  /\ WF_vars(Next)

----------------------------------------------------------------------------
Labels == {"loadA", "loadB", "loaded", "sum", "summed", "store", "done"}

TypeOK ==
  /\ launch \in Launches
  /\ pc \in [Threads(launch) -> Labels]
  /\ tk \in [Threads(launch) -> Nat]
  /\ inner \in [Threads(launch) -> 0 .. Tile]
  /\ \A t \in Threads(launch) : pc[t] = "sum" => inner[t] < Tile
  /\ acc \in [Threads(launch) -> Seq((Nat \cup {None}) \X (Nat \cup {None}))]
  /\ aTile \in [Workgroups(launch) -> [Slots -> Nat \cup {None}]]
  /\ bTile \in [Workgroups(launch) -> [Slots -> Nat \cup {None}]]
  /\ DOMAIN output = 0 .. Size(launch) - 1

(***************************************************************************)
(* What the invocation t is about to do to a slot of a tile.                *)
(***************************************************************************)
WritesA(t, s) == pc[t] = "loadA" /\ s = SharedIdx(t)
WritesB(t, s) == pc[t] = "loadB" /\ s = SharedIdx(t)
ReadsA(t, s) == pc[t] = "sum" /\ s = LocalRow(t) * Tile + inner[t]
ReadsB(t, s) == pc[t] = "sum" /\ s = inner[t] * Tile + LocalCol(t)

(***************************************************************************)
(* No invocation writes a slot of a tile while another one of its workgroup *)
(* may write or read it: the two barriers of the loop body keep the loads   *)
(* of a tile apart from the sums over it, and from those over the tile      *)
(* before.                                                                  *)
(***************************************************************************)
NoTileRace ==
  \A t, u \in Threads(launch), s \in Slots :
    t # u /\ t[1] = u[1] =>
      /\ WritesA(t, s) => ~WritesA(u, s) /\ ~ReadsA(u, s)
      /\ WritesB(t, s) => ~WritesB(u, s) /\ ~ReadsB(u, s)

(***************************************************************************)
(* Kernels index without a test of their own: what an invocation is about   *)
(* to load or store lies inside the tensor.                                 *)
(***************************************************************************)
AccessesAreInBounds ==
  \A t \in Threads(launch) :
    /\ pc[t] = "loadA" =>
         AIdx(launch, Row(launch, t), tk[t] + LocalCol(t))
           \in 0 .. M(launch) * K(launch) - 1
    /\ pc[t] = "loadB" =>
         BIdx(launch, tk[t] + LocalRow(t), Col(launch, t))
           \in 0 .. K(launch) * N(launch) - 1
    /\ pc[t] = "store" => Gid(launch, t) \in DOMAIN output

(***************************************************************************)
(* What the element in row r and column c of the result must be, written    *)
(* with the tensors as they are stored, row by row: A[r][j] B[j][c] summed  *)
(* over j, the gradients G[r][j] B[c][j] and A[j][r] G[j][c], the element   *)
(* itself, or the loss of it.                                               *)
(***************************************************************************)
At(width, row, col) == row * width + col

Expected(l, r, c) ==
  CASE l.kernel = "forward" ->
         [j \in 1 .. l.inner |-> <<At(l.inner, r, j - 1), At(l.cols, j - 1, c)>>]
    [] l.kernel = "gradA" ->
         [j \in 1 .. l.cols |-> <<At(l.cols, r, j - 1), At(l.cols, c, j - 1)>>]
    [] l.kernel = "gradB" ->
         [j \in 1 .. l.rows |-> <<At(l.inner, j - 1, r), At(l.cols, j - 1, c)>>]
    [] l.kernel = "classLoss" -> <<At(l.cols, r, c), r, c>>
    [] OTHER -> <<At(l.cols, r, c)>>

(***************************************************************************)
(* An element of the result is never anything but what it must be, however  *)
(* the invocations were interleaved: no tile was read before it was filled, *)
(* or after it was filled anew, and no term is missing, added twice or      *)
(* added in another order.                                                  *)
(***************************************************************************)
StoredValuesAreRight ==
  \A r \in 0 .. OutRows(launch) - 1, c \in 0 .. OutCols(launch) - 1 :
    output[At(OutCols(launch), r, c)] \subseteq {Expected(launch, r, c)}

(***************************************************************************)
(* When all invocations have returned, the grid has covered the tensor: all *)
(* elements have been stored.                                               *)
(***************************************************************************)
AllDone == \A t \in Threads(launch) : pc[t] = "done"
EveryElementIsStored == AllDone => \A i \in DOMAIN output : output[i] # {}

(***************************************************************************)
(* No two invocations store to one element.                                 *)
(***************************************************************************)
ElementsAreStoredOnce ==
  [][\A t \in Threads(launch) :
       pc[t] = "store" /\ pc'[t] = "done" => output[Gid(launch, t)] = {}]_vars

(***************************************************************************)
(* A dispatch ends: no invocation waits at a barrier that another one of    *)
(* its workgroup does not reach.                                            *)
(***************************************************************************)
DispatchEnds == <>AllDone
=============================================================================
