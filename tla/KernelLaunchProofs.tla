------------------------- MODULE KernelLaunchProofs -------------------------
(***************************************************************************)
(* A dispatched kernel computes its result whatever the interleaving, for   *)
(* every tile size and all launches of valid dimensions.                    *)
(***************************************************************************)
EXTENDS KernelLaunch, SequenceTheorems, TLAPS

----------------------------------------------------------------------------
(* Arithmetic of rows and columns.                                          *)

\* A pair of a row and a column has one index.
LEMMA IndexIsInjective ==
  ASSUME NEW w \in Nat \ {0}, NEW r1 \in Nat, NEW r2 \in Nat,
         NEW c1 \in 0 .. w - 1, NEW c2 \in 0 .. w - 1,
         r1 * w + c1 = r2 * w + c2
  PROVE  r1 = r2 /\ c1 = c2
OBVIOUS

\* The index of a row and a column lies inside the matrix.
LEMMA IndexIsInBounds ==
  ASSUME NEW w \in Nat, NEW h \in Nat, NEW r \in 0 .. h - 1, NEW c \in 0 .. w - 1
  PROVE  r * w + c \in 0 .. h * w - 1
OBVIOUS

\* Every element of a matrix has a row and a column.
LEMMA IndexHasRowAndColumn ==
  ASSUME NEW w \in Nat, NEW h \in Nat, NEW i \in 0 .. h * w - 1
  PROVE  \E r \in 0 .. h - 1, c \in 0 .. w - 1 : i = r * w + c
<1>1. w > 0 /\ h > 0
  OBVIOUS
<1>2. PICK r \in Nat, c \in 0 .. w - 1 : i = r * w + c
  <2>1. i \div w \in Nat /\ i % w \in 0 .. w - 1
    BY <1>1
  <2>2. i = (i \div w) * w + (i % w)
    BY <1>1
  <2>3. QED BY <2>1, <2>2
<1>3. r < h
  BY <1>1, <1>2
<1>4. QED BY <1>2, <1>3

LEMMA MultiplesAreSteps ==
  ASSUME NEW b \in Nat \ {0}, NEW p \in Nat, NEW q \in Nat, p * b < q * b
  PROVE  p * b + b <= q * b
OBVIOUS

LEMMA NextMultiple ==
  ASSUME NEW b \in Nat \ {0}, NEW n \in Nat, MultipleOf(n, b)
  PROVE  MultipleOf(n + b, b)
<1>1. PICK q \in 0 .. n : n = q * b
  BY DEF MultipleOf
<1>2. n + b = (q + 1) * b
  BY <1>1
<1>3. q + 1 \in 0 .. n + b
  BY <1>1
<1>4. QED BY <1>2, <1>3 DEF MultipleOf

LEMMA BlocksFitExactly ==
  ASSUME NEW b \in Nat \ {0}, NEW n \in Nat, MultipleOf(n, b)
  PROVE  DivCeil(n, b) \in Nat /\ DivCeil(n, b) * b = n
<1>1. PICK q \in 0 .. n : n = q * b
  BY DEF MultipleOf
<1>2. DivCeil(n, b) = q
  BY <1>1 DEF DivCeil
<1>3. QED BY <1>1, <1>2

----------------------------------------------------------------------------
(* Where the invocations of a launch are.                                   *)

\* The dimensions of the result are numbers, and those of the matrices that
\* a product reads follow from them.
LEMMA LaunchFacts ==
  ASSUME NEW l \in Launches
  PROVE  /\ l \in LaunchType /\ ValidLaunch(l)
         /\ OutRows(l) \in Nat /\ OutCols(l) \in Nat
         /\ M(l) \in Nat /\ N(l) \in Nat /\ K(l) \in Nat
         /\ l.kernel \in Products => M(l) = OutRows(l) /\ N(l) = OutCols(l)
         /\ MultipleOf(K(l), Tile)
         /\ \A b \in {Tile, LossTile} :
              MultipleOf(OutRows(l), b) /\ MultipleOf(OutCols(l), b)
<1>1. l \in LaunchType /\ ValidLaunch(l)
  BY LaunchAssumption
<1>2. l.rows \in Nat /\ l.inner \in Nat /\ l.cols \in Nat
  BY <1>1 DEF LaunchType
<1>3. QED BY <1>1, <1>2 DEF OutRows, OutCols, M, N, K, AShape, BShape, ValidLaunch, Products

\* The grid of a two-dimensional block covers the result exactly.
LEMMA GridFacts ==
  ASSUME NEW l \in Launches, l.kernel # "mapLoss"
  PROVE  /\ Block(l).x = Block(l).y /\ Block(l).x \in Nat \ {0}
         /\ l.kernel \in Products => Block(l).x = Tile
         /\ CalcGrid(l).x \in Nat /\ CalcGrid(l).x * Block(l).x = OutCols(l)
         /\ CalcGrid(l).y \in Nat /\ CalcGrid(l).y * Block(l).y = OutRows(l)
<1>1. /\ Block(l).x = Block(l).y /\ Block(l).x \in {Tile, LossTile}
      /\ l.kernel \in Products => Block(l).x = Tile
  BY DEF Block, Products, Losses
<1>2. CalcGrid(l) = [x |-> DivCeil(OutCols(l), Block(l).x),
                     y |-> DivCeil(OutRows(l), Block(l).y)]
  BY <1>1 DEF CalcGrid
<1>3. QED BY <1>1, <1>2, LaunchFacts, BlocksFitExactly, BlockAssumption

\* An invocation has a row and a column of the result.
LEMMA ThreadFacts ==
  ASSUME NEW l \in Launches, l.kernel # "mapLoss", NEW t \in Threads(l)
  PROVE  /\ t[1] \in Workgroups(l)
         /\ LocalRow(t) \in 0 .. Block(l).x - 1 /\ LocalCol(t) \in 0 .. Block(l).x - 1
         /\ Row(l, t) \in 0 .. OutRows(l) - 1 /\ Col(l, t) \in 0 .. OutCols(l) - 1
         /\ Gid(l, t) = At(OutCols(l), Row(l, t), Col(l, t))
<1> DEFINE b == Block(l).x
<1>1. /\ b \in Nat \ {0} /\ b = Block(l).y
      /\ CalcGrid(l).x \in Nat /\ CalcGrid(l).x * b = OutCols(l)
      /\ CalcGrid(l).y \in Nat /\ CalcGrid(l).y * b = OutRows(l)
  BY GridFacts
<1>2. /\ t[1] \in Workgroups(l)
      /\ t[1][1] \in 0 .. CalcGrid(l).x - 1 /\ t[1][2] \in 0 .. CalcGrid(l).y - 1
      /\ t[2][1] \in 0 .. b - 1 /\ t[2][2] \in 0 .. b - 1
  BY <1>1 DEF Threads, Workgroups, Locals
<1>3. Row(l, t) \in 0 .. OutRows(l) - 1
  BY <1>1, <1>2, IndexIsInBounds DEF Row, LocalRow
<1>4. Col(l, t) \in 0 .. OutCols(l) - 1
  BY <1>1, <1>2, IndexIsInBounds DEF Col, LocalCol
<1>5. Gid(l, t) = At(OutCols(l), Row(l, t), Col(l, t))
  BY <1>3, <1>4, LaunchFacts DEF Gid, At
<1>6. QED BY <1>2, <1>3, <1>4, <1>5 DEF LocalRow, LocalCol

\* An invocation is its row and its column.
LEMMA RowAndColumnIdentify ==
  ASSUME NEW l \in Launches, l.kernel # "mapLoss", NEW t \in Threads(l), NEW u \in Threads(l),
         Row(l, t) = Row(l, u), Col(l, t) = Col(l, u)
  PROVE  t = u
<1> DEFINE b == Block(l).x
<1>1. b \in Nat \ {0} /\ b = Block(l).y /\ CalcGrid(l).x \in Nat /\ CalcGrid(l).y \in Nat
  BY GridFacts
<1>2. \A v \in {t, u} :
        /\ v = <<<<v[1][1], v[1][2]>>, <<v[2][1], v[2][2]>>>>
        /\ v[1][1] \in Nat /\ v[1][2] \in Nat
        /\ v[2][1] \in 0 .. b - 1 /\ v[2][2] \in 0 .. b - 1
  BY <1>1 DEF Threads, Workgroups, Locals
<1>3. t[1][1] = u[1][1] /\ t[2][1] = u[2][1]
  BY <1>1, <1>2, IndexIsInjective DEF Col, LocalCol
<1>4. t[1][2] = u[1][2] /\ t[2][2] = u[2][2]
  BY <1>1, <1>2, IndexIsInjective DEF Row, LocalRow
<1>5. QED BY <1>2, <1>3, <1>4

----------------------------------------------------------------------------
(* Types.                                                                   *)

Loading == {"loadA", "loadB", "loaded"}
Summing == {"sum", "summed"}
Ended == {"store", "done"}

OnlyProductsLoop == \A t \in Threads(launch) : pc[t] \notin Ended => launch.kernel \in Products
TypeInv == TypeOK /\ OnlyProductsLoop

\* What an invocation of a product is made of.
LEMMA LoopFacts ==
  ASSUME TypeInv, NEW t \in Threads(launch), pc[t] \notin Ended
  PROVE  /\ launch \in Launches /\ launch.kernel \in Products /\ launch.kernel # "mapLoss"
         /\ Block(launch).x = Tile /\ Tile \in Nat \ {0}
         /\ M(launch) = OutRows(launch) /\ N(launch) = OutCols(launch)
         /\ K(launch) \in Nat /\ M(launch) \in Nat /\ N(launch) \in Nat
         /\ t[1] \in Workgroups(launch)
         /\ LocalRow(t) \in 0 .. Tile - 1 /\ LocalCol(t) \in 0 .. Tile - 1
         /\ Row(launch, t) \in 0 .. M(launch) - 1 /\ Col(launch, t) \in 0 .. N(launch) - 1
<1>1. launch \in Launches /\ launch.kernel \in Products /\ launch.kernel # "mapLoss"
  BY DEF TypeInv, TypeOK, OnlyProductsLoop, Products
<1>2. QED BY <1>1, GridFacts, LaunchFacts, ThreadFacts, BlockAssumption

\* The slots an invocation uses exist, and its own slot is its alone.
LEMMA SlotFacts ==
  ASSUME NEW r \in 0 .. Tile - 1, NEW c \in 0 .. Tile - 1
  PROVE  r * Tile + c \in Slots
BY BlockAssumption, IndexIsInBounds DEF Slots

LEMMA IndicesAreNumbers ==
  ASSUME TypeInv, NEW t \in Threads(launch), pc[t] \notin Ended, NEW n \in Nat
  PROVE  AIdx(launch, Row(launch, t), n) \in Nat /\ BIdx(launch, n, Col(launch, t)) \in Nat
<1>1. Row(launch, t) \in Nat /\ Col(launch, t) \in Nat
  BY LoopFacts
<1>2. QED BY <1>1, LoopFacts DEF AIdx, BIdx

LEMMA TypeInvInitially == Init => TypeInv
<1> SUFFICES ASSUME Init PROVE TypeInv
  OBVIOUS
<1>1. Start(launch) \in Labels /\ Start(launch) \in Ended \cup {"loadA"}
      /\ (Start(launch) = "loadA" => launch.kernel \in Products)
  BY DEF Start, Labels, Ended
<1>2. acc \in [Threads(launch) -> Seq((Nat \cup {None}) \X (Nat \cup {None}))]
  BY DEF Init
<1>3. QED BY <1>1, <1>2, BlockAssumption DEF Init, TypeInv, TypeOK, OnlyProductsLoop, Ended

LEMMA TypeInvPreserved == TypeInv /\ [Next]_vars => TypeInv'
<1> SUFFICES ASSUME TypeInv, [Next]_vars PROVE TypeInv'
  OBVIOUS
<1> USE DEF TypeInv, OnlyProductsLoop
<1>1. ASSUME NEW t \in Threads(launch), LoadA(t) PROVE TypeInv'
  <2>0. pc[t] \notin Ended
    BY <1>1 DEF LoadA, Ended
  <2>1. t[1] \in Workgroups(launch) /\ LocalRow(t) \in 0 .. Tile - 1 /\ LocalCol(t) \in 0 .. Tile - 1
    BY <2>0, LoopFacts
  <2>2. SharedIdx(t) \in Slots
    BY <2>1, SlotFacts DEF SharedIdx
  <2>3. tk[t] + LocalCol(t) \in Nat
    BY <2>1, BlockAssumption DEF TypeOK
  <2>4. AIdx(launch, Row(launch, t), tk[t] + LocalCol(t)) \in Nat
    BY <2>0, <2>3, IndicesAreNumbers
  <2>5. QED BY <1>1, <2>1, <2>2, <2>4, LoopFacts DEF LoadA, Goto, TypeOK, Labels, Ended
<1>2. ASSUME NEW t \in Threads(launch), LoadB(t) PROVE TypeInv'
  <2>0. pc[t] \notin Ended
    BY <1>2 DEF LoadB, Ended
  <2>1. t[1] \in Workgroups(launch) /\ LocalRow(t) \in 0 .. Tile - 1 /\ LocalCol(t) \in 0 .. Tile - 1
    BY <2>0, LoopFacts
  <2>2. SharedIdx(t) \in Slots
    BY <2>1, SlotFacts DEF SharedIdx
  <2>3. tk[t] + LocalRow(t) \in Nat
    BY <2>1, BlockAssumption DEF TypeOK
  <2>4. BIdx(launch, tk[t] + LocalRow(t), Col(launch, t)) \in Nat
    BY <2>0, <2>3, IndicesAreNumbers
  <2>5. QED BY <1>2, <2>1, <2>2, <2>4, LoopFacts DEF LoadB, Goto, TypeOK, Labels, Ended
<1>3. ASSUME NEW w \in Workgroups(launch), TilesLoaded(w) PROVE TypeInv'
  BY <1>3, BlockAssumption DEF TilesLoaded, Arrived, TypeOK, Labels, Ended
<1>4. ASSUME NEW t \in Threads(launch), Sum(t) PROVE TypeInv'
  <2>0. pc[t] \notin Ended /\ inner[t] \in 0 .. Tile - 1
    BY <1>4, BlockAssumption DEF Sum, AddTerm, Ended, TypeOK
  <2>1. /\ t[1] \in Workgroups(launch)
        /\ LocalRow(t) * Tile + inner[t] \in Slots /\ inner[t] * Tile + LocalCol(t) \in Slots
    BY <2>0, LoopFacts, SlotFacts
  <2>2. Append(acc[t], <<aTile[t[1]][LocalRow(t) * Tile + inner[t]],
                         bTile[t[1]][inner[t] * Tile + LocalCol(t)]>>)
          \in Seq((Nat \cup {None}) \X (Nat \cup {None}))
    BY <2>1 DEF TypeOK
  <2>3. inner[t] + 1 \in 0 .. Tile
    BY <1>4, BlockAssumption DEF Sum, AddTerm, TypeOK
  <2>4. QED BY <1>4, <2>2, <2>3, LoopFacts, BlockAssumption
        DEF Sum, AddTerm, Goto, TypeOK, Labels, Ended
<1>5. ASSUME NEW w \in Workgroups(launch), TilesSummed(w) PROVE TypeInv'
  BY <1>5, BlockAssumption DEF TilesSummed, Arrived, TypeOK, Labels, Ended
<1>6. ASSUME NEW t \in Threads(launch), Store(t) PROVE TypeInv'
  BY <1>6 DEF Store, Goto, TypeOK, Labels, Ended
<1>7. CASE UNCHANGED vars
  BY <1>7 DEF vars, TypeOK
<1>8. QED BY <1>1, <1>2, <1>3, <1>4, <1>5, <1>6, <1>7 DEF Next, Step, Barrier

\* Every variable keeps its type.
THEOREM TypeCorrect == Spec => []TypeOK
<1>1. TypeInv => TypeOK
  BY DEF TypeInv
<1>2. QED BY <1>1, TypeInvInitially, TypeInvPreserved, PTL DEF Spec

----------------------------------------------------------------------------
(* The barriers.                                                            *)

\* The invocations of a workgroup are in the same step of the outer loop, and
\* in the same half of its body.
LockStep ==
  \A t, u \in Threads(launch) :
    t[1] = u[1] =>
      /\ tk[t] = tk[u]
      /\ pc[t] \in Loading => pc[u] \in Loading
      /\ pc[t] \in Summing => pc[u] \in Summing

LEMMA LockStepInitially == Init => LockStep
BY DEF Init, LockStep, Summing, Loading, Start

LEMMA LockStepPreserved == TypeInv /\ LockStep /\ [Next]_vars => LockStep'
<1> SUFFICES ASSUME TypeInv, LockStep, [Next]_vars PROVE LockStep'
  OBVIOUS
<1> USE DEF LockStep, Loading, Summing
<1>1. ASSUME NEW t \in Threads(launch), LoadA(t) \/ LoadB(t) PROVE LockStep'
  <2>1. /\ launch' = launch /\ tk' = tk /\ pc[t] \in Loading
        /\ \E label \in Loading : pc' = [pc EXCEPT ![t] = label]
    BY <1>1 DEF LoadA, LoadB, Goto
  <2>2. pc \in [Threads(launch) -> Labels]
    BY DEF TypeInv, TypeOK
  <2>3. QED BY <2>1, <2>2
<1>2. ASSUME NEW w \in Workgroups(launch), TilesLoaded(w) PROVE LockStep'
  BY <1>2 DEF TilesLoaded, Arrived, TypeInv, TypeOK
<1>3. ASSUME NEW t \in Threads(launch), Sum(t) PROVE LockStep'
  BY <1>3 DEF Sum, AddTerm, Goto, TypeInv, TypeOK
<1>4. ASSUME NEW w \in Workgroups(launch), TilesSummed(w) PROVE LockStep'
  BY <1>4 DEF TilesSummed, Arrived, TypeInv, TypeOK
<1>5. ASSUME NEW t \in Threads(launch), Store(t) PROVE LockStep'
  BY <1>5 DEF Store, Goto, TypeInv, TypeOK
<1>6. CASE UNCHANGED vars
  BY <1>6 DEF vars
<1>7. QED BY <1>1, <1>2, <1>3, <1>4, <1>5, <1>6 DEF Next, Step, Barrier

\* An invocation shares its slot of the tiles with no other of its workgroup.
LEMMA OwnSlot ==
  ASSUME TypeInv, NEW t \in Threads(launch), NEW u \in Threads(launch),
         pc[t] \notin Ended, t[1] = u[1], SharedIdx(t) = SharedIdx(u)
  PROVE  t = u
<1>1. /\ launch \in Launches /\ launch.kernel # "mapLoss" /\ Tile \in Nat \ {0}
      /\ Block(launch).x = Tile
  BY LoopFacts
<1>2. \A v \in {t, u} : LocalRow(v) \in 0 .. Tile - 1 /\ LocalCol(v) \in 0 .. Tile - 1
  BY <1>1, ThreadFacts
<1>3. LocalRow(t) = LocalRow(u) /\ LocalCol(t) = LocalCol(u)
  <2>1. /\ LocalRow(t) \in Nat /\ LocalRow(u) \in Nat
        /\ LocalCol(t) \in 0 .. Tile - 1 /\ LocalCol(u) \in 0 .. Tile - 1
        /\ LocalRow(t) * Tile + LocalCol(t) = LocalRow(u) * Tile + LocalCol(u)
    BY <1>2 DEF SharedIdx
  <2>2. \A r1, r2 \in Nat, c1, c2 \in 0 .. Tile - 1 :
          r1 * Tile + c1 = r2 * Tile + c2 => r1 = r2 /\ c1 = c2
    BY <1>1, IndexIsInjective
  <2>3. QED BY <2>1, <2>2
<1>4. QED BY <1>3, RowAndColumnIdentify, <1>1 DEF Row, Col

\* The barriers keep the loads of a tile and the sums over it apart.
THEOREM RaceFree == Spec => []NoTileRace
<1>1. TypeInv /\ LockStep => NoTileRace
  <2> SUFFICES ASSUME TypeInv, LockStep,
                      NEW t \in Threads(launch), NEW u \in Threads(launch), NEW s \in Slots,
                      t # u, t[1] = u[1], pc[t] \in {"loadA", "loadB"}, s = SharedIdx(t)
               PROVE  /\ ~WritesA(u, s) /\ ~ReadsA(u, s)
                      /\ ~WritesB(u, s) /\ ~ReadsB(u, s)
    BY DEF NoTileRace, WritesA, WritesB
  <2>1. pc[t] \notin Ended /\ pc[u] \in Loading
    BY DEF LockStep, Loading, Ended
  <2>2. SharedIdx(u) # s
    BY <2>1, OwnSlot
  <2>3. QED BY <2>1, <2>2 DEF WritesA, WritesB, ReadsA, ReadsB, Loading
<1>2. QED
  BY <1>1, TypeInvInitially, TypeInvPreserved, LockStepInitially, LockStepPreserved,
     PTL DEF Spec
----------------------------------------------------------------------------
(* What the tiles, the accumulators and the result hold.                    *)

\* The invocations of a product that still loop have not reached the end of
\* the inner dimension; those that have stopped are exactly there.
Position ==
  \A t \in Threads(launch) :
    /\ MultipleOf(tk[t], Tile)
    /\ pc[t] \notin Ended => tk[t] < K(launch)
    /\ pc[t] \in Ended /\ launch.kernel \in Products => tk[t] = K(launch)
    /\ launch.kernel \notin Products => tk[t] = 0
    /\ pc[t] = "summed" => inner[t] = Tile

\* From its load until the barrier after the sums, a slot holds what its
\* invocation loads into it.
Tiles ==
  \A t \in Threads(launch) :
    /\ pc[t] \in {"loadB", "loaded", "sum", "summed"} =>
         aTile[t[1]][SharedIdx(t)] = AIdx(launch, Row(launch, t), tk[t] + LocalCol(t))
    /\ pc[t] \in {"loaded", "sum", "summed"} =>
         bTile[t[1]][SharedIdx(t)] = BIdx(launch, tk[t] + LocalRow(t), Col(launch, t))

\* The first n terms of the element that t computes.
Terms(t, n) ==
  [j \in 1 .. n |-> <<AIdx(launch, Row(launch, t), j - 1), BIdx(launch, j - 1, Col(launch, t))>>]

\* How many of them it has added.
Added(t) == IF pc[t] \in Summing THEN tk[t] + inner[t] ELSE tk[t]

Accumulated == \A t \in Threads(launch) : acc[t] = Terms(t, Added(t))

\* What has been stored is the result of an invocation that is done.
Stored ==
  \A i \in DOMAIN output :
    output[i] = {} \/ \E t \in Threads(launch) :
                        pc[t] = "done" /\ Gid(launch, t) = i /\ output[i] = {Result(t)}

\* An invocation that is done has stored its result.
DoneHaveStored ==
  \A t \in Threads(launch) :
    pc[t] = "done" /\ Gid(launch, t) \in DOMAIN output => output[Gid(launch, t)] # {}

ValueInv == Position /\ Tiles /\ Accumulated /\ Stored /\ DoneHaveStored

LEMMA PositionInitially == Init => Position
<1> SUFFICES ASSUME Init PROVE Position
  OBVIOUS
<1>1. launch \in Launches /\ K(launch) \in Nat
  BY LaunchFacts DEF Init
<1>2. MultipleOf(0, Tile)
  BY BlockAssumption DEF MultipleOf
<1>3. QED BY <1>1, <1>2 DEF Init, Position, Start, Ended

LEMMA PositionPreserved == TypeInv /\ LockStep /\ Position /\ [Next]_vars => Position'
<1> SUFFICES ASSUME TypeInv, LockStep, Position, [Next]_vars PROVE Position'
  OBVIOUS
<1> USE DEF Position, Ended
<1>0. pc \in [Threads(launch) -> Labels] /\ inner \in [Threads(launch) -> 0 .. Tile]
      /\ tk \in [Threads(launch) -> Nat] /\ launch \in Launches
  BY DEF TypeInv, TypeOK
<1>1. ASSUME NEW t \in Threads(launch), LoadA(t) \/ LoadB(t) PROVE Position'
  <2>1. /\ launch' = launch /\ tk' = tk /\ inner' = inner /\ pc[t] \in Loading
        /\ \E label \in Loading : pc' = [pc EXCEPT ![t] = label]
    BY <1>1 DEF LoadA, LoadB, Goto, Loading
  <2>2. QED BY <2>1, <1>0 DEF Loading
<1>2. ASSUME NEW w \in Workgroups(launch), TilesLoaded(w) PROVE Position'
  BY <1>2, <1>0 DEF TilesLoaded, Arrived
<1>3. ASSUME NEW t \in Threads(launch), Sum(t) PROVE Position'
  BY <1>3, <1>0, BlockAssumption DEF Sum, AddTerm, Goto, TypeInv, TypeOK
<1>4. ASSUME NEW w \in Workgroups(launch), TilesSummed(w) PROVE Position'
  <2>1. ASSUME NEW t \in Threads(launch), t[1] = w
        PROVE  /\ MultipleOf(tk[t] + Tile, Tile)
               /\ tk[t] + Tile <= K(launch) /\ launch.kernel \in Products
    <3>1. pc[t] = "summed" /\ tk[t] < K(launch) /\ launch.kernel \in Products
      BY <1>4, <2>1 DEF TilesSummed, Arrived, TypeInv, OnlyProductsLoop
    <3>2. PICK q \in Nat : tk[t] = q * Tile
      BY <1>0 DEF MultipleOf
    <3>3. PICK p \in Nat : K(launch) = p * Tile
      BY <1>0, LaunchFacts DEF MultipleOf
    <3>4. tk[t] + Tile <= K(launch)
      BY <3>1, <3>2, <3>3, MultiplesAreSteps, BlockAssumption
    <3>5. MultipleOf(tk[t] + Tile, Tile)
      BY <1>0, NextMultiple, BlockAssumption
    <3>6. QED BY <3>1, <3>4, <3>5
  <2>2. /\ launch' = launch /\ inner' = inner
        /\ pc' = [t \in Threads(launch) |->
                    IF t[1] # w THEN pc[t]
                    ELSE IF tk[t] + Tile < K(launch) THEN "loadA" ELSE "store"]
        /\ tk' = [t \in Threads(launch) |-> IF t[1] = w THEN tk[t] + Tile ELSE tk[t]]
    BY <1>4 DEF TilesSummed
  <2>3. K(launch) \in Nat /\ Tile \in Nat
    BY <1>0, LaunchFacts, BlockAssumption
  <2>4. QED BY <2>1, <2>2, <2>3, <1>0
<1>5. ASSUME NEW t \in Threads(launch), Store(t) PROVE Position'
  BY <1>5, <1>0 DEF Store, Goto
<1>6. CASE UNCHANGED vars
  BY <1>6 DEF vars
<1>7. QED BY <1>1, <1>2, <1>3, <1>4, <1>5, <1>6 DEF Next, Step, Barrier

LEMMA TilesInitially == Init => Tiles
BY DEF Init, Tiles, Start

LEMMA TilesPreserved == TypeInv /\ Tiles /\ [Next]_vars => Tiles'
<1> SUFFICES ASSUME TypeInv, Tiles, [Next]_vars PROVE Tiles'
  OBVIOUS
<1> USE DEF Tiles
<1>0. /\ pc \in [Threads(launch) -> Labels]
      /\ aTile \in [Workgroups(launch) -> [Slots -> Nat \cup {None}]]
      /\ bTile \in [Workgroups(launch) -> [Slots -> Nat \cup {None}]]
  BY DEF TypeInv, TypeOK
<1>1. ASSUME NEW t \in Threads(launch), pc[t] \notin Ended
      PROVE  t[1] \in Workgroups(launch) /\ SharedIdx(t) \in Slots
  BY <1>1, LoopFacts, SlotFacts DEF SharedIdx
<1>2. ASSUME NEW t \in Threads(launch), LoadA(t) PROVE Tiles'
  <2>1. pc[t] = "loadA" /\ pc[t] \notin Ended
    BY <1>2 DEF LoadA, Ended
  <2>2. /\ launch' = launch /\ tk' = tk /\ bTile' = bTile
        /\ pc' = [pc EXCEPT ![t] = "loadB"]
        /\ aTile' = [aTile EXCEPT ![t[1]][SharedIdx(t)] =
                       AIdx(launch, Row(launch, t), tk[t] + LocalCol(t))]
    BY <1>2 DEF LoadA, Goto
  <2>3. \A u \in Threads(launch) :
          u # t /\ pc[u] \notin Ended => aTile'[u[1]][SharedIdx(u)] = aTile[u[1]][SharedIdx(u)]
    BY <2>1, <2>2, <1>0, <1>1, OwnSlot
  <2>4. aTile'[t[1]][SharedIdx(t)] = AIdx(launch, Row(launch, t), tk[t] + LocalCol(t))
    BY <2>1, <2>2, <1>0, <1>1
  <2>5. QED BY <2>1, <2>2, <2>3, <2>4, <1>0 DEF Ended, Row, Col, SharedIdx
<1>3. ASSUME NEW t \in Threads(launch), LoadB(t) PROVE Tiles'
  <2>1. pc[t] = "loadB" /\ pc[t] \notin Ended
    BY <1>3 DEF LoadB, Ended
  <2>2. /\ launch' = launch /\ tk' = tk /\ aTile' = aTile
        /\ pc' = [pc EXCEPT ![t] = "loaded"]
        /\ bTile' = [bTile EXCEPT ![t[1]][SharedIdx(t)] =
                       BIdx(launch, tk[t] + LocalRow(t), Col(launch, t))]
    BY <1>3 DEF LoadB, Goto
  <2>3. \A u \in Threads(launch) :
          u # t /\ pc[u] \notin Ended => bTile'[u[1]][SharedIdx(u)] = bTile[u[1]][SharedIdx(u)]
    BY <2>1, <2>2, <1>0, <1>1, OwnSlot
  <2>4. bTile'[t[1]][SharedIdx(t)] = BIdx(launch, tk[t] + LocalRow(t), Col(launch, t))
    BY <2>1, <2>2, <1>0, <1>1
  <2>5. QED BY <2>1, <2>2, <2>3, <2>4, <1>0 DEF Ended, Row, Col, SharedIdx
<1>4. ASSUME NEW w \in Workgroups(launch), TilesLoaded(w) PROVE Tiles'
  BY <1>4, <1>0 DEF TilesLoaded, Arrived
<1>5. ASSUME NEW t \in Threads(launch), Sum(t) PROVE Tiles'
  BY <1>5, <1>0 DEF Sum, AddTerm, Goto
<1>6. ASSUME NEW w \in Workgroups(launch), TilesSummed(w) PROVE Tiles'
  BY <1>6, <1>0 DEF TilesSummed, Arrived
<1>7. ASSUME NEW t \in Threads(launch), Store(t) PROVE Tiles'
  BY <1>7, <1>0 DEF Store, Goto
<1>8. CASE UNCHANGED vars
  BY <1>8 DEF vars
<1>9. QED BY <1>2, <1>3, <1>4, <1>5, <1>6, <1>7, <1>8 DEF Next, Step, Barrier

LEMMA TermsStep ==
  ASSUME NEW t, NEW n \in Nat
  PROVE  Terms(t, n + 1) = Append(Terms(t, n), <<AIdx(launch, Row(launch, t), n),
                                                BIdx(launch, n, Col(launch, t))>>)
<1> DEFINE term == <<AIdx(launch, Row(launch, t), n), BIdx(launch, n, Col(launch, t))>>
<1>1. Terms(t, n) = [j \in 1 .. n |-> Terms(t, n + 1)[j]] /\ Terms(t, n + 1)[n + 1] = term
  BY DEF Terms
<1>2. Len(Terms(t, n)) = n
  BY DEF Terms
<1>3. Append(Terms(t, n), term) =
        [j \in 1 .. n + 1 |-> IF j = n + 1 THEN term ELSE Terms(t, n)[j]]
  BY <1>2 DEF Terms
<1>4. QED BY <1>3 DEF Terms

\* What an invocation reads from the tiles is the next pair of elements.
LEMMA NextTerm ==
  ASSUME TypeInv, LockStep, Tiles, NEW t \in Threads(launch), pc[t] = "sum"
  PROVE  /\ aTile[t[1]][LocalRow(t) * Tile + inner[t]] =
              AIdx(launch, Row(launch, t), tk[t] + inner[t])
         /\ bTile[t[1]][inner[t] * Tile + LocalCol(t)] =
              BIdx(launch, tk[t] + inner[t], Col(launch, t))
<1>1. pc[t] \notin Ended /\ pc[t] \in Summing
  BY DEF Ended, Summing
<1>2. /\ LocalRow(t) \in 0 .. Tile - 1 /\ LocalCol(t) \in 0 .. Tile - 1
      /\ t[1] \in Workgroups(launch) /\ Block(launch).x = Tile
      /\ launch \in Launches /\ launch.kernel # "mapLoss"
  BY <1>1, LoopFacts
<1>3. inner[t] \in 0 .. Tile - 1
  BY BlockAssumption DEF TypeInv, TypeOK
<1>4. Locals(launch) = (0 .. Tile - 1) \X (0 .. Tile - 1)
  BY <1>2, GridFacts DEF Locals
<1>5. LocalRow(t) * Tile + inner[t] \in Nat
  BY <1>2, <1>3, SlotFacts DEF Slots
<1>6. aTile[t[1]][LocalRow(t) * Tile + inner[t]] = AIdx(launch, Row(launch, t), tk[t] + inner[t])
  <2> DEFINE u == <<t[1], <<inner[t], LocalRow(t)>>>>
  <2>1. u \in Threads(launch) /\ u[1] = t[1] /\ LocalRow(u) = LocalRow(t) /\ LocalCol(u) = inner[t]
    BY <1>2, <1>3, <1>4 DEF Threads, LocalRow, LocalCol
  <2>2. Row(launch, u) = Row(launch, t) /\ SharedIdx(u) = LocalRow(t) * Tile + inner[t]
    BY <2>1 DEF Row, SharedIdx
  <2>3. pc[u] \in Summing /\ tk[u] = tk[t]
    BY <1>1, <2>1 DEF LockStep
  <2> HIDE DEF u
  <2>4. QED BY <2>1, <2>2, <2>3 DEF Tiles, Summing
<1>7. bTile[t[1]][inner[t] * Tile + LocalCol(t)] = BIdx(launch, tk[t] + inner[t], Col(launch, t))
  <2> DEFINE u == <<t[1], <<LocalCol(t), inner[t]>>>>
  <2>1. u \in Threads(launch) /\ u[1] = t[1] /\ LocalCol(u) = LocalCol(t) /\ LocalRow(u) = inner[t]
    BY <1>2, <1>3, <1>4 DEF Threads, LocalRow, LocalCol
  <2>2. Col(launch, u) = Col(launch, t) /\ SharedIdx(u) = inner[t] * Tile + LocalCol(t)
    BY <2>1 DEF Col, SharedIdx
  <2>3. pc[u] \in Summing /\ tk[u] = tk[t]
    BY <1>1, <2>1 DEF LockStep
  <2> HIDE DEF u
  <2>4. QED BY <2>1, <2>2, <2>3 DEF Tiles, Summing
<1>8. QED BY <1>6, <1>7

LEMMA AccumulatedInitially == Init => Accumulated
<1> SUFFICES ASSUME Init, NEW t \in Threads(launch) PROVE acc[t] = Terms(t, Added(t))
  BY DEF Accumulated
<1>1. acc[t] = <<>> /\ Added(t) = 0
  BY DEF Init, Start, Added, Summing
<1>2. Terms(t, 0) = <<>>
  BY DEF Terms
<1>3. QED BY <1>1, <1>2

LEMMA AccumulatedPreserved ==
  TypeInv /\ LockStep /\ Position /\ Tiles /\ Accumulated /\ [Next]_vars => Accumulated'
<1> SUFFICES ASSUME TypeInv, LockStep, Position, Tiles, Accumulated, [Next]_vars
             PROVE  Accumulated'
  OBVIOUS
<1>0. /\ pc \in [Threads(launch) -> Labels] /\ inner \in [Threads(launch) -> 0 .. Tile]
      /\ tk \in [Threads(launch) -> Nat] /\ DOMAIN acc = Threads(launch)
  BY DEF TypeInv, TypeOK
<1>1. ASSUME launch' = launch, acc' = acc,
             \A t \in Threads(launch) : Added(t)' = Added(t)
      PROVE  Accumulated'
  BY <1>1 DEF Accumulated, Terms
<1>2. ASSUME NEW t \in Threads(launch), LoadA(t) \/ LoadB(t) \/ Store(t) PROVE Accumulated'
  <2>1. /\ launch' = launch /\ acc' = acc /\ tk' = tk /\ inner' = inner
        /\ pc[t] \notin Summing
        /\ \E label \in {"loadB", "loaded", "done"} : pc' = [pc EXCEPT ![t] = label]
    BY <1>2 DEF LoadA, LoadB, Store, Goto, Summing
  <2>2. \A u \in Threads(launch) : pc[u] \in Summing <=> pc'[u] \in Summing
    BY <2>1, <1>0 DEF Summing
  <2>3. QED BY <1>1, <2>1, <2>2 DEF Added
<1>3. ASSUME NEW w \in Workgroups(launch), TilesLoaded(w) PROVE Accumulated'
  <2>1. \A u \in Threads(launch) : Added(u)' = Added(u)
    BY <1>3, <1>0 DEF TilesLoaded, Arrived, Added, Summing
  <2>2. QED BY <1>1, <1>3, <2>1 DEF TilesLoaded
<1>4. ASSUME NEW t \in Threads(launch), Sum(t) PROVE Accumulated'
  <2>1. /\ launch' = launch /\ tk' = tk /\ pc[t] = "sum"
        /\ inner' = [inner EXCEPT ![t] = @ + 1]
        /\ \E label \in Summing : pc' = [pc EXCEPT ![t] = label]
        /\ acc' = [acc EXCEPT ![t] = Append(@,
                     <<aTile[t[1]][LocalRow(t) * Tile + inner[t]],
                       bTile[t[1]][inner[t] * Tile + LocalCol(t)]>>)]
    BY <1>4 DEF Sum, AddTerm, Goto, Summing
  <2>2. \A u \in Threads(launch) : u # t => Added(u)' = Added(u) /\ acc'[u] = acc[u]
    BY <2>1, <1>0 DEF Added
  <2>3. /\ Added(t) = tk[t] + inner[t] /\ Added(t)' = Added(t) + 1 /\ Added(t) \in Nat
    BY <2>1, <1>0, BlockAssumption DEF Added, Summing
  <2>4. acc'[t] = Append(acc[t], <<AIdx(launch, Row(launch, t), Added(t)),
                                   BIdx(launch, Added(t), Col(launch, t))>>)
    BY <2>1, <2>3, <1>0, NextTerm
  <2>5. acc'[t] = Terms(t, Added(t) + 1)
    BY <2>3, <2>4, TermsStep DEF Accumulated
  <2>6. \A u \in Threads(launch) : acc'[u] = Terms(u, Added(u)')
    BY <2>2, <2>3, <2>5 DEF Accumulated
  <2>7. QED BY <2>1, <2>6 DEF Accumulated, Terms
<1>5. ASSUME NEW w \in Workgroups(launch), TilesSummed(w) PROVE Accumulated'
  <2>1. \A u \in Threads(launch) : Added(u)' = Added(u)
    BY <1>5, <1>0 DEF TilesSummed, Arrived, Added, Summing, Position
  <2>2. QED BY <1>1, <1>5, <2>1 DEF TilesSummed
<1>6. CASE UNCHANGED vars
  BY <1>1, <1>6 DEF vars, Added
<1>7. QED BY <1>2, <1>3, <1>4, <1>5, <1>6 DEF Next, Step, Barrier

LEMMA StoredInitially == Init => Stored /\ DoneHaveStored
BY DEF Init, Stored, DoneHaveStored, Start

LEMMA StoredPreserved ==
  TypeInv /\ Stored /\ DoneHaveStored /\ [Next]_vars => Stored' /\ DoneHaveStored'
<1> SUFFICES ASSUME TypeInv, Stored, DoneHaveStored, [Next]_vars
             PROVE  Stored' /\ DoneHaveStored'
  OBVIOUS
<1>0. pc \in [Threads(launch) -> Labels] /\ DOMAIN acc = Threads(launch)
  BY DEF TypeInv, TypeOK
<1>1. ASSUME launch' = launch, output' = output,
             \A t \in Threads(launch) : pc'[t] = "done" <=> pc[t] = "done",
             \A t \in Threads(launch) : pc[t] = "done" => acc'[t] = acc[t]
      PROVE  Stored' /\ DoneHaveStored'
  <2>1. \A t \in Threads(launch) : pc[t] = "done" => Result(t)' = Result(t)
    BY <1>1 DEF Result
  <2>2. QED BY <1>1, <2>1 DEF Stored, DoneHaveStored
<1>2. ASSUME NEW t \in Threads(launch), LoadA(t) \/ LoadB(t) \/ Sum(t)
      PROVE  Stored' /\ DoneHaveStored'
  <2>1. /\ launch' = launch /\ output' = output /\ pc[t] # "done"
        /\ \A u \in Threads(launch) : u # t => acc'[u] = acc[u]
        /\ \E label \in Labels \ {"done"} : pc' = [pc EXCEPT ![t] = label]
    BY <1>0, <1>2 DEF LoadA, LoadB, Sum, AddTerm, Goto, Labels
  <2>2. QED BY <1>0, <1>1, <2>1
<1>3. ASSUME NEW w \in Workgroups(launch), TilesLoaded(w) \/ TilesSummed(w)
      PROVE  Stored' /\ DoneHaveStored'
  <2>1. \A t \in Threads(launch) : pc'[t] = "done" <=> pc[t] = "done"
    BY <1>0, <1>3 DEF TilesLoaded, TilesSummed, Arrived
  <2>2. QED BY <1>1, <1>3, <2>1 DEF TilesLoaded, TilesSummed
<1>4. ASSUME NEW t \in Threads(launch), Store(t) PROVE Stored' /\ DoneHaveStored'
  <2>1. /\ launch' = launch /\ acc' = acc /\ pc[t] = "store"
        /\ pc' = [pc EXCEPT ![t] = "done"]
        /\ output' = [i \in DOMAIN output |->
                        IF i = Gid(launch, t) THEN {Result(t)} ELSE output[i]]
    BY <1>4 DEF Store, Goto
  <2>2. \A u \in Threads(launch) : Result(u)' = Result(u)
    BY <2>1 DEF Result
  <2>3. QED BY <1>0, <2>1, <2>2 DEF Stored, DoneHaveStored
<1>5. CASE UNCHANGED vars
  BY <1>1, <1>5 DEF vars
<1>6. QED BY <1>2, <1>3, <1>4, <1>5 DEF Next, Step, Barrier

----------------------------------------------------------------------------
(* The result.                                                              *)

IndInv == TypeInv /\ LockStep /\ ValueInv

LEMMA Inductive == Spec => []IndInv
<1>1. Init => IndInv
  BY TypeInvInitially, LockStepInitially, PositionInitially, TilesInitially,
     AccumulatedInitially, StoredInitially DEF IndInv, ValueInv
<1>2. IndInv /\ [Next]_vars => IndInv'
  BY TypeInvPreserved, LockStepPreserved, PositionPreserved, TilesPreserved,
     AccumulatedPreserved, StoredPreserved DEF IndInv, ValueInv
<1>3. QED BY <1>1, <1>2, PTL DEF Spec

\* All terms of an element are the element of the product.
LEMMA TermsAreTheProduct ==
  ASSUME NEW l \in Launches, l = launch, l.kernel \in Products, NEW t \in Threads(l)
  PROVE  Terms(t, K(l)) = Expected(l, Row(l, t), Col(l, t))
<1>1. /\ Row(l, t) \in Nat /\ Col(l, t) \in Nat
      /\ l.rows \in Nat /\ l.inner \in Nat /\ l.cols \in Nat
  BY ThreadFacts, LaunchFacts DEF Products, LaunchType
<1>2. CASE l.kernel = "forward"
  BY <1>1, <1>2 DEF Terms, Expected, At, AIdx, BIdx, SwapA, SwapB, K, M, N, AShape, BShape
<1>3. CASE l.kernel = "gradA"
  BY <1>1, <1>3 DEF Terms, Expected, At, AIdx, BIdx, SwapA, SwapB, K, M, N, AShape, BShape
<1>4. CASE l.kernel = "gradB"
  BY <1>1, <1>4 DEF Terms, Expected, At, AIdx, BIdx, SwapA, SwapB, K, M, N, AShape, BShape
<1>5. QED BY <1>2, <1>3, <1>4 DEF Products

\* An invocation that is done has computed the element it stores at.
LEMMA ResultIsExpected ==
  ASSUME IndInv, NEW t \in Threads(launch), pc[t] = "done",
         NEW r \in 0 .. OutRows(launch) - 1, NEW c \in 0 .. OutCols(launch) - 1,
         Gid(launch, t) = At(OutCols(launch), r, c)
  PROVE  Result(t) = Expected(launch, r, c)
<1>1. launch \in Launches /\ launch.kernel \in Kernels
  BY LaunchFacts DEF IndInv, TypeInv, TypeOK, LaunchType
<1>2. ASSUME launch.kernel # "mapLoss" PROVE Row(launch, t) = r /\ Col(launch, t) = c
  <2>1. /\ Row(launch, t) \in Nat /\ r \in Nat /\ OutCols(launch) \in Nat \ {0}
        /\ Col(launch, t) \in 0 .. OutCols(launch) - 1
        /\ Row(launch, t) * OutCols(launch) + Col(launch, t) = r * OutCols(launch) + c
    BY <1>1, <1>2, ThreadFacts, LaunchFacts DEF At
  <2>2. \A r1, r2 \in Nat, c1, c2 \in 0 .. OutCols(launch) - 1 :
          r1 * OutCols(launch) + c1 = r2 * OutCols(launch) + c2 => r1 = r2 /\ c1 = c2
    BY <2>1, IndexIsInjective
  <2>3. QED BY <2>1, <2>2
<1>3. CASE launch.kernel \in Products
  <2>1. Added(t) = K(launch)
    BY <1>3 DEF IndInv, ValueInv, Position, Added, Summing, Ended
  <2>2. Result(t) = Terms(t, K(launch))
    BY <1>3, <2>1 DEF Result, IndInv, ValueInv, Accumulated, Products
  <2>3. QED BY <1>1, <1>2, <1>3, <2>2, TermsAreTheProduct DEF Products
<1>4. CASE launch.kernel = "classLoss"
  BY <1>2, <1>4 DEF Result, Expected, Products, OutCols
<1>5. CASE launch.kernel \in {"map", "loss", "mapLoss"}
  BY <1>5 DEF Result, Expected, Products, OutCols
<1>6. QED BY <1>1, <1>3, <1>4, <1>5 DEF Kernels, Losses

\* Whatever the interleaving, what is stored is the element of the result.
THEOREM StoredIsRight == Spec => []StoredValuesAreRight
<1>1. IndInv => StoredValuesAreRight
  <2> SUFFICES ASSUME IndInv,
                      NEW r \in 0 .. OutRows(launch) - 1, NEW c \in 0 .. OutCols(launch) - 1
               PROVE  output[At(OutCols(launch), r, c)] \subseteq {Expected(launch, r, c)}
    BY DEF StoredValuesAreRight
  <2>1. launch \in Launches /\ DOMAIN output = 0 .. Size(launch) - 1
    BY DEF IndInv, TypeInv, TypeOK
  <2>2. At(OutCols(launch), r, c) \in DOMAIN output
    BY <2>1, LaunchFacts, IndexIsInBounds DEF At, Size
  <2>3. QED BY <2>2, ResultIsExpected DEF IndInv, ValueInv, Stored
<1>2. QED BY <1>1, Inductive, PTL

\* No kernel leaves its tensors, when the loss kernel has a square block.
THEOREM InBounds ==
  ASSUME \A l \in Launches : l.kernel # "mapLoss"
  PROVE  Spec => []AccessesAreInBounds
<1>1. IndInv => AccessesAreInBounds
  <2> SUFFICES ASSUME IndInv, NEW t \in Threads(launch)
               PROVE  /\ pc[t] = "loadA" =>
                           AIdx(launch, Row(launch, t), tk[t] + LocalCol(t))
                             \in 0 .. M(launch) * K(launch) - 1
                      /\ pc[t] = "loadB" =>
                           BIdx(launch, tk[t] + LocalRow(t), Col(launch, t))
                             \in 0 .. K(launch) * N(launch) - 1
                      /\ pc[t] = "store" => Gid(launch, t) \in DOMAIN output
    BY DEF AccessesAreInBounds
  <2>1. launch \in Launches /\ DOMAIN output = 0 .. Size(launch) - 1 /\ tk[t] \in Nat
    BY DEF IndInv, TypeInv, TypeOK
  <2>2. Gid(launch, t) \in DOMAIN output
    BY <2>1, ThreadFacts, LaunchFacts, IndexIsInBounds DEF At, Size
  <2>3. ASSUME pc[t] \notin Ended
        PROVE  \A n \in 0 .. Tile - 1 : tk[t] + n \in 0 .. K(launch) - 1
    <3>1. tk[t] < K(launch) /\ MultipleOf(tk[t], Tile) /\ MultipleOf(K(launch), Tile)
      BY <2>1, <2>3, LaunchFacts DEF IndInv, ValueInv, Position
    <3>2. PICK q \in Nat, p \in Nat : tk[t] = q * Tile /\ K(launch) = p * Tile
      BY <3>1, <2>1, LaunchFacts DEF MultipleOf
    <3>3. tk[t] + Tile <= K(launch)
      BY <3>1, <3>2, MultiplesAreSteps, BlockAssumption
    <3>4. QED BY <2>1, <3>3, LaunchFacts, BlockAssumption
  <2>4. ASSUME pc[t] = "loadA"
        PROVE  AIdx(launch, Row(launch, t), tk[t] + LocalCol(t))
                 \in 0 .. M(launch) * K(launch) - 1
    <3>1. pc[t] \notin Ended
      BY <2>4 DEF Ended
    <3>2. /\ Row(launch, t) \in 0 .. M(launch) - 1 /\ tk[t] + LocalCol(t) \in 0 .. K(launch) - 1
          /\ M(launch) \in Nat /\ K(launch) \in Nat
      BY <3>1, <2>3, LoopFacts DEF IndInv
    <3>3. \A h, w \in Nat : \A i \in 0 .. h - 1, j \in 0 .. w - 1 :
            i * w + j \in 0 .. h * w - 1
      BY IndexIsInBounds
    <3>4. M(launch) * K(launch) = K(launch) * M(launch)
      BY <3>2
    <3>5. QED BY <3>2, <3>3, <3>4 DEF AIdx
  <2>5. ASSUME pc[t] = "loadB"
        PROVE  BIdx(launch, tk[t] + LocalRow(t), Col(launch, t))
                 \in 0 .. K(launch) * N(launch) - 1
    <3>1. pc[t] \notin Ended
      BY <2>5 DEF Ended
    <3>2. /\ Col(launch, t) \in 0 .. N(launch) - 1 /\ tk[t] + LocalRow(t) \in 0 .. K(launch) - 1
          /\ N(launch) \in Nat /\ K(launch) \in Nat
      BY <3>1, <2>3, LoopFacts DEF IndInv
    <3>3. \A h, w \in Nat : \A i \in 0 .. h - 1, j \in 0 .. w - 1 :
            i * w + j \in 0 .. h * w - 1
      BY IndexIsInBounds
    <3>4. N(launch) * K(launch) = K(launch) * N(launch)
      BY <3>2
    <3>5. QED BY <3>2, <3>3, <3>4 DEF BIdx
  <2>6. QED BY <2>2, <2>4, <2>5
<1>2. QED BY <1>1, Inductive, PTL

\* The invocations of square blocks cover the result.
LEMMA GridCoversTheResult ==
  ASSUME NEW l \in Launches, l.kernel # "mapLoss",
         NEW i \in 0 .. OutRows(l) * OutCols(l) - 1
  PROVE  \E t \in Threads(l) : Gid(l, t) = i
<1> DEFINE b == Block(l).x
<1>1. /\ b \in Nat \ {0} /\ Block(l).y = b /\ OutRows(l) \in Nat /\ OutCols(l) \in Nat
      /\ CalcGrid(l).x \in Nat /\ CalcGrid(l).x * b = OutCols(l)
      /\ CalcGrid(l).y \in Nat /\ CalcGrid(l).y * b = OutRows(l)
  BY GridFacts, LaunchFacts
<1> HIDE DEF b
<1>2. PICK r \in 0 .. OutRows(l) - 1, c \in 0 .. OutCols(l) - 1 : i = r * OutCols(l) + c
  BY <1>1, IndexHasRowAndColumn
<1>3. \A w, h \in Nat : \A n \in 0 .. h * w - 1 :
        \E q \in 0 .. h - 1, k \in 0 .. w - 1 : n = q * w + k
  BY IndexHasRowAndColumn
<1>4. b \in Nat /\ r \in 0 .. CalcGrid(l).y * b - 1 /\ c \in 0 .. CalcGrid(l).x * b - 1
  BY <1>1
<1>5. \E wx \in 0 .. CalcGrid(l).x - 1, lx \in 0 .. b - 1 : c = wx * b + lx
  BY <1>1, <1>3, <1>4
<1>6. \E wy \in 0 .. CalcGrid(l).y - 1, ly \in 0 .. b - 1 : r = wy * b + ly
  BY <1>1, <1>3, <1>4
<1>7. PICK wx \in 0 .. CalcGrid(l).x - 1, lx \in 0 .. b - 1 : c = wx * b + lx
  BY <1>5
<1>8. PICK wy \in 0 .. CalcGrid(l).y - 1, ly \in 0 .. b - 1 : r = wy * b + ly
  BY <1>6
<1> DEFINE t == <<<<wx, wy>>, <<lx, ly>>>>
<1>9. t \in Threads(l)
  BY <1>1, <1>7, <1>8 DEF Threads, Workgroups, Locals, b
<1>10. Row(l, t) = r /\ Col(l, t) = c
  BY <1>1, <1>7, <1>8 DEF Row, Col, LocalRow, LocalCol, b
<1> HIDE DEF t
<1>11. Gid(l, t) = i
  BY <1>2, <1>9, <1>10, ThreadFacts DEF At
<1>12. QED BY <1>9, <1>11

\* The grid covers the result, when the loss kernel has a square block.
THEOREM AllStored ==
  ASSUME \A l \in Launches : l.kernel # "mapLoss"
  PROVE  Spec => []EveryElementIsStored
<1>1. IndInv => EveryElementIsStored
  <2> SUFFICES ASSUME IndInv, AllDone, NEW i \in DOMAIN output
               PROVE  output[i] # {}
    BY DEF EveryElementIsStored
  <2>1. launch \in Launches /\ i \in 0 .. OutRows(launch) * OutCols(launch) - 1
    BY DEF IndInv, TypeInv, TypeOK, Size
  <2>2. PICK t \in Threads(launch) : Gid(launch, t) = i
    BY <2>1, GridCoversTheResult
  <2>3. QED BY <2>2 DEF AllDone, IndInv, ValueInv, DoneHaveStored
<1>2. QED BY <1>1, Inductive, PTL

\* An invocation finds nothing stored at its element, when the loss kernel
\* has a square block.
THEOREM StoredOnce ==
  ASSUME \A l \in Launches : l.kernel # "mapLoss"
  PROVE  Spec => ElementsAreStoredOnce
<1> DEFINE Once == \A t \in Threads(launch) :
                     pc[t] = "store" /\ pc'[t] = "done" => output[Gid(launch, t)] = {}
<1>1. IndInv => Once
  <2> SUFFICES ASSUME IndInv, NEW t \in Threads(launch), pc[t] = "store"
               PROVE  output[Gid(launch, t)] = {}
    OBVIOUS
  <2>1. launch \in Launches /\ DOMAIN output = 0 .. Size(launch) - 1
    BY DEF IndInv, TypeInv, TypeOK
  <2>2. Gid(launch, t) \in DOMAIN output
    BY <2>1, ThreadFacts, LaunchFacts, IndexIsInBounds DEF At, Size
  <2>3. ASSUME NEW u \in Threads(launch), Gid(launch, u) = Gid(launch, t) PROVE u = t
    <3>1. \A v \in {t, u} : /\ Row(launch, v) \in Nat
                            /\ Col(launch, v) \in 0 .. OutCols(launch) - 1
                            /\ Gid(launch, v) = Row(launch, v) * OutCols(launch) + Col(launch, v)
      BY <2>1, ThreadFacts, LaunchFacts DEF At
    <3>2. OutCols(launch) \in Nat \ {0}
      BY <2>1, <3>1, LaunchFacts
    <3>3. \A r1, r2 \in Nat, c1, c2 \in 0 .. OutCols(launch) - 1 :
            r1 * OutCols(launch) + c1 = r2 * OutCols(launch) + c2 => r1 = r2 /\ c1 = c2
      BY <3>2, IndexIsInjective
    <3>4. Row(launch, u) = Row(launch, t) /\ Col(launch, u) = Col(launch, t)
      BY <2>3, <3>1, <3>3
    <3>5. QED BY <2>1, <3>4, RowAndColumnIdentify
  <2>4. QED BY <2>2, <2>3 DEF IndInv, ValueInv, Stored
<1>2. Once => [Once]_vars
  OBVIOUS
<1>3. QED BY <1>1, <1>2, Inductive, PTL DEF ElementsAreStoredOnce
=============================================================================
