-------------------------- MODULE BackwardPassProofs --------------------------
(***************************************************************************)
(* The backward pass as a whole.  A kernel stores the gradient of its root *)
(* and loads only gradients of nodes that come after it, so kernels that   *)
(* eliminate_kernels takes for the same have the same root; and as a       *)
(* kernel adds up all the walks from its root, they add up the same.  No   *)
(* list makes the scheduler return an error, and the schedule it returns   *)
(* stores the gradients of the inputs, each, of a levelled graph, before   *)
(* another kernel loads it.                                                *)
(***************************************************************************)
EXTENDS BackwardPass, BackwardLoweringProofs

-----------------------------------------------------------------------------
(* Elimination. *)

LEMMA TwinsHaveOneRoot ==
  ASSUME NEW a, NEW b, Complete(a), Complete(b), SameKernel(a, b)
  PROVE  a.root = b.root /\ a.reads = b.reads /\ a.writes = b.writes
<1>1. /\ a.root \in Nat /\ b.root \in Nat /\ a.writes = {Grad(a.root)} /\ b.writes = {Grad(b.root)}
      /\ a.reads \cup a.writes = b.reads \cup b.writes
  BY DEF Complete, SameKernel, Nodes
<1>2. ASSUME NEW m, NEW r, Loadable(Grad(m), r) PROVE r < m
  BY <1>2 DEF Loadable, Grad, Seed, In, Saved
<1>3. \A m, n : Grad(m) = Grad(n) => m = n
  BY DEF Grad
<1>4. a.root = b.root
  <2>1. Grad(a.root) \in b.reads \cup {Grad(b.root)} /\ Grad(b.root) \in a.reads \cup {Grad(a.root)}
    BY <1>1
  <2>2. Grad(a.root) \in b.reads => b.root < a.root
    BY <1>2 DEF Complete
  <2>3. Grad(b.root) \in a.reads => a.root < b.root
    BY <1>2 DEF Complete
  <2> QED BY <1>1, <1>3, <2>1, <2>2, <2>3
<1>5. Grad(a.root) \notin a.reads /\ Grad(b.root) \notin b.reads
  BY <1>1, <1>2 DEF Complete
<1> QED BY <1>1, <1>4, <1>5

\* Lists of the inputs done depend on nodes, and all inputs are done when lowering is.
ChainDepends == \A e \in Range(chain) : e.dep \subseteq Nat
DoneWithInputs == status = "lowered" => inputs = << >>

\* The list is handed over once lowering is done, and never changes again.
HandedOver ==
  outcome # "waiting" => status = "lowered" /\ kernels = eliminate_kernels(chain)

LoweredInv == WalkInv /\ ChainDepends /\ DoneWithInputs

LEMMA LoweredInit == Init => LoweredInv
<1> SUFFICES ASSUME Init PROVE LoweredInv
  OBVIOUS
<1>1. Range(chain) = {}
  BY DEF Init, Range
<1> QED BY <1>1, WalkInit DEF Init, LoweredInv, ChainDepends, DoneWithInputs

LEMMA LoweredNext == LoweredInv /\ [Next]_vars => LoweredInv'
<1> SUFFICES ASSUME LoweredInv, [Next]_vars PROVE LoweredInv'
  OBVIOUS
<1>1. WalkInv'
  BY WalkNext DEF LoweredInv
<1>2. CASE EndInput
  <2>1. chain' = chain \o segment /\ status' = "lowering"
    BY <1>2 DEF EndInput, BetweenKernels
  <2>2. \A e \in Range(segment) : e.dep \subseteq Nat
    <3>1. /\ IndInv /\ Order \in Seq(Nat) /\ DOMAIN segment = 1 .. Len(segment)
          /\ Len(segment) \in Nat /\ Len(Order) = Len(segment)
      <4>1. IndInv /\ segment \in Seq(Range(segment))
        BY DEF LoweredInv, WalkInv, ProfileInv, IndInv, ListSoFar
      <4>2. Order \in Seq(Nat)
        BY <4>1, ListIs
      <4> QED BY <4>1, <4>2 DEF Order
    <3>2. \A i \in DOMAIN segment : segment[i].dep = BackwardList(Order)[i].dep
      BY <3>1 DEF IndInv, ListSoFar
    <3>3. \A i \in 1 .. Len(Order) : BackwardList(Order)[i].dep \subseteq Range(Order)
      BY DEF BackwardList
    <3>4. Range(Order) \subseteq Nat
      BY <3>1 DEF Range
    <3> QED BY <3>1, <3>2, <3>3, <3>4 DEF Range
  <2>3. Range(chain') = Range(chain) \cup Range(segment)
    <3> DEFINE S == Range(chain) \cup Range(segment)
    <3>1. chain \in Seq(S) /\ segment \in Seq(S)
      <4>1. chain \in Seq(Range(chain)) /\ segment \in Seq(Range(segment))
        BY DEF LoweredInv, WalkInv, ProfileInv, KernelsAreComplete, IndInv, ListSoFar
      <4>2. \A A, B : Seq(A) \subseteq Seq(A \cup B) /\ Seq(B) \subseteq Seq(A \cup B)
        OBVIOUS
      <4> QED BY <4>1, <4>2
    <3> HIDE DEF S
    <3> QED BY <2>1, <3>1, RangeConcat
  <2>4. ChainDepends'
    BY <2>2, <2>3 DEF LoweredInv, ChainDepends
  <2> QED BY <1>1, <2>1, <2>4 DEF LoweredInv, DoneWithInputs
<1>3. CASE ~EndInput
  <2>1. chain' = chain
    BY <1>3 DEF Next, StartSweep, Return, SkipRoot, StartKernel, FinishKernel, EvalGrad, VisitSink,
                VisitSplit, VisitUsers, FollowEdge, FinishNode, Fail, vars
  <2>2. DoneWithInputs'
    BY <1>3 DEF Next, StartSweep, Return, SkipRoot, StartKernel, FinishKernel, EvalGrad, VisitSink,
                VisitSplit, VisitUsers, FollowEdge, FinishNode, Fail, vars, BetweenKernels, Running,
                LoweredInv, DoneWithInputs
  <2> QED BY <1>1, <2>1, <2>2 DEF LoweredInv, ChainDepends
<1> QED BY <1>2, <1>3

\* The entries of the list handed over: a redirection leads to an earlier kernel of the same root.
LEMMA EliminatedAreTwins ==
  ASSUME LoweredInv, HandedOver, outcome # "waiting"
  PROVE  /\ DOMAIN kernels = 1 .. Len(chain) /\ DOMAIN chain = 1 .. Len(chain) /\ Len(chain) \in Nat
         /\ Len(kernels) = Len(chain)
         /\ \A i \in 1 .. Len(chain) :
              LET twin == chain[TargetIn(kernels, i)].kernel
                  own == chain[i].kernel
              IN  /\ TargetIn(kernels, i) \in 1 .. Len(chain) /\ Complete(own)
                  /\ kernels[i].root = own.root /\ kernels[i].dep = chain[i].dep
                  /\ kernels[TargetIn(kernels, i)].redirect = Unmasked
                  /\ twin.root = own.root /\ twin.reads = own.reads /\ twin.writes = own.writes
                  /\ twin.terms = own.terms
<1>1. DOMAIN chain = 1 .. Len(chain) /\ Len(chain) \in Nat
  BY DEF LoweredInv, WalkInv, ProfileInv, KernelsAreComplete
<1> DEFINE K(i) == [root |-> chain[i].kernel.root, dep |-> chain[i].dep,
                    redirect |-> kernels[i].redirect]
<1>2. /\ kernels = [i \in 1 .. Len(chain) |-> K(i)]
      /\ \A i \in 1 .. Len(chain) :
           \/ kernels[i].redirect = Unmasked
           \/ /\ kernels[i].redirect \in 1 .. i - 1
              /\ kernels[kernels[i].redirect].redirect = Unmasked
              /\ SameKernel(chain[kernels[i].redirect].kernel, chain[i].kernel)
  BY <1>1, EliminateFacts DEF HandedOver
<1>3. \A i : K(i).root = chain[i].kernel.root /\ K(i).dep = chain[i].dep
  OBVIOUS
<1> HIDE DEF K
<1>4. DOMAIN kernels = 1 .. Len(chain) /\ \A i \in 1 .. Len(chain) : kernels[i] = K(i)
  BY <1>2
<1>5. Len(kernels) = Len(chain)
  BY <1>1, <1>2
<1>6. \A i \in 1 .. Len(chain) : /\ Complete(chain[i].kernel)
                                 /\ chain[i].kernel.terms = Terms(chain[i].kernel.root)
  BY <1>1 DEF LoweredInv, WalkInv, ProfileInv, KernelsAreComplete, WalksAreSummed, Range
<1>7. ASSUME NEW i \in 1 .. Len(chain)
      PROVE  LET twin == chain[TargetIn(kernels, i)].kernel
                 own == chain[i].kernel
             IN  /\ TargetIn(kernels, i) \in 1 .. Len(chain)
                 /\ kernels[TargetIn(kernels, i)].redirect = Unmasked
                 /\ twin.root = own.root /\ twin.reads = own.reads /\ twin.writes = own.writes
                 /\ twin.terms = own.terms
  <2>1. CASE kernels[i].redirect = Unmasked
    BY <2>1 DEF TargetIn
  <2>2. CASE kernels[i].redirect # Unmasked
    <3> DEFINE j == kernels[i].redirect
    <3>1. /\ j \in 1 .. Len(chain) /\ kernels[j].redirect = Unmasked
          /\ SameKernel(chain[j].kernel, chain[i].kernel) /\ TargetIn(kernels, i) = j
      BY <1>1, <1>2, <2>2 DEF TargetIn
    <3> HIDE DEF j
    <3>2. /\ chain[j].kernel.root = chain[i].kernel.root /\ chain[j].kernel.reads = chain[i].kernel.reads
          /\ chain[j].kernel.writes = chain[i].kernel.writes
      BY <1>6, <3>1, TwinsHaveOneRoot
    <3> QED BY <1>6, <3>1, <3>2
  <2> QED BY <2>1, <2>2
<1> QED BY <1>1, <1>3, <1>4, <1>5, <1>6, <1>7

-----------------------------------------------------------------------------
(* The schedule of the list. *)

\* What is proved of the scheduling loop, whatever the list, of the loop in this pass.
Loop == INSTANCE KernelScheduleProofs
  WITH KernelLists <- {ks \in Seq(KernelEntry) : IsKernelList(ks)},
       resolved <- placed, tmp_res <- batch, scheduled <- schedule, status <- outcome

LEMMA LoopAssumption == Loop!KernelListsAssumption
BY DEF Loop!IsKernelList, IsKernelList, Loop!KernelEntry, KernelEntry

LEMMA SameLoop == Scheduler!Next <=> Loop!Next
BY DEF Scheduler!Next, Loop!Next, Scheduler!StartSweep, Loop!StartSweep, Scheduler!Return, Loop!Return,
   Scheduler!Fail, Loop!Fail, Scheduler!Skip, Loop!Skip, Scheduler!Postpone, Loop!Postpone,
   Scheduler!Place, Loop!Place, Scheduler!EndSweep, Loop!EndSweep,
   Scheduler!N, Loop!N, Scheduler!Target, Loop!Target, Scheduler!Root, Loop!Root,
   Scheduler!DoublyRedirected, Loop!DoublyRedirected, Scheduler!Resolved, Loop!Resolved,
   Scheduler!Ready, Loop!Ready, Scheduler!TargetIn, Loop!TargetIn, Scheduler!RootIn, Loop!RootIn,
   Scheduler!Unmasked, Loop!Unmasked, Scheduler!Range, Loop!Range

LEMMA LoopStarts == Loop!Init' => Loop!IndInv'
BY LoopAssumption, Loop!LoopInit, PTL

\* The list of a lowered graph is one the scheduler can be given.
LEMMA ListIsKernelList ==
  ASSUME LoweredInv
  PROVE  eliminate_kernels(chain) \in Seq(KernelEntry) /\ IsKernelList(eliminate_kernels(chain))
<1> DEFINE ks == eliminate_kernels(chain)
           L == Len(chain)
<1>1. DOMAIN chain = 1 .. L /\ L \in Nat
  BY DEF LoweredInv, WalkInv, ProfileInv, KernelsAreComplete
<1>2. /\ ks = [i \in 1 .. L |-> [root |-> chain[i].kernel.root, dep |-> chain[i].dep,
                                redirect |-> ks[i].redirect]]
      /\ \A i \in 1 .. L : ks[i].redirect = Unmasked \/ ks[i].redirect \in 1 .. i - 1
  BY <1>1, EliminateFacts
<1>3. \A i \in 1 .. L : chain[i].kernel.root \in Nat /\ chain[i].dep \in SUBSET Nat
  <2>1. \A i \in 1 .. L : chain[i] \in Range(chain)
    BY <1>1 DEF Range
  <2>2. \A e \in Range(chain) : e.kernel.root \in Nat /\ e.dep \in SUBSET Nat
    BY DEF LoweredInv, WalkInv, ProfileInv, KernelsAreComplete, Complete, ChainDepends, Nodes
  <2> QED BY <2>1, <2>2
<1>4. \A i \in 1 .. L : ks[i].redirect \in Nat /\ ks[i].redirect \in 0 .. L
  <2>1. ASSUME NEW i \in 1 .. L, NEW r, r = Unmasked \/ r \in 1 .. i - 1
        PROVE  r \in Nat /\ r \in 0 .. L
    BY <1>1, <2>1 DEF Unmasked
  <2> HIDE DEF ks, L
  <2> QED BY <1>2, <2>1
<1> DEFINE K(i) == [root |-> chain[i].kernel.root, dep |-> chain[i].dep, redirect |-> ks[i].redirect]
<1>5. \A i \in 1 .. L : K(i) \in KernelEntry
  BY <1>3, <1>4 DEF KernelEntry
<1>6. ks = [i \in 1 .. L |-> K(i)]
  BY <1>2
<1> HIDE DEF ks, L, K
<1>7. ks \in Seq(KernelEntry) /\ Len(ks) = L
  BY <1>1, <1>5, <1>6
<1> QED BY <1>4, <1>7 DEF IsKernelList, ks

PassInv ==
  /\ LoweredInv
  /\ HandedOver
  /\ outcome = "waiting" => placed = << >> /\ batch = << >> /\ schedule = << >> /\ pos = 0
  /\ outcome # "waiting" => Loop!IndInv
  /\ outcome # "error"

LEMMA PassStarts == PassInit => PassInv
BY LoweredInit DEF PassInit, PassInv, HandedOver

LEMMA LowerPass == PassInv /\ Lower => PassInv'
<1> SUFFICES ASSUME PassInv, Lower PROVE PassInv'
  OBVIOUS
<1>1. LoweredInv'
  BY LoweredNext DEF PassInv, Lower
<1>2. status = "lowering"
  BY DEF Lower, Next, StartSweep, EndInput, Return, SkipRoot, StartKernel, FinishKernel,
         BetweenKernels, EvalGrad, VisitSink, VisitSplit, VisitUsers, FollowEdge, FinishNode, Running
<1>3. outcome = "waiting" /\ UNCHANGED scheduleVars
  BY <1>2 DEF PassInv, HandedOver, Lower
<1> QED BY <1>1, <1>3 DEF PassInv, HandedOver, scheduleVars

LEMMA HandOverPass == PassInv /\ HandOver => PassInv'
<1> SUFFICES ASSUME PassInv, HandOver PROVE PassInv'
  OBVIOUS
<1>1. LoweredInv'
  BY LoweredNext DEF PassInv, HandOver
<1>2. HandedOver'
  BY DEF HandOver, HandedOver, vars
<1>3. Loop!Init'
  <2>1. kernels' \in {ks \in Seq(KernelEntry) : IsKernelList(ks)}
    BY ListIsKernelList DEF PassInv, HandOver
  <2> QED BY <2>1 DEF PassInv, HandOver, Loop!Init
<1>4. Loop!IndInv' /\ outcome' = "running"
  BY <1>3, LoopStarts DEF HandOver
<1> QED BY <1>1, <1>2, <1>4 DEF PassInv

\* No entry is redirected to a redirected one, so the loop never gives up.
LEMMA SchedulePass == PassInv /\ Schedule => PassInv'
<1> SUFFICES ASSUME PassInv, Schedule PROVE PassInv'
  OBVIOUS
<1>1. LoweredInv'
  BY LoweredNext DEF PassInv, Schedule
<1>2. /\ outcome = "running" /\ outcome' # "waiting" /\ kernels' = kernels
      /\ outcome' = "error" => Scheduler!Fail
  BY DEF Schedule, Scheduler!Next, Scheduler!StartSweep, Scheduler!Return, Scheduler!Fail,
         Scheduler!Skip, Scheduler!Postpone, Scheduler!Place, Scheduler!EndSweep
<1>3. HandedOver'
  BY <1>2 DEF PassInv, Schedule, HandedOver, vars
<1>4. Loop!IndInv'
  BY <1>2, SameLoop, LoopAssumption, Loop!LoopNext DEF PassInv, Schedule
<1>5. ~Scheduler!Fail
  <2>1. Len(kernels) = Len(chain)
        /\ \A i \in 1 .. Len(chain) : kernels[TargetIn(kernels, i)].redirect = Unmasked
    BY <1>2, EliminatedAreTwins DEF PassInv
  <2> QED BY <2>1
          DEF Scheduler!Fail, Scheduler!DoublyRedirected, Scheduler!Target, Scheduler!TargetIn,
              Scheduler!N, Scheduler!Unmasked, Unmasked, TargetIn
<1> QED BY <1>1, <1>2, <1>3, <1>4, <1>5 DEF PassInv

LEMMA PassSteps == PassInv /\ [PassNext]_passVars => PassInv'
<1> SUFFICES ASSUME PassInv, UNCHANGED passVars PROVE PassInv'
  BY LowerPass, HandOverPass, SchedulePass DEF PassNext
<1>1. UNCHANGED vars /\ UNCHANGED scheduleVars
  BY DEF passVars
<1>2. LoweredInv'
  BY <1>1, LoweredNext DEF PassInv
<1>3. HandedOver'
  BY <1>1 DEF PassInv, HandedOver, vars, scheduleVars
<1>4. outcome # "waiting" => Loop!IndInv'
  BY <1>1, LoopAssumption, Loop!LoopNext DEF PassInv, scheduleVars, Loop!vars
<1> QED BY <1>1, <1>2, <1>3, <1>4 DEF PassInv, scheduleVars

\* The schedule, once there is a list: its entries, each launching the kernel it stands for.
LEMMA ScheduleFacts ==
  ASSUME PassInv, outcome # "waiting"
  PROVE  /\ Len(schedule) \in Nat /\ DOMAIN schedule = 1 .. Len(schedule)
         /\ \A p \in 1 .. Len(schedule) :
              /\ schedule[p].entry \in 1 .. Len(chain) /\ schedule[p].kernel \in 1 .. Len(chain)
              /\ schedule[p].kernel = TargetIn(kernels, schedule[p].entry)
         /\ outcome = "done" => {schedule[p].entry : p \in 1 .. Len(schedule)} = 1 .. Len(chain)
<1>1. Loop!IndInv /\ Loop!TypeOK /\ Loop!Ledger
  BY DEF PassInv, Loop!IndInv
<1>2. Loop!N = Len(chain)
  BY EliminatedAreTwins DEF PassInv, Loop!N
<1>3. schedule \in Seq([entry : 1 .. Len(chain), kernel : 1 .. Len(chain)])
  BY <1>1, <1>2 DEF Loop!TypeOK
<1>4. Len(schedule) \in Nat /\ DOMAIN schedule = 1 .. Len(schedule)
      /\ \A p \in 1 .. Len(schedule) :
           schedule[p].entry \in 1 .. Len(chain) /\ schedule[p].kernel \in 1 .. Len(chain)
  <2> DEFINE E == [entry : 1 .. Len(chain), kernel : 1 .. Len(chain)]
  <2>1. \A e \in E : e.entry \in 1 .. Len(chain) /\ e.kernel \in 1 .. Len(chain)
    OBVIOUS
  <2> HIDE DEF E
  <2>2. schedule \in Seq(E)
    BY <1>3 DEF E
  <2>3. \A p \in 1 .. Len(schedule) : schedule[p] \in E
    BY <2>2
  <2> QED BY <2>1, <2>2, <2>3
<1>5. \A p \in 1 .. Len(schedule) : schedule[p].kernel = TargetIn(kernels, schedule[p].entry)
  BY <1>1 DEF Loop!Ledger, Loop!Target, Loop!TargetIn, TargetIn, Loop!Unmasked, Unmasked
<1>6. outcome = "done" => {schedule[p].entry : p \in 1 .. Len(schedule)} = 1 .. Len(chain)
  BY <1>1, <1>2, LoopAssumption, Loop!DoneIsComplete DEF Loop!ReturnedScheduleIsComplete
<1> QED BY <1>4, <1>5, <1>6

\* A kernel that is eliminated loads, adds up and stores what the kernel launched in its place
\* does: in the backward pass, of every graph, eliminating kernels is sound.
THEOREM EliminationIsAlwaysSound == PassSpec => []EliminationIsSound
<1>1. PassInv => EliminationIsSound
  BY EliminatedAreTwins DEF PassInv, EliminationIsSound, TwinsAgree
<1> QED BY <1>1, PassStarts, PassSteps, PTL DEF PassSpec

\* The scheduler finds no redirection to a redirected entry, which would make it return an error.
THEOREM SchedulingNeverFails == PassSpec => [](outcome # "error")
BY PassStarts, PassSteps, PTL DEF PassSpec, PassInv

\* A returned schedule stores the gradient of every input that is used, of any graph, even where
\* kernels of different inputs were taken for the same.
THEOREM InputsHaveTheirGradients == PassSpec => []EveryInputHasItsGradient
<1>1. PassInv => EveryInputHasItsGradient
  <2> SUFFICES ASSUME PassInv, outcome = "done", NEW n \in Nodes(graph), IsInput(n),
                      ~IsSink(graph, n)
               PROVE  \E p \in DOMAIN schedule : Grad(n) \in chain[schedule[p].kernel].kernel.writes
    BY DEF EveryInputHasItsGradient, IsInput
  <2>1. inputs = << >> /\ Range(inputs) = {}
    BY DEF PassInv, HandedOver, LoweredInv, DoneWithInputs, Range
  <2>2. PICK i \in 1 .. Len(chain) : chain[i].kernel.root = n
    <3>1. \E e \in Range(chain) : e.kernel.root = n
      BY <2>1 DEF PassInv, LoweredInv, WalkInv, ProfileInv, InputsAreAhead
    <3>2. DOMAIN chain = 1 .. Len(chain)
      BY EliminatedAreTwins DEF PassInv
    <3> QED BY <3>1, <3>2 DEF Range
  <2>3. chain[TargetIn(kernels, i)].kernel.writes = {Grad(n)}
    BY <2>2, EliminatedAreTwins DEF PassInv, Complete
  <2>4. PICK p \in 1 .. Len(schedule) : schedule[p].entry = i
    BY ScheduleFacts
  <2>5. p \in DOMAIN schedule /\ schedule[p].kernel = TargetIn(kernels, i)
    BY <2>4, ScheduleFacts
  <2> QED BY <2>3, <2>5
<1> QED BY <1>1, PassStarts, PassSteps, PTL DEF PassSpec

-----------------------------------------------------------------------------
(* The order of the launches. *)

\* Of a levelled graph, a kernel depends on every kernel whose gradient it loads, also in a list
\* put together from several inputs and after elimination, so that the schedule stores the
\* gradient first.
THEOREM GradientsAreStoredFirst == PassSpec => [](Levelled(graph) => StoredBeforeLoaded)
<1> DEFINE Inv == PassInv /\ LevelInv
<1>1. PassInit => Inv
  BY PassStarts, LevelInit DEF PassInit
<1>2. Inv /\ [PassNext]_passVars => Inv'
  <2>1. [PassNext]_passVars => [Next]_vars
    BY DEF PassNext, Lower, HandOver, Schedule, passVars
  <2> QED BY <2>1, PassSteps, LevelNext
<1>3. Inv => (Levelled(graph) => StoredBeforeLoaded)
  <2> SUFFICES ASSUME PassInv, LevelInv, Levelled(graph), NEW q \in DOMAIN schedule,
                      NEW t \in chain[schedule[q].kernel].kernel.reads, t \in WrittenBy(chain)
               PROVE  \E p \in 1 .. q - 1 : t \in chain[schedule[p].kernel].kernel.writes
    BY DEF StoredBeforeLoaded, LoadsFollowStores
  <2>1. outcome # "waiting"
    <3>1. schedule = << >> => DOMAIN schedule = {}
      OBVIOUS
    <3> QED BY <3>1 DEF PassInv
  <2>2. LoadsAreDeps
    <3>1. PICK lev \in [Nodes(graph) -> 0 .. Len(graph)] : Levelling(graph, lev)
      BY DEF Levelled
    <3>2. 0 .. Len(graph) \subseteq Nat
      BY GraphFacts DEF LevelInv, ProfileInv, IndInv
    <3>3. lev \in [Nodes(graph) -> Nat]
      BY <3>2
    <3> QED BY <3>1, <3>3 DEF LevelInv, LevelAt
  <2>3. /\ Len(schedule) \in Nat /\ DOMAIN schedule = 1 .. Len(schedule)
        /\ \A p \in 1 .. Len(schedule) :
             /\ schedule[p].entry \in 1 .. Len(chain) /\ schedule[p].kernel \in 1 .. Len(chain)
             /\ schedule[p].kernel = TargetIn(kernels, schedule[p].entry)
    BY <2>1, ScheduleFacts
  <2> DEFINE i == schedule[q].entry
  <2>4. i \in 1 .. Len(chain) /\ schedule[q].kernel = TargetIn(kernels, i) /\ q \in 1 .. Len(schedule)
    BY <2>3
  <2> HIDE DEF i
  <2>5. /\ DOMAIN chain = 1 .. Len(chain)
        /\ \A k \in 1 .. Len(chain) : Complete(chain[k].kernel) /\ kernels[k].root = chain[k].kernel.root
        /\ kernels[i].dep = chain[i].dep /\ t \in chain[i].kernel.reads
    BY <2>1, <2>4, EliminatedAreTwins DEF PassInv
  <2>6. PICK n \in Nodes(graph) : t = Grad(n)
    BY <2>5 DEF WrittenBy, KernelsOf, Complete
  <2>7. n \in kernels[i].dep
    BY <2>2, <2>4, <2>5, <2>6 DEF LoadsAreDeps, Range
  <2>8. PICK p \in 1 .. q - 1 : kernels[schedule[p].kernel].root = n
    <3>1. Loop!DependenciesFirst
      BY <2>1 DEF PassInv, Loop!IndInv
    <3> QED BY <2>4, <2>7, <3>1 DEF Loop!DependenciesFirst, i
  <2>9. p \in 1 .. Len(schedule)
    BY <2>3, <2>4
  <2> DEFINE k == schedule[p].kernel
  <2>10. k \in 1 .. Len(chain) /\ chain[k].kernel.root = n
    BY <2>3, <2>5, <2>8, <2>9
  <2> HIDE DEF k
  <2>11. t \in chain[k].kernel.writes
    BY <2>5, <2>6, <2>10 DEF Complete
  <2> QED BY <2>11 DEF k
<1> QED BY <1>1, <1>2, <1>3, PTL DEF PassSpec

-----------------------------------------------------------------------------
(* The parameters. *)

LEMMA Declared ==
  ASSUME IndInv, saved = compute_saved_nodes(graph)
  PROVE  Range(backward_params(graph, saved)) =
           {Meta, Seed} \cup {Grad(n) : n \in {m \in Nodes(graph) : HasGradParam(m)}}
             \cup {In(n) : n \in {m \in Nodes(graph) : IsInput(m)}}
             \cup {Saved(n) : n \in {m \in Nodes(graph) : is_defined_in_forward(saved, m)}}
<1> DEFINE G == {m \in Nodes(graph) : HasGradParam(m)}
           I == {m \in Nodes(graph) : IsInput(m)}
           F == {m \in Nodes(graph) : is_defined_in_forward(saved, m)}
           a == << Meta, Seed >>
           b == Each(Grad, DefinedInBackward(saved))
           c == Each(In, Inputs(graph))
           d == Each(Saved, DefinedInForward(saved))
           S == Range(a) \cup Range(b) \cup Range(c) \cup Range(d)
<1>1. DOMAIN saved = Nodes(graph) /\ Len(graph) \in Nat
  BY GraphFacts DEF IndInv, compute_saved_nodes
<1>2. ASSUME NEW T \in SUBSET Nodes(graph)
      PROVE  Ascending(T) \in Seq(Nat) /\ Range(Ascending(T)) = T
  <2>1. T \in SUBSET (1 .. Len(graph)) /\ T \subseteq Nat
    BY <1>1 DEF Nodes
  <2>2. Ascending(T) \in Seq(T) /\ Range(Ascending(T)) = T
    BY <1>1, <2>1, AscendingType, AscendingRange
  <2>3. \A A, B : A \subseteq B => Seq(A) \subseteq Seq(B)
    OBVIOUS
  <2> QED BY <2>1, <2>2, <2>3
<1>3. /\ DefinedInBackward(saved) = Ascending(G) /\ Inputs(graph) = Ascending(I)
      /\ DefinedInForward(saved) = Ascending(F)
  BY <1>1 DEF DefinedInBackward, Inputs, DefinedInForward, HasGradParam, IsInput
<1>4. G \in SUBSET Nodes(graph) /\ I \in SUBSET Nodes(graph) /\ F \in SUBSET Nodes(graph)
  OBVIOUS
<1> HIDE DEF G, I, F
<1>5. b \in Seq(Range(b)) /\ Range(b) = {Grad(n) : n \in G}
  BY <1>2, <1>3, <1>4, EachRange
<1>6. c \in Seq(Range(c)) /\ Range(c) = {In(n) : n \in I}
  BY <1>2, <1>3, <1>4, EachRange
<1>7. d \in Seq(Range(d)) /\ Range(d) = {Saved(n) : n \in F}
  BY <1>2, <1>3, <1>4, EachRange
<1>8. a \in Seq(Range(a)) /\ Range(a) = {Meta, Seed}
  <2>1. DOMAIN a = 1 .. 2 /\ a[1] = Meta /\ a[2] = Seed /\ a \in Seq({Meta, Seed})
    OBVIOUS
  <2>2. Range(a) = {Meta, Seed}
    BY <2>1 DEF Range
  <2> QED BY <2>1, <2>2
<1>9. backward_params(graph, saved) = a \o b \o c \o d
  BY DEF backward_params
<1> HIDE DEF a, b, c, d
<1>10. a \in Seq(S) /\ b \in Seq(S) /\ c \in Seq(S) /\ d \in Seq(S)
  <2>1. \A A, B : A \subseteq B => Seq(A) \subseteq Seq(B)
    OBVIOUS
  <2> QED BY <1>5, <1>6, <1>7, <1>8, <2>1
<1> HIDE DEF S
<1>11. a \o b \in Seq(S) /\ a \o b \o c \in Seq(S)
  BY <1>10
<1>12. Range(a \o b \o c \o d) = Range(a) \cup Range(b) \cup Range(c) \cup Range(d)
  <2> DEFINE ab == a \o b
             abc == ab \o c
  <2>1. Range(ab) = Range(a) \cup Range(b)
    BY <1>10, RangeConcat
  <2>2. ab \in Seq(S) /\ abc \in Seq(S)
    BY <1>11
  <2>3. Range(abc) = Range(ab) \cup Range(c)
    <3> HIDE DEF ab
    <3> QED BY <1>10, <2>2, RangeConcat
  <2>4. Range(abc \o d) = Range(abc) \cup Range(d)
    <3> HIDE DEF abc
    <3> QED BY <1>10, <2>2, RangeConcat
  <2> QED BY <2>1, <2>3, <2>4
<1> QED BY <1>5, <1>6, <1>7, <1>8, <1>9, <1>12 DEF G, I, F

\* Every tensor a launched kernel loads or stores was declared as a parameter, and the buffer
\* bound to the parameter is the tensor's.
THEOREM TensorsAreBoundAsDeclared == PassSpec => []TensorsAreBound
<1>1. PassInv => TensorsAreBound
  <2> DEFINE params == backward_params(graph, saved)
  <2>1. backward_bindings(graph, saved) = params
    BY DEF backward_bindings, backward_params
  <2> SUFFICES ASSUME PassInv, schedule # << >>, NEW p \in DOMAIN schedule,
                      NEW t \in chain[schedule[p].kernel].kernel.reads
                                  \cup chain[schedule[p].kernel].kernel.writes
               PROVE  \E s \in DOMAIN params : params[s] = t
    BY <2>1 DEF TensorsAreBound, BoundAsDeclared
  <2>2. outcome # "waiting"
    BY DEF PassInv
  <2> DEFINE k == chain[schedule[p].kernel].kernel
  <2>3. Complete(k)
    <3>1. schedule[p].kernel \in 1 .. Len(chain)
      BY <2>2, ScheduleFacts
    <3> QED BY <2>2, <3>1, EliminatedAreTwins DEF PassInv
  <2>4. t \in k.reads \/ t \in k.writes
    OBVIOUS
  <2> HIDE DEF k
  <2>5. \/ \E n \in Nodes(graph) : t = Grad(n) /\ HasGradParam(n)
        \/ Loadable(t, k.root)
    BY <2>3, <2>4 DEF Complete
  <2>6. IndInv /\ saved = compute_saved_nodes(graph)
    BY DEF PassInv, LoweredInv, WalkInv, ProfileInv
  <2>7. \A n \in Nodes(graph) : Transform(n) => HasGradParam(n)
    BY <2>6, NodeFacts, SavedFacts DEF HasGradParam, Transform
  <2>8. t \in Range(params)
    BY <2>5, <2>6, <2>7, Declared DEF Loadable
  <2> QED BY <2>8 DEF Range
<1> QED BY <1>1, PassStarts, PassSteps, PTL DEF PassSpec
==============================================================================
