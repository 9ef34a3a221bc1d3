# A formal model of `fused_gpu`

`fused_gpu` compiles an execution graph of tensor operations into GPU kernels: it
fuses nodes into as few kernels as it can, cuts the graph where fusion is
impossible, derives the backward pass, merges duplicate kernels, rewrites their
values, orders and binds them, and runs them on a device that several threads of
the program may share. This directory holds TLA+ modules that model that path
from the first builder call to the download of a result, the TLC configurations
that check them on small instances, and TLAPS proofs about the preparation of
graphs, the two lowering passes, the scheduler, the launch of a kernel, and the
runtime.

Line numbers refer to the repository's files; paths without a directory are
under `src/dispatch/backend/`. The code counts nodes, kernels and operands from
0, the models from 1.

## The system

| Component | Code | State | Operations | Correct when |
|---|---|---|---|---|
| Graph | `mod.rs` | nodes with operation, inputs, outputs, shape | builders over `add_node`, `compute_saved_nodes`, `validate`, `topo_sort`, `rebuild_outputs` | edges agree in both directions; preparing the graph changes no value |
| Operations | `std_lib/*.rs` | none (tables of functions) | `save`, `lower`, `valid_shape` of each operation | what a derivative reads has been kept |
| Forward lowering | `kernel/forward.rs` | roots, resolved nodes, the kernel under construction, the kernel list | `lower_forward`, `eval_node` | every kept value is computed by some kernel; kernels list their dependencies |
| Backward lowering | `kernel/backward.rs` | the same, for one graph input at a time | `lower_backward`, `eval_grad` | a kernel's gradient has a term for every path to an output |
| Elimination | `kernel/mod.rs` | the kernel list | `eliminate_kernels` | a removed kernel does what its twin does |
| Scheduler | `wgsl/mod.rs` | resolved roots, roots of this sweep, schedule | `GpuContext::schedule` | dependencies first, every entry once, and it ends |
| Bindings | `dispatch/mod.rs` | lists of buffers | `alloc_tensors`, `schedule` | each parameter gets its own tensor |
| Kernel library | `std_lib/*.rs`, `kernel/loss.rs` | none | `forward`, `grad_*`, `lower_loss` | a kernel computes its operation, its derivative, its loss |
| Optimizer | `kernel/optimize.rs`, `ops.rs`, `value.rs` | values and statements of a kernel | peephole passes | what a kernel stores does not change |
| WGSL generator | `wgsl/mod.rs` | text | `generate_wgsl` | every value read is declared and rendered |
| Geometry | `tensor.rs`, `std_lib/matmul.rs` | none | `build_dims`, `calc_grid`, index arithmetic | each element of the result is computed once, from the right elements |
| Launch | `std_lib/matmul.rs`, WGPU | tiles of a workgroup, accumulators, the result | `forward_matmul` in every invocation | the same result whatever the interleaving, and no invocation left at a barrier |
| Device runtime | `wgsl/mod.rs`, `dispatch/mod.rs` | recorded batches, queue, mappings, buffers | `upload`, `pipe`, batches, `submit`, `sync`, `poll`, `download` | calls take effect whole and in order; downloads return what was there when they were submitted |

Compilation runs on the caller's thread, one component after the other: the
caller builds and prepares the graph; `KernelsChained::lower` calls
`lower_forward`, `lower_backward` and `lower_loss`, eliminates and optimizes;
`compile` turns every kernel into a pipeline; `schedule` orders the two lists and
binds the buffers. What is hard there is not interleaving but agreement:

* the passes communicate by node numbers and list positions that each of them
  computes by itself (save indicators, parameters, roots, dependencies,
  redirections);
* the order of the kernels is derived from node numbers, not from what the
  kernels load and store;
* whether a node is fused, split off or put off to a later sweep depends on
  flags shared by a whole recursion;
* three loops (the sweeps of the two passes and of the scheduler) end only if
  the others did their part;
* the optimizer rewrites values in place that other values may read;
* missing pieces turn into an error, a panic, or a silent zero, depending on
  where they are noticed.

Execution is concurrent. The caller records the schedules into a batch and
submits it; the device executes submissions at its own pace, and `GpuContext`
can be shared by threads, so that one thread uploads while another has a batch
recorded, or polls and so collects the callback another one waits for. Inside a
dispatch the invocations of a kernel interleave; those of a product share two
tiles, kept apart by two barriers.

The hazards this gives rise to are listed with their lines in `PROJECT.json`.

## The modules

| Module | Models | Notes |
|---|---|---|
| `GraphOps` | the operation table | attributes, what `save` keeps, which values a derivative reads; no arithmetic |
| `FusedGraph` | the graph and the functions on it | a graph is a sequence of nodes |
| `GraphPreparation` | building and preparing a graph | one action per call of the caller |
| `GraphPreparationProofs` | | what sorting and rebuilding make of any graph |
| `KernelIR` | kernels, `eliminate_kernels` | a kernel is the tensors it reads and writes, those of them that get the value of their node (`results`), the operations and metadata fields it mentions, and its root |
| `ForwardLowering` | `lower_forward` | the recursion of `eval_node` is an explicit stack of frames; one action per early return or recursive call |
| `BackwardLowering` | `lower_backward` | the same for `eval_grad`; a kernel also carries the terms its gradient adds up |
| `BackwardLoweringProofs` | | the theorems about the list it builds, and what its kernels load, store and add up |
| `KernelList` | the list handed to the scheduler | and the class of lists the scheduler relies on (`Schedulable`) |
| `KernelOrder` | what a schedule promises | the abstract specification |
| `KernelSchedule` | the scheduling loop | one action per branch of the loop body |
| `KernelScheduleProofs` | | the theorems |
| `KernelListProofs` | | that the lists of both passes are schedulable; lemmas about graphs, kernels, `eliminate_kernels`, lists of roots, and lists of parameters |
| `Bindings` | parameters and buffers | two lists matched by position |
| `KernelValues` | the inside of a kernel: builder methods, values, statements, and what the generated text computes | a value that is rendered as nothing, or is not declared, and a call with arguments of the wrong types make the outcome `Invalid` |
| `KernelLibrary` | the kernels of the operations, their gradients and the losses | in the builder calls of `std_lib` |
| `KernelOptimizer` | `optimize` | one action per pass; a pass is a fold over the values |
| `LibraryMeaning` | what the operations mean | the reference definitions the kernels are compared with |
| `LaunchGeometry` | block sizes, `calc_grid`, the index stored at, the indices a product loads from | pure definitions |
| `KernelLaunch` | one dispatch of one kernel | one action per load, term, store and barrier |
| `KernelLaunchProofs` | | the theorems |
| `DeviceCommands` | what the host puts into the queue, and what it does to the buffers | |
| `SerialDevice` | what the runtime promises | the abstract specification |
| `DeviceRuntime` | the calls of several threads, the device, and its loss | `INSTANCE SerialDevice` with a refinement mapping |
| `DeviceRuntimeProofs` | | its safety, the refinement, and the gradients |
| `ForwardPass`, `BackwardPass` | lowering, elimination, scheduling and binding of one pass | extend the lowering module, hold the scheduler as an `INSTANCE` of `KernelSchedule` |
| `ForwardPassProofs`, `BackwardPassProofs` | | the theorems about a whole pass (and, forward, about its lowering); they hold an `INSTANCE` of `KernelScheduleProofs` |
| `MC*` | graphs, lists, kernels, launches and calls for TLC | `MCGraphs` builds every graph of a given size that the builder methods can make, restricted by name |

How state corresponds to code: `roots`, `todo` (`roots_clone`), `resolved`,
`kernel`, `visited` (`deepest`), `stable` (`stable_iteration_space`) and `chain`
(`kernels`) are the locals of `lower_forward`; `segment` is the `grad_kernels` of
`lower_backward`. A frame of `stack` is a call of `eval_node` or `eval_grad`
that has not been made yet, or what a call does after its recursive calls
return. In `KernelSchedule`, `resolved`, `tmp_res` and `scheduled`
(`scheduled_kernels`) are the locals of the loop and `pos` its position.

In `KernelLaunch`, `tk`, `inner` and `acc` are the loop counters and the
accumulator of `forward_matmul`, `aTile` and `bTile` its workgroup arrays, an
invocation `t` is `<<workgroup, local>>`. In `KernelOptimizer`, `kernel.values` and
`kernel.ops` are those of `RawKernel`. In `DeviceRuntime`, `batch` is the encoder a
thread records into, `queue` WGPU's, `index` the `SubmissionIndex` a thread waits
for, and `callback` the closure passed to `map_async`, with the channel it fills.

Data left out, level by level. The compiler modules know a tensor by what it
holds (`In(n)`, `Saved(n)`, `Grad(n)`, `Out`, `Seed`) and leave the values inside a
kernel to `KernelValues`. A gradient is there the set of paths whose derivatives
are multiplied and summed, each step marked inexact when the code puts 0 in the
place of a value, or loads what a `gelu` has kept as if it were its value; this is
enough to state the chain rule. Of what a kernel stores, `results` tells the value of
the node from a value met on the way to it: `eval_node` stores the first
(`kernel/forward.rs:422`), `gelu` the second (`std_lib/unary.rs:47`, `:704`). `KernelValues` computes
with the integers modulo 5, in which addition and multiplication have their laws,
1/0 is 0, and `exp`, `log` and `tanh` are tables that tell arguments apart: two
kernels that agree there agree because of these laws and not by the rounding of
a float. `KernelLaunch` knows an element by its index and an accumulator by the
sequence of pairs that were multiplied, which also fixes the order of the
additions. `DeviceRuntime` knows a buffer by the number an upload put into it,
carried on by copies and kernels. `DispatchOptions` is kept, but every operation
modelled declares `Any`.

External are WGPU and the GPU, modelled as the code uses them: submissions are
executed in their order; a dispatch sees what earlier ones wrote; a poll collects
the callbacks of all finished mappings, whoever asked for them, and then calls
them; loss of the device ends all waits and fails the mappings; a
`workgroupBarrier` lets the invocations of a workgroup pass when all have reached
it; a store past the end of a buffer has no effect on it.

Save indicators: the lowering modules compute them from the graph they lower. The
tests (`tests/std_wgsl.rs:22`) take them before `topo_sort` (line 27) renumbers the
nodes; `GraphPreparation` follows that order. `IndicatorsSurviveSorting` says that they
still name the same nodes afterwards if the graph was `MadeInOrder`: leaves first, as in
all tests, and each operation after those whose operands were complete before its own.

Definitions whose comment starts with "Slip" are not part of any
specification. Each is the form its neighbour would take after a plausible
mistake; replacing the neighbour by it must break the property that
`PROJECT.json` pairs it with. They show that the properties are sensitive to
the code.

## What is checked

Seven runs pass. The bounds are the constants of the `.cfg`; the sets they name are
defined in the `MC` modules. Graph sets are made with `MCGraphs!GraphsOf`, which takes
the numbers of inputs and constants, the largest number of operations, the
operations, and the restrictions by name.

| Run | Question | Bound |
|---|---|---|
| `KernelSchedule` | does the loop place every entry once, dependencies first, and end, and does it implement `KernelOrder`? | forward lists of up to 5 roots in all orders; two backward segments of up to 3 roots, roots shared between them; every list of up to 2 entries whatever its dependencies and redirections (safety only: such lists can fail or spin) |
| `Preparation` | is the graph consistent at each call, and does sorting preserve the program, and the save indicators taken before it? | five nodes of inputs, constants, `matmul`, `mul`, `neg`; rank-1 and rank-2 shapes |
| `Forward` | does the forward pass succeed and end, store all kept and split values, list its dependencies, and merge only kernels that are the same? Is every value stored before it is loaded, and each buffer bound to the parameter it was made for? | `AnyGraphs`: two inputs and up to three of `matmul`, `sub`, with values and operands shared and repeated freely; two inputs, a constant and up to two of `matmul`, `mul`, `tanh`, `gelu`, unused leaves allowed. `Trees`: three inputs, up to three of `matmul`, `sub`, values used once |
| `Backward` | is every gradient the sum over all paths to the output, computed from kept values and the right buffers, and stored before it is loaded? | `SharedGraphs`: three inputs, up to three of `matmul`, `sub`, ending in a product; values shared, but no node with the same operand twice. `LateOutput`: one graph of six operations that reaches its output in two sweeps. `Trees`: three inputs, up to three of `matmul`, `mul`, `div`, `neg`; everything used once. `Activations`: three inputs, up to three of `matmul`, `mul`, `tanh`, everything used once; and up to three of `neg`, `tanh`, `gelu` on one input. Those that do not keep the values their derivatives insist on fail, as `DifferentiableGraphsAreLowered` allows |
| `Optimizer` | does a kernel store the same after every pass, and what its operation says (of `gelu`, the tanh that it keeps)? | every kernel of `std_lib` but `softmax`, and every kernel of two operations over a parameter and a constant (inline, or a variable that is assigned to in between) that satisfies `Disciplined`; two rounds of the passes; all flags, all but one, one alone; all values of a parameter modulo 5 |
| `KernelLaunch` | in every interleaving of the invocations: are tiles raced for, is anything outside a tensor touched, is the result right, complete, and stored once, and does the dispatch end? | tiles of 2 by 2; the product and its two gradients, with one workgroup and two tiles along the inner dimension, and with two workgroups and one tile; each other kind of kernel with two workgroups (of the one-dimensional loss kernel, two rows as long as its block) |
| `DeviceRuntime` | do the threads' calls take effect whole and in submission order (`SerialDevice`), do downloads return what they should, is a gradient computed from one forward pass, and do calls return? | two threads, one of which trains and one evaluates; three calls in all, in any order and interleaving; uploads, pipes and downloads of right and wrong lengths; the device lost at any moment |

Some properties are stated under a condition that says of which graphs or
kernels they hold, because outside it the code does something else:

* all of the lowering modules take graphs that are `Prepared`: built by `add_node`,
  accepted by `validate`, sorted, outputs rebuilt. The callers in the repository
  do this (`tests/std_wgsl.rs:26`, `examples/matmul_chain3.rs:105`);
* the second half of `EliminationIsSound`, and `EveryKeptValueIsComputed`, of the
  forward pass under `OneUnkeptOutput`: see the limits below. The latter asks of a
  `gelu` only that something is stored, for its value never is;
* `IndicatorsSurviveSorting` under `MadeInOrder`: see the limits below;
* `DifferentiableGraphsAreLowered` says which graphs `lower_backward` does not fail on
  (`BackwardResidual` has one of the others);
* `GradientsAreComplete` has no condition, but the graphs of the run use no operand
  twice and multiply by no `gelu`: see the limits below;
* `KernelsComputeTheirOperation` leaves out the kernels of `elu`, which are no valid
  shaders, and the gradients of `log`, `abs`, `relu` and `gelu`
  (`ActivationDerivatives`);
* `ExpressionsStoreBeforeLoading` under `ValuesUsedOnce` (refuted without it by
  `ForwardResidual`);
* `InputsInOrderAreBound` under `InputsUsedInOrder` (`ForwardOperandOrder`);
* `ExpressionsAreScheduled` under `ValuesUsedOnce` and `LeavesUsedOnce`
  (`BackwardTiedWeight`);
* `ResultsArePreserved` under `Disciplined`: a product that becomes part of a
  fused sum, and a divisor that becomes its reciprocal, have one reader and do
  not change between the two. All kernels of the library satisfy it: the run
  takes them without a filter, and `KernelsComputeTheirOperation`, which has no such
  condition, would fail if the optimizer broke one.

Why the bounds are enough: three operations over two or three inputs are the
least that give a kernel that fuses, one that splits, a split value shared by two
kernels, a root put off to a later sweep, and two kernels that are merged.
Matrices are square and share one metadata field, which makes more kernels
equal than distinct sizes would, not fewer. The scheduler sees a list only
through roots, dependencies and redirections, and the theorems below cover lists
of any length. The passes of the optimizer look at a value and at what its
operands were initialized with, which two operations and a constant exhaust. `LateOutput` is there because no graph of three operations
reaches its output twice for one input. Two
tiles are the least for which the tiles of one step can be overwritten by the
next; the theorems cover every size. Three calls let a thread have a batch or a
download under way while the other one uploads, submits or polls twice.

Five runs are expected to end in a violation. Each shows where the code does
something else than its documentation or its own error handling says:

| Run | Property refuted | What happens |
|---|---|---|
| `ForwardResidual` | `StoredBeforeLoaded` | `add(h, matmul(h, w))`, `h` a product: the kernel that loads `h` is launched before the one that stores it |
| `ForwardOperandOrder` | `TensorsAreBound` | `sub(b, a)`: parameters are numbered as the operands turn up, the buffers are bound in the order of the inputs |
| `BackwardResidual` | `LoweringSucceeds` | adding a value to a product of it: the elementwise root has no gradient parameter, lowering returns an error |
| `BackwardTiedWeight` | `PassTerminates` | `matmul(w, matmul(w, x))`: two kernels of one root, made for two inputs, disagree on their dependencies; the scheduler spins for ever |
| `ActivationDerivatives` | `DerivativesAreRight` | the gradients of `relu` and `abs` test the value the node has kept, its own, which is never negative, where the sign of the operand decides |

More limits of the same kind were met while choosing the instances and while
proving, and have no run of their own:

* with several outputs that nobody keeps, `eliminate_kernels` compares operations
  and parameters, not which way round they are used: of `sub(p, q)` and `sub(q, p)`,
  both outputs, `p` and `q` products, one kernel is dropped for the other
  (`kernel/mod.rs:244`);
* a graph of leaves only lowers to an empty list; with something to compute, a
  leaf that no node uses makes the forward lowering fail;
* the gradient of an input that no node uses has no kernel;
* a graph with a `tanh`, `log`, `exp` or other activation of which no other operation keeps
  the value, such as an output, cannot be lowered backward: its derivative insists on that
  value, and `save` keeps operands (`std_lib/unary.rs:156`). What must hold instead is
  `OwnValuesKept`;
* in a graph that is not `Levelled`, a sweep can have a root whose kernel loads the
  gradient of another root of the same sweep, and nothing orders the two
  (`backward.rs:201`);
* the value of a `gelu` is never stored: `eval_node` leaves storing to the operation
  (`auto_save` is false, `std_lib/unary.rs:704`), and the operation stores the tanh it is
  computed from (`std_lib/unary.rs:47`, `:566`). So a graph that ends in `gelu` has that
  tanh as its output, and the gradient of `y` in `mul(gelu(x), y)` is a multiple of it;
* the shaders of `elu` and of its gradient do not validate: `Op::Select` is rendered as
  `select(cond, a, b)` (`wgsl/mod.rs:934`), and the condition is the last argument of
  WGSL's function;
* the gradient of `sub(x, x)` is 2 and not 0: an edge is looked up by its two ends, and
  both uses are differentiated along the first operand (`mod.rs:786`);
* when an input is made after an operation, sorting renumbers the nodes, and the save
  indicators taken before it, as `tests/std_wgsl.rs:22` does, name other nodes;
* `validate` panics on a product with an operand of rank 1: it goes on to index
  `shape[len - 2]` (`std_lib/matmul.rs:547`);
* the gradients of `log` and `gelu` are computed from the value of the node, or from
  what is kept in its place, where they need the operand (`std_lib/unary.rs:227`);
* the derivative of `neg` declares the kept value and does not load it;
* a constant factor is read as 0 by the derivative of a product
  (`std_lib/binary.rs:859`);
* with two outputs, the kernels of the smaller one list different dependencies
  when different sweeps make them; the scheduler knows roots, not kernels
  (`backward.rs:200`);
* an input no node uses shifts the bindings of the others (`wgsl/mod.rs:371`);
* the loss kernel of elementwise nodes covers a row only if it is 256 long
  (`kernel/loss.rs:34`);
* a product read by two sums, or by a sum and a store, is masked when the first
  sum takes it (`kernel/optimize.rs:21`), and a constant divisor that is read twice is
  inverted twice.

Deadlock checking is off where a modelled function returns: a finished pass, a
kernel that has been optimized and a dispatch whose invocations have all returned
have no next step, nor has a graph that is prepared or rejected, nor a program
that has made its calls.

Fairness: the specifications with liveness properties assume weak fairness of
their whole next-state action. The code they model is a loop on one thread that
waits for nothing, so it fails to take an enabled step only if the
thread stops. `Terminates` of `KernelSchedule` is stated for `Schedulable` lists;
that lowering, elimination and scheduling together end on a given graph is
`PassTerminates`, which `Forward` and `Backward` check and `BackwardTiedWeight`
refutes for shared weights. `DispatchEnds` assumes that some invocation or barrier
that can go on does (`WF_vars(Next)`): a device may run invocations in any order
but does not stop with work left. `CallsReturn` assumes that the device executes
what is queued, and that a thread goes on with a call it has begun, each by
itself; nobody is required to make a call, and the device may be lost.

## What is proved

### The scheduler

`KernelScheduleProofs` proves, for every set of kernel lists and lists of any
length, from the one assumption that entries have the shape of a kernel list and
redirections point into it (`KernelListsAssumption`):

* `TypeCorrect`: the type invariant;
* `SchedulesDependenciesFirst`, `SchedulesEachEntryOnce`,
  `ReturnsCompleteSchedule`: the safety of the schedule, on every list;
* `NeverSpins`: on a `Schedulable` list each sweep places a kernel;
* `Refinement`: the loop implements `KernelOrder`;
* `ForwardListsAreSchedulable`, `BackwardListsAreSchedulable` (in
  `KernelListProofs`): a list in which an entry depends on exactly the later
  smaller (larger) roots, and in which roots differ, is a schedulable kernel
  list; of a backward list the greatest root may have several entries.

The safety properties are not inductive: that an entry is ready says something of
the roots in `resolved`, not of the schedule. `IndInv` adds `Ledger` (`resolved`
followed by `tmp_res` are the roots of the schedule, position by position),
`SweptEntries` (what the current sweep placed was unresolved and ready, and lies
behind the position) and `Progress` (on a schedulable list, entries that share a
root are placed by the same sweep, and a sweep that has placed nothing still
has an unresolved entry ahead). Completeness follows from counting: the
schedule is an injection into the list, so it is onto when it is as long
(`PlacedByCounting`).

### The preparation of graphs

`GraphPreparationProofs` proves, for graphs of any size, over any operations and
shapes, from `PreparationAssumption` (the operations are in the table, the shapes are
lists of numbers):

* `GraphsAreWellFormed`: every node comes after its inputs, and the edges agree in
  both directions, at every moment but between `topo_sort`, which forgets the
  outputs, and `rebuild_outputs`;
* `TopoSortFindsAnOrder`: Kahn's algorithm places every node, once and after its
  inputs, so `topo_sort` never reports a cycle;
* `ReadyGraphsArePrepared`: a graph that is ready is `Prepared`. This is the
  assumption of all that follows, `GraphsAssumption`, which only leaves out the graph
  without nodes;
* `SortingKeepsTheProgram`: every value is computed as often as before, from the same
  inputs, and a single output stays the last node.

The graph of each phase is a function of the graph that was built
(`PreparationInv`), which is `WellBuilt`: the rest is about `topo_sort` and
`rebuild_outputs` as functions. `KahnInv` is the invariant of the steps of the first:
the degree of a node counts its operands not yet placed (`DegreesCount`), the list
holds exactly the nodes that were placed or wait for nothing (`ZerosAreReady`), no
operand comes after its user (`OperandsFirst`), and the leaves come first and in their
order (`LeavesFirst`), which is why the inputs stay bound as they were. A list that ends before every node is
placed would leave a least node whose operands are all placed. `Renumbered` and
`Reordered` say what the order makes of the graph, `UsersOf` is the list of users
that `rebuild_outputs` collects. The values are recursive in the graph, and that
those of a node are the same in both graphs is an induction along the order.

### The two passes

The theorems about the passes hold for every prepared graph, of any size and
shape, from `GraphsAssumption` alone. A class of graphs in a theorem is a premise
on the graph, not on the constants, and each is met by graphs of the runs.

**The lists.** `ForwardPassProofs` and `BackwardLoweringProofs` close the gap
between the lowering passes and the scheduler's theorems:

* `ListIsForwardList`: at every moment the forward list has one entry for each root
  it has, and each entry depends on exactly the later entries with a smaller root;
* `ListIsBackwardList`: the same of the entries of one graph input, with larger
  roots, except that an output may have several entries: `eval_grad` returns at
  an output before it marks it as resolved (`backward.rs:265`), so a value on
  paths of different lengths brings the output back as a root of a later sweep;
* `ForwardListIsSchedulable`, `BackwardListIsSchedulable`: both lists are schedulable,
  the second in graphs whose last node is their only output. By `NeverSpins` the
  scheduler places a kernel in each sweep over them. The concatenation of the lists
  of several inputs comes in between; it is where `BackwardTiedWeight` finds
  the loop that does not end.

That roots do not repeat is a statement about the recursion: a root is only
skipped when it is in `resolved`, and it gets there when its evaluation returns, at
the very end of its kernel. `RootIsPending` says this of the stack: until the root
is settled, the frame at the bottom is the one that will settle it. With it,
`ListSoFar` (the entries' roots are settled, and the list is the forward or
backward list of them) is inductive, because appending an entry and giving it to
the earlier ones whose root is larger (smaller) is what turns the list of the
roots so far into that of one root more (`ForwardListGrows`, `BackwardListGrows`).

**Forward.** `LoweringSucceedsWhenItCan`: the lowering fails on exactly the graphs
that are not `Lowerable`, whatever the order in which kernels meet their nodes.
`NothingIsLeftBehind`: when it returns, every node that has operands has been
computed, and the value of every kept one stored, unless it is a `gelu`, for which
something has been stored; `SplitsAreStored`: what a kernel loads where it was
split is the value of a node, and has been stored. `LowerInv` is the invariant of all
three: a node that is resolved has its operands resolved or ahead (on the stack,
visited by the kernel under way, or a root), what is resolved and kept has been
stored, and what is loaded may be loaded. `ValuesInv` adds what `LowerInv` does not
tell apart: what a kernel stores for a node that stores its value is the value
(`HandlesValues`), and only products are ever loaded, which do.

The rest of `ForwardPassProofs` follows the list through elimination and scheduling. A kernel
touches the value of its root, if that is kept, and otherwise only values of
smaller nodes that are no outputs (`ProfileInv`); so the root of a kernel is the
greatest of what it touches, and two kernels that touch the same and differ in
their roots belong to outputs that nobody keeps (`OnlyUnkeptOutputsAreEliminated`).
Hence no redirection leads to a redirected entry (`SchedulingNeverFails`), with
`OneUnkeptOutput` the list stays schedulable (`PassNeverSpins`), and
the schedule stores everything that is kept (`KeptValuesAreComputed`).
`ExpressionsAreOrdered` shows `ExpressionsStoreBeforeLoading`: when every value is
used once, what a kernel loads is the root of a kernel made later, with a
smaller number, because no other kernel can have met it before (`ExpressionInv`,
`LoadInv`); so it is a dependency, and `DependenciesFirst` does the rest.

`InputsInOrderAreBoundAsDeclared` shows `InputsInOrderAreBound`. What a kernel touches
is an input, a kept value or the output (`LoadsAreKept`, `StoresInv`), and is among what
the scheduler binds (`Bound`). A graph of which a kernel was launched is `Lowerable`, so
every input is used, and the list of first uses has all inputs; if they are met in
ascending order it is the ascending list (`UsedInputsAreInputs`, `AscendingUnique`), and both
sides number the parameters alike.

**Backward.** `ProfileInv` says what a kernel of a given root loads (`Loadable`:
the seed, gradients of later products, inputs, kept values) and stores (the
gradient of its root), and that whatever is loaded has a kernel or will become a
root (`SplitsAreAhead`, `InputsAreAhead`). From it follow `SplitGradientsAreKept`
and `OnlyKeptValuesAreLoaded`, and in `BackwardPassProofs`, where roots and what is
loaded tell kernels apart, `EliminationIsAlwaysSound`, `SchedulingNeverFails`,
`InputsHaveTheirGradients` and `TensorsAreBoundAsDeclared`.

`KernelsAddUpTheirWalks`: the terms of a kernel are the walks along edges from its
root to an output or to the first product it cannot fuse. `WalkInv` splits these
walks into those that have become terms and those that a frame of the stack is
still to follow (`Covers`). `GradientsFollowTheChainRule` concludes that they
make up all the paths to the outputs, once the gradients loaded are complete: the
recursive function `PathsToSinks` is unfolded into the set of sequences that lead to
an output (`Routes`), by induction from the outputs down (`RoutesAreUnique`), and a route is cut
at its first product (`RouteIsCut`). Its premises, `EdgesAreDistinct` (no node uses
an operand twice) and `DerivativesHaveTheirValues` (no value is replaced by 0, or by
what a `gelu` keeps), are the conditions of the chain rule in this code; all
graphs of the `Backward` run meet them but those whose activations nobody keeps.
Terms are a set: that a walk is not added twice rests on the edges being distinct.

Where the gradients of products are computed is a matter of levels. In a graph that
is `Levelled`, all paths from a node cross the same number of products, those that
end in an output which is a product itself left aside. `LevelInv` then says that the roots of one sweep have one level,
that those it leaves for the next are one level below, and that the frames of a
kernel stay on the level of its root until they reach a product. So a gradient that
a kernel loads belongs to a root of a later sweep, and the kernel depends on it
(`LoadsAreDeps`): `GradientsAreStoredFirst`, for the whole pass, the lists of several
inputs and elimination included. And an elementwise output, which has no gradient
parameter, is never a root of its own beside one that keeps the sweeps going:
`GradientsCanBeLowered` shows `DifferentiableGraphsAreLowered`, of graphs that are levelled
or have products as outputs, and keep what their derivatives insist on
(`Differentiable`). So are all graphs of the `Backward` run but those whose activations
nobody keeps; all of its trees and activations, and 632 of its 728 shared graphs, are
levelled. The graph of `BackwardResidual` is neither.

### The launch of a kernel

`KernelLaunchProofs` proves, for matrices, tiles and grids of any size, from
`BlockAssumption` (block sizes are positive) and `LaunchAssumption` (the launches
considered satisfy `ValidLaunch`: dimensions are multiples of the block sizes):

* `TypeCorrect`: the type invariant, which is left to the proof;
* `RaceFree`: no slot of a tile is written by one invocation while another may touch it;
* `StoredIsRight`: whatever is stored is the element of the product, of its
  gradient, or of the elementwise kernel, with all terms in their order;
* `InBounds`, `AllStored`, `StoredOnce`: nothing outside a tensor is loaded or stored,
  all elements are stored in the end, and none twice. These three are stated for
  launches that are no `"mapLoss"`, the one kernel whose grid does not depend on
  its block.

What is stored says nothing of how it got there, so the invariant does:
`IndInv` is `TypeInv`, `LockStep` (invocations of one workgroup are all in the phase
of the loads or all in the phase of the sums, at the same tile) and `ValueInv`,
which adds `Position` (`tk` is a multiple of the tile below the inner dimension),
`Tiles` (a slot that has been loaded in this phase holds the element that belongs
there), `Accumulated` (an accumulator holds the terms up to its position), `Stored`
and `DoneHaveStored`. `RaceFree` follows from `LockStep` and from slots being
different for different invocations; `StoredOnce` from the index being injective
in row and column (`IndexIsInjective`), and `AllStored` from the blocks covering the
result exactly (`BlocksFitExactly`, `GridCoversTheResult`).

### The runtime

`DeviceRuntimeProofs` proves `ReadsFinishedCopies` for any number of threads, calls,
uploads and batches, from `CommandsAssumption`: while a thread's staging
buffer is mapped, nothing in the queue writes it, whoever has polled. That a
callback was collected says only that some submission had finished; `IndInv`
relates the numbers: `QueuedInTime` (a submission that writes the staging buffer
of a thread is not later than the index this thread waits for), `MappedInTime` (a
mapping exists only once that many submissions have finished), `NoneOutside` (a
thread outside of a download has no mapping under way) and `TakenOnce` (a callback
is collected by at most one poll, and called only by that).

`Refinement` says that the runtime implements `SerialDevice`, from the same
assumption. The refinement mapping looks ahead:
`Memory` is what the buffers will hold when the queue is empty (`Completed`),
`Promise` what each download under way will find there. So enqueueing a
submission does to `Memory` at once what the device will do later
(`EnqueuedIsDone`), and only that: executing a command changes the contents and
shortens the queue, and `Completed` stays (`ExecutedIsTheSame`). A thread that
reads its mapped staging buffer finds there what was promised because nothing
in the queue writes it, which is `IndInv` of the theorem above. `RefInv` adds
that a callback without a mapping means that the device was lost
(`FailedByLoss`), and that submissions are not empty. What commands do is a fold
over a sequence; its values at the first and at the last element (`DoAllFirst`,
`DrainFirst`, `DrainAppend`) are proved once, by an induction that is stated for
sets of numbers (`SetInduction`, from the least element of a set).

`OneForward`: all of a gradient belongs to one forward pass. `GradInv` relates the contents to what is left of the submission that
the device works on (`Started`): before a backward still to come, forward and
loss are still to come, or the output is that of the input and loss is still to
come, or the seed is that of the output as well (`InHand`). That later
submissions are whole makes it inductive, and is what one command buffer per
batch is for. The theorem assumes that the program uploads no gradients.

### Only model-checked

* Liveness (`Terminates`, `PassTerminates`, `ExpressionsAreScheduled`, `DispatchEnds`,
  `CallsReturn`), which is outside of what the prover can do.
* `ResultsArePreserved` and `KernelsComputeTheirOperation`: the passes of the optimizer
  and the evaluation of a kernel are folds over its values, and what they compute
  is a matter of finite arithmetic; what a fold computes for every input would need
  an induction principle that takes an operator, which the prover cannot instantiate.
* That trees are levelled, and which of the graphs of the runs meet the premises above.

## Not modelled, and why

* Softmax, and nodes that do not compute their own index: the repository's README
  (line 9) declares them broken, forward and backward.
* Tensors that are not matrices. Vectors have no grid: `calc_grid` subtracts 2
  from the rank (`tensor.rs:26`). Of rank 3 and more, the batch index is one more
  coordinate of an invocation that takes no part in the loops.
* Dimensions that are no multiples of the block sizes: `validate_meta` asks for
  multiples of 16, though nothing calls it; kernels do not test their index.
* What binary cross entropy computes: `one_minus_pred` is computed from the target
  (`std_lib/basic_loss.rs:56`). The kernel is in the library and goes through the
  optimizer with the others, but no claim about its value is made.
* Overflow of index arithmetic: constants of type `u32` and `i32` are folded with
  checked or wrapping arithmetic according to the build; the kernels modelled
  compute their indices in `LaunchGeometry`, over the natural numbers.
* Rounding: the arithmetic is that of a field.
* The wording and the layout of the WGSL text; bind groups and layouts beyond which
  buffer goes with which parameter.
* Lengths of buffers in bytes: `size_bytes` is a `u64` that is cut to 32 bits in
  places; tensors of that size are out of reach of the devices.
* `topo_sort` of `kernel/mod.rs:35` and the statements of `RawKernel` that nothing
  calls (`while` and endless loops, other assignments).
* Errors and options: types without behaviour. That a call fails is modelled,
  which error it returns is not.

## Plan

Done, in this order: the scheduler with its proofs, graph preparation, the two
lowering passes, elimination and the composed passes, bindings, with proofs of
what preparation leaves, what both passes build, what their schedules store and
what their kernels are bound to; launch geometry and the launch of a kernel,
with proofs; values, the optimizer and the library; the device runtime, its
abstract specification, and its proofs. What is left:

1. A theorem: lists of several inputs remain schedulable when they share no roots.
2. Tensors of rank 3 and more in `LaunchGeometry`.
