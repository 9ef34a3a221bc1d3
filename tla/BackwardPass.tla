---------------------------- MODULE BackwardPass ----------------------------
(***************************************************************************)
(* The backward pass of a graph, from the graph to the order of its         *)
(* launches: lower_backward, then eliminate_kernels, then the schedule loop *)
(* over the resulting list.                                                *)
(***************************************************************************)
EXTENDS BackwardLowering, Bindings

VARIABLES
  kernels,    \* the list handed to the scheduler; the scheduler's other variables follow
  placed,     \* its resolved
  batch,      \* its tmp_res
  schedule,   \* its scheduled_kernels
  pos,
  outcome     \* its status; "waiting" until the list is there

scheduleVars == << kernels, placed, batch, schedule, pos, outcome >>
passVars == << vars, scheduleVars >>

Scheduler == INSTANCE KernelSchedule
  WITH KernelLists <- {}, resolved <- placed, tmp_res <- batch, scheduled <- schedule,
       status <- outcome

PassInit ==
  /\ Init
  /\ kernels = << >> /\ placed = << >> /\ batch = << >> /\ schedule = << >>
  /\ pos = 0
  /\ outcome = "waiting"

Lower == Next /\ UNCHANGED scheduleVars

\* KernelsChained::lower and compile: the list loses its duplicate kernels, keeps its order.
HandOver ==
  /\ status = "lowered"
  /\ outcome = "waiting"
  /\ kernels' = eliminate_kernels(chain)
  /\ outcome' = "running"
  /\ UNCHANGED << vars, placed, batch, schedule, pos >>

Schedule == Scheduler!Next /\ UNCHANGED vars

PassNext == Lower \/ HandOver \/ Schedule

\* All of it runs on the caller's thread; nothing in it waits.
PassSpec == PassInit /\ [][PassNext]_passVars /\ WF_passVars(PassNext)

-----------------------------------------------------------------------------
(* Properties. *)

\* A gradient that one kernel keeps for another (backward.rs:305) is stored before it is loaded.
StoredBeforeLoaded == LoadsFollowStores(chain, schedule)

\* The inputs, kept values and gradients of the backward kernels are bound to the buffers they
\* were declared for, whatever the graph and the order in which it uses its inputs.
TensorsAreBound ==
  BoundAsDeclared(chain, schedule, backward_params(graph, saved), backward_bindings(graph, saved))

\* Eliminating a kernel changes nothing that is computed.
EliminationIsSound == outcome # "waiting" => TwinsAgree(chain, kernels)

\* When the schedule is returned, the gradient of every input that is used has been stored by a
\* launched kernel, however many kernels other inputs shared with it.
EveryInputHasItsGradient ==
  outcome = "done" =>
    \A n \in Nodes(graph) :
      graph[n].op = "input" /\ ~IsSink(graph, n) =>
        \E p \in DOMAIN schedule : Grad(n) \in chain[schedule[p].kernel].kernel.writes

\* Preparing the pass ends, with an error or a schedule: every root that a sweep of the lowering
\* puts off gets resolved, and the scheduler gets a list it can finish.
PassTerminates == <>(status = "failed" \/ outcome \in {"done", "error"})

\* Of an expression whose leaves are used once it does.
ExpressionsAreScheduled == ValuesUsedOnce(graph) /\ LeavesUsedOnce(graph) => PassTerminates
=============================================================================
