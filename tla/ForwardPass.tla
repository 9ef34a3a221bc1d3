---------------------------- MODULE ForwardPass ----------------------------
(***************************************************************************)
(* The forward pass of a graph, from the graph to the order of its         *)
(* launches: lower_forward, then eliminate_kernels, then the schedule loop *)
(* over the resulting list.                                                *)
(***************************************************************************)
EXTENDS ForwardLowering, Bindings

VARIABLES
  kernels,    \* the list handed to the scheduler; the scheduler's other variables follow
  placed,     \* its resolved
  batch,      \* its tmp_res
  schedule,   \* its scheduled_kernels
  pos,
  outcome     \* its status; "waiting" until the list is there

scheduleVars == << kernels, placed, batch, schedule, pos, outcome >>
passVars == << vars, scheduleVars >>

Scheduler == INSTANCE KernelSchedule
  WITH KernelLists <- {}, resolved <- placed, tmp_res <- batch, scheduled <- schedule,
       status <- outcome

PassInit ==
  /\ Init
  /\ kernels = << >> /\ placed = << >> /\ batch = << >> /\ schedule = << >>
  /\ pos = 0
  /\ outcome = "waiting"

Lower == Next /\ UNCHANGED scheduleVars

\* KernelsChained::lower and compile: the list loses its duplicate kernels, keeps its order.
HandOver ==
  /\ status = "lowered"
  /\ outcome = "waiting"
  /\ kernels' = eliminate_kernels(chain)
  /\ outcome' = "running"
  /\ UNCHANGED << vars, placed, batch, schedule, pos >>

Schedule == Scheduler!Next /\ UNCHANGED vars

PassNext == Lower \/ HandOver \/ Schedule

\* All of it runs on the caller's thread; nothing in it waits.
PassSpec == PassInit /\ [][PassNext]_passVars /\ WF_passVars(PassNext)

-----------------------------------------------------------------------------
(* Properties. *)

\* KernelGroup holds "the order in which to execute" the kernels: a value that one kernel keeps
\* for another (forward.rs:387) is stored before it is loaded.
StoredBeforeLoaded == LoadsFollowStores(chain, schedule)

\* Of an expression it is.
ExpressionsStoreBeforeLoading == ValuesUsedOnce(graph) => StoredBeforeLoaded

\* The input that a kernel of the pass loads is the caller's tensor for that input, and the values
\* it keeps go where the backward pass looks for them (schedule, dispatch/mod.rs:549).
TensorsAreBound ==
  BoundAsDeclared(chain, schedule, forward_params(graph, saved), forward_bindings(graph, saved))

\* Of a graph that reads its inputs in their order, kernels get the buffers they were lowered for.
InputsInOrderAreBound == InputsUsedInOrder(graph) => TensorsAreBound

\* The value of an output is kept only when it is the last node's or a product.
OneUnkeptOutput ==
  \A m, n \in Sinks(graph) : HasSavedParam(m) \/ HasSavedParam(n) \/ m = n

\* A kernel is eliminated only if its root is an output whose value nobody keeps; with one such
\* output at most, eliminating kernels changes nothing that is computed.
EliminationIsSound ==
  outcome # "waiting" =>
    /\ \A i \in DOMAIN kernels :
         kernels[i].redirect # Unmasked =>
           IsSink(graph, kernels[i].root) /\ ~HasSavedParam(kernels[i].root)
    /\ OneUnkeptOutput => TwinsAgree(chain, kernels)

Launched == {chain[schedule[p].kernel].kernel : p \in DOMAIN schedule}

\* When the schedule is returned, a launched kernel has stored what is kept of every node that has
\* a parameter, which is its value unless the operation keeps another (gelu does): the list may
\* only have lost the kernel of one of several outputs that are not kept.
EveryKeptValueIsComputed ==
  outcome = "done" /\ OneUnkeptOutput =>
    \A n \in Computed :
      HasSavedParam(n) =>
        \E k \in Launched :
          SavedParam(n) \in (IF is_auto_save(graph[n].op) THEN k.results ELSE k.writes)

\* Preparing the pass ends, with an error or a schedule: every root that a sweep of the lowering
\* puts off gets resolved, and the scheduler gets a list it can finish.
PassTerminates == <>(status \in {"failed", "panicked"} \/ outcome \in {"done", "error"})
=============================================================================
