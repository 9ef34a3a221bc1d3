--------------------------- MODULE KernelSchedule ---------------------------
(***************************************************************************)
(* GpuContext::schedule: the loop that orders a lowered kernel list.       *)
(*                                                                         *)
(* The loop sweeps the whole list again and again.  A sweep skips entries  *)
(* whose root is already in resolved, places entries whose dependencies    *)
(* all are, and leaves the others for a later sweep.  The roots a sweep    *)
(* places are collected in tmp_res and become visible in resolved only     *)
(* when the sweep ends.  The loop stops when resolved is as long as the    *)
(* list: it counts placements, so a root placed twice counts twice.        *)
(***************************************************************************)
EXTENDS KernelList

CONSTANT KernelLists

VARIABLES
  kernels,    \* the argument: the kernel list (constant once chosen)
  resolved,   \* Vec of roots visible to the dependency test
  tmp_res,    \* roots placed by the sweep under way
  scheduled,  \* scheduled_kernels: the entry placed and the entry whose kernel it launches
  pos,        \* 0: at the while test; otherwise the list position of the sweep
  status      \* "running", "done" (Ok) or "error" (Err)

vars == << kernels, resolved, tmp_res, scheduled, pos, status >>

ASSUME KernelListsAssumption == \A ks \in KernelLists : IsKernelList(ks)

N == Len(kernels)

\* The entry whose kernel entry i launches, and the root (idx) it stands for.
Target(i) == TargetIn(kernels, i)
Root(i) == RootIn(kernels, i)

DoublyRedirected(i) == kernels[Target(i)].redirect # Unmasked
\* Slip: the test of resolved is lost.
NeverResolved(i) == FALSE
Resolved(i) == Root(i) \in Range(resolved)
\* Slip: the dependency test is lost.
AlwaysReady(i) == TRUE
Ready(i) == kernels[i].dep \subseteq Range(resolved)

Init ==
  /\ kernels \in KernelLists
  /\ resolved = << >>
  /\ tmp_res = << >>
  /\ scheduled = << >>
  /\ pos = 0
  /\ status = "running"

\* Slip: the sweep starts at the second entry.
SkipsFirstEntry ==
  /\ status = "running"
  /\ pos = 0
  /\ Len(resolved) < N
  /\ pos' = 2
  /\ UNCHANGED << kernels, resolved, tmp_res, scheduled, status >>

\* while resolved.len() < kernels.len()
StartSweep ==
  /\ status = "running"
  /\ pos = 0
  /\ Len(resolved) < N
  /\ pos' = 1
  /\ UNCHANGED << kernels, resolved, tmp_res, scheduled, status >>

\* Slip: the while test is off by one.
ReturnsOneEarly ==
  /\ status = "running"
  /\ pos = 0
  /\ Len(resolved) + 1 >= N
  /\ status' = "done"
  /\ UNCHANGED << kernels, resolved, tmp_res, scheduled, pos >>

\* The while test fails: the schedule is returned.
Return ==
  /\ status = "running"
  /\ pos = 0
  /\ Len(resolved) >= N
  /\ status' = "done"
  /\ UNCHANGED << kernels, resolved, tmp_res, scheduled, pos >>

\* A redirection to a redirected entry: return Err at once.
Fail ==
  /\ status = "running"
  /\ pos \in 1 .. N
  /\ DoublyRedirected(pos)
  /\ status' = "error"
  /\ UNCHANGED << kernels, resolved, tmp_res, scheduled, pos >>

\* Slip: skipping an entry skips the next one too.
SkipsTwo ==
  /\ status = "running"
  /\ pos \in 1 .. N
  /\ ~DoublyRedirected(pos)
  /\ Resolved(pos)
  /\ pos' = pos + 2
  /\ UNCHANGED << kernels, resolved, tmp_res, scheduled, status >>

\* The root is in resolved: continue.
Skip ==
  /\ status = "running"
  /\ pos \in 1 .. N
  /\ ~DoublyRedirected(pos)
  /\ Resolved(pos)
  /\ pos' = pos + 1
  /\ UNCHANGED << kernels, resolved, tmp_res, scheduled, status >>

\* Some dependency is not in resolved yet: a later sweep comes back to the entry.
Postpone ==
  /\ status = "running"
  /\ pos \in 1 .. N
  /\ ~DoublyRedirected(pos)
  /\ ~Resolved(pos)
  /\ ~Ready(pos)
  /\ pos' = pos + 1
  /\ UNCHANGED << kernels, resolved, tmp_res, scheduled, status >>

\* All dependencies are in resolved: append the kernel to the schedule.
Place ==
  /\ status = "running"
  /\ pos \in 1 .. N
  /\ ~DoublyRedirected(pos)
  /\ ~Resolved(pos)
  /\ Ready(pos)
  /\ tmp_res' = Append(tmp_res, Root(pos))
  /\ scheduled' = Append(scheduled, [entry |-> pos, kernel |-> Target(pos)])
  /\ pos' = pos + 1
  /\ UNCHANGED << kernels, resolved, status >>

\* resolved.append(&mut tmp_res), back to the while test.
EndSweep ==
  /\ status = "running"
  /\ pos = N + 1
  /\ resolved' = resolved \o tmp_res
  /\ tmp_res' = << >>
  /\ pos' = 0
  /\ UNCHANGED << kernels, scheduled, status >>

Next == StartSweep \/ Return \/ Fail \/ Skip \/ Postpone \/ Place \/ EndSweep

\* The loop runs on one thread and nothing blocks it: it keeps taking steps.
Spec == Init /\ [][Next]_vars /\ WF_vars(Next)

----------------------------------------------------------------------------
(* Properties. *)

TypeOK ==
  /\ kernels \in KernelLists
  /\ resolved \in Seq(Nat)
  /\ tmp_res \in Seq(Nat)
  /\ scheduled \in Seq([entry : 1 .. N, kernel : 1 .. N])
  /\ pos \in 0 .. N + 1
  /\ status \in {"running", "done", "error"}

\* A kernel is launched only after a kernel has been launched for every root it depends on,
\* whatever the list: the schedule is safe to dispatch in order (schedule's dependency test).
DependenciesFirst ==
  \A q \in 1 .. Len(scheduled) : \A d \in kernels[scheduled[q].entry].dep :
    \E p \in 1 .. q - 1 : kernels[scheduled[p].kernel].root = d

\* No entry of the list is dispatched twice, although entries that share a root are
\* (the contains test looks only at earlier sweeps).
EachEntryOnce ==
  \A p, q \in 1 .. Len(scheduled) : scheduled[p].entry = scheduled[q].entry => p = q

\* A schedule that is returned launches every entry: the loop counts placements, not entries.
ReturnedScheduleIsComplete ==
  status = "done" => {scheduled[p].entry : p \in 1 .. Len(scheduled)} = 1 .. N

\* Every sweep over a schedulable list places at least one kernel, so the while loop, which has
\* no other way to tell that it is stuck, cannot spin.
SweepsMakeProgress ==
  Schedulable(kernels) => ~(pos = N + 1 /\ tmp_res = << >>)

\* The loop over a schedulable list ends.
Terminates == Schedulable(kernels) => <>(status # "running")

\* The loop implements the abstract promise.
Order == INSTANCE KernelOrder
           WITH launched <- [p \in 1 .. Len(scheduled) |-> scheduled[p].entry],
                finished <- (status = "done")
ImplementsKernelOrder == Order!Spec

-----------------------------------------------------------------------------
(* The inductive invariant behind the safety properties. *)

Placed == {scheduled[p].entry : p \in 1 .. Len(scheduled)}

\* resolved followed by tmp_res lists the roots of the schedule, in schedule order.
Ledger ==
  /\ Len(scheduled) = Len(resolved) + Len(tmp_res)
  /\ \A p \in 1 .. Len(scheduled) :
       /\ scheduled[p].kernel = Target(scheduled[p].entry)
       /\ p <= Len(resolved) => resolved[p] = Root(scheduled[p].entry)
       /\ p > Len(resolved) => tmp_res[p - Len(resolved)] = Root(scheduled[p].entry)
  /\ pos = 0 => tmp_res = << >>
  /\ status = "done" => pos = 0 /\ Len(resolved) >= N

\* What the sweep under way has placed was ready and unresolved, and lies behind pos.
SweptEntries ==
  \A p \in Len(resolved) + 1 .. Len(scheduled) :
    /\ scheduled[p].entry < pos
    /\ ~Resolved(scheduled[p].entry)
    /\ Ready(scheduled[p].entry)

\* On a schedulable list, entries that share a root are placed by the same sweep, and a sweep
\* that has placed nothing still has an unresolved entry ahead of it.
Progress ==
  Schedulable(kernels) =>
    /\ \A i \in 1 .. N : Resolved(i) => i \in Placed
    /\ \A i \in 1 .. N : i < pos /\ Ready(i) /\ ~Resolved(i) => i \in Placed
    /\ (pos > 0 /\ tmp_res = << >>) => \E k \in pos .. N : ~Resolved(k)

IndInv == TypeOK /\ Ledger /\ SweptEntries /\ DependenciesFirst /\ EachEntryOnce /\ Progress
=============================================================================
