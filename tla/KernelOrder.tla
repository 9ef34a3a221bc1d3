----------------------------- MODULE KernelOrder -----------------------------
(***************************************************************************)
(* What a schedule of a kernel list promises, without saying how it is     *)
(* found: entries are launched one by one, each at most once, none before  *)
(* a kernel has been launched for every root it depends on, and the        *)
(* schedule is complete only when every entry has been launched.           *)
(***************************************************************************)
EXTENDS KernelList

CONSTANT KernelLists

VARIABLES
  kernels,    \* the kernel list being scheduled
  launched,   \* the entries launched so far, in launch order
  finished    \* the schedule was handed to the caller

vars == << kernels, launched, finished >>

Init ==
  /\ kernels \in KernelLists
  /\ launched = << >>
  /\ finished = FALSE

Launch(i) ==
  /\ ~finished
  /\ i \notin Range(launched)
  /\ \A d \in kernels[i].dep : \E j \in Range(launched) : RootIn(kernels, j) = d
  /\ launched' = Append(launched, i)
  /\ UNCHANGED << kernels, finished >>

Finish ==
  /\ ~finished
  /\ Range(launched) = 1 .. Len(kernels)
  /\ finished' = TRUE
  /\ UNCHANGED << kernels, launched >>

Next == Finish \/ \E i \in 1 .. Len(kernels) : Launch(i)

Spec == Init /\ [][Next]_vars
=============================================================================
