----------------------------- MODULE KernelList -----------------------------
(***************************************************************************)
(* The kernel lists that the lowering passes hand to the scheduler.        *)
(*                                                                         *)
(* An entry (Dependencies<Redirect<LinkedKernel>>) carries the graph node  *)
(* its kernel computes (root), the roots whose kernels must have run       *)
(* before it (dep), and, when eliminate_kernels found it to duplicate      *)
(* another entry, the position of the entry whose kernel it reuses         *)
(* (redirect); an Unmasked entry has a kernel of its own.                  *)
(***************************************************************************)
EXTENDS Naturals, Sequences, Functions

Unmasked == 0

KernelEntry == [root : Nat, dep : SUBSET Nat, redirect : Nat]

\* The entry whose kernel entry i of the list ks launches, and the root that kernel computes.
TargetIn(ks, i) == IF ks[i].redirect = Unmasked THEN i ELSE ks[i].redirect
RootIn(ks, i) == ks[TargetIn(ks, i)].root

\* A redirection points into the list.
IsKernelList(ks) ==
  /\ ks \in Seq(KernelEntry)
  /\ \A i \in 1 .. Len(ks) : ks[i].redirect \in 0 .. Len(ks)

(***************************************************************************)
(* When lower_forward appends the kernel of root r, every kernel already   *)
(* in its list with a larger root gets r as a dependency, and the new      *)
(* kernel gets none: an entry depends on exactly the later entries with a  *)
(* smaller root.  lower_backward does the same, per graph input, with      *)
(* larger roots.                                                           *)
(***************************************************************************)
ForwardList(roots) ==
  [i \in 1 .. Len(roots) |->
     [root |-> roots[i],
      dep |-> {r \in Range(roots) : r < roots[i] /\ \E j \in i + 1 .. Len(roots) : roots[j] = r},
      redirect |-> Unmasked]]

BackwardList(roots) ==
  [i \in 1 .. Len(roots) |->
     [root |-> roots[i],
      dep |-> {r \in Range(roots) : r > roots[i] /\ \E j \in i + 1 .. Len(roots) : roots[j] = r},
      redirect |-> Unmasked]]

(***************************************************************************)
(* What the scheduler relies on: no redirection leads to a redirected      *)
(* entry, entries that stand for the same root agree on their              *)
(* dependencies, and every dependency is the root of a later entry.  Both  *)
(* lists above have it when their roots differ; a list put together from   *)
(* two inputs of lower_backward need not.                                  *)
(***************************************************************************)
Schedulable(ks) ==
  /\ \A i \in 1 .. Len(ks) : ks[TargetIn(ks, i)].redirect = Unmasked
  /\ \A i, j \in 1 .. Len(ks) : RootIn(ks, i) = RootIn(ks, j) => ks[i].dep = ks[j].dep
  /\ \A i \in 1 .. Len(ks) : \A d \in ks[i].dep : \E j \in i + 1 .. Len(ks) : RootIn(ks, j) = d
=============================================================================
