-------------------------- MODULE MCKernelSchedule --------------------------
(***************************************************************************)
(* Kernel lists for checking KernelSchedule: those of the forward pass,    *)
(* those of the backward pass for two inputs, and short arbitrary ones.    *)
(***************************************************************************)
EXTENDS KernelSchedule

CONSTANTS
  ForwardLength,   \* longest list of the forward pass
  SegmentLength,   \* longest segment of one input of the backward pass
  AnyLength        \* longest arbitrary list, over as many roots

RootOrders(max) == UNION {{s \in [1 .. n -> 1 .. max] : IsInjective(s)} : n \in 0 .. max}

ForwardLists == {ForwardList(s) : s \in RootOrders(ForwardLength)}

\* eliminate_kernels redirects a repeated root to its first kernel.
Eliminated(ks) ==
  [i \in DOMAIN ks |->
     [ks[i] EXCEPT !.redirect =
        IF \E j \in 1 .. i - 1 : ks[j].root = ks[i].root
        THEN CHOOSE j \in 1 .. i - 1 : ks[j].root = ks[i].root
        ELSE Unmasked]]

BackwardLists ==
  LET segments == {BackwardList(s) : s \in RootOrders(SegmentLength)}
  IN  {Eliminated(s \o t) : s \in segments, t \in segments}

\* Arguments no lowering pass produces: arbitrary dependencies and redirections.
AnyLists ==
  UNION {[1 .. n -> [root : 1 .. AnyLength, dep : SUBSET (1 .. AnyLength), redirect : 0 .. n]]
           : n \in 1 .. AnyLength}

MCKernelLists == ForwardLists \cup BackwardLists \cup AnyLists
=============================================================================
