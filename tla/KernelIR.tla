------------------------------ MODULE KernelIR ------------------------------
(***************************************************************************)
(* Kernels as the two lowering passes build them, and eliminate_kernels.   *)
(*                                                                         *)
(* A kernel is known by the tensors it loads and stores (the params        *)
(* bitmap, split by direction), the operations of the nodes it visits in   *)
(* visiting order (ops), the metadata fields it uses (meta) and the node   *)
(* it was started for (root).  Of the tensors it stores, results are those *)
(* that get the value, or the gradient, of the node they are kept for; the *)
(* others get a value met on the way to it.  For a kernel of the backward  *)
(* pass, terms says what it adds up: see BackwardLowering.                 *)
(***************************************************************************)
EXTENDS FusedGraph, KernelList

\* Tensors of a run: graph inputs, values kept by the forward pass, its output, the gradient
\* of the loss, and the gradients kept by the backward pass.
In(n) == << "in", n >>
Saved(n) == << "saved", n >>
Grad(n) == << "grad", n >>
Out == << "out", 0 >>
Seed == << "seed", 0 >>
Tensors == {"in", "saved", "grad", "out", "seed"} \X Nat

NewKernel(g, root) ==
  [root |-> root, ops |-> << >>, reads |-> {}, writes |-> {}, meta |-> Range(g[root].shape),
   terms |-> {}, results |-> {}]

\* A load of what this kernel stored earlier depends on no other kernel.
Load(k, t) == IF t \in k.writes THEN k ELSE [k EXCEPT !.reads = @ \cup {t}]
StoreInner(k, t) == [k EXCEPT !.writes = @ \cup {t}]
Store(k, t) == [StoreInner(k, t) EXCEPT !.results = @ \cup {t}]

FromEnd(shape, i) == shape[Len(shape) - i]

\* The metadata fields a matrix product of shapes a and b reads: m, n and k.
MatmulMeta(a, b) == {FromEnd(a, 1), FromEnd(b, 0), FromEnd(a, 0)}
Transposed(shape) ==
  [shape EXCEPT ![Len(shape)] = FromEnd(shape, 1), ![Len(shape) - 1] = FromEnd(shape, 0)]

\* dims_invalid: node n cares about the dispatch layout, and an earlier node required one
\* (no requirement is weaker than another, so n cannot share it).
DimsInvalid(g, resolved, n) ==
  /\ Op[g[n].op].need_dims \/ Op[g[n].op].prefer_separate
  /\ \E r \in Range(resolved) : Op[g[r].op].valid_dispatch # "Any"

\* v.push(x) if absent.
PushNew(v, x) == IF x \in Range(v) THEN v ELSE Append(v, x)

\* The elements of v, which are distinct, that are in S are pushed in order.
PushAll(roots, v, S) ==
  LET at == Ascending({p \in DOMAIN v : v[p] \in S})
  IN  roots \o [k \in DOMAIN at |-> v[at[k]]]

-----------------------------------------------------------------------------
(***************************************************************************)
(* eliminate_kernels: an entry whose kernel has the operations, parameters *)
(* and metadata of an earlier kernel is redirected to the last such kernel *)
(* that has not itself been redirected.                                    *)
(***************************************************************************)
\* Slip: parameters and metadata are not compared.
SameOps(a, b) == a.ops = b.ops

SameKernel(a, b) ==
  /\ a.ops = b.ops
  /\ a.meta = b.meta
  /\ a.reads \cup a.writes = b.reads \cup b.writes

eliminate_kernels(chain) ==
  LET redirect[i \in 0 .. Len(chain)] ==
        LET twins == {j \in 1 .. i - 1 : redirect[j] = Unmasked
                                         /\ SameKernel(chain[j].kernel, chain[i].kernel)}
        IN  IF i = 0 \/ twins = {} THEN Unmasked
            ELSE CHOOSE j \in twins : \A h \in twins : h <= j
  IN  [i \in DOMAIN chain |->
         [root |-> chain[i].kernel.root, dep |-> chain[i].dep, redirect |-> redirect[i]]]

-----------------------------------------------------------------------------
(* Vocabulary for the properties. *)

KernelsOf(chain) == {chain[i].kernel : i \in DOMAIN chain}
WrittenBy(chain) == UNION {k.writes : k \in KernelsOf(chain)}
ResultsOf(chain) == UNION {k.results : k \in KernelsOf(chain)}
ReadBy(chain) == UNION {k.reads : k \in KernelsOf(chain)}

\* In a schedule of the list, whatever kernel q loads and some kernel of the list stores has
\* been stored by an earlier one.
LoadsFollowStores(chain, schedule) ==
  LET launched(p) == chain[schedule[p].kernel].kernel
  IN  \A q \in DOMAIN schedule : \A t \in launched(q).reads \cap WrittenBy(chain) :
        \E p \in 1 .. q - 1 : t \in launched(p).writes

\* An eliminated entry loads, adds up and stores what the kernel it is redirected to does.
TwinsAgree(chain, kernels) ==
  \A i \in DOMAIN kernels :
    LET twin == chain[TargetIn(kernels, i)].kernel
        own == chain[i].kernel
    IN  own.reads = twin.reads /\ own.writes = twin.writes /\ own.terms = twin.terms
=============================================================================
