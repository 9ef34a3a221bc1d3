------------------------- MODULE KernelListProofs -------------------------
(***************************************************************************)
(* What both lowering passes rely on: the lists they build satisfy the     *)
(* scheduler, and what they push is a sequence of nodes.                   *)
(***************************************************************************)
EXTENDS Bindings, TLAPS, FiniteSetTheorems, SequenceTheorems,
        WellFoundedInduction

-----------------------------------------------------------------------------
\* A list in which nothing is redirected, entries of one root agree on their dependencies, and
\* every dependency is the root of a later entry is schedulable.
LEMMA AgreementSuffices ==
  ASSUME NEW ks, NEW n \in Nat, Len(ks) = n,
         \A i \in 1 .. n : ks[i].redirect = Unmasked,
         \A i, j \in 1 .. n : ks[i].root = ks[j].root => ks[i].dep = ks[j].dep,
         \A i \in 1 .. n : \A d \in ks[i].dep : \E j \in i + 1 .. n : ks[j].root = d
  PROVE  Schedulable(ks)
<1>1. \A i \in 1 .. n : TargetIn(ks, i) = i /\ RootIn(ks, i) = ks[i].root
  BY DEF TargetIn, RootIn
<1>2. \A i \in 1 .. n : \A j \in i + 1 .. n : j \in 1 .. n
  OBVIOUS
<1>3. QED BY <1>1, <1>2 DEF Schedulable

\* The lists of lower_forward, whose roots differ, are schedulable: every sweep over one places
\* a kernel (NeverSpins).
THEOREM ForwardListsAreSchedulable ==
  ASSUME NEW roots \in Seq(Nat), IsInjective(roots)
  PROVE  IsKernelList(ForwardList(roots)) /\ Schedulable(ForwardList(roots))
<1> DEFINE ks == ForwardList(roots)
<1>1. /\ Len(roots) \in Nat /\ DOMAIN roots = 1 .. Len(roots)
      /\ \A i \in 1 .. Len(roots) : roots[i] \in Nat
      /\ Range(roots) \subseteq Nat
  BY DEF Range
<1>2. /\ ks = [i \in 1 .. Len(roots) |-> ks[i]] /\ Len(ks) = Len(roots)
      /\ \A i \in 1 .. Len(roots) :
           /\ ks[i].root = roots[i] /\ ks[i].redirect = Unmasked
           /\ ks[i].dep = {r \in Range(roots) :
                             r < roots[i] /\ \E j \in i + 1 .. Len(roots) : roots[j] = r}
           /\ ks[i] \in KernelEntry
  BY <1>1 DEF ForwardList, KernelEntry, Unmasked
<1>3. IsKernelList(ks)
  BY <1>1, <1>2 DEF IsKernelList, Unmasked
<1>4. \A i, j \in 1 .. Len(roots) : ks[i].root = ks[j].root => i = j
  BY <1>1, <1>2 DEF IsInjective
<1>5. \A i \in 1 .. Len(roots) : \A j \in i + 1 .. Len(roots) : j \in 1 .. Len(roots)
  BY <1>1
<1>6. ASSUME NEW i \in 1 .. Len(roots), NEW d \in ks[i].dep
      PROVE  \E j \in i + 1 .. Len(roots) : ks[j].root = d
  <2>1. PICK j \in i + 1 .. Len(roots) : roots[j] = d
    BY <1>2
  <2>2. ks[j].root = d
    BY <2>1, <1>2, <1>5
  <2>3. QED BY <2>2
<1>7. QED BY <1>1, <1>2, <1>3, <1>4, <1>6, AgreementSuffices

\* The lists of lower_backward for one graph input, whose roots differ but for the greatest (the
\* output), are schedulable too: nothing has to run before the kernels of the output.
THEOREM BackwardListsAreSchedulable ==
  ASSUME NEW roots \in Seq(Nat),
         \A i, j \in 1 .. Len(roots) : roots[i] = roots[j] =>
           i = j \/ \A k \in 1 .. Len(roots) : roots[k] <= roots[i]
  PROVE  IsKernelList(BackwardList(roots)) /\ Schedulable(BackwardList(roots))
<1> DEFINE ks == BackwardList(roots)
<1>1. /\ Len(roots) \in Nat /\ DOMAIN roots = 1 .. Len(roots)
      /\ \A i \in 1 .. Len(roots) : roots[i] \in Nat
      /\ Range(roots) \subseteq Nat
      /\ \A r \in Range(roots) : \E i \in 1 .. Len(roots) : roots[i] = r
  BY DEF Range
<1>2. /\ ks = [i \in 1 .. Len(roots) |-> ks[i]] /\ Len(ks) = Len(roots)
      /\ \A i \in 1 .. Len(roots) :
           /\ ks[i].root = roots[i] /\ ks[i].redirect = Unmasked
           /\ ks[i].dep = {r \in Range(roots) :
                             r > roots[i] /\ \E j \in i + 1 .. Len(roots) : roots[j] = r}
           /\ ks[i] \in KernelEntry
  BY <1>1 DEF BackwardList, KernelEntry, Unmasked
<1>3. IsKernelList(ks)
  BY <1>1, <1>2 DEF IsKernelList, Unmasked
<1>4. ASSUME NEW i \in 1 .. Len(roots), NEW j \in 1 .. Len(roots), ks[i].root = ks[j].root
      PROVE  ks[i].dep = ks[j].dep
  <2>1. CASE i = j
    BY <2>1
  <2>2. CASE \A k \in 1 .. Len(roots) : roots[k] <= roots[i]
    <3>1. ASSUME NEW r \in Range(roots) PROVE ~(r > roots[i])
      BY <1>1, <2>2
    <3>2. roots[i] = roots[j]
      BY <1>2, <1>4
    <3>3. ks[i].dep = {} /\ ks[j].dep = {}
      BY <1>2, <3>1, <3>2
    <3> QED BY <3>3
  <2> QED BY <1>2, <1>4, <2>1, <2>2
<1>5. \A i \in 1 .. Len(roots) : \A j \in i + 1 .. Len(roots) : j \in 1 .. Len(roots)
  BY <1>1
<1>6. ASSUME NEW i \in 1 .. Len(roots), NEW d \in ks[i].dep
      PROVE  \E j \in i + 1 .. Len(roots) : ks[j].root = d
  <2>1. PICK j \in i + 1 .. Len(roots) : roots[j] = d
    BY <1>2
  <2>2. ks[j].root = d
    BY <2>1, <1>2, <1>5
  <2>3. QED BY <2>2
<1>7. QED BY <1>1, <1>2, <1>3, <1>4, <1>6, AgreementSuffices
-----------------------------------------------------------------------------
\* Induction over the natural numbers, for sets of them.
LEMMA SetInduction ==
  ASSUME NEW S \in SUBSET Nat, 0 \in S, \A n \in S : n + 1 \in S
  PROVE  S = Nat
<1> DEFINE R == {ss \in Nat \X Nat : ss[1] < ss[2]}
           T == Nat \ S
<1>1. IsWellFoundedOn(R, Nat)
  BY NatLessThanWellFounded DEF OpToRel
<1>2. \A x, y \in Nat : x < y => <<x, y>> \in R
  OBVIOUS
<1>3. SUFFICES ASSUME T # {} PROVE FALSE
  OBVIOUS
<1>4. PICK x \in T : \A y \in T : ~(<<y, x>> \in R)
  <2> HIDE DEF R, T
  <2>1. T \subseteq Nat
    BY DEF T
  <2> QED BY <1>1, <1>3, <2>1, WFMin
<1>5. x # 0 /\ x - 1 \in Nat /\ x - 1 < x
  OBVIOUS
<1>6. x - 1 \in T
  OBVIOUS
<1>7. <<x - 1, x>> \in R
  BY <1>2, <1>5
<1> QED BY <1>4, <1>6, <1>7

LEMMA LargestExists ==
  ASSUME NEW m \in Nat, NEW S \in SUBSET (1 .. m), S # {}
  PROVE  \E x \in S : \A y \in S : y <= x
<1> DEFINE Bounded(k) == \A T \in SUBSET (1 .. k) : T # {} => \E x \in T : \A y \in T : y <= x
           W == {k \in Nat : Bounded(k)}
<1>1. 0 \in W
  <2>1. 1 .. 0 = {}
    OBVIOUS
  <2> QED BY <2>1
<1>2. ASSUME NEW k \in W PROVE k + 1 \in W
  <2>1. k \in Nat /\ Bounded(k)
    BY <1>2
  <2>2. ASSUME NEW T \in SUBSET (1 .. k + 1), T # {} PROVE \E x \in T : \A y \in T : y <= x
    <3>1. CASE k + 1 \in T
      <4>1. \A y \in T : y <= k + 1
        BY <2>1
      <4> QED BY <3>1, <4>1
    <3>2. CASE k + 1 \notin T
      <4>1. T \in SUBSET (1 .. k)
        BY <2>1, <3>2
      <4> QED BY <2>1, <2>2, <4>1
    <3> QED BY <3>1, <3>2
  <2> QED BY <2>1, <2>2
<1>3. W = Nat
  <2> HIDE DEF Bounded
  <2> QED BY <1>1, <1>2, SetInduction
<1>4. m \in W
  BY <1>3
<1> QED BY <1>4

\* A set of positions has one ascending enumeration at least.
LEMMA AscendingExists ==
  ASSUME NEW m \in Nat, NEW S \in SUBSET (1 .. m)
  PROVE  \E s \in [1 .. Cardinality(S) -> S] : \A i, j \in DOMAIN s : i < j => s[i] < s[j]
<1> DEFINE Enumerable(T) ==
             \E s \in [1 .. Cardinality(T) -> T] : \A i, j \in DOMAIN s : i < j => s[i] < s[j]
           W == {n \in Nat : \A T \in SUBSET (1 .. n) : Enumerable(T)}
<1>1. 0 \in W
  <2>1. ASSUME NEW T \in SUBSET (1 .. 0) PROVE Enumerable(T)
    <3>1. T = {} /\ Cardinality(T) = 0
      <4>1. T = {}
        OBVIOUS
      <4> QED BY <4>1, FS_EmptySet
    <3>2. << >> \in [1 .. Cardinality(T) -> T] /\ DOMAIN << >> = {}
      BY <3>1
    <3> QED BY <3>2
  <2> QED BY <2>1
<1>2. ASSUME NEW n \in W PROVE n + 1 \in W
  <2>1. n \in Nat /\ \A T \in SUBSET (1 .. n) : Enumerable(T)
    BY <1>2
  <2>2. ASSUME NEW T \in SUBSET (1 .. n + 1) PROVE Enumerable(T)
    <3>1. CASE n + 1 \notin T
      <4>1. T \in SUBSET (1 .. n)
        BY <2>1, <3>1
      <4> QED BY <2>1, <4>1
    <3>2. CASE n + 1 \in T
      <4> DEFINE U == T \ {n + 1}
      <4>1. U \in SUBSET (1 .. n)
        BY <2>1
      <4>2. IsFiniteSet(T)
        <5>1. IsFiniteSet(1 .. n + 1)
          BY <2>1, FS_Interval
        <5> QED BY <5>1, FS_Subset
      <4>3. Cardinality(T) \in Nat /\ Cardinality(U) \in Nat /\ Cardinality(T) = Cardinality(U) + 1
        <5>1. IsFiniteSet(U) /\ Cardinality(U) = Cardinality(T) - 1
          BY <3>2, <4>2, FS_RemoveElement
        <5>2. Cardinality(T) \in Nat /\ Cardinality(U) \in Nat
          BY <4>2, <5>1, FS_CardinalityType
        <5> QED BY <5>1, <5>2
      <4>4. Enumerable(U)
        <5> HIDE DEF U
        <5> QED BY <2>1, <4>1
      <4>5. PICK s \in [1 .. Cardinality(U) -> U] : \A i, j \in DOMAIN s : i < j => s[i] < s[j]
        BY <4>4
      <4> DEFINE last == Cardinality(T)
                 t == [i \in 1 .. last |-> IF i = last THEN n + 1 ELSE s[i]]
      <4>6. \A i \in 1 .. last : i # last => i \in 1 .. Cardinality(U)
        BY <4>3
      <4>7. \A i \in 1 .. Cardinality(U) : s[i] \in T /\ s[i] < n + 1
        <5>1. \A x \in U : x \in T /\ x < n + 1
          BY <4>1, <2>1
        <5> HIDE DEF U
        <5> QED BY <4>5, <5>1
      <4>8. t \in [1 .. last -> T]
        BY <3>2, <4>6, <4>7
      <4>9. ASSUME NEW i \in 1 .. last, NEW j \in 1 .. last, i < j PROVE t[i] < t[j]
        <5>1. i # last /\ i \in 1 .. Cardinality(U)
          BY <4>3, <4>9, <4>6
        <5>2. CASE j = last
          BY <5>1, <5>2, <4>7
        <5>3. CASE j # last
          BY <5>1, <5>3, <4>5, <4>6, <4>9
        <5> QED BY <5>2, <5>3
      <4> HIDE DEF t, last
      <4>10. DOMAIN t = 1 .. last
        BY DEF t
      <4> QED BY <4>8, <4>9, <4>10 DEF last
    <3> QED BY <3>1, <3>2
  <2> HIDE DEF Enumerable
  <2> QED BY <2>1, <2>2
<1>3. W = Nat
  <2> HIDE DEF Enumerable
  <2> QED BY <1>1, <1>2, SetInduction
<1> QED BY <1>3

LEMMA AscendingType ==
  ASSUME NEW m \in Nat, NEW S \in SUBSET (1 .. m)
  PROVE  Ascending(S) \in Seq(S) /\ Ascending(S) \in [1 .. Cardinality(S) -> S]
<1>1. Ascending(S) \in [1 .. Cardinality(S) -> S]
  BY AscendingExists DEF Ascending
<1>2. Cardinality(S) \in Nat
  <2>1. IsFiniteSet(1 .. m)
    BY FS_Interval
  <2>2. IsFiniteSet(S)
    BY <2>1, FS_Subset
  <2> QED BY <2>2, FS_CardinalityType
<1> QED BY <1>1, <1>2

LEMMA AscendingRange ==
  ASSUME NEW m \in Nat, NEW S \in SUBSET (1 .. m)
  PROVE  /\ Range(Ascending(S)) = S
         /\ \A i, j \in DOMAIN Ascending(S) : i < j => Ascending(S)[i] < Ascending(S)[j]
<1> DEFINE f == Ascending(S)
           c == Cardinality(S)
<1>1. f \in [1 .. c -> S] /\ \A i, j \in DOMAIN f : i < j => f[i] < f[j]
  BY AscendingExists DEF Ascending
<1>2. IsFiniteSet(S) /\ c \in Nat /\ IsFiniteSet(1 .. c) /\ Cardinality(1 .. c) = c
  <2>1. IsFiniteSet(1 .. m)
    BY FS_Interval
  <2>2. IsFiniteSet(S) /\ c \in Nat
    BY <2>1, FS_Subset, FS_CardinalityType
  <2> HIDE DEF c
  <2> QED BY <2>2, FS_Interval
<1> HIDE DEF f, c
<1>3. f \in Injection(1 .. c, S)
  <2>1. ASSUME NEW i \in 1 .. c, NEW j \in 1 .. c, f[i] = f[j] PROVE i = j
    <3>1. ~(i < j) /\ ~(j < i)
      <4>1. \A x \in S : x \in Nat
        OBVIOUS
      <4>2. f[i] \in Nat /\ f[j] \in Nat
        BY <1>1, <4>1
      <4>3. DOMAIN f = 1 .. c
        BY <1>1
      <4> QED BY <1>1, <2>1, <4>2, <4>3
    <3> QED BY <1>2, <3>1
  <2> QED BY <1>1, <2>1 DEF Injection, IsInjective
<1>4. f \in Surjection(1 .. c, S)
  BY <1>2, <1>3, FS_Injection DEF c
<1>5. Range(f) = S
  BY <1>4 DEF Surjection, Range
<1> QED BY <1>1, <1>5 DEF f

-----------------------------------------------------------------------------
(* Sequences that the passes push to and pop from. *)

LEMMA PushNewType ==
  ASSUME NEW S, NEW v \in Seq(S), NEW x \in S
  PROVE  PushNew(v, x) \in Seq(S) /\ Range(PushNew(v, x)) = Range(v) \cup {x}
<1>1. CASE x \in Range(v)
  BY <1>1 DEF PushNew
<1>2. CASE x \notin Range(v)
  <2>1. PushNew(v, x) = Append(v, x)
    BY <1>2 DEF PushNew
  <2>2. Append(v, x) \in Seq(S) /\ DOMAIN Append(v, x) = 1 .. Len(v) + 1
    OBVIOUS
  <2>3. \A i \in 1 .. Len(v) + 1 : Append(v, x)[i] = IF i = Len(v) + 1 THEN x ELSE v[i]
    OBVIOUS
  <2>4. Range(Append(v, x)) = Range(v) \cup {x}
    <3>1. Len(v) \in Nat /\ DOMAIN v = 1 .. Len(v)
      OBVIOUS
    <3>2. \A y : y \in Range(Append(v, x)) <=> \E i \in 1 .. Len(v) + 1 : Append(v, x)[i] = y
      BY <2>2 DEF Range
    <3>3. \A y : y \in Range(v) <=> \E i \in 1 .. Len(v) : v[i] = y
      BY <3>1 DEF Range
    <3> QED BY <2>3, <3>1, <3>2, <3>3
  <2> QED BY <2>1, <2>2, <2>4
<1> QED BY <1>1, <1>2

LEMMA EmptyRange ==
  ASSUME NEW S, NEW s \in Seq(S)
  PROVE  s = << >> <=> Range(s) = {}
<1>1. s = << >> <=> Len(s) = 0
  BY EmptySeq
<1>2. Len(s) \in Nat /\ DOMAIN s = 1 .. Len(s)
  OBVIOUS
<1>3. Len(s) # 0 => 1 \in DOMAIN s
  BY <1>2
<1>4. Len(s) = 0 => DOMAIN s = {}
  BY <1>2
<1> QED BY <1>1, <1>3, <1>4 DEF Range

LEMMA RangeConcat ==
  ASSUME NEW S, NEW s \in Seq(S), NEW t \in Seq(S)
  PROVE  Range(s \o t) = Range(s) \cup Range(t)
<1>1. /\ Len(s) \in Nat /\ DOMAIN s = 1 .. Len(s) /\ Len(t) \in Nat /\ DOMAIN t = 1 .. Len(t)
      /\ DOMAIN (s \o t) = 1 .. Len(s) + Len(t)
      /\ \A i \in 1 .. Len(s) + Len(t) : (s \o t)[i] = IF i <= Len(s) THEN s[i] ELSE t[i - Len(s)]
  OBVIOUS
<1>2. ASSUME NEW x \in Range(s \o t) PROVE x \in Range(s) \cup Range(t)
  <2>1. PICK i \in 1 .. Len(s) + Len(t) : (s \o t)[i] = x
    BY <1>1 DEF Range
  <2>2. i <= Len(s) => i \in DOMAIN s /\ s[i] = x
    BY <1>1, <2>1
  <2>3. ~(i <= Len(s)) => i - Len(s) \in DOMAIN t /\ t[i - Len(s)] = x
    BY <1>1, <2>1
  <2> QED BY <2>2, <2>3 DEF Range
<1>3. ASSUME NEW x \in Range(s) \cup Range(t) PROVE x \in Range(s \o t)
  <2>1. CASE x \in Range(s)
    <3>1. PICK i \in 1 .. Len(s) : s[i] = x
      BY <1>1, <2>1 DEF Range
    <3>2. i \in 1 .. Len(s) + Len(t) /\ (s \o t)[i] = x
      BY <1>1, <3>1
    <3> QED BY <1>1, <3>2 DEF Range
  <2>2. CASE x \in Range(t)
    <3>1. PICK i \in 1 .. Len(t) : t[i] = x
      BY <1>1, <2>2 DEF Range
    <3>2. /\ i + Len(s) \in 1 .. Len(s) + Len(t) /\ ~(i + Len(s) <= Len(s))
          /\ i + Len(s) - Len(s) = i
      BY <1>1, <3>1
    <3>3. (s \o t)[i + Len(s)] = x
      BY <1>1, <3>1, <3>2
    <3> QED BY <1>1, <3>2, <3>3 DEF Range
  <2> QED BY <1>3, <2>1, <2>2
<1> QED BY <1>2, <1>3

LEMMA PushAllType ==
  ASSUME NEW S, NEW roots \in Seq(S), NEW v \in Seq(S), NEW T
  PROVE  /\ PushAll(roots, v, T) \in Seq(S)
         /\ Range(PushAll(roots, v, T)) = Range(roots) \cup (Range(v) \cap T)
<1> DEFINE P == {p \in DOMAIN v : v[p] \in T}
           at == Ascending(P)
<1>1. Len(v) \in Nat /\ P \in SUBSET (1 .. Len(v)) /\ \A p \in P : v[p] \in S
  OBVIOUS
<1>2. at \in Seq(P) /\ Range(at) = P
  <2> HIDE DEF P
  <2> QED BY <1>1, AscendingType, AscendingRange
<1>3. [k \in DOMAIN at |-> v[at[k]]] \in Seq(S)
  <2> HIDE DEF at, P
  <2>1. Len(at) \in Nat /\ DOMAIN at = 1 .. Len(at) /\ \A k \in DOMAIN at : at[k] \in P
    BY <1>2
  <2>2. \A k \in 1 .. Len(at) : v[at[k]] \in S
    BY <1>1, <2>1
  <2> QED BY <2>1, <2>2
<1>4. PushAll(roots, v, T) = roots \o [k \in DOMAIN at |-> v[at[k]]]
  BY DEF PushAll
<1> DEFINE new == [k \in DOMAIN at |-> v[at[k]]]
<1>5. Range(new) = Range(v) \cap T
  <2>1. Range(new) = {v[p] : p \in Range(at)}
    <3> HIDE DEF at
    <3> QED BY DEF Range
  <2>2. {v[p] : p \in P} = Range(v) \cap T
    BY DEF Range
  <2> QED BY <1>2, <2>1, <2>2
<1> HIDE DEF at, new
<1>6. Range(roots \o new) = Range(roots) \cup Range(new)
  BY <1>3, RangeConcat DEF new
<1> QED BY <1>3, <1>4, <1>5, <1>6 DEF new

LEMMA Popped ==
  ASSUME NEW S, NEW s \in Seq(S), s # << >>
  PROVE  /\ Head(s) \in S /\ Tail(s) \in Seq(S) /\ Len(s) \in Nat \ {0} /\ Head(s) = s[1]
         /\ Len(s) = 1 => Tail(s) = << >>
         /\ Len(s) # 1 => Tail(s) # << >> /\ Tail(s)[Len(Tail(s))] = s[Len(s)]
<1>1. Len(s) \in Nat \ {0} /\ Head(s) \in S /\ Tail(s) \in Seq(S) /\ Head(s) = s[1]
  OBVIOUS
<1>2. Len(Tail(s)) = Len(s) - 1 /\ \A i \in 1 .. Len(s) - 1 : Tail(s)[i] = s[i + 1]
  OBVIOUS
<1>3. Tail(s) = << >> <=> Len(Tail(s)) = 0
  BY <1>1, EmptySeq
<1>4. ASSUME Len(s) # 1 PROVE Tail(s)[Len(Tail(s))] = s[Len(s)]
  <2>1. Len(Tail(s)) \in 1 .. Len(s) - 1 /\ Len(Tail(s)) + 1 = Len(s)
    BY <1>1, <1>2, <1>4
  <2> QED BY <1>2, <2>1
<1> QED BY <1>1, <1>2, <1>3, <1>4

\* Frames pushed in front of others, position by position.
LEMMA FramesPushed ==
  ASSUME NEW S, NEW a \in Seq(S), NEW x \in S, NEW t \in Seq(S)
  PROVE  /\ a \o << x >> \o t \in Seq(S)
         /\ Len(a) \in Nat /\ DOMAIN a = 1 .. Len(a) /\ Len(t) \in Nat /\ DOMAIN t = 1 .. Len(t)
         /\ DOMAIN (a \o << x >> \o t) = 1 .. Len(a) + 1 + Len(t)
         /\ \A k \in 1 .. Len(a) : (a \o << x >> \o t)[k] = a[k]
         /\ (a \o << x >> \o t)[Len(a) + 1] = x
         /\ \A k \in 1 .. Len(t) : (a \o << x >> \o t)[Len(a) + 1 + k] = t[k]
         /\ Range(a \o << x >> \o t) = Range(a) \cup {x} \cup Range(t)
<1> DEFINE b == a \o << x >>
<1>1. /\ b \in Seq(S) /\ Len(b) = Len(a) + 1 /\ b[Len(a) + 1] = x
      /\ Len(a) \in Nat /\ Len(t) \in Nat
      /\ \A k \in 1 .. Len(a) : b[k] = a[k]
  OBVIOUS
<1>2. Range(b) = Range(a) \cup {x}
  <2>1. << x >> \in Seq(S) /\ Range(<< x >>) = {x}
    BY DEF Range
  <2>2. Range(a \o << x >>) = Range(a) \cup Range(<< x >>)
    BY <2>1, RangeConcat
  <2> QED BY <2>1, <2>2
<1> HIDE DEF b
<1>3. /\ b \o t \in Seq(S) /\ Len(b \o t) = Len(b) + Len(t)
      /\ \A k \in 1 .. Len(b) : (b \o t)[k] = b[k]
      /\ \A k \in 1 .. Len(t) : (b \o t)[Len(b) + k] = t[k]
  BY <1>1
<1>4. Range(b \o t) = Range(b) \cup Range(t)
  BY <1>1, RangeConcat
<1>5. b \o t = a \o << x >> \o t
  BY DEF b
<1>6. /\ DOMAIN a = 1 .. Len(a) /\ DOMAIN t = 1 .. Len(t) /\ DOMAIN (b \o t) = 1 .. Len(b \o t)
  BY <1>3
<1>7. \A k \in 1 .. Len(a) : (b \o t)[k] = a[k]
  BY <1>1, <1>3
<1>8. (b \o t)[Len(a) + 1] = x
  BY <1>1, <1>3
<1> QED BY <1>1, <1>2, <1>3, <1>4, <1>5, <1>6, <1>7, <1>8

LEMMA PoppedRange ==
  ASSUME NEW S, NEW s \in Seq(S), s # << >>
  PROVE  /\ Range(s) = {Head(s)} \cup Range(Tail(s))
         /\ DOMAIN s = 1 .. Len(s) /\ DOMAIN Tail(s) = 1 .. Len(s) - 1
         /\ \A i \in DOMAIN Tail(s) : i + 1 \in DOMAIN s /\ Tail(s)[i] = s[i + 1]
<1>1. /\ Len(s) \in Nat \ {0} /\ DOMAIN s = 1 .. Len(s) /\ Head(s) = s[1]
      /\ DOMAIN Tail(s) = 1 .. Len(s) - 1
      /\ \A i \in 1 .. Len(s) - 1 : Tail(s)[i] = s[i + 1]
  OBVIOUS
<1>2. \A i \in 1 .. Len(s) : i = 1 \/ (i - 1 \in 1 .. Len(s) - 1 /\ s[i] = Tail(s)[i - 1])
  BY <1>1
<1>3. \A i \in 1 .. Len(s) - 1 : i + 1 \in 1 .. Len(s)
  BY <1>1
<1> DEFINE t == Tail(s)
<1>4. /\ DOMAIN t = 1 .. Len(s) - 1
      /\ \A i \in 1 .. Len(s) : i = 1 \/ (i - 1 \in 1 .. Len(s) - 1 /\ s[i] = t[i - 1])
      /\ \A i \in 1 .. Len(s) - 1 : t[i] = s[i + 1]
  BY <1>1, <1>2
<1> HIDE DEF t
<1>5. \A y : y \in Range(s) <=> y = Head(s) \/ y \in Range(t)
  <2>1. \A y : y \in Range(s) <=> \E i \in 1 .. Len(s) : s[i] = y
    BY <1>1 DEF Range
  <2>2. \A y : y \in Range(t) <=> \E i \in 1 .. Len(s) - 1 : t[i] = y
    BY <1>4 DEF Range
  <2>3. 1 \in 1 .. Len(s)
    BY <1>1
  <2> QED BY <1>1, <1>3, <1>4, <2>1, <2>2, <2>3
<1>6. Range(s) = {Head(s)} \cup Range(t)
  BY <1>5
<1> QED BY <1>1, <1>3, <1>6 DEF t

\* A frame that was ahead of another still is, when a frame that is neither is popped.
LEMMA AheadAfterPop ==
  ASSUME NEW S, NEW s \in Seq(S), s # << >>, NEW i \in DOMAIN Tail(s), NEW f, f # Head(s),
         \E j \in 1 .. i : s[j] = f
  PROVE  \E j \in 1 .. i - 1 : Tail(s)[j] = f
<1>1. PICK j \in 1 .. i : s[j] = f
  OBVIOUS
<1>2. /\ Len(s) \in Nat \ {0} /\ Head(s) = s[1] /\ DOMAIN Tail(s) = 1 .. Len(s) - 1
      /\ \A k \in 1 .. Len(s) - 1 : Tail(s)[k] = s[k + 1]
  OBVIOUS
<1>3. j # 1 /\ j - 1 \in 1 .. i - 1 /\ j - 1 \in 1 .. Len(s) - 1 /\ (j - 1) + 1 = j
  BY <1>1, <1>2
<1> QED BY <1>1, <1>2, <1>3

\* What is put in the place of the first element leaves the others where they are.
LEMMA TopReplaced ==
  ASSUME NEW S, NEW s \in Seq(S), s # << >>, NEW x \in S
  PROVE  LET t == << x >> \o Tail(s) IN
         DOMAIN t = DOMAIN s /\ t[1] = x /\ \A j \in DOMAIN s : j # 1 => t[j] = s[j]
OBVIOUS

LEMMA Appended ==
  ASSUME NEW S, NEW s \in Seq(S), NEW x
  PROVE  /\ Append(s, x) \in Seq(S \cup {x}) /\ Append(s, x) # << >>
         /\ Len(s) \in Nat /\ DOMAIN s = 1 .. Len(s)
         /\ Len(Append(s, x)) = Len(s) + 1 /\ DOMAIN Append(s, x) = 1 .. Len(s) + 1
         /\ Append(s, x)[Len(s) + 1] = x /\ \A i \in 1 .. Len(s) : Append(s, x)[i] = s[i]
<1>1. s \in Seq(S \cup {x}) /\ x \in S \cup {x}
  <2>1. Seq(S) \subseteq Seq(S \cup {x})
    OBVIOUS
  <2> QED BY <2>1
<1> QED BY <1>1

LEMMA LastOfConcat ==
  ASSUME NEW S, NEW s \in Seq(S), NEW t \in Seq(S), t # << >>
  PROVE  /\ s \o t \in Seq(S) /\ s \o t # << >>
         /\ (s \o t)[Len(s \o t)] = t[Len(t)]
<1>1. Len(s) \in Nat /\ Len(t) \in Nat \ {0} /\ Len(s \o t) = Len(s) + Len(t)
  OBVIOUS
<1>2. (s \o t)[Len(s) + Len(t)] = t[Len(t)]
  BY <1>1
<1> QED BY <1>1, <1>2

\* The last of frame \o rest is the last of rest, if there is one.
LEMMA LastOfPush ==
  ASSUME NEW S, NEW x \in S, NEW t \in Seq(S)
  PROVE  /\ << x >> \o t \in Seq(S) /\ << x >> \o t # << >>
         /\ t = << >> => << x >> \o t = << x >>
         /\ t # << >> => (<< x >> \o t)[Len(<< x >> \o t)] = t[Len(t)]
<1>1. << x >> \in Seq(S)
  OBVIOUS
<1>2. CASE t = << >>
  BY <1>1, <1>2
<1>3. CASE t # << >>
  BY <1>1, <1>3, LastOfConcat
<1> QED BY <1>2, <1>3

\* Frames pushed in front of others: operands, the end of their user, and the rest.
LEMMA LastOfFrames ==
  ASSUME NEW S, NEW s \in Seq(S), NEW x \in S, NEW t \in Seq(S)
  PROVE  /\ s \o << x >> \o t \in Seq(S) /\ s \o << x >> \o t # << >>
         /\ (s \o << x >> \o t)[Len(s \o << x >> \o t)] = IF t = << >> THEN x ELSE t[Len(t)]
<1> DEFINE u == s \o << x >>
<1>1. u \in Seq(S) /\ u # << >> /\ u[Len(u)] = x
  <2>1. << x >> \in Seq(S) /\ << x >> # << >> /\ << x >>[Len(<< x >>)] = x
    OBVIOUS
  <2> QED BY <2>1, LastOfConcat
<1> HIDE DEF u
<1>2. CASE t = << >>
  <2>1. u \o t = u
    BY <1>1, <1>2
  <2> QED BY <1>1, <1>2, <2>1 DEF u
<1>3. CASE t # << >>
  <2>1. u \o t \in Seq(S) /\ u \o t # << >> /\ (u \o t)[Len(u \o t)] = t[Len(t)]
    BY <1>1, <1>3, LastOfConcat
  <2> QED BY <1>3, <2>1 DEF u
<1> QED BY <1>2, <1>3

-----------------------------------------------------------------------------
(* Kernels, operations and lists. *)

\* No operation of the library asks for a row or a column, and those with operands are computed
\* where they are evaluated: a kernel can be started at any node.
LEMMA OpFacts ==
  \A op \in OpNames : /\ Op[op].valid_dispatch = "Any"
                      /\ Op[op].leaf \/ Op[op].computes_gid
                      /\ Op[op].stable_iter \in BOOLEAN
<1> DEFINE Fields == {"leaf", "computes_gid", "stable_iter", "valid_dispatch"}
           Fine(o) == /\ Fields \subseteq DOMAIN o /\ o.valid_dispatch = "Any"
                      /\ o.leaf \/ o.computes_gid
                      /\ o.stable_iter \in BOOLEAN
           Computes(o) == Fine(o) /\ o.computes_gid
<1>1. Fine(Leaf) /\ DOMAIN Leaf = {"leaf", "arity", "need_dims", "stable_iter", "auto_save",
        "computes_gid", "prefer_separate", "valid_dispatch", "save", "grad", "grad_own", "must",
        "save_inner"}
  BY DEF Leaf
<1>2. Computes(Elementwise) /\ DOMAIN Elementwise = DOMAIN Leaf
  BY <1>1 DEF Elementwise
<1>3. Computes(Binary) /\ Computes(Unary)
  BY <1>1, <1>2 DEF Binary, Unary
<1>4. Computes(add) /\ Computes(sub) /\ Computes(mul) /\ Computes(div) /\ Computes(matmul)
  BY <1>3 DEF add, sub, mul, div, matmul
<1>5. Computes(log) /\ Computes(tanh) /\ Computes(elu) /\ Computes(relu) /\ Computes(exp)
      /\ Computes(abs) /\ Computes(neg) /\ Computes(gelu)
  BY <1>3 DEF log, tanh, elu, relu, exp, abs, neg, gelu
<1>6. \A op \in OpNames : Fine(Op[op])
  <2> HIDE DEF Fine
  <2> QED BY <1>1, <1>4, <1>5 DEF OpNames, Op
<1> QED BY <1>6

IsKernel(k) ==
  k = [root |-> k.root, ops |-> k.ops, reads |-> k.reads, writes |-> k.writes, meta |-> k.meta,
       terms |-> k.terms, results |-> k.results]

LEMMA KernelFacts ==
  /\ \A g, r : IsKernel(NewKernel(g, r)) /\ NewKernel(g, r).root = r
  /\ \A k, t : IsKernel(k) => IsKernel(Load(k, t)) /\ Load(k, t).root = k.root
  /\ \A k, t : IsKernel(k) => IsKernel(Store(k, t)) /\ Store(k, t).root = k.root
  /\ \A k, t : IsKernel(k) => IsKernel(StoreInner(k, t)) /\ StoreInner(k, t).root = k.root
  /\ \A k, y : IsKernel(k) =>
       IsKernel([k EXCEPT !.ops = y]) /\ [k EXCEPT !.ops = y].root = k.root
  /\ \A k, y : IsKernel(k) =>
       IsKernel([k EXCEPT !.meta = y]) /\ [k EXCEPT !.meta = y].root = k.root
  /\ \A k, y : IsKernel(k) =>
       IsKernel([k EXCEPT !.reads = y]) /\ [k EXCEPT !.reads = y].root = k.root
  /\ \A k, y : IsKernel(k) =>
       IsKernel([k EXCEPT !.terms = y]) /\ [k EXCEPT !.terms = y].root = k.root
<1>1. \A g, r : IsKernel(NewKernel(g, r)) /\ NewKernel(g, r).root = r
  BY DEF IsKernel, NewKernel
<1>2. \A k, t : IsKernel(k) => IsKernel(Load(k, t)) /\ Load(k, t).root = k.root
  BY DEF IsKernel, Load
<1>3. \A k, t : IsKernel(k) => IsKernel(StoreInner(k, t)) /\ StoreInner(k, t).root = k.root
  BY DEF IsKernel, StoreInner
<1>4. ASSUME NEW k, NEW t, IsKernel(k)
      PROVE  IsKernel(Store(k, t)) /\ Store(k, t).root = k.root
  <2> DEFINE s == StoreInner(k, t)
  <2>1. IsKernel(s) /\ s.root = k.root
    BY <1>3, <1>4
  <2>2. Store(k, t) = [s EXCEPT !.results = s.results \cup {t}]
    BY DEF Store
  <2> HIDE DEF s
  <2>3. Store(k, t) = [root |-> s.root, ops |-> s.ops, reads |-> s.reads, writes |-> s.writes, meta |-> s.meta, terms |-> s.terms, results |-> s.results \cup {t}]
    BY <2>1, <2>2 DEF IsKernel
  <2> QED BY <2>1, <2>3 DEF IsKernel
<1>5. ASSUME NEW k, NEW y, IsKernel(k)
      PROVE  IsKernel([k EXCEPT !.ops = y]) /\ [k EXCEPT !.ops = y].root = k.root
  <2>1. [k EXCEPT !.ops = y] = [root |-> k.root, ops |-> y, reads |-> k.reads, writes |-> k.writes, meta |-> k.meta, terms |-> k.terms, results |-> k.results]
    BY <1>5 DEF IsKernel
  <2> QED BY <2>1 DEF IsKernel
<1>6. ASSUME NEW k, NEW y, IsKernel(k)
      PROVE  IsKernel([k EXCEPT !.meta = y]) /\ [k EXCEPT !.meta = y].root = k.root
  <2>1. [k EXCEPT !.meta = y] = [root |-> k.root, ops |-> k.ops, reads |-> k.reads, writes |-> k.writes, meta |-> y, terms |-> k.terms, results |-> k.results]
    BY <1>6 DEF IsKernel
  <2> QED BY <2>1 DEF IsKernel
<1>7. ASSUME NEW k, NEW y, IsKernel(k)
      PROVE  IsKernel([k EXCEPT !.reads = y]) /\ [k EXCEPT !.reads = y].root = k.root
  <2>1. [k EXCEPT !.reads = y] = [root |-> k.root, ops |-> k.ops, reads |-> y, writes |-> k.writes, meta |-> k.meta, terms |-> k.terms, results |-> k.results]
    BY <1>7 DEF IsKernel
  <2> QED BY <2>1 DEF IsKernel
<1>8. ASSUME NEW k, NEW y, IsKernel(k)
      PROVE  IsKernel([k EXCEPT !.terms = y]) /\ [k EXCEPT !.terms = y].root = k.root
  <2>1. [k EXCEPT !.terms = y] = [root |-> k.root, ops |-> k.ops, reads |-> k.reads, writes |-> k.writes, meta |-> k.meta, terms |-> y, results |-> k.results]
    BY <1>8 DEF IsKernel
  <2> QED BY <2>1 DEF IsKernel
<1> QED BY <1>1, <1>2, <1>3, <1>4, <1>5, <1>6, <1>7, <1>8

\* The tensors of a kernel after each of the changes a lowering makes to it.
LEMMA KernelTensors ==
  ASSUME NEW k, IsKernel(k)
  PROVE  /\ \A t : /\ Load(k, t).writes = k.writes /\ Load(k, t).reads \subseteq k.reads \cup {t}
                   /\ Load(k, t).reads \cup k.writes = k.reads \cup {t} \cup k.writes
                   /\ k.reads \subseteq Load(k, t).reads
         /\ \A t : Store(k, t).writes = k.writes \cup {t} /\ Store(k, t).reads = k.reads
         /\ \A t : StoreInner(k, t).writes = k.writes \cup {t} /\ StoreInner(k, t).reads = k.reads
         /\ \A y : [k EXCEPT !.ops = y].writes = k.writes /\ [k EXCEPT !.ops = y].reads = k.reads
         /\ \A y : [k EXCEPT !.meta = y].writes = k.writes /\ [k EXCEPT !.meta = y].reads = k.reads
<1>1. \A y : [k EXCEPT !.reads = y].writes = k.writes /\ [k EXCEPT !.reads = y].reads = y
  BY DEF IsKernel
<1>2. \A y : [k EXCEPT !.writes = y].writes = y /\ [k EXCEPT !.writes = y].reads = k.reads
  BY DEF IsKernel
<1>3. \A y : [k EXCEPT !.ops = y].writes = k.writes /\ [k EXCEPT !.ops = y].reads = k.reads
  BY DEF IsKernel
<1>4. \A y : [k EXCEPT !.meta = y].writes = k.writes /\ [k EXCEPT !.meta = y].reads = k.reads
  BY DEF IsKernel
<1>5. ASSUME NEW t
      PROVE  /\ Load(k, t).writes = k.writes /\ Load(k, t).reads \subseteq k.reads \cup {t}
             /\ Load(k, t).reads \cup k.writes = k.reads \cup {t} \cup k.writes
             /\ k.reads \subseteq Load(k, t).reads
  <2>1. CASE t \in k.writes
    BY <2>1 DEF Load
  <2>2. CASE t \notin k.writes
    <3>1. Load(k, t) = [k EXCEPT !.reads = k.reads \cup {t}]
      BY <2>2 DEF Load
    <3> QED BY <1>1, <3>1
  <2> QED BY <2>1, <2>2
<1>6. ASSUME NEW t
      PROVE  StoreInner(k, t).writes = k.writes \cup {t} /\ StoreInner(k, t).reads = k.reads
  <2>1. StoreInner(k, t) = [k EXCEPT !.writes = k.writes \cup {t}]
    BY DEF StoreInner
  <2> QED BY <1>2, <2>1
<1>7. ASSUME NEW t PROVE Store(k, t).writes = k.writes \cup {t} /\ Store(k, t).reads = k.reads
  <2>1. IsKernel(StoreInner(k, t))
    BY KernelFacts
  <2> QED BY <1>6, <2>1 DEF Store, IsKernel
<1> QED BY <1>3, <1>4, <1>5, <1>6, <1>7

\* A kernel's operations change only when one is pushed.
LEMMA KernelOps ==
  ASSUME NEW k, IsKernel(k)
  PROVE  /\ \A t : /\ Load(k, t).ops = k.ops /\ Store(k, t).ops = k.ops
                   /\ StoreInner(k, t).ops = k.ops
         /\ \A y : [k EXCEPT !.ops = y].ops = y /\ [k EXCEPT !.meta = y].ops = k.ops
<1>1. \A y : /\ [k EXCEPT !.ops = y].ops = y /\ [k EXCEPT !.meta = y].ops = k.ops
             /\ [k EXCEPT !.reads = y].ops = k.ops /\ [k EXCEPT !.writes = y].ops = k.ops
  BY DEF IsKernel
<1>2. ASSUME NEW t PROVE Load(k, t).ops = k.ops
  <2>1. CASE t \in k.writes
    BY <2>1 DEF Load
  <2>2. CASE t \notin k.writes
    <3>1. Load(k, t) = [k EXCEPT !.reads = k.reads \cup {t}]
      BY <2>2 DEF Load
    <3> QED BY <1>1, <3>1
  <2> QED BY <2>1, <2>2
<1>3. ASSUME NEW t PROVE StoreInner(k, t).ops = k.ops /\ Store(k, t).ops = k.ops
  <2>1. StoreInner(k, t).ops = k.ops
    BY <1>1 DEF StoreInner
  <2>2. IsKernel(StoreInner(k, t))
    BY KernelFacts
  <2> QED BY <2>1, <2>2 DEF Store, IsKernel
<1> QED BY <1>1, <1>2, <1>3

\* What a kernel adds up changes only where it is assigned.
LEMMA KernelTerms ==
  ASSUME NEW k, IsKernel(k)
  PROVE  /\ \A t : /\ Load(k, t).terms = k.terms /\ Store(k, t).terms = k.terms
                   /\ StoreInner(k, t).terms = k.terms
         /\ \A y : /\ [k EXCEPT !.ops = y].terms = k.terms /\ [k EXCEPT !.meta = y].terms = k.terms
                   /\ [k EXCEPT !.reads = y].terms = k.terms /\ [k EXCEPT !.terms = y].terms = y
<1>1. \A y : /\ [k EXCEPT !.ops = y].terms = k.terms /\ [k EXCEPT !.meta = y].terms = k.terms
             /\ [k EXCEPT !.reads = y].terms = k.terms /\ [k EXCEPT !.writes = y].terms = k.terms
             /\ [k EXCEPT !.terms = y].terms = y
  BY DEF IsKernel
<1>2. ASSUME NEW t PROVE Load(k, t).terms = k.terms
  <2>1. CASE t \in k.writes
    BY <2>1 DEF Load
  <2>2. CASE t \notin k.writes
    <3>1. Load(k, t) = [k EXCEPT !.reads = k.reads \cup {t}]
      BY <2>2 DEF Load
    <3> QED BY <1>1, <3>1
  <2> QED BY <2>1, <2>2
<1>3. ASSUME NEW t PROVE StoreInner(k, t).terms = k.terms /\ Store(k, t).terms = k.terms
  <2>1. StoreInner(k, t).terms = k.terms
    BY <1>1 DEF StoreInner
  <2>2. IsKernel(StoreInner(k, t))
    BY KernelFacts
  <2> QED BY <2>1, <2>2 DEF Store, IsKernel
<1> QED BY <1>1, <1>2, <1>3

\* The tensors that get the value of their node are stored one by one.
LEMMA KernelResults ==
  ASSUME NEW k, IsKernel(k)
  PROVE  /\ \A t : /\ Load(k, t).results = k.results /\ StoreInner(k, t).results = k.results
                   /\ Store(k, t).results = k.results \cup {t}
         /\ \A y : [k EXCEPT !.ops = y].results = k.results /\ [k EXCEPT !.meta = y].results = k.results
<1>1. \A y : /\ [k EXCEPT !.ops = y].results = k.results /\ [k EXCEPT !.meta = y].results = k.results
             /\ [k EXCEPT !.reads = y].results = k.results
             /\ [k EXCEPT !.writes = y].results = k.results
  BY DEF IsKernel
<1>2. ASSUME NEW t PROVE Load(k, t).results = k.results
  <2>1. CASE t \in k.writes
    BY <2>1 DEF Load
  <2>2. CASE t \notin k.writes
    <3>1. Load(k, t) = [k EXCEPT !.reads = k.reads \cup {t}]
      BY <2>2 DEF Load
    <3> QED BY <1>1, <3>1
  <2> QED BY <2>1, <2>2
<1>3. ASSUME NEW t
      PROVE  StoreInner(k, t).results = k.results /\ Store(k, t).results = k.results \cup {t}
  <2>1. StoreInner(k, t).results = k.results
    BY <1>1 DEF StoreInner
  <2>2. IsKernel(StoreInner(k, t))
    BY KernelFacts
  <2> QED BY <2>1, <2>2 DEF Store, IsKernel
<1> QED BY <1>1, <1>2, <1>3

LEMMA GraphNodes ==
  ASSUME NEW g, IsGraph(g)
  PROVE  \A n \in Nodes(g) : /\ g[n].op \in OpNames
                             /\ g[n].inputs \in Seq(Nodes(g)) /\ g[n].outputs \in Seq(Nodes(g))
<1> DEFINE R == [op : OpNames, inputs : Seq(Nodes(g)), outputs : Seq(Nodes(g)), shape : Seq(Nat)]
<1>1. \A m \in R : /\ m.op \in OpNames
                   /\ m.inputs \in Seq(Nodes(g)) /\ m.outputs \in Seq(Nodes(g))
  OBVIOUS
<1>2. g \in Seq(R)
  BY DEF IsGraph
<1> HIDE DEF R
<1>3. \A r \in 1 .. Len(g) : g[r] \in R
  BY <1>2
<1> QED BY <1>1, <1>3 DEF Nodes

LEMMA DimsValid ==
  ASSUME NEW g, IsGraph(g), NEW resolved \in Seq(Nodes(g)), NEW n
  PROVE  ~DimsInvalid(g, resolved, n)
<1>1. \A r \in Nodes(g) : g[r].op \in OpNames
  BY GraphNodes
<1>2. Range(resolved) \subseteq Nodes(g)
  <2> HIDE DEF Nodes
  <2> QED BY DEF Range
<1> QED BY <1>1, <1>2, OpFacts DEF DimsInvalid

LEMMA EntryFields ==
  ASSUME NEW e, NEW k, NEW d, e = [kernel |-> k, dep |-> d]
  PROVE  e.kernel = k /\ e.dep = d /\ e = [kernel |-> e.kernel, dep |-> e.dep]
OBVIOUS

\* What a new entry adds to the dependencies of those before it.
LEMMA ForwardListGrows ==
  ASSUME NEW order \in Seq(Nat), NEW root \in Nat
  PROVE  /\ ForwardList(Append(order, root))[Len(order) + 1].dep = {}
         /\ \A i \in 1 .. Len(order) :
              ForwardList(Append(order, root))[i].dep =
                ForwardList(order)[i].dep \cup (IF order[i] > root THEN {root} ELSE {})
<1> DEFINE n == Len(order)
           longer == Append(order, root)
<1>1. n \in Nat /\ DOMAIN order = 1 .. n /\ \A i \in 1 .. n : order[i] \in Nat
  OBVIOUS
<1>2. /\ longer \in Seq(Nat) /\ Len(longer) = n + 1 /\ longer[n + 1] = root
      /\ \A i \in 1 .. n : longer[i] = order[i]
      /\ DOMAIN longer = 1 .. n + 1
  OBVIOUS
<1> HIDE DEF n, longer
<1>3. \A r : r \in Range(longer) <=> \E j \in 1 .. n + 1 : longer[j] = r
  BY <1>2 DEF Range
<1>4. \A r : r \in Range(order) <=> \E j \in 1 .. n : order[j] = r
  BY <1>1 DEF Range
<1>5. \A i \in 1 .. n + 1 :
        ForwardList(longer)[i].dep =
          {r \in Range(longer) : r < longer[i] /\ \E j \in i + 1 .. n + 1 : longer[j] = r}
  BY <1>2 DEF ForwardList
<1>6. \A i \in 1 .. n :
        ForwardList(order)[i].dep =
          {r \in Range(order) : r < order[i] /\ \E j \in i + 1 .. n : order[j] = r}
  BY DEF ForwardList, n
<1>7. ForwardList(longer)[n + 1].dep = {}
  BY <1>1, <1>5
<1>8. ASSUME NEW i \in 1 .. n
      PROVE  ForwardList(longer)[i].dep =
               ForwardList(order)[i].dep \cup (IF order[i] > root THEN {root} ELSE {})
  <2>1. \A r : (\E j \in i + 1 .. n + 1 : longer[j] = r)
               <=> (r = root \/ \E j \in i + 1 .. n : order[j] = r)
    BY <1>1, <1>2
  <2>2. \A r : r \in Range(longer) <=> r = root \/ r \in Range(order)
    BY <1>1, <1>2, <1>3, <1>4
  <2>3. \A r : (\E j \in i + 1 .. n : order[j] = r) => r \in Range(order)
    BY <1>1, <1>4
  <2>4. longer[i] = order[i] /\ order[i] \in Nat
    BY <1>1, <1>2
  <2>5. (root < order[i]) <=> (order[i] > root)
    BY <2>4
  <2>6. \A r : r \in ForwardList(longer)[i].dep
               <=> r \in Range(longer) /\ r < order[i]
                   /\ (r = root \/ \E j \in i + 1 .. n : order[j] = r)
    <3>1. i \in 1 .. n + 1
      BY <1>1
    <3>2. \A r : r \in ForwardList(longer)[i].dep
                 <=> r \in Range(longer) /\ r < longer[i] /\ \E j \in i + 1 .. n + 1 : longer[j] = r
      BY <1>5, <3>1
    <3> QED BY <2>1, <2>4, <3>2
  <2>7. \A r : r \in ForwardList(order)[i].dep
               <=> r \in Range(order) /\ r < order[i] /\ \E j \in i + 1 .. n : order[j] = r
    BY <1>6
  <2> QED BY <2>2, <2>3, <2>5, <2>6, <2>7
<1> QED BY <1>7, <1>8 DEF n, longer

LEMMA BackwardListGrows ==
  ASSUME NEW order \in Seq(Nat), NEW root \in Nat
  PROVE  /\ BackwardList(Append(order, root))[Len(order) + 1].dep = {}
         /\ \A i \in 1 .. Len(order) :
              BackwardList(Append(order, root))[i].dep =
                BackwardList(order)[i].dep \cup (IF order[i] < root THEN {root} ELSE {})
<1> DEFINE n == Len(order)
           longer == Append(order, root)
<1>1. n \in Nat /\ DOMAIN order = 1 .. n /\ \A i \in 1 .. n : order[i] \in Nat
  OBVIOUS
<1>2. /\ longer \in Seq(Nat) /\ Len(longer) = n + 1 /\ longer[n + 1] = root
      /\ \A i \in 1 .. n : longer[i] = order[i]
      /\ DOMAIN longer = 1 .. n + 1
  OBVIOUS
<1> HIDE DEF n, longer
<1>3. \A r : r \in Range(longer) <=> \E j \in 1 .. n + 1 : longer[j] = r
  BY <1>2 DEF Range
<1>4. \A r : r \in Range(order) <=> \E j \in 1 .. n : order[j] = r
  BY <1>1 DEF Range
<1>5. \A i \in 1 .. n + 1 :
        BackwardList(longer)[i].dep =
          {r \in Range(longer) : r > longer[i] /\ \E j \in i + 1 .. n + 1 : longer[j] = r}
  BY <1>2 DEF BackwardList
<1>6. \A i \in 1 .. n :
        BackwardList(order)[i].dep =
          {r \in Range(order) : r > order[i] /\ \E j \in i + 1 .. n : order[j] = r}
  BY DEF BackwardList, n
<1>7. BackwardList(longer)[n + 1].dep = {}
  BY <1>1, <1>5
<1>8. ASSUME NEW i \in 1 .. n
      PROVE  BackwardList(longer)[i].dep =
               BackwardList(order)[i].dep \cup (IF order[i] < root THEN {root} ELSE {})
  <2>1. \A r : (\E j \in i + 1 .. n + 1 : longer[j] = r)
               <=> (r = root \/ \E j \in i + 1 .. n : order[j] = r)
    BY <1>1, <1>2
  <2>2. \A r : r \in Range(longer) <=> r = root \/ r \in Range(order)
    BY <1>1, <1>2, <1>3, <1>4
  <2>3. \A r : (\E j \in i + 1 .. n : order[j] = r) => r \in Range(order)
    BY <1>1, <1>4
  <2>4. longer[i] = order[i] /\ order[i] \in Nat
    BY <1>1, <1>2
  <2>5. (root > order[i]) <=> (order[i] < root)
    BY <2>4
  <2>6. \A r : r \in BackwardList(longer)[i].dep
               <=> r \in Range(longer) /\ r > order[i]
                   /\ (r = root \/ \E j \in i + 1 .. n : order[j] = r)
    <3>1. i \in 1 .. n + 1
      BY <1>1
    <3>2. \A r : r \in BackwardList(longer)[i].dep
                 <=> r \in Range(longer) /\ r > longer[i] /\ \E j \in i + 1 .. n + 1 : longer[j] = r
      BY <1>5, <3>1
    <3> QED BY <2>1, <2>4, <3>2
  <2>7. \A r : r \in BackwardList(order)[i].dep
               <=> r \in Range(order) /\ r > order[i] /\ \E j \in i + 1 .. n : order[j] = r
    BY <1>6
  <2> QED BY <2>2, <2>3, <2>5, <2>6, <2>7
<1> QED BY <1>7, <1>8 DEF n, longer

-----------------------------------------------------------------------------
(* Prepared graphs. *)

\* The operations with operands: one or two of them; eval_node stores their value, or they store
\* another themselves; only matmul fixes the iteration space, and it keeps its own value.
LEMMA ComputeFacts ==
  \A op \in OpNames :
    /\ is_leaf(op) => op \in {"input", "const"} /\ ~Op[op].save_inner /\ ~Op[op].auto_save
    /\ ~is_leaf(op) => Op[op].arity \in {1, 2} /\ (Op[op].auto_save \/ Op[op].save_inner)
                       /\ op \notin {"input", "const"}
    /\ is_transform(op) => op = "matmul" /\ Op[op].auto_save
    /\ Op[op].save = "matmul" => op = "matmul"
    /\ Op["matmul"].save = "matmul" /\ Op["matmul"].arity = 2 /\ Op["input"].save = "none"
<1> DEFINE Fields == {"leaf", "arity", "stable_iter", "auto_save", "save_inner", "save"}
           Fine(o) == /\ Fields \subseteq DOMAIN o
                      /\ o.arity \in {1, 2} /\ ~o.leaf /\ (o.auto_save \/ o.save_inner)
           Stable(o) == Fine(o) /\ o.stable_iter /\ o.save # "matmul"
           Leafy(o) == Fields \subseteq DOMAIN o /\ o.leaf /\ ~o.save_inner /\ ~o.auto_save
                       /\ o.stable_iter /\ o.save = "none"
<1>1. Leafy(Leaf) /\ DOMAIN Leaf = {"leaf", "arity", "need_dims", "stable_iter", "auto_save",
        "computes_gid", "prefer_separate", "valid_dispatch", "save", "grad", "grad_own", "must",
        "save_inner"}
  BY DEF Leaf
<1>2. /\ DOMAIN Elementwise = DOMAIN Leaf
      /\ ~Elementwise.leaf /\ Elementwise.auto_save /\ Elementwise.stable_iter
      /\ Elementwise.save = "none"
  BY <1>1 DEF Elementwise
<1>3. Stable(Binary) /\ Stable(Unary) /\ Binary.arity = 2 /\ Binary.auto_save
  BY <1>1, <1>2 DEF Binary, Unary
<1>4. Stable(add) /\ Stable(sub) /\ Stable(mul) /\ Stable(div)
  BY <1>3 DEF add, sub, mul, div
<1>5. Stable(log) /\ Stable(tanh) /\ Stable(elu) /\ Stable(relu) /\ Stable(exp)
      /\ Stable(abs) /\ Stable(neg) /\ Stable(gelu)
  BY <1>3 DEF log, tanh, elu, relu, exp, abs, neg, gelu
<1>6. Fine(matmul) /\ matmul.save = "matmul" /\ matmul.arity = 2 /\ matmul.auto_save
  BY <1>3 DEF matmul
<1>7. /\ OpNames = {"input", "const", "add", "sub", "mul", "div", "log", "tanh", "elu", "relu",
                    "exp", "abs", "neg", "gelu", "matmul"}
      /\ Op["matmul"] = matmul /\ Op["input"] = Leaf /\ Op["const"] = Leaf
  BY DEF OpNames, Op
<1>8. \A op \in OpNames \ {"input", "const", "matmul"} : Stable(Op[op])
  <2> HIDE DEF Stable
  <2> QED BY <1>4, <1>5 DEF OpNames, Op
<1> QED BY <1>1, <1>6, <1>7, <1>8 DEF is_leaf, is_transform

LEMMA GraphShapes ==
  ASSUME NEW g, IsGraph(g), NEW n \in Nodes(g)
  PROVE  g[n].shape \in Seq(Nat)
<1> DEFINE R == [op : OpNames, inputs : Seq(Nodes(g)), outputs : Seq(Nodes(g)), shape : Seq(Nat)]
<1>1. \A m \in R : m.shape \in Seq(Nat)
  OBVIOUS
<1>2. g \in Seq(R)
  BY DEF IsGraph
<1> HIDE DEF R
<1> QED BY <1>1, <1>2 DEF Nodes

\* How many elements of a sequence are x.
LEMMA Occurrences ==
  ASSUME NEW S, NEW s \in Seq(S), NEW x
  PROVE  /\ IsFiniteSet({k \in DOMAIN s : s[k] = x})
         /\ Cardinality({k \in DOMAIN s : s[k] = x}) \in Nat
         /\ Cardinality({k \in DOMAIN s : s[k] = x}) = 0 <=> x \notin Range(s)
<1> DEFINE K == {k \in DOMAIN s : s[k] = x}
<1>1. Len(s) \in Nat /\ DOMAIN s = 1 .. Len(s)
  OBVIOUS
<1>2. IsFiniteSet(K)
  <2>1. IsFiniteSet(1 .. Len(s)) /\ K \in SUBSET (1 .. Len(s))
    BY <1>1, FS_Interval
  <2> HIDE DEF K
  <2> QED BY <2>1, FS_Subset
<1>3. K = {} <=> x \notin Range(s)
  BY DEF Range
<1> HIDE DEF K
<1>4. Cardinality(K) \in Nat /\ (Cardinality(K) = 0 <=> K = {})
  BY <1>2, FS_CardinalityType, FS_EmptySet
<1> QED BY <1>2, <1>3, <1>4 DEF K

\* The edges of a prepared graph, read from either end.
LEMMA EdgeFacts ==
  ASSUME NEW g, IsGraph(g), OutputsMatchInputs(g), NEW m \in Nodes(g)
  PROVE  /\ \A u \in Nodes(g) : u \in Range(g[m].outputs) <=> m \in Range(g[u].inputs)
         /\ IsSink(g, m) <=> \A u \in Nodes(g) : m \notin Range(g[u].inputs)
<1>1. ASSUME NEW u \in Nodes(g) PROVE u \in Range(g[m].outputs) <=> m \in Range(g[u].inputs)
  <2>1. g[m].outputs \in Seq(Nodes(g)) /\ g[u].inputs \in Seq(Nodes(g))
    BY GraphNodes
  <2>2. Cardinality({k \in DOMAIN g[m].outputs : g[m].outputs[k] = u}) =
        Cardinality({p \in DOMAIN g[u].inputs : g[u].inputs[p] = m})
    BY DEF OutputsMatchInputs
  <2> DEFINE users == g[m].outputs
             operands == g[u].inputs
  <2>3. users \in Seq(Nodes(g)) /\ operands \in Seq(Nodes(g))
    BY <2>1
  <2> HIDE DEF users, operands
  <2>4. Cardinality({k \in DOMAIN users : users[k] = u}) = 0 <=> u \notin Range(users)
    BY <2>3, Occurrences
  <2>5. Cardinality({p \in DOMAIN operands : operands[p] = m}) = 0 <=> m \notin Range(operands)
    BY <2>3, Occurrences
  <2> QED BY <2>2, <2>4, <2>5 DEF users, operands
<1>2. g[m].outputs \in Seq(Nodes(g))
  BY GraphNodes
<1>3. Range(g[m].outputs) \subseteq Nodes(g)
  <2> HIDE DEF Nodes
  <2> QED BY <1>2 DEF Range
<1>4. g[m].outputs = << >> <=> Range(g[m].outputs) = {}
  BY <1>2, EmptyRange
<1> QED BY <1>1, <1>3, <1>4 DEF IsSink

\* A node with one user at most is one operand of it, of that one only.
LEMMA OneUse ==
  ASSUME NEW g, IsGraph(g), OutputsMatchInputs(g), NEW m \in Nodes(g), Len(g[m].outputs) <= 1
  PROVE  /\ \A u, w \in Nodes(g) :
              m \in Range(g[u].inputs) /\ m \in Range(g[w].inputs) => u = w
         /\ \A u \in Nodes(g) : \A p, q \in DOMAIN g[u].inputs :
              g[u].inputs[p] = m /\ g[u].inputs[q] = m => p = q
<1>1. \A u \in Nodes(g) : m \in Range(g[u].inputs) => g[m].outputs = << u >>
  <2> SUFFICES ASSUME NEW u \in Nodes(g), m \in Range(g[u].inputs)
               PROVE  g[m].outputs = << u >>
    OBVIOUS
  <2>1. g[m].outputs \in Seq(Nodes(g)) /\ u \in Range(g[m].outputs)
    BY EdgeFacts, GraphNodes
  <2> DEFINE users == g[m].outputs
  <2>2. users \in Seq(Nodes(g)) /\ u \in Range(users) /\ Len(users) <= 1
    BY <2>1
  <2> HIDE DEF users
  <2>3. Len(users) = 1 /\ users[1] = u
    <3>1. PICK k \in DOMAIN users : users[k] = u
      BY <2>2 DEF Range
    <3>2. Len(users) \in Nat /\ DOMAIN users = 1 .. Len(users)
      BY <2>2
    <3> QED BY <2>2, <3>1, <3>2
  <2>4. users = << u >>
    BY <2>2, <2>3
  <2> QED BY <2>4 DEF users
<1>2. ASSUME NEW u \in Nodes(g), NEW p \in DOMAIN g[u].inputs, NEW q \in DOMAIN g[u].inputs,
             g[u].inputs[p] = m, g[u].inputs[q] = m
      PROVE  p = q
  <2> DEFINE P == {k \in DOMAIN g[u].inputs : g[u].inputs[k] = m}
             K == {k \in DOMAIN g[m].outputs : g[m].outputs[k] = u}
  <2>1. m \in Range(g[u].inputs)
    BY <1>2 DEF Range
  <2>2. g[m].outputs = << u >>
    BY <1>1, <2>1
  <2>3. K = {1}
    BY <2>2
  <2>4. Cardinality(P) = Cardinality(K)
    BY DEF OutputsMatchInputs
  <2>5. IsFiniteSet(P)
    <3>1. g[u].inputs \in Seq(Nodes(g))
      BY GraphNodes
    <3> QED BY <3>1, Occurrences
  <2>6. p \in P /\ q \in P
    BY <1>2
  <2> HIDE DEF P, K
  <2>7. \E x : P = {x}
    BY <2>3, <2>4, <2>5, FS_Singleton
  <2> QED BY <2>6, <2>7
<1>3. ASSUME NEW u \in Nodes(g), NEW w \in Nodes(g), g[m].outputs = << u >>, g[m].outputs = << w >>
      PROVE  u = w
  <2>1. << u >>[1] = << w >>[1]
    BY <1>3
  <2> QED BY <2>1
<1> QED BY <1>1, <1>2, <1>3

\* What makes a graph prepared, node by node.
LEMMA PreparedFacts ==
  ASSUME NEW g, Prepared(g), NEW n \in Nodes(g)
  PROVE  /\ n \in Nat /\ n # 0 /\ g[n].op \in OpNames /\ g[n].inputs \in Seq(Nodes(g))
         /\ is_leaf(g[n].op) <=> g[n].inputs = << >>
         /\ g[n].shape = << >> => is_leaf(g[n].op)
         /\ g[n].op = "const" => g[n].shape = << >>
         /\ \A m \in Range(g[n].inputs) : m \in Nodes(g) /\ m < n /\ ~IsSink(g, m)
         /\ ~IsSink(g, n) => \E u \in Nodes(g) : n < u /\ n \in Range(g[u].inputs)
                                               /\ ~is_leaf(g[u].op)
<1>1. IsGraph(g) /\ Len(g) \in Nat
  BY DEF Prepared, IsGraph
<1>2. \A m \in Nodes(g) : m \in Nat /\ m # 0 /\ g[m].op \in OpNames /\ g[m].inputs \in Seq(Nodes(g))
  <2>1. Nodes(g) \subseteq Nat /\ 0 \notin Nodes(g)
    BY <1>1 DEF Nodes
  <2> QED BY <1>1, <2>1, GraphNodes
<1>3. ASSUME NEW m \in Nodes(g)
      PROVE  /\ is_leaf(g[m].op) <=> g[m].inputs = << >>
             /\ g[m].shape = << >> => is_leaf(g[m].op)
  <2>1. ValidNode(g, m)
    BY DEF Prepared, Valid
  <2>2. ~is_leaf(g[m].op) => g[m].inputs # << >> /\ Len(g[m].shape) >= 2
    <3>1. ~is_leaf(g[m].op) => Len(g[m].inputs) \in {1, 2} /\ Len(g[m].shape) >= 2
      BY <1>2, <2>1, ComputeFacts DEF ValidNode
    <3>2. Len(<< >>) = 0
      OBVIOUS
    <3> QED BY <3>1, <3>2
  <2>3. ~is_leaf(g[m].op) => g[m].shape # << >>
    <3>1. Len(<< >>) = 0 /\ ~(0 >= 2)
      OBVIOUS
    <3> QED BY <2>2, <3>1
  <2>4. is_leaf(g[m].op) => g[m].inputs = << >>
    BY <2>1 DEF ValidNode
  <2> QED BY <2>2, <2>3, <2>4
<1>4. ASSUME NEW u \in Nodes(g), NEW m \in Range(g[u].inputs)
      PROVE  m \in Nodes(g) /\ m < u /\ ~IsSink(g, m)
  <2>1. PICK p \in DOMAIN g[u].inputs : g[u].inputs[p] = m
    BY DEF Range
  <2>2. m \in Nodes(g)
    <3> HIDE DEF Nodes
    <3> QED BY <1>2, <2>1
  <2>3. m < u
    BY <2>1 DEF Prepared, TopologicallyOrdered
  <2> QED BY <1>1, <1>4, <2>2, <2>3, EdgeFacts DEF Prepared
<1>5. ASSUME ~IsSink(g, n)
      PROVE  \E u \in Nodes(g) : n < u /\ n \in Range(g[u].inputs) /\ ~is_leaf(g[u].op)
  <2>1. PICK u \in Nodes(g) : n \in Range(g[u].inputs)
    BY <1>1, <1>5, EdgeFacts DEF Prepared
  <2>2. g[u].inputs # << >>
    <3>1. Range(<< >>) = {}
      BY DEF Range
    <3> QED BY <2>1, <3>1
  <2> QED BY <1>3, <1>4, <2>1, <2>2
<1> QED BY <1>2, <1>3, <1>4, <1>5 DEF Prepared

\* What the derivatives read: operands the operation has, or, but for matmul, its own value; the
\* operations that must find all of it are matmul and those with one operand, which read none.
LEMMA GradFacts ==
  /\ \A op \in OpNames : \A e \in 1 .. Op[op].arity : Op[op].grad[e] \subseteq 1 .. Op[op].arity
  /\ \A op \in OpNames : Op[op].grad_own \in BOOLEAN
  /\ ~Op["matmul"].grad_own
  /\ \A op \in OpNames \ {"matmul"} : Op[op].must => Op[op].arity = 1 /\ Op[op].grad[1] = {}
<1> DEFINE Fields == {"arity", "grad", "grad_own", "must"}
           Fine(o) == /\ Fields \subseteq DOMAIN o /\ o.grad_own \in BOOLEAN
                      /\ \A e \in 1 .. o.arity : o.grad[e] \subseteq 1 .. o.arity
           One(o) == Fields \subseteq DOMAIN o /\ o.grad_own \in BOOLEAN
                     /\ o.arity = 1 /\ o.grad = << {} >>
           Two(o) == /\ Fields \subseteq DOMAIN o /\ o.grad_own = FALSE /\ o.arity = 2
                     /\ \E a, b \in SUBSET {1, 2} : o.grad = << a, b >>
           None(o) == Fields \subseteq DOMAIN o /\ o.grad_own = FALSE /\ o.arity = 0 /\ o.must = FALSE
<1>1. None(Leaf) /\ DOMAIN Leaf = {"leaf", "arity", "need_dims", "stable_iter", "auto_save",
        "computes_gid", "prefer_separate", "valid_dispatch", "save", "grad", "grad_own", "must",
        "save_inner"}
  BY DEF Leaf
<1>2. DOMAIN Elementwise = DOMAIN Leaf /\ Elementwise.grad_own = FALSE /\ Elementwise.must = FALSE
  BY <1>1 DEF Elementwise
<1>3. One(Unary) /\ DOMAIN Unary = DOMAIN Leaf
  BY <1>1, <1>2 DEF Unary
<1>4. /\ DOMAIN Binary = DOMAIN Leaf /\ Binary.grad_own = FALSE /\ Binary.must = FALSE
      /\ Binary.arity = 2 /\ Binary.grad = << {}, {} >>
  BY <1>1, <1>2 DEF Binary
<1>5. Two(add) /\ Two(sub) /\ ~add.must /\ ~sub.must
  BY <1>1, <1>4 DEF add, sub
<1>6. Two(mul) /\ Two(div) /\ ~mul.must /\ ~div.must
  <2>1. mul.grad = << {2}, {1} >> /\ div.grad = << {2}, {1, 2} >>
    BY <1>1, <1>4 DEF mul, div
  <2> QED BY <1>1, <1>4, <2>1 DEF mul, div
<1>7. Two(matmul)
  <2>1. matmul.grad = << {2}, {1} >>
    BY <1>1, <1>4 DEF matmul
  <2> QED BY <1>1, <1>4, <2>1 DEF matmul
<1>8. One(log) /\ One(tanh) /\ One(elu) /\ One(relu) /\ One(exp) /\ One(abs) /\ One(neg) /\ One(gelu)
  BY <1>1, <1>3 DEF log, tanh, elu, relu, exp, abs, neg, gelu
<1>9. \A o : One(o) => Fine(o) /\ o.arity = 1 /\ o.grad[1] = {}
  OBVIOUS
<1>10. \A o : Two(o) => Fine(o)
  <2> SUFFICES ASSUME NEW o, Two(o) PROVE Fine(o)
    OBVIOUS
  <2>1. PICK a \in SUBSET {1, 2}, b \in SUBSET {1, 2} : o.grad = << a, b >>
    OBVIOUS
  <2>2. 1 .. o.arity = {1, 2} /\ o.grad[1] = a /\ o.grad[2] = b
    BY <2>1
  <2> QED BY <2>1, <2>2
<1>11. \A o : None(o) => Fine(o)
  <2>1. 1 .. 0 = {}
    OBVIOUS
  <2> QED BY <2>1
<1>12. /\ OpNames = {"input", "const", "add", "sub", "mul", "div", "log", "tanh", "elu", "relu",
                     "exp", "abs", "neg", "gelu", "matmul"}
       /\ Op["matmul"] = matmul /\ Op["input"] = Leaf /\ Op["const"] = Leaf
       /\ Op["add"] = add /\ Op["sub"] = sub /\ Op["mul"] = mul /\ Op["div"] = div
       /\ Op["log"] = log /\ Op["tanh"] = tanh /\ Op["elu"] = elu /\ Op["relu"] = relu
       /\ Op["exp"] = exp /\ Op["abs"] = abs /\ Op["neg"] = neg /\ Op["gelu"] = gelu
  BY DEF OpNames, Op
<1>13. /\ \A op \in OpNames : Fine(Op[op])
       /\ \A op \in OpNames \ {"matmul"} : ~Op[op].must \/ One(Op[op])
  <2>1. None(Leaf) /\ Leaf.must = FALSE
    BY <1>1
  <2> HIDE DEF Fine, One, Two, None
  <2> QED BY <1>5, <1>6, <1>7, <1>8, <1>9, <1>10, <1>11, <1>12, <2>1
<1>14. ~matmul.grad_own
  BY <1>7
<1> HIDE DEF One
<1> QED BY <1>9, <1>12, <1>13, <1>14

\* What a prepared graph keeps: the values and gradients of its products, the gradients of its
\* inputs, and values that some node takes as an operand.
LEMMA SavedFacts ==
  ASSUME NEW g, Prepared(g), NEW n \in Nodes(g)
  PROVE  LET saved == compute_saved_nodes(g) IN
         /\ is_transform(g[n].op) => is_defined_in_forward(saved, n) /\ is_defined_in_backward(saved, n)
         /\ g[n].op = "input" => is_defined_in_backward(saved, n)
         /\ is_defined_in_forward(saved, n) =>
              g[n].op = "matmul" \/ \E u \in Nodes(g) : n \in Range(g[u].inputs)
         /\ \A u \in Nodes(g) :
              is_transform(g[u].op) /\ n \in Range(g[u].inputs) /\ g[n].inputs # << >> =>
                is_defined_in_forward(saved, n)
<1> DEFINE saved == compute_saved_nodes(g)
<1>0. \A u \in Nodes(g) : g[u].op \in OpNames /\ (is_transform(g[u].op) => g[u].op = "matmul")
  BY PreparedFacts, ComputeFacts
<1>1. \A f : f \in saved[n] <=> \E u \in Nodes(g) : f \in SaveRequest(g, u, n)
  BY DEF compute_saved_nodes
<1>2. Op["matmul"].save = "matmul" /\ Op["input"].save = "none"
  BY <1>0, ComputeFacts
<1>3. \A u \in Nodes(g) :
        g[u].op = "matmul" /\ n \in Range(g[u].inputs) /\ g[n].inputs # << >> =>
          "DEFINED_IN_FORWARD" \in SaveRequest(g, u, n)
  BY <1>2 DEF SaveRequest, Range
<1>4. g[n].op = "matmul" =>
        {"DEFINED_IN_FORWARD", "DEFINED_IN_BACKWARD"} \subseteq SaveRequest(g, n, n)
  BY <1>2 DEF SaveRequest
<1>5. g[n].op = "input" => "DEFINED_IN_BACKWARD" \in SaveRequest(g, n, n)
  BY <1>2 DEF SaveRequest
<1>6. \A u \in Nodes(g) : "DEFINED_IN_FORWARD" \in SaveRequest(g, u, n) =>
        (u = n /\ Op[g[n].op].save = "matmul" /\ g[n].op # "input") \/ n \in Range(g[u].inputs)
  <2> SUFFICES ASSUME NEW u \in Nodes(g), "DEFINED_IN_FORWARD" \in SaveRequest(g, u, n)
               PROVE  (u = n /\ Op[g[n].op].save = "matmul" /\ g[n].op # "input")
                        \/ n \in Range(g[u].inputs)
    OBVIOUS
  <2> DEFINE kept == \E p \in DOMAIN g[u].inputs : g[u].inputs[p] = n /\ g[n].inputs # << >>
             save == Op[g[u].op].save
  <2>1. CASE g[u].op = "input"
    <3>1. SaveRequest(g, u, n) = IF n = u THEN {"DEFINED_IN_BACKWARD", "USED_BY_BACKWARD"} ELSE {}
      BY <1>2, <2>1 DEF SaveRequest
    <3> QED BY <3>1
  <2>2. CASE g[u].op # "input" /\ save = "operands"
    <3>1. SaveRequest(g, u, n) = IF kept THEN {"DEFINED_IN_FORWARD", "USED_BY_BACKWARD"} ELSE {}
      BY <2>2 DEF SaveRequest
    <3> QED BY <3>1 DEF Range
  <2>3. CASE g[u].op # "input" /\ save = "matmul"
    <3>1. SaveRequest(g, u, n) =
            (IF n = u THEN {"DEFINED_IN_FORWARD", "USED_BY_FORWARD",
                            "DEFINED_IN_BACKWARD", "USED_BY_BACKWARD"} ELSE {})
              \cup (IF kept THEN {"DEFINED_IN_FORWARD", "USED_BY_FORWARD"} ELSE {})
      BY <2>3 DEF SaveRequest
    <3> QED BY <2>3, <3>1 DEF Range
  <2>4. CASE g[u].op # "input" /\ save # "operands" /\ save # "matmul"
    <3>1. SaveRequest(g, u, n) = {}
      BY <2>4 DEF SaveRequest
    <3> QED BY <3>1
  <2> QED BY <2>1, <2>2, <2>3, <2>4
<1>7. \A op \in OpNames : Op[op].save = "matmul" => op = "matmul"
  BY ComputeFacts
<1> QED BY <1>0, <1>1, <1>3, <1>4, <1>5, <1>6, <1>7 DEF is_defined_in_forward, is_defined_in_backward

-----------------------------------------------------------------------------
(* Elimination. *)

TwinsOf(f, chain, i) ==
  {j \in 1 .. i - 1 : f[j] = Unmasked /\ SameKernel(chain[j].kernel, chain[i].kernel)}

RedirectOf(f, chain, i) ==
  IF i = 0 \/ TwinsOf(f, chain, i) = {} THEN Unmasked
  ELSE CHOOSE j \in TwinsOf(f, chain, i) : \A h \in TwinsOf(f, chain, i) : h <= j

Redirects(f, chain) == f = [i \in 0 .. Len(chain) |-> RedirectOf(f, chain, i)]

\* What an entry is redirected to depends on the entries before it only.
LEMMA RedirectLooksBack ==
  ASSUME NEW f, NEW g, NEW chain, NEW i \in Nat, \A j \in 1 .. i - 1 : f[j] = g[j]
  PROVE  RedirectOf(f, chain, i) = RedirectOf(g, chain, i)
<1>1. TwinsOf(f, chain, i) = TwinsOf(g, chain, i)
  BY DEF TwinsOf
<1> QED BY <1>1 DEF RedirectOf

LEMMA RedirectsExist ==
  ASSUME NEW chain, Len(chain) \in Nat
  PROVE  \E f : Redirects(f, chain)
<1> DEFINE Partial(n) == \E f : f = [i \in 0 .. n |-> RedirectOf(f, chain, i)]
           S == {n \in Nat : Partial(n)}
<1>1. 0 \in S
  <2> DEFINE f == [i \in 0 .. 0 |-> Unmasked]
  <2>1. \A i \in 0 .. 0 : RedirectOf(f, chain, i) = Unmasked
    BY DEF RedirectOf
  <2>2. f = [i \in 0 .. 0 |-> RedirectOf(f, chain, i)]
    BY <2>1
  <2> QED BY <2>2
<1>2. ASSUME NEW n \in S PROVE n + 1 \in S
  <2>1. PICK f : f = [i \in 0 .. n |-> RedirectOf(f, chain, i)]
    BY <1>2
  <2> DEFINE g == [i \in 0 .. n + 1 |-> IF i = n + 1 THEN RedirectOf(f, chain, n + 1) ELSE f[i]]
  <2>2. n \in Nat
    BY <1>2
  <2>3. \A j \in 0 .. n : g[j] = f[j]
    BY <2>2
  <2>4. ASSUME NEW i \in 0 .. n + 1 PROVE g[i] = RedirectOf(g, chain, i)
    <3>1. \A j \in 1 .. i - 1 : f[j] = g[j]
      BY <2>2, <2>3
    <3>2. RedirectOf(f, chain, i) = RedirectOf(g, chain, i)
      <4> HIDE DEF g
      <4> QED BY <3>1, RedirectLooksBack
    <3>3. CASE i = n + 1
      BY <3>2, <3>3
    <3>4. CASE i # n + 1
      <4>1. i \in 0 .. n
        BY <2>2, <3>4
      <4> QED BY <2>1, <2>3, <3>2, <4>1
    <3> QED BY <3>3, <3>4
  <2>5. g = [i \in 0 .. n + 1 |-> g[i]]
    OBVIOUS
  <2>6. Partial(n + 1)
    <3> HIDE DEF g
    <3>1. g = [i \in 0 .. n + 1 |-> RedirectOf(g, chain, i)]
      BY <2>4, <2>5
    <3> QED BY <3>1
  <2> HIDE DEF Partial, g
  <2> QED BY <2>2, <2>6
<1>3. S = Nat
  <2> HIDE DEF Partial
  <2> QED BY <1>1, <1>2, SetInduction
<1> QED BY <1>3 DEF Redirects

\* An eliminated entry is redirected to an earlier one that is not, and that has the same kernel.
LEMMA EliminateFacts ==
  ASSUME NEW chain, Len(chain) \in Nat, DOMAIN chain = 1 .. Len(chain)
  PROVE  LET ks == eliminate_kernels(chain) IN
         /\ ks = [i \in 1 .. Len(chain) |->
                    [root |-> chain[i].kernel.root, dep |-> chain[i].dep,
                     redirect |-> ks[i].redirect]]
         /\ \A i \in 1 .. Len(chain) :
              \/ ks[i].redirect = Unmasked
              \/ /\ ks[i].redirect \in 1 .. i - 1
                 /\ ks[ks[i].redirect].redirect = Unmasked
                 /\ SameKernel(chain[ks[i].redirect].kernel, chain[i].kernel)
<1> DEFINE f == CHOOSE g : Redirects(g, chain)
           n == Len(chain)
           ks == eliminate_kernels(chain)
<1>1. Redirects(f, chain)
  BY RedirectsExist
<1>2. ks = [i \in DOMAIN chain |->
              [root |-> chain[i].kernel.root, dep |-> chain[i].dep, redirect |-> f[i]]]
  BY DEF eliminate_kernels, Redirects, RedirectOf, TwinsOf
<1> HIDE DEF f, ks
<1>3. \A i \in 1 .. n : ks[i].redirect = f[i]
  BY <1>2
<1>4. ASSUME NEW i \in 1 .. n
      PROVE  \/ f[i] = Unmasked
             \/ f[i] \in 1 .. i - 1 /\ f[f[i]] = Unmasked
                /\ SameKernel(chain[f[i]].kernel, chain[i].kernel)
  <2> DEFINE twins == TwinsOf(f, chain, i)
  <2>1. f[i] = RedirectOf(f, chain, i) /\ i # 0
    BY <1>1 DEF Redirects
  <2>2. twins \in SUBSET (1 .. i - 1) /\ i - 1 \in Nat
    BY DEF TwinsOf
  <2>3. twins # {} => \E j \in twins : \A h \in twins : h <= j
    <3> HIDE DEF twins
    <3> QED BY <2>2, LargestExists
  <2>4. f[i] = Unmasked \/ f[i] \in twins
    <3>1. f[i] = IF twins = {} THEN Unmasked ELSE CHOOSE j \in twins : \A h \in twins : h <= j
      BY <2>1 DEF RedirectOf
    <3> HIDE DEF twins
    <3> QED BY <2>3, <3>1
  <2> QED BY <2>4 DEF TwinsOf
<1>5. \A i \in 1 .. n : f[i] \in 1 .. i - 1 => f[i] \in 1 .. n
  OBVIOUS
<1> QED BY <1>2, <1>3, <1>4, <1>5 DEF ks

-----------------------------------------------------------------------------
(* Sequences put together. *)

Flattening(f, ss, n) == f = [i \in 1 .. n |-> IF i = 1 THEN ss[i] ELSE f[i - 1] \o ss[i]]

LEMMA FlatteningExists ==
  ASSUME NEW ss, NEW m \in Nat
  PROVE  \E f : Flattening(f, ss, m)
<1> DEFINE S == {n \in Nat : \E f : Flattening(f, ss, n)}
<1>1. 0 \in S
  <2> DEFINE f == [i \in 1 .. 0 |-> 0]
  <2>1. Flattening(f, ss, 0)
    BY DEF Flattening
  <2> HIDE DEF f
  <2> QED BY <2>1
<1>2. ASSUME NEW n \in S PROVE n + 1 \in S
  <2>1. n \in Nat
    BY <1>2
  <2>2. PICK f : Flattening(f, ss, n)
    BY <1>2
  <2> DEFINE next == IF n + 1 = 1 THEN ss[n + 1] ELSE f[n] \o ss[n + 1]
             h == [i \in 1 .. n + 1 |-> IF i = n + 1 THEN next ELSE f[i]]
  <2>3. ASSUME NEW i \in 1 .. n + 1
        PROVE  h[i] = IF i = 1 THEN ss[i] ELSE h[i - 1] \o ss[i]
    <3>1. CASE i = n + 1
      <4>1. h[i] = next /\ (i # 1 => i - 1 \in 1 .. n /\ i - 1 = n /\ h[i - 1] = f[n])
        BY <2>1, <3>1
      <4> QED BY <3>1, <4>1
    <3>2. CASE i # n + 1
      <4>1. i \in 1 .. n /\ h[i] = f[i]
        BY <2>1, <3>2
      <4>2. i # 1 => h[i - 1] = f[i - 1]
        BY <2>1, <4>1
      <4>3. f[i] = IF i = 1 THEN ss[i] ELSE f[i - 1] \o ss[i]
        BY <2>2, <4>1 DEF Flattening
      <4> HIDE DEF h
      <4> QED BY <4>1, <4>2, <4>3
    <3> QED BY <3>1, <3>2
  <2>4. h = [i \in 1 .. n + 1 |-> h[i]]
    OBVIOUS
  <2>5. Flattening(h, ss, n + 1)
    <3> HIDE DEF h
    <3> QED BY <2>3, <2>4 DEF Flattening
  <2> HIDE DEF h
  <2> QED BY <2>1, <2>5
<1>3. S = Nat
  <2> HIDE DEF S
  <2>1. S \in SUBSET Nat
    BY DEF S
  <2> QED BY <1>1, <1>2, <2>1, SetInduction
<1> QED BY <1>3

\* What FlattenSeq returns is the last of the sequences put together so far.
LEMMA FlattenSteps ==
  ASSUME NEW S, NEW ss \in Seq(Seq(S)), ss # << >>
  PROVE  \E f \in [1 .. Len(ss) -> Seq(S)] :
           /\ FlattenSeq(ss) = f[Len(ss)]
           /\ f[1] = ss[1]
           /\ \A i \in 1 .. Len(ss) - 1 : f[i + 1] = f[i] \o ss[i + 1]
<1> DEFINE n == Len(ss)
           f == CHOOSE h : Flattening(h, ss, n)
<1>1. n \in Nat /\ n # 0 /\ \A i \in 1 .. n : ss[i] \in Seq(S)
  BY EmptySeq
<1>2. Flattening(f, ss, n)
  <2>1. \E h : Flattening(h, ss, n)
    <3> HIDE DEF n
    <3> QED BY <1>1, FlatteningExists
  <2> QED BY <2>1
<1>3. FlattenSeq(ss) = f[n]
  BY <1>1 DEF FlattenSeq, Flattening
<1> HIDE DEF f, n
<1>4. \A i \in 1 .. n : f[i] = IF i = 1 THEN ss[i] ELSE f[i - 1] \o ss[i]
  BY <1>2 DEF Flattening
<1>5. f[1] = ss[1] /\ \A i \in 1 .. n - 1 : f[i + 1] = f[i] \o ss[i + 1]
  <2>1. 1 \in 1 .. n
    BY <1>1
  <2>2. \A i \in 1 .. n - 1 : i + 1 \in 1 .. n /\ i + 1 # 1 /\ (i + 1) - 1 = i
    BY <1>1
  <2> QED BY <1>4, <2>1, <2>2
<1>6. \A i \in 1 .. n : f[i] \in Seq(S)
  <2> DEFINE T == {i \in Nat : i \in 1 .. n => f[i] \in Seq(S)}
  <2>1. 0 \in T
    OBVIOUS
  <2>2. ASSUME NEW i \in T PROVE i + 1 \in T
    <3>1. CASE i = 0
      <4>1. f[1] \in Seq(S) /\ i + 1 = 1
        BY <1>1, <1>5, <3>1
      <4> QED BY <4>1
    <3>2. CASE i # 0 /\ i + 1 \in 1 .. n
      <4>1. i \in 1 .. n - 1 /\ i \in 1 .. n /\ f[i] \in Seq(S)
        BY <1>1, <2>2, <3>2
      <4>2. ss[i + 1] \in Seq(S)
        BY <1>1, <3>2
      <4>3. f[i + 1] \in Seq(S)
        <5> DEFINE a == f[i]
                   b == ss[i + 1]
        <5>1. a \in Seq(S) /\ b \in Seq(S)
          BY <4>1, <4>2
        <5> HIDE DEF a, b
        <5>2. a \o b \in Seq(S)
          BY <5>1
        <5> QED BY <1>5, <4>1, <5>2 DEF a, b
      <4> QED BY <2>2, <4>3
    <3>3. CASE i # 0 /\ i + 1 \notin 1 .. n
      BY <2>2, <3>3
    <3> QED BY <3>1, <3>2, <3>3
  <2>3. T = Nat
    <3> HIDE DEF T
    <3>1. T \in SUBSET Nat
      BY DEF T
    <3> QED BY <2>1, <2>2, <3>1, SetInduction
  <2> QED BY <1>1, <2>3
<1>7. f \in [1 .. n -> Seq(S)]
  BY <1>2, <1>6 DEF Flattening
<1> QED BY <1>3, <1>5, <1>7 DEF n

\* The sequences put together have the elements of all of them.
LEMMA FlattenRange ==
  ASSUME NEW S, NEW ss \in Seq(Seq(S)), ss # << >>
  PROVE  /\ FlattenSeq(ss) \in Seq(S)
         /\ \A x : x \in Range(FlattenSeq(ss)) <=> \E i \in 1 .. Len(ss) : x \in Range(ss[i])
<1> DEFINE n == Len(ss)
<1>1. n \in Nat /\ n # 0 /\ \A i \in 1 .. n : ss[i] \in Seq(S)
  BY EmptySeq
<1>2. PICK f \in [1 .. n -> Seq(S)] :
        /\ FlattenSeq(ss) = f[n] /\ f[1] = ss[1]
        /\ \A i \in 1 .. n - 1 : f[i + 1] = f[i] \o ss[i + 1]
  BY FlattenSteps
<1> HIDE DEF n
<1> DEFINE Upto(i) == \A x : x \in Range(f[i]) <=> \E j \in 1 .. i : x \in Range(ss[j])
           T == {i \in Nat : i + 1 \in 1 .. n => Upto(i + 1)}
<1>3. 0 \in T
  <2>1. \A j \in 1 .. 1 : j = 1
    OBVIOUS
  <2> QED BY <1>2, <2>1
<1>4. ASSUME NEW k \in T PROVE k + 1 \in T
  <2>1. CASE (k + 1) + 1 \in 1 .. n
    <3> DEFINE i == k + 1
               j == i + 1
               a == f[i]
               b == ss[j]
    <3>1. k \in Nat /\ i \in Nat /\ i \in 1 .. n /\ i \in 1 .. n - 1 /\ j \in 1 .. n
      BY <1>1, <2>1
    <3>2. Upto(i)
      BY <1>4, <3>1
    <3>3. a \in Seq(S) /\ b \in Seq(S) /\ f[j] = a \o b
      BY <1>1, <1>2, <3>1
    <3>4. \A h : h \in 1 .. j <=> h \in 1 .. i \/ h = j
      BY <3>1
    <3> HIDE DEF i, j
    <3>5. Range(a \o b) = Range(a) \cup Range(b)
      <4> HIDE DEF a, b
      <4> QED BY <3>3, RangeConcat
    <3>6. Upto(j)
      BY <3>2, <3>3, <3>4, <3>5
    <3> QED BY <3>1, <3>6 DEF i, j
  <2>2. CASE (k + 1) + 1 \notin 1 .. n
    BY <1>4, <2>2
  <2> QED BY <2>1, <2>2
<1>5. T = Nat
  <2> HIDE DEF Upto
  <2>1. T \in SUBSET Nat
    OBVIOUS
  <2> HIDE DEF T
  <2> QED BY <1>3, <1>4, <2>1, SetInduction
<1>6. Upto(n)
  <2>1. n - 1 \in Nat /\ (n - 1) + 1 = n /\ n \in 1 .. n
    BY <1>1
  <2>2. n - 1 \in T
    BY <1>5, <2>1
  <2> HIDE DEF Upto
  <2> QED BY <2>1, <2>2
<1>7. f[n] \in Seq(S)
  BY <1>1, <1>2
<1> QED BY <1>2, <1>6, <1>7 DEF n

Increasing(s) == \A i, j \in DOMAIN s : i < j => s[i] < s[j]

\* There is one way to list a set of numbers in ascending order.
LEMMA AscendingUnique ==
  ASSUME NEW m \in Nat, NEW S \in SUBSET (1 .. m), NEW s \in Seq(S), Range(s) = S, Increasing(s)
  PROVE  s = Ascending(S)
<1> DEFINE t == Ascending(S)
<1>0. S \subseteq Nat
  OBVIOUS
<1>1. t \in Seq(S) /\ Range(t) = S /\ Increasing(t)
  BY AscendingType, AscendingRange DEF Increasing
<1> HIDE DEF t
<1> DEFINE Agree(a, b) == \A i \in DOMAIN a : i \in DOMAIN b /\ a[i] = b[i]
<1>2. ASSUME NEW a \in Seq(S), NEW b \in Seq(S), Range(a) = S, Range(b) = S,
             Increasing(a), Increasing(b)
      PROVE  Agree(a, b)
  <2>0. /\ DOMAIN a = 1 .. Len(a) /\ Len(a) \in Nat /\ \A i \in DOMAIN a : a[i] \in S /\ a[i] \in Nat
        /\ DOMAIN b = 1 .. Len(b) /\ Len(b) \in Nat /\ \A i \in DOMAIN b : b[i] \in S /\ b[i] \in Nat
    <3> DEFINE N == S
    <3> HIDE DEF N
    <3>1. a \in Seq(N) /\ b \in Seq(N) /\ N \subseteq Nat
      BY <1>0 DEF N
    <3>2. \A q \in Seq(N) : DOMAIN q = 1 .. Len(q) /\ Len(q) \in Nat /\ \A i \in DOMAIN q : q[i] \in N
      OBVIOUS
    <3> QED BY <3>1, <3>2 DEF N
  <2> DEFINE P(i) == i \in DOMAIN a => i \in DOMAIN b /\ a[i] = b[i]
             T == {n \in Nat : \A i \in 1 .. n : P(i)}
  <2>1. 0 \in T
    OBVIOUS
  <2>2. ASSUME NEW n \in T PROVE n + 1 \in T
    <3>1. n \in Nat /\ \A i \in 1 .. n : P(i)
      BY <2>2
    <3>2. ASSUME n + 1 \in DOMAIN a PROVE n + 1 \in DOMAIN b /\ a[n + 1] = b[n + 1]
      <4> DEFINE k == n + 1
      <4>1. k \in DOMAIN a /\ k \in Nat /\ \A i \in 1 .. k - 1 : i \in DOMAIN a /\ i \in DOMAIN b /\ a[i] = b[i]
        BY <2>0, <3>1, <3>2
      <4> HIDE DEF k
      <4>2. PICK j \in DOMAIN b : b[j] = a[k]
        BY <2>0, <4>1, <1>2 DEF Range
      <4>3. j >= k
        <5> SUFFICES ASSUME ~(j >= k) PROVE FALSE
          OBVIOUS
        <5>1. j \in 1 .. k - 1 /\ j < k
          BY <2>0, <4>1
        <5>2. a[j] < a[k]
          BY <1>2, <4>1, <5>1 DEF Increasing
        <5> QED BY <2>0, <4>1, <4>2, <5>1, <5>2
      <4>4. k \in DOMAIN b
        BY <2>0, <4>1, <4>3
      <4>5. b[k] <= a[k]
        <5>1. CASE j = k
          BY <2>0, <4>2, <4>4, <5>1
        <5>2. CASE j # k
          <6>1. k < j
            BY <2>0, <4>1, <4>3, <5>2
          <6> QED BY <1>2, <2>0, <4>2, <4>4, <6>1 DEF Increasing
        <5> QED BY <5>1, <5>2
      <4>6. PICK h \in DOMAIN a : a[h] = b[k]
        BY <2>0, <4>4, <1>2 DEF Range
      <4>7. h >= k
        <5> SUFFICES ASSUME ~(h >= k) PROVE FALSE
          OBVIOUS
        <5>1. h \in 1 .. k - 1 /\ h < k
          BY <2>0, <4>1
        <5>2. b[h] < b[k] /\ b[h] = a[h]
          BY <1>2, <4>1, <4>4, <5>1 DEF Increasing
        <5> QED BY <2>0, <4>4, <4>6, <5>1, <5>2
      <4>8. a[k] <= b[k]
        <5>1. CASE h = k
          BY <2>0, <4>1, <4>6, <5>1
        <5>2. CASE h # k
          <6>1. k < h
            BY <2>0, <4>1, <4>7, <5>2
          <6> QED BY <1>2, <2>0, <4>1, <4>6, <6>1 DEF Increasing
        <5> QED BY <5>1, <5>2
      <4> QED BY <2>0, <4>1, <4>4, <4>5, <4>8 DEF k
    <3>3. \A i \in 1 .. n + 1 : i \in 1 .. n \/ i = n + 1
      BY <3>1
    <3> QED BY <3>1, <3>2, <3>3
  <2>3. T = Nat
    <3>1. T \in SUBSET Nat
      OBVIOUS
    <3> HIDE DEF T
    <3> QED BY <2>1, <2>2, <3>1, SetInduction
  <2>4. Len(a) \in T
    BY <2>0, <2>3
  <2> QED BY <2>0, <2>4
<1>3. Agree(s, t) /\ Agree(t, s)
  <2> HIDE DEF Agree
  <2> QED BY <1>1, <1>2
<1>4. DOMAIN s = DOMAIN t /\ \A i \in DOMAIN s : s[i] = t[i]
  BY <1>3
<1>5. s = [i \in DOMAIN s |-> s[i]] /\ t = [i \in DOMAIN t |-> t[i]]
  <2>1. \A w \in Seq(S) : w = [i \in DOMAIN w |-> w[i]]
    OBVIOUS
  <2> QED BY <1>1, <2>1
<1> QED BY <1>4, <1>5 DEF t

LEMMA SmallestExists ==
  ASSUME NEW m \in Nat, NEW S \in SUBSET (1 .. m), S # {}
  PROVE  \E x \in S : \A y \in S : x <= y
<1> DEFINE s == Ascending(S)
<1>0. S \subseteq Nat
  OBVIOUS
<1>1. s \in Seq(S) /\ Range(s) = S /\ \A i, j \in DOMAIN s : i < j => s[i] < s[j]
  BY AscendingType, AscendingRange
<1> HIDE DEF s
<1>2. DOMAIN s = 1 .. Len(s) /\ Len(s) \in Nat
  BY <1>1
<1>3. 1 \in DOMAIN s
  <2>1. PICK i \in DOMAIN s : TRUE
    BY <1>1 DEF Range
  <2> QED BY <1>2, <2>1
<1>4. s[1] \in S
  BY <1>1, <1>3 DEF Range
<1>5. ASSUME NEW y \in S PROVE s[1] <= y
  <2>1. PICK i \in DOMAIN s : s[i] = y
    BY <1>1 DEF Range
  <2>2. CASE i = 1
    BY <1>0, <2>1, <2>2
  <2>3. CASE i # 1
    <3>1. 1 < i
      BY <1>2, <2>3
    <3>2. s[1] < y
      BY <1>1, <1>3, <2>1, <3>1
    <3>3. s[1] \in Nat /\ y \in Nat
      <4> DEFINE N == S
      <4>1. s[1] \in N /\ y \in N /\ N \subseteq Nat
        BY <1>0, <1>4
      <4> HIDE DEF N
      <4> QED BY <4>1
    <3> QED BY <3>2, <3>3
  <2> QED BY <2>2, <2>3
<1> QED BY <1>4, <1>5

-----------------------------------------------------------------------------
(* The parameters. *)

LEMMA EachRange ==
  ASSUME NEW nodes \in Seq(Nat)
  PROVE  /\ Each(Grad, nodes) \in Seq(Range(Each(Grad, nodes)))
         /\ Range(Each(Grad, nodes)) = {Grad(n) : n \in Range(nodes)}
         /\ Each(In, nodes) \in Seq(Range(Each(In, nodes)))
         /\ Range(Each(In, nodes)) = {In(n) : n \in Range(nodes)}
         /\ Each(Saved, nodes) \in Seq(Range(Each(Saved, nodes)))
         /\ Range(Each(Saved, nodes)) = {Saved(n) : n \in Range(nodes)}
<1> DEFINE L == Len(nodes)
<1>1. L \in Nat /\ DOMAIN nodes = 1 .. L
  OBVIOUS
<1>2. ASSUME NEW f, f = [k \in 1 .. L |-> f[k]]
      PROVE  f \in Seq(Range(f)) /\ Range(f) = {f[k] : k \in 1 .. L}
  <2>1. DOMAIN f = 1 .. L /\ \A k \in 1 .. L : f[k] \in Range(f)
    BY <1>2 DEF Range
  <2>2. f \in [1 .. L -> Range(f)]
    BY <1>2, <2>1
  <2> QED BY <1>1, <2>1, <2>2 DEF Range
<1> HIDE DEF L
<1>3. Each(Grad, nodes) = [k \in 1 .. L |-> Grad(nodes[k])]
  BY <1>1 DEF Each
<1>4. Each(In, nodes) = [k \in 1 .. L |-> In(nodes[k])]
  BY <1>1 DEF Each
<1>5. Each(Saved, nodes) = [k \in 1 .. L |-> Saved(nodes[k])]
  BY <1>1 DEF Each
<1>6. Range(nodes) = {nodes[k] : k \in 1 .. L}
  BY <1>1 DEF Range
<1>7. /\ Each(Grad, nodes) \in Seq(Range(Each(Grad, nodes)))
      /\ Range(Each(Grad, nodes)) = {Grad(n) : n \in Range(nodes)}
  <2> DEFINE e == Each(Grad, nodes)
  <2>1. e = [k \in 1 .. L |-> e[k]] /\ \A k \in 1 .. L : e[k] = Grad(nodes[k])
    BY <1>3
  <2> HIDE DEF e
  <2>2. e \in Seq(Range(e)) /\ Range(e) = {e[k] : k \in 1 .. L}
    BY <1>2, <2>1
  <2>3. Range(e) = {Grad(n) : n \in Range(nodes)}
    BY <1>6, <2>1, <2>2
  <2> QED BY <2>2, <2>3 DEF e
<1>8. /\ Each(In, nodes) \in Seq(Range(Each(In, nodes)))
      /\ Range(Each(In, nodes)) = {In(n) : n \in Range(nodes)}
  <2> DEFINE e == Each(In, nodes)
  <2>1. e = [k \in 1 .. L |-> e[k]] /\ \A k \in 1 .. L : e[k] = In(nodes[k])
    BY <1>4
  <2> HIDE DEF e
  <2>2. e \in Seq(Range(e)) /\ Range(e) = {e[k] : k \in 1 .. L}
    BY <1>2, <2>1
  <2>3. Range(e) = {In(n) : n \in Range(nodes)}
    BY <1>6, <2>1, <2>2
  <2> QED BY <2>2, <2>3 DEF e
<1>9. /\ Each(Saved, nodes) \in Seq(Range(Each(Saved, nodes)))
      /\ Range(Each(Saved, nodes)) = {Saved(n) : n \in Range(nodes)}
  <2> DEFINE e == Each(Saved, nodes)
  <2>1. e = [k \in 1 .. L |-> e[k]] /\ \A k \in 1 .. L : e[k] = Saved(nodes[k])
    BY <1>5
  <2> HIDE DEF e
  <2>2. e \in Seq(Range(e)) /\ Range(e) = {e[k] : k \in 1 .. L}
    BY <1>2, <2>1
  <2>3. Range(e) = {Saved(n) : n \in Range(nodes)}
    BY <1>6, <2>1, <2>2
  <2> QED BY <2>2, <2>3 DEF e
<1> QED BY <1>7, <1>8, <1>9

\* What lower_backward declares.

\* Where every input is used, and the first uses come in the inputs' order, the forward pass lists
\* the inputs as the scheduler does.
LEMMA UsedInputsAreInputs ==
  ASSUME NEW g, IsGraph(g), OutputsMatchInputs(g), Len(g) > 0, InputsUsedInOrder(g),
         \A n \in Nodes(g) : g[n].op = "input" => ~IsSink(g, n)
  PROVE  UsedInputs(g) = Inputs(g)
<1> DEFINE N == Nodes(g)
           ss == [n \in N |-> g[n].inputs]
           uses == OperandUses(g)
           F == FirstUses(g)
           I == {n \in N : g[n].op = "input"}
           at == Ascending(F)
           u == UsedInputs(g)
<1>1. Len(g) \in Nat /\ N = 1 .. Len(g) /\ \A n \in N : g[n].inputs \in Seq(N)
  <2>1. Len(g) \in Nat
    BY DEF IsGraph
  <2> QED BY <2>1, GraphNodes DEF Nodes
<1>2. ss \in Seq(Seq(N)) /\ ss # << >> /\ Len(ss) = Len(g) /\ \A n \in N : ss[n] = g[n].inputs
  <2> DEFINE Q == Seq(N)
             L == Len(g)
  <2>1. L \in Nat /\ L > 0 /\ \A n \in 1 .. L : g[n].inputs \in Q
    BY <1>1
  <2>2. ss = [n \in 1 .. L |-> g[n].inputs]
    BY <1>1
  <2> HIDE DEF Q, ss, L
  <2>3. ss \in Seq(Q) /\ Len(ss) = L /\ \A n \in 1 .. L : ss[n] = g[n].inputs
    BY <2>1, <2>2
  <2>4. ss # << >>
    BY <2>1, <2>3
  <2> QED BY <1>1, <2>3, <2>4 DEF Q, L
<1>3. uses = FlattenSeq(ss)
  BY DEF OperandUses
<1> HIDE DEF ss, uses, N
<1>4. uses \in Seq(N) /\ \A x : x \in Range(uses) <=> \E n \in N : x \in Range(g[n].inputs)
  BY <1>1, <1>2, <1>3, FlattenRange
<1>5. Len(uses) \in Nat /\ DOMAIN uses = 1 .. Len(uses) /\ \A k \in DOMAIN uses : uses[k] \in N
  BY <1>4
<1>6. F = {k \in DOMAIN uses : g[uses[k]].op = "input" /\ \A h \in 1 .. k - 1 : uses[h] # uses[k]}
  BY DEF FirstUses, uses
<1>7. u = [j \in DOMAIN at |-> uses[at[j]]]
  BY DEF UsedInputs, uses
<1> HIDE DEF F, u
<1>8. /\ at \in Seq(F) /\ Range(at) = F
      /\ \A i, j \in DOMAIN at : i < j => at[i] < at[j]
  <2>1. F \in SUBSET (1 .. Len(uses))
    BY <1>5, <1>6
  <2> QED BY <1>5, <2>1, AscendingType, AscendingRange
<1> HIDE DEF at
<1>9. /\ Len(at) \in Nat /\ DOMAIN at = 1 .. Len(at) /\ \A j \in DOMAIN at : at[j] \in F
  BY <1>8
<1>10. \A k \in F : k \in DOMAIN uses /\ uses[k] \in I
  BY <1>5, <1>6 DEF N
<1>11. u \in Seq(I) /\ DOMAIN u = DOMAIN at /\ \A j \in DOMAIN at : u[j] = uses[at[j]]
  <2> HIDE DEF I
  <2> QED BY <1>7, <1>9, <1>10
<1>12. Increasing(u)
  <2>1. \A h, k \in F : h < k => uses[h] < uses[k]
    BY DEF InputsUsedInOrder, F, uses
  <2> QED BY <1>8, <1>9, <1>11, <2>1 DEF Increasing
<1>13. Range(u) = I
  <2>1. Range(u) \subseteq I
    BY <1>9, <1>10, <1>11 DEF Range
  <2>2. ASSUME NEW n \in I PROVE n \in Range(u)
    <3>1. n \in N /\ g[n].op = "input"
      OBVIOUS
    <3>2. n \in Range(uses)
      <4>1. ~IsSink(g, n)
        BY <3>1 DEF N
      <4>2. \E m \in N : n \in Range(g[m].inputs)
        BY <3>1, <4>1, EdgeFacts DEF N
      <4> QED BY <1>4, <4>2
    <3> DEFINE K == {k \in DOMAIN uses : uses[k] = n}
    <3>3. K \in SUBSET (1 .. Len(uses)) /\ K # {}
      BY <1>5, <3>2 DEF Range
    <3>4. PICK k \in K : \A h \in K : k <= h
      <4> HIDE DEF K
      <4> QED BY <1>5, <3>3, SmallestExists
    <3>5. k \in F
      <4>1. ASSUME NEW h \in 1 .. k - 1, uses[h] = uses[k] PROVE FALSE
        <5>1. h \in K /\ h < k
          BY <1>5, <4>1
        <5> HIDE DEF K
        <5>2. k <= h /\ k \in Nat /\ h \in Nat
          BY <1>5, <3>3, <3>4, <5>1
        <5> QED BY <5>1, <5>2
      <4> QED BY <1>6, <3>1, <4>1
    <3>6. PICK j \in DOMAIN at : at[j] = k
      BY <1>8, <3>5 DEF Range
    <3>7. u[j] = n
      BY <1>11, <3>6
    <3> QED BY <1>11, <3>7 DEF Range
  <2> QED BY <2>1, <2>2
<1>14. I \in SUBSET (1 .. Len(g)) /\ Inputs(g) = Ascending(I)
  BY <1>1 DEF Inputs, N
<1> HIDE DEF I
<1>15. u = Ascending(I)
  BY <1>1, <1>11, <1>12, <1>13, <1>14, AscendingUnique
<1> QED BY <1>14, <1>15 DEF u

=============================================================================
