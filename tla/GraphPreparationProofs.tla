----------------------- MODULE GraphPreparationProofs -----------------------
(***************************************************************************)
(* What is built, validated, sorted and given its outputs again is a       *)
(* prepared graph: what the theorems about the lowering passes assume.     *)
(* Kahn's algorithm finds an order of all nodes, in which every input      *)
(* comes before its users; the graph in that order computes the same       *)
(* values from the same inputs.                                            *)
(***************************************************************************)
EXTENDS GraphPreparation, KernelListProofs, FunctionTheorems

-----------------------------------------------------------------------------
(* How often an element occurs in a sequence. *)

LEMMA SameSize ==
  ASSUME NEW S, NEW T, IsFiniteSet(S), NEW f \in [S -> T],
         \A a, b \in S : f[a] = f[b] => a = b,
         \A y \in T : \E a \in S : f[a] = y
  PROVE  IsFiniteSet(T) /\ Cardinality(T) = Cardinality(S)
<1>1. f \in Bijection(S, T)
  BY Fun_IsBij
<1> QED BY <1>1, FS_Bijection DEF ExistsBijection

Count(s, x) == Cardinality({k \in DOMAIN s : s[k] = x})

LEMMA CountConcat ==
  ASSUME NEW S, NEW s \in Seq(S), NEW t \in Seq(S), NEW x
  PROVE  Count(s \o t, x) = Count(s, x) + Count(t, x)
<1> DEFINE K == {k \in DOMAIN s : s[k] = x}
           L == {k \in DOMAIN t : t[k] = x}
           M == {k \in DOMAIN (s \o t) : (s \o t)[k] = x}
           n == Len(s)
           moved == [k \in L |-> n + k]
           J == {n + k : k \in L}
<1>1. /\ n \in Nat /\ DOMAIN s = 1 .. n /\ Len(t) \in Nat /\ DOMAIN t = 1 .. Len(t)
      /\ DOMAIN (s \o t) = 1 .. n + Len(t)
      /\ \A i \in 1 .. n + Len(t) : (s \o t)[i] = IF i <= n THEN s[i] ELSE t[i - n]
  OBVIOUS
<1>2. M = K \cup J
  <2>1. ASSUME NEW k \in M PROVE k \in K \cup J
    <3>1. CASE k <= n
      BY <1>1, <2>1, <3>1
    <3>2. CASE ~(k <= n)
      <4>1. k - n \in L /\ k = n + (k - n)
        BY <1>1, <2>1, <3>2
      <4> HIDE DEF L
      <4> QED BY <4>1
    <3> QED BY <3>1, <3>2
  <2>2. ASSUME NEW k \in K PROVE k \in M
    BY <1>1, <2>2
  <2>3. ASSUME NEW k \in L PROVE n + k \in M
    <3>1. n + k \in 1 .. n + Len(t) /\ ~(n + k <= n) /\ (n + k) - n = k
      BY <1>1, <2>3
    <3> QED BY <1>1, <2>3, <3>1
  <2> QED BY <2>1, <2>2, <2>3
<1>3. K \cap J = {}
  BY <1>1
<1>4. IsFiniteSet(K) /\ IsFiniteSet(L)
  BY Occurrences
<1>5. IsFiniteSet(J) /\ Cardinality(J) = Cardinality(L)
  <2>1. moved \in [L -> J] /\ \A y \in J : \E k \in L : moved[k] = y
    OBVIOUS
  <2>2. \A k, h \in L : moved[k] = moved[h] => k = h
    BY <1>1
  <2> HIDE DEF moved, L, J
  <2> QED BY <1>4, <2>1, <2>2, SameSize
<1> HIDE DEF K, J, L, M
<1>6. Cardinality(K \cup J) = Cardinality(K) + Cardinality(J) - Cardinality({})
  BY <1>3, <1>4, <1>5, FS_Union
<1>7. Cardinality(K) \in Nat /\ Cardinality(J) \in Nat /\ Cardinality({}) = 0
  BY <1>4, <1>5, FS_CardinalityType, FS_EmptySet
<1>8. Count(s, x) = Cardinality(K) /\ Count(t, x) = Cardinality(L)
      /\ Count(s \o t, x) = Cardinality(M)
  BY DEF Count, K, L, M
<1> QED BY <1>2, <1>5, <1>6, <1>7, <1>8

Repeated(c, u) == [k \in 1 .. c |-> u]

LEMMA CountRepeated ==
  ASSUME NEW c \in Nat, NEW u
  PROVE  Repeated(c, u) \in Seq({u}) /\ Count(Repeated(c, u), u) = c
<1> DEFINE s == Repeated(c, u)
<1>1. s \in Seq({u}) /\ DOMAIN s = 1 .. c
  BY DEF Repeated
<1>2. {k \in DOMAIN s : s[k] = u} = 1 .. c
  BY DEF Repeated
<1>3. Cardinality(1 .. c) = c
  BY FS_Interval
<1> QED BY <1>1, <1>2, <1>3 DEF Count

Sorted(s) == \A k \in DOMAIN s : k > 1 => s[k - 1] <= s[k]

LEMMA SortedConcat ==
  ASSUME NEW s \in Seq(Nat), Sorted(s), NEW c \in Nat, NEW u \in Nat,
         \A i \in DOMAIN s : s[i] <= u
  PROVE  /\ s \o Repeated(c, u) \in Seq(Nat) /\ Sorted(s \o Repeated(c, u))
         /\ \A i \in DOMAIN (s \o Repeated(c, u)) : (s \o Repeated(c, u))[i] <= u
<1> DEFINE n == Len(s)
           t == Repeated(c, u)
<1>1. t \in Seq(Nat) /\ Len(t) = c /\ \A k \in 1 .. c : t[k] = u
  BY DEF Repeated
<1> HIDE DEF t
<1>2. n \in Nat /\ DOMAIN s = 1 .. n /\ \A i \in 1 .. n : s[i] \in Nat
  OBVIOUS
<1>3. /\ s \o t \in Seq(Nat) /\ DOMAIN (s \o t) = 1 .. n + c
      /\ \A i \in 1 .. n + c : (s \o t)[i] = IF i <= n THEN s[i] ELSE t[i - n]
  BY <1>1
<1>4. \A i \in 1 .. n + c : (s \o t)[i] = IF i <= n THEN s[i] ELSE u
  <2>1. \A i \in 1 .. n + c : ~(i <= n) => i - n \in 1 .. c
    BY <1>2
  <2> QED BY <1>1, <1>3, <2>1
<1> DEFINE w == s \o t
<1> HIDE DEF w, n
<1>5. \A i \in DOMAIN w : w[i] <= u /\ w[i] \in Nat
  BY <1>2, <1>3, <1>4 DEF w
<1>6. ASSUME NEW k \in DOMAIN w, k > 1 PROVE w[k - 1] <= w[k]
  <2>1. k \in 1 .. n + c /\ k - 1 \in 1 .. n + c
    BY <1>2, <1>3, <1>6 DEF w
  <2>2. CASE k <= n
    <3>1. k - 1 \in 1 .. n /\ k \in 1 .. n /\ k - 1 <= n
      BY <1>2, <1>6, <2>1, <2>2
    <3>2. w[k - 1] = s[k - 1] /\ w[k] = s[k]
      BY <1>4, <2>1, <2>2, <3>1 DEF w
    <3> QED BY <1>2, <1>6, <3>1, <3>2 DEF Sorted
  <2>3. CASE ~(k <= n)
    <3>1. w[k] = u
      BY <1>4, <2>1, <2>3 DEF w
    <3> QED BY <1>3, <1>5, <2>1, <3>1 DEF w
  <2> QED BY <2>2, <2>3
<1>7. Sorted(w)
  BY <1>6 DEF Sorted
<1> QED BY <1>3, <1>5, <1>7 DEF w, t

LEMMA CountAbsent ==
  ASSUME NEW S, NEW s \in Seq(S), NEW x, x \notin S
  PROVE  Count(s, x) = 0
<1>1. x \notin Range(s)
  BY DEF Range
<1> QED BY <1>1, Occurrences DEF Count

-----------------------------------------------------------------------------
(* Building. *)

NodesOf(g) == [op : OpNames, inputs : Seq(Nodes(g)), outputs : Seq(Nodes(g)), shape : Seq(Nat)]

LEMMA GraphOfNodes ==
  ASSUME NEW g
  PROVE  /\ IsGraph(g) => /\ Len(g) \in Nat /\ g = [n \in 1 .. Len(g) |-> g[n]]
                          /\ \A n \in Nodes(g) : g[n] \in NodesOf(g)
         /\ Len(g) \in Nat /\ g = [n \in 1 .. Len(g) |-> g[n]]
              /\ (\A n \in Nodes(g) : g[n] \in NodesOf(g)) => IsGraph(g)
<1> DEFINE R == NodesOf(g)
<1>1. IsGraph(g) <=> g \in Seq(R)
  BY DEF IsGraph, NodesOf
<1> HIDE DEF R
<1>2. g \in Seq(R) => /\ Len(g) \in Nat /\ g = [n \in 1 .. Len(g) |-> g[n]]
                      /\ \A n \in 1 .. Len(g) : g[n] \in R
  OBVIOUS
<1>3. ASSUME Len(g) \in Nat, g = [n \in 1 .. Len(g) |-> g[n]], \A n \in 1 .. Len(g) : g[n] \in R
      PROVE  g \in Seq(R)
  <2>1. [n \in 1 .. Len(g) |-> g[n]] \in Seq(R)
    BY <1>3
  <2> QED BY <1>3, <2>1
<1> QED BY <1>1, <1>2, <1>3 DEF R, Nodes

\* What building maintains.
WellBuilt(g) ==
  /\ IsGraph(g) /\ TopologicallyOrdered(g) /\ OutputsMatchInputs(g)
  /\ \A n \in Nodes(g) : /\ g[n].op = "const" => g[n].shape = << >>
                         /\ is_leaf(g[n].op) => g[n].inputs = << >>

Matching(g) ==
  \A n \in Nodes(g) :
    (\A u \in Nodes(g) : Count(g[n].outputs, u) = Count(g[u].inputs, n)) /\ Sorted(g[n].outputs)

LEMMA MatchingOutputs == \A g : OutputsMatchInputs(g) <=> Matching(g)
BY DEF OutputsMatchInputs, Matching, Count, Sorted

LEMMA WithOutputs ==
  ASSUME NEW S, NEW r \in [op : OpNames, inputs : S, outputs : S, shape : Seq(Nat)], NEW users
  PROVE  [r EXCEPT !.outputs = users] =
           [op |-> r.op, inputs |-> r.inputs, outputs |-> users, shape |-> r.shape]
OBVIOUS

\* h has the nodes of g, and one more, id, whose operands are inputs.
Extends(h, g, id, inputs) ==
  /\ h = [n \in 1 .. id |-> h[n]] /\ Len(h) = id
  /\ \A n \in Nodes(g) :
       /\ h[n].op = g[n].op /\ h[n].inputs = g[n].inputs /\ h[n].shape = g[n].shape
       /\ h[n].outputs = g[n].outputs \o Repeated(Count(inputs, n), id)
       /\ h[n] = [op |-> h[n].op, inputs |-> h[n].inputs, outputs |-> h[n].outputs,
                  shape |-> h[n].shape]

LEMMA NodeAdded ==
  ASSUME NEW g, IsGraph(g), NEW op \in OpNames, NEW inputs \in Seq(Nodes(g)), NEW shape \in Seq(Nat),
         NEW h, h = add_node(g, op, inputs, shape), NEW id, id = Len(g) + 1
  PROVE  Extends(h, g, id, inputs) /\ h[id] = Node(op, inputs, shape)
<1> DEFINE uses(n) == Repeated(Count(inputs, n), Len(g) + 1)
           old(n) == [g[n] EXCEPT !.outputs = @ \o uses(n)]
           olds == [n \in 1 .. Len(g) |-> old(n)]
           new == Node(op, inputs, shape)
<1>1. h = Append(olds, new)
  BY DEF add_node, Count, Nodes, Repeated
<1>2. Len(g) \in Nat /\ \A n \in Nodes(g) : g[n] \in NodesOf(g)
  BY GraphOfNodes
<1>3. ASSUME NEW n \in Nodes(g)
      PROVE  /\ old(n).op = g[n].op /\ old(n).inputs = g[n].inputs /\ old(n).shape = g[n].shape
             /\ old(n).outputs = g[n].outputs \o uses(n)
             /\ old(n) = [op |-> old(n).op, inputs |-> old(n).inputs, outputs |-> old(n).outputs,
                          shape |-> old(n).shape]
  <2> HIDE DEF uses
  <2> DEFINE users == g[n].outputs \o uses(n)
  <2>1. old(n) = [op |-> g[n].op, inputs |-> g[n].inputs, outputs |-> users, shape |-> g[n].shape]
    <3>1. g[n] \in [op : OpNames, inputs : Seq(Nodes(g)), outputs : Seq(Nodes(g)), shape : Seq(Nat)]
      BY <1>2 DEF NodesOf
    <3>2. old(n) = [g[n] EXCEPT !.outputs = users]
      OBVIOUS
    <3> HIDE DEF old, users
    <3> QED BY <3>1, <3>2, WithOutputs
  <2> HIDE DEF old, users
  <2>2. old(n).op = g[n].op /\ old(n).inputs = g[n].inputs /\ old(n).shape = g[n].shape
        /\ old(n).outputs = users
    BY <2>1
  <2> QED BY <2>1, <2>2 DEF users
<1> HIDE DEF old, new
<1>4. Len(olds) = Len(g) /\ olds \in Seq({old(n) : n \in 1 .. Len(g)})
  BY <1>2
<1>5. /\ Len(Append(olds, new)) = Len(g) + 1
      /\ Append(olds, new) = [n \in 1 .. Len(g) + 1 |-> Append(olds, new)[n]]
      /\ Append(olds, new)[Len(g) + 1] = new
      /\ \A n \in 1 .. Len(g) : Append(olds, new)[n] = old(n)
  <2>1. \A n \in 1 .. Len(g) : olds[n] = old(n)
    OBVIOUS
  <2> DEFINE S == {old(n) : n \in 1 .. Len(g)} \cup {new}
  <2>2. olds \in Seq(S) /\ new \in S
    BY <1>2, <1>4
  <2> HIDE DEF olds, S
  <2>3. Append(olds, new) \in Seq(S) /\ Len(Append(olds, new)) = Len(olds) + 1
        /\ Append(olds, new)[Len(olds) + 1] = new
        /\ \A n \in 1 .. Len(olds) : Append(olds, new)[n] = olds[n]
    BY <2>2, AppendProperties
  <2> DEFINE w == Append(olds, new)
  <2> HIDE DEF w
  <2>4. w = [n \in 1 .. Len(w) |-> w[n]]
    <3>1. w \in Seq(S)
      BY <2>3 DEF w
    <3> QED BY <3>1
  <2> QED BY <1>4, <2>1, <2>3, <2>4 DEF w
<1> HIDE DEF olds
<1>6. \A n \in Nodes(g) : h[n] = old(n)
  BY <1>1, <1>5 DEF Nodes
<1> QED BY <1>1, <1>3, <1>5, <1>6 DEF new, Extends

\* A node is appended after its operands, each of which learns of every use.
LEMMA AddNodeKeepsWellBuilt ==
  ASSUME NEW g, WellBuilt(g), NEW op \in OpNames, NEW inputs \in Seq(Nodes(g)),
         NEW shape \in Seq(Nat),
         op = "const" => shape = << >>, is_leaf(op) => inputs = << >>
  PROVE  WellBuilt(add_node(g, op, inputs, shape))
<1> DEFINE h == add_node(g, op, inputs, shape)
           id == Len(g) + 1
<1>0. h = add_node(g, op, inputs, shape) /\ id = Len(g) + 1
  OBVIOUS
<1> HIDE DEF h, id
<1>1. IsGraph(g) /\ TopologicallyOrdered(g) /\ OutputsMatchInputs(g) /\ Matching(g)
  BY MatchingOutputs DEF WellBuilt
<1>2. /\ Len(g) \in Nat /\ Extends(h, g, id, inputs) /\ h[id] = Node(op, inputs, shape)
      /\ h = [n \in 1 .. id |-> h[n]] /\ Len(h) = id
  <2>1. Len(g) \in Nat
    BY <1>1, GraphOfNodes
  <2>2. Extends(h, g, id, inputs) /\ h[id] = Node(op, inputs, shape)
    BY <1>0, <1>1, NodeAdded
  <2> QED BY <2>1, <2>2 DEF Extends
<1>3. \A n \in Nodes(g) :
        /\ h[n].op = g[n].op /\ h[n].inputs = g[n].inputs /\ h[n].shape = g[n].shape
        /\ h[n].outputs = g[n].outputs \o Repeated(Count(inputs, n), id)
        /\ h[n] = [op |-> h[n].op, inputs |-> h[n].inputs, outputs |-> h[n].outputs,
                   shape |-> h[n].shape]
  BY <1>2 DEF Extends
<1>4. \A n \in Nodes(g) :
        /\ g[n].op \in OpNames /\ g[n].shape \in Seq(Nat)
        /\ g[n].inputs \in Seq(Nodes(g)) /\ g[n].outputs \in Seq(Nodes(g))
  BY <1>1, GraphNodes, GraphShapes
<1>5. /\ h[id].op = op /\ h[id].inputs = inputs /\ h[id].shape = shape /\ h[id].outputs = << >>
      /\ h[id] = [op |-> op, inputs |-> inputs, outputs |-> << >>, shape |-> shape]
  BY <1>2 DEF Node
<1>6. Nodes(h) = Nodes(g) \cup {id} /\ id \notin Nodes(g) /\ id \in Nat /\ Nodes(g) \subseteq Nat
      /\ \A n \in Nodes(g) : n < id
  BY <1>0, <1>2 DEF Nodes
<1>7. Seq(Nodes(g)) \subseteq Seq(Nodes(h))
  <2> DEFINE A == Nodes(g)
             B == Nodes(h)
  <2>1. A \subseteq B
    BY <1>6
  <2> HIDE DEF A, B
  <2>2. Seq(A) \subseteq Seq(B)
    BY <2>1
  <2> QED BY <2>2 DEF A, B
<1>8. \A n \in Nodes(g) : Count(inputs, n) \in Nat
  BY Occurrences DEF Count
<1>9. \A n \in Nodes(g) : Repeated(Count(inputs, n), id) \in Seq({id}) /\ Count(Repeated(Count(inputs, n), id), id) = Count(inputs, n)
                         /\ \A x : x # id => Count(Repeated(Count(inputs, n), id), x) = 0
  <2> SUFFICES ASSUME NEW n \in Nodes(g)
               PROVE  /\ Repeated(Count(inputs, n), id) \in Seq({id}) /\ Count(Repeated(Count(inputs, n), id), id) = Count(inputs, n)
                      /\ \A x : x # id => Count(Repeated(Count(inputs, n), id), x) = 0
    OBVIOUS
  <2>1. \A c \in Nat : \A u : Count(Repeated(c, u), u) = c
    BY CountRepeated
  <2>2. \A c \in Nat : \A u : Repeated(c, u) \in Seq({u})
    BY CountRepeated
  <2>4. Count(inputs, n) \in Nat
    BY <1>8
  <2>5. Count(Repeated(Count(inputs, n), id), id) = Count(inputs, n)
    BY <2>1, <2>4
  <2>6. Repeated(Count(inputs, n), id) \in Seq({id})
    BY <2>2, <2>4
  <2>7. \A x : x # id => Count(Repeated(Count(inputs, n), id), x) = 0
    BY <2>6, CountAbsent
  <2> QED BY <2>5, <2>6, <2>7
<1>10. \A n \in Nodes(g) : h[n].outputs \in Seq(Nodes(h))
  <2> SUFFICES ASSUME NEW n \in Nodes(g) PROVE h[n].outputs \in Seq(Nodes(h))
    OBVIOUS
  <2> DEFINE B == Nodes(h)
             s == g[n].outputs
             t == Repeated(Count(inputs, n), id)
  <2>1. {id} \subseteq B
    BY <1>6
  <2>2. t \in Seq({id}) /\ s \in Seq(B)
    BY <1>4, <1>7, <1>9
  <2> HIDE DEF B, s, t
  <2>3. t \in Seq(B)
    <3>1. Seq({id}) \subseteq Seq(B)
      BY <2>1
    <3> QED BY <2>2, <3>1
  <2>4. s \o t \in Seq(B)
    BY <2>2, <2>3
  <2> QED BY <1>3, <2>4 DEF B, s, t
<1>11. IsGraph(h)
  <2>1. \A n \in Nodes(g) : h[n] \in NodesOf(h)
    <3> SUFFICES ASSUME NEW n \in Nodes(g) PROVE h[n] \in NodesOf(h)
      OBVIOUS
    <3> DEFINE a == h[n].op
               b == h[n].inputs
               c == h[n].outputs
               d == h[n].shape
    <3>1. a \in OpNames /\ b \in Seq(Nodes(h)) /\ c \in Seq(Nodes(h)) /\ d \in Seq(Nat)
      BY <1>3, <1>4, <1>7, <1>10
    <3>2. h[n] = [op |-> a, inputs |-> b, outputs |-> c, shape |-> d]
      BY <1>3
    <3> HIDE DEF a, b, c, d
    <3>3. [op |-> a, inputs |-> b, outputs |-> c, shape |-> d] \in NodesOf(h)
      BY <3>1 DEF NodesOf
    <3> QED BY <3>2, <3>3
  <2>2. h[id] \in NodesOf(h)
    <3>1. inputs \in Seq(Nodes(h)) /\ << >> \in Seq(Nodes(h))
      BY <1>7
    <3> QED BY <1>5, <3>1 DEF NodesOf
  <2>3. \A n \in Nodes(h) : h[n] \in NodesOf(h)
    BY <1>6, <2>1, <2>2
  <2> QED BY <1>2, <1>6, <2>3, GraphOfNodes
<1>12. TopologicallyOrdered(h)
  <2>1. ASSUME NEW n \in Nodes(g), NEW p \in DOMAIN h[n].inputs PROVE h[n].inputs[p] < n
    BY <1>1, <1>3, <2>1 DEF TopologicallyOrdered
  <2>2. ASSUME NEW p \in DOMAIN inputs PROVE inputs[p] < id
    <3>1. inputs[p] \in Nodes(g)
      <4> HIDE DEF Nodes
      <4> QED OBVIOUS
    <3> QED BY <1>6, <3>1
  <2> QED BY <1>5, <1>6, <2>1, <2>2 DEF TopologicallyOrdered
<1>13. Matching(h)
  <2>1. ASSUME NEW n \in Nodes(g), NEW u \in Nodes(h)
        PROVE  Count(h[n].outputs, u) = Count(h[u].inputs, n)
    <3>1. Count(h[n].outputs, u) = Count(g[n].outputs, u) + Count(Repeated(Count(inputs, n), id), u)
      <4> DEFINE s == g[n].outputs
                 t == Repeated(Count(inputs, n), id)
                 B == Nodes(h)
      <4>1. s \in Seq(B) /\ t \in Seq({id}) /\ {id} \subseteq B
        BY <1>4, <1>6, <1>7, <1>9
      <4> HIDE DEF s, t, B
      <4>2. t \in Seq(B)
        <5>1. Seq({id}) \subseteq Seq(B)
          BY <4>1
        <5> QED BY <4>1, <5>1
      <4>3. Count(s \o t, u) = Count(s, u) + Count(t, u)
        BY <4>1, <4>2, CountConcat
      <4> QED BY <1>3, <4>3 DEF s, t
    <3>2. CASE u = id
      <4>1. Count(g[n].outputs, u) = 0
        BY <1>4, <1>6, <3>2, CountAbsent
      <4>2. Count(Repeated(Count(inputs, n), id), u) = Count(inputs, n) /\ Count(inputs, n) \in Nat /\ h[u].inputs = inputs
        BY <1>5, <1>8, <1>9, <3>2
      <4> QED BY <3>1, <4>1, <4>2
    <3>3. CASE u # id
      <4>1. u \in Nodes(g) /\ Count(Repeated(Count(inputs, n), id), u) = 0
        BY <1>6, <1>9, <3>3
      <4>2. Count(g[n].outputs, u) = Count(h[u].inputs, n)
        BY <1>1, <1>3, <4>1 DEF Matching
      <4>3. Count(g[n].outputs, u) \in Nat
        <5>1. g[n].outputs \in Seq(Nodes(g))
          BY <1>4
        <5> QED BY <5>1, Occurrences DEF Count
      <4> QED BY <3>1, <4>1, <4>2, <4>3
    <3> QED BY <3>2, <3>3
  <2>2. ASSUME NEW u \in Nodes(h) PROVE Count(h[id].outputs, u) = Count(h[u].inputs, id)
    <3>1. << >> \in Seq({}) /\ Count(<< >>, u) = 0
      <4>1. << >> \in Seq({})
        OBVIOUS
      <4>2. u \notin {}
        OBVIOUS
      <4> QED BY <4>1, <4>2, CountAbsent
    <3>2. h[u].inputs \in Seq(Nodes(g))
      BY <1>3, <1>4, <1>5, <1>6
    <3>3. Count(h[u].inputs, id) = 0
      BY <1>6, <3>2, CountAbsent
    <3> QED BY <1>5, <3>1, <3>3
  <2>3. ASSUME NEW n \in Nodes(g) PROVE Sorted(h[n].outputs)
    <3> DEFINE s == g[n].outputs
               c == Count(inputs, n)
    <3>1. s \in Seq(Nodes(g)) /\ Sorted(s) /\ c \in Nat
      BY <1>1, <1>4, <1>8 DEF Matching
    <3>2. s \in Seq(Nat) /\ \A i \in DOMAIN s : s[i] <= id
      <4> DEFINE A == Nodes(g)
      <4>1. A \subseteq Nat /\ \A x \in A : x <= id
        BY <1>6
      <4>2. s \in Seq(A)
        BY <3>1
      <4> HIDE DEF A, s
      <4>3. s \in Seq(Nat)
        BY <4>1, <4>2, SeqMonotonic
      <4>4. \A i \in DOMAIN s : s[i] \in A
        BY <4>2
      <4> QED BY <4>1, <4>3, <4>4
    <3>3. h[n].outputs = s \o Repeated(c, id)
      BY <1>3
    <3> HIDE DEF s, c
    <3>4. id \in Nat
      BY <1>6
    <3>5. Sorted(s \o Repeated(c, id))
      BY <3>1, <3>2, <3>4, SortedConcat
    <3> QED BY <3>3, <3>5
  <2>4. Sorted(h[id].outputs)
    BY <1>5 DEF Sorted
  <2> QED BY <1>6, <2>1, <2>2, <2>3, <2>4 DEF Matching
<1>14. \A n \in Nodes(h) : /\ h[n].op = "const" => h[n].shape = << >>
                           /\ is_leaf(h[n].op) => h[n].inputs = << >>
  BY <1>3, <1>5, <1>6 DEF WellBuilt
<1>15. OutputsMatchInputs(h)
  BY <1>13, MatchingOutputs
<1> QED BY <1>11, <1>12, <1>14, <1>15 DEF WellBuilt, h

-----------------------------------------------------------------------------
(* Kahn's algorithm. *)

KahnRun(f, g, n) ==
  f = [k \in 0 .. n |-> IF k = 0 THEN KahnStart(g) ELSE KahnStep(g, k, f[k - 1])]

LEMMA KahnRunExists ==
  ASSUME NEW g, NEW m \in Nat
  PROVE  \E f : KahnRun(f, g, m)
<1> DEFINE S == {n \in Nat : \E f : KahnRun(f, g, n)}
<1>1. 0 \in S
  <2> DEFINE f == [k \in 0 .. 0 |-> KahnStart(g)]
  <2>1. KahnRun(f, g, 0)
    BY DEF KahnRun
  <2> HIDE DEF f
  <2> QED BY <2>1
<1>2. ASSUME NEW n \in S PROVE n + 1 \in S
  <2>1. n \in Nat
    BY <1>2
  <2>2. PICK f : KahnRun(f, g, n)
    BY <1>2
  <2> DEFINE next == KahnStep(g, n + 1, f[n])
             h == [k \in 0 .. n + 1 |-> IF k = n + 1 THEN next ELSE f[k]]
  <2> HIDE DEF next
  <2>3. ASSUME NEW k \in 0 .. n + 1
        PROVE  h[k] = IF k = 0 THEN KahnStart(g) ELSE KahnStep(g, k, h[k - 1])
    <3>1. CASE k = n + 1
      <4>1. h[k] = next /\ k # 0 /\ k - 1 \in 0 .. n /\ k - 1 = n /\ h[k - 1] = f[n]
        BY <2>1, <3>1
      <4> QED BY <3>1, <4>1 DEF next
    <3>2. CASE k # n + 1
      <4>1. k \in 0 .. n /\ h[k] = f[k]
        BY <2>1, <3>2
      <4>2. k # 0 => h[k - 1] = f[k - 1]
        BY <2>1, <4>1
      <4>3. f[k] = IF k = 0 THEN KahnStart(g) ELSE KahnStep(g, k, f[k - 1])
        BY <2>2, <4>1 DEF KahnRun
      <4> HIDE DEF h
      <4> QED BY <4>1, <4>2, <4>3
    <3> QED BY <3>1, <3>2
  <2>4. h = [k \in 0 .. n + 1 |-> h[k]]
    OBVIOUS
  <2>5. KahnRun(h, g, n + 1)
    <3> HIDE DEF h
    <3> QED BY <2>3, <2>4 DEF KahnRun
  <2> HIDE DEF h
  <2> QED BY <2>1, <2>5
<1>3. S = Nat
  <2> HIDE DEF S
  <2>1. S \in SUBSET Nat
    BY DEF S
  <2> QED BY <1>1, <1>2, <2>1, SetInduction
<1> QED BY <1>3

\* The operands of m that are not among P.
Waiting(g, m, P) == {p \in DOMAIN g[m].inputs : g[m].inputs[p] \notin P}

LEMMA WaitingShrinks ==
  ASSUME NEW g, IsGraph(g), NEW m \in Nodes(g), NEW P, NEW x, x \notin P
  PROVE  /\ IsFiniteSet(Waiting(g, m, P)) /\ Cardinality(Waiting(g, m, P)) \in Nat
         /\ Cardinality(Waiting(g, m, P)) = 0 <=> Waiting(g, m, P) = {}
         /\ Cardinality(Waiting(g, m, P)) - Uses(g, x, m) = Cardinality(Waiting(g, m, P \cup {x}))
         /\ Waiting(g, m, P \cup {x}) \subseteq Waiting(g, m, P)
<1> DEFINE s == g[m].inputs
           W == Waiting(g, m, P)
           V == Waiting(g, m, P \cup {x})
           U == {p \in DOMAIN s : s[p] = x}
<1>1. s \in Seq(Nodes(g))
  BY GraphNodes
<1>2. IsFiniteSet(W)
  <2>1. Len(s) \in Nat /\ DOMAIN s = 1 .. Len(s)
    <3> HIDE DEF s
    <3> QED BY <1>1
  <2>2. IsFiniteSet(1 .. Len(s)) /\ W \in SUBSET (1 .. Len(s))
    BY <2>1, FS_Interval DEF Waiting
  <2> HIDE DEF W
  <2> QED BY <2>2, FS_Subset
<1>3. V = W \ U /\ U \subseteq W
  BY DEF Waiting
<1>4. Uses(g, x, m) = Cardinality(U)
  BY DEF Uses
<1> HIDE DEF W, V, U, s
<1>5. W \cap U = U
  BY <1>3
<1>6. IsFiniteSet(V) /\ Cardinality(V) = Cardinality(W) - Cardinality(U)
  BY <1>2, <1>3, <1>5, FS_Difference, FS_Subset
<1>7. Cardinality(W) \in Nat /\ (Cardinality(W) = 0 <=> W = {})
  BY <1>2, FS_CardinalityType, FS_EmptySet
<1>8. V \subseteq W
  BY <1>3
<1> QED BY <1>2, <1>4, <1>6, <1>7, <1>8 DEF W, V

Placed(k, s) == {s.zeros[j] : j \in 1 .. k \cap DOMAIN s.zeros}

\* After k steps the nodes in the list are those that wait for none of the first k.  Every node in
\* the list comes after its operands; those without operands come first, in ascending order.
KahnTyped(g, s) == s.zeros \in Seq(Nodes(g)) /\ IsInjective(s.zeros)
DegreesCount(g, k, s) ==
  \A m \in Nodes(g) : s.degree[m] = Cardinality(Waiting(g, m, Placed(k, s)))
ZerosAreReady(g, k, s) ==
  \A m \in Nodes(g) : m \in Range(s.zeros) <=> Waiting(g, m, Placed(k, s)) = {}
OperandsFirst(g, order) ==
  \A j \in DOMAIN order : \A p \in DOMAIN g[order[j]].inputs :
    \E i \in 1 .. j - 1 : order[i] = g[order[j]].inputs[p]
LeavesFirst(g, order) ==
  \A i, j \in DOMAIN order :
    g[order[j]].inputs = << >> /\ i < j => order[i] < order[j] /\ g[order[i]].inputs = << >>

KahnInv(g, k, s) ==
  /\ KahnTyped(g, s) /\ DegreesCount(g, k, s) /\ ZerosAreReady(g, k, s)
  /\ OperandsFirst(g, s.zeros) /\ LeavesFirst(g, s.zeros)

LEMMA KahnStartInv ==
  ASSUME NEW g, IsGraph(g)
  PROVE  KahnInv(g, 0, KahnStart(g))
<1> DEFINE L == {m \in Nodes(g) : g[m].inputs = << >>}
           s == KahnStart(g)
<1>0. Len(g) \in Nat /\ L \in SUBSET (1 .. Len(g)) /\ \A m \in Nodes(g) : g[m].inputs \in Seq(Nodes(g))
  BY GraphNodes, GraphOfNodes DEF Nodes
<1>1. /\ s.zeros = Ascending(L)
      /\ \A m \in Nodes(g) : s.degree[m] = Len(g[m].inputs)
  BY DEF KahnStart
<1>2. /\ s.zeros \in Seq(L) /\ Range(s.zeros) = L
      /\ \A i, j \in DOMAIN s.zeros : i < j => s.zeros[i] < s.zeros[j]
  <2> HIDE DEF L, s
  <2> QED BY <1>0, <1>1, AscendingType, AscendingRange
<1>3. Placed(0, s) = {}
  BY DEF Placed
<1> HIDE DEF s
<1>4. \A j \in DOMAIN s.zeros : s.zeros[j] \in L
  BY <1>2 DEF Range
<1>5. KahnTyped(g, s)
  <2>1. s.zeros \in Seq(Nodes(g))
    <3>1. L \subseteq Nodes(g)
      OBVIOUS
    <3> DEFINE N == Nodes(g)
               z == s.zeros
    <3> HIDE DEF L, N, z
    <3>2. z \in Seq(N)
      BY <1>2, <3>1, SeqMonotonic DEF N, z
    <3> QED BY <3>2 DEF N, z
  <2>2. IsInjective(s.zeros)
    <3> DEFINE z == s.zeros
    <3>1. Len(z) \in Nat /\ DOMAIN z = 1 .. Len(z) /\ \A j \in DOMAIN z : z[j] \in Nat
      <4>1. \A m \in L : m \in Nat
        BY <1>0
      <4>2. z \in Seq(L)
        BY <1>2
      <4> HIDE DEF L, z
      <4> QED BY <4>1, <4>2
    <3>2. \A i, j \in DOMAIN z : i < j => z[i] < z[j]
      BY <1>2
    <3> HIDE DEF z
    <3>3. \A i, j \in DOMAIN z : z[i] = z[j] => i = j
      <4> SUFFICES ASSUME NEW i \in DOMAIN z, NEW j \in DOMAIN z, z[i] = z[j] PROVE i = j
        OBVIOUS
      <4>1. ~(i < j) /\ ~(j < i)
        BY <3>1, <3>2
      <4> QED BY <3>1, <4>1
    <3> QED BY <3>3 DEF IsInjective, z
  <2> QED BY <2>1, <2>2 DEF KahnTyped
<1>6. \A m \in Nodes(g) : /\ Waiting(g, m, {}) = DOMAIN g[m].inputs
                          /\ Cardinality(DOMAIN g[m].inputs) = Len(g[m].inputs)
                          /\ DOMAIN g[m].inputs = {} <=> g[m].inputs = << >>
  <2> SUFFICES ASSUME NEW m \in Nodes(g)
               PROVE  /\ Waiting(g, m, {}) = DOMAIN g[m].inputs
                      /\ Cardinality(DOMAIN g[m].inputs) = Len(g[m].inputs)
                      /\ DOMAIN g[m].inputs = {} <=> g[m].inputs = << >>
    OBVIOUS
  <2>1. Waiting(g, m, {}) = DOMAIN g[m].inputs
    BY DEF Waiting
  <2> DEFINE q == g[m].inputs
             N == Nodes(g)
  <2>2. q \in Seq(N)
    BY <1>0
  <2> HIDE DEF q, N
  <2>3. Len(q) \in Nat /\ DOMAIN q = 1 .. Len(q) /\ (q = << >> <=> Len(q) = 0)
    BY <2>2, EmptySeq
  <2>4. Cardinality(DOMAIN q) = Len(q) /\ (DOMAIN q = {} <=> q = << >>)
    <3>1. DOMAIN q = {} <=> Len(q) = 0
      BY <2>3
    <3>2. \A c \in Nat : Cardinality(1 .. c) = c
      BY FS_Interval
    <3> QED BY <2>3, <3>1, <3>2
  <2> QED BY <2>1, <2>4 DEF q
<1>7. DegreesCount(g, 0, s) /\ ZerosAreReady(g, 0, s)
  BY <1>1, <1>2, <1>3, <1>6 DEF DegreesCount, ZerosAreReady
<1>8. OperandsFirst(g, s.zeros) /\ LeavesFirst(g, s.zeros)
  BY <1>2, <1>4 DEF OperandsFirst, LeavesFirst
<1> QED BY <1>5, <1>7, <1>8 DEF KahnInv, s

LEMMA WaitingFinite ==
  ASSUME NEW g, IsGraph(g), NEW m \in Nodes(g), NEW P
  PROVE  /\ Cardinality(Waiting(g, m, P)) \in Nat
         /\ Cardinality(Waiting(g, m, P)) = 0 <=> Waiting(g, m, P) = {}
<1> DEFINE s == g[m].inputs
           W == Waiting(g, m, P)
<1>1. s \in Seq(Nodes(g))
  BY GraphNodes
<1>2. IsFiniteSet(W)
  <2>1. Len(s) \in Nat /\ DOMAIN s = 1 .. Len(s)
    <3> HIDE DEF s
    <3> QED BY <1>1
  <2>2. IsFiniteSet(1 .. Len(s)) /\ W \in SUBSET (1 .. Len(s))
    BY <2>1, FS_Interval DEF Waiting
  <2> HIDE DEF W
  <2> QED BY <2>2, FS_Subset
<1> HIDE DEF W
<1>3. Cardinality(W) \in Nat /\ (Cardinality(W) = 0 <=> W = {})
  BY <1>2, FS_CardinalityType, FS_EmptySet
<1> QED BY <1>3 DEF W

\* The k-th step takes the k-th node of the list and appends those that waited for it only.
LEMMA KahnStepInv ==
  ASSUME NEW g, IsGraph(g), NEW k \in Nat \ {0}, NEW s, KahnInv(g, k - 1, s)
  PROVE  KahnInv(g, k, KahnStep(g, k, s))
<1> DEFINE N == Nodes(g)
           z == s.zeros
           x == z[k]
           P == Placed(k - 1, s)
           Q == Placed(k, s)
           t == KahnStep(g, k, s)
           degree == [m \in N |-> s.degree[m] - Uses(g, x, m)]
           ready == {m \in N : degree[m] = 0 /\ s.degree[m] > 0}
           new == Ascending(ready)
<1>1. /\ z \in Seq(N) /\ IsInjective(z) /\ Len(z) \in Nat /\ DOMAIN z = 1 .. Len(z)
      /\ \A m \in N : s.degree[m] = Cardinality(Waiting(g, m, P))
      /\ \A m \in N : m \in Range(z) <=> Waiting(g, m, P) = {}
      /\ OperandsFirst(g, z) /\ LeavesFirst(g, z)
  <2>1. z \in Seq(N) /\ IsInjective(z)
    BY DEF KahnInv, KahnTyped
  <2>2. Len(z) \in Nat /\ DOMAIN z = 1 .. Len(z)
    <3> HIDE DEF z, N
    <3> QED BY <2>1
  <2> QED BY <2>1, <2>2 DEF KahnInv, DegreesCount, ZerosAreReady
<1>2. CASE k > Len(z)
  <2>1. t = s
    BY <1>2 DEF KahnStep
  <2>2. (1 .. k) \cap DOMAIN z = (1 .. k - 1) \cap DOMAIN z
    BY <1>1, <1>2
  <2>3. Q = P
    BY <2>2 DEF Placed
  <2> QED BY <2>1, <2>3 DEF KahnInv, DegreesCount, ZerosAreReady
<1>3. CASE ~(k > Len(z))
  <2>0. k \in DOMAIN z
    BY <1>1, <1>3
  <2>1. t.zeros = z \o new /\ \A m \in N : t.degree[m] = degree[m]
    BY <1>3 DEF KahnStep
  <2>2. x \notin P /\ Q = P \cup {x}
    <3>1. \A j \in (1 .. k - 1) \cap DOMAIN z : z[j] # x
      <4>1. \A j \in 1 .. k - 1 : j # k
        OBVIOUS
      <4> QED BY <1>1, <2>0, <4>1 DEF IsInjective
    <3>2. (1 .. k) \cap DOMAIN z = ((1 .. k - 1) \cap DOMAIN z) \cup {k}
      BY <2>0
    <3> QED BY <3>1, <3>2 DEF Placed
  <2>3. \A m \in N : /\ Cardinality(Waiting(g, m, P)) \in Nat
                     /\ Cardinality(Waiting(g, m, P)) = 0 <=> Waiting(g, m, P) = {}
                     /\ degree[m] = Cardinality(Waiting(g, m, Q))
                     /\ Waiting(g, m, Q) \subseteq Waiting(g, m, P)
    <3> HIDE DEF P, Q, x
    <3> QED BY <1>1, <2>2, WaitingShrinks
  <2>4. \A m \in N : /\ Cardinality(Waiting(g, m, Q)) \in Nat
                     /\ Cardinality(Waiting(g, m, Q)) = 0 <=> Waiting(g, m, Q) = {}
    <3> HIDE DEF Q
    <3> QED BY WaitingFinite
  <2> HIDE DEF P, Q, x, degree
  <2>5. ready \in SUBSET (1 .. Len(g)) /\ Len(g) \in Nat
    BY GraphOfNodes DEF Nodes
  <2>6. \A m \in N : m \in ready <=> Waiting(g, m, Q) = {} /\ Waiting(g, m, P) # {}
    <3> SUFFICES ASSUME NEW m \in N
                 PROVE  m \in ready <=> Waiting(g, m, Q) = {} /\ Waiting(g, m, P) # {}
      OBVIOUS
    <3>1. degree[m] = 0 <=> Waiting(g, m, Q) = {}
      BY <2>3, <2>4
    <3>2. s.degree[m] > 0 <=> Waiting(g, m, P) # {}
      BY <1>1, <2>3
    <3> QED BY <3>1, <3>2
  <2>7. new \in Seq(ready) /\ Range(new) = ready
        /\ \A i, j \in DOMAIN new : i < j => new[i] < new[j]
    <3> HIDE DEF ready
    <3> QED BY <2>5, AscendingType, AscendingRange
  <2>8. ready \subseteq N /\ ready \cap Range(z) = {}
    BY <1>1, <2>6
  <2> HIDE DEF ready, new, t
  <2> DEFINE y == t.zeros
             n == Len(z)
             c == Len(new)
  <2>9. new \in Seq(N) /\ z \in Seq(N) /\ c \in Nat /\ DOMAIN new = 1 .. c /\ n \in Nat
    BY <1>1, <2>7, <2>8, SeqMonotonic
  <2>10. /\ y \in Seq(N) /\ DOMAIN y = 1 .. n + c
         /\ \A i \in 1 .. n + c : y[i] = IF i <= n THEN z[i] ELSE new[i - n]
         /\ Range(y) = Range(z) \cup ready
    <3> HIDE DEF N, z
    <3>1. Range(z \o new) = Range(z) \cup Range(new)
      BY <2>9, RangeConcat
    <3> QED BY <2>1, <2>7, <2>9, <3>1
  <2> HIDE DEF N, y, n, c
  <2>11. n = Len(z) /\ k \in 1 .. n /\ \A i \in 1 .. n : y[i] = z[i] /\ i \in 1 .. n + c
    <3>1. n = Len(z)
      BY DEF n
    <3>2. k \in 1 .. n
      BY <1>1, <2>0, <3>1
    <3>3. \A i \in 1 .. n : i \in 1 .. n + c /\ i <= n
      BY <2>9
    <3> QED BY <2>10, <3>1, <3>2, <3>3
  <2>12. \A i \in 1 .. n + c : ~(i <= n) => i - n \in 1 .. c /\ y[i] = new[i - n] /\ y[i] \in ready
    <3> SUFFICES ASSUME NEW i \in 1 .. n + c, ~(i <= n)
                 PROVE  i - n \in 1 .. c /\ y[i] = new[i - n] /\ y[i] \in ready
      OBVIOUS
    <3>1. i - n \in 1 .. c
      BY <2>9
    <3>2. y[i] = new[i - n]
      BY <2>10
    <3>3. new[i - n] \in ready
      BY <2>7, <2>9, <3>1 DEF Range
    <3> QED BY <3>1, <3>2, <3>3
  <2>13. Placed(k, t) = Q
    <3>1. \A j \in 1 .. k : j \in DOMAIN z /\ j \in DOMAIN y /\ y[j] = z[j]
      <4>1. \A j \in 1 .. k : j \in 1 .. n
        BY <2>9, <2>11
      <4> QED BY <1>1, <2>10, <2>11, <4>1
    <3>2. (1 .. k) \cap DOMAIN y = 1 .. k /\ (1 .. k) \cap DOMAIN z = 1 .. k
      BY <3>1
    <3> QED BY <3>1, <3>2 DEF Placed, Q, y
  <2>14. KahnTyped(g, t)
    <3>1. ASSUME NEW i \in 1 .. n + c, NEW j \in 1 .. n + c, y[i] = y[j] PROVE i = j
      <4>1. CASE i <= n /\ j <= n
        <5>1. i \in DOMAIN z /\ j \in DOMAIN z /\ z[i] = z[j]
          BY <1>1, <2>9, <2>11, <3>1, <4>1
        <5> QED BY <1>1, <5>1 DEF IsInjective
      <4>2. CASE ~(i <= n) /\ ~(j <= n)
        <5>1. i - n \in 1 .. c /\ j - n \in 1 .. c /\ new[i - n] = new[j - n]
          BY <2>12, <3>1, <4>2
        <5>2. new[i - n] \in Nat
          <6>1. \A m \in ready : m \in Nat
            BY <2>5
          <6>2. new[i - n] \in ready
            BY <2>12, <4>2
          <6> QED BY <6>1, <6>2
        <5>3. ~(i - n < j - n) /\ ~(j - n < i - n)
          BY <2>7, <2>9, <5>1, <5>2
        <5> QED BY <2>9, <5>3
      <4>3. ASSUME NEW a \in 1 .. n + c, NEW b \in 1 .. n + c, a <= n, ~(b <= n)
            PROVE  y[a] # y[b]
        <5>1. a \in DOMAIN z /\ y[a] = z[a]
          BY <1>1, <2>9, <2>11, <4>3
        <5>2. y[a] \in Range(z) /\ y[b] \in ready
          BY <2>12, <4>3, <5>1 DEF Range
        <5> QED BY <2>8, <5>2
      <4> QED BY <3>1, <4>1, <4>2, <4>3
    <3>2. IsInjective(y)
      BY <2>10, <3>1 DEF IsInjective
    <3> QED BY <2>10, <3>2 DEF KahnTyped, y, N
  <2>15. DegreesCount(g, k, t) /\ ZerosAreReady(g, k, t)
    <3>1. \A m \in N : m \in Range(y) <=> Waiting(g, m, Q) = {}
      BY <1>1, <2>3, <2>6, <2>10
    <3> QED BY <2>1, <2>3, <2>13, <3>1 DEF DegreesCount, ZerosAreReady, y, N
  <2>16. OperandsFirst(g, y)
    <3> SUFFICES ASSUME NEW j \in 1 .. n + c, NEW p \in DOMAIN g[y[j]].inputs
                 PROVE  \E i \in 1 .. j - 1 : y[i] = g[y[j]].inputs[p]
      BY <2>10 DEF OperandsFirst
    <3>1. CASE j <= n
      <4>1. j \in DOMAIN z /\ y[j] = z[j]
        BY <1>1, <2>9, <2>11, <3>1
      <4>2. PICK i \in 1 .. j - 1 : z[i] = g[z[j]].inputs[p]
        BY <1>1, <4>1 DEF OperandsFirst
      <4>3. i \in 1 .. n
        BY <2>9, <3>1
      <4> QED BY <2>11, <4>1, <4>2, <4>3
    <3>2. CASE ~(j <= n)
      <4>1. y[j] \in ready /\ y[j] \in N
        BY <2>8, <2>12, <3>2
      <4>2. g[y[j]].inputs[p] \in Q
        BY <2>6, <4>1 DEF Waiting
      <4>3. PICK i \in (1 .. k) \cap DOMAIN z : z[i] = g[y[j]].inputs[p]
        BY <4>2 DEF Q, Placed
      <4>4. i \in 1 .. n /\ i \in 1 .. j - 1
        BY <2>9, <2>11, <3>2
      <4> QED BY <2>11, <4>3, <4>4
    <3> QED BY <3>1, <3>2
  <2>17. LeavesFirst(g, y)
    <3> SUFFICES ASSUME NEW i \in 1 .. n + c, NEW j \in 1 .. n + c, g[y[j]].inputs = << >>, i < j
                 PROVE  y[i] < y[j] /\ g[y[i]].inputs = << >>
      BY <2>10 DEF LeavesFirst
    <3>1. j <= n
      <4> SUFFICES ASSUME ~(j <= n) PROVE FALSE
        OBVIOUS
      <4>1. Waiting(g, y[j], P) # {}
        BY <2>6, <2>8, <2>12
      <4>2. DOMAIN << >> = {}
        OBVIOUS
      <4> QED BY <4>1, <4>2 DEF Waiting
    <3>2. i \in DOMAIN z /\ j \in DOMAIN z /\ y[i] = z[i] /\ y[j] = z[j]
      <4>1. i \in 1 .. n /\ j \in 1 .. n
        BY <2>9, <3>1
      <4> QED BY <1>1, <2>11, <4>1
    <3> QED BY <1>1, <3>2 DEF LeavesFirst
  <2> QED BY <2>14, <2>15, <2>16, <2>17 DEF KahnInv, t, y
<1> QED BY <1>2, <1>3

\* A list of all nodes of g, each once, operands first.
IsOrder(order, g) ==
  /\ order \in Seq(Nodes(g)) /\ IsInjective(order) /\ Range(order) = Nodes(g)
  /\ Len(order) = Len(g) /\ OperandsFirst(g, order) /\ LeavesFirst(g, order)

LEMMA InjectiveLength ==
  ASSUME NEW m \in Nat, NEW s \in Seq(1 .. m), IsInjective(s)
  PROVE  Len(s) <= m /\ (Range(s) = 1 .. m => Len(s) = m)
<1> DEFINE n == Len(s)
           T == 1 .. m
<1>1. n \in Nat /\ DOMAIN s = 1 .. n /\ s \in [1 .. n -> T]
  OBVIOUS
<1>2. s \in Injection(1 .. n, T)
  BY <1>1 DEF IsInjective, Injection
<1>3. IsFiniteSet(T) /\ Cardinality(T) = m
  BY FS_Interval
<1>4. \A c \in Nat : Cardinality(1 .. c) = c
  BY FS_Interval
<1>5. Range(s) = T => s \in Surjection(1 .. n, T)
  BY <1>1 DEF Surjection, Range
<1> HIDE DEF T, n
<1>6. /\ Cardinality(1 .. n) <= Cardinality(T)
      /\ s \in Surjection(1 .. n, T) => Cardinality(1 .. n) = Cardinality(T)
  BY <1>2, <1>3, FS_Injection
<1>7. Cardinality(1 .. n) = n
  BY <1>1, <1>4
<1> QED BY <1>3, <1>5, <1>6, <1>7 DEF n, T

\* topo_sort orders all nodes of a graph whose nodes come after their operands: it reports no cycle.
LEMMA KahnOrderIsOrder ==
  ASSUME NEW g, IsGraph(g), TopologicallyOrdered(g)
  PROVE  IsOrder(KahnOrder(g), g)
<1> DEFINE n == Len(g)
           f == CHOOSE h : KahnRun(h, g, n)
<1>1. n \in Nat
  BY GraphOfNodes
<1>2. KahnRun(f, g, n)
  <2>1. \E h : KahnRun(h, g, n)
    <3> HIDE DEF n
    <3> QED BY <1>1, KahnRunExists
  <2> QED BY <2>1
<1>3. KahnOrder(g) = f[n].zeros
  BY DEF KahnOrder, KahnRun
<1> HIDE DEF f, n
<1>4. f[0] = KahnStart(g) /\ \A k \in 1 .. n : f[k] = KahnStep(g, k, f[k - 1])
  <2>1. \A k \in 0 .. n : f[k] = IF k = 0 THEN KahnStart(g) ELSE KahnStep(g, k, f[k - 1])
    BY <1>2 DEF KahnRun
  <2>2. 0 \in 0 .. n /\ \A k \in 1 .. n : k \in 0 .. n /\ k # 0
    BY <1>1
  <2> QED BY <2>1, <2>2
<1>5. KahnInv(g, n, f[n])
  <2> DEFINE T == {k \in Nat : k \in 0 .. n => KahnInv(g, k, f[k])}
  <2>1. 0 \in T
    BY <1>4, KahnStartInv
  <2>2. ASSUME NEW k \in T PROVE k + 1 \in T
    <3>1. CASE k + 1 \in 0 .. n
      <4>1. k \in Nat /\ k \in 0 .. n /\ k + 1 \in 1 .. n /\ k + 1 \in Nat \ {0} /\ (k + 1) - 1 = k
        BY <1>1, <3>1
      <4>2. KahnInv(g, k, f[k]) /\ f[k + 1] = KahnStep(g, k + 1, f[k])
        BY <1>4, <2>2, <4>1
      <4>3. \A j \in Nat \ {0} : KahnInv(g, j - 1, f[k]) => KahnInv(g, j, KahnStep(g, j, f[k]))
        BY KahnStepInv
      <4>4. KahnInv(g, k + 1, f[k + 1])
        BY <4>1, <4>2, <4>3
      <4> QED BY <4>1, <4>4
    <3>2. CASE k + 1 \notin 0 .. n
      BY <2>2, <3>2
    <3> QED BY <3>1, <3>2
  <2>3. T = Nat
    <3> HIDE DEF T
    <3>1. T \in SUBSET Nat
      BY DEF T
    <3> QED BY <2>1, <2>2, <3>1, SetInduction
  <2> QED BY <1>1, <2>3
<1> DEFINE s == f[n]
           z == s.zeros
<1> HIDE DEF s
<1>6. /\ z \in Seq(Nodes(g)) /\ IsInjective(z) /\ OperandsFirst(g, z) /\ LeavesFirst(g, z)
      /\ \A m \in Nodes(g) : m \in Range(z) <=> Waiting(g, m, Placed(n, s)) = {}
  BY <1>5 DEF KahnInv, KahnTyped, ZerosAreReady, s
<1> HIDE DEF z
<1>7. z \in Seq(1 .. n) /\ Nodes(g) = 1 .. n
  BY <1>6 DEF Nodes, n
<1>8. Len(z) \in Nat /\ DOMAIN z = 1 .. Len(z) /\ Len(z) <= n
  <2>1. Len(z) <= n
    BY <1>1, <1>6, <1>7, InjectiveLength
  <2> QED BY <1>7, <2>1
<1>9. Placed(n, s) = Range(z)
  <2>1. (1 .. n) \cap DOMAIN z = DOMAIN z
    BY <1>1, <1>8
  <2> QED BY <2>1 DEF Placed, Range, z
<1>10. Range(z) = Nodes(g)
  <2> DEFINE T == {m \in Nat : \A h \in 1 .. m : h \in 1 .. n => h \in Range(z)}
  <2>1. 0 \in T
    OBVIOUS
  <2>2. ASSUME NEW m \in T PROVE m + 1 \in T
    <3>1. m \in Nat /\ \A h \in 1 .. m : h \in 1 .. n => h \in Range(z)
      BY <2>2
    <3>2. ASSUME m + 1 \in 1 .. n PROVE m + 1 \in Range(z)
      <4>1. m + 1 \in Nodes(g)
        BY <1>7, <3>2
      <4>2. \A p \in DOMAIN g[m + 1].inputs : g[m + 1].inputs[p] \in Range(z)
        <5> SUFFICES ASSUME NEW p \in DOMAIN g[m + 1].inputs
                     PROVE  g[m + 1].inputs[p] \in Range(z)
          OBVIOUS
        <5> DEFINE q == g[m + 1].inputs
                   N == Nodes(g)
        <5>1. q \in Seq(N)
          BY <4>1, GraphNodes
        <5>2. q[p] \in N
          <6> HIDE DEF N, q
          <6>1. p \in DOMAIN q
            BY DEF q
          <6> QED BY <5>1, <6>1
        <5>3. q[p] < m + 1
          BY <4>1 DEF TopologicallyOrdered
        <5>4. q[p] \in 1 .. n
          BY <1>7, <5>2
        <5> HIDE DEF q
        <5>5. q[p] \in 1 .. m
          BY <1>1, <3>1, <5>3, <5>4
        <5> QED BY <3>1, <5>4, <5>5 DEF q
      <4>3. Waiting(g, m + 1, Range(z)) = {}
        BY <4>2 DEF Waiting
      <4> QED BY <1>6, <1>9, <4>1, <4>3
    <3>3. \A h \in 1 .. m + 1 : h \in 1 .. m \/ h = m + 1
      BY <3>1
    <3> QED BY <3>1, <3>2, <3>3
  <2>3. T = Nat
    <3> HIDE DEF T
    <3>1. T \in SUBSET Nat
      BY DEF T
    <3> QED BY <2>1, <2>2, <3>1, SetInduction
  <2>4. 1 .. n \subseteq Range(z)
    BY <1>1, <2>3
  <2>5. Range(z) \subseteq 1 .. n
    <3> DEFINE N == 1 .. n
    <3>1. z \in Seq(N)
      BY <1>7
    <3> HIDE DEF N
    <3>2. Range(z) \subseteq N
      BY <3>1 DEF Range
    <3> QED BY <3>2 DEF N
  <2> QED BY <1>7, <2>4, <2>5
<1>11. Len(z) = n
  BY <1>1, <1>6, <1>7, <1>10, InjectiveLength
<1> QED BY <1>3, <1>6, <1>10, <1>11 DEF IsOrder, z, s, n

-----------------------------------------------------------------------------
(* Renumbering. *)

\* h has the nodes of g in the given order, their operands renumbered and their users forgotten.
Renumbered(h, g, order) ==
  /\ h = [k \in 1 .. Len(g) |-> h[k]] /\ Len(h) = Len(g)
  /\ \A k \in Nodes(g) :
       /\ h[k] = [op |-> g[order[k]].op, inputs |-> h[k].inputs, outputs |-> << >>,
                  shape |-> g[order[k]].shape]
       /\ h[k].inputs \in Seq(Nodes(g)) /\ DOMAIN h[k].inputs = DOMAIN g[order[k]].inputs
       /\ \A p \in DOMAIN g[order[k]].inputs :
            /\ h[k].inputs[p] \in 1 .. k - 1
            /\ order[h[k].inputs[p]] = g[order[k]].inputs[p]

LEMMA WithEdges ==
  ASSUME NEW S, NEW r \in [op : OpNames, inputs : S, outputs : S, shape : Seq(Nat)],
         NEW operands, NEW users
  PROVE  [r EXCEPT !.inputs = operands, !.outputs = users] =
           [op |-> r.op, inputs |-> operands, outputs |-> users, shape |-> r.shape]
<1> DEFINE a == r.op
           d == r.shape
           t == [op |-> a, inputs |-> operands, outputs |-> r.outputs, shape |-> d]
<1>1. [r EXCEPT !.inputs = operands] = t
  OBVIOUS
<1>2. [r EXCEPT !.inputs = operands, !.outputs = users] = [[r EXCEPT !.inputs = operands] EXCEPT !.outputs = users]
  OBVIOUS
<1>3. [t EXCEPT !.outputs = users] = [op |-> a, inputs |-> operands, outputs |-> users, shape |-> d]
  OBVIOUS
<1> QED BY <1>1, <1>2, <1>3

LEMMA OrderFacts ==
  ASSUME NEW g, NEW order, IsOrder(order, g), Len(g) \in Nat
  PROVE  /\ DOMAIN order = Nodes(g) /\ Nodes(g) = 1 .. Len(g)
         /\ \A k \in Nodes(g) : order[k] \in Nodes(g)
         /\ \A k, j \in Nodes(g) : order[k] = order[j] => k = j
         /\ \A m \in Nodes(g) : \E k \in Nodes(g) : order[k] = m
<1> DEFINE N == Nodes(g)
<1>1. order \in Seq(N) /\ Len(order) = Len(g) /\ N = 1 .. Len(g)
  BY DEF IsOrder, Nodes
<1>2. DOMAIN order = N /\ \A k \in N : order[k] \in N
  <2> HIDE DEF N
  <2>1. DOMAIN order = 1 .. Len(g)
    BY <1>1
  <2> QED BY <1>1, <2>1
<1> HIDE DEF N
<1>3. \A k, j \in N : order[k] = order[j] => k = j
  BY <1>2 DEF IsOrder, IsInjective
<1>4. \A m \in N : \E k \in N : order[k] = m
  BY <1>2 DEF IsOrder, Range, N
<1> QED BY <1>1, <1>2, <1>3, <1>4 DEF N

LEMMA TopoSortRenumbers ==
  ASSUME NEW g, IsGraph(g), TopologicallyOrdered(g)
  PROVE  Renumbered(topo_sort(g), g, KahnOrder(g)) /\ IsOrder(KahnOrder(g), g)
<1> DEFINE N == Nodes(g)
           order == KahnOrder(g)
           position(m) == CHOOSE k \in DOMAIN order : order[k] = m
           h == topo_sort(g)
<1>1. IsOrder(order, g)
  BY KahnOrderIsOrder
<1>2. h = [k \in DOMAIN order |->
             [g[order[k]] EXCEPT !.inputs = [p \in DOMAIN @ |-> position(@[p])], !.outputs = << >>]]
  BY DEF topo_sort
<1> HIDE DEF order
<1>3. Len(g) \in Nat /\ \A n \in N : g[n] \in NodesOf(g)
  BY GraphOfNodes
<1>4. /\ DOMAIN order = N /\ N = 1 .. Len(g) /\ \A k \in N : order[k] \in N
      /\ \A k, j \in N : order[k] = order[j] => k = j
  BY <1>1, <1>3, OrderFacts
<1>5. \A n \in N : g[n].inputs \in Seq(N)
  BY GraphNodes
<1> HIDE DEF h
<1>6. ASSUME NEW k \in N
      PROVE  /\ h[k].inputs = [p \in DOMAIN g[order[k]].inputs |-> position(g[order[k]].inputs[p])]
             /\ h[k] = [op |-> g[order[k]].op, inputs |-> h[k].inputs, outputs |-> << >>,
                        shape |-> g[order[k]].shape]
  <2> DEFINE r == g[order[k]]
             ins == [p \in DOMAIN r.inputs |-> position(r.inputs[p])]
  <2>1. h[k] = [r EXCEPT !.inputs = ins, !.outputs = << >>]
    BY <1>2, <1>4
  <2>2. r \in [op : OpNames, inputs : Seq(N), outputs : Seq(N), shape : Seq(Nat)]
    BY <1>3, <1>4 DEF NodesOf
  <2> HIDE DEF r, ins, N
  <2>3. h[k] = [op |-> r.op, inputs |-> ins, outputs |-> << >>, shape |-> r.shape]
    BY <2>1, <2>2, WithEdges
  <2>4. h[k].inputs = ins
    BY <2>3
  <2> QED BY <2>3, <2>4 DEF r, ins
<1> HIDE DEF position
<1>7. ASSUME NEW k \in N, NEW p \in DOMAIN g[order[k]].inputs
      PROVE  /\ position(g[order[k]].inputs[p]) \in 1 .. k - 1
             /\ position(g[order[k]].inputs[p]) \in N
             /\ order[position(g[order[k]].inputs[p])] = g[order[k]].inputs[p]
  <2> DEFINE m == g[order[k]].inputs[p]
  <2>1. PICK i \in 1 .. k - 1 : order[i] = m
    BY <1>1, <1>4 DEF IsOrder, OperandsFirst
  <2> HIDE DEF m
  <2>2. i \in N
    BY <1>3, <1>4, <2>1
  <2>3. position(m) \in N /\ order[position(m)] = m
    BY <1>4, <2>1, <2>2 DEF position
  <2>4. position(m) = i
    BY <1>4, <2>1, <2>2, <2>3
  <2> QED BY <2>1, <2>3, <2>4 DEF m
<1>8. ASSUME NEW k \in N
      PROVE  /\ h[k].inputs \in Seq(N) /\ DOMAIN h[k].inputs = DOMAIN g[order[k]].inputs
             /\ \A p \in DOMAIN g[order[k]].inputs :
                  /\ h[k].inputs[p] \in 1 .. k - 1
                  /\ order[h[k].inputs[p]] = g[order[k]].inputs[p]
  <2> DEFINE q == g[order[k]].inputs
             ins == h[k].inputs
  <2>1. q \in Seq(N)
    BY <1>4, <1>5
  <2>2. Len(q) \in Nat /\ DOMAIN q = 1 .. Len(q)
    <3> HIDE DEF q, N
    <3> QED BY <2>1
  <2>3. \A p \in DOMAIN q : /\ position(q[p]) \in 1 .. k - 1 /\ position(q[p]) \in N
                            /\ order[position(q[p])] = q[p]
    BY <1>7
  <2>4. ins = [p \in DOMAIN q |-> position(q[p])]
    BY <1>6
  <2> HIDE DEF q, ins, N
  <2>5. ins \in Seq(N)
    BY <2>2, <2>3, <2>4
  <2>6. DOMAIN ins = DOMAIN q /\ \A p \in DOMAIN q : ins[p] \in 1 .. k - 1 /\ order[ins[p]] = q[p]
    BY <2>3, <2>4
  <2> QED BY <2>5, <2>6 DEF q, ins
<1>9. h = [k \in 1 .. Len(g) |-> h[k]] /\ Len(h) = Len(g)
  <2>1. h = [k \in N |-> h[k]]
    BY <1>2, <1>4
  <2> QED BY <1>3, <1>4, <2>1
<1>10. Renumbered(h, g, order)
  BY <1>6, <1>8, <1>9 DEF Renumbered
<1> QED BY <1>1, <1>10 DEF h, order

\* What a renumbered graph is before its outputs are rebuilt.
LEMMA RenumberedGraph ==
  ASSUME NEW g, IsGraph(g), NEW order, IsOrder(order, g), NEW h, Renumbered(h, g, order)
  PROVE  IsGraph(h) /\ TopologicallyOrdered(h) /\ Nodes(h) = Nodes(g)
<1> DEFINE N == Nodes(g)
<1>1. Len(g) \in Nat /\ Nodes(h) = N
  BY GraphOfNodes DEF Renumbered, Nodes
<1>2. \A k \in N : order[k] \in N
  BY <1>1, OrderFacts
<1>3. \A n \in N : g[n].op \in OpNames /\ g[n].shape \in Seq(Nat)
  BY GraphNodes, GraphShapes
<1>4. ASSUME NEW k \in N PROVE h[k] \in NodesOf(h)
  <2> DEFINE a == g[order[k]].op
             b == h[k].inputs
             d == g[order[k]].shape
  <2>1. a \in OpNames /\ b \in Seq(N) /\ d \in Seq(Nat)
    BY <1>2, <1>3 DEF Renumbered
  <2>4. << >> \in Seq(N)
    <3> HIDE DEF N
    <3> QED OBVIOUS
  <2>2. h[k] = [op |-> a, inputs |-> b, outputs |-> << >>, shape |-> d]
    BY DEF Renumbered
  <2> HIDE DEF a, b, d
  <2>3. [op |-> a, inputs |-> b, outputs |-> << >>, shape |-> d] \in NodesOf(h)
    BY <1>1, <2>1, <2>4 DEF NodesOf
  <2> QED BY <2>2, <2>3
<1>5. IsGraph(h)
  BY <1>1, <1>4, GraphOfNodes DEF Renumbered
<1>6. TopologicallyOrdered(h)
  <2>1. ASSUME NEW k \in N, NEW p \in DOMAIN h[k].inputs PROVE h[k].inputs[p] < k
    <3>1. h[k].inputs[p] \in 1 .. k - 1
      BY <2>1 DEF Renumbered
    <3>2. k \in Nat
      BY <1>1 DEF Nodes
    <3> QED BY <3>1, <3>2
  <2> QED BY <1>1, <2>1 DEF TopologicallyOrdered
<1> QED BY <1>1, <1>5, <1>6

-----------------------------------------------------------------------------
(* The outputs are rebuilt. *)

LEMMA CountInRepeated ==
  ASSUME NEW c \in Nat, NEW u, NEW x
  PROVE  Count(Repeated(c, u), x) = IF x = u THEN c ELSE 0
<1>1. Repeated(c, u) \in Seq({u}) /\ Count(Repeated(c, u), u) = c
  BY CountRepeated
<1>2. x # u => x \notin {u}
  OBVIOUS
<1> QED BY <1>1, <1>2, CountAbsent

\* What rebuild_outputs lists of the first i nodes: each as often as counts says, in order.
Listed(s, i, n, counts) ==
  /\ s \in Seq(1 .. n) /\ Sorted(s) /\ \A j \in DOMAIN s : s[j] <= i
  /\ \A u \in 1 .. n : Count(s, u) = IF u <= i THEN counts[u] ELSE 0

LEMMA ListedFirst ==
  ASSUME NEW n \in Nat, n # 0, NEW counts \in [1 .. n -> Nat]
  PROVE  Listed(Repeated(counts[1], 1), 1, n, counts)
<1> DEFINE c == counts[1]
           s == Repeated(c, 1)
           N == 1 .. n
<1>1. 1 \in N /\ c \in Nat
  OBVIOUS
<1>2. s \in [1 .. c -> {1}] /\ DOMAIN s = 1 .. c /\ \A j \in 1 .. c : s[j] = 1
  BY DEF Repeated
<1> HIDE DEF c, N
<1>3. s \in Seq(N)
  BY <1>1, <1>2
<1>4. \A u : Count(s, u) = IF u = 1 THEN c ELSE 0
  BY <1>1, CountInRepeated
<1> HIDE DEF s
<1>5. Sorted(s)
  <2>1. ASSUME NEW k \in DOMAIN s, k > 1 PROVE s[k - 1] <= s[k]
    <3>1. k - 1 \in 1 .. c
      BY <1>1, <1>2, <2>1
    <3> QED BY <1>2, <2>1, <3>1
  <2> QED BY <2>1 DEF Sorted
<1>6. \A j \in DOMAIN s : s[j] <= 1
  BY <1>2
<1>7. \A u \in N : u <= 1 <=> u = 1
  BY DEF N
<1>8. \A u \in N : Count(s, u) = IF u <= 1 THEN counts[u] ELSE 0
  BY <1>4, <1>7 DEF c
<1> QED BY <1>3, <1>5, <1>6, <1>8 DEF Listed, s, c, N

LEMMA ListedNext ==
  ASSUME NEW n \in Nat, NEW counts \in [1 .. n -> Nat], NEW i \in Nat, NEW j \in 1 .. n, j = i + 1,
         NEW s, Listed(s, i, n, counts)
  PROVE  Listed(s \o Repeated(counts[j], j), j, n, counts)
<1> DEFINE N == 1 .. n
           c == counts[j]
           t == Repeated(c, j)
           w == s \o t
<1>1. c \in Nat /\ j \in N /\ N \subseteq Nat
  OBVIOUS
<1>2. s \in Seq(N) /\ Sorted(s) /\ \A k \in DOMAIN s : s[k] <= i
  BY DEF Listed
<1>3. \A u \in N : Count(s, u) = IF u <= i THEN counts[u] ELSE 0
  BY DEF Listed
<1>4. \A u : Count(t, u) = IF u = j THEN c ELSE 0
  BY <1>1, CountInRepeated
<1>5. t \in Seq(N)
  <2> HIDE DEF c, N
  <2> QED BY <1>1 DEF Repeated
<1>6. w \in Seq(N) /\ \A u : Count(w, u) = Count(s, u) + Count(t, u)
  <2> HIDE DEF t, N
  <2>1. w \in Seq(N)
    BY <1>2, <1>5
  <2>2. \A u : Count(w, u) = Count(s, u) + Count(t, u)
    BY <1>2, <1>5, CountConcat
  <2> QED BY <2>1, <2>2
<1>7. Sorted(w) /\ \A k \in DOMAIN w : w[k] <= j
  <2>1. s \in Seq(Nat) /\ \A k \in DOMAIN s : s[k] <= j
    <3>1. \A k \in DOMAIN s : s[k] <= j
      <4> SUFFICES ASSUME NEW k \in DOMAIN s PROVE s[k] <= j
        OBVIOUS
      <4>1. s[k] \in N
        <5> HIDE DEF N
        <5> QED BY <1>2
      <4> QED BY <1>2, <4>1
    <3>2. s \in Seq(Nat)
      <4> HIDE DEF N
      <4> QED BY <1>1, <1>2, SeqMonotonic
    <3> QED BY <1>2, <3>1, <3>2
  <2> HIDE DEF c
  <2>2. j \in Nat
    OBVIOUS
  <2> QED BY <1>1, <1>2, <2>1, <2>2, SortedConcat
<1>8. ASSUME NEW u \in N PROVE Count(w, u) = IF u <= j THEN counts[u] ELSE 0
  <2>1. Count(w, u) = (IF u <= i THEN counts[u] ELSE 0) + (IF u = j THEN c ELSE 0)
    BY <1>3, <1>4, <1>6
  <2>2. counts[u] \in Nat
    OBVIOUS
  <2> HIDE DEF w
  <2> QED BY <2>1, <2>2
<1> QED BY <1>6, <1>7, <1>8 DEF Listed

UsersOf(g, m) == FlattenSeq([u \in Nodes(g) |-> [k \in 1 .. Uses(g, m, u) |-> u]])

LEMMA UsersListed ==
  ASSUME NEW g, IsGraph(g), NEW m \in Nodes(g)
  PROVE  /\ UsersOf(g, m) \in Seq(Nodes(g)) /\ Sorted(UsersOf(g, m))
         /\ \A u \in Nodes(g) : Count(UsersOf(g, m), u) = Count(g[u].inputs, m)
<1> DEFINE n == Len(g)
           counts == [u \in 1 .. n |-> Count(g[u].inputs, m)]
           ss == [u \in 1 .. n |-> Repeated(counts[u], u)]
<1>1. n \in Nat /\ n # 0 /\ Nodes(g) = 1 .. n
  <2>1. n \in Nat
    BY GraphOfNodes
  <2> QED BY <2>1 DEF Nodes
<1>2. counts \in [1 .. n -> Nat]
  <2>1. \A u \in 1 .. n : g[u].inputs \in Seq(Nodes(g))
    BY <1>1, GraphNodes
  <2>2. \A u \in 1 .. n : Count(g[u].inputs, m) \in Nat
    BY <2>1, Occurrences DEF Count
  <2> QED BY <2>2
<1>3. UsersOf(g, m) = FlattenSeq(ss)
  BY <1>1 DEF UsersOf, Repeated, Uses, Count
<1> HIDE DEF counts
<1>4. \A u \in 1 .. n : Repeated(counts[u], u) \in Seq(1 .. n)
  <2> SUFFICES ASSUME NEW u \in 1 .. n PROVE Repeated(counts[u], u) \in Seq(1 .. n)
    OBVIOUS
  <2> DEFINE N == 1 .. n
             c == counts[u]
  <2>1. c \in Nat /\ u \in N
    BY <1>2
  <2> HIDE DEF N, c
  <2>2. Repeated(c, u) \in Seq(N)
    BY <2>1 DEF Repeated
  <2> QED BY <2>2 DEF N, c
<1>5. ss \in Seq(Seq(1 .. n)) /\ ss # << >> /\ Len(ss) = n
  <2> DEFINE Q == Seq(1 .. n)
  <2> HIDE DEF Q
  <2>1. \A u \in 1 .. n : Repeated(counts[u], u) \in Q
    BY <1>4 DEF Q
  <2>2. ss \in Seq(Q) /\ Len(ss) = n
    BY <1>1, <2>1
  <2>3. ss # << >>
    BY <1>1, <2>2
  <2> QED BY <2>2, <2>3 DEF Q
<1>6. \A u \in 1 .. n : ss[u] = Repeated(counts[u], u)
  OBVIOUS
<1> HIDE DEF ss
<1>7. PICK f \in [1 .. n -> Seq(1 .. n)] :
        /\ FlattenSeq(ss) = f[n] /\ f[1] = ss[1]
        /\ \A i \in 1 .. n - 1 : f[i + 1] = f[i] \o ss[i + 1]
  <2> DEFINE N == 1 .. n
  <2>1. ss \in Seq(Seq(N))
    BY <1>5
  <2> HIDE DEF N
  <2>2. \E f \in [1 .. Len(ss) -> Seq(N)] :
           /\ FlattenSeq(ss) = f[Len(ss)]
           /\ f[1] = ss[1]
           /\ \A i \in 1 .. Len(ss) - 1 : f[i + 1] = f[i] \o ss[i + 1]
    BY <1>5, <2>1, FlattenSteps
  <2> QED BY <1>5, <2>2 DEF N
<1> HIDE DEF n
<1> DEFINE T == {i \in Nat : i + 1 \in 1 .. n => Listed(f[i + 1], i + 1, n, counts)}
<1>8. 0 \in T
  <2>1. Listed(Repeated(counts[1], 1), 1, n, counts)
    BY <1>1, <1>2, ListedFirst
  <2>2. 1 \in 1 .. n
    BY <1>1
  <2>3. f[1] = Repeated(counts[1], 1)
    BY <1>6, <1>7, <2>2
  <2> QED BY <2>1, <2>3
<1>9. ASSUME NEW k \in T PROVE k + 1 \in T
  <2>1. CASE (k + 1) + 1 \in 1 .. n
    <3> DEFINE i == k + 1
               j == i + 1
    <3>1. k \in Nat /\ i \in Nat /\ i \in 1 .. n /\ i \in 1 .. n - 1 /\ j \in 1 .. n /\ j = i + 1
      BY <1>1, <2>1
    <3>2. Listed(f[i], i, n, counts)
      BY <1>9, <3>1
    <3>3. f[j] = f[i] \o Repeated(counts[j], j)
      BY <1>6, <1>7, <3>1
    <3> HIDE DEF i, j
    <3>4. Listed(f[j], j, n, counts)
      BY <1>1, <1>2, <3>1, <3>2, <3>3, ListedNext
    <3> QED BY <3>1, <3>4 DEF i, j
  <2>2. CASE (k + 1) + 1 \notin 1 .. n
    BY <1>9, <2>2
  <2> QED BY <2>1, <2>2
<1>10. T = Nat
  <2> HIDE DEF T
  <2>1. T \in SUBSET Nat
    BY DEF T
  <2> QED BY <1>8, <1>9, <2>1, SetInduction
<1>11. Listed(f[n], n, n, counts)
  <2>1. n - 1 \in Nat /\ (n - 1) + 1 = n /\ n \in 1 .. n
    BY <1>1
  <2>2. n - 1 \in T
    BY <1>10, <2>1
  <2> QED BY <2>1, <2>2
<1> DEFINE s == f[n]
<1> HIDE DEF s
<1>12. s \in Seq(1 .. n) /\ Sorted(s) /\ \A u \in 1 .. n : Count(s, u) = IF u <= n THEN counts[u] ELSE 0
  BY <1>11 DEF Listed, s
<1>13. \A u \in 1 .. n : u <= n /\ counts[u] = Count(g[u].inputs, m)
  BY <1>1 DEF counts
<1>14. UsersOf(g, m) = s
  BY <1>3, <1>7 DEF s
<1> QED BY <1>1, <1>12, <1>13, <1>14

\* rebuild_outputs changes nothing but the outputs, which then match the inputs.
LEMMA RebuildOutputsMatches ==
  ASSUME NEW g, IsGraph(g)
  PROVE  /\ IsGraph(rebuild_outputs(g)) /\ Matching(rebuild_outputs(g))
         /\ Len(rebuild_outputs(g)) = Len(g) /\ Nodes(rebuild_outputs(g)) = Nodes(g)
         /\ \A n \in Nodes(g) : /\ rebuild_outputs(g)[n].op = g[n].op
                                /\ rebuild_outputs(g)[n].inputs = g[n].inputs
                                /\ rebuild_outputs(g)[n].shape = g[n].shape
<1> DEFINE h == rebuild_outputs(g)
           N == Nodes(g)
<1>1. Len(g) \in Nat /\ N = 1 .. Len(g) /\ \A n \in N : g[n] \in NodesOf(g)
  BY GraphOfNodes DEF Nodes
<1>2. h = [m \in N |-> [g[m] EXCEPT !.outputs = UsersOf(g, m)]]
  BY DEF rebuild_outputs, UsersOf
<1> HIDE DEF h
<1>3. h = [m \in 1 .. Len(g) |-> h[m]] /\ Len(h) = Len(g) /\ Nodes(h) = N
  <2>1. h = [m \in N |-> h[m]]
    BY <1>2
  <2>2. h = [m \in 1 .. Len(g) |-> h[m]] /\ Len(h) = Len(g)
    BY <1>1, <2>1
  <2> QED BY <2>2 DEF Nodes
<1>4. ASSUME NEW m \in N
      PROVE  /\ h[m].op = g[m].op /\ h[m].inputs = g[m].inputs /\ h[m].shape = g[m].shape
             /\ h[m].outputs = UsersOf(g, m) /\ h[m] \in NodesOf(g)
  <2> DEFINE r == g[m]
             users == UsersOf(g, m)
  <2>1. h[m] = [r EXCEPT !.outputs = users]
    BY <1>2
  <2>2. r \in [op : OpNames, inputs : Seq(N), outputs : Seq(N), shape : Seq(Nat)]
    BY <1>1 DEF NodesOf
  <2>3. users \in Seq(N)
    BY UsersListed
  <2> HIDE DEF r, users, N
  <2>4. h[m] = [op |-> r.op, inputs |-> r.inputs, outputs |-> users, shape |-> r.shape]
    BY <2>1, <2>2, WithOutputs
  <2>5. h[m] \in [op : OpNames, inputs : Seq(N), outputs : Seq(N), shape : Seq(Nat)]
    BY <2>2, <2>3, <2>4
  <2>6. h[m].op = r.op /\ h[m].inputs = r.inputs /\ h[m].shape = r.shape /\ h[m].outputs = users
    BY <2>4
  <2> QED BY <2>5, <2>6 DEF r, users, N, NodesOf
<1>5. NodesOf(h) = NodesOf(g)
  BY <1>3 DEF NodesOf
<1>6. IsGraph(h)
  BY <1>1, <1>3, <1>4, <1>5, GraphOfNodes
<1>7. Matching(h)
  <2>1. ASSUME NEW n \in N
        PROVE  Sorted(h[n].outputs) /\ \A u \in N : Count(h[n].outputs, u) = Count(h[u].inputs, n)
    BY <1>4, <2>1, UsersListed
  <2> QED BY <1>3, <2>1 DEF Matching
<1> QED BY <1>3, <1>4, <1>6, <1>7 DEF h

-----------------------------------------------------------------------------
(* The prepared graph. *)

\* h has the nodes of g in the given order, with their operands renumbered.
Reordered(h, g, order) ==
  /\ IsOrder(order, g) /\ Len(h) = Len(g)
  /\ \A k \in Nodes(g) :
       /\ h[k].op = g[order[k]].op /\ h[k].shape = g[order[k]].shape
       /\ h[k].inputs \in Seq(Nodes(g)) /\ DOMAIN h[k].inputs = DOMAIN g[order[k]].inputs
       /\ \A p \in DOMAIN g[order[k]].inputs :
            /\ h[k].inputs[p] \in 1 .. k - 1
            /\ order[h[k].inputs[p]] = g[order[k]].inputs[p]

LEMMA RenumberedIsReordered ==
  ASSUME NEW g, NEW order, IsOrder(order, g), NEW h, Renumbered(h, g, order)
  PROVE  Reordered(h, g, order)
<1>1. ASSUME NEW k \in Nodes(g)
      PROVE  h[k].op = g[order[k]].op /\ h[k].shape = g[order[k]].shape
  <2> DEFINE a == g[order[k]].op
             b == h[k].inputs
             d == g[order[k]].shape
  <2>1. h[k] = [op |-> a, inputs |-> b, outputs |-> << >>, shape |-> d]
    BY DEF Renumbered
  <2> HIDE DEF a, b, d
  <2>2. h[k].op = a /\ h[k].shape = d
    BY <2>1
  <2> QED BY <2>2 DEF a, d
<1> QED BY <1>1 DEF Reordered, Renumbered

\* The graph with its outputs rebuilt is in the order topo_sort found.
LEMMA ReadyIsReordered ==
  ASSUME NEW g, IsGraph(g), TopologicallyOrdered(g)
  PROVE  LET h == rebuild_outputs(topo_sort(g)) IN
         /\ IsGraph(h) /\ TopologicallyOrdered(h) /\ OutputsMatchInputs(h) /\ Nodes(h) = Nodes(g)
         /\ Reordered(h, g, KahnOrder(g))
<1> DEFINE t == topo_sort(g)
           h == rebuild_outputs(t)
           order == KahnOrder(g)
           N == Nodes(g)
<1>1. Renumbered(t, g, order) /\ IsOrder(order, g)
  BY TopoSortRenumbers
<1> HIDE DEF t, order
<1>2. IsGraph(t) /\ TopologicallyOrdered(t) /\ Nodes(t) = N /\ Reordered(t, g, order)
  BY <1>1, RenumberedGraph, RenumberedIsReordered
<1>3. /\ IsGraph(h) /\ Matching(h) /\ Len(h) = Len(t) /\ Nodes(h) = N
      /\ \A n \in N : h[n].op = t[n].op /\ h[n].inputs = t[n].inputs /\ h[n].shape = t[n].shape
  BY <1>2, RebuildOutputsMatches
<1> HIDE DEF h
<1>4. TopologicallyOrdered(h)
  BY <1>2, <1>3 DEF TopologicallyOrdered
<1>5. Reordered(h, g, order)
  BY <1>2, <1>3 DEF Reordered
<1> QED BY <1>3, <1>4, <1>5, MatchingOutputs DEF t, h, order

LEMMA ReorderedValid ==
  ASSUME NEW g, IsGraph(g), Valid(g), NEW h, NEW order, Reordered(h, g, order)
  PROVE  Valid(h)
<1> DEFINE N == Nodes(g)
<1>1. Len(g) \in Nat /\ Nodes(h) = N
  BY GraphOfNodes DEF Reordered, Nodes
<1>2. IsOrder(order, g) /\ \A k \in N : order[k] \in N
  BY <1>1, OrderFacts DEF Reordered
<1> SUFFICES ASSUME NEW k \in N PROVE ValidNode(h, k)
  BY <1>1 DEF Valid
<1> DEFINE n == order[k]
           old == g[n].inputs
           new == h[k].inputs
<1>3. /\ n \in N /\ ValidNode(g, n) /\ g[n].op \in OpNames /\ old \in Seq(N) /\ new \in Seq(N)
      /\ h[k].op = g[n].op /\ h[k].shape = g[n].shape /\ DOMAIN new = DOMAIN old
      /\ \A p \in DOMAIN old : order[new[p]] = old[p]
  BY <1>2, GraphNodes DEF Valid, Reordered
<1>4. Len(new) = Len(old) /\ Len(old) \in Nat /\ DOMAIN old = 1 .. Len(old)
      /\ (new = << >> <=> old = << >>) /\ \A p \in DOMAIN old : new[p] \in N
  <2> HIDE DEF old, new, N
  <2> QED BY <1>3
<1>5. \A p \in DOMAIN old : h[new[p]].op = g[old[p]].op /\ h[new[p]].shape = g[old[p]].shape
  <2> SUFFICES ASSUME NEW p \in DOMAIN old
               PROVE  h[new[p]].op = g[old[p]].op /\ h[new[p]].shape = g[old[p]].shape
    OBVIOUS
  <2> DEFINE i == new[p]
  <2>1. i \in N /\ order[i] = old[p]
    BY <1>3, <1>4
  <2> HIDE DEF i
  <2>2. h[i].op = g[order[i]].op /\ h[i].shape = g[order[i]].shape
    BY <2>1 DEF Reordered
  <2> QED BY <2>1, <2>2 DEF i
<1>6. ~is_leaf(g[n].op) => Op[g[n].op].arity \in {1, 2} /\ (is_transform(g[n].op) => Op[g[n].op].arity = 2)
  BY <1>3, ComputeFacts
<1> DEFINE o == g[n].op
           s == g[n].shape
<1>7. h[k].op = o /\ h[k].shape = s
  BY <1>3
<1>8. CASE is_leaf(o)
  <2>1. new = << >>
    BY <1>3, <1>4, <1>8 DEF ValidNode
  <2> QED BY <1>7, <1>8, <2>1 DEF ValidNode
<1>9. CASE ~is_leaf(o)
  <2>1. Len(old) = Op[o].arity /\ Len(s) >= 2
    BY <1>3, <1>9 DEF ValidNode
  <2>2. 1 \in DOMAIN old /\ (Len(old) = 2 => 2 \in DOMAIN old)
    <3> HIDE DEF old, n
    <3> QED BY <1>4, <1>6, <1>9, <2>1
  <2>3. Len(new) = 2 => ~(h[new[1]].op = "const" /\ h[new[2]].op = "const")
    BY <1>3, <1>4, <1>5, <1>9, <2>2 DEF ValidNode
  <2>4. CASE is_transform(o)
    <3>1. Len(old) = 2
      BY <1>6, <1>9, <2>1, <2>4
    <3>2. /\ h[new[1]].shape = g[old[1]].shape /\ h[new[2]].shape = g[old[2]].shape
      BY <1>5, <2>2, <3>1
    <3>3. /\ Len(g[old[1]].shape) = Len(g[old[2]].shape)
          /\ g[old[1]].shape[Len(g[old[1]].shape)] = g[old[2]].shape[Len(g[old[2]].shape) - 1]
      BY <1>3, <1>9, <2>4 DEF ValidNode
    <3> QED BY <1>4, <1>7, <1>9, <2>1, <2>3, <2>4, <3>2, <3>3 DEF ValidNode
  <2>5. CASE ~is_transform(o)
    <3>1. \A p, q \in DOMAIN old :
             g[old[p]].op = "const" \/ g[old[q]].op = "const" \/ g[old[p]].shape = g[old[q]].shape
      BY <1>3, <1>9, <2>5 DEF ValidNode
    <3>2. \A p, q \in DOMAIN new :
             h[new[p]].op = "const" \/ h[new[q]].op = "const" \/ h[new[p]].shape = h[new[q]].shape
      BY <1>3, <1>5, <3>1
    <3> QED BY <1>4, <1>7, <1>9, <2>1, <2>3, <2>5, <3>2 DEF ValidNode
  <2> QED BY <2>4, <2>5
<1> QED BY <1>8, <1>9

\* What was built and validated is prepared once it is sorted and its outputs rebuilt.
LEMMA ReadyIsPrepared ==
  ASSUME NEW g, WellBuilt(g), Valid(g)
  PROVE  Prepared(rebuild_outputs(topo_sort(g)))
<1> DEFINE h == rebuild_outputs(topo_sort(g))
           order == KahnOrder(g)
<1>1. /\ IsGraph(g) /\ TopologicallyOrdered(g) /\ Len(g) \in Nat
      /\ \A n \in Nodes(g) : g[n].op = "const" => g[n].shape = << >>
  BY GraphOfNodes DEF WellBuilt
<1>2. /\ IsGraph(h) /\ TopologicallyOrdered(h) /\ OutputsMatchInputs(h) /\ Nodes(h) = Nodes(g)
      /\ Reordered(h, g, order)
  BY <1>1, ReadyIsReordered
<1> HIDE DEF h, order
<1>3. Valid(h)
  BY <1>1, <1>2, ReorderedValid
<1>4. ASSUME NEW n \in Nodes(h), h[n].op = "const" PROVE h[n].shape = << >>
  <2>1. order[n] \in Nodes(g)
    BY <1>1, <1>2, OrderFacts DEF Reordered
  <2> QED BY <1>1, <1>2, <1>4, <2>1 DEF Reordered
<1> QED BY <1>2, <1>3, <1>4 DEF Prepared, h

-----------------------------------------------------------------------------
(* Every step. *)

LEMMA ResultShapeType ==
  ASSUME NEW g, IsGraph(g), NEW op \in OpNames, ~is_leaf(op),
         NEW inputs \in [1 .. Op[op].arity -> Nodes(g)], Callable(g, op, inputs)
  PROVE  inputs \in Seq(Nodes(g)) /\ ResultShape(g, op, inputs) \in Seq(Nat)
<1> DEFINE N == Nodes(g)
           arity == Op[op].arity
           shape(p) == g[inputs[p]].shape
<1>1. arity \in {1, 2} /\ (is_transform(op) => arity = 2)
  BY ComputeFacts
<1>2. inputs \in [1 .. arity -> N]
  OBVIOUS
<1> HIDE DEF arity, N
<1>3. inputs \in Seq(N) /\ Len(inputs) = arity
  BY <1>1, <1>2
<1>4. inputs[1] \in N /\ (arity = 2 => inputs[2] \in N)
  <2>1. 1 \in 1 .. arity /\ (arity = 2 => 2 \in 1 .. arity)
    BY <1>1
  <2> QED BY <1>2, <2>1
<1>5. shape(1) \in Seq(Nat) /\ (arity = 2 => shape(2) \in Seq(Nat))
  BY <1>4, GraphShapes DEF N
<1>6. CASE is_transform(op)
  <2> DEFINE a == shape(1)
             b == shape(2)
  <2>1. a \in Seq(Nat) /\ b \in Seq(Nat) /\ Len(a) \in 1 .. Len(b)
    BY <1>1, <1>5, <1>6 DEF Callable
  <2> HIDE DEF a, b
  <2>2. b[Len(a)] \in Nat /\ Len(a) \in 1 .. Len(a)
    BY <2>1
  <2>3. [a EXCEPT ![Len(a)] = b[Len(a)]] \in Seq(Nat)
    BY <2>1, <2>2
  <2>4. ResultShape(g, op, inputs) = [a EXCEPT ![Len(a)] = b[Len(a)]]
    BY <1>6 DEF ResultShape, a, b
  <2> QED BY <1>3, <2>3, <2>4 DEF N
<1>7. CASE ~is_transform(op)
  BY <1>3, <1>5, <1>7 DEF ResultShape, N
<1> QED BY <1>6, <1>7

LEMMA EmptyIsWellBuilt == WellBuilt(<< >>)
<1>1. Len(<< >>) = 0 /\ Nodes(<< >>) = {} /\ << >> = [n \in 1 .. 0 |-> << >>[n]]
  BY DEF Nodes
<1>2. IsGraph(<< >>)
  BY <1>1 DEF IsGraph
<1> QED BY <1>1, <1>2 DEF WellBuilt, TopologicallyOrdered, OutputsMatchInputs

\* The graph of every phase follows from the graph as it was built.
PreparationInv ==
  /\ phase \in {"building", "saved", "validated", "rejected", "panicked", "sorted", "ready"}
  /\ WellBuilt(IF phase = "building" THEN graph ELSE built)
  /\ phase \in {"saved", "validated", "rejected", "panicked"} => graph = built
  /\ phase = "sorted" => graph = topo_sort(built)
  /\ phase = "ready" => graph = rebuild_outputs(topo_sort(built))
  /\ phase \in {"validated", "sorted", "ready"} => Valid(built)

LEMMA BuildKeepsWellBuilt ==
  ASSUME WellBuilt(graph), Build
  PROVE  phase = "building" /\ phase' = "building" /\ WellBuilt(graph') /\ built' = built
<1>1. ASSUME NEW shape \in Shapes, input(shape)
      PROVE  phase = "building" /\ phase' = "building" /\ WellBuilt(graph') /\ built' = built
  <2>1. "input" \in OpNames /\ << >> \in Seq(Nodes(graph)) /\ shape \in Seq(Nat)
    <3> DEFINE N == Nodes(graph)
    <3>1. << >> \in Seq(N)
      <4> HIDE DEF N
      <4> QED OBVIOUS
    <3>2. "input" \in OpNames
      BY DEF OpNames, Op
    <3> QED BY <3>1, <3>2, PreparationAssumption
  <2>2. WellBuilt(add_node(graph, "input", << >>, shape))
    BY <2>1, AddNodeKeepsWellBuilt
  <2> QED BY <1>1, <2>2 DEF input, Add
<1>2. ASSUME constant_f32
      PROVE  phase = "building" /\ phase' = "building" /\ WellBuilt(graph') /\ built' = built
  <2>1. "const" \in OpNames /\ << >> \in Seq(Nodes(graph)) /\ << >> \in Seq(Nat)
    <3> DEFINE N == Nodes(graph)
    <3>1. << >> \in Seq(N) /\ << >> \in Seq(Nat)
      <4> HIDE DEF N
      <4> QED OBVIOUS
    <3>2. "const" \in OpNames
      BY DEF OpNames, Op
    <3> QED BY <3>1, <3>2
  <2>2. WellBuilt(add_node(graph, "const", << >>, << >>))
    BY <2>1, AddNodeKeepsWellBuilt
  <2> QED BY <1>2, <2>2 DEF constant_f32, Add
<1>3. ASSUME NEW op \in OpsUsed, NEW inputs \in [1 .. Op[op].arity -> Nodes(graph)],
             operation(op, inputs)
      PROVE  phase = "building" /\ phase' = "building" /\ WellBuilt(graph') /\ built' = built
  <2> DEFINE shape == ResultShape(graph, op, inputs)
  <2>1. op \in OpNames /\ ~is_leaf(op) /\ op # "const"
    BY PreparationAssumption, ComputeFacts
  <2>2. inputs \in Seq(Nodes(graph)) /\ shape \in Seq(Nat)
    BY <1>3, <2>1, ResultShapeType DEF operation, WellBuilt
  <2> HIDE DEF shape
  <2>3. WellBuilt(add_node(graph, op, inputs, shape))
    BY <2>1, <2>2, AddNodeKeepsWellBuilt
  <2> QED BY <1>3, <2>3 DEF operation, Add, shape
<1> QED BY <1>1, <1>2, <1>3 DEF Build

LEMMA PreparationStep ==
  ASSUME PreparationInv, [Next]_vars
  PROVE  PreparationInv'
<1>1. CASE Build
  <2>1. phase = "building"
    BY <1>1 DEF Build, input, constant_f32, operation, Add
  <2>2. phase' = "building" /\ WellBuilt(graph')
    BY <1>1, <2>1, BuildKeepsWellBuilt DEF PreparationInv
  <2> QED BY <2>2 DEF PreparationInv
<1>2. CASE ComputeSaved
  BY <1>2 DEF PreparationInv, ComputeSaved
<1>3. CASE Validate
  <2>1. phase' \in {"panicked", "validated", "rejected"} /\ (phase' = "validated" => Valid(graph))
        /\ phase = "saved" /\ graph' = graph /\ built' = built
    BY <1>3 DEF Validate
  <2> QED BY <2>1 DEF PreparationInv
<1>4. CASE TopoSort
  BY <1>4 DEF PreparationInv, TopoSort
<1>5. CASE RebuildOutputs
  BY <1>5 DEF PreparationInv, RebuildOutputs
<1>6. CASE UNCHANGED vars
  BY <1>6 DEF PreparationInv, vars
<1> QED BY <1>1, <1>2, <1>3, <1>4, <1>5, <1>6 DEF Next

\* What every state's graph is, by induction on the steps.
THEOREM PreparationInvariant == Spec => []PreparationInv
<1>1. Init => PreparationInv
  BY EmptyIsWellBuilt DEF Init, PreparationInv
<1>2. PreparationInv /\ [Next]_vars => PreparationInv'
  BY PreparationStep
<1> QED BY <1>1, <1>2, PTL DEF Spec

\* For every number of nodes, all operations and all shapes: the nodes come after their inputs in
\* the graph that add_node builds and in the one topo_sort leaves, and the edges that add_node
\* records, or that rebuild_outputs finds again, agree in both directions.
THEOREM GraphsAreWellFormed == Spec => []GraphIsWellFormed
<1>1. PreparationInv => GraphIsWellFormed
  <2> SUFFICES ASSUME PreparationInv PROVE GraphIsWellFormed
    OBVIOUS
  <2>1. CASE phase = "sorted"
    <3>1. WellBuilt(built) /\ graph = topo_sort(built)
      BY <2>1 DEF PreparationInv
    <3>2. TopologicallyOrdered(graph)
      BY <3>1, TopoSortRenumbers, RenumberedGraph DEF WellBuilt
    <3> QED BY <2>1, <3>2 DEF GraphIsWellFormed
  <2>2. CASE phase = "ready"
    <3>1. WellBuilt(built) /\ graph = rebuild_outputs(topo_sort(built))
      BY <2>2 DEF PreparationInv
    <3> QED BY <3>1, ReadyIsReordered DEF WellBuilt, GraphIsWellFormed
  <2>3. CASE phase \notin {"sorted", "ready"}
    <3>1. WellBuilt(graph)
      BY <2>3 DEF PreparationInv
    <3> QED BY <3>1 DEF WellBuilt, GraphIsWellFormed
  <2> QED BY <2>1, <2>2, <2>3
<1> QED BY <1>1, PreparationInvariant, PTL

\* What the theorems about forward and backward lowering assume of the graph: whatever the builder
\* made and validate accepted is prepared when the caller gets it from rebuild_outputs.
THEOREM ReadyGraphsArePrepared == Spec => [](phase = "ready" => Prepared(graph))
<1>1. PreparationInv => (phase = "ready" => Prepared(graph))
  BY ReadyIsPrepared DEF PreparationInv
<1> QED BY <1>1, PreparationInvariant, PTL

\* topo_sort never reports a cycle: whatever was built, its order has every node, each once, every
\* input before its users.
THEOREM TopoSortFindsAnOrder ==
  Spec => [](phase # "building" => IsOrder(KahnOrder(built), built))
<1>1. PreparationInv => (phase # "building" => IsOrder(KahnOrder(built), built))
  BY KahnOrderIsOrder DEF PreparationInv, WellBuilt
<1> QED BY <1>1, PreparationInvariant, PTL

-----------------------------------------------------------------------------
(* Sorting keeps the program. *)

Rank(g, n) == Cardinality({m \in 1 .. n : g[m].op = "input"})

ValueOf(f, g, n) ==
  << g[n].op, IF g[n].op = "input" THEN << Rank(g, n) >>
              ELSE [p \in DOMAIN g[n].inputs |-> f[g[n].inputs[p]]] >>

LEMMA ValuesExist ==
  ASSUME NEW g, IsGraph(g), TopologicallyOrdered(g)
  PROVE  \E f : f = [n \in Nodes(g) |-> ValueOf(f, g, n)]
<1> DEFINE N == Nodes(g)
           Partial(m) == \E f : f = [n \in 1 .. m |-> ValueOf(f, g, n)]
           S == {m \in Nat : m \in 0 .. Len(g) => Partial(m)}
<1>0. Len(g) \in Nat /\ N = 1 .. Len(g) /\ \A n \in N : g[n].inputs \in Seq(N)
  BY GraphNodes, GraphOfNodes DEF Nodes
<1>1. 0 \in S
  <2> DEFINE f == [n \in 1 .. 0 |-> 0]
  <2>1. f = [n \in 1 .. 0 |-> ValueOf(f, g, n)]
    OBVIOUS
  <2> HIDE DEF f
  <2>2. Partial(0)
    BY <2>1
  <2> HIDE DEF Partial
  <2> QED BY <2>2
<1>2. ASSUME NEW m \in S PROVE m + 1 \in S
  <2> SUFFICES ASSUME m + 1 \in 0 .. Len(g) PROVE Partial(m + 1)
    BY <1>2
  <2>1. m \in Nat /\ m \in 0 .. Len(g)
    BY <1>0, <1>2
  <2>2. PICK f : f = [n \in 1 .. m |-> ValueOf(f, g, n)]
    BY <1>2, <2>1
  <2> DEFINE h == [n \in 1 .. m + 1 |-> IF n = m + 1 THEN ValueOf(f, g, m + 1) ELSE f[n]]
  <2>3. \A n \in 1 .. m : h[n] = f[n]
    BY <2>1
  <2>4. ASSUME NEW n \in 1 .. m + 1 PROVE h[n] = ValueOf(h, g, n)
    <3>1. h[n] = ValueOf(f, g, n)
      <4>1. CASE n = m + 1
        BY <4>1
      <4>2. CASE n # m + 1
        <5>1. n \in 1 .. m
          BY <2>1, <4>2
        <5>2. f[n] = ValueOf(f, g, n)
          BY <2>2, <5>1
        <5> QED BY <2>3, <5>1, <5>2
      <4> QED BY <4>1, <4>2
    <3> HIDE DEF h
    <3>2. \A p \in DOMAIN g[n].inputs : h[g[n].inputs[p]] = f[g[n].inputs[p]]
      <4> SUFFICES ASSUME NEW p \in DOMAIN g[n].inputs
                   PROVE  h[g[n].inputs[p]] = f[g[n].inputs[p]]
        OBVIOUS
      <4> DEFINE q == g[n].inputs
                 i == q[p]
      <4>1. n \in N /\ n \in Nat
        BY <1>0, <2>1
      <4>2. i < n /\ q \in Seq(N)
        BY <1>0, <4>1 DEF TopologicallyOrdered
      <4>3. p \in DOMAIN q
        OBVIOUS
      <4> HIDE DEF q
      <4>4. i \in N
        <5> HIDE DEF N
        <5> QED BY <4>2, <4>3
      <4> HIDE DEF i
      <4>5. i \in 1 .. m
        BY <1>0, <2>1, <4>1, <4>2, <4>4
      <4> QED BY <2>3, <4>5 DEF i, q
    <3> QED BY <3>1, <3>2 DEF ValueOf
  <2>5. h = [n \in 1 .. m + 1 |-> h[n]]
    OBVIOUS
  <2> HIDE DEF h
  <2> QED BY <2>4, <2>5
<1>3. S = Nat
  <2> HIDE DEF Partial
  <2>1. S \in SUBSET Nat
    OBVIOUS
  <2> HIDE DEF S
  <2> QED BY <1>1, <1>2, <2>1, SetInduction
<1>4. Partial(Len(g))
  <2> HIDE DEF Partial
  <2> QED BY <1>0, <1>3
<1> QED BY <1>0, <1>4

LEMMA ExpressionsFacts ==
  ASSUME NEW g, IsGraph(g), TopologicallyOrdered(g)
  PROVE  /\ DOMAIN Expressions(g) = Nodes(g)
         /\ \A n \in Nodes(g) : Expressions(g)[n] = ValueOf(Expressions(g), g, n)
<1> DEFINE e == Expressions(g)
<1>1. e = CHOOSE f : f = [n \in Nodes(g) |-> ValueOf(f, g, n)]
  BY DEF Expressions, ValueOf, Rank
<1> HIDE DEF e
<1>2. e = [n \in Nodes(g) |-> ValueOf(e, g, n)]
  BY <1>1, ValuesExist
<1>3. DOMAIN e = Nodes(g) /\ \A n \in Nodes(g) : e[n] = ValueOf(e, g, n)
  BY <1>2
<1> QED BY <1>3 DEF e

\* The nodes without inputs come first and in their old order: the inputs keep their ranks.
LEMMA SameRank ==
  ASSUME NEW g, WellBuilt(g), NEW h, NEW order, Reordered(h, g, order), NEW k \in Nodes(g),
         h[k].op = "input"
  PROVE  Rank(h, k) = Rank(g, order[k])
<1> DEFINE N == Nodes(g)
           A == {m \in 1 .. k : h[m].op = "input"}
           B == {m \in 1 .. order[k] : g[m].op = "input"}
           f == [m \in A |-> order[m]]
<1>1. Len(g) \in Nat /\ IsOrder(order, g) /\ LeavesFirst(g, order)
  BY GraphOfNodes DEF WellBuilt, Reordered, IsOrder
<1>2. /\ DOMAIN order = N /\ N = 1 .. Len(g) /\ \A i \in N : order[i] \in N
      /\ \A i, j \in N : order[i] = order[j] => i = j
      /\ \A m \in N : \E i \in N : order[i] = m
  BY <1>1, OrderFacts
<1>3. \A i \in N : h[i].op = g[order[i]].op
  BY DEF Reordered
<1>4. \A m \in N : g[m].op = "input" => g[m].inputs = << >>
  <2>1. is_leaf("input")
    <3>1. Op["input"] = Leaf /\ Leaf.leaf
      BY DEF Op, Leaf
    <3> QED BY <3>1 DEF is_leaf
  <2> QED BY <2>1 DEF WellBuilt
<1>5. \A i \in 1 .. k : i \in N /\ i \in Nat
  BY <1>1, <1>2
<1>6. ASSUME NEW i \in A PROVE order[i] \in B
  <2>1. i \in N /\ i \in 1 .. k /\ order[i] \in N /\ g[order[i]].op = "input"
    BY <1>2, <1>3, <1>5
  <2>2. order[i] <= order[k]
    <3>1. CASE i = k
      BY <1>2, <3>1
    <3>2. CASE i # k
      <4>1. i < k
        BY <1>1, <1>2, <2>1, <3>2
      <4>2. g[order[k]].inputs = << >>
        BY <1>2, <1>3, <1>4
      <4>3. order[i] < order[k]
        BY <1>1, <1>2, <2>1, <4>1, <4>2 DEF LeavesFirst
      <4> QED BY <1>2, <2>1, <4>3
    <3> QED BY <3>1, <3>2
  <2> QED BY <1>2, <2>1, <2>2
<1>7. ASSUME NEW m \in B PROVE \E i \in A : order[i] = m
  <2>1. order[k] \in N /\ m \in N /\ m <= order[k] /\ g[m].op = "input"
    BY <1>1, <1>2
  <2>2. PICK i \in N : order[i] = m
    BY <1>2, <2>1
  <2>3. i <= k
    <3> SUFFICES ASSUME ~(i <= k) PROVE FALSE
      OBVIOUS
    <3>1. k < i
      BY <1>1, <1>2
    <3>2. order[k] < order[i]
      BY <1>1, <1>2, <1>4, <2>1, <2>2, <3>1 DEF LeavesFirst
    <3> QED BY <1>1, <1>2, <2>1, <2>2, <3>2
  <2>4. i \in 1 .. k
    BY <1>1, <1>2, <2>3
  <2> QED BY <1>3, <2>1, <2>2, <2>4
<1>8. IsFiniteSet(A)
  <2>1. IsFiniteSet(1 .. k) /\ A \in SUBSET (1 .. k)
    BY <1>2, FS_Interval
  <2> HIDE DEF A
  <2> QED BY <2>1, FS_Subset
<1>9. \A i, j \in A : f[i] = f[j] => i = j
  BY <1>2, <1>5
<1>10. f \in [A -> B] /\ \A m \in B : \E i \in A : f[i] = m
  <2> HIDE DEF A, B
  <2> QED BY <1>6, <1>7
<1> HIDE DEF A, B, f
<1>11. Cardinality(B) = Cardinality(A)
  BY <1>8, <1>9, <1>10, SameSize
<1> QED BY <1>11 DEF Rank, A, B

\* Every node of the sorted graph has the value of the node it was.
LEMMA SameExpressions ==
  ASSUME NEW g, WellBuilt(g), NEW h, NEW order, Reordered(h, g, order), IsGraph(h),
         TopologicallyOrdered(h), NEW k \in Nodes(g)
  PROVE  Expressions(h)[k] = Expressions(g)[order[k]]
<1> DEFINE N == Nodes(g)
           e == Expressions(h)
           d == Expressions(g)
           S == {m \in Nat : \A i \in 1 .. m : i \in N => e[i] = d[order[i]]}
<1>1. Len(g) \in Nat /\ IsGraph(g) /\ TopologicallyOrdered(g) /\ IsOrder(order, g) /\ Nodes(h) = N
  BY GraphOfNodes DEF WellBuilt, Reordered, Nodes
<1>2. N = 1 .. Len(g) /\ \A i \in N : order[i] \in N
  BY <1>1, OrderFacts
<1>3. /\ \A i \in N : e[i] = ValueOf(e, h, i)
      /\ \A i \in N : d[i] = ValueOf(d, g, i)
  BY <1>1, ExpressionsFacts
<1> HIDE DEF e, d
<1>4. 0 \in S
  OBVIOUS
<1>5. ASSUME NEW m \in S PROVE m + 1 \in S
  <2>1. m \in Nat /\ \A i \in 1 .. m : i \in N => e[i] = d[order[i]]
    BY <1>5
  <2>2. ASSUME m + 1 \in N PROVE e[m + 1] = d[order[m + 1]]
    <3> DEFINE i == m + 1
               n == order[i]
    <3>1. i \in N /\ n \in N /\ i \in Nat
      BY <1>2, <2>1, <2>2
    <3>2. \A j \in 1 .. i - 1 : j \in N => e[j] = d[order[j]]
      BY <2>1
    <3> HIDE DEF i
    <3>3. /\ h[i].op = g[n].op /\ DOMAIN h[i].inputs = DOMAIN g[n].inputs
          /\ \A p \in DOMAIN g[n].inputs : /\ h[i].inputs[p] \in 1 .. i - 1
                                           /\ order[h[i].inputs[p]] = g[n].inputs[p]
      BY <3>1 DEF Reordered
    <3>4. h[i].op = "input" => Rank(h, i) = Rank(g, n)
      BY <3>1, SameRank
    <3>5. \A p \in DOMAIN g[n].inputs : e[h[i].inputs[p]] = d[g[n].inputs[p]]
      <4> SUFFICES ASSUME NEW p \in DOMAIN g[n].inputs
                   PROVE  e[h[i].inputs[p]] = d[g[n].inputs[p]]
        OBVIOUS
      <4> DEFINE j == h[i].inputs[p]
      <4>1. j \in 1 .. i - 1 /\ order[j] = g[n].inputs[p]
        BY <3>3
      <4> HIDE DEF j
      <4>2. j \in N
        BY <1>1, <1>2, <3>1, <4>1
      <4> QED BY <3>2, <4>1, <4>2 DEF j
    <3> HIDE DEF n
    <3>6. ValueOf(e, h, i) = ValueOf(d, g, n)
      BY <3>3, <3>4, <3>5 DEF ValueOf
    <3> QED BY <1>3, <3>1, <3>6 DEF i, n
  <2>3. \A i \in 1 .. m + 1 : i \in 1 .. m \/ i = m + 1
    BY <2>1
  <2> QED BY <2>1, <2>2, <2>3
<1>6. S = Nat
  <2>1. S \in SUBSET Nat
    OBVIOUS
  <2> HIDE DEF S
  <2> QED BY <1>4, <1>5, <2>1, SetInduction
<1>7. k \in S /\ k \in 1 .. k
  BY <1>1, <1>2, <1>6
<1> QED BY <1>7 DEF e, d

\* How often g computes v.
Computed(g, v) == Cardinality({n \in Nodes(g) : Expressions(g)[n] = v})

LEMMA SameValues ==
  ASSUME NEW g, WellBuilt(g), NEW h, NEW order, Reordered(h, g, order), IsGraph(h),
         TopologicallyOrdered(h), NEW v
  PROVE  Computed(h, v) = Computed(g, v)
<1> DEFINE N == Nodes(g)
           A == {n \in Nodes(h) : Expressions(h)[n] = v}
           B == {n \in N : Expressions(g)[n] = v}
           f == [n \in A |-> order[n]]
<1>1. Len(g) \in Nat /\ IsOrder(order, g) /\ Nodes(h) = N
  BY GraphOfNodes DEF WellBuilt, Reordered, Nodes
<1>2. /\ N = 1 .. Len(g) /\ \A i \in N : order[i] \in N
      /\ \A i, j \in N : order[i] = order[j] => i = j
      /\ \A m \in N : \E i \in N : order[i] = m
  BY <1>1, OrderFacts
<1>3. \A k \in N : Expressions(h)[k] = Expressions(g)[order[k]]
  BY SameExpressions
<1>4. /\ \A i \in A : order[i] \in B
      /\ \A m \in B : \E i \in A : order[i] = m
      /\ \A i, j \in A : order[i] = order[j] => i = j
  BY <1>1, <1>2, <1>3
<1>5. IsFiniteSet(A)
  <2>1. IsFiniteSet(1 .. Len(g)) /\ A \in SUBSET (1 .. Len(g))
    BY <1>1, <1>2, FS_Interval
  <2> HIDE DEF A
  <2> QED BY <2>1, FS_Subset
<1>6. /\ f \in [A -> B] /\ \A m \in B : \E i \in A : f[i] = m
      /\ \A i, j \in A : f[i] = f[j] => i = j
  <2> HIDE DEF A, B
  <2> QED BY <1>4
<1> HIDE DEF A, B, f
<1>7. Cardinality(B) = Cardinality(A)
  BY <1>5, <1>6, SameSize
<1> QED BY <1>7 DEF Computed, A, B

\* The last node of a graph is no node's input: a single output is the last node.
LEMMA SameOutput ==
  ASSUME NEW g, WellBuilt(g), NEW h, NEW order, Reordered(h, g, order), IsGraph(h),
         TopologicallyOrdered(h), OutputsMatchInputs(h), Cardinality(Sinks(h)) = 1, h # << >>
  PROVE  Expressions(h)[LastNode(h)] = Expressions(g)[LastNode(g)]
<1> DEFINE N == Nodes(g)
           last == Len(g)
<1>1. /\ last \in Nat /\ IsGraph(g) /\ TopologicallyOrdered(g) /\ OutputsMatchInputs(g)
      /\ IsOrder(order, g) /\ Nodes(h) = N /\ Len(h) = last
  BY GraphOfNodes DEF WellBuilt, Reordered, Nodes
<1>2. /\ N = 1 .. last /\ \A i \in N : order[i] \in N
      /\ \A m \in N : \E i \in N : order[i] = m
  BY <1>1, OrderFacts
<1>3. last \in N
  <2>1. last # 0
    <3>1. h = [n \in 1 .. Len(h) |-> h[n]]
      BY GraphOfNodes
    <3>2. last = 0 => h = << >>
      BY <1>1, <3>1
    <3> QED BY <3>2
  <2> QED BY <1>1, <1>2, <2>1
<1>4. ASSUME NEW f, IsGraph(f), TopologicallyOrdered(f), OutputsMatchInputs(f), Nodes(f) = N
      PROVE  IsSink(f, last)
  <2>1. ASSUME NEW u \in N, last \in Range(f[u].inputs) PROVE FALSE
    <3>1. PICK p \in DOMAIN f[u].inputs : f[u].inputs[p] = last
      BY <2>1 DEF Range
    <3>2. last < u
      BY <1>4, <3>1 DEF TopologicallyOrdered
    <3> QED BY <1>1, <1>2, <3>2
  <2> QED BY <1>3, <1>4, <2>1, EdgeFacts
<1>5. PICK j \in N : order[j] = last
  BY <1>2, <1>3
<1>6. IsSink(h, j)
  <2>1. ASSUME NEW u \in N, j \in Range(h[u].inputs) PROVE FALSE
    <3>1. PICK p \in DOMAIN h[u].inputs : h[u].inputs[p] = j
      BY <2>1 DEF Range
    <3>2. order[u] \in N /\ p \in DOMAIN g[order[u]].inputs /\ g[order[u]].inputs[p] = last
      BY <1>2, <1>5, <3>1 DEF Reordered
    <3>3. last \in Range(g[order[u]].inputs)
      BY <3>2 DEF Range
    <3>4. IsSink(g, last)
      BY <1>1, <1>4
    <3> QED BY <1>1, <1>3, <3>2, <3>3, <3>4, EdgeFacts
  <2> QED BY <1>1, <2>1, EdgeFacts
<1>7. j = last
  <2>1. {j, last} \subseteq Sinks(h)
    BY <1>1, <1>3, <1>4, <1>6 DEF Sinks
  <2>2. IsFiniteSet(Sinks(h))
    <3>1. IsFiniteSet(1 .. last) /\ Sinks(h) \in SUBSET (1 .. last)
      BY <1>1, <1>2, FS_Interval DEF Sinks
    <3> QED BY <3>1, FS_Subset
  <2>3. PICK s : Sinks(h) = {s}
    BY <2>2, FS_Singleton
  <2> QED BY <2>1, <2>3
<1>8. Expressions(h)[last] = Expressions(g)[order[last]]
  BY <1>3, SameExpressions
<1> QED BY <1>1, <1>5, <1>7, <1>8 DEF LastNode

\* Sorting changes no value and no binding of the inputs, whatever was built: every value is
\* computed as often as before, and a single output stays the last node.
THEOREM SortingKeepsTheProgram == Spec => []SortKeepsTheProgram
<1>1. PreparationInv => SortKeepsTheProgram
  <2> SUFFICES ASSUME PreparationInv, phase = "ready"
               PROVE  /\ Len(graph) = Len(built)
                      /\ \A v : Computed(graph, v) = Computed(built, v)
                      /\ Cardinality(Sinks(graph)) = 1 /\ graph # << >> =>
                           Expressions(graph)[LastNode(graph)] = Expressions(built)[LastNode(built)]
    BY DEF SortKeepsTheProgram, Computed
  <2> DEFINE order == KahnOrder(built)
  <2>1. WellBuilt(built) /\ graph = rebuild_outputs(topo_sort(built))
    BY DEF PreparationInv
  <2>2. /\ IsGraph(graph) /\ TopologicallyOrdered(graph) /\ OutputsMatchInputs(graph)
        /\ Reordered(graph, built, order)
    BY <2>1, ReadyIsReordered DEF WellBuilt
  <2> HIDE DEF order
  <2>3. Len(graph) = Len(built)
    BY <2>2 DEF Reordered
  <2>4. \A v : Computed(graph, v) = Computed(built, v)
    BY <2>1, <2>2, SameValues
  <2>5. Cardinality(Sinks(graph)) = 1 /\ graph # << >> =>
          Expressions(graph)[LastNode(graph)] = Expressions(built)[LastNode(built)]
    BY <2>1, <2>2, SameOutput
  <2> QED BY <2>3, <2>4, <2>5
<1> QED BY <1>1, PreparationInvariant, PTL

=============================================================================
