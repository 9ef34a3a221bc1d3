------------------------ MODULE KernelScheduleProofs ------------------------
(***************************************************************************)
(* The scheduling loop is safe on every kernel list and cannot spin on a   *)
(* schedulable one.                                                        *)
(***************************************************************************)
EXTENDS KernelSchedule, FunctionTheorems, FiniteSetTheorems, SequenceTheorems, TLAPS

\* The kernel list argument is a list, so its positions and targets are what they seem.
LEMMA ListFacts ==
  ASSUME NEW ks, IsKernelList(ks)
  PROVE  /\ Len(ks) \in Nat
         /\ \A i \in 1 .. Len(ks) :
              /\ ks[i] \in KernelEntry
              /\ ks[i].dep \subseteq Nat
              /\ TargetIn(ks, i) \in 1 .. Len(ks)
              /\ RootIn(ks, i) \in Nat
<1>1. Len(ks) \in Nat /\ \A i \in 1 .. Len(ks) : ks[i] \in KernelEntry
  BY LenProperties, ElementOfSeq DEF IsKernelList
<1>2. \A i \in 1 .. Len(ks) : TargetIn(ks, i) \in 1 .. Len(ks)
  BY <1>1 DEF IsKernelList, TargetIn, Unmasked
<1>3. QED BY <1>1, <1>2 DEF RootIn, KernelEntry

LEMMA TypeInit == Init => TypeOK
<1> SUFFICES ASSUME Init PROVE TypeOK
  OBVIOUS
<1>1. IsKernelList(kernels)
  BY KernelListsAssumption DEF Init
<1>2. N \in Nat
  BY <1>1, ListFacts DEF N
<1>3. QED BY <1>2 DEF Init, TypeOK

LEMMA TypeStep == TypeOK /\ [Next]_vars => TypeOK'
<1> SUFFICES ASSUME TypeOK, [Next]_vars PROVE TypeOK'
  OBVIOUS
<1>0. IsKernelList(kernels) /\ N \in Nat
  BY KernelListsAssumption, ListFacts DEF TypeOK, N
<1>1. CASE StartSweep
  BY <1>1, <1>0 DEF StartSweep, TypeOK, N
<1>2. CASE Return
  BY <1>2, <1>0 DEF Return, TypeOK, N
<1>3. CASE Fail
  BY <1>3, <1>0 DEF Fail, TypeOK, N
<1>4. CASE Skip
  BY <1>4, <1>0 DEF Skip, TypeOK, N
<1>5. CASE Postpone
  BY <1>5, <1>0 DEF Postpone, TypeOK, N
<1>6. CASE Place
  <2>1. Root(pos) \in Nat /\ Target(pos) \in 1 .. N /\ pos \in 1 .. N
    BY <1>6, <1>0, ListFacts DEF Place, Root, Target, N
  <2>2. tmp_res' \in Seq(Nat)
    BY <1>6, <2>1 DEF Place, TypeOK
  <2>3. scheduled' \in Seq([entry : 1 .. N, kernel : 1 .. N])
    BY <1>6, <2>1 DEF Place, TypeOK
  <2>4. QED BY <1>6, <1>0, <2>2, <2>3 DEF Place, TypeOK, N
<1>7. CASE EndSweep
  <2>1. resolved' \in Seq(Nat)
    BY <1>7, ConcatProperties DEF EndSweep, TypeOK
  <2>2. QED BY <1>7, <1>0, <2>1 DEF EndSweep, TypeOK, N
<1>8. CASE UNCHANGED vars
  BY <1>8 DEF vars, TypeOK, N
<1>9. QED BY <1>1, <1>2, <1>3, <1>4, <1>5, <1>6, <1>7, <1>8 DEF Next

\* Every variable keeps its type.
THEOREM TypeCorrect == Spec => []TypeOK
BY TypeInit, TypeStep, PTL DEF Spec

-----------------------------------------------------------------------------
\* Facts about the positions of a typed state, used by every preservation proof below.
LEMMA StateFacts ==
  ASSUME TypeOK
  PROVE  /\ N \in Nat /\ pos \in Nat
         /\ Len(resolved) \in Nat /\ Len(tmp_res) \in Nat /\ Len(scheduled) \in Nat
         /\ Range(resolved) = {resolved[p] : p \in 1 .. Len(resolved)}
         /\ \A p \in 1 .. Len(scheduled) :
              scheduled[p].entry \in 1 .. N /\ scheduled[p].kernel \in 1 .. N
         /\ \A i \in 1 .. N :
              Root(i) \in Nat /\ Target(i) \in 1 .. N /\ kernels[i].dep \subseteq Nat
<1>1. IsKernelList(kernels)
  BY KernelListsAssumption DEF TypeOK
<1>2. N \in Nat /\ \A i \in 1 .. N : /\ Root(i) \in Nat
                                     /\ Target(i) \in 1 .. N
                                     /\ kernels[i].dep \subseteq Nat
  BY <1>1, ListFacts DEF N, Root, Target
<1>3. pos \in Nat /\ Len(resolved) \in Nat /\ Len(tmp_res) \in Nat /\ Len(scheduled) \in Nat
  BY <1>2 DEF TypeOK
<1>4. Range(resolved) = {resolved[p] : p \in 1 .. Len(resolved)}
  BY DEF TypeOK, Range
<1>5. \A p \in 1 .. Len(scheduled) :
        scheduled[p].entry \in 1 .. N /\ scheduled[p].kernel \in 1 .. N
  <2> SUFFICES ASSUME NEW p \in 1 .. Len(scheduled)
               PROVE  scheduled[p] \in [entry : 1 .. N, kernel : 1 .. N]
    OBVIOUS
  <2> QED BY ElementOfSeq DEF TypeOK
<1>6. QED BY <1>2, <1>3, <1>4, <1>5

\* What Place does to the schedule: one new last element, nothing else moves.
LEMMA PlaceFacts ==
  ASSUME TypeOK, Place
  PROVE  /\ pos \in 1 .. N
         /\ Len(scheduled') = Len(scheduled) + 1
         /\ Len(tmp_res') = Len(tmp_res) + 1
         /\ scheduled'[Len(scheduled) + 1] = [entry |-> pos, kernel |-> Target(pos)]
         /\ tmp_res'[Len(tmp_res) + 1] = Root(pos)
         /\ \A p \in 1 .. Len(scheduled) : scheduled'[p] = scheduled[p]
         /\ \A p \in 1 .. Len(tmp_res) : tmp_res'[p] = tmp_res[p]
BY DEF TypeOK, Place

\* What EndSweep does to resolved: tmp_res moves to its end.
LEMMA EndSweepFacts ==
  ASSUME TypeOK, EndSweep
  PROVE  /\ Len(resolved') = Len(resolved) + Len(tmp_res)
         /\ \A p \in 1 .. Len(resolved) : resolved'[p] = resolved[p]
         /\ \A p \in 1 .. Len(tmp_res) : resolved'[p + Len(resolved)] = tmp_res[p]
         /\ Len(tmp_res') = 0
<1>1. resolved \in Seq(Nat) /\ tmp_res \in Seq(Nat)
  BY DEF TypeOK
<1>2. resolved' = resolved \o tmp_res /\ tmp_res' = << >>
  BY DEF EndSweep
<1>3. QED BY <1>1, <1>2, ConcatProperties

\* The operators on entries read only kernels and resolved.
LEMMA SameList ==
  ASSUME kernels' = kernels
  PROVE  N' = N /\ \A i : Target(i)' = Target(i) /\ Root(i)' = Root(i)
BY DEF N, Target, Root

LEMMA SameResolved ==
  ASSUME kernels' = kernels, resolved' = resolved
  PROVE  \A i : Resolved(i)' = Resolved(i) /\ Ready(i)' = Ready(i)
BY SameList DEF Resolved, Ready

LEMMA LedgerStep == TypeOK /\ Ledger /\ [Next]_vars => Ledger'
<1> SUFFICES ASSUME TypeOK, Ledger, [Next]_vars PROVE Ledger'
  OBVIOUS
<1>0. /\ N \in Nat /\ Len(resolved) \in Nat /\ Len(tmp_res) \in Nat /\ Len(scheduled) \in Nat
      /\ \A p \in 1 .. Len(scheduled) : scheduled[p].entry \in 1 .. N
  BY StateFacts
<1>1. ASSUME UNCHANGED << kernels, resolved, tmp_res, scheduled >>,
             pos' = 0 => pos = 0,
             status' = "done" => pos' = 0 /\ Len(resolved) >= N
      PROVE  Ledger'
  BY <1>1, SameList DEF Ledger
<1>2. CASE StartSweep
  BY <1>1, <1>2, <1>0 DEF StartSweep
<1>3. CASE Return
  BY <1>1, <1>3 DEF Return
<1>4. CASE Fail
  BY <1>1, <1>4 DEF Fail
<1>5. CASE Skip
  BY <1>1, <1>5, <1>0 DEF Skip
<1>6. CASE Postpone
  BY <1>1, <1>6, <1>0 DEF Postpone
<1>7. CASE Place
  <2>1. UNCHANGED << kernels, resolved, status >> /\ pos' = pos + 1 /\ status = "running"
    BY <1>7 DEF Place
  <2>2. pos \in 1 .. N /\ pos' # 0
    BY <1>7, <1>0 DEF Place
  <2>3. Len(scheduled') = Len(resolved') + Len(tmp_res')
    BY <1>7, <1>0, <2>1, PlaceFacts DEF Ledger
  <2>4. ASSUME NEW p \in 1 .. Len(scheduled')
        PROVE  /\ scheduled'[p].kernel = Target(scheduled'[p].entry)
               /\ p <= Len(resolved) => resolved[p] = Root(scheduled'[p].entry)
               /\ p > Len(resolved) => tmp_res'[p - Len(resolved)] = Root(scheduled'[p].entry)
    <3>1. CASE p = Len(scheduled) + 1
      BY <3>1, <1>7, <1>0, PlaceFacts DEF Ledger
    <3>2. CASE p \in 1 .. Len(scheduled)
      <4>1. scheduled'[p] = scheduled[p]
        BY <3>2, <1>7, PlaceFacts
      <4>2. p > Len(resolved) => tmp_res'[p - Len(resolved)] = tmp_res[p - Len(resolved)]
        BY <3>2, <1>7, <1>0, PlaceFacts DEF Ledger
      <4>3. QED BY <3>2, <4>1, <4>2 DEF Ledger
    <3>3. QED BY <3>1, <3>2, <1>7, <1>0, PlaceFacts
  <2>5. QED BY <2>1, <2>2, <2>3, <2>4, SameList DEF Ledger
<1>8. CASE EndSweep
  <2>1. UNCHANGED << kernels, scheduled, status >> /\ status = "running" /\ tmp_res' = << >>
    BY <1>8 DEF EndSweep
  <2>2. Len(scheduled') = Len(resolved') + Len(tmp_res')
    BY <1>8, <1>0, <2>1, EndSweepFacts DEF Ledger
  <2>3. ASSUME NEW p \in 1 .. Len(scheduled)
        PROVE  p <= Len(resolved') /\ resolved'[p] = Root(scheduled[p].entry)
    <3>0. p <= Len(resolved')
      BY <1>8, <1>0, EndSweepFacts DEF Ledger
    <3>1. CASE p <= Len(resolved)
      BY <3>0, <3>1, <1>8, EndSweepFacts DEF Ledger
    <3>2. CASE p > Len(resolved)
      <4>1. p - Len(resolved) \in 1 .. Len(tmp_res)
        BY <3>2, <1>0 DEF Ledger
      <4>2. resolved'[(p - Len(resolved)) + Len(resolved)] = tmp_res[p - Len(resolved)]
        BY <4>1, <1>8, EndSweepFacts
      <4>3. (p - Len(resolved)) + Len(resolved) = p
        BY <1>0
      <4>4. QED BY <3>0, <3>2, <4>2, <4>3 DEF Ledger
    <3>3. QED BY <3>1, <3>2, <1>0
  <2>4. \A p \in 1 .. Len(scheduled) : ~(p > Len(resolved'))
    BY <1>8, <1>0, EndSweepFacts DEF Ledger
  <2>5. QED BY <2>1, <2>2, <2>3, <2>4, SameList DEF Ledger
<1>9. CASE UNCHANGED vars
  BY <1>1, <1>9 DEF vars, Ledger
<1>10. QED BY <1>2, <1>3, <1>4, <1>5, <1>6, <1>7, <1>8, <1>9 DEF Next

LEMMA SweptStep ==
  TypeOK /\ Ledger /\ SweptEntries /\ [Next]_vars => SweptEntries'
<1> SUFFICES ASSUME TypeOK, Ledger, SweptEntries, [Next]_vars PROVE SweptEntries'
  OBVIOUS
<1>0. /\ N \in Nat /\ Len(resolved) \in Nat /\ Len(tmp_res) \in Nat /\ Len(scheduled) \in Nat
      /\ \A p \in 1 .. Len(scheduled) : scheduled[p].entry \in 1 .. N
      /\ pos \in Int
  BY StateFacts
<1>1. ASSUME UNCHANGED << kernels, resolved, scheduled >>, pos' \in Int, pos' >= pos
      PROVE  SweptEntries'
  <2>1. ASSUME NEW p \in Len(resolved) + 1 .. Len(scheduled)
        PROVE  scheduled[p].entry < pos' /\ ~Resolved(scheduled[p].entry)
               /\ Ready(scheduled[p].entry)
    <3>1. scheduled[p].entry < pos /\ p \in 1 .. Len(scheduled)
      BY <1>0 DEF SweptEntries
    <3>2. QED BY <3>1, <1>0, <1>1 DEF SweptEntries
  <2>2. QED BY <2>1, <1>1, SameResolved DEF SweptEntries
<1>2. CASE StartSweep
  BY <1>1, <1>2, <1>0 DEF StartSweep
<1>3. CASE Return
  BY <1>1, <1>3, <1>0 DEF Return
<1>4. CASE Fail
  BY <1>1, <1>4, <1>0 DEF Fail
<1>5. CASE Skip
  BY <1>1, <1>5, <1>0 DEF Skip
<1>6. CASE Postpone
  BY <1>1, <1>6, <1>0 DEF Postpone
<1>7. CASE Place
  <2>1. UNCHANGED << kernels, resolved >> /\ pos' = pos + 1 /\ ~Resolved(pos) /\ Ready(pos)
    BY <1>7 DEF Place
  <2>2. ASSUME NEW p \in Len(resolved) + 1 .. Len(scheduled')
        PROVE  /\ scheduled'[p].entry < pos + 1
               /\ ~Resolved(scheduled'[p].entry)
               /\ Ready(scheduled'[p].entry)
    <3>1. CASE p = Len(scheduled) + 1
      BY <3>1, <2>1, <1>7, <1>0, PlaceFacts
    <3>2. CASE p \in Len(resolved) + 1 .. Len(scheduled)
      <4>1. scheduled'[p] = scheduled[p]
        BY <3>2, <1>0, <1>7, PlaceFacts
      <4>2. QED BY <3>2, <4>1, <1>0 DEF SweptEntries
    <3>3. QED BY <3>1, <3>2, <1>7, <1>0, PlaceFacts
  <2>3. QED BY <2>1, <2>2, SameResolved DEF SweptEntries
<1>8. CASE EndSweep
  <2>1. Len(resolved') = Len(scheduled')
    BY <1>8, <1>0, EndSweepFacts DEF EndSweep, Ledger
  <2>2. QED BY <2>1, <1>0, <1>8 DEF SweptEntries, EndSweep
<1>9. CASE UNCHANGED vars
  BY <1>1, <1>9, <1>0 DEF vars
<1>10. QED BY <1>2, <1>3, <1>4, <1>5, <1>6, <1>7, <1>8, <1>9 DEF Next

\* Every step but Place leaves the schedule alone.
LEMMA ScheduleFrame ==
  [Next]_vars => Place \/ UNCHANGED << kernels, scheduled >>
BY DEF Next, vars, StartSweep, Return, Fail, Skip, Postpone, EndSweep

LEMMA DependenciesFirstStep ==
  TypeOK /\ Ledger /\ DependenciesFirst /\ [Next]_vars => DependenciesFirst'
<1> SUFFICES ASSUME TypeOK, Ledger, DependenciesFirst, [Next]_vars PROVE DependenciesFirst'
  OBVIOUS
<1>0. /\ Len(resolved) \in Nat /\ Len(tmp_res) \in Nat /\ Len(scheduled) \in Nat
      /\ Range(resolved) = {resolved[p] : p \in 1 .. Len(resolved)}
  BY StateFacts
<1>1. CASE Place
  <2>1. UNCHANGED kernels /\ Ready(pos)
    BY <1>1 DEF Place
  <2>2. ASSUME NEW q \in 1 .. Len(scheduled'), NEW d \in kernels[scheduled'[q].entry].dep
        PROVE  \E p \in 1 .. q - 1 : kernels[scheduled'[p].kernel].root = d
    <3>1. CASE q = Len(scheduled) + 1
      <4>1. scheduled'[q].entry = pos
        BY <3>1, <1>1, PlaceFacts
      <4>2. PICK p \in 1 .. Len(resolved) : resolved[p] = d
        BY <4>1, <2>1, <1>0, <2>2 DEF Ready
      <4>3. p \in 1 .. Len(scheduled) /\ p \in 1 .. q - 1
        BY <3>1, <1>0 DEF Ledger
      <4>4. kernels[scheduled[p].kernel].root = d
        BY <4>2, <4>3, <1>0 DEF Ledger, Root, RootIn, Target
      <4>5. QED BY <4>3, <4>4, <1>1, PlaceFacts
    <3>2. CASE q \in 1 .. Len(scheduled)
      <4>1. scheduled'[q] = scheduled[q]
        BY <3>2, <1>1, PlaceFacts
      <4>2. PICK p \in 1 .. q - 1 : kernels[scheduled[p].kernel].root = d
        BY <3>2, <4>1, <2>2 DEF DependenciesFirst
      <4>3. p \in 1 .. Len(scheduled)
        BY <3>2, <1>0
      <4>4. QED BY <4>2, <4>3, <1>1, PlaceFacts
    <3>3. QED BY <3>1, <3>2, <1>0, <1>1, PlaceFacts
  <2>3. QED BY <2>1, <2>2 DEF DependenciesFirst
<1>2. CASE UNCHANGED << kernels, scheduled >>
  BY <1>2 DEF DependenciesFirst
<1>3. QED BY <1>1, <1>2, ScheduleFrame

LEMMA EachEntryOnceStep ==
  TypeOK /\ Ledger /\ SweptEntries /\ EachEntryOnce /\ [Next]_vars => EachEntryOnce'
<1> SUFFICES ASSUME TypeOK, Ledger, SweptEntries, EachEntryOnce, [Next]_vars
             PROVE  EachEntryOnce'
  OBVIOUS
<1>0. /\ Len(resolved) \in Nat /\ Len(tmp_res) \in Nat /\ Len(scheduled) \in Nat
      /\ Range(resolved) = {resolved[p] : p \in 1 .. Len(resolved)}
  BY StateFacts
<1>1. CASE Place
  \* What was placed before is resolved, or lies behind pos.
  <2>1. ASSUME NEW p \in 1 .. Len(scheduled) PROVE scheduled[p].entry # pos
    <3>1. CASE p <= Len(resolved)
      <4>1. Root(scheduled[p].entry) \in Range(resolved)
        BY <3>1, <1>0 DEF Ledger
      <4>2. Root(pos) \notin Range(resolved)
        BY <1>1 DEF Place, Resolved
      <4>3. QED BY <4>1, <4>2
    <3>2. CASE p > Len(resolved)
      <4>1. p \in Len(resolved) + 1 .. Len(scheduled)
        BY <3>2, <1>0
      <4>2. scheduled[p].entry < pos
        BY <4>1 DEF SweptEntries
      <4>3. QED BY <4>2, <1>1, PlaceFacts, StateFacts
    <3>3. QED BY <3>1, <3>2, <1>0
  <2>2. QED BY <2>1, <1>0, <1>1, PlaceFacts DEF EachEntryOnce
<1>2. CASE UNCHANGED << kernels, scheduled >>
  BY <1>2 DEF EachEntryOnce
<1>3. QED BY <1>1, <1>2, ScheduleFrame

\* Counting placements counts entries: the schedule is as long as the list exactly when every
\* entry has been placed.
LEMMA PlacedByCounting ==
  ASSUME TypeOK, EachEntryOnce
  PROVE  Len(scheduled) >= N <=> Placed = 1 .. N
<1> DEFINE L == Len(scheduled)
           entryAt == [p \in 1 .. L |-> scheduled[p].entry]
<1>0. N \in Nat /\ L \in Nat /\ \A p \in 1 .. L : scheduled[p].entry \in 1 .. N
  BY StateFacts
<1>1. entryAt \in Injection(1 .. L, 1 .. N)
  BY <1>0 DEF EachEntryOnce, Injection, IsInjective
<1>2. /\ IsFiniteSet(1 .. L) /\ Cardinality(1 .. L) = L
      /\ IsFiniteSet(1 .. N) /\ Cardinality(1 .. N) = N
  <2>1. \A n \in Nat : IsFiniteSet(1 .. n) /\ Cardinality(1 .. n) = n
    BY FS_Interval
  <2>2. QED BY <1>0, <2>1
<1>3. L <= N /\ (L = N <=> entryAt \in Surjection(1 .. L, 1 .. N))
  BY <1>1, <1>2, FS_Injection
<1>4. Placed = 1 .. N <=> entryAt \in Surjection(1 .. L, 1 .. N)
  BY <1>0 DEF Placed, Surjection
<1>5. QED BY <1>0, <1>3, <1>4

LEMMA ProgressStep ==
  TypeOK /\ Ledger /\ SweptEntries /\ EachEntryOnce /\ Progress /\ [Next]_vars => Progress'
<1> SUFFICES ASSUME TypeOK, Ledger, SweptEntries, EachEntryOnce, Progress, [Next]_vars,
                    Schedulable(kernels)'
             PROVE  /\ \A i \in 1 .. N' : Resolved(i)' => i \in Placed'
                    /\ \A i \in 1 .. N' : i < pos' /\ Ready(i)' /\ ~Resolved(i)' => i \in Placed'
                    /\ (pos' > 0 /\ tmp_res' = << >>) => \E k \in pos' .. N' : ~Resolved(k)'
  BY DEF Progress
<1>0. /\ N \in Nat /\ pos \in Nat
      /\ Len(resolved) \in Nat /\ Len(tmp_res) \in Nat /\ Len(scheduled) \in Nat
      /\ Range(resolved) = {resolved[p] : p \in 1 .. Len(resolved)}
      /\ \A p \in 1 .. Len(scheduled) : scheduled[p].entry \in 1 .. N
  BY StateFacts
<1>1. kernels' = kernels
  BY DEF Next, vars, StartSweep, Return, Fail, Skip, Postpone, Place, EndSweep
<1>2. Schedulable(kernels) /\ N' = N
  <2>1. Schedulable(kernels')
    BY DEF Schedulable, RootIn, TargetIn
  <2>2. QED BY <2>1, <1>1, SameList
<1>3. /\ \A i \in 1 .. N : Resolved(i) => i \in Placed
      /\ \A i \in 1 .. N : i < pos /\ Ready(i) /\ ~Resolved(i) => i \in Placed
      /\ (pos > 0 /\ tmp_res = << >>) => \E k \in pos .. N : ~Resolved(k)
  BY <1>2 DEF Progress
<1>4. CASE StartSweep
  <2>1. UNCHANGED << resolved, tmp_res, scheduled >> /\ pos' = 1 /\ Len(resolved) < N /\ pos = 0
    BY <1>4 DEF StartSweep
  <2>2. tmp_res = << >> /\ Len(scheduled) < N
    BY <2>1, <1>0 DEF Ledger
  <2>3. PICK k \in 1 .. N : k \notin Placed
    <3>1. Placed # 1 .. N
      BY <2>2, <1>0, PlacedByCounting
    <3>2. Placed \subseteq 1 .. N
      BY <1>0 DEF Placed
    <3>3. QED BY <3>1, <3>2
  <2>4. ~Resolved(k)
    BY <2>3, <1>3
  <2>5. Placed' = Placed
    BY <2>1 DEF Placed
  <2>6. QED BY <2>1, <2>3, <2>4, <2>5, <1>0, <1>1, <1>2, <1>3, SameResolved
<1>5. CASE Return \/ Fail \/ UNCHANGED vars
  <2>1. UNCHANGED << resolved, tmp_res, scheduled, pos >>
    BY <1>5 DEF Return, Fail, vars
  <2>2. Placed' = Placed
    BY <2>1 DEF Placed
  <2>3. QED BY <2>1, <2>2, <1>1, <1>2, <1>3, SameResolved
<1>6. CASE Skip \/ Postpone
  <2>1. UNCHANGED << resolved, tmp_res, scheduled >> /\ pos' = pos + 1 /\ pos \in 1 .. N
    BY <1>6 DEF Skip, Postpone
  <2>2. Resolved(pos) \/ ~Ready(pos)
    BY <1>6 DEF Skip, Postpone
  <2>3. Placed' = Placed
    BY <2>1 DEF Placed
  <2>4. ASSUME NEW i \in 1 .. N, i < pos + 1, Ready(i), ~Resolved(i)
        PROVE  i \in Placed
    BY <2>2, <2>4, <1>0, <1>3
  \* The entry ahead is not this one, or this one waits for an entry ahead.
  <2>5. tmp_res = << >> => \E k \in pos + 1 .. N : ~Resolved(k)
    <3>1. CASE Resolved(pos)
      BY <3>1, <2>1, <1>0, <1>3
    <3>2. CASE ~Ready(pos)
      <4>1. PICK d \in kernels[pos].dep : d \notin Range(resolved)
        BY <3>2 DEF Ready
      <4>2. PICK k \in pos + 1 .. N : RootIn(kernels, k) = d
        BY <4>1, <2>1, <1>2 DEF Schedulable, N
      <4>3. QED BY <4>1, <4>2 DEF Resolved, Root
    <3>3. QED BY <3>1, <3>2, <2>2
  <2>6. QED BY <2>1, <2>3, <2>4, <2>5, <1>0, <1>1, <1>2, <1>3, SameResolved
<1>7. CASE Place
  <2>1. UNCHANGED resolved /\ pos' = pos + 1 /\ pos \in 1 .. N
    BY <1>7 DEF Place
  <2>2. tmp_res' # << >>
    <3>1. Len(tmp_res') = Len(tmp_res) + 1
      BY <1>7, PlaceFacts
    <3>2. QED BY <3>1, <1>0
  <2>3. Placed \subseteq Placed' /\ pos \in Placed'
    <3>1. /\ Len(scheduled') = Len(scheduled) + 1
          /\ scheduled'[Len(scheduled) + 1].entry = pos
          /\ \A p \in 1 .. Len(scheduled) : scheduled'[p] = scheduled[p]
      BY <1>7, PlaceFacts
    <3>2. Placed' = {scheduled'[p].entry : p \in 1 .. Len(scheduled')}
      BY DEF Placed
    <3>3. 1 .. Len(scheduled) \subseteq 1 .. Len(scheduled')
          /\ Len(scheduled) + 1 \in 1 .. Len(scheduled')
      BY <3>1, <1>0
    <3>4. QED BY <3>1, <3>2, <3>3 DEF Placed
  <2>4. QED BY <2>1, <2>2, <2>3, <1>0, <1>1, <1>2, <1>3, SameResolved
<1>8. CASE EndSweep
  <2>1. UNCHANGED scheduled /\ pos' = 0 /\ pos = N + 1
    BY <1>8 DEF EndSweep
  <2>2. Placed' = Placed
    BY <2>1 DEF Placed
  <2>3. ASSUME NEW i \in 1 .. N, Resolved(i)' PROVE i \in Placed
    <3>1. CASE Resolved(i)
      BY <3>1, <1>3
    <3>2. CASE ~Resolved(i)
      <4>1. PICK p \in 1 .. Len(resolved') : resolved'[p] = Root(i)
        <5>1. Root(i)' = Root(i)
          BY <1>1, SameList
        <5>2. Root(i) \in Range(resolved')
          BY <2>3, <5>1 DEF Resolved
        <5>3. resolved' \in Seq(Nat)
          BY <1>8, ConcatProperties DEF EndSweep, TypeOK
        <5>4. QED BY <5>2, <5>3 DEF Range
      <4>2. p \in 1 .. Len(scheduled)
        BY <4>1, <1>0, <1>8, EndSweepFacts DEF Ledger
      <4>3. p > Len(resolved)
        <5>1. SUFFICES ASSUME p <= Len(resolved) PROVE FALSE
          BY <1>0, <4>2
        <5>2. resolved[p] = Root(i) /\ p \in 1 .. Len(resolved)
          BY <4>1, <4>2, <5>1, <1>0, <1>8, EndSweepFacts
        <5>3. QED BY <5>2, <3>2, <1>0 DEF Resolved
      <4>4. Root(scheduled[p].entry) = Root(i)
        <5>1. p - Len(resolved) \in 1 .. Len(tmp_res)
          BY <4>2, <4>3, <1>0 DEF Ledger
        <5>2. resolved'[(p - Len(resolved)) + Len(resolved)] = tmp_res[p - Len(resolved)]
          BY <5>1, <1>8, EndSweepFacts
        <5>3. (p - Len(resolved)) + Len(resolved) = p
          BY <1>0
        <5>4. QED BY <5>2, <5>3, <4>1, <4>2, <4>3 DEF Ledger
      <4>5. Ready(scheduled[p].entry)
        BY <4>2, <4>3, <1>0 DEF SweptEntries
      <4>6. kernels[scheduled[p].entry].dep = kernels[i].dep
        BY <4>4, <4>2, <1>0, <1>2 DEF Schedulable, Root, N
      <4>7. Ready(i)
        BY <4>5, <4>6 DEF Ready
      <4>8. QED BY <4>7, <3>2, <2>1, <1>0, <1>3
    <3>3. QED BY <3>1, <3>2
  <2>4. \A i \in 1 .. N : ~(i < pos') /\ ~(pos' > 0)
    BY <2>1, <1>0
  <2>5. QED BY <2>1, <2>2, <2>3, <2>4, <1>0, <1>2
<1>9. QED BY <1>4, <1>5, <1>6, <1>7, <1>8 DEF Next

LEMMA LoopInit == Init => IndInv
<1> SUFFICES ASSUME Init PROVE IndInv
  OBVIOUS
<1>1. /\ IsKernelList(kernels) /\ resolved = << >> /\ tmp_res = << >> /\ scheduled = << >>
      /\ pos = 0 /\ status = "running"
  BY KernelListsAssumption DEF Init
<1>2. N \in Nat /\ \A i \in 1 .. N : Root(i) \in Nat
  BY <1>1, ListFacts DEF N, Root
<1>3. \A i : ~Resolved(i)
  BY <1>1 DEF Resolved, Range
<1>4. Progress
  BY <1>1, <1>2, <1>3 DEF Progress
<1>5. QED BY <1>1, <1>4, TypeInit
         DEF IndInv, Ledger, SweptEntries, DependenciesFirst, EachEntryOnce

LEMMA LoopNext == IndInv /\ [Next]_vars => IndInv'
BY TypeStep, LedgerStep, SweptStep, DependenciesFirstStep, EachEntryOnceStep, ProgressStep
   DEF IndInv

LEMMA IndInvHolds == Spec => []IndInv
BY LoopInit, LoopNext, PTL DEF Spec

\* Whatever the list, no kernel is scheduled before the kernels it depends on.
THEOREM SchedulesDependenciesFirst == Spec => []DependenciesFirst
BY IndInvHolds, PTL DEF IndInv

\* Whatever the list, no entry is dispatched twice.
THEOREM SchedulesEachEntryOnce == Spec => []EachEntryOnce
BY IndInvHolds, PTL DEF IndInv

LEMMA DoneIsComplete == IndInv => ReturnedScheduleIsComplete
<1> SUFFICES ASSUME IndInv, status = "done" PROVE Placed = 1 .. N
  BY DEF ReturnedScheduleIsComplete, Placed
<1>1. Len(resolved) >= N /\ Len(scheduled) = Len(resolved) + Len(tmp_res)
  BY DEF IndInv, Ledger
<1>2. Len(scheduled) >= N
  BY <1>1, StateFacts DEF IndInv
<1>3. QED BY <1>2, PlacedByCounting DEF IndInv

\* Whatever the list, a schedule that is returned launches every entry of it.
THEOREM ReturnsCompleteSchedule == Spec => []ReturnedScheduleIsComplete
BY DoneIsComplete, IndInvHolds, PTL

LEMMA SweepsAreFruitful == IndInv => SweepsMakeProgress
<1> SUFFICES ASSUME IndInv, Schedulable(kernels), pos = N + 1, tmp_res = << >> PROVE FALSE
  BY DEF SweepsMakeProgress
<1>1. N \in Nat
  BY StateFacts DEF IndInv
<1>2. \E k \in N + 1 .. N : ~Resolved(k)
  BY <1>1 DEF IndInv, Progress
<1>3. QED BY <1>1, <1>2

\* No sweep over a schedulable list is fruitless, so the while loop cannot spin.
THEOREM NeverSpins == Spec => []SweepsMakeProgress
BY SweepsAreFruitful, IndInvHolds, PTL

-----------------------------------------------------------------------------
\* The loop implements the abstract promise: it launches each entry once, in an order the
\* dependencies allow, and returns only a complete schedule.
THEOREM Refinement == Spec => ImplementsKernelOrder
<1> DEFINE entries == [p \in 1 .. Len(scheduled) |-> scheduled[p].entry]
<1>1. Init => Order!Init
  BY DEF Init, Order!Init
<1>2. IndInv /\ ReturnedScheduleIsComplete' /\ TypeOK' /\ [Next]_vars => [Order!Next]_(Order!vars)
  <2> SUFFICES ASSUME IndInv, ReturnedScheduleIsComplete', TypeOK', [Next]_vars
               PROVE  [Order!Next]_(Order!vars)
    OBVIOUS
  <2>0. /\ N \in Nat /\ Len(scheduled) \in Nat /\ Len(resolved) \in Nat
        /\ \A p \in 1 .. Len(scheduled) : scheduled[p].entry \in 1 .. N
        /\ Range(resolved) = {resolved[p] : p \in 1 .. Len(resolved)}
        /\ Range(entries) = {scheduled[p].entry : p \in 1 .. Len(scheduled)}
    <3>1. TypeOK
      BY DEF IndInv
    <3>2. QED BY <3>1, StateFacts DEF Range
  <2>1. CASE StartSweep \/ Fail \/ Skip \/ Postpone \/ EndSweep \/ UNCHANGED vars
    <3>1. UNCHANGED << kernels, scheduled >> /\ (status' = "done" <=> status = "done")
      BY <2>1 DEF StartSweep, Fail, Skip, Postpone, EndSweep, vars
    <3>2. QED BY <3>1 DEF Order!vars
  <2>2. CASE Return
    <3>1. UNCHANGED << kernels, scheduled >> /\ status = "running" /\ status' = "done"
      BY <2>2 DEF Return
    <3>2. Range(entries) = 1 .. N
      BY <3>1, <2>0 DEF ReturnedScheduleIsComplete, N
    <3>3. Order!Finish
      BY <3>1, <3>2 DEF Order!Finish, Order!Range, Range, N
    <3>4. QED BY <3>3 DEF Order!Next
  <2>3. CASE Place
    <3>1. /\ UNCHANGED << kernels, status >> /\ status = "running" /\ pos \in 1 .. N
          /\ Ready(pos) /\ ~Resolved(pos)
      BY <2>3 DEF Place
    <3>2. entries' = Append(entries, pos)
      BY <2>3, <2>0, PlaceFacts DEF IndInv
    <3>3. pos \notin Range(entries)
      <4>1. Len(scheduled') = Len(scheduled) + 1 /\ scheduled'[Len(scheduled) + 1].entry = pos
        BY <2>3, PlaceFacts DEF IndInv
      <4>2. \A p \in 1 .. Len(scheduled) : scheduled'[p] = scheduled[p]
        BY <2>3, PlaceFacts DEF IndInv
      <4>3. EachEntryOnce'
        BY EachEntryOnceStep DEF IndInv
      <4>4. QED BY <4>1, <4>2, <4>3, <2>0 DEF EachEntryOnce
    <3>4. ASSUME NEW d \in kernels[pos].dep
          PROVE  \E j \in Range(entries) : RootIn(kernels, j) = d
      <4>1. PICK p \in 1 .. Len(resolved) : resolved[p] = d
        BY <3>1, <2>0 DEF Ready
      <4>2. p \in 1 .. Len(scheduled) /\ Root(scheduled[p].entry) = d
        <5>1. Ledger /\ Len(tmp_res) \in Nat
          BY StateFacts DEF IndInv
        <5>2. QED BY <4>1, <5>1, <2>0 DEF Ledger
      <4>3. QED BY <4>2, <2>0 DEF Root
    <3>5. PICK i \in 1 .. Len(kernels) : i = pos
      BY <3>1 DEF N
    <3>6. Order!Launch(i)
      <4>1. Order!Range(entries) = Range(entries)
        BY DEF Order!Range, Range
      <4>2. \A j : Order!RootIn(kernels, j) = RootIn(kernels, j)
        BY DEF Order!RootIn, RootIn, Order!TargetIn, TargetIn, Order!Unmasked, Unmasked
      <4>3. (status = "done")' = (status = "done") /\ status # "done"
        BY <3>1
      <4>4. QED BY <4>1, <4>2, <4>3, <3>1, <3>2, <3>3, <3>4, <3>5 DEF Order!Launch
    <3>7. QED BY <3>6 DEF Order!Next
  <2>4. QED BY <2>1, <2>2, <2>3 DEF Next
<1>3. QED BY <1>1, <1>2, IndInvHolds, ReturnsCompleteSchedule, TypeCorrect, PTL
         DEF Spec, ImplementsKernelOrder, Order!Spec
=============================================================================
