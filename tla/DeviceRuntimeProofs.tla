------------------------- MODULE DeviceRuntimeProofs -------------------------
(***************************************************************************)
(* A host that reads a staging buffer has waited for the copy into it: for  *)
(* any number of threads, calls and submissions.  A queued submission that  *)
(* writes the staging buffer of a host is not later than the last one of    *)
(* that host, and a mapped buffer's host has submitted nothing since.  For  *)
(* the latter a callback must be called once, so sets of collected          *)
(* callbacks are disjoint.                                                  *)
(***************************************************************************)
EXTENDS DeviceRuntime, TLAPS, SequenceTheorems, WellFoundedInduction

CommandType == [kind : {"write", "copy", "compute"}, dst : Buffers \cup Hosts,
                src : Seq(Buffers), data : Seq(Nat)]

TypeInv ==
  /\ queue \in Seq(Seq(CommandType)) /\ finished \in Nat
  /\ index \in [Hosts -> Nat]
  /\ pc \in [Hosts -> {"idle", "map", "wait", "call back", "receive"}]
  /\ callback \in [Hosts -> {"none", "registered", "collected", "called"}]
  /\ mapped \in [Hosts -> BOOLEAN]
  /\ taken \in [Hosts -> SUBSET Hosts]

QueuedInTime ==
  \A h \in Hosts : \A i \in 1 .. Len(queue) :
    Writes(h, queue[i]) => finished + i <= index[h]

MappedInTime ==
  \A h \in Hosts : mapped[h] => finished >= index[h] /\ callback[h] \in {"collected", "called"}

NoneOutside == \A h \in Hosts : pc[h] \in {"idle", "map"} => callback[h] = "none"

TakenOnce ==
  /\ \A h, g \in Hosts : g \in taken[h] => callback[g] = "collected"
  /\ \A h, k, g \in Hosts : g \in taken[h] /\ g \in taken[k] => h = k

IndInv == TypeInv /\ QueuedInTime /\ MappedInTime /\ NoneOutside /\ TakenOnce

----------------------------------------------------------------------------
(* What is submitted is a sequence of commands, and only a download writes  *)
(* the staging buffer of a host, its own.                                   *)

LEMMA UploadsType ==
  ASSUME NEW u \in Uploads
  PROVE  UploadOf(u) \in Seq(CommandType) /\ \A h \in Hosts : ~Writes(h, UploadOf(u))
<1>1. u[1] \in Buffers /\ u[2] \in Seq(Nat) /\ u[1] \notin Hosts
  BY CommandsAssumption
<1>2. Write(u[1], u[2]) \in CommandType /\ Write(u[1], u[2]).dst = u[1]
  BY <1>1 DEF Write, Command, CommandType
<1>3. UploadOf(u) = <<Write(u[1], u[2])>>
  BY DEF UploadOf
<1> QED BY <1>1, <1>2, <1>3 DEF Writes

LEMMA PipesType ==
  ASSUME NEW p \in Pipes
  PROVE  PipeOf(p) \in Seq(CommandType) /\ \A h \in Hosts : ~Writes(h, PipeOf(p))
<1>1. p[1] \in Buffers /\ p[2] \in Buffers /\ p[2] \notin Hosts
  BY CommandsAssumption
<1>2. Copy(p[2], p[1]) \in CommandType /\ Copy(p[2], p[1]).dst = p[2]
  BY <1>1 DEF Copy, Command, CommandType
<1>3. PipeOf(p) = <<Copy(p[2], p[1])>>
  BY DEF PipeOf
<1> QED BY <1>1, <1>2, <1>3 DEF Writes

LEMMA DownloadsType ==
  ASSUME NEW h \in Hosts, NEW b \in Downloads
  PROVE  /\ DownloadOf(h, b) \in Seq(CommandType)
         /\ \A g \in Hosts : Writes(g, DownloadOf(h, b)) => g = h
<1>1. b \in Buffers
  BY CommandsAssumption
<1>2. Copy(h, b) \in CommandType /\ Copy(h, b).dst = h
  BY <1>1 DEF Copy, Command, CommandType
<1>3. DownloadOf(h, b) = <<Copy(h, b)>>
  BY DEF DownloadOf
<1> QED BY <1>2, <1>3 DEF Writes

LEMMA BatchesType ==
  ASSUME NEW h \in Hosts, NEW bt \in Batches[h]
  PROVE  BatchOf(bt) \in Seq(CommandType) /\ \A g \in Hosts : ~Writes(g, BatchOf(bt))
<1>1. bt \in Seq(Dispatches)
  BY CommandsAssumption
<1>2. ASSUME NEW d \in Dispatches
      PROVE  Kernel(d) \in CommandType /\ Kernel(d).dst \in Buffers
  BY DEF Kernel, Compute, Command, CommandType, Dispatches, Buffers
<1>3. Len(bt) \in Nat /\ DOMAIN bt = 1 .. Len(bt) /\ \A i \in 1 .. Len(bt) : bt[i] \in Dispatches
  BY <1>1
<1>4. BatchOf(bt) = [i \in 1 .. Len(bt) |-> Kernel(bt[i])]
  BY <1>3 DEF BatchOf
<1>5. BatchOf(bt) \in Seq(CommandType)
  BY <1>2, <1>3, <1>4
<1>6. ASSUME NEW g \in Hosts PROVE ~Writes(g, BatchOf(bt))
  BY <1>2, <1>3, <1>4, CommandsAssumption DEF Writes
<1> QED BY <1>5, <1>6

----------------------------------------------------------------------------
(* The steps.                                                               *)

LEMMA QueueTypes ==
  ASSUME IndInv
  PROVE  /\ queue \in Seq(Seq(CommandType)) /\ Len(queue) \in Nat
         /\ DOMAIN queue = 1 .. Len(queue)
         /\ \A i \in 1 .. Len(queue) : queue[i] \in Seq(CommandType)
         /\ finished \in Nat /\ index \in [Hosts -> Nat]
<1>1. queue \in Seq(Seq(CommandType)) /\ finished \in Nat /\ index \in [Hosts -> Nat]
  BY DEF IndInv, TypeInv
<1> QED BY <1>1

\* A submission that may write the staging buffer of the host that makes it,
\* and of no other.
LEMMA Enqueued ==
  ASSUME IndInv, NEW h \in Hosts, NEW s \in Seq(CommandType), Enqueue(h, s),
         pc[h] = "idle", \A g \in Hosts : Writes(g, s) => g = h
  PROVE  /\ queue' \in Seq(Seq(CommandType)) /\ finished' \in Nat
         /\ index' \in [Hosts -> Nat]
         /\ QueuedInTime'
         /\ \A g \in Hosts : mapped[g] => finished' >= index'[g]
<1>0. /\ queue' = Append(queue, s) /\ finished' = finished
      /\ index' = [index EXCEPT ![h] = finished + Len(queue) + 1]
  BY DEF Enqueue, Submissions
<1>1. /\ queue' = Append(queue, s) /\ finished' = finished
      /\ index' = [index EXCEPT ![h] = finished + Len(queue) + 1]
      /\ queue \in Seq(Seq(CommandType)) /\ Len(queue) \in Nat /\ finished \in Nat
      /\ index \in [Hosts -> Nat]
  BY <1>0, QueueTypes
<1>2. queue' \in Seq(Seq(CommandType)) /\ index' \in [Hosts -> Nat] /\ finished' \in Nat
  BY <1>1
<1>3. Len(queue') = Len(queue) + 1
  BY <1>1
<1>4. \A i \in 1 .. Len(queue) : queue'[i] = queue[i]
  BY <1>1
<1>5. queue'[Len(queue) + 1] = s
  BY <1>1
<1>6. ASSUME NEW g \in Hosts, NEW i \in 1 .. Len(queue'), Writes(g, queue'[i])
      PROVE  finished' + i <= index'[g]
  <2>1. CASE i \in 1 .. Len(queue)
    <3>1. finished + i <= index[g]
      BY <2>1, <1>4, <1>6 DEF IndInv, QueuedInTime
    <3>2. CASE g = h
      BY <1>1, <2>1, <3>2
    <3>3. CASE g # h
      BY <1>1, <3>1, <3>3
    <3> QED BY <3>2, <3>3
  <2>2. CASE i = Len(queue) + 1
    <3>1. g = h
      BY <2>2, <1>5, <1>6
    <3> QED BY <1>1, <2>2, <3>1
  <2> QED BY <1>1, <1>3, <2>1, <2>2
<1>7. QueuedInTime'
  BY <1>6 DEF QueuedInTime, Writes
<1>8. ASSUME NEW g \in Hosts, mapped[g] PROVE finished' >= index'[g]
  <2>1. g # h
    BY <1>8 DEF IndInv, MappedInTime, NoneOutside
  <2> QED BY <1>1, <1>8, <2>1 DEF IndInv, MappedInTime
<1> QED BY <1>2, <1>7, <1>8

\* What is left of the invariant when such a call returns at once.
LEMMA Submitted ==
  ASSUME IndInv, NEW h \in Hosts, NEW s \in Seq(CommandType), Enqueue(h, s),
         pc[h] = "idle", \A g \in Hosts : Writes(g, s) => g = h,
         UNCHANGED <<callback, mapped, taken>>,
         pc' = pc \/ pc' = [pc EXCEPT ![h] = "map"]
  PROVE  IndInv'
<1>1. /\ queue' \in Seq(Seq(CommandType)) /\ finished' \in Nat
      /\ index' \in [Hosts -> Nat] /\ QueuedInTime'
      /\ \A g \in Hosts : mapped[g] => finished' >= index'[g]
  BY Enqueued
<1>2. TypeInv'
  BY <1>1 DEF IndInv, TypeInv
<1>3. MappedInTime'
  BY <1>1 DEF IndInv, MappedInTime
<1>4. NoneOutside'
  BY DEF IndInv, NoneOutside, TypeInv
<1>5. TakenOnce'
  BY DEF IndInv, TakenOnce
<1> QED BY <1>1, <1>2, <1>3, <1>4, <1>5 DEF IndInv

LEMMA Collected ==
  ASSUME IndInv, NEW h \in Hosts, Collect(h), pc[h] \in {"idle", "wait"}
  PROVE  IndInv'
<1> USE DEF Collect, Goto
<1>1. TypeInv'
  BY DEF IndInv, TypeInv, Ready
<1>2. QueuedInTime'
  BY DEF IndInv, QueuedInTime
<1>3. MappedInTime'
  BY DEF IndInv, TypeInv, MappedInTime, Ready
<1>4. NoneOutside'
  BY DEF IndInv, TypeInv, NoneOutside, Ready
<1>5. /\ \A g \in Hosts : taken'[g] = IF g = h THEN Ready ELSE taken[g]
      /\ \A g \in Hosts : callback'[g] = IF g \in Ready THEN "collected" ELSE callback[g]
      /\ \A g \in Ready : callback[g] = "registered"
      /\ \A k, g \in Hosts : g \in taken[k] => callback[g] = "collected"
      /\ \A l, k, g \in Hosts : g \in taken[l] /\ g \in taken[k] => l = k
  BY DEF IndInv, TypeInv, TakenOnce, Ready
<1>6. ASSUME NEW k \in Hosts, NEW g \in Hosts, g \in taken'[k]
      PROVE  /\ callback'[g] = "collected"
             /\ (k = h /\ g \in Ready) \/ (k # h /\ g \in taken[k])
  <2>1. CASE k = h
    <3>1. taken'[k] = Ready
      BY <1>5, <2>1
    <3>2. g \in Ready
      BY <1>6, <3>1
    <3>3. callback'[g] = "collected"
      BY <1>5, <3>2
    <3> QED BY <2>1, <3>2, <3>3
  <2>2. CASE k # h
    <3>1. g \in taken[k] /\ callback[g] = "collected"
      BY <1>5, <1>6, <2>2
    <3> QED BY <1>5, <2>2, <3>1
  <2> QED BY <2>1, <2>2
<1>7. ASSUME NEW l \in Hosts, NEW k \in Hosts, NEW g \in Hosts,
             g \in taken'[l], g \in taken'[k]
      PROVE  l = k
  <2>1. /\ (l = h /\ g \in Ready) \/ (l # h /\ g \in taken[l])
        /\ (k = h /\ g \in Ready) \/ (k # h /\ g \in taken[k])
    BY <1>6, <1>7
  <2>2. \A m \in Hosts : ~(g \in Ready /\ g \in taken[m])
    BY <1>5
  <2> QED BY <1>5, <2>1, <2>2
<1>8. TakenOnce'
  BY <1>6, <1>7 DEF TakenOnce
<1> QED BY <1>1, <1>2, <1>3, <1>4, <1>8 DEF IndInv

LEMMA CalledBack ==
  ASSUME IndInv, NEW h \in Hosts, NEW g \in Hosts, CallBack(h, g)
  PROVE  IndInv'
<1> USE DEF CallBack
<1>1. TypeInv'
  BY DEF IndInv, TypeInv
<1>2. QueuedInTime'
  BY DEF IndInv, QueuedInTime
<1>3. callback[g] = "collected"
  BY DEF IndInv, TakenOnce
<1>4. MappedInTime' /\ NoneOutside'
  BY <1>3 DEF IndInv, TypeInv, MappedInTime, NoneOutside
<1>5. /\ \A k \in Hosts : taken'[k] = IF k = h THEN taken[h] \ {g} ELSE taken[k]
      /\ \A k \in Hosts : callback'[k] = IF k = g THEN "called" ELSE callback[k]
      /\ \A k, l \in Hosts : l \in taken[k] => callback[l] = "collected"
      /\ \A l, k, m \in Hosts : m \in taken[l] /\ m \in taken[k] => l = k
      /\ g \in taken[h]
  BY DEF IndInv, TypeInv, TakenOnce
<1>6. ASSUME NEW k \in Hosts, NEW l \in Hosts, l \in taken'[k]
      PROVE  l \in taken[k] /\ l # g
  <2>1. CASE k = h
    <3>1. taken'[k] = taken[h] \ {g}
      BY <1>5, <2>1
    <3> QED BY <1>6, <2>1, <3>1
  <2>2. CASE k # h
    <3>1. l \in taken[k]
      BY <1>5, <1>6, <2>2
    <3>2. l # g
      BY <1>5, <2>2, <3>1
    <3> QED BY <3>1, <3>2
  <2> QED BY <2>1, <2>2
<1>7. \A k, l \in Hosts : l \in taken'[k] => callback'[l] = "collected"
  BY <1>5, <1>6
<1>8. TakenOnce'
  BY <1>5, <1>6, <1>7 DEF TakenOnce
<1> QED BY <1>1, <1>2, <1>4, <1>8 DEF IndInv

LEMMA Received ==
  ASSUME IndInv, NEW h \in Hosts, recv(h)
  PROVE  IndInv'
<1> USE DEF recv, Return, Goto
<1>1. TypeInv' /\ QueuedInTime'
  BY DEF IndInv, TypeInv, QueuedInTime
<1>2. MappedInTime' /\ NoneOutside'
  BY DEF IndInv, TypeInv, MappedInTime, NoneOutside
<1>3. TakenOnce'
  BY DEF IndInv, TypeInv, TakenOnce
<1> QED BY <1>1, <1>2, <1>3 DEF IndInv

LEMMA Executed ==
  ASSUME IndInv, Execute
  PROVE  IndInv'
<1>0. /\ queue # <<>> /\ UNCHANGED <<pc, index, callback, mapped, taken>>
      /\ IF Tail(queue[1]) = <<>> THEN queue' = Tail(queue) /\ finished' = finished + 1
         ELSE queue' = [queue EXCEPT ![1] = Tail(queue[1])] /\ finished' = finished
  BY DEF Execute, hostVars
<1>1. /\ queue \in Seq(Seq(CommandType)) /\ Len(queue) \in Nat \ {0} /\ queue[1] \in Seq(CommandType)
      /\ finished \in Nat /\ index \in [Hosts -> Nat]
  BY <1>0, QueueTypes
<1>2. CASE Tail(queue[1]) = <<>>
  <2>1. queue' = Tail(queue) /\ finished' = finished + 1
    BY <1>0, <1>2
  <2>2. /\ queue' \in Seq(Seq(CommandType)) /\ Len(queue') = Len(queue) - 1
        /\ \A i \in 1 .. Len(queue') : queue'[i] = queue[i + 1]
    BY <1>1, <2>1
  <2>3. QueuedInTime'
    <3> SUFFICES ASSUME NEW g \in Hosts, NEW i \in 1 .. Len(queue'), Writes(g, queue'[i])
                 PROVE  finished' + i <= index[g]
      BY <1>0 DEF QueuedInTime, Writes
    <3>1. i + 1 \in 1 .. Len(queue) /\ Writes(g, queue[i + 1])
      BY <1>1, <2>2
    <3>2. finished + (i + 1) <= index[g]
      BY <3>1 DEF IndInv, QueuedInTime
    <3>3. index[g] \in Nat /\ i \in Nat
      BY <1>1, <2>2
    <3> QED BY <1>1, <2>1, <3>2, <3>3
  <2>4. TypeInv'
    <3>1. finished' \in Nat
      BY <1>1, <2>1
    <3> QED BY <1>0, <2>2, <3>1 DEF IndInv, TypeInv
  <2>5. MappedInTime'
    <3> SUFFICES ASSUME NEW g \in Hosts, mapped[g]
                 PROVE  finished' >= index[g] /\ callback[g] \in {"collected", "called"}
      BY <1>0 DEF MappedInTime
    <3>1. finished >= index[g] /\ callback[g] \in {"collected", "called"}
      BY DEF IndInv, MappedInTime
    <3>2. index[g] \in Nat
      BY <1>1
    <3> QED BY <1>1, <2>1, <3>1, <3>2
  <2> QED BY <1>0, <2>3, <2>4, <2>5 DEF IndInv, NoneOutside, TakenOnce
<1>3. CASE Tail(queue[1]) # <<>>
  <2>1. queue' = [queue EXCEPT ![1] = Tail(queue[1])] /\ finished' = finished
    BY <1>0, <1>3
  <2>2. Tail(queue[1]) \in Seq(CommandType)
    <3>1. CASE queue[1] = <<>>
      BY <1>1, <1>3, <3>1
    <3>2. CASE queue[1] # <<>>
      BY <1>1, <3>2
    <3> QED BY <3>1, <3>2
  <2>3. queue' \in Seq(Seq(CommandType)) /\ Len(queue') = Len(queue)
    BY <1>1, <2>1, <2>2
  <2>4. ASSUME NEW g \in Hosts, Writes(g, queue'[1]) PROVE Writes(g, queue[1])
    <3>1. queue'[1] = Tail(queue[1])
      BY <1>1, <2>1
    <3>2. PICK j \in DOMAIN Tail(queue[1]) : Tail(queue[1])[j].dst = g
      BY <2>4, <3>1 DEF Writes
    <3>3. queue[1] # <<>>
      BY <1>1, <1>3
    <3>4. j + 1 \in DOMAIN queue[1] /\ queue[1][j + 1] = Tail(queue[1])[j]
      BY <1>1, <3>2, <3>3
    <3> QED BY <3>2, <3>4 DEF Writes
  <2>5. QueuedInTime'
    <3> SUFFICES ASSUME NEW g \in Hosts, NEW i \in 1 .. Len(queue'), Writes(g, queue'[i])
                 PROVE  finished + i <= index[g]
      BY <1>0, <2>1 DEF QueuedInTime, Writes
    <3>1. Writes(g, queue[i])
      <4>1. CASE i = 1
        BY <2>4, <4>1
      <4>2. CASE i # 1
        <5>1. queue'[i] = queue[i]
          BY <1>1, <2>1, <2>3, <4>2
        <5> QED BY <5>1
      <4> QED BY <4>1, <4>2
    <3> QED BY <2>3, <3>1 DEF IndInv, QueuedInTime
  <2>6. TypeInv' /\ MappedInTime'
    BY <1>0, <2>1, <2>3 DEF IndInv, TypeInv, MappedInTime
  <2> QED BY <1>0, <2>5, <2>6 DEF IndInv, NoneOutside, TakenOnce
<1> QED BY <1>2, <1>3

----------------------------------------------------------------------------
LEMMA IndInvInit == Init => IndInv
BY DEF Init, IndInv, TypeInv, QueuedInTime, MappedInTime, NoneOutside, TakenOnce

LEMMA HostStep ==
  ASSUME IndInv, NEW h \in Hosts, HostNext(h)
  PROVE  IndInv'
<1> USE DEF hostVars
<1>1. ASSUME NEW u \in Uploads, upload(h, u[1], u[2]) PROVE IndInv'
  <2>1. Enqueue(h, UploadOf(<<u[1], u[2]>>)) /\ pc[h] = "idle"
        /\ UNCHANGED <<pc, callback, mapped, taken>>
    BY <1>1 DEF upload, Call
  <2>2. u = <<u[1], u[2]>>
    BY CommandsAssumption
  <2> QED BY <2>1, <2>2, UploadsType, Submitted
<1>2. ASSUME NEW p \in Pipes, pipe(h, p[1], p[2]) PROVE IndInv'
  <2>1. Enqueue(h, PipeOf(<<p[1], p[2]>>)) /\ pc[h] = "idle"
        /\ UNCHANGED <<pc, callback, mapped, taken>>
    BY <1>2 DEF pipe, Call
  <2>2. p = <<p[1], p[2]>>
    BY CommandsAssumption
  <2> QED BY <2>1, <2>2, PipesType, Submitted
<1>3. CASE submit(h)
  <2>1. Enqueue(h, BatchOf(batch[h])) /\ pc[h] = "idle" /\ batch[h] \in Batches[h]
        /\ UNCHANGED <<pc, callback, mapped, taken>>
    BY <1>3 DEF submit, Call
  <2> QED BY <2>1, BatchesType, Submitted
<1>4. ASSUME NEW b \in Downloads, download(h, b) PROVE IndInv'
  <2>1. Enqueue(h, DownloadOf(h, b)) /\ pc[h] = "idle" /\ pc' = [pc EXCEPT ![h] = "map"]
        /\ UNCHANGED <<callback, mapped, taken>>
    BY <1>4 DEF download, Call, Goto
  <2> QED BY <2>1, DownloadsType, Submitted
<1>5. ASSUME NEW d \in Dispatches, record(h, d) PROVE IndInv'
  BY <1>5 DEF record, IndInv, TypeInv, QueuedInTime, MappedInTime, NoneOutside, TakenOnce
<1>6. CASE sync(h)
  BY <1>6 DEF sync, Call, Goto, IndInv, TypeInv, QueuedInTime, MappedInTime, NoneOutside, TakenOnce
<1>7. CASE poll(h)
  BY <1>7, Collected DEF poll, Call
<1>8. CASE map_async(h)
  <2>1. TypeInv' /\ QueuedInTime'
    BY <1>8 DEF map_async, Goto, IndInv, TypeInv, QueuedInTime
  <2>2. MappedInTime' /\ NoneOutside'
    BY <1>8 DEF map_async, Goto, IndInv, TypeInv, MappedInTime, NoneOutside
  <2>3. callback[h] = "none"
    BY <1>8 DEF map_async, IndInv, NoneOutside
  <2>4. TakenOnce'
    BY <1>8, <2>3 DEF map_async, IndInv, TypeInv, TakenOnce
  <2> QED BY <2>1, <2>2, <2>4 DEF IndInv
<1>9. CASE Wait(h)
  BY <1>9, Collected DEF Wait
<1>10. CASE Polled(h)
  BY <1>10 DEF Polled, Goto, IndInv, TypeInv, QueuedInTime, MappedInTime, NoneOutside, TakenOnce
<1>11. CASE recv(h)
  BY <1>11, Received
<1>12. ASSUME NEW g \in Hosts, CallBack(h, g) PROVE IndInv'
  BY <1>12, CalledBack
<1> QED BY <1>1, <1>2, <1>3, <1>4, <1>5, <1>6, <1>7, <1>8, <1>9, <1>10, <1>11, <1>12
        DEF HostNext, Step

LEMMA IndInvStep == IndInv /\ [Next]_vars => IndInv'
<1> SUFFICES ASSUME IndInv, [Next]_vars PROVE IndInv'
  OBVIOUS
<1>1. CASE Execute
  BY <1>1, Executed
<1>2. CASE Lose
  BY <1>2 DEF Lose, hostVars, IndInv, TypeInv, QueuedInTime, MappedInTime, NoneOutside, TakenOnce
<1>3. ASSUME NEW h \in Hosts, HostNext(h) PROVE IndInv'
  BY <1>3, HostStep
<1>4. CASE UNCHANGED vars
  BY <1>4 DEF vars, hostVars, IndInv, TypeInv, QueuedInTime, MappedInTime, NoneOutside, TakenOnce
<1> QED BY <1>1, <1>2, <1>3, <1>4 DEF Next

LEMMA IndInvImplies == IndInv => HostReadsFinishedCopies
<1> SUFFICES ASSUME IndInv, NEW h \in Hosts, mapped[h], NEW i \in DOMAIN queue,
                    Writes(h, queue[i])
             PROVE  FALSE
  BY DEF HostReadsFinishedCopies
<1>1. i \in 1 .. Len(queue) /\ finished \in Nat /\ index[h] \in Nat /\ Len(queue) \in Nat
  BY QueueTypes
<1>2. finished + i <= index[h]
  BY <1>1 DEF IndInv, QueuedInTime
<1>3. index[h] <= finished
  BY DEF IndInv, MappedInTime
<1> QED BY <1>1, <1>2, <1>3

(***************************************************************************)
(* download never reads a staging buffer that the device may still write,   *)
(* however many threads share the context and poll it.                      *)
(***************************************************************************)
THEOREM ReadsFinishedCopies == Spec => []HostReadsFinishedCopies
<1>1. Init => IndInv
  BY IndInvInit
<1>2. IndInv /\ [Next]_vars => IndInv'
  BY IndInvStep
<1>3. IndInv => HostReadsFinishedCopies
  BY IndInvImplies
<1> QED BY <1>1, <1>2, <1>3, PTL DEF Spec

-----------------------------------------------------------------------------
(***************************************************************************)
(* The runtime implements the serial device: for any number of threads,     *)
(* calls and submissions, and whenever the device is lost.                  *)
(*                                                                         *)
(* The refinement mapping looks ahead: memory is what the buffers will hold *)
(* when the queue is empty.  Executing a command changes the contents and   *)
(* shortens the queue and so changes nothing of that; enqueueing a          *)
(* submission does to it at once what the device will do later.             *)
(***************************************************************************)

\* Induction over the natural numbers, for sets of them.
LEMMA SetInduction ==
  ASSUME NEW S \in SUBSET Nat, 0 \in S, \A n \in S : n + 1 \in S
  PROVE  S = Nat
<1> DEFINE R == {ss \in Nat \X Nat : ss[1] < ss[2]}
           T == Nat \ S
<1>1. IsWellFoundedOn(R, Nat)
  BY NatLessThanWellFounded DEF OpToRel
<1>2. \A x, y \in Nat : x < y => <<x, y>> \in R
  OBVIOUS
<1>3. SUFFICES ASSUME T # {} PROVE FALSE
  OBVIOUS
<1>4. PICK x \in T : \A y \in T : ~(<<y, x>> \in R)
  <2> HIDE DEF R, T
  <2>1. T \subseteq Nat
    BY DEF T
  <2> QED BY <1>1, <1>3, <2>1, WFMin
<1>5. x # 0 /\ x - 1 \in Nat /\ x - 1 < x
  OBVIOUS
<1>6. x - 1 \in T
  OBVIOUS
<1>7. <<x - 1, x>> \in R
  BY <1>2, <1>5
<1> QED BY <1>4, <1>6, <1>7

----------------------------------------------------------------------------
(***************************************************************************)
(* The two folds: f runs through the memories between the commands, or the  *)
(* submissions.                                                             *)
(***************************************************************************)
Runs(f, memory, commands) ==
  f = [n \in 0 .. Len(commands) |->
         IF n = 0 THEN memory ELSE Do(f[n - 1], commands[n])]

Drains(f, memory, submissions) ==
  f = [n \in 0 .. Len(submissions) |->
         IF n = 0 THEN memory ELSE DoAll(f[n - 1], submissions[n])]

LEMMA RunExists ==
  ASSUME NEW memory, NEW commands, Len(commands) \in Nat
  PROVE  \E f : Runs(f, memory, commands)
<1> DEFINE Partial(n) ==
      \E f : f = [i \in 0 .. n |-> IF i = 0 THEN memory ELSE Do(f[i - 1], commands[i])]
<1> DEFINE S == {n \in Nat : Partial(n)}
<1>1. 0 \in S
  <2> DEFINE f == [i \in 0 .. 0 |-> memory]
  <2>1. f = [i \in 0 .. 0 |-> IF i = 0 THEN memory ELSE Do(f[i - 1], commands[i])]
    OBVIOUS
  <2> QED BY <2>1
<1>2. ASSUME NEW n \in S PROVE n + 1 \in S
  <2>1. PICK f : f = [i \in 0 .. n |-> IF i = 0 THEN memory ELSE Do(f[i - 1], commands[i])]
    BY <1>2
  <2> DEFINE g == [i \in 0 .. n + 1 |-> IF i = n + 1 THEN Do(f[n], commands[n + 1]) ELSE f[i]]
  <2> HIDE DEF S
  <2>2. n \in Nat
    BY <1>2 DEF S
  <2>3. ASSUME NEW i \in 0 .. n + 1
        PROVE  g[i] = IF i = 0 THEN memory ELSE Do(g[i - 1], commands[i])
    <3>1. CASE i = n + 1
      BY <2>2, <3>1
    <3>2. CASE i # n + 1
      <4>1. i \in 0 .. n /\ g[i] = f[i]
        BY <2>2, <3>2
      <4>2. f[i] = IF i = 0 THEN memory ELSE Do(f[i - 1], commands[i])
        BY <2>1, <4>1
      <4>3. i # 0 => g[i - 1] = f[i - 1]
        BY <2>2, <4>1
      <4> QED BY <4>1, <4>2, <4>3
    <3> QED BY <3>1, <3>2
  <2>4. g = [i \in 0 .. n + 1 |-> g[i]]
    OBVIOUS
  <2>5. Partial(n + 1)
    <3> HIDE DEF g
    <3>1. g = [i \in 0 .. n + 1 |-> IF i = 0 THEN memory ELSE Do(g[i - 1], commands[i])]
      BY <2>3, <2>4
    <3> QED BY <3>1
  <2> HIDE DEF Partial, g
  <2>6. n + 1 \in Nat
    BY <2>2
  <2> QED BY <2>5, <2>6 DEF S
<1>3. S = Nat
  <2> HIDE DEF Partial
  <2> QED BY <1>1, <1>2, SetInduction
<1> QED BY <1>3 DEF Runs

LEMMA RunUnique ==
  ASSUME NEW memory, NEW commands, Len(commands) \in Nat,
         NEW f, Runs(f, memory, commands), NEW g, Runs(g, memory, commands)
  PROVE  f = g
<1> DEFINE S == {n \in Nat : n <= Len(commands) => f[n] = g[n]}
<1>1. \A n \in 0 .. Len(commands) :
        /\ f[n] = IF n = 0 THEN memory ELSE Do(f[n - 1], commands[n])
        /\ g[n] = IF n = 0 THEN memory ELSE Do(g[n - 1], commands[n])
  BY DEF Runs
<1>2. 0 \in S
  BY <1>1
<1>3. ASSUME NEW n \in S PROVE n + 1 \in S
  <2>1. CASE n + 1 <= Len(commands)
    <3>1. n \in Nat /\ f[n] = g[n] /\ n + 1 \in 0 .. Len(commands) /\ n + 1 # 0 /\ (n + 1) - 1 = n
      BY <1>3, <2>1
    <3>2. f[n + 1] = Do(f[n], commands[n + 1]) /\ g[n + 1] = Do(g[n], commands[n + 1])
      BY <1>1, <3>1
    <3> QED BY <3>1, <3>2
  <2> QED BY <2>1, <1>3
<1>4. S = Nat
  <2> HIDE DEF S
  <2>1. S \in SUBSET Nat
    BY DEF S
  <2> QED BY <1>2, <1>3, <2>1, SetInduction
<1>5. \A n \in 0 .. Len(commands) : f[n] = g[n]
  BY <1>4
<1> QED BY <1>5 DEF Runs

LEMMA DoAllRuns ==
  ASSUME NEW memory, NEW commands, Len(commands) \in Nat,
         NEW f, Runs(f, memory, commands)
  PROVE  DoAll(memory, commands) = f[Len(commands)]
<1> DEFINE after == CHOOSE g : Runs(g, memory, commands)
<1>1. Runs(after, memory, commands)
  OBVIOUS
<1>2. DoAll(memory, commands) = after[Len(commands)]
  BY DEF DoAll, Runs
<1> QED
  <2> HIDE DEF after
  <2> QED BY <1>1, <1>2, RunUnique

LEMMA DrainExists ==
  ASSUME NEW memory, NEW submissions, Len(submissions) \in Nat
  PROVE  \E f : Drains(f, memory, submissions)
<1> DEFINE Partial(n) ==
      \E f : f = [i \in 0 .. n |-> IF i = 0 THEN memory ELSE DoAll(f[i - 1], submissions[i])]
<1> DEFINE S == {n \in Nat : Partial(n)}
<1>1. 0 \in S
  <2> DEFINE f == [i \in 0 .. 0 |-> memory]
  <2>1. f = [i \in 0 .. 0 |-> IF i = 0 THEN memory ELSE DoAll(f[i - 1], submissions[i])]
    OBVIOUS
  <2> QED BY <2>1
<1>2. ASSUME NEW n \in S PROVE n + 1 \in S
  <2>1. PICK f : f = [i \in 0 .. n |-> IF i = 0 THEN memory ELSE DoAll(f[i - 1], submissions[i])]
    BY <1>2
  <2> DEFINE g == [i \in 0 .. n + 1 |-> IF i = n + 1 THEN DoAll(f[n], submissions[n + 1]) ELSE f[i]]
  <2> HIDE DEF S
  <2>2. n \in Nat
    BY <1>2 DEF S
  <2>3. ASSUME NEW i \in 0 .. n + 1
        PROVE  g[i] = IF i = 0 THEN memory ELSE DoAll(g[i - 1], submissions[i])
    <3>1. CASE i = n + 1
      BY <2>2, <3>1
    <3>2. CASE i # n + 1
      <4>1. i \in 0 .. n /\ g[i] = f[i]
        BY <2>2, <3>2
      <4>2. f[i] = IF i = 0 THEN memory ELSE DoAll(f[i - 1], submissions[i])
        BY <2>1, <4>1
      <4>3. i # 0 => g[i - 1] = f[i - 1]
        BY <2>2, <4>1
      <4> QED BY <4>1, <4>2, <4>3
    <3> QED BY <3>1, <3>2
  <2>4. g = [i \in 0 .. n + 1 |-> g[i]]
    OBVIOUS
  <2>5. Partial(n + 1)
    <3> HIDE DEF g
    <3>1. g = [i \in 0 .. n + 1 |-> IF i = 0 THEN memory ELSE DoAll(g[i - 1], submissions[i])]
      BY <2>3, <2>4
    <3> QED BY <3>1
  <2> HIDE DEF Partial, g
  <2>6. n + 1 \in Nat
    BY <2>2
  <2> QED BY <2>5, <2>6 DEF S
<1>3. S = Nat
  <2> HIDE DEF Partial
  <2> QED BY <1>1, <1>2, SetInduction
<1> QED BY <1>3 DEF Drains

LEMMA DrainUnique ==
  ASSUME NEW memory, NEW submissions, Len(submissions) \in Nat,
         NEW f, Drains(f, memory, submissions), NEW g, Drains(g, memory, submissions)
  PROVE  f = g
<1> DEFINE S == {n \in Nat : n <= Len(submissions) => f[n] = g[n]}
<1>1. \A n \in 0 .. Len(submissions) :
        /\ f[n] = IF n = 0 THEN memory ELSE DoAll(f[n - 1], submissions[n])
        /\ g[n] = IF n = 0 THEN memory ELSE DoAll(g[n - 1], submissions[n])
  BY DEF Drains
<1>2. 0 \in S
  BY <1>1
<1>3. ASSUME NEW n \in S PROVE n + 1 \in S
  <2>1. CASE n + 1 <= Len(submissions)
    <3>1. n \in Nat /\ f[n] = g[n] /\ n + 1 \in 0 .. Len(submissions) /\ n + 1 # 0 /\ (n + 1) - 1 = n
      BY <1>3, <2>1
    <3>2. f[n + 1] = DoAll(f[n], submissions[n + 1]) /\ g[n + 1] = DoAll(g[n], submissions[n + 1])
      BY <1>1, <3>1
    <3> QED BY <3>1, <3>2
  <2> QED BY <2>1, <1>3
<1>4. S = Nat
  <2> HIDE DEF S
  <2>1. S \in SUBSET Nat
    BY DEF S
  <2> QED BY <1>2, <1>3, <2>1, SetInduction
<1>5. \A n \in 0 .. Len(submissions) : f[n] = g[n]
  BY <1>4
<1> QED BY <1>5 DEF Drains

LEMMA DrainAllDrains ==
  ASSUME NEW memory, NEW submissions, Len(submissions) \in Nat,
         NEW f, Drains(f, memory, submissions)
  PROVE  DrainAll(memory, submissions) = f[Len(submissions)]
<1> DEFINE after == CHOOSE g : Drains(g, memory, submissions)
<1>1. Drains(after, memory, submissions)
  OBVIOUS
<1>2. DrainAll(memory, submissions) = after[Len(submissions)]
  BY DEF DrainAll, Drains
<1> QED
  <2> HIDE DEF after
  <2> QED BY <1>1, <1>2, DrainUnique

----------------------------------------------------------------------------
(* The folds, element by element.                                           *)

LEMMA DoAllEmpty ==
  ASSUME NEW memory PROVE DoAll(memory, <<>>) = memory
<1>1. Len(<<>>) = 0 /\ 0 \in Nat
  OBVIOUS
<1>2. PICK f : Runs(f, memory, <<>>)
  BY <1>1, RunExists
<1>3. DoAll(memory, <<>>) = f[0]
  BY <1>1, <1>2, DoAllRuns
<1>4. f[0] = memory
  BY <1>1, <1>2 DEF Runs
<1> QED BY <1>3, <1>4

LEMMA DoAllFirst ==
  ASSUME NEW memory, NEW T, NEW commands \in Seq(T), commands # <<>>
  PROVE  DoAll(memory, commands) = DoAll(Do(memory, commands[1]), Tail(commands))
<1> DEFINE len == Len(commands)
           rest == Tail(commands)
<1>1. /\ len \in Nat /\ len >= 1 /\ Len(rest) = len - 1 /\ Len(rest) \in Nat
      /\ \A n \in 1 .. len - 1 : rest[n] = commands[n + 1]
  OBVIOUS
<1> HIDE DEF len, rest
<1>2. PICK f : Runs(f, memory, commands)
  BY <1>1, RunExists DEF len
<1>3. \A n \in 0 .. len : f[n] = IF n = 0 THEN memory ELSE Do(f[n - 1], commands[n])
  BY <1>2 DEF Runs, len
<1> DEFINE g == [n \in 0 .. len - 1 |-> f[n + 1]]
           first == Do(memory, commands[1])
<1>4. f[1] = first
  <2>1. 1 \in 0 .. len /\ 0 \in 0 .. len /\ 1 - 1 = 0
    BY <1>1
  <2>2. f[1] = Do(f[0], commands[1]) /\ f[0] = memory
    BY <1>3, <2>1
  <2> QED BY <2>2
<1> HIDE DEF first
<1>5. ASSUME NEW n \in 0 .. len - 1
      PROVE  g[n] = IF n = 0 THEN first ELSE Do(g[n - 1], rest[n])
  <2>1. g[n] = f[n + 1]
    OBVIOUS
  <2>2. CASE n = 0
    BY <1>1, <1>4, <2>1, <2>2
  <2>3. CASE n # 0
    <3>1. n + 1 \in 0 .. len /\ n + 1 # 0 /\ (n + 1) - 1 = n /\ n \in 1 .. len - 1 /\ n - 1 \in 0 .. len - 1
          /\ (n - 1) + 1 = n
      BY <1>1, <2>3
    <3>2. f[n + 1] = Do(f[n], commands[n + 1])
      BY <1>3, <3>1
    <3>3. g[n - 1] = f[n] /\ rest[n] = commands[n + 1]
      BY <1>1, <3>1
    <3> QED BY <2>1, <2>3, <3>2, <3>3
  <2> QED BY <2>2, <2>3
<1>6. g = [n \in 0 .. len - 1 |-> g[n]]
  OBVIOUS
<1>7. g[len - 1] = f[len]
  BY <1>1
<1> HIDE DEF g
<1>8. Runs(g, first, rest)
  <2>1. g = [n \in 0 .. len - 1 |-> IF n = 0 THEN first ELSE Do(g[n - 1], rest[n])]
    BY <1>5, <1>6
  <2> QED BY <1>1, <2>1 DEF Runs
<1>9. DoAll(first, rest) = g[len - 1] /\ DoAll(memory, commands) = f[len]
  <2>1. DoAll(first, rest) = g[Len(rest)]
    BY <1>1, <1>8, DoAllRuns
  <2>2. DoAll(memory, commands) = f[Len(commands)]
    BY <1>1, <1>2, DoAllRuns DEF len
  <2> QED BY <1>1, <2>1, <2>2 DEF len
<1> QED BY <1>7, <1>9 DEF first, rest

LEMMA DrainEmpty ==
  ASSUME NEW memory PROVE DrainAll(memory, <<>>) = memory
<1>1. Len(<<>>) = 0 /\ 0 \in Nat
  OBVIOUS
<1>2. PICK f : Drains(f, memory, <<>>)
  BY <1>1, DrainExists
<1>3. DrainAll(memory, <<>>) = f[0]
  BY <1>1, <1>2, DrainAllDrains
<1>4. f[0] = memory
  BY <1>1, <1>2 DEF Drains
<1> QED BY <1>3, <1>4

LEMMA DrainFirst ==
  ASSUME NEW memory, NEW T, NEW submissions \in Seq(T), submissions # <<>>
  PROVE  DrainAll(memory, submissions) = DrainAll(DoAll(memory, submissions[1]), Tail(submissions))
<1> DEFINE len == Len(submissions)
           rest == Tail(submissions)
<1>1. /\ len \in Nat /\ len >= 1 /\ Len(rest) = len - 1 /\ Len(rest) \in Nat
      /\ \A n \in 1 .. len - 1 : rest[n] = submissions[n + 1]
  OBVIOUS
<1> HIDE DEF len, rest
<1>2. PICK f : Drains(f, memory, submissions)
  BY <1>1, DrainExists DEF len
<1>3. \A n \in 0 .. len : f[n] = IF n = 0 THEN memory ELSE DoAll(f[n - 1], submissions[n])
  BY <1>2 DEF Drains, len
<1> DEFINE g == [n \in 0 .. len - 1 |-> f[n + 1]]
           first == DoAll(memory, submissions[1])
<1>4. f[1] = first
  <2>1. 1 \in 0 .. len /\ 0 \in 0 .. len /\ 1 - 1 = 0
    BY <1>1
  <2>2. f[1] = DoAll(f[0], submissions[1]) /\ f[0] = memory
    BY <1>3, <2>1
  <2> QED BY <2>2
<1> HIDE DEF first
<1>5. ASSUME NEW n \in 0 .. len - 1
      PROVE  g[n] = IF n = 0 THEN first ELSE DoAll(g[n - 1], rest[n])
  <2>1. g[n] = f[n + 1]
    OBVIOUS
  <2>2. CASE n = 0
    BY <1>1, <1>4, <2>1, <2>2
  <2>3. CASE n # 0
    <3>1. n + 1 \in 0 .. len /\ n + 1 # 0 /\ (n + 1) - 1 = n /\ n \in 1 .. len - 1 /\ n - 1 \in 0 .. len - 1
          /\ (n - 1) + 1 = n
      BY <1>1, <2>3
    <3>2. f[n + 1] = DoAll(f[n], submissions[n + 1])
      BY <1>3, <3>1
    <3>3. g[n - 1] = f[n] /\ rest[n] = submissions[n + 1]
      BY <1>1, <3>1
    <3> QED BY <2>1, <2>3, <3>2, <3>3
  <2> QED BY <2>2, <2>3
<1>6. g = [n \in 0 .. len - 1 |-> g[n]]
  OBVIOUS
<1>7. g[len - 1] = f[len]
  BY <1>1
<1> HIDE DEF g
<1>8. Drains(g, first, rest)
  <2>1. g = [n \in 0 .. len - 1 |-> IF n = 0 THEN first ELSE DoAll(g[n - 1], rest[n])]
    BY <1>5, <1>6
  <2> QED BY <1>1, <2>1 DEF Drains
<1>9. DrainAll(first, rest) = g[len - 1] /\ DrainAll(memory, submissions) = f[len]
  <2>1. DrainAll(first, rest) = g[Len(rest)]
    BY <1>1, <1>8, DrainAllDrains
  <2>2. DrainAll(memory, submissions) = f[Len(submissions)]
    BY <1>1, <1>2, DrainAllDrains DEF len
  <2> QED BY <1>1, <2>1, <2>2 DEF len
<1> QED BY <1>7, <1>9 DEF first, rest

LEMMA DoAllOne ==
  ASSUME NEW memory, NEW c PROVE DoAll(memory, <<c>>) = Do(memory, c)
<1>1. Len(<<c>>) = 1 /\ 1 \in Nat /\ <<c>>[1] = c
  OBVIOUS
<1>2. PICK f : Runs(f, memory, <<c>>)
  BY <1>1, RunExists
<1>3. DoAll(memory, <<c>>) = f[1]
  BY <1>1, <1>2, DoAllRuns
<1>4. f[1] = Do(f[0], <<c>>[1]) /\ f[0] = memory
  <2>1. \A n \in 0 .. 1 : f[n] = IF n = 0 THEN memory ELSE Do(f[n - 1], <<c>>[n])
    BY <1>1, <1>2 DEF Runs
  <2>2. 0 \in 0 .. 1 /\ 1 \in 0 .. 1 /\ 1 - 1 = 0
    OBVIOUS
  <2> QED BY <2>1, <2>2
<1> QED BY <1>1, <1>3, <1>4

LEMMA DrainAppend ==
  ASSUME NEW memory, NEW T, NEW submissions \in Seq(T), NEW s \in T
  PROVE  DrainAll(memory, Append(submissions, s)) = DoAll(DrainAll(memory, submissions), s)
<1> DEFINE len == Len(submissions)
           more == Append(submissions, s)
<1>1. /\ len \in Nat /\ Len(more) = len + 1 /\ Len(more) \in Nat /\ more[len + 1] = s
      /\ \A n \in 1 .. len : more[n] = submissions[n]
  OBVIOUS
<1> HIDE DEF len, more
<1>2. PICK f : Drains(f, memory, more)
  BY <1>1, DrainExists
<1>3. \A n \in 0 .. len + 1 : f[n] = IF n = 0 THEN memory ELSE DoAll(f[n - 1], more[n])
  BY <1>1, <1>2 DEF Drains
<1> DEFINE g == [n \in 0 .. len |-> f[n]]
<1>4. ASSUME NEW n \in 0 .. len
      PROVE  g[n] = IF n = 0 THEN memory ELSE DoAll(g[n - 1], submissions[n])
  <2>1. n \in 0 .. len + 1 /\ (n # 0 => n \in 1 .. len /\ n - 1 \in 0 .. len)
    BY <1>1
  <2>2. g[n] = f[n] /\ (n # 0 => g[n - 1] = f[n - 1] /\ more[n] = submissions[n])
    BY <1>1, <2>1
  <2> QED BY <1>3, <2>1, <2>2
<1>5. g = [n \in 0 .. len |-> g[n]] /\ g[len] = f[len]
  BY <1>1
<1> HIDE DEF g
<1>6. Drains(g, memory, submissions)
  <2>1. g = [n \in 0 .. len |-> IF n = 0 THEN memory ELSE DoAll(g[n - 1], submissions[n])]
    BY <1>4, <1>5
  <2> QED BY <2>1 DEF Drains, len
<1>7. DrainAll(memory, submissions) = f[len]
  BY <1>1, <1>5, <1>6, DrainAllDrains DEF len
<1>8. DrainAll(memory, more) = f[len + 1]
  BY <1>1, <1>2, DrainAllDrains
<1>9. f[len + 1] = DoAll(f[len], s)
  <2>1. len + 1 \in 0 .. len + 1 /\ len + 1 # 0 /\ (len + 1) - 1 = len
    BY <1>1
  <2> QED BY <1>1, <1>3, <2>1
<1> QED BY <1>7, <1>8, <1>9 DEF more

----------------------------------------------------------------------------
(* What commands leave alone.                                               *)

Places == Buffers \cup Hosts
IsMemory(memory) == memory = [x \in Places |-> memory[x]]
OnBuffers(memory) == [b \in Buffers |-> memory[b]]

LEMMA DoFacts ==
  ASSUME NEW memory, IsMemory(memory), NEW c \in CommandType
  PROVE  /\ IsMemory(Do(memory, c))
         /\ \A x \in Places : x # c.dst => Do(memory, c)[x] = memory[x]
<1> DEFINE new == CASE c.kind = "write" -> c.data
                    [] c.kind = "copy" -> memory[c.src[1]]
                    [] c.kind = "compute" -> [i \in DOMAIN c.src |-> memory[c.src[i]][1]]
<1>1. Do(memory, c) = [memory EXCEPT ![c.dst] = new]
  BY DEF Do
<1> HIDE DEF new
<1>2. c.dst \in Places
  BY DEF CommandType, Places
<1> QED BY <1>1, <1>2 DEF IsMemory

LEMMA DoAllFacts ==
  ASSUME NEW memory, IsMemory(memory), NEW commands \in Seq(CommandType)
  PROVE  /\ IsMemory(DoAll(memory, commands))
         /\ \A x \in Places : ~Writes(x, commands) => DoAll(memory, commands)[x] = memory[x]
<1>1. Len(commands) \in Nat /\ DOMAIN commands = 1 .. Len(commands)
      /\ \A n \in 1 .. Len(commands) : commands[n] \in CommandType
  OBVIOUS
<1>2. PICK f : Runs(f, memory, commands)
  BY <1>1, RunExists
<1>3. \A n \in 0 .. Len(commands) : f[n] = IF n = 0 THEN memory ELSE Do(f[n - 1], commands[n])
  BY <1>2 DEF Runs
<1> DEFINE Kept(n) == /\ IsMemory(f[n])
                      /\ \A x \in Places : ~Writes(x, commands) => f[n][x] = memory[x]
           S == {n \in Nat : n <= Len(commands) => Kept(n)}
<1>4. 0 \in S
  BY <1>1, <1>3
<1>5. ASSUME NEW n \in S PROVE n + 1 \in S
  <2>1. CASE n + 1 <= Len(commands)
    <3>1. n \in Nat /\ Kept(n) /\ n + 1 \in 0 .. Len(commands) /\ n + 1 # 0 /\ (n + 1) - 1 = n
          /\ n + 1 \in 1 .. Len(commands)
      BY <1>1, <1>5, <2>1
    <3> DEFINE c == commands[n + 1]
    <3>2. f[n + 1] = Do(f[n], c) /\ c \in CommandType
      BY <1>1, <1>3, <3>1
    <3>3. \A x \in Places : ~Writes(x, commands) => x # c.dst
      BY <1>1, <3>1 DEF Writes
    <3> HIDE DEF c, S
    <3>4. Kept(n + 1)
      BY <3>1, <3>2, <3>3, DoFacts
    <3> QED BY <3>1, <3>4 DEF S
  <2> QED BY <1>1, <2>1, <1>5
<1>6. S = Nat
  <2> HIDE DEF Kept
  <2> QED BY <1>4, <1>5, SetInduction
<1>7. Kept(Len(commands))
  BY <1>1, <1>6
<1> QED BY <1>1, <1>2, <1>7, DoAllRuns

LEMMA DrainFacts ==
  ASSUME NEW memory, IsMemory(memory), NEW submissions \in Seq(Seq(CommandType))
  PROVE  /\ IsMemory(DrainAll(memory, submissions))
         /\ \A x \in Places :
              (\A i \in DOMAIN submissions : ~Writes(x, submissions[i]))
                => DrainAll(memory, submissions)[x] = memory[x]
<1>1. Len(submissions) \in Nat /\ DOMAIN submissions = 1 .. Len(submissions)
      /\ \A n \in 1 .. Len(submissions) : submissions[n] \in Seq(CommandType)
  OBVIOUS
<1>2. PICK f : Drains(f, memory, submissions)
  BY <1>1, DrainExists
<1>3. \A n \in 0 .. Len(submissions) :
        f[n] = IF n = 0 THEN memory ELSE DoAll(f[n - 1], submissions[n])
  BY <1>2 DEF Drains
<1> DEFINE Free(x) == \A i \in DOMAIN submissions : ~Writes(x, submissions[i])
           Kept(n) == IsMemory(f[n]) /\ \A x \in Places : Free(x) => f[n][x] = memory[x]
           S == {n \in Nat : n <= Len(submissions) => Kept(n)}
<1>4. 0 \in S
  BY <1>1, <1>3
<1>5. ASSUME NEW n \in S PROVE n + 1 \in S
  <2>1. CASE n + 1 <= Len(submissions)
    <3>1. n \in Nat /\ Kept(n) /\ n + 1 \in 0 .. Len(submissions) /\ n + 1 # 0 /\ (n + 1) - 1 = n
          /\ n + 1 \in 1 .. Len(submissions)
      BY <1>1, <1>5, <2>1
    <3> DEFINE c == submissions[n + 1]
    <3>2. f[n + 1] = DoAll(f[n], c) /\ c \in Seq(CommandType)
      BY <1>1, <1>3, <3>1
    <3>3. \A x \in Places : Free(x) => ~Writes(x, c)
      BY <1>1, <3>1
    <3> HIDE DEF c, S, Free
    <3>4. Kept(n + 1)
      BY <3>1, <3>2, <3>3, DoAllFacts
    <3> QED BY <3>1, <3>4 DEF S
  <2> QED BY <1>1, <2>1, <1>5
<1>6. S = Nat
  <2> HIDE DEF Kept
  <2> QED BY <1>4, <1>5, SetInduction
<1>7. Kept(Len(submissions))
  BY <1>1, <1>6
<1> QED BY <1>1, <1>2, <1>7, DrainAllDrains

----------------------------------------------------------------------------
(***************************************************************************)
(* Submissions that are not downloads read and write buffers of the program *)
(* only: what they do there does not depend on the staging buffers.         *)
(***************************************************************************)
BufferCommands ==
  {c \in CommandType : c.dst \in Buffers /\ (c.kind = "copy" => Len(c.src) >= 1)}

LEMMA DoOnBuffers ==
  ASSUME NEW memory, IsMemory(memory), NEW c \in BufferCommands
  PROVE  OnBuffers(Do(memory, c)) = Do(OnBuffers(memory), c)
<1>1. c \in CommandType /\ c.dst \in Buffers /\ (c.kind = "copy" => Len(c.src) >= 1)
  BY DEF BufferCommands
<1>2. c.src \in Seq(Buffers) /\ DOMAIN c.src = 1 .. Len(c.src)
      /\ \A i \in 1 .. Len(c.src) : c.src[i] \in Buffers
  BY <1>1 DEF CommandType
<1> DEFINE New(m) == CASE c.kind = "write" -> c.data
                       [] c.kind = "copy" -> m[c.src[1]]
                       [] c.kind = "compute" -> [i \in DOMAIN c.src |-> m[c.src[i]][1]]
           small == OnBuffers(memory)
<1>3. \A b \in Buffers : small[b] = memory[b]
  BY DEF OnBuffers
<1>4. New(small) = New(memory)
  <2>1. c.kind = "copy" => small[c.src[1]] = memory[c.src[1]]
    <3>1. c.kind = "copy" => 1 \in 1 .. Len(c.src)
      BY <1>1, <1>2
    <3> QED BY <1>2, <1>3, <3>1
  <2>2. [i \in DOMAIN c.src |-> small[c.src[i]][1]] = [i \in DOMAIN c.src |-> memory[c.src[i]][1]]
    BY <1>2, <1>3
  <2> HIDE DEF small
  <2> QED BY <2>1, <2>2
<1>5. Do(memory, c) = [memory EXCEPT ![c.dst] = New(memory)]
      /\ Do(small, c) = [small EXCEPT ![c.dst] = New(small)]
  BY DEF Do
<1> HIDE DEF New, small
<1>6. small = [b \in Buffers |-> memory[b]]
  BY DEF small, OnBuffers
<1> QED BY <1>1, <1>4, <1>5, <1>6 DEF OnBuffers, IsMemory, Places, small

LEMMA DoAllOnBuffers ==
  ASSUME NEW memory, IsMemory(memory), NEW commands \in Seq(BufferCommands)
  PROVE  OnBuffers(DoAll(memory, commands)) = DoAll(OnBuffers(memory), commands)
<1>1. Len(commands) \in Nat /\ \A n \in 1 .. Len(commands) : commands[n] \in BufferCommands
  OBVIOUS
<1> DEFINE small == OnBuffers(memory)
<1>2. PICK f : Runs(f, memory, commands)
  BY <1>1, RunExists
<1>3. PICK g : Runs(g, small, commands)
  BY <1>1, RunExists
<1>4. \A n \in 0 .. Len(commands) :
        /\ f[n] = IF n = 0 THEN memory ELSE Do(f[n - 1], commands[n])
        /\ g[n] = IF n = 0 THEN small ELSE Do(g[n - 1], commands[n])
  BY <1>2, <1>3 DEF Runs
<1> DEFINE Kept(n) == IsMemory(f[n]) /\ g[n] = OnBuffers(f[n])
           S == {n \in Nat : n <= Len(commands) => Kept(n)}
<1> HIDE DEF small
<1>5. 0 \in S
  BY <1>1, <1>4 DEF small
<1>6. ASSUME NEW n \in S PROVE n + 1 \in S
  <2>1. CASE n + 1 <= Len(commands)
    <3>1. n \in Nat /\ Kept(n) /\ n + 1 \in 0 .. Len(commands) /\ n + 1 # 0 /\ (n + 1) - 1 = n
          /\ n + 1 \in 1 .. Len(commands)
      BY <1>1, <1>6, <2>1
    <3> DEFINE c == commands[n + 1]
    <3>2. f[n + 1] = Do(f[n], c) /\ g[n + 1] = Do(g[n], c) /\ c \in BufferCommands
      BY <1>1, <1>4, <3>1
    <3>3. c \in CommandType
      BY <3>2 DEF BufferCommands
    <3> HIDE DEF c, S
    <3>4. Kept(n + 1)
      BY <3>1, <3>2, <3>3, DoFacts, DoOnBuffers
    <3> QED BY <3>1, <3>4 DEF S
  <2> QED BY <1>1, <2>1, <1>6
<1>7. S = Nat
  <2> HIDE DEF Kept
  <2> QED BY <1>5, <1>6, SetInduction
<1>8. g[Len(commands)] = OnBuffers(f[Len(commands)])
  BY <1>1, <1>7
<1> QED BY <1>1, <1>2, <1>3, <1>8, DoAllRuns DEF small

LEMMA BufferSubmissions ==
  /\ \A u \in Uploads : UploadOf(u) \in Seq(BufferCommands) /\ UploadOf(u) # <<>>
  /\ \A p \in Pipes : PipeOf(p) \in Seq(BufferCommands) /\ PipeOf(p) # <<>>
  /\ \A h \in Hosts : \A bt \in Batches[h] :
       BatchOf(bt) \in Seq(BufferCommands) /\ BatchOf(bt) # <<>>
<1>1. ASSUME NEW u \in Uploads
      PROVE  UploadOf(u) \in Seq(BufferCommands) /\ UploadOf(u) # <<>>
  <2>1. u[1] \in Buffers /\ u[2] \in Seq(Nat)
    BY CommandsAssumption
  <2>2. Write(u[1], u[2]) \in BufferCommands
    BY <2>1 DEF Write, Command, CommandType, BufferCommands
  <2> QED BY <2>2 DEF UploadOf
<1>2. ASSUME NEW p \in Pipes
      PROVE  PipeOf(p) \in Seq(BufferCommands) /\ PipeOf(p) # <<>>
  <2>1. p[1] \in Buffers /\ p[2] \in Buffers
    BY CommandsAssumption
  <2>2. Copy(p[2], p[1]) \in BufferCommands
    <3>1. <<p[1]>> \in Seq(Buffers) /\ Len(<<p[1]>>) >= 1 /\ <<>> \in Seq(Nat)
      BY <2>1
    <3> QED BY <2>1, <3>1 DEF Copy, Command, CommandType, BufferCommands
  <2> QED BY <2>2 DEF PipeOf
<1>3. ASSUME NEW h \in Hosts, NEW bt \in Batches[h]
      PROVE  BatchOf(bt) \in Seq(BufferCommands) /\ BatchOf(bt) # <<>>
  <2>1. bt \in Seq(Dispatches) /\ bt # <<>>
    BY CommandsAssumption
  <2>2. ASSUME NEW d \in Dispatches PROVE Kernel(d) \in BufferCommands
    BY DEF Kernel, Compute, Command, CommandType, Dispatches, Buffers, BufferCommands
  <2>3. /\ Len(bt) \in Nat /\ DOMAIN bt = 1 .. Len(bt) /\ Len(bt) >= 1
        /\ \A i \in 1 .. Len(bt) : bt[i] \in Dispatches
    BY <2>1
  <2>4. BatchOf(bt) = [i \in 1 .. Len(bt) |-> Kernel(bt[i])]
    BY <2>3 DEF BatchOf
  <2>5. BatchOf(bt) \in Seq(BufferCommands) /\ Len(BatchOf(bt)) = Len(bt)
    BY <2>2, <2>3, <2>4
  <2> QED BY <2>3, <2>5
<1> QED BY <1>1, <1>2, <1>3

----------------------------------------------------------------------------
(***************************************************************************)
(* The refinement.  A download whose callback has been collected without    *)
(* its buffer being mapped was cut off by the loss of the device.           *)
(***************************************************************************)
SubmissionsNotEmpty == \A i \in 1 .. Len(queue) : queue[i] # <<>>

FailedByLoss ==
  \A h \in Hosts : callback[h] \in {"collected", "called"} => mapped[h] \/ lost

RefInv ==
  /\ IsMemory(contents) /\ slice = [h \in Hosts |-> slice[h]]
  /\ SubmissionsNotEmpty /\ FailedByLoss

LEMMA RefInvInitially == Init => RefInv
<1> SUFFICES ASSUME Init PROVE RefInv
  OBVIOUS
<1>1. IsMemory(contents)
  BY DEF Init, IsMemory, Places
<1> QED BY <1>1 DEF Init, RefInv, SubmissionsNotEmpty, FailedByLoss

\* The memory that the queue leads to.
LEMMA CompletedIsMemory ==
  ASSUME IndInv, RefInv PROVE IsMemory(Completed)
BY DrainFacts, QueueTypes DEF Completed, RefInv

LEMMA EnqueuedIsDone ==
  ASSUME IndInv, NEW h \in Hosts, NEW s \in Seq(CommandType), Enqueue(h, s)
  PROVE  Completed' = DoAll(Completed, s)
<1>1. queue' = Append(queue, s) /\ contents' = contents /\ queue \in Seq(Seq(CommandType))
  BY QueueTypes DEF Enqueue
<1>2. DrainAll(contents, Append(queue, s)) = DoAll(DrainAll(contents, queue), s)
  BY <1>1, DrainAppend
<1> QED BY <1>1, <1>2 DEF Completed

LEMMA ExecutedIsTheSame ==
  ASSUME IndInv, RefInv, Execute
  PROVE  Completed' = Completed
<1>1. /\ queue \in Seq(Seq(CommandType)) /\ queue # <<>> /\ Len(queue) \in Nat \ {0}
      /\ queue[1] \in Seq(CommandType) /\ queue[1] # <<>>
      /\ contents' = Do(contents, queue[1][1])
      /\ IF Tail(queue[1]) = <<>> THEN queue' = Tail(queue)
         ELSE queue' = [queue EXCEPT ![1] = Tail(queue[1])]
  <2>1. /\ queue \in Seq(Seq(CommandType)) /\ queue # <<>> /\ Len(queue) \in Nat
        /\ \A i \in 1 .. Len(queue) : queue[i] \in Seq(CommandType) /\ queue[i] # <<>>
    BY QueueTypes DEF Execute, RefInv, SubmissionsNotEmpty
  <2>2. Len(queue) \in Nat \ {0} /\ queue[1] \in Seq(CommandType) /\ queue[1] # <<>>
    BY <2>1
  <2>3. contents' = Do(contents, queue[1][1])
    BY DEF Execute
  <2>4. IF Tail(queue[1]) = <<>> THEN queue' = Tail(queue)
        ELSE queue' = [queue EXCEPT ![1] = Tail(queue[1])]
    BY DEF Execute
  <2> QED BY <2>1, <2>2, <2>3, <2>4
<1>2. Completed = DrainAll(DoAll(contents, queue[1]), Tail(queue))
  BY <1>1, DrainFirst DEF Completed
<1>3. DoAll(contents, queue[1]) = DoAll(contents', Tail(queue[1]))
  BY <1>1, DoAllFirst
<1>4. CASE Tail(queue[1]) = <<>>
  <2>1. DoAll(contents, queue[1]) = contents'
    BY <1>3, <1>4, DoAllEmpty
  <2> QED BY <1>1, <1>2, <1>4, <2>1 DEF Completed
<1>5. CASE Tail(queue[1]) # <<>>
  <2>1. queue' = [queue EXCEPT ![1] = Tail(queue[1])] /\ Tail(queue[1]) \in Seq(CommandType)
    BY <1>1, <1>5
  <2>2. /\ queue' \in Seq(Seq(CommandType)) /\ queue' # <<>> /\ queue'[1] = Tail(queue[1])
        /\ Tail(queue') = Tail(queue)
    <3>1. queue' \in Seq(Seq(CommandType)) /\ Len(queue') = Len(queue)
          /\ \A i \in 2 .. Len(queue) : queue'[i] = queue[i]
      BY <1>1, <2>1
    <3>2. Len(Tail(queue')) = Len(Tail(queue)) /\ Tail(queue') \in Seq(Seq(CommandType))
          /\ Tail(queue) \in Seq(Seq(CommandType))
          /\ \A i \in 1 .. Len(Tail(queue)) : Tail(queue')[i] = Tail(queue)[i]
      BY <1>1, <3>1
    <3>3. Tail(queue') = Tail(queue)
      BY <3>2, SeqEqual
    <3>4. queue'[1] = Tail(queue[1])
      BY <1>1, <2>1
    <3>5. queue' # <<>>
      BY <1>1, <3>1
    <3> QED BY <3>1, <3>3, <3>4, <3>5
  <2>3. DrainAll(contents', queue') = DrainAll(DoAll(contents', queue'[1]), Tail(queue'))
    BY <2>2, DrainFirst
  <2> QED BY <1>2, <1>3, <2>2, <2>3 DEF Completed
<1> QED BY <1>4, <1>5

LEMMA EnqueuedRefInv ==
  ASSUME IndInv, RefInv, NEW h \in Hosts, NEW s \in Seq(CommandType), s # <<>>, Enqueue(h, s),
         UNCHANGED <<callback, mapped, slice>>
  PROVE  RefInv'
<1>1. queue' = Append(queue, s) /\ contents' = contents /\ lost' = lost
  BY DEF Enqueue
<1>2. SubmissionsNotEmpty'
  <2>1. queue \in Seq(Seq(CommandType)) /\ Len(queue) \in Nat
    BY QueueTypes
  <2>2. Len(queue') = Len(queue) + 1 /\ queue'[Len(queue) + 1] = s
        /\ \A i \in 1 .. Len(queue) : queue'[i] = queue[i]
    BY <1>1, <2>1
  <2> SUFFICES ASSUME NEW i \in 1 .. Len(queue') PROVE queue'[i] # <<>>
    BY DEF SubmissionsNotEmpty
  <2>3. CASE i \in 1 .. Len(queue)
    <3>1. queue[i] # <<>>
      BY <2>3 DEF RefInv, SubmissionsNotEmpty
    <3> QED BY <2>2, <2>3, <3>1
  <2>4. CASE i \notin 1 .. Len(queue)
    <3>1. i = Len(queue) + 1
      BY <2>1, <2>2, <2>4
    <3> QED BY <2>2, <3>1
  <2> QED BY <2>3, <2>4
<1> QED BY <1>1, <1>2 DEF RefInv, FailedByLoss, IsMemory

LEMMA ExecutedRefInv ==
  ASSUME IndInv, RefInv, Execute
  PROVE  RefInv'
<1>1. /\ queue \in Seq(Seq(CommandType)) /\ queue # <<>> /\ Len(queue) \in Nat \ {0}
      /\ queue[1] \in Seq(CommandType) /\ queue[1] # <<>>
      /\ \A i \in 1 .. Len(queue) : queue[i] # <<>>
  <2>1. /\ queue \in Seq(Seq(CommandType)) /\ queue # <<>> /\ Len(queue) \in Nat
        /\ \A i \in 1 .. Len(queue) : queue[i] \in Seq(CommandType) /\ queue[i] # <<>>
    BY QueueTypes DEF Execute, RefInv, SubmissionsNotEmpty
  <2> QED BY <2>1
<1>2. contents' = Do(contents, queue[1][1]) /\ queue[1][1] \in CommandType
      /\ UNCHANGED <<callback, mapped, slice, lost>>
  <2>1. queue[1][1] \in CommandType
    BY <1>1
  <2> QED BY <2>1 DEF Execute, hostVars
<1>3. IsMemory(contents)'
  <2>1. IsMemory(Do(contents, queue[1][1]))
    BY <1>2, DoFacts DEF RefInv
  <2> QED BY <1>2, <2>1 DEF IsMemory
<1>4. SubmissionsNotEmpty'
  <2>1. CASE Tail(queue[1]) = <<>>
    <3>1. queue' = Tail(queue)
      BY <2>1 DEF Execute
    <3>2. Len(queue') = Len(queue) - 1 /\ \A i \in 1 .. Len(queue') : queue'[i] = queue[i + 1]
      BY <1>1, <3>1
    <3> SUFFICES ASSUME NEW i \in 1 .. Len(queue') PROVE queue'[i] # <<>>
      BY DEF SubmissionsNotEmpty
    <3>3. i + 1 \in 1 .. Len(queue)
      BY <1>1, <3>2
    <3>4. queue'[i] = queue[i + 1]
      BY <3>2
    <3> QED BY <1>1, <3>3, <3>4
  <2>2. CASE Tail(queue[1]) # <<>>
    <3>1. queue' = [queue EXCEPT ![1] = Tail(queue[1])]
      BY <2>2 DEF Execute
    <3>2. Len(queue') = Len(queue) /\ queue'[1] = Tail(queue[1])
          /\ \A i \in 2 .. Len(queue) : queue'[i] = queue[i]
      BY <1>1, <3>1
    <3> SUFFICES ASSUME NEW i \in 1 .. Len(queue') PROVE queue'[i] # <<>>
      BY DEF SubmissionsNotEmpty
    <3>3. CASE i = 1
      BY <2>2, <3>2, <3>3
    <3>4. CASE i # 1
      <4>1. i \in 2 .. Len(queue)
        BY <1>1, <3>2, <3>4
      <4>2. queue'[i] = queue[i] /\ i \in 1 .. Len(queue)
        BY <1>1, <3>2, <4>1
      <4> QED BY <1>1, <4>2
    <3> QED BY <3>3, <3>4
  <2> QED BY <2>1, <2>2
<1> QED BY <1>2, <1>3, <1>4 DEF RefInv, FailedByLoss

\* Steps that neither submit nor execute.
Quiet == UNCHANGED <<contents, queue>>

LEMMA QuietRefInv ==
  ASSUME RefInv, Quiet, slice' = [h \in Hosts |-> slice'[h]], FailedByLoss'
  PROVE  RefInv'
BY DEF Quiet, RefInv, IsMemory, SubmissionsNotEmpty

LEMMA CollectedRefInv ==
  ASSUME IndInv, RefInv, NEW h \in Hosts, Collect(h)
  PROVE  RefInv'
<1>1. FailedByLoss'
  BY DEF Collect, Goto, Ready, Done, RefInv, FailedByLoss, IndInv, TypeInv
<1>2. Quiet /\ slice' = slice
  BY DEF Collect, Quiet
<1> QED BY <1>1, <1>2, QuietRefInv DEF RefInv

LEMMA StepRefInv ==
  ASSUME IndInv, RefInv, NEW h \in Hosts, Step(h)
  PROVE  RefInv'
<1>1. CASE map_async(h)
  <2>1. FailedByLoss' /\ Quiet /\ slice' = slice
    BY <1>1 DEF map_async, RefInv, FailedByLoss, IndInv, TypeInv, Quiet
  <2> QED BY <2>1, QuietRefInv DEF RefInv
<1>2. CASE Wait(h)
  BY <1>2, CollectedRefInv DEF Wait
<1>3. CASE Polled(h)
  <2>1. FailedByLoss' /\ Quiet /\ slice' = slice
    BY <1>3 DEF Polled, RefInv, FailedByLoss, Quiet, hostVars
  <2> QED BY <2>1, QuietRefInv DEF RefInv
<1>4. CASE recv(h)
  <2>1. FailedByLoss' /\ Quiet
    BY <1>4 DEF recv, Return, RefInv, FailedByLoss, IndInv, TypeInv, Quiet
  <2>2. slice' = [g \in Hosts |-> slice'[g]]
    BY <1>4 DEF recv, Return, RefInv
  <2> QED BY <2>1, <2>2, QuietRefInv
<1>5. ASSUME NEW g \in Hosts, CallBack(h, g) PROVE RefInv'
  <2>1. callback[g] = "collected"
    BY <1>5 DEF CallBack, IndInv, TakenOnce
  <2>2. FailedByLoss' /\ Quiet /\ slice' = slice
    BY <1>5, <2>1 DEF CallBack, RefInv, FailedByLoss, IndInv, TypeInv, Quiet
  <2> QED BY <2>2, QuietRefInv DEF RefInv
<1> QED BY <1>1, <1>2, <1>3, <1>4, <1>5 DEF Step

LEMMA RefInvStep == IndInv /\ RefInv /\ [Next]_vars => RefInv'
<1> SUFFICES ASSUME IndInv, RefInv, [Next]_vars PROVE RefInv'
  OBVIOUS
<1>1. CASE Execute
  BY <1>1, ExecutedRefInv
<1>2. CASE Lose
  <2>1. FailedByLoss' /\ Quiet /\ slice' = slice
    BY <1>2 DEF Lose, hostVars, FailedByLoss, Quiet
  <2> QED BY <2>1, QuietRefInv DEF RefInv
<1>3. ASSUME NEW h \in Hosts, HostNext(h) PROVE RefInv'
  <2>1. ASSUME NEW u \in Uploads, upload(h, u[1], u[2]) PROVE RefInv'
    <3>1. u = <<u[1], u[2]>>
      BY CommandsAssumption
    <3>2. Enqueue(h, UploadOf(u)) /\ UNCHANGED <<callback, mapped, slice>>
      BY <2>1, <3>1 DEF upload, hostVars
    <3> QED BY <3>2, UploadsType, BufferSubmissions, EnqueuedRefInv
  <2>2. ASSUME NEW p \in Pipes, pipe(h, p[1], p[2]) PROVE RefInv'
    <3>1. p = <<p[1], p[2]>>
      BY CommandsAssumption
    <3>2. Enqueue(h, PipeOf(p)) /\ UNCHANGED <<callback, mapped, slice>>
      BY <2>2, <3>1 DEF pipe, hostVars
    <3> QED BY <3>2, PipesType, BufferSubmissions, EnqueuedRefInv
  <2>3. CASE submit(h)
    <3>1. Enqueue(h, BatchOf(batch[h])) /\ batch[h] \in Batches[h]
          /\ UNCHANGED <<callback, mapped, slice>>
      BY <2>3 DEF submit
    <3> QED BY <3>1, BatchesType, BufferSubmissions, EnqueuedRefInv
  <2>4. ASSUME NEW b \in Downloads, download(h, b) PROVE RefInv'
    <3>1. Enqueue(h, DownloadOf(h, b)) /\ UNCHANGED <<callback, mapped, slice>>
      BY <2>4 DEF download, hostVars
    <3>2. DownloadOf(h, b) # <<>>
      BY DEF DownloadOf
    <3> QED BY <3>1, <3>2, DownloadsType, EnqueuedRefInv
  <2>5. ASSUME NEW d \in Dispatches, record(h, d) PROVE RefInv'
    <3>1. FailedByLoss' /\ Quiet /\ slice' = slice
      BY <2>5 DEF record, RefInv, FailedByLoss, Quiet
    <3> QED BY <3>1, QuietRefInv DEF RefInv
  <2>6. CASE sync(h)
    <3>1. FailedByLoss' /\ Quiet /\ slice' = slice
      BY <2>6 DEF sync, hostVars, RefInv, FailedByLoss, Quiet
    <3> QED BY <3>1, QuietRefInv DEF RefInv
  <2>7. CASE poll(h)
    BY <2>7, CollectedRefInv DEF poll
  <2> QED BY <1>3, <2>1, <2>2, <2>3, <2>4, <2>5, <2>6, <2>7, StepRefInv DEF HostNext
<1>4. CASE UNCHANGED vars
  <2>1. FailedByLoss' /\ Quiet /\ slice' = slice
    BY <1>4 DEF vars, hostVars, RefInv, FailedByLoss, Quiet
  <2> QED BY <2>1, QuietRefInv DEF RefInv
<1> QED BY <1>1, <1>2, <1>3, <1>4 DEF Next

----------------------------------------------------------------------------
(* The serial device has the commands of the runtime.                       *)

LEMMA SameCommands ==
  /\ \A m, c : Serial!DoAll(m, c) = DoAll(m, c)
  /\ Serial!Accepted = Accepted
  /\ \A h, b : Serial!FitsCpu(h, b) <=> FitsCpu(h, b)
  /\ \A s, d : Serial!Delivered(s, d) = Delivered(s, d)
  /\ Serial!Buffers = Buffers
  /\ \A n : Serial!Zeros(n) = Zeros(n)
  /\ \A b : Serial!Size(b) = Size(b)
<1>1. \A m, c : Serial!DoAll(m, c) = DoAll(m, c)
  BY DEF Serial!DoAll, DoAll, Serial!Do, Do
<1>2. Serial!Accepted = Accepted
  <2>1. \A u : Serial!UploadOf(u) = UploadOf(u)
    BY DEF Serial!UploadOf, UploadOf, Serial!Write, Write, Serial!Command, Command
  <2>2. \A p : Serial!PipeOf(p) = PipeOf(p)
    BY DEF Serial!PipeOf, PipeOf, Serial!Copy, Copy, Serial!Command, Command
  <2>3. \A d : Serial!Kernel(d) = Kernel(d)
    BY Zenon DEF Serial!Kernel, Kernel, Serial!Compute, Compute, Serial!Command, Command
  <2>4. \A bt : Serial!BatchOf(bt) = BatchOf(bt)
    BY <2>3 DEF Serial!BatchOf, BatchOf
  <2>5. \A b : Serial!Size(b) = Size(b)
    BY DEF Serial!Size, Size
  <2>6. \A f : Serial!Range(f) = Range(f)
    BY DEF Serial!Range, Range
  <2> QED BY <2>1, <2>2, <2>4, <2>5, <2>6 DEF Serial!Accepted, Accepted
<1>3. \A h, b : Serial!FitsCpu(h, b) <=> FitsCpu(h, b)
  BY DEF Serial!FitsCpu, FitsCpu, Serial!Size, Size
<1>4. \A s, d : Serial!Delivered(s, d) = Delivered(s, d)
  BY DEF Serial!Delivered, Delivered
<1>5. Serial!Buffers = Buffers
  BY DEF Serial!Buffers, Buffers
<1>6. \A n : Serial!Zeros(n) = Zeros(n)
  BY DEF Serial!Zeros, Zeros
<1>7. \A b : Serial!Size(b) = Size(b)
  BY DEF Serial!Size, Size
<1> QED BY <1>1, <1>2, <1>3, <1>4, <1>5, <1>6, <1>7

----------------------------------------------------------------------------
(* Every step is a step of the serial device, or none.                      *)

LEMMA Mapping ==
  /\ Memory = OnBuffers(Completed)
  /\ Promise = [h \in Hosts |-> IF Downloading(h) THEN {Completed[h]} ELSE {}]
BY DEF Memory, Promise, OnBuffers

LEMMA StartsSerial == Init => Serial!Init
<1> SUFFICES ASSUME Init PROVE Serial!Init
  OBVIOUS
<1>1. Completed = contents
  BY DrainEmpty DEF Completed, Init
<1>2. Memory = [b \in Buffers |-> Zeros(Size(b))]
  <2>1. \A b \in Buffers : contents[b] = Zeros(Size(b))
    BY DEF Init
  <2> QED BY <1>1, <2>1, Mapping DEF OnBuffers
<1>3. Promise = [h \in Hosts |-> {}]
  <2>1. \A h \in Hosts : ~Downloading(h)
    BY DEF Init, Downloading
  <2> QED BY <2>1, Mapping
<1> QED BY <1>2, <1>3, SameCommands DEF Init, Serial!Init

\* Steps that change neither what the queue leads to nor who downloads.
LEMMA Stutters ==
  ASSUME Completed' = Completed, UNCHANGED <<slice, lost>>,
         \A h \in Hosts : Downloading(h)' <=> Downloading(h)
  PROVE  UNCHANGED <<Memory, Promise, slice, lost>>
<1>1. Memory' = Memory
  BY DEF Memory
<1>2. Promise' = Promise
  BY DEF Promise
<1> QED BY <1>1, <1>2

LEMMA QuietIsTheSame == Quiet => Completed' = Completed
BY DEF Quiet, Completed

LEMMA SubmitIsSubmit ==
  ASSUME IndInv, RefInv, NEW h \in Hosts, NEW s \in Accepted,
         s \in Seq(CommandType), s \in Seq(BufferCommands), \A g \in Hosts : ~Writes(g, s),
         Enqueue(h, s), UNCHANGED <<pc, callback, slice>>
  PROVE  Serial!Submit
<1>1. Completed' = DoAll(Completed, s) /\ IsMemory(Completed)
  BY EnqueuedIsDone, CompletedIsMemory
<1>2. Memory' = DoAll(Memory, s)
  <2>1. Memory' = OnBuffers(Completed')
    BY DEF Memory, OnBuffers
  <2>2. OnBuffers(DoAll(Completed, s)) = DoAll(OnBuffers(Completed), s)
    BY <1>1, DoAllOnBuffers
  <2> QED BY <1>1, <2>1, <2>2, Mapping
<1>3. Promise' = Promise
  <2>1. \A g \in Hosts : Completed'[g] = Completed[g]
    BY <1>1, DoAllFacts DEF Places
  <2>2. \A g \in Hosts : Downloading(g)' <=> Downloading(g)
    BY DEF Downloading
  <2> QED BY <2>1, <2>2 DEF Promise
<1>4. lost' = lost
  BY DEF Enqueue
<1>5. Memory' = Serial!DoAll(Memory, s) /\ s \in Serial!Accepted
  BY <1>2, SameCommands
<1> QED BY <1>3, <1>4, <1>5 DEF Serial!Submit

LEMMA DownloadIsRequest ==
  ASSUME IndInv, RefInv, NEW h \in Hosts, NEW b \in Downloads, download(h, b)
  PROVE  Serial!Request(h)
<1>1. /\ Enqueue(h, DownloadOf(h, b)) /\ FitsCpu(h, b) /\ pc[h] = "idle"
      /\ pc' = [pc EXCEPT ![h] = "map"] /\ UNCHANGED <<callback, slice>>
  BY DEF download, Call, Goto, hostVars
<1>2. b \in Buffers /\ h \in Places /\ h \notin Buffers
  BY CommandsAssumption DEF Places
<1>3. Completed' = Do(Completed, Copy(h, b)) /\ IsMemory(Completed)
  <2>1. DownloadOf(h, b) \in Seq(CommandType)
    BY DownloadsType
  <2>2. Completed' = DoAll(Completed, DownloadOf(h, b))
    BY <1>1, <2>1, EnqueuedIsDone
  <2> QED BY <2>2, DoAllOne, CompletedIsMemory DEF DownloadOf
<1>4. Completed' = [Completed EXCEPT ![h] = Completed[b]]
  BY <1>3 DEF Do, Copy, Command
<1>5. /\ Completed'[h] = Completed[b]
      /\ \A x \in Places : x # h => Completed'[x] = Completed[x]
  BY <1>2, <1>3, <1>4 DEF IsMemory
<1>6. Memory' = Memory
  BY <1>2, <1>5 DEF Memory, Places
<1>7. Memory[b] = Completed[b]
  BY <1>2, Mapping DEF OnBuffers
<1>8. Promise[h] = {}
  <2>1. ~Downloading(h)
    BY <1>1 DEF Downloading, IndInv, NoneOutside
  <2> QED BY <2>1, Mapping
<1>9. Promise' = [Promise EXCEPT ![h] = {Memory[b]}]
  <2>1. Downloading(h)' /\ \A g \in Hosts : g # h => (Downloading(g)' <=> Downloading(g))
    BY <1>1 DEF Downloading, IndInv, TypeInv
  <2>2. Promise' = [g \in Hosts |-> IF Downloading(g)' THEN {Completed'[g]} ELSE {}]
    BY DEF Promise
  <2>3. \A g \in Hosts : g # h => Completed'[g] = Completed[g]
    BY <1>5 DEF Places
  <2>4. \A g \in Hosts : (IF Downloading(g)' THEN {Completed'[g]} ELSE {})
                         = IF g = h THEN {Memory[b]} ELSE Promise[g]
    <3> SUFFICES ASSUME NEW g \in Hosts
                 PROVE  (IF Downloading(g)' THEN {Completed'[g]} ELSE {})
                        = IF g = h THEN {Memory[b]} ELSE Promise[g]
      OBVIOUS
    <3>1. CASE g = h
      BY <1>5, <1>7, <2>1, <3>1
    <3>2. CASE g # h
      BY <2>1, <2>3, <3>2, Mapping
    <3> QED BY <3>1, <3>2
  <2>5. Promise = [g \in Hosts |-> Promise[g]]
    BY Mapping
  <2> QED BY <2>2, <2>4, <2>5
<1>10. lost' = lost
  BY <1>1 DEF Enqueue
<1> QED BY <1>1, <1>6, <1>8, <1>9, <1>10, SameCommands DEF Serial!Request

LEMMA RecvIsAnswerOrFail ==
  ASSUME IndInv, RefInv, NEW h \in Hosts, recv(h)
  PROVE  Serial!Answer(h) \/ Serial!Fail(h)
<1>1. /\ callback[h] = "called" /\ Quiet /\ lost' = lost
      /\ slice' = [slice EXCEPT ![h] = IF mapped[h] THEN Delivered(slice[h], contents[h]) ELSE slice[h]]
      /\ callback' = [callback EXCEPT ![h] = "none"]
      /\ pc' = [pc EXCEPT ![h] = "idle"]
  BY DEF recv, Return, Quiet, Goto
<1>2. Completed' = Completed
  BY <1>1, QuietIsTheSame
<1>3. Memory' = Memory
  BY <1>2 DEF Memory
<1>4. Promise[h] = {Completed[h]}
  <2>1. Downloading(h)
    BY <1>1 DEF Downloading
  <2> QED BY <2>1, Mapping
<1>5. Promise' = [Promise EXCEPT ![h] = {}]
  <2>1. ~Downloading(h)' /\ \A g \in Hosts : g # h => (Downloading(g)' <=> Downloading(g))
    BY <1>1 DEF Downloading, IndInv, TypeInv
  <2>2. Promise' = [g \in Hosts |-> IF Downloading(g)' THEN {Completed[g]} ELSE {}]
    BY <1>2 DEF Promise
  <2> QED BY <2>1, <2>2, Mapping
<1>6. CASE mapped[h]
  <2>1. Completed[h] = contents[h]
    <3>1. \A i \in DOMAIN queue : ~Writes(h, queue[i])
      BY <1>6, IndInvImplies DEF HostReadsFinishedCopies
    <3>2. queue \in Seq(Seq(CommandType)) /\ IsMemory(contents) /\ h \in Places
      BY QueueTypes DEF RefInv, Places
    <3> QED BY <3>1, <3>2, DrainFacts DEF Completed
  <2>2. slice' = [slice EXCEPT ![h] = Serial!Delivered(slice[h], Completed[h])]
    BY <1>1, <1>6, <2>1, SameCommands
  <2>3. Completed[h] \in Promise[h]
    BY <1>4
  <2> QED BY <1>1, <1>3, <1>5, <2>2, <2>3 DEF Serial!Answer
<1>7. CASE ~mapped[h]
  <2>1. lost
    BY <1>1, <1>7 DEF RefInv, FailedByLoss
  <2>2. slice' = slice
    BY <1>1, <1>7 DEF RefInv
  <2>3. Promise[h] # {}
    BY <1>4
  <2> QED BY <1>1, <1>3, <1>5, <2>1, <2>2, <2>3 DEF Serial!Fail
<1> QED BY <1>6, <1>7

serialVars == <<Memory, Promise, slice, lost>>

LEMMA QuietSteps ==
  ASSUME IndInv, NEW h \in Hosts,
         sync(h) \/ poll(h) \/ map_async(h) \/ Wait(h) \/ Polled(h)
           \/ (\E d \in Dispatches : record(h, d)) \/ (\E g \in Hosts : CallBack(h, g))
  PROVE  UNCHANGED serialVars
<1>1. CASE sync(h)
  <2>1. Quiet /\ UNCHANGED <<slice, lost>> /\ \A g \in Hosts : Downloading(g)' <=> Downloading(g)
    BY <1>1 DEF sync, Call, Goto, Quiet, hostVars, Downloading, IndInv, TypeInv
  <2> QED BY <2>1, QuietIsTheSame, Stutters DEF serialVars
<1>2. CASE poll(h) \/ Wait(h)
  <2>1. Collect(h) /\ pc[h] \in {"idle", "wait"}
    BY <1>2 DEF poll, Call, Wait
  <2>2. Quiet /\ UNCHANGED <<slice, lost>>
    BY <2>1 DEF Collect, Quiet
  <2>3. \A g \in Hosts : Downloading(g)' <=> Downloading(g)
    BY <2>1 DEF Collect, Goto, Ready, Downloading, IndInv, TypeInv
  <2> QED BY <2>2, <2>3, QuietIsTheSame, Stutters DEF serialVars
<1>3. CASE map_async(h)
  <2>1. Quiet /\ UNCHANGED <<slice, lost>> /\ \A g \in Hosts : Downloading(g)' <=> Downloading(g)
    BY <1>3 DEF map_async, Goto, Quiet, Downloading, IndInv, TypeInv
  <2> QED BY <2>1, QuietIsTheSame, Stutters DEF serialVars
<1>4. CASE Polled(h)
  <2>1. Quiet /\ UNCHANGED <<slice, lost>> /\ \A g \in Hosts : Downloading(g)' <=> Downloading(g)
    BY <1>4 DEF Polled, Goto, Quiet, hostVars, Downloading, IndInv, TypeInv
  <2> QED BY <2>1, QuietIsTheSame, Stutters DEF serialVars
<1>5. ASSUME NEW d \in Dispatches, record(h, d) PROVE UNCHANGED serialVars
  <2>1. Quiet /\ UNCHANGED <<slice, lost>> /\ \A g \in Hosts : Downloading(g)' <=> Downloading(g)
    BY <1>5 DEF record, Quiet, Downloading
  <2> QED BY <2>1, QuietIsTheSame, Stutters DEF serialVars
<1>6. ASSUME NEW g \in Hosts, CallBack(h, g) PROVE UNCHANGED serialVars
  <2>1. callback[g] = "collected"
    BY <1>6 DEF CallBack, IndInv, TakenOnce
  <2>2. Quiet /\ UNCHANGED <<slice, lost>> /\ \A k \in Hosts : Downloading(k)' <=> Downloading(k)
    BY <1>6, <2>1 DEF CallBack, Quiet, Downloading, IndInv, TypeInv
  <2> QED BY <2>2, QuietIsTheSame, Stutters DEF serialVars
<1> QED BY <1>1, <1>2, <1>3, <1>4, <1>5, <1>6

LEMMA StepsSerial ==
  IndInv /\ RefInv /\ [Next]_vars => [Serial!Next]_serialVars
<1> SUFFICES ASSUME IndInv, RefInv, [Next]_vars PROVE [Serial!Next]_serialVars
  OBVIOUS
<1>1. CASE Execute
  <2>1. UNCHANGED <<slice, lost, pc, callback>>
    BY <1>1 DEF Execute, hostVars
  <2>2. Completed' = Completed
    BY <1>1, ExecutedIsTheSame
  <2>3. \A h \in Hosts : Downloading(h)' <=> Downloading(h)
    BY <2>1 DEF Downloading
  <2> QED BY <2>1, <2>2, <2>3, Stutters DEF serialVars
<1>2. CASE Lose
  <2>1. Quiet /\ lost' = TRUE /\ UNCHANGED <<slice, pc, callback>>
    BY <1>2 DEF Lose, hostVars, Quiet
  <2>2. Completed' = Completed
    BY <2>1, QuietIsTheSame
  <2>3. Memory' = Memory
    BY <2>2 DEF Memory
  <2>4. Promise' = Promise
    BY <2>1, <2>2 DEF Promise, Downloading
  <2> QED BY <2>1, <2>3, <2>4 DEF Serial!Next, Serial!Lose
<1>3. ASSUME NEW h \in Hosts, HostNext(h) PROVE [Serial!Next]_serialVars
  <2>1. ASSUME NEW u \in Uploads, upload(h, u[1], u[2]) PROVE Serial!Next
    <3>1. u = <<u[1], u[2]>>
      BY CommandsAssumption
    <3>2. Enqueue(h, UploadOf(u)) /\ UNCHANGED <<pc, callback, slice>> /\ Len(u[2]) = Size(u[1])
      BY <2>1, <3>1 DEF upload, hostVars
    <3>3. UploadOf(u) \in Accepted
      BY <3>2 DEF Accepted
    <3> QED BY <3>2, <3>3, UploadsType, BufferSubmissions, SubmitIsSubmit DEF Serial!Next
  <2>2. ASSUME NEW p \in Pipes, pipe(h, p[1], p[2]) PROVE Serial!Next
    <3>1. p = <<p[1], p[2]>>
      BY CommandsAssumption
    <3>2. Enqueue(h, PipeOf(p)) /\ UNCHANGED <<pc, callback, slice>> /\ Size(p[1]) = Size(p[2])
      BY <2>2, <3>1 DEF pipe, hostVars
    <3>3. PipeOf(p) \in Accepted
      BY <3>2 DEF Accepted
    <3> QED BY <3>2, <3>3, PipesType, BufferSubmissions, SubmitIsSubmit DEF Serial!Next
  <2>3. CASE submit(h)
    <3>1. Enqueue(h, BatchOf(batch[h])) /\ batch[h] \in Batches[h]
          /\ UNCHANGED <<pc, callback, slice>>
      BY <2>3 DEF submit
    <3>2. batch[h] \in UNION Range(Batches)
      BY <3>1, CommandsAssumption DEF Range
    <3>3. BatchOf(batch[h]) \in Accepted
      BY <3>2 DEF Accepted
    <3> QED BY <3>1, <3>3, BatchesType, BufferSubmissions, SubmitIsSubmit DEF Serial!Next
  <2>4. ASSUME NEW b \in Downloads, download(h, b) PROVE Serial!Next
    BY <2>4, DownloadIsRequest DEF Serial!Next
  <2>5. CASE recv(h)
    BY <2>5, RecvIsAnswerOrFail DEF Serial!Next
  <2> QED BY <1>3, <2>1, <2>2, <2>3, <2>4, <2>5, QuietSteps DEF HostNext, Step
<1>4. CASE UNCHANGED vars
  <2>1. Quiet /\ UNCHANGED <<slice, lost>> /\ \A g \in Hosts : Downloading(g)' <=> Downloading(g)
    BY <1>4 DEF vars, hostVars, Quiet, Downloading
  <2> QED BY <2>1, QuietIsTheSame, Stutters DEF serialVars
<1> QED BY <1>1, <1>2, <1>3, <1>4 DEF Next

(***************************************************************************)
(* Threads that share the context, whoever polls, and a device that works   *)
(* off the queue at its own pace and may be lost, behave as if every call   *)
(* took effect at once when it is submitted, and every download returned    *)
(* what its buffer held then.                                               *)
(***************************************************************************)
THEOREM Refinement == Spec => ImplementsSerialDevice
<1>1. Init => IndInv /\ RefInv /\ Serial!Init
  BY IndInvInit, RefInvInitially, StartsSerial
<1>2. IndInv /\ RefInv /\ [Next]_vars => (IndInv /\ RefInv)'
  BY IndInvStep, RefInvStep
<1>3. IndInv /\ RefInv /\ [Next]_vars => [Serial!Next]_serialVars
  BY StepsSerial
<1> QED BY <1>1, <1>2, <1>3, PTL DEF Spec, ImplementsSerialDevice, Serial!Spec, serialVars

-----------------------------------------------------------------------------
(***************************************************************************)
(* A gradient belongs to one forward pass.  What is left of the submission  *)
(* that the device works on, and what it has computed, go together: before  *)
(* a backward that is still to come, forward and loss are still to come; or *)
(* the output is that of the input, and loss is still to come; or the seed  *)
(* is that of the output too.  Nothing of another submission comes between. *)
(***************************************************************************)

Forward == Kernel("dispatch_forward")
Loss == Kernel("launch_loss")
Backward == Kernel("dispatch_backward")

Program(s) == \A j \in 1 .. Len(s) : s[j] \in {Forward, Loss, Backward}

\* The one command of an upload, a pipe or a download.
Single(s) ==
  Len(s) = 1 /\ (s[1].dst = "grad" => s[1].kind = "copy" /\ s[1].src[1] = "grad")

Whole(s) ==
  /\ Program(s)
  /\ \A i \in 1 .. Len(s) : s[i] = Backward =>
       \E l \in 1 .. i - 1 : s[l] = Loss /\ \E f \in 1 .. l - 1 : s[f] = Forward

Agree(memory, a, b) == memory[a][1] = memory[b][1]

InHand(memory, s, i) ==
  \/ \E l \in 1 .. i - 1 : s[l] = Loss /\ \E f \in 1 .. l - 1 : s[f] = Forward
  \/ Agree(memory, "forward_out", "input") /\ \E l \in 1 .. i - 1 : s[l] = Loss
  \/ Agree(memory, "forward_out", "input") /\ Agree(memory, "seed", "input")

Started(memory, s) ==
  Program(s) /\ \A i \in 1 .. Len(s) : s[i] = Backward => InHand(memory, s, i)

GradInv ==
  /\ GradientsBelongToOneForward
  /\ Len(queue) >= 1 => Single(queue[1]) \/ Started(contents, queue[1])
  /\ \A i \in 2 .. Len(queue) : Single(queue[i]) \/ Whole(queue[i])

LEMMA WholeStarts == \A memory, s : Whole(s) => Started(memory, s)
BY DEF Whole, Started, InHand

LEMMA Kernels ==
  /\ Forward = [kind |-> "compute", dst |-> "forward_out", src |-> <<"input">>, data |-> <<>>]
  /\ Loss = [kind |-> "compute", dst |-> "seed", src |-> <<"forward_out">>, data |-> <<>>]
  /\ Backward = [kind |-> "compute", dst |-> "grad", src |-> <<"seed", "forward_out", "input">>,
                 data |-> <<>>]
BY DEF Forward, Loss, Backward, Kernel, Compute, Command

LEMMA KernelsDiffer == Forward # Loss /\ Forward # Backward /\ Loss # Backward
<1>1. Forward.dst = "forward_out" /\ Loss.dst = "seed" /\ Backward.dst = "grad"
  BY Kernels
<1>2. "forward_out" # "seed" /\ "forward_out" # "grad" /\ "seed" # "grad"
  OBVIOUS
<1> QED BY <1>1, <1>2

LEMMA KernelEffects ==
  ASSUME NEW memory, IsMemory(memory)
  PROVE  /\ Do(memory, Forward) = [memory EXCEPT !["forward_out"] = <<memory["input"][1]>>]
         /\ Do(memory, Loss) = [memory EXCEPT !["seed"] = <<memory["forward_out"][1]>>]
         /\ Do(memory, Backward) =
              [memory EXCEPT !["grad"] = <<memory["seed"][1], memory["forward_out"][1], memory["input"][1]>>]
<1>1. Do(memory, Forward) = [memory EXCEPT !["forward_out"] = <<memory["input"][1]>>]
  <2>1. [i \in DOMAIN <<"input">> |-> memory[<<"input">>[i]][1]] = <<memory["input"][1]>>
    OBVIOUS
  <2> QED BY <2>1, Kernels DEF Do
<1>2. Do(memory, Loss) = [memory EXCEPT !["seed"] = <<memory["forward_out"][1]>>]
  <2>1. [i \in DOMAIN <<"forward_out">> |-> memory[<<"forward_out">>[i]][1]]
          = <<memory["forward_out"][1]>>
    OBVIOUS
  <2> QED BY <2>1, Kernels DEF Do
<1>3. Do(memory, Backward) =
        [memory EXCEPT !["grad"] = <<memory["seed"][1], memory["forward_out"][1], memory["input"][1]>>]
  <2>1. [i \in DOMAIN <<"seed", "forward_out", "input">> |->
           memory[<<"seed", "forward_out", "input">>[i]][1]]
          = <<memory["seed"][1], memory["forward_out"][1], memory["input"][1]>>
    OBVIOUS
  <2> QED BY <2>1, Kernels DEF Do
<1> QED BY <1>1, <1>2, <1>3

----------------------------------------------------------------------------
Uniform(memory) == \A i, j \in 1 .. Size("grad") : memory["grad"][i] = memory["grad"][j]

\* A kernel is executed: what the later ones need is in hand.
LEMMA StartedGoesOn ==
  ASSUME NEW memory, IsMemory(memory), NEW s \in Seq(CommandType), s # <<>>,
         Started(memory, s), Uniform(memory)
  PROVE  Uniform(Do(memory, s[1])) /\ Started(Do(memory, s[1]), Tail(s))
<1> DEFINE next == Do(memory, s[1])
           rest == Tail(s)
<1>1. /\ Len(s) \in Nat \ {0} /\ Len(rest) = Len(s) - 1
      /\ \A i \in 1 .. Len(rest) : rest[i] = s[i + 1]
  OBVIOUS
<1> HIDE DEF rest
<1>2. Program(s) /\ s[1] \in {Forward, Loss, Backward}
  BY <1>1 DEF Started, Program
<1>3. Program(rest)
  <2> SUFFICES ASSUME NEW i \in 1 .. Len(rest) PROVE rest[i] \in {Forward, Loss, Backward}
    BY DEF Program
  <2>1. i + 1 \in 1 .. Len(s)
    BY <1>1
  <2> QED BY <1>1, <1>2, <2>1 DEF Program
<1>4. {"forward_out", "seed", "grad", "input"} \subseteq Places
  BY DEF Places, Buffers
<1>5. Uniform(next)
  <2>1. CASE s[1] = Backward
    <3>1. InHand(memory, s, 1)
      BY <1>1, <2>1 DEF Started
    <3>2. Agree(memory, "forward_out", "input") /\ Agree(memory, "seed", "input")
      BY <3>1 DEF InHand
    <3>3. next["grad"] = <<memory["seed"][1], memory["forward_out"][1], memory["input"][1]>>
      BY <1>4, <2>1, KernelEffects DEF IsMemory
    <3>4. memory["seed"][1] = memory["input"][1] /\ memory["forward_out"][1] = memory["input"][1]
      BY <3>2 DEF Agree
    <3>5. \A i \in 1 .. 3 : next["grad"][i] = memory["input"][1]
      BY <3>3, <3>4
    <3>6. Size("grad") = 3
      BY DEF Size
    <3> HIDE DEF next
    <3> QED BY <3>5, <3>6 DEF Uniform
  <2>2. CASE s[1] # Backward
    <3>1. next["grad"] = memory["grad"]
      BY <1>2, <1>4, <2>2, KernelEffects DEF IsMemory
    <3> HIDE DEF next
    <3> QED BY <3>1 DEF Uniform
  <2> QED BY <2>1, <2>2
<1>6. ASSUME NEW i \in 1 .. Len(rest), rest[i] = Backward
      PROVE  InHand(next, rest, i)
  <2>1. i + 1 \in 1 .. Len(s) /\ s[i + 1] = Backward /\ i \in Nat /\ i >= 1
    BY <1>1, <1>6
  <2>2. InHand(memory, s, i + 1)
    BY <2>1 DEF Started
  <2>3. \A l \in 2 .. i : rest[l - 1] = s[l] /\ l - 1 \in 1 .. i - 1
    BY <1>1, <2>1
  <2>4. CASE s[1] = Forward
    <3>1. Agree(next, "forward_out", "input")
          /\ (Agree(memory, "seed", "input") => Agree(next, "seed", "input"))
      <4>1. next = [memory EXCEPT !["forward_out"] = <<memory["input"][1]>>]
        BY <2>4, KernelEffects
      <4>2. /\ next["forward_out"] = <<memory["input"][1]>>
            /\ next["input"] = memory["input"] /\ next["seed"] = memory["seed"]
        BY <1>4, <4>1 DEF IsMemory
      <4> HIDE DEF next
      <4> QED BY <4>2 DEF Agree
    <3>2. \A l \in 1 .. i : s[l] = Loss => l \in 2 .. i
      BY <2>1, <2>4, KernelsDiffer
    <3>3. ASSUME NEW l \in 1 .. i, s[l] = Loss
          PROVE  \E k \in 1 .. i - 1 : rest[k] = Loss
      <4>1. l \in 2 .. i
        BY <3>2, <3>3
      <4> QED BY <2>3, <3>3, <4>1
    <3>4. (\E l \in 1 .. i : s[l] = Loss) \/ Agree(memory, "seed", "input")
      BY <2>1, <2>2 DEF InHand
    <3> HIDE DEF next
    <3> QED BY <3>1, <3>3, <3>4 DEF InHand
  <2>5. CASE s[1] = Loss
    <3>1. /\ Agree(memory, "forward_out", "input") =>
               Agree(next, "forward_out", "input") /\ Agree(next, "seed", "input")
      BY <1>4, <2>5, KernelEffects DEF IsMemory, Agree
    <3>2. ASSUME NEW l \in 1 .. i, s[l] = Loss, NEW f \in 1 .. l - 1, s[f] = Forward
          PROVE  \E k \in 1 .. i - 1 : rest[k] = Loss /\ \E g \in 1 .. k - 1 : rest[g] = Forward
      <4>1. f # 1
        BY <2>5, <3>2, KernelsDiffer
      <4>2. f \in 2 .. i /\ l \in 2 .. i /\ f - 1 \in 1 .. (l - 1) - 1
        BY <2>1, <4>1
      <4>3. rest[f - 1] = Forward /\ rest[l - 1] = Loss /\ l - 1 \in 1 .. i - 1
        BY <2>3, <3>2, <4>2
      <4> QED BY <4>2, <4>3
    <3>3. (\E l \in 1 .. i : s[l] = Loss /\ \E f \in 1 .. l - 1 : s[f] = Forward)
          \/ Agree(memory, "forward_out", "input")
      BY <2>1, <2>2 DEF InHand
    <3> HIDE DEF next
    <3> QED BY <3>1, <3>2, <3>3 DEF InHand
  <2>6. CASE s[1] = Backward
    <3>1. /\ Agree(next, "forward_out", "input") <=> Agree(memory, "forward_out", "input")
          /\ Agree(next, "seed", "input") <=> Agree(memory, "seed", "input")
      BY <1>4, <2>6, KernelEffects DEF IsMemory, Agree
    <3>2. ASSUME NEW l \in 1 .. i, s[l] = Loss
          PROVE  l \in 2 .. i /\ rest[l - 1] = Loss /\ l - 1 \in 1 .. i - 1
      <4>1. l # 1
        BY <2>6, <3>2, KernelsDiffer
      <4>2. l \in 2 .. i
        BY <2>1, <4>1
      <4> QED BY <2>3, <3>2, <4>2
    <3>3. ASSUME NEW l \in 1 .. i, s[l] = Loss, NEW f \in 1 .. l - 1, s[f] = Forward
          PROVE  f - 1 \in 1 .. (l - 1) - 1 /\ rest[f - 1] = Forward
      <4>1. f # 1
        BY <2>6, <3>3, KernelsDiffer
      <4>2. f \in 2 .. i /\ f - 1 \in 1 .. (l - 1) - 1
        BY <2>1, <4>1
      <4> QED BY <2>3, <3>3, <4>2
    <3>4. CASE \E l \in 1 .. i : s[l] = Loss /\ \E f \in 1 .. l - 1 : s[f] = Forward
      BY <3>2, <3>3, <3>4 DEF InHand
    <3>5. CASE Agree(memory, "forward_out", "input") /\ \E l \in 1 .. i : s[l] = Loss
      <4> HIDE DEF next
      <4> QED BY <3>1, <3>2, <3>5 DEF InHand
    <3>6. CASE Agree(memory, "forward_out", "input") /\ Agree(memory, "seed", "input")
      <4> HIDE DEF next
      <4> QED BY <3>1, <3>6 DEF InHand
    <3>7. (i + 1) - 1 = i
      BY <2>1
    <3> QED BY <2>2, <3>4, <3>5, <3>6, <3>7 DEF InHand
  <2> QED BY <1>2, <2>4, <2>5, <2>6
<1>7. Started(next, rest)
  <2> HIDE DEF next
  <2> QED BY <1>3, <1>6 DEF Started
<1> QED BY <1>5, <1>7 DEF rest

LEMMA SingleKeeps ==
  ASSUME NEW memory, IsMemory(memory), NEW s \in Seq(CommandType), Single(s), Uniform(memory)
  PROVE  Uniform(Do(memory, s[1])) /\ Tail(s) = <<>>
<1>1. Len(s) = 1 /\ s[1] \in CommandType
  BY DEF Single
<1>2. Tail(s) = <<>>
  <2>1. s # <<>>
    BY <1>1, EmptySeq
  <2>2. Tail(s) \in Seq(CommandType) /\ Len(Tail(s)) = Len(s) - 1
    BY <2>1, HeadTailProperties
  <2>3. Len(Tail(s)) \notin Nat \ {0}
    BY <1>1, <2>2
  <2> QED BY <2>2, <2>3, EmptySeq, Zenon
<1>3. Do(memory, s[1])["grad"] = memory["grad"]
  <2>1. CASE s[1].dst # "grad"
    <3>1. "grad" \in Places
      BY DEF Places, Buffers
    <3> QED BY <1>1, <2>1, <3>1, DoFacts
  <2>2. CASE s[1].dst = "grad"
    <3>1. s[1].kind = "copy" /\ s[1].src[1] = "grad"
      BY <2>2 DEF Single
    <3> QED BY <2>2, <3>1 DEF Do
  <2> QED BY <2>1, <2>2
<1> QED BY <1>2, <1>3 DEF Uniform

----------------------------------------------------------------------------
LEMMA GradInvInitially == Init => GradInv
<1> SUFFICES ASSUME Init PROVE GradInv
  OBVIOUS
<1>1. Len(queue) = 0
  BY DEF Init
<1>2. contents["grad"] = [i \in 1 .. 3 |-> 0] /\ Size("grad") = 3
  BY DEF Init, Buffers, Zeros, Size
<1> QED BY <1>1, <1>2 DEF GradInv, GradientsBelongToOneForward

LEMMA EnqueuedGradInv ==
  ASSUME IndInv, GradInv, NEW h \in Hosts, NEW s \in Seq(CommandType), Enqueue(h, s),
         Single(s) \/ Whole(s)
  PROVE  GradInv'
<1>1. queue' = Append(queue, s) /\ contents' = contents
      /\ queue \in Seq(Seq(CommandType)) /\ Len(queue) \in Nat
  BY QueueTypes DEF Enqueue
<1>2. Len(queue') = Len(queue) + 1 /\ queue'[Len(queue) + 1] = s
      /\ \A i \in 1 .. Len(queue) : queue'[i] = queue[i]
  BY <1>1
<1>3. GradientsBelongToOneForward'
  BY <1>1 DEF GradInv, GradientsBelongToOneForward
<1>4. Single(queue'[1]) \/ Started(contents', queue'[1])
  <2>1. CASE Len(queue) = 0
    <3>1. queue'[1] = s
      BY <1>2, <2>1
    <3> QED BY <3>1, WholeStarts
  <2>2. CASE Len(queue) # 0
    <3>1. queue'[1] = queue[1] /\ Len(queue) >= 1
      BY <1>1, <1>2, <2>2
    <3> QED BY <1>1, <3>1 DEF GradInv
  <2> QED BY <2>1, <2>2
<1>5. ASSUME NEW i \in 2 .. Len(queue') PROVE Single(queue'[i]) \/ Whole(queue'[i])
  <2>1. CASE i \in 2 .. Len(queue)
    <3>1. queue'[i] = queue[i]
      BY <1>2, <2>1
    <3> QED BY <2>1, <3>1 DEF GradInv
  <2>2. CASE i \notin 2 .. Len(queue)
    <3>1. i = Len(queue) + 1
      BY <1>1, <1>2, <2>2
    <3> QED BY <1>2, <3>1
  <2> QED BY <2>1, <2>2
<1>6. GradInv' <=> /\ GradientsBelongToOneForward'
                   /\ Len(queue') >= 1 => Single(queue'[1]) \/ Started(contents', queue'[1])
                   /\ \A i \in 2 .. Len(queue') : Single(queue'[i]) \/ Whole(queue'[i])
  BY DEF GradInv, Single, Started, Whole, Program, InHand, Agree
<1> QED BY <1>3, <1>4, <1>5, <1>6

LEMMA ExecutedGradInv ==
  ASSUME IndInv, RefInv, GradInv, Execute
  PROVE  GradInv'
<1>1. /\ queue \in Seq(Seq(CommandType)) /\ queue # <<>> /\ Len(queue) \in Nat \ {0}
      /\ queue[1] \in Seq(CommandType) /\ queue[1] # <<>>
  <2>1. /\ queue \in Seq(Seq(CommandType)) /\ queue # <<>> /\ Len(queue) \in Nat
        /\ \A i \in 1 .. Len(queue) : queue[i] \in Seq(CommandType) /\ queue[i] # <<>>
    BY QueueTypes DEF Execute, RefInv, SubmissionsNotEmpty
  <2> QED BY <2>1
<1>2. contents' = Do(contents, queue[1][1]) /\ IsMemory(contents)
  BY DEF Execute, RefInv
<1>3. Uniform(contents) <=> GradientsBelongToOneForward
  BY DEF Uniform, GradientsBelongToOneForward
<1>4. Uniform(contents') <=> GradientsBelongToOneForward'
  BY DEF Uniform, GradientsBelongToOneForward
<1>5. Uniform(contents) /\ (Single(queue[1]) \/ Started(contents, queue[1]))
      /\ \A i \in 2 .. Len(queue) : Single(queue[i]) \/ Whole(queue[i])
  BY <1>1, <1>3 DEF GradInv
<1>6. Uniform(contents')
      /\ (Tail(queue[1]) # <<>> => Started(contents', Tail(queue[1])))
  BY <1>1, <1>2, <1>5, SingleKeeps, StartedGoesOn
<1>7. GradInv' <=> /\ GradientsBelongToOneForward'
                   /\ Len(queue') >= 1 => Single(queue'[1]) \/ Started(contents', queue'[1])
                   /\ \A i \in 2 .. Len(queue') : Single(queue'[i]) \/ Whole(queue'[i])
  BY DEF GradInv, Single, Started, Whole, Program, InHand, Agree
<1>8. CASE Tail(queue[1]) = <<>>
  <2>1. queue' = Tail(queue)
    BY <1>8 DEF Execute
  <2>2. Len(queue') = Len(queue) - 1 /\ \A i \in 1 .. Len(queue') : queue'[i] = queue[i + 1]
    BY <1>1, <2>1
  <2>3. ASSUME NEW i \in 1 .. Len(queue') PROVE Single(queue'[i]) \/ Whole(queue'[i])
    <3>1. i + 1 \in 2 .. Len(queue) /\ queue'[i] = queue[i + 1]
      BY <1>1, <2>2
    <3> QED BY <1>5, <3>1
  <2>4. Len(queue') >= 1 => 1 \in 1 .. Len(queue')
    BY <1>1, <2>2
  <2>5. \A i \in 2 .. Len(queue') : i \in 1 .. Len(queue')
    BY <1>1, <2>2
  <2> QED BY <1>4, <1>6, <1>7, <2>3, <2>4, <2>5, WholeStarts
<1>9. CASE Tail(queue[1]) # <<>>
  <2>1. queue' = [queue EXCEPT ![1] = Tail(queue[1])]
    BY <1>9 DEF Execute
  <2>2. Len(queue') = Len(queue) /\ queue'[1] = Tail(queue[1])
        /\ \A i \in 2 .. Len(queue) : queue'[i] = queue[i]
    BY <1>1, <2>1
  <2> QED BY <1>4, <1>5, <1>6, <1>7, <1>9, <2>2
<1> QED BY <1>8, <1>9

LEMMA SubmissionsAreWhole ==
  /\ \A u \in Uploads : u[1] # "grad" => Single(UploadOf(u))
  /\ \A p \in Pipes : Size(p[1]) = Size(p[2]) => Single(PipeOf(p))
  /\ \A h \in Hosts : \A b \in Downloads : Single(DownloadOf(h, b))
  /\ \A h \in Hosts : \A bt \in Batches[h] : Whole(BatchOf(bt))
<1>1. ASSUME NEW u \in Uploads, u[1] # "grad" PROVE Single(UploadOf(u))
  BY <1>1 DEF Single, UploadOf, Write, Command
<1>2. ASSUME NEW p \in Pipes, Size(p[1]) = Size(p[2]) PROVE Single(PipeOf(p))
  <2>1. p[2] = "grad" => p[1] = "grad"
    BY <1>2 DEF Size
  <2>2. PipeOf(p)[1] = Copy(p[2], p[1]) /\ Len(PipeOf(p)) = 1
    BY DEF PipeOf
  <2>3. Copy(p[2], p[1]).dst = p[2] /\ Copy(p[2], p[1]).kind = "copy"
        /\ Copy(p[2], p[1]).src[1] = p[1]
    BY DEF Copy, Command
  <2> QED BY <2>1, <2>2, <2>3 DEF Single
<1>3. ASSUME NEW h \in Hosts, NEW b \in Downloads PROVE Single(DownloadOf(h, b))
  <2>1. h # "grad"
    BY CommandsAssumption DEF Buffers
  <2>2. DownloadOf(h, b)[1] = Copy(h, b) /\ Len(DownloadOf(h, b)) = 1
    BY DEF DownloadOf
  <2>3. Copy(h, b).dst = h
    BY DEF Copy, Command
  <2> QED BY <2>1, <2>2, <2>3 DEF Single
<1>4. ASSUME NEW h \in Hosts, NEW bt \in Batches[h] PROVE Whole(BatchOf(bt))
  <2>1. bt \in Seq(Dispatches) /\ Ordered(bt)
    BY CommandsAssumption
  <2>2. /\ Len(bt) \in Nat /\ DOMAIN bt = 1 .. Len(bt)
        /\ \A i \in 1 .. Len(bt) : bt[i] \in Dispatches
    BY <2>1
  <2>3. BatchOf(bt) = [i \in 1 .. Len(bt) |-> Kernel(bt[i])] /\ Len(BatchOf(bt)) = Len(bt)
    BY <2>2 DEF BatchOf
  <2>4. \A i \in 1 .. Len(bt) : BatchOf(bt)[i] = Kernel(bt[i])
    BY <2>3
  <2>5. \A d \in Dispatches : Kernel(d) \in {Forward, Loss, Backward}
                              /\ (Kernel(d) = Backward => d = "dispatch_backward")
    BY KernelsDiffer DEF Dispatches, Forward, Loss, Backward
  <2>6. Program(BatchOf(bt))
    BY <2>2, <2>3, <2>4, <2>5 DEF Program
  <2>7. ASSUME NEW i \in 1 .. Len(bt), BatchOf(bt)[i] = Backward
        PROVE  \E l \in 1 .. i - 1 : BatchOf(bt)[l] = Loss
                 /\ \E f \in 1 .. l - 1 : BatchOf(bt)[f] = Forward
    <3>1. bt[i] = "dispatch_backward"
      BY <2>2, <2>4, <2>5, <2>7
    <3>2. PICK l \in 1 .. i - 1 : bt[l] = "launch_loss"
                                  /\ \E f \in 1 .. l - 1 : bt[f] = "dispatch_forward"
      BY <2>1, <2>2, <3>1 DEF Ordered
    <3>3. PICK f \in 1 .. l - 1 : bt[f] = "dispatch_forward"
      BY <3>2
    <3>4. l \in 1 .. Len(bt) /\ f \in 1 .. Len(bt)
      BY <2>2
    <3>5. BatchOf(bt)[l] = Loss /\ BatchOf(bt)[f] = Forward
      BY <2>4, <3>2, <3>3, <3>4 DEF Loss, Forward
    <3> QED BY <3>5
  <2> QED BY <2>3, <2>6, <2>7 DEF Whole
<1> QED BY <1>1, <1>2, <1>3, <1>4

LEMMA GradInvStep ==
  ASSUME \A u \in Uploads : u[1] = "grad" => Len(u[2]) # Size("grad")
  PROVE  IndInv /\ RefInv /\ GradInv /\ [Next]_vars => GradInv'
<1> SUFFICES ASSUME IndInv, RefInv, GradInv, [Next]_vars PROVE GradInv'
  OBVIOUS
<1>1. CASE Execute
  BY <1>1, ExecutedGradInv
<1>2. ASSUME Quiet PROVE GradInv'
  BY <1>2 DEF Quiet, GradInv, GradientsBelongToOneForward, Single, Started, Whole, Program,
              InHand, Agree
<1>3. ASSUME NEW h \in Hosts, HostNext(h) PROVE GradInv'
  <2>1. ASSUME NEW u \in Uploads, upload(h, u[1], u[2]) PROVE GradInv'
    <3>1. u = <<u[1], u[2]>>
      BY CommandsAssumption
    <3>2. Enqueue(h, UploadOf(u)) /\ Len(u[2]) = Size(u[1])
      BY <2>1, <3>1 DEF upload
    <3>3. u[1] # "grad"
      BY <3>2
    <3> QED BY <3>2, <3>3, UploadsType, SubmissionsAreWhole, EnqueuedGradInv
  <2>2. ASSUME NEW p \in Pipes, pipe(h, p[1], p[2]) PROVE GradInv'
    <3>1. p = <<p[1], p[2]>>
      BY CommandsAssumption
    <3>2. Enqueue(h, PipeOf(p)) /\ Size(p[1]) = Size(p[2])
      BY <2>2, <3>1 DEF pipe
    <3> QED BY <3>2, PipesType, SubmissionsAreWhole, EnqueuedGradInv
  <2>3. CASE submit(h)
    <3>1. Enqueue(h, BatchOf(batch[h])) /\ batch[h] \in Batches[h]
      BY <2>3 DEF submit
    <3> QED BY <3>1, BatchesType, SubmissionsAreWhole, EnqueuedGradInv
  <2>4. ASSUME NEW b \in Downloads, download(h, b) PROVE GradInv'
    <3>1. Enqueue(h, DownloadOf(h, b))
      BY <2>4 DEF download
    <3> QED BY <3>1, DownloadsType, SubmissionsAreWhole, EnqueuedGradInv
  <2>5. ASSUME NEW d \in Dispatches, record(h, d) PROVE Quiet
    BY <2>5 DEF record, Quiet
  <2>6. sync(h) \/ poll(h) => Quiet
    BY DEF sync, poll, Collect, Quiet
  <2>7. Step(h) => Quiet
    BY DEF Step, map_async, Wait, Collect, Polled, recv, Return, CallBack, Quiet
  <2> QED BY <1>2, <1>3, <2>1, <2>2, <2>3, <2>4, <2>5, <2>6, <2>7 DEF HostNext
<1>4. Lose \/ UNCHANGED vars => Quiet
  BY DEF Lose, vars, Quiet
<1> QED BY <1>1, <1>2, <1>3, <1>4 DEF Next

(***************************************************************************)
(* Whatever the threads upload, pipe and dispatch meanwhile, all of a       *)
(* gradient that the device has computed was computed from the same forward *)
(* pass: for any number of threads and any batches in which a backward      *)
(* comes after a forward and a loss.  The program does not write gradients  *)
(* itself: an upload into them has another length and is refused.           *)
(***************************************************************************)
THEOREM OneForward ==
  ASSUME \A u \in Uploads : u[1] = "grad" => Len(u[2]) # Size("grad")
  PROVE  Spec => []GradientsBelongToOneForward
<1>1. Init => IndInv /\ RefInv /\ GradInv
  BY IndInvInit, RefInvInitially, GradInvInitially
<1>2. IndInv /\ RefInv /\ GradInv /\ [Next]_vars => (IndInv /\ RefInv /\ GradInv)'
  BY IndInvStep, RefInvStep, GradInvStep
<1>3. GradInv => GradientsBelongToOneForward
  BY DEF GradInv
<1> QED BY <1>1, <1>2, <1>3, PTL DEF Spec

=============================================================================
