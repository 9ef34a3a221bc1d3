---------------------------- MODULE DeviceRuntime ----------------------------
(***************************************************************************)
(* The runtime: threads of the host that share one context record batches,  *)
(* upload, pipe, download, wait and poll; the device executes what has been *)
(* submitted at its own pace.  Queue, device and mapping are WGPU's, as the *)
(* code uses them: submissions are executed in their order, a dispatch sees *)
(* what earlier ones wrote, a poll collects the callbacks of the mappings   *)
(* that are finished, whoever asked for them, and then calls them, and when *)
(* the device is lost waits end and mappings fail.                          *)
(***************************************************************************)
EXTENDS DeviceCommands

CONSTANT MaxCalls  \* how many calls the hosts make

VARIABLES contents,  \* what the buffers hold, staging buffers included: a
                     \* host's staging buffer goes by the name of the host
          queue,     \* the submissions that are not finished
          finished,  \* how many are
          pc,        \* what each host does next
          batch,     \* the dispatches each host has recorded
          index,     \* the index of the last submission of each host
          callback,  \* of each host: the callback of its mapping
          mapped,    \* whether its staging buffer has been mapped
          taken,     \* the callbacks each host has collected and not called
          slice,     \* what each host downloads into
          lost,      \* whether the device has been lost
          calls      \* how many calls have been made

hostVars == <<batch, callback, mapped, taken, slice>>
vars == <<contents, queue, finished, pc, index, lost, calls, hostVars>>

Submissions == finished + Len(queue)

Init ==
  /\ contents = [b \in Buffers \cup Hosts |-> IF b \in Buffers THEN Zeros(Size(b)) ELSE <<>>]
  /\ queue = <<>> /\ finished = 0
  /\ pc = [h \in Hosts |-> "idle"]
  /\ batch = [h \in Hosts |-> <<>>]
  /\ index = [h \in Hosts |-> 0]
  /\ callback = [h \in Hosts |-> "none"]
  /\ mapped = [h \in Hosts |-> FALSE]
  /\ taken = [h \in Hosts |-> {}]
  /\ slice = [h \in Hosts |-> Zeros(CpuLength[h])]
  /\ lost = FALSE /\ calls = 0

Goto(h, label) == pc' = [pc EXCEPT ![h] = label]

\* Slip: the index of the submission before.
EnqueueBefore(h, commands) ==
  /\ queue' = Append(queue, commands)
  /\ index' = [index EXCEPT ![h] = Submissions]
  /\ UNCHANGED <<contents, finished, lost>>

Call(h) == pc[h] = "idle" /\ calls < MaxCalls /\ calls' = calls + 1

Enqueue(h, commands) ==
  /\ queue' = Append(queue, commands)
  /\ index' = [index EXCEPT ![h] = Submissions + 1]
  /\ UNCHANGED <<contents, finished, lost>>

----------------------------------------------------------------------------
(* Calls that submit something and return.                                  *)

upload(h, b, data) ==
  /\ Call(h) /\ Len(data) = Size(b)
  /\ Enqueue(h, UploadOf(<<b, data>>))
  /\ UNCHANGED <<pc, hostVars>>

pipe(h, src, dst) ==
  /\ Call(h) /\ Size(src) = Size(dst)
  /\ Enqueue(h, PipeOf(<<src, dst>>))
  /\ UNCHANGED <<pc, hostVars>>

\* One dispatch is recorded, the next of a batch.
record(h, dispatch) ==
  /\ pc[h] = "idle" /\ calls < MaxCalls
  /\ \E b \in Batches[h] : IsPrefix(Append(batch[h], dispatch), b)
  /\ batch' = [batch EXCEPT ![h] = Append(@, dispatch)]
  /\ UNCHANGED <<contents, queue, finished, pc, index, lost, calls, callback, mapped, taken, slice>>

\* Slip: every dispatch is a submission of its own.
SubmitOneByOne(h) ==
  /\ Call(h) /\ batch[h] # <<>>
  /\ Enqueue(h, BatchOf(<<Head(batch[h])>>))
  /\ batch' = [batch EXCEPT ![h] = Tail(@)]
  /\ UNCHANGED <<pc, callback, mapped, taken, slice>>

submit(h) ==
  /\ Call(h) /\ batch[h] \in Batches[h]
  /\ Enqueue(h, BatchOf(batch[h]))
  /\ batch' = [batch EXCEPT ![h] = <<>>]
  /\ UNCHANGED <<pc, callback, mapped, taken, slice>>

----------------------------------------------------------------------------
(* Waiting and polling.                                                     *)

Done(h) == lost \/ finished >= index[h]

\* The callbacks that a poll may collect now.
Ready == {g \in Hosts : callback[g] = "registered" /\ Done(g)}

Collect(h) ==
  /\ taken' = [taken EXCEPT ![h] = Ready]
  /\ callback' = [g \in Hosts |-> IF g \in Ready THEN "collected" ELSE callback[g]]
  /\ mapped' = [g \in Hosts |-> mapped[g] \/ (g \in Ready /\ finished >= index[g])]
  /\ Goto(h, "call back")
  /\ UNCHANGED <<contents, queue, finished, batch, index, slice, lost>>

poll(h) == Call(h) /\ Collect(h)

sync(h) ==
  /\ Call(h) /\ Goto(h, "wait")
  /\ UNCHANGED <<contents, queue, finished, index, lost, hostVars>>

\* Slip: polls without waiting for the submission.
PollAnyway(h) == pc[h] = "wait" /\ Collect(h) /\ UNCHANGED calls

Wait(h) == pc[h] = "wait" /\ Done(h) /\ Collect(h) /\ UNCHANGED calls

\* One callback is called: it sends, or drops its end of the channel.
CallBack(h, g) ==
  /\ pc[h] = "call back" /\ g \in taken[h]
  /\ taken' = [taken EXCEPT ![h] = @ \ {g}]
  /\ callback' = [callback EXCEPT ![g] = "called"]
  /\ UNCHANGED <<contents, queue, finished, pc, batch, index, mapped, slice, lost, calls>>

\* The poll returns, to download or to the program.
Polled(h) ==
  /\ pc[h] = "call back" /\ taken[h] = {}
  /\ Goto(h, IF callback[h] = "none" THEN "idle" ELSE "receive")
  /\ UNCHANGED <<contents, queue, finished, index, lost, calls, hostVars>>

----------------------------------------------------------------------------
(* download.                                                                *)

download(h, b) ==
  /\ Call(h) /\ FitsCpu(h, b)
  /\ Enqueue(h, DownloadOf(h, b))
  /\ Goto(h, "map")
  /\ UNCHANGED hostVars

map_async(h) ==
  /\ pc[h] = "map"
  /\ callback' = [callback EXCEPT ![h] = "registered"]
  /\ Goto(h, "wait")
  /\ UNCHANGED <<contents, queue, finished, batch, index, mapped, taken, slice, lost, calls>>

Return(h) ==
  /\ pc[h] = "receive"
  /\ slice' = [slice EXCEPT ![h] = IF mapped[h] THEN Delivered(@, contents[h]) ELSE @]
  /\ callback' = [callback EXCEPT ![h] = "none"]
  /\ mapped' = [mapped EXCEPT ![h] = FALSE]
  /\ Goto(h, "idle")
  /\ UNCHANGED <<contents, queue, finished, batch, index, taken, lost, calls>>

recv(h) == callback[h] = "called" /\ Return(h)

----------------------------------------------------------------------------
(* The device.                                                              *)

Execute ==
  /\ ~lost /\ queue # <<>>
  /\ contents' = Do(contents, queue[1][1])
  /\ LET rest == Tail(queue[1])
     IN IF rest = <<>> THEN queue' = Tail(queue) /\ finished' = finished + 1
        ELSE queue' = [queue EXCEPT ![1] = rest] /\ UNCHANGED finished
  /\ UNCHANGED <<pc, index, lost, calls, hostVars>>

Lose ==
  /\ ~lost /\ lost' = TRUE
  /\ UNCHANGED <<contents, queue, finished, pc, index, calls, hostVars>>

----------------------------------------------------------------------------
Step(h) ==
  \/ map_async(h) \/ Wait(h) \/ Polled(h) \/ recv(h)
  \/ \E g \in Hosts : CallBack(h, g)

HostNext(h) ==
  \/ \E u \in Uploads : upload(h, u[1], u[2])
  \/ \E p \in Pipes : pipe(h, p[1], p[2])
  \/ \E d \in Dispatches : record(h, d)
  \/ submit(h) \/ sync(h) \/ poll(h)
  \/ \E b \in Downloads : download(h, b)
  \/ Step(h)

Next == Execute \/ Lose \/ \E h \in Hosts : HostNext(h)

Spec == Init /\ [][Next]_vars

\* The device goes on, and a thread that has begun a call goes on with it.
FairSpec == Spec /\ WF_vars(Execute) /\ \A h \in Hosts : WF_vars(Step(h))

----------------------------------------------------------------------------
Writes(h, commands) == \E j \in DOMAIN commands : commands[j].dst = h

(***************************************************************************)
(* While a host reads what has been downloaded, nothing in the queue is     *)
(* going to write it: it has waited for its own submission, although it     *)
(* may be another thread's poll that collected its callback, and whatever   *)
(* was submitted, or lost, before and after.                                *)
(***************************************************************************)
HostReadsFinishedCopies ==
  \A h \in Hosts : mapped[h] => \A i \in DOMAIN queue : ~Writes(h, queue[i])

\* All that has been submitted, executed.
Completed == DrainAll(contents, queue)

Downloading(h) == callback[h] # "none" \/ pc[h] = "map"

\* What the buffers are going to hold, and what the downloads under way are
\* going to return.
Memory == LET all == Completed IN [b \in Buffers |-> all[b]]
Promise ==
  LET all == Completed IN [h \in Hosts |-> IF Downloading(h) THEN {all[h]} ELSE {}]

Serial == INSTANCE SerialDevice WITH memory <- Memory, promise <- Promise

(***************************************************************************)
(* Whatever the threads do between the steps of a download, and whoever     *)
(* collects its callback, it returns what its buffer held when it was       *)
(* submitted: all earlier submissions done, none of the later ones.  It     *)
(* fails only if the device has been lost.  A batch takes effect as a whole *)
(* when it is submitted, with what has been uploaded until then.            *)
(***************************************************************************)
ImplementsSerialDevice == Serial!Spec

(***************************************************************************)
(* The gradient is computed from the output, the seed and the input of one  *)
(* and the same forward pass, whatever other threads upload or dispatch to  *)
(* the same tensors meanwhile.                                              *)
(***************************************************************************)
GradientsBelongToOneForward ==
  \A i, j \in 1 .. Size("grad") : contents["grad"][i] = contents["grad"][j]

(***************************************************************************)
(* download, and every wait and poll, returns.                              *)
(***************************************************************************)
CallsReturn == \A h \in Hosts : pc[h] # "idle" ~> pc[h] = "idle"
=============================================================================
