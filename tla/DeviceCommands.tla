--------------------------- MODULE DeviceCommands ---------------------------
(***************************************************************************)
(* What the host puts into the queue of the device.  A command writes one   *)
(* buffer: data, a copy of another buffer, or what a kernel computes from   *)
(* the buffers it reads; a submission is a sequence of commands.  The       *)
(* contents of a buffer are a sequence, as long as the buffer; a kernel     *)
(* stores the values it has read, in the order of its buffers.              *)
(***************************************************************************)
EXTENDS Naturals, SequencesExt

CONSTANTS Hosts,      \* the threads of the program that share the context
          Uploads,    \* the calls of upload: <<buffer, data>>
          Pipes,      \* the calls of pipe: <<source, destination>>
          Downloads,  \* the buffers that are downloaded
          Batches,    \* of each host, the batches it records: the dispatches,
                      \* in their order
          CpuLength   \* the length of the slice a host downloads into

\* forward_out, seed and a tensor of gradients, and one input.
Buffers == {"input", "forward_out", "seed", "grad"}
Size(b) == IF b = "grad" THEN 3 ELSE 1
Zeros(n) == [i \in 1 .. n |-> 0]

Dispatches == {"dispatch_forward", "launch_loss", "dispatch_backward"}

\* A gradient is computed from what forward and loss have computed before.
Ordered(batch) ==
  \A i \in DOMAIN batch : batch[i] = "dispatch_backward" =>
    \E l \in 1 .. i - 1 : batch[l] = "launch_loss"
                          /\ \E f \in 1 .. l - 1 : batch[f] = "dispatch_forward"

ASSUME CommandsAssumption ==
  /\ Hosts \cap Buffers = {}
  /\ Uploads \subseteq Buffers \X Seq(Nat)
  /\ Pipes \subseteq Buffers \X Buffers /\ Downloads \subseteq Buffers
  /\ DOMAIN Batches = Hosts
  /\ \A h \in Hosts : \A batch \in Batches[h] :
       batch \in Seq(Dispatches) \ {<<>>} /\ Ordered(batch)

Command(kind, dst, src, data) == [kind |-> kind, dst |-> dst, src |-> src, data |-> data]
Write(dst, data) == Command("write", dst, <<>>, data)
Copy(dst, src) == Command("copy", dst, <<src>>, <<>>)
Compute(dst, src) == Command("compute", dst, src, <<>>)

\* Slip: the bindings of the loss kernel in another order.
KernelLossSwapped(dispatch) ==
  CASE dispatch = "dispatch_forward" -> Compute("forward_out", <<"input">>)
    [] dispatch = "launch_loss" -> Compute("forward_out", <<"seed">>)
    [] dispatch = "dispatch_backward" -> Compute("grad", <<"seed", "forward_out", "input">>)

\* The kernels of each dispatch: what they write and what they read.
Kernel(dispatch) ==
  CASE dispatch = "dispatch_forward" -> Compute("forward_out", <<"input">>)
    [] dispatch = "launch_loss" -> Compute("seed", <<"forward_out">>)
    [] dispatch = "dispatch_backward" -> Compute("grad", <<"seed", "forward_out", "input">>)

UploadOf(call) == <<Write(call[1], call[2])>>
PipeOf(call) == <<Copy(call[2], call[1])>>
DownloadOf(host, b) == <<Copy(host, b)>>
BatchOf(batch) == [i \in DOMAIN batch |-> Kernel(batch[i])]

\* Calls with lengths that do not agree return an error and submit nothing.
Accepted ==
  {UploadOf(u) : u \in {u \in Uploads : Len(u[2]) = Size(u[1])}}
  \cup {PipeOf(p) : p \in {p \in Pipes : Size(p[1]) = Size(p[2])}}
  \cup {BatchOf(batch) : batch \in UNION Range(Batches)}

FitsCpu(host, b) == Size(b) <= CpuLength[host]

\* The device executes a command.
Do(memory, c) ==
  [memory EXCEPT ![c.dst] =
     CASE c.kind = "write" -> c.data
       [] c.kind = "copy" -> memory[c.src[1]]
       [] c.kind = "compute" -> [i \in DOMAIN c.src |-> memory[c.src[i]][1]]]

DoAll(memory, commands) ==
  LET after[n \in 0 .. Len(commands)] ==
        IF n = 0 THEN memory ELSE Do(after[n - 1], commands[n])
  IN after[Len(commands)]

\* And what is in the queue.
DrainAll(memory, submissions) ==
  LET after[n \in 0 .. Len(submissions)] ==
        IF n = 0 THEN memory ELSE DoAll(after[n - 1], submissions[n])
  IN after[Len(submissions)]

\* A download replaces the beginning of the slice it is given.
Delivered(slice, data) == data \o SubSeq(slice, Len(data) + 1, Len(slice))
=============================================================================
