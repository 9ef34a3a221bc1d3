---------------------------- MODULE SerialDevice ----------------------------
(***************************************************************************)
(* What the runtime promises, whoever shares it: calls take effect one      *)
(* after the other in the order they are submitted in, each as a whole, and *)
(* a download returns what its buffer held when it was submitted, or fails, *)
(* which it does only if the device has been lost.                          *)
(***************************************************************************)
EXTENDS DeviceCommands

VARIABLES memory,   \* the contents of the buffers
          promise,  \* what the download of a host is going to return: a set
                    \* of one value, or of none
          slice,    \* what the host downloads into
          lost      \* whether the device has been lost

Init ==
  /\ memory = [b \in Buffers |-> Zeros(Size(b))]
  /\ promise = [h \in Hosts |-> {}]
  /\ slice = [h \in Hosts |-> Zeros(CpuLength[h])]
  /\ lost = FALSE

Submit ==
  /\ \E commands \in Accepted : memory' = DoAll(memory, commands)
  /\ UNCHANGED <<promise, slice, lost>>

Request(h) ==
  /\ promise[h] = {}
  /\ \E b \in Downloads : FitsCpu(h, b) /\ promise' = [promise EXCEPT ![h] = {memory[b]}]
  /\ UNCHANGED <<memory, slice, lost>>

Answer(h) ==
  /\ \E data \in promise[h] : slice' = [slice EXCEPT ![h] = Delivered(@, data)]
  /\ promise' = [promise EXCEPT ![h] = {}]
  /\ UNCHANGED <<memory, lost>>

Fail(h) ==
  /\ lost /\ promise[h] # {}
  /\ promise' = [promise EXCEPT ![h] = {}]
  /\ UNCHANGED <<memory, slice, lost>>

Lose == lost' = TRUE /\ UNCHANGED <<memory, promise, slice>>

Next == Submit \/ Lose \/ \E h \in Hosts : Request(h) \/ Answer(h) \/ Fail(h)

Spec == Init /\ [][Next]_<<memory, promise, slice, lost>>
=============================================================================
