-------------------------- MODULE MCDeviceRuntime --------------------------
EXTENDS DeviceRuntime

\* One upload is as long as its buffer, one is not; so with the pipes.
MCUploads == {<<"input", <<1>>>>, <<"grad", <<1>>>>}
MCPipes == {<<"forward_out", "input">>, <<"grad", "input">>}
MCDownloads == {"forward_out", "grad"}

\* Thread one trains, thread two evaluates.  One downloads everything into one
\* slice, two only what fits.
MCHosts == {"one", "two"}
MCBatches == [one |-> {<<"dispatch_forward", "launch_loss", "dispatch_backward">>},
              two |-> {<<"dispatch_forward">>}]
MCCpuLength == [one |-> 3, two |-> 1]
=============================================================================
