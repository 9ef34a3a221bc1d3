CONSTANTS
  MaxCalls = 3
  Hosts <- MCHosts
  Uploads <- MCUploads
  Pipes <- MCPipes
  Downloads <- MCDownloads
  Batches <- MCBatches
  CpuLength <- MCCpuLength
SPECIFICATION FairSpec
INVARIANTS
  HostReadsFinishedCopies
  GradientsBelongToOneForward
PROPERTIES
  ImplementsSerialDevice
  CallsReturn
CHECK_DEADLOCK FALSE
