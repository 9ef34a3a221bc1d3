CONSTANTS
  ForwardLength = 5
  SegmentLength = 3
  AnyLength = 2
  KernelLists <- MCKernelLists
SPECIFICATION Spec
INVARIANTS
  TypeOK
  DependenciesFirst
  EachEntryOnce
  ReturnedScheduleIsComplete
  SweepsMakeProgress
PROPERTIES
  Terminates
  ImplementsKernelOrder
CHECK_DEADLOCK FALSE
