CONSTANTS
  Flags = {"DEAD_CODE", "MUL_ADD", "DIV_CONST", "CONST_FOLD", "IDENTITY"}
  Passes = 2
  Inputs <- MCInputs
  FlagSets <- MCFlagSets
  Kernels <- MCKernels
SPECIFICATION Spec
INVARIANTS
  ResultsArePreserved
  KernelsComputeTheirOperation
CHECK_DEADLOCK FALSE
