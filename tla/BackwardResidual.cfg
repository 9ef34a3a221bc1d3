CONSTANT
  Graphs <- Residual
SPECIFICATION PassSpec
INVARIANTS
  LoweringSucceeds
CHECK_DEADLOCK FALSE
