CONSTANT
  Graphs <- OneOperation
SPECIFICATION PassSpec
INVARIANTS
  TensorsAreBound
CHECK_DEADLOCK FALSE
