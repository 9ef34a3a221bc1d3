CONSTANTS
  MaxNodes = 5
  OpsUsed = {"matmul", "mul", "neg"}
  Shapes <- VectorsAndSquares
SPECIFICATION Spec
INVARIANTS
  GraphIsWellFormed
  SortKeepsTheProgram
  IndicatorsSurviveSorting
CHECK_DEADLOCK FALSE
