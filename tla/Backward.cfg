CONSTANT
  Graphs <- BackwardGraphs
SPECIFICATION PassSpec
INVARIANTS
  DifferentiableGraphsAreLowered
  GradientsAreComplete
  SplitGradientsAreStored
  SegmentIsBackwardList
  StoredBeforeLoaded
  EliminationIsSound
  EveryInputHasItsGradient
  SavedValuesAreKept
  TensorsAreBound
PROPERTIES
  ExpressionsAreScheduled
CHECK_DEADLOCK FALSE
