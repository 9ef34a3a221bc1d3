CONSTANT
  Graphs <- ForwardGraphs
SPECIFICATION PassSpec
INVARIANTS
  LoweringSucceeds
  SplitValuesAreStored
  ChainIsForwardList
  EliminationIsSound
  EveryKeptValueIsComputed
  ExpressionsStoreBeforeLoading
  InputsInOrderAreBound
PROPERTIES
  PassTerminates
CHECK_DEADLOCK FALSE
