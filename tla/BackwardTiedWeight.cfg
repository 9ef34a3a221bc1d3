CONSTANT
  Graphs <- TiedWeight
SPECIFICATION PassSpec
PROPERTIES
  PassTerminates
CHECK_DEADLOCK FALSE
