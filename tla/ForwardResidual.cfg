CONSTANT
  Graphs <- SharedValues
SPECIFICATION PassSpec
INVARIANTS
  StoredBeforeLoaded
CHECK_DEADLOCK FALSE
