CONSTANTS
  Tile = 2
  LossTile = 2
  LossRow = 4
  None = None
  Launches <- ValidLaunches
SPECIFICATION FairSpec
INVARIANTS
  NoTileRace
  AccessesAreInBounds
  StoredValuesAreRight
  EveryElementIsStored
PROPERTIES
  ElementsAreStoredOnce
  DispatchEnds
CHECK_DEADLOCK FALSE
