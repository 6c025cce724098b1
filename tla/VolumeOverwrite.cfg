SPECIFICATION Spec
CONSTANTS
  LastCluster = 7
  PerSector = 3
  Dirs = {root, sub}
  Root = root
  Slots = 3
  FirstSlots = 2
  Names = {test, balls}
  TEST = test
  MaxSize = 2
  MaxWrites = 5
  MaxBoots = 3
PROPERTIES
  OverwriteTakesEffect
CHECK_DEADLOCK FALSE
