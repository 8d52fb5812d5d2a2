CONSTANTS
  PositiveHashes = {0, 1, 5}
  NegativeHashes = {8}
  InitialCapacity = 8
  Shift = 32
  MaxHashEntries = 6
SPECIFICATION HashSpec
PROPERTIES EverySearchEnds
CHECK_DEADLOCK FALSE
