SPECIFICATION LiveTapSpec
CONSTANTS
  RingPairs = 3
  IndexSpace = 6
  Chunk = 2
  MaxBlock = 2
  MaxPairs = 9
  None = None
  Game = Game
  Tap = Tap
INVARIANTS NoOverlap GameHeard
PROPERTIES ImplementsFifo TapComes
CHECK_DEADLOCK FALSE
