SPECIFICATION Spec
CONSTANTS
  Half = 3
  MaxPending = 2
  MaxSlices = 2
  MaxFrames = 7
  Reorder = 3
INVARIANTS WindowOrder Intact NewestSurvives
PROPERTIES FateFinal ImplementsLatestWins
