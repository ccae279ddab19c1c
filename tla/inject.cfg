SPECIFICATION LiveSpec
CONSTANTS
  Pro = {1}
  Buttons = {a}
  InputTimeout = 1
  PeerTimeout = 1
  Lag = 1
INVARIANTS PrevIsSeen NoStuckButton
PROPERTIES NothingAfterBye SilenceNeutral
