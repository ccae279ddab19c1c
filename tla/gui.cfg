SPECIFICATION LiveSpec
CONSTANTS
  MaxSessions = 2
  MaxFrames = 2
INVARIANTS NothingLeftOver InputOfSession
PROPERTIES SessionsApart StopReturns EndNoticed NewestShown
