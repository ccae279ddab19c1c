SPECIFICATION LiveSpec
CONSTANTS
  QueueSize = 4
  MaxCaptures = 4
  AllocFails = TRUE
  OtherFormats = TRUE
INVARIANTS ReadStable
PROPERTIES OrderKept SurfaceReturns ShutdownCompletes
