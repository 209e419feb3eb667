CONSTANTS
  Engines <- AllEngines
  Said <- VerdictsOnly
  MaxLines = 2
  PipeCap = 1
SPECIFICATION ReviewSpec
INVARIANT TruncatedDrainIsNoGoodRun
