SPECIFICATION Spec
CONSTANTS
  MaxPrice = 3
  FullSize = 1
  HalfWidth = 1
  InitialMid = 1
  Funds <- Bare
  Histories = {FALSE}
  Configs <- FaultyOrAnotherTier
  MinFillPercent = 50
  MaxAttempts = 1
  MaxFailures = 1
  MaxStarts = 2
INVARIANTS
  LadderInSavedRange
  OffTheBookWhenStopped
  RiskPauseKeepsAssets
PROPERTIES
  GeometryNeverMoves
