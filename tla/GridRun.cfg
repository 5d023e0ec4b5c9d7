SPECIFICATION Spec
CONSTANTS
  MaxPrice = 3
  FullSize = 2
  HalfWidth = 1
  InitialMid = 0
  Funds <- Short
  Histories = {FALSE}
  Configs <- Faultless
  MinFillPercent = 50
  MaxAttempts = 1
  MaxFailures = 1
  MaxStarts = 1
INVARIANTS
  TypeOK
  FundingFitsGrid
  ExtensionReachesPrice
PROPERTIES
  GeometryNeverMoves
