SPECIFICATION Spec
CONSTANTS
  MaxPrice = 4
  FullSize = 1
  HalfWidth = 1
  InitialMid = 2
  Funds <- Covered
  Histories = {FALSE}
  Configs <- StopLossOnly
  MinFillPercent = 50
  MaxAttempts = 2
  MaxFailures = 2
  MaxStarts = 1
INVARIANTS
  StopLossLiquidates
