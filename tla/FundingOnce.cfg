SPECIFICATION Spec
CONSTANTS
  MaxPrice = 4
  FullSize = 1
  HalfWidth = 1
  InitialMid = 2
  Funds <- Covered
  Histories = {FALSE}
  Configs <- Quiet
  MinFillPercent = 50
  MaxAttempts = 2
  MaxFailures = 2
  MaxStarts = 1
INVARIANTS
  FundingBeforeLadder
