SPECIFICATION FairSpec
CONSTANTS
  MaxPrice = 2
  FullSize = 2
  HalfWidth = 1
  InitialMid = 1
  Funds <- Enough
  Histories = {FALSE}
  Configs <- UnfundedQuiet
  MinFillPercent = 50
  MaxAttempts = 1
  MaxFailures = 2
  MaxStarts = 1
PROPERTIES
  Converges
