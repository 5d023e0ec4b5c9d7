\* Two markets, four transactions, one restart.
SPECIFICATION MultiSpec
SYMMETRY CallsOfOneMarket
CONSTANTS
  c1 = c1
  c2 = c2
  c3 = c3
  c4 = c4
  m1 = m1
  m2 = m2
  Calls <- MCCalls
  NoCall = NoCall
  InitialSeq = 2
  MaxRestarts = 1
  Markets = {m1, m2}
  MarketOf <- MCMarketOf
  Nothing = Nothing
INVARIANTS
  NeverInItsOwnWay
PROPERTIES
  LaterDecisionWins
