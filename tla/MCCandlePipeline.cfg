SPECIFICATION FairSpec
CHECK_DEADLOCK FALSE
CONSTANTS
  A = A
  B = B
  Pair <- TwoPairs
  Rank <- RankAB
  Markets <- ThreeMarkets
INVARIANTS
  NothingLostOrTwice
  InOrder
  Backlog
PROPERTIES
  PopsTheLeast
  BacktestReturns
  ProcessedUnlessEarly
