SPECIFICATION Spec
CHECK_DEADLOCK FALSE
CONSTANTS
  Price = {10, 20}
  MinQuantity = 2
  MaxQuantity = 60
  StepSize = 2
  PairOptions = 2
  Leverage = 2
  Funds = 50
  MaxOrders = 2
  Strategy = {"emacross", "turtle", "ocosell", "trailing", "scheduled", "rl", "own"}
  MinTrade = 10
  OCOAmount = 40
  Conditions <- FewConditions
  ScheduledSize = 2
  Target <- FewTargets
  MaxCandles = 2
  MaxStop = 60
  Amounts = {20}
  Percents = {100}
  MaxCommands = 1
INVARIANTS
  
  ReadyIsConfigured
  ScheduledOnce
  StopFollows
PROPERTY RefusalsExplained
