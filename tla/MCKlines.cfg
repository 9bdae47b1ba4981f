SPECIFICATION FairSpec
CHECK_DEADLOCK FALSE
CONSTANTS
  bot = bot
  chart = chart
  Consumer = {bot, chart}
  CloseOnly = {chart}
  Warmup = 2
  FirstPeriod = {0, 1, 4}
  LastPeriod = 5
  MaxChanges = 2
  MaxBreaks = 2
INVARIANTS
  EndsAreTold
PROPERTIES
  BrokenIsNoticed
