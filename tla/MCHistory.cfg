SPECIFICATION Spec
CHECK_DEADLOCK FALSE
CONSTANTS
  Interval = 2
  Targets = {2, 4, 6, 8}
  Known = {2, 4, 6}
  Day = 6
  BatchSize = 2
  Now = 15
  Requests <- TwoRequests
  Market <- TestPrices
  Precision = 4096
  Limits = {3, 7}
  Warmups = {1, 2}
INVARIANTS
  
  FeedIsWhole
