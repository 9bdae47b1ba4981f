CONSTANTS
  Kinds = {"memory", "sql"}
  MaxRestarts = 1
  Pair = {p1, p2}
  p1 = p1
  p2 = p2
  Setups <- MCSetups
SPECIFICATION Spec
CHECK_DEADLOCK FALSE
INVARIANTS
  Complete
  ProfitIsGain
  
