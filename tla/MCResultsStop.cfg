CONSTANTS
  Kinds = {"memory", "sql"}
  MaxRestarts = 0
  Pair = {p1, p2}
  p1 = p1
  p2 = p2
  Setups <- StopSetups
SPECIFICATION Spec
CHECK_DEADLOCK FALSE
INVARIANT StopIsKept
