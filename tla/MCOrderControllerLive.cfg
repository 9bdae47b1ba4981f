SPECIFICATION FairSpec
CHECK_DEADLOCK FALSE
CONSTANTS
  c1 = c1
  c2 = c2
  user = user
  user2 = user2
  p1 = p1
  p2 = p2
  o1 = o1
  o2 = o2
  o3 = o3
  Free = Free
  Nobody = Nobody
  Client = {c1}
  Commander = {user}
  Poller = {p1, p2}
  Id = {o1}
  FilledAtOnce = {"market"}
  CancelsFilled = FALSE
  Failing = {"query", "create", "update"}
  MaxCrashes = 0
PROPERTIES
  EndIsRecorded
  FillIsHeard
  
