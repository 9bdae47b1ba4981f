SPECIFICATION FairSpec
CHECK_DEADLOCK FALSE
CONSTANTS
  Parameters <- Three
  WorkerCount = 2
  ReportOf <- Reports
  Failing = {"fetch", "create", "run", "capture"}
  Nobody = Nobody
  MaxCrashes = 1
INVARIANTS
  CaptureIsExclusive
  
  
  FreshIsWhole
PROPERTIES
  Returns
