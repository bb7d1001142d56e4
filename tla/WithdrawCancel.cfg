SPECIFICATION Spec
CONSTANTS
  r1 = r1
  r2 = r2
  None = None
  Requests <- MCRequests
  Mixes <- AllSingle
  MaxBatch = 2
  Funds = {1, 2}
  MaxCancels = 1
  MaxCrashes = 0
CHECK_DEADLOCK FALSE
INVARIANT
  ClosedNotCharged
