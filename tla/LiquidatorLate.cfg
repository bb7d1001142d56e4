SPECIFICATION FairSpec
CONSTANTS
  r1 = r1
  None = None
  Requests <- MCRequests
  Amount = 1
  MaxLiq = 1
  MaxQueued = 2
  MaxFaults = 0
CHECK_DEADLOCK FALSE
PROPERTY
  ReadyIsShared
