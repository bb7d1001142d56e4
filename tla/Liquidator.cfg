SPECIFICATION FairSpec
CONSTANTS
  r1 = r1
  None = None
  Requests <- MCRequests
  Amount = 2
  MaxLiq = 3
  MaxQueued = 1
  MaxFaults = 1
CHECK_DEADLOCK FALSE
INVARIANTS
  TypeOK
  NeverDoubleSpent
  FilledWasExecuted
  BooksAgree
  InProgressHasWork
PROPERTIES
  RequestsAdvance
