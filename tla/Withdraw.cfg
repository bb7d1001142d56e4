SPECIFICATION FairSpec
CONSTANTS
  r1 = r1
  r2 = r2
  None = None
  Requests <- MCRequests
  Mixes <- MCMixes
  MaxBatch = 2
  Funds = {1, 2}
  MaxCancels = 1
  MaxCrashes = 1
CHECK_DEADLOCK FALSE
INVARIANTS
  TypeOK
  PaidOnceIfCharged
  StatusTellsPayment
  UnpaidIsTracked
PROPERTIES
  VerifiedOnlyFromNew
  RequestsSettle
