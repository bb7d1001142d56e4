SPECIFICATION FairSpec
CONSTANTS
  Trades = {1, 2}
  Dst <- MCDst
  Inactive <- OneInactive
  Orphans <- FirstOrphan
  BatchSize = 2
  CronBatch = 3
  MaxFaults = 1
CHECK_DEADLOCK FALSE
INVARIANTS
  TypeOK
  CreditedOnce
  RefsExist
  CursorOvertakesNone
PROPERTIES
  ImplementsSettlement
  EventuallySettled
