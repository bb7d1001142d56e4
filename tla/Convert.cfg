SPECIFICATION FairSpec
CONSTANTS
  Calls = {c1, c2}
  Quotes = {q1, q2}
  Batches = {b1, b2}
  Records = {s1, s2}
  MaxBatch = 2
  MaxRetries = 2
  Funds = 2
  Scenarios <- MCScenarios
  MaxFaults = 1
  None = None
INVARIANTS TypeOK SucceededIffMoved BackedByConversion ConvertedOnce
PROPERTIES NothingStaysOpen
CHECK_DEADLOCK FALSE
