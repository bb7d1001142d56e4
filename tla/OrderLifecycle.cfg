SPECIFICATION Spec
CONSTANTS
  l = l
  s = s
  b = b
  m = m
  c1 = c1
  c2 = c2
  None = None
  Matcher = Matcher
  Orders <- MCOrders
  Side <- MCSide
  Exec <- MCExec
  Amount <- MCAmount
  Pair <- MCPair
  System <- MCSystem
  Requests <- TwoRequests
  BatchRequests = {}
SYMMETRY RequestSymmetry
INVARIANTS
  TypeOK
  StatusAgreesWithMatched
  OcoExclusive
  MatchedEqualsTraded
  TradeNeverDeadlocks
  RoundReadsCurrent
PROPERTIES
  ReopensOnlyByActivation
