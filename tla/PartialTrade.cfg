SPECIFICATION Spec
CONSTANTS
  l = l
  s = s
  b = b
  m = m
  c1 = c1
  c2 = c2
  None = None
  Matcher = Matcher
  Orders <- OcoOrders
  Side <- OcoSide
  Exec <- OcoExec
  Amount <- OcoAmount
  Pair <- OcoPair
  System = {}
  Requests <- OneRequest
  BatchRequests <- OneRequest
INVARIANTS
  MatchedEqualsTraded
