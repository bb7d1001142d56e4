SPECIFICATION Spec
CONSTANTS
  s1 = s1
  s2 = s2
  b1 = b1
  b2 = b2
  seller = seller
  buyer = buyer
  bot = bot
  None = None
  Orders = {s1, s2, b1}
  Users = {seller, buyer}
  Owner <- MCOwner
  Side <- MCSide
  MarketOrders = {}
  Bots = {}
  Prices = {1}
  Amounts = {1, 2}
  Funds <- MCFunds
  MaxTrades = 2
  MaxHold = 1
SYMMETRY SellSymmetry
CHECK_DEADLOCK FALSE
INVARIANTS
  TypeOK
  LedgerBalanced
  NoOverdraft
