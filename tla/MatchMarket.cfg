SPECIFICATION Spec
CONSTANTS
  s1 = s1
  s2 = s2
  b1 = b1
  b2 = b2
  seller = seller
  buyer = buyer
  bot = bot
  None = None
  Orders = {s1, s2, b1, b2}
  Users = {seller, buyer, bot}
  Owner <- BotOwner
  Side <- MCSide
  MarketOrders = {b1}
  Bots = {bot}
  Prices = {1, 2}
  Amounts = {1}
  Funds <- MCFunds
  MaxTrades = 1
  MaxHold = 0
CHECK_DEADLOCK FALSE
INVARIANTS
  TradesHonourOrders
  NoTradeThrough
  AllMatchingsExecuted
