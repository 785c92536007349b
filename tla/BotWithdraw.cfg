SPECIFICATION BotSpec
CONSTANTS
  u1 = u1
  q1 = q1
  a1 = a1
  p1 = p1
  p2 = p2
  k1 = k1
  k2 = k2
  m1 = m1
  m2 = m2
  t1 = t1
  t2 = t2
  None = None
  Key <- MCKey
  Task = {t1, t2}
  Steady = FALSE
  Once = TRUE
  Pin = {k1, k2}
  PinLength = 1
  Paged = {"withdraw", "invest", "request", "remark", "shop"}
  FreeLimit <- Limits
  User = {u1}
  Amount = {2}
  Currency = {"USDT", "TRX"}
  MinAmount <- Least
  Request <- LargeRequest
  Address = {a1}
  WithdrawAmount = {2}
  WithdrawCurrency = {"USDT"}
  Direction <- OneDirection
  ExchangeAmount = {2}
  MinExchange <- Least
  InvestAmount = {2}
  NewLimit = {2}
  LimitCurrency = {"USDT", "TRX"}
  PacketCurrency = {"USDT"}
  PacketAmount = {2}
  PacketCount = {1}
  Packet = {p1}
  Shop = {m1, m2}
  Use <- MCWithdraw
PROPERTY WithdrawalWaitsForPIN
SYMMETRY Symmetry
