SPECIFICATION BankFairSpec
CONSTANTS
  u1 = u1
  u2 = u2
  q1 = q1
  i1 = i1
  c1 = c1
  c2 = c2
  None = None
  User = {u1, u2}
  Currency = {"USDT", "TRX"}
  Call = {c1, c2}
  Task = "Task"
  InitialBalance <- Balances
  Amount = {2}
  Rate <- Rates
  Request <- Requests
  Button <- Buttons
  Investment = {i1}
  Adjustment <- Adjustments
  MaxDay = 3
  Use <- MCUse
  Faults = TRUE
INVARIANTS BankTypeOK EarnsAtMostOnceMore ShowsWhatItEarned
PROPERTIES FreshReadsNeverOverdraw MoneyOnlyMoves InterestOncePerDay EverythingEnds
CHECK_DEADLOCK FALSE
