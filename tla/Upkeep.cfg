SPECIFICATION UpkeepFairSpec
CONSTANTS
  k1 = k1
  k2 = k2
  n1 = n1
  n2 = n2
  x1 = x1
  x2 = x2
  p1 = p1
  c1 = c1
  c2 = c2
  None = None
  NoRate = NoRate
  Pin = {k1, k2}
  Name = {n1, n2}
  Text = {x1, x2}
  Ip = {p1}
  Fee = {0, 1}
  Call = {c1, c2}
  MaxFail = 2
  MaxEntries = 3
  MaxVersion = 2
  Faults = TRUE
  Price = {1, 2}
  Spread = {0, 1}
  Default = 1
  Quoter = {c1, c2}
  MaxRequests = 2
  MaxCount = 4
  Use <- MCUse
INVARIANTS UpkeepTypeOK KeptUnlessShaken
PROPERTIES TimeHeals
CHECK_DEADLOCK FALSE
