SPECIFICATION RFairSpec
CONSTANTS
  u1 = u1
  u2 = u2
  u3 = u3
  c1 = c1
  c2 = c2
  c3 = c3
  c4 = c4
  k1 = k1
  NoPacket = NoPacket
  User <- ThreeUsers
  Call <- FourCalls
  Claimer <- Claimers
  Closer <- Closers
  Scene <- Scenes
  Cent = 2
  InitialBalance = 9
  Faults = TRUE
INVARIANTS RTypeOK ClaimIsPaid EnoughForTheRest MoneyIsKept
PROPERTIES ClosedStaysClosed ExpiredIsRefunded
