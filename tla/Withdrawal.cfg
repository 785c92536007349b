SPECIFICATION WFairSpec
CONSTANTS
  w1 = w1
  w2 = w2
  w3 = w3
  a1 = a1
  a2 = a2
  NoW = NoW
  W <- ThreeW
  Amount <- Amounts
  Fee = 1
  InitialBalance = 6
  DailyMax = 6
  AutoThreshold = 4
  SendThreshold = 1
  Admin <- OneAdmin
  Faulty = {TRUE, FALSE}
INVARIANTS WTypeOK StatusTellsMoney FrozenIsHeld
PROPERTIES FinalIsFinal AutoIsAnswered
CHECK_DEADLOCK FALSE
