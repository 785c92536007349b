SPECIFICATION WSpec
CONSTANTS
  w1 = w1
  w2 = w2
  w3 = w3
  a1 = a1
  a2 = a2
  NoW = NoW
  W <- FirstW
  Amount <- Amounts
  Fee = 1
  InitialBalance = 9
  DailyMax = 9
  AutoThreshold = 4
  SendThreshold = 1
  Admin <- TwoAdmins
  Faulty = {FALSE}
PROPERTIES OnlyOpenIsCompleted
CHECK_DEADLOCK FALSE
