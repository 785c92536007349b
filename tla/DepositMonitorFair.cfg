SPECIFICATION FairSpec
CONSTANTS
  t1 = t1
  t2 = t2
  u1 = u1
  NoTx = NoTx
  User <- OneUser
  Tx <- TwoTx
  To <- ToUser
  Currency <- FirstUSDT
  Faults = FALSE
  RequiredConf = 3
  MaxConf = 5
  MaxBlocksPerPoll = 2
  BatchThreshold = 1
  MaxBlock = 5
  MaxRestarts = 1
INVARIANTS VisitedMeansRecorded
PROPERTIES EveryTransferAnswered ConfirmedIsCredited AssignedIsWatched
