SPECIFICATION Spec
CONSTANTS
  t1 = t1
  t2 = t2
  u1 = u1
  NoTx = NoTx
  User <- OneUser
  Tx <- TwoTx
  To <- ToUser
  Currency <- FirstUSDT
  Faults = TRUE
  RequiredConf = 2
  MaxConf = 4
  MaxBlocksPerPoll = 2
  BatchThreshold = 1
  MaxBlock = 3
  MaxRestarts = 1
INVARIANTS TypeOK AtMostOnce StatusTellsMoney CallAgreesWithRow ProgressCovered CacheSound
PROPERTIES RecordsMoveForward ImplementsLedger CacheNeverForgets
