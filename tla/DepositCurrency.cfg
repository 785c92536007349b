SPECIFICATION Spec
CONSTANTS
  t1 = t1
  t2 = t2
  u1 = u1
  NoTx = NoTx
  User <- OneUser
  Tx <- OneTx
  To <- ToUser
  Currency <- AllTRX
  Faults = FALSE
  RequiredConf = 3
  MaxConf = 5
  MaxBlocksPerPoll = 2
  BatchThreshold = 1
  MaxBlock = 5
  MaxRestarts = 0
INVARIANTS CreditedInItsCurrency
