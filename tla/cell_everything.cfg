SPECIFICATION Spec
CONSTANTS
  MaxGen = 1
  MaxTx = 2
  TipDepth = 2
  MaxWreckage = 1
  MaxUnseen = 1
  MaxDeep = 0
  WordSize = 8
  MaxRetries = 0
  QueueCap = 1
  Events = {"crash", "store", "refuse", "sign", "lose", "reacquire", "auto", "operator", "standby"}
CHECK_DEADLOCK FALSE
INVARIANTS
  TypeOK
  RowsTellTheTruth
PROPERTIES
  LiveRowNotDeleted
