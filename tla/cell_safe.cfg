SPECIFICATION Spec
CONSTANTS
  MaxGen = 2
  MaxTx = 3
  TipDepth = 2
  MaxWreckage = 1
  MaxUnseen = 2
  MaxDeep = 0
  WordSize = 8
  MaxRetries = 0
  QueueCap = 1
  Events = {"crash", "refuse", "store", "funds", "local"}
CHECK_DEADLOCK FALSE
INVARIANTS
  NoDoubleSpend
  CrashSafe
  WriteAhead
PROPERTIES
  LiveRowKept
  ImplementsChain
