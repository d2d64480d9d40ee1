SPECIFICATION FairSpec
CONSTANTS
  c1 = c1
  c2 = c2
  Cells = {c1}
  Coin = Coin
  RetainGenerations = 1
  MinConfirmations = 1
  BatchSize = 1
  MaxBatches = 2
  MaxReorg = 1
  MaxTx = 4
  MaxHeight = 4
  MaxFaults = 1
INVARIANTS
  NeededKept
PROPERTIES
  DeadIsPruned
