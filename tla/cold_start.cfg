SPECIFICATION FairSpec
CONSTANTS
  Procs = {p1, p2}
  Nobody = Nobody
  FirstFuelCoins = 3
  Denomination = 2
  FanoutPerTx = 2
  RoundFee = 1
  GenesisCost = 3
  Throughput = TRUE
  MaxDeposit = 27
  MaxFaults = 2
CHECK_DEADLOCK FALSE
INVARIANTS
  MintsAccounted
  EnginesRunTheRecord
PROPERTIES
  RecordKept
  ColdStartEnds
