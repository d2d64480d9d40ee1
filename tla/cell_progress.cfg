SPECIFICATION FairSpec
CONSTANTS
  MaxGen = 3
  MaxTx = 4
  TipDepth = 2
  MaxWreckage = 1
  MaxUnseen = 1
  MaxDeep = 2
  WordSize = 8
  MaxRetries = 1
  QueueCap = 1
  Events = {"refuse", "mine", "lose"}
CHECK_DEADLOCK FALSE
INVARIANTS
  UnseenBounded
  ParkedIsHalted
  UnconfirmedBounded
PROPERTIES
  NoSilentStall
