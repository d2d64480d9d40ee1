SPECIFICATION FairSpec
CONSTANTS
  e1 = e1
  e2 = e2
  t1 = t1
  Engines = {e1, e2}
  Tools = {t1}
  Nobody = Nobody
  LeaseTTL = 4
  LeaseRenew = 1
  ToolTTL = 4
  ToolRenew = 1
  MaxCall = 1
  MaxDerive = 0
  MaxTurn = 1
  Skew <- MCSkew
  MaxSkew = 1
  MaxGen = 1
  Events = {"crash", "fail"}
INVARIANTS
  OneWriter
  NoForeignSpend
PROPERTIES
  LeaderInTheEnd
