SPECIFICATION FairSpec
CONSTANTS
  Cells = {c1, c2}
  MaxGen = 2
  MaxLag = 1
  WordSize = 8
  Events = {"halt", "repair", "funds", "start"}
CHECK_DEADLOCK FALSE
PROPERTIES
  RingMoves
  StarvedRecovers
