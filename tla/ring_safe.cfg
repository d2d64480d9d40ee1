SPECIFICATION Spec
CONSTANTS
  Cells = {c1, c2}
  MaxGen = 3
  MaxLag = 2
  WordSize = 8
  Events = {"halt", "repair", "lose", "local", "play", "pause", "step"}
CHECK_DEADLOCK FALSE
INVARIANTS
  LagBounded
