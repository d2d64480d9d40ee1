SPECIFICATION Spec
CONSTANTS
  N = 4
  ByteBits = 2
  Rule = 110
  MaxGen = 2
  Seeds <- MCSeeds
  Faults <- MCFaults
  Victim = 1
  Refusable = {1}
  MaxFailures = 2
INVARIANTS
  CleanMeansRun
  NoFalseAlarm
  CovenantAgrees
CHECK_DEADLOCK FALSE
