SPECIFICATION ToolSpec
CONSTANTS
  MaxGen = 3
  MaxTx = 3
  TipDepth = 3
  MaxWreckage = 1
CHECK_DEADLOCK FALSE
PROPERTIES
  EveryRepairIsProgress
  CascadeUntouched
  AdoptedRowsLink
