SPECIFICATION SpecR
CONSTANTS
  Rsv = {1, 2, 3, 4, 5, 6, 7}
  Format <- MCFormat
  HybridRsv = FALSE
  MetaPgs = 2
  PgsPerPCB = 6
  Tables = {"U"}
  Remaps = {"U"}
  TornWrites = FALSE
  MaxBMFs = 3
  MaxVer = 4
  MaxFail = 2
  MaxOff = 1
INVARIANTS RestRestores LiveBlocksAllocated GivesUpWhole
CHECK_DEADLOCK FALSE
