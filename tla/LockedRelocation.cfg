SPECIFICATION SpecR
CONSTANTS
  Rsv = {1, 2, 3, 4, 5}
  Format <- MCFormat
  HybridRsv = TRUE
  MetaPgs = 2
  PgsPerPCB = 6
  Tables = {"U", "L"}
  Remaps = {}
  TornWrites = FALSE
  MaxBMFs = 3
  MaxVer = 3
  MaxFail = 1
  MaxOff = 1
INVARIANT LiveBlocksAllocated
CHECK_DEADLOCK FALSE
