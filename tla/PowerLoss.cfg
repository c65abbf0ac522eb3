SPECIFICATION SpecR
CONSTANTS
  Rsv = {1, 2, 3, 4}
  Format <- MCFormat
  HybridRsv = TRUE
  MetaPgs = 2
  PgsPerPCB = 6
  Tables = {"U", "L"}
  Remaps = {"U"}
  TornWrites = TRUE
  MaxBMFs = 3
  MaxVer = 3
  MaxFail = 0
  MaxOff = 2
INVARIANTS TypeOK AlwaysMountable RestRestores LiveBlocksAllocated NewestIsUnique ProgramsErasedPages
PROPERTY ImplementsDurableMeta
CHECK_DEADLOCK FALSE
