SPECIFICATION Spec
CONSTANTS
  User = {1, 2}
  Rsv = {11, 12, 13}
  REF0 = 13
  Tight = {}
  NoSbn = 99
  HybridRsv = TRUE
  MaxBMF = 6
  MaxItem = 3
  Partial = 1
  Opens = {"partial", "all"}
  MaxDisturb = 3
  MaxEraseFail = 2
  MaxProgFail = 0
  MaxOff = 1
INVARIANTS TypeOK DataSafe AtRestReadable ERLCountMatches ListedOnce
CHECK_DEADLOCK FALSE
