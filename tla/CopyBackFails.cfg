SPECIFICATION Spec
CONSTANTS
  User = {1, 2}
  Rsv = {11, 12, 13, 14}
  REF0 = 14
  Tight = {}
  NoSbn = 99
  HybridRsv = TRUE
  MaxBMF = 6
  MaxItem = 2
  Partial = 1
  Opens = {"partial", "all"}
  MaxDisturb = 1
  MaxEraseFail = 0
  MaxProgFail = 1
  MaxOff = 1
INVARIANT DataSafe
CHECK_DEADLOCK FALSE
