SPECIFICATION FairSpec
CONSTANTS
  User = {1, 2}
  Rsv = {11, 12, 13}
  REF0 = 11
  Tight = {2}
  NoSbn = 99
  HybridRsv = FALSE
  MaxBMF = 2
  MaxItem = 2
  Partial = 1
  Opens = {"skip", "all"}
  MaxDisturb = 1
  MaxEraseFail = 2
  MaxProgFail = 1
  MaxOff = 1
INVARIANT NoSharedBlock
PROPERTY CallsReturn
CHECK_DEADLOCK FALSE
