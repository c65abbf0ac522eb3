SPECIFICATION Spec
CONSTANTS
  N = 4
  MaxGroup = 2
  MaxRecords = 3
  MaxSeq = 13
INVARIANTS
  TypeOK
  SearchFindsNewest
  WalkReturnsOpen
  PositionFollows
CHECK_DEADLOCK FALSE
