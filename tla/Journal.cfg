SPECIFICATION SpecD
CONSTANTS
  c1 = c1  c2 = c2  c3 = c3
  s1 = s1  s2 = s2  s3 = s3
  f1 = f1  f2 = f2
  Log = Log
  FREE = FREE
  TAIL = TAIL
  None = None
  Cluster = {c1, c2, c3}
  Slot = {s1, s2, s3}
  File = {f1, f2}
  PreAlloc = 2
  MaxChunks = 1
  MaxRecords = 2
SYMMETRY Symmetry
INVARIANTS
  TypeOK
  RecoversCommitted
  RecoversSound
  ChainsAgree
  SegmentsHang
  StartNotCorrupted
PROPERTIES
  ImplementsRfsFiles
