SPECIFICATION HistorySpec
CONSTANTS
  Threads = {t1, t2, t3}
  Allocs = {x1, x2, x3, x4}
  MaxTestAllocations = 2
SYMMETRY Symmetry
INVARIANTS
  TypeOK
  QuotaHolds
  TestPoolOwnership
  OneClientNamesLivePools
