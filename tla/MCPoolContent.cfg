SPECIFICATION FairSpec
CONSTANTS
  Byte = {"a", "b"}
  Hole = Hole
  PageSize = 3
  AddressSpace = 9
  ChunkSize = 3
  Requests <- SmallRequests
  MaxReadLength = 2
  MaxPoolDumpBytes = 6
  Targets <- SmallTargets
  SnapshotPairs <- SmallPairs
  Fill <- SmallFill
CHECK_DEADLOCK FALSE
INVARIANTS
  TypeOK
  ReportIsExact
  StatsTellHoles
  SavedIsPrefix
  TruncatedIsMarked
  SavedToTheFirstHole
PROPERTIES
  ContentEnds
