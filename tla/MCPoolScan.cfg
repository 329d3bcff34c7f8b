SPECIFICATION FairSpec
CONSTANTS
  Byte = {"a", "b"}
  Hole = Hole
  PageSize = 4
  AddressSpace = 16
  InitialSize = 1
  MaxSize = 7
  MaxRetries = 3
  HashChunkSize = 2
  SampleMin = 4
  SampleMax = 4
  SampleLimit = 7
  MaxHashed = 11
  MaxDetailPages = 2
  Fill <- SmallFill
  Worlds <- SmallWorlds
  Lists <- SmallLists
  Asks <- SmallAsks
CHECK_DEADLOCK FALSE
INVARIANTS
  TypeOK
  QueryGivesUpForCause
  ScratchIsFreed
  HashCoversWhatItSays
  ChangeIsSeen
  NoFalseChange
  AnnotationIsExact
  DetailsAgree
PROPERTIES
  ScansEnd
