SPECIFICATION Spec
CONSTANTS
  Entry <- SmallEntry
  Tag = {"any", "t"}
  AnyTag = "any"
  Protections = {"writable"}
  DumpPageSize = 1
  Snapshots <- SmallSnapshots
  Searches <- SmallSearches
  OlderFiles <- SmallOlderFiles
  MaxDumps = 1
  MaxSaveErrors = 1
INVARIANTS
  TypeOK
  SelectionIsVisible
  MatchesAreSorted
  DumpIsInsidePool
  SettingsAreKept
PROPERTIES
  JumpSelectsTheHit
