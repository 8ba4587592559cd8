CONSTANTS
  Size = 4
  RegNum = 2
  IdxNum = 3
  Programs <- SmallPrograms
  Memories <- OneMemory
SPECIFICATION FairSpec
INVARIANTS
  TypeOK
  InFlight
  CacheIsMemory
PROPERTIES
  RefinesInOrder
  Progress
