SPECIFICATION HistorySpec
CONSTANTS
  Empty = Empty
  Key <- KeyNames
  Fingerprint <- PrintNames
  md5_fingerprint <- PrintOf
  BitXor <- MCXor
  jenkins_hash <- HashOf
  TableSize = 4
  NUM_ITEMS_PER_ENTRY = 1
  NUM_MAX_KICKS = 2
  NumMutexes = 2
  Thread <- Threads
  Calls <- AnyCall
  MaxCalls = 1
  InitTable <- CrowdedTable
CHECK_DEADLOCK FALSE
INVARIANTS
  MutexesExclude
  IInv
  SearchInv
PROPERTIES
  StayingIsFound
  BagUntilOvertaken
  CallsReturn
