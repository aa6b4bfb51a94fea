SPECIFICATION Spec
CONSTANTS
  Empty = Empty
  NoOwner = NoOwner
  Key <- KeyNames
  Fingerprint <- PrintNames
  md5_fingerprint <- PrintOf
  BitXor <- MCXor
  jenkins_hash <- HashOf
  TableSize = 4
  NUM_ITEMS_PER_ENTRY = 1
  NUM_MAX_KICKS = 2
  Thread <- Threads
  Calls <- AnyCall
  MaxCalls = 2
  InitTable <- CrowdedTable
INVARIANTS
  Exclusive
  IInv
PROPERTIES
  BagButForFailures
  CallsReturn
