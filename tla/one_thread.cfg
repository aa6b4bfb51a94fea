SPECIFICATION FairSpec
CONSTANTS
  NULL = NULL
  Free = Free
  Key <- KeyNames
  Fingerprint <- PrintNames
  md5_fingerprint <- PrintOf
  BitXor <- MCXor
  jenkins_hash <- TightHash
  TableSize = 4
  NUM_ITEMS_PER_ENTRY = 2
  NUM_MAX_KICKS = 3
  UINT16_MAX = 9
  PointerSpan = 32
  Address <- Addresses9
  address_of <- AddressNumbers
  Thread <- Thread1
  Calls <- OneThread
  MaxCalls = 4
  MaxResets = 1
  InitTable <- WideTable
  InitHeap <- WideHeap
PROPERTIES
  CallsReturn
  ImplementsAbstract
  InsertFailsWhenFull
