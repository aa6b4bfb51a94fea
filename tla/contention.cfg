SPECIFICATION FairHistorySpec
CONSTANTS
  NULL = NULL
  Free = Free
  Key <- KeyNames
  Fingerprint <- PrintNames
  md5_fingerprint <- PrintOf
  BitXor <- MCXor
  jenkins_hash <- TightHash
  TableSize = 4
  NUM_ITEMS_PER_ENTRY = 2
  NUM_MAX_KICKS = 3
  UINT16_MAX = 9
  PointerSpan = 32
  Address <- Addresses9
  address_of <- AddressNumbers
  Thread <- Threads3
  Calls <- Contention
  MaxCalls = 1
  MaxResets = 1
  InitTable <- FullTable
  InitHeap <- FullHeap
INVARIANTS
  NoDangling
  RetiredIsGone
PROPERTIES
  StayingIsFound
  ImplementsAbstract
  CallsReturn
