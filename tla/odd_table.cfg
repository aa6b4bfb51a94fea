SPECIFICATION Spec
CONSTANTS
  NULL = NULL
  Free = Free
  Key <- KeyNames
  Fingerprint <- PrintNames
  md5_fingerprint <- PrintOf
  BitXor <- MCXor
  jenkins_hash <- OddHash
  TableSize = 3
  NUM_ITEMS_PER_ENTRY = 1
  NUM_MAX_KICKS = 3
  UINT16_MAX = 9
  PointerSpan = 16
  Address <- Addresses5
  address_of <- AddressNumbers
  Thread <- Thread1
  Calls <- OneInserter
  MaxCalls = 1
  MaxResets = 0
  InitTable <- OddTable
  InitHeap <- OddHeap
INVARIANTS
  Placement
