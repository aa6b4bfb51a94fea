SPECIFICATION ReclaimingSpec
CONSTANTS
  NULL = NULL
  Free = Free
  Key <- KeyNames
  Fingerprint <- PrintNames
  md5_fingerprint <- PrintOf
  BitXor <- MCXor
  jenkins_hash <- RoomyHash
  TableSize = 2
  NUM_ITEMS_PER_ENTRY = 2
  NUM_MAX_KICKS = 3
  UINT16_MAX = 9
  PointerSpan = 16
  Address <- Addresses5
  address_of <- AddressNumbers
  Thread <- Threads2
  tids <- Tids
  Calls <- FindAndRemove
  MaxCalls = 2
  MaxResets = 0
  InitTable <- RoomyTable
  InitHeap <- RoomyHeap
INVARIANT
  NoDangling
