SPECIFICATION Spec
CONSTANTS
  NULL = NULL
  Free = Free
  Key <- KeyNames
  Fingerprint <- PrintNames
  md5_fingerprint <- PrintOf
  BitXor <- MCXor
  jenkins_hash <- LoopHash
  TableSize = 4
  NUM_ITEMS_PER_ENTRY = 1
  NUM_MAX_KICKS = 3
  UINT16_MAX = 9
  PointerSpan = 16
  Address <- Addresses5
  address_of <- AddressNumbers
  Thread <- Threads2
  Calls <- Replacement
  MaxCalls = 2
  MaxResets = 0
  InitTable <- LoopTable
  InitHeap <- LoopHeap
INVARIANTS
  NoLostEntry
