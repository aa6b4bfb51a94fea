SPECIFICATION HistorySpec
CONSTANTS
  NULL = NULL
  Free = Free
  Key <- KeyNames
  Fingerprint <- PrintNames
  md5_fingerprint <- PrintOf
  BitXor <- MCXor
  jenkins_hash <- TightHash
  TableSize = 4
  NUM_ITEMS_PER_ENTRY = 1
  NUM_MAX_KICKS = 3
  UINT16_MAX = 9
  PointerSpan = 16
  Address <- Addresses5
  address_of <- AddressNumbers
  Thread <- Threads2
  Calls <- Removal
  MaxCalls = 2
  MaxResets = 0
  InitTable <- TightTable
  InitHeap <- TightHeap
INVARIANTS
  DuplicateHasMover
  LateExitsHarmless
  Placement
  TypeOK
  AbortsAtTheLimit
  NoDangling
  NoLostEntry
  HazardCovers
  IInv
  WordsFaithful
  MoveInv
  SearchInv
  BagInv
PROPERTIES
  BagUntilRevived
  StayingIsFound
  MarkedIsFrozen
  CounterMonotonic
