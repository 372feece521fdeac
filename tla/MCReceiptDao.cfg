SPECIFICATION Spec
CONSTANTS
  i0 = i0
  i1 = i1
  ClearanceOrder <- MCClearanceOrder
  IndexValue <- MCIndexValue
  ReceiptCacheSize = 3
  MaxPage = 2
  NULL = NULL
SYMMETRY IndexSymmetry
INVARIANTS
  TypeOK
  Compact
  NoDuplicates
  FoundPageIsExact
PROPERTY
  StoreSpec
