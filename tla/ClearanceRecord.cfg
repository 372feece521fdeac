SPECIFICATION Spec
CONSTANTS
  MaxCO = 3
  MaxRetryCount = 1
  CacheSize = 2
  MaxTime = 2
INVARIANTS
  TypeOK
  CacheHoldsAnchoredRecords
  OneSlotPerOrder
  ReturnedRecordIsGenuine
PROPERTY
  EvictsTheStalest
