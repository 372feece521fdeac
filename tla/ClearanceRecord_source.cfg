SPECIFICATION Spec
CONSTANTS
  MaxCO = 2
  MaxRetryCount = 1
  CacheSize = 1
  MaxTime = 1
INVARIANT
  SuccessHasASource
