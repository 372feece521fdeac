SPECIFICATION ExampleFairSpec
CONSTANTS
  MaxCO = 2
  MaxInputs = 3
  MaxCalls = 3
  MaxRetryCount = 2
  VerifyAfterLedgerInputCount = 1
  VerifyNowCounts = {2}
  ReceiptCacheSize = 2
  BinaryCalls = {}
  PostMulti = {FALSE}
  NULL = NULL
CHECK_DEADLOCK FALSE
INVARIANTS
  ReportedReceiptIsStored
  KeysIdentifyReceipts
PROPERTY
  LoopGoesOn
