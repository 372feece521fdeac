SPECIFICATION Spec
CONSTANTS
  MaxCO = 2
  MaxInputs = 1
  MaxCalls = 1
  MaxRetryCount = 2
  VerifyAfterLedgerInputCount = 1
  VerifyNowCounts = {1}
  ReceiptCacheSize = 1
  BinaryCalls = {}
  PostMulti = {FALSE}
  NULL = NULL
PROPERTY
  DeletedReceiptsWereVerified
