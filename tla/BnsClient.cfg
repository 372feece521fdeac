SPECIFICATION FairSpec
CONSTANTS
  MaxCO = 2
  MaxInputs = 2
  MaxCalls = 2
  MaxRetryCount = 2
  VerifyAfterLedgerInputCount = 1
  VerifyNowCounts = {2}
  ReceiptCacheSize = 2
  BinaryCalls = {2}
  PostMulti = {TRUE, FALSE}
  NULL = NULL
INVARIANTS
  TypeOK
  StoredReceiptsAreGenuine
  ResendUsesFreshLocator
  EntriesPerCommand
  ReportedReceiptIsOurs
  OnlyAnchoredAreVerified
PROPERTIES
  LifecycleSpec
  CallsRunOut
  EveryCallReturns
