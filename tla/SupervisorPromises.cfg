SPECIFICATION FairSpec
CONSTANTS
  MaxToken = 2
  FlowCap = 1
PROPERTIES EventuallyResolved LedgerSpec
