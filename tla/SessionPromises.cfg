SPECIFICATION FairSpec
CONSTANTS
  NoItem = NoItem
  HistoryMax = 3
  Slots = {1, 2}
  MaxItems = 1
  MaxToken = 8
  MaxSignals = 1
  MaxPresses = 1
  MaxFailures = 1
  SourceVanishes = TRUE
  DispatchGaps = TRUE
  EarlySignals = TRUE
CHECK_DEADLOCK FALSE
PROPERTIES EveryTaskEnds LedgerSpec
