SPECIFICATION Spec
CONSTANTS
  NoItem = NoItem
  HistoryMax = 3
  Slots = {1, 2}
  MaxItems = 2
  MaxToken = 4
  MaxSignals = 1
  MaxPresses = 1
  MaxFailures = 1
  SourceVanishes = FALSE
  DispatchGaps = FALSE
  EarlySignals = FALSE
CHECK_DEADLOCK FALSE
PROPERTIES AdvanceSparesNewer
