SPECIFICATION Spec
CONSTANTS
  NoItem = NoItem
  HistoryMax = 2
  Slots = {1, 2}
  MaxItems = 2
  MaxToken = 5
  MaxSignals = 2
  MaxPresses = 1
  MaxFailures = 1
  SourceVanishes = FALSE
  DispatchGaps = FALSE
  EarlySignals = FALSE
CHECK_DEADLOCK FALSE
INVARIANTS CountedOncePerPlay
