SPECIFICATION Safe
CONSTANTS
  NoItem = NoItem
  HistoryMax = 3
  Slots = {1, 2}
  MaxItems = 2
  MaxToken = 4
  MaxSignals = 1
  MaxPresses = 1
  MaxFailures = 1
  SourceVanishes = TRUE
  DispatchGaps = TRUE
  EarlySignals = TRUE
  None = None
  CastDevices = {"c1"}
  DlnaDevices = {}
  MaxApplies = 2
  MaxAttempts = 1
  MaxFaults = 1
  MaxAdds = 1
CHECK_DEADLOCK FALSE
INVARIANTS TypeOK NoItemTwice HeldHasNoCurrent SwitchTypeOK OutputsRight
PROPERTIES NothingElseDropped PressBeatsAdvance
