SPECIFICATION Spec
CONSTANTS
  NoItem = NoItem
  Tracks = {a, b}
  HistoryMax = 2
  Cap = 2
  MaxItems = 3
  MaxRestores = 1
  StampsTie = TRUE
  RevokeSuspends = FALSE
SYMMETRY MCSymmetry
INVARIANTS TypeOK PlacedOnce SkipBackRoundTrip HeldPointerRoundTrip RollbackExact
