SPECIFICATION CatalogSpec
CONSTANTS
  a1 = a1
  a2 = a2
  b1 = b1
  e1 = e1
  e2 = e2
  ItemSeq <- TwoAlike
  ExtSeq <- TwoIds
  SourceOf <- TwoSources
  Duplicates = TRUE
  None = None
  MaxEdits = 4
  MaxScans = 3
  MaxPlays = 0
  MaxInputs = 4
  MaxCrashes = 0
PROPERTIES RescanStable
CHECK_DEADLOCK FALSE
