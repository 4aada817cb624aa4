SPECIFICATION FairSpec
CONSTANTS
  Savers <- Pair
  Markers = {}
  Analysis <- AnalysisOfPair
  Early <- EarlyOfPair
  MarkStatus <- NoMarks
  InitialRows <- Rows
PROPERTY
  SaveReplacesLabels
CHECK_DEADLOCK FALSE
