SPECIFICATION FairSpec
CONSTANTS
  Savers <- Two
  Markers = {}
  Analysis <- AnalysisOfTwo
  Early <- EarlyOfTwo
  MarkStatus <- NoMarks
  InitialRows <- Rows
PROPERTY
  LlmResultIsKept
CHECK_DEADLOCK FALSE
