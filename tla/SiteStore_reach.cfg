SPECIFICATION Spec
CONSTANTS
  Savers <- Two
  Markers = {"mark"}
  Analysis <- AnalysisOfTwo
  Early <- EarlyOfTwo
  MarkStatus <- Marks
  InitialRows <- Rows
INVARIANT
  NullMeansReachable
CHECK_DEADLOCK FALSE
