SPECIFICATION FairSpec
CONSTANTS
  Savers <- Three
  Markers = {"mark"}
  Analysis <- AnalysisOfThree
  Early <- EarlyOfThree
  MarkStatus <- Marks
  InitialRows <- Rows
INVARIANTS
  LastAnalysisComplete
  LabelsAreOfSaved
PROPERTIES
  AloneReplacesAll
  SessionsEnd
CHECK_DEADLOCK FALSE
