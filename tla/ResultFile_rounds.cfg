SPECIFICATION RoundSpec
CONSTANTS
  a = a
  b = b
  c = c
  Links = {a, b, c}
  Sources <- AllSources
  Analysed <- NoneAnalysed
  MaxUrls = 2
  MaxTasks = 2
  MaxClock = 2
INVARIANTS
  OutputTellsTask
PROPERTY
  RoundTrip
CHECK_DEADLOCK FALSE
