\* Every property here is violated: leave one at a time.
SPECIFICATION RoundSpec
CONSTANTS
  a = a
  b = b
  c = c
  Links = {a, b, c}
  Sources <- AllSources
  Analysed <- SomeAnalysed
  MaxUrls = 2
  MaxTasks = 2
  MaxClock = 2
INVARIANTS
  ProcessedIsSkipped
  OutputIsNewFile
  SourceIsBase
  CompletionMakesFile
CHECK_DEADLOCK FALSE
