SPECIFICATION Spec
CONSTANTS
  a = a
  b = b
  c = c
  Urls = {a, b}
  Inputs <- Repeated
  InitialSites <- Fresh
  Outcomes = {"saved"}
  Concurrency = 2
  MaxRuns = 1
  MaxJobs = 4
  AwareTimestamps = FALSE
INVARIANT
  EveryJobSettled
CHECK_DEADLOCK FALSE
