SPECIFICATION Spec
CONSTANTS
  a = a
  b = b
  c = c
  Urls = {a, b, c}
  Inputs <- Distinct
  InitialSites <- Known
  Outcomes = {"saved"}
  Concurrency = 2
  MaxRuns = 1
  MaxJobs = 4
  AwareTimestamps = TRUE
INVARIANT
  TtlNeverRejects
CHECK_DEADLOCK FALSE
