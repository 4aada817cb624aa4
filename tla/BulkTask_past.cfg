SPECIFICATION FairSpec
CONSTANTS
  a = a
  b = b
  c = c
  Urls = {a, b, c}
  Inputs <- Distinct
  InitialSites <- Table
  Outcomes = {"saved"}
  Concurrency = 2
  MaxRuns = 1
  MaxJobs = 4
  AwareTimestamps = FALSE
PROPERTY
  PastTtlIsAnalysed
CHECK_DEADLOCK FALSE
