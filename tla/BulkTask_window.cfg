SPECIFICATION FairSpec
CONSTANTS
  a = a
  b = b
  c = c
  Urls = {a, b, c}
  Inputs <- Mixed
  InitialSites <- Fresh
  Outcomes = {"saved", "not saved", "gone", "denied", "quota", "transient", "silent", "raises"}
  Concurrency = 2
  MaxRuns = 1
  MaxJobs = 4
  AwareTimestamps = FALSE
INVARIANTS
  TypeOK
  WindowBounded
  MappedJobsSettled
  JobTellsOutcome
  RefusalsWithinWindow
PROPERTIES
  TaskEnds
CHECK_DEADLOCK FALSE
