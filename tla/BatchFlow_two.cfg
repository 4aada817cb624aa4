SPECIFICATION Spec
CONSTANTS
  a = a
  b = b
  Urls = {a, b}
  Lists <- Distinct
  InitialSites <- Ruled
  Requests = {1, 2}
  Outcomes = {"saved", "gone", "raises"}
  Concurrency = 1
  Postgres = TRUE
  MaxJobs = 4
INVARIANTS
  ResultIsAnalysis
PROPERTIES
  JobsFollowLifecycle
CHECK_DEADLOCK FALSE
