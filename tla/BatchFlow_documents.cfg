\* Every property here is violated: leave one at a time.
SPECIFICATION FairSpec
CONSTANTS
  a = a
  b = b
  Urls = {a, b}
  Lists <- Either
  InitialSites <- Table
  Requests = {1}
  Outcomes = {"saved", "silent"}
  Concurrency = 1
  Postgres = TRUE
  MaxJobs = 4
INVARIANTS
  EveryJobSettled
  SuccessShowsResult
PROPERTY
  TtlIsRespected
CHECK_DEADLOCK FALSE
