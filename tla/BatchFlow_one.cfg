SPECIFICATION FairSpec
CONSTANTS
  a = a
  b = b
  Urls = {a, b}
  Lists <- Either
  InitialSites <- Fresh
  Requests = {1}
  Outcomes = {"saved", "not saved", "gone", "denied", "transient", "silent", "raises"}
  Concurrency = 1
  Postgres = TRUE
  MaxJobs = 4
INVARIANTS
  TypeOK
  JobTellsOutcome
PROPERTY
  TasksEnd
CHECK_DEADLOCK FALSE
