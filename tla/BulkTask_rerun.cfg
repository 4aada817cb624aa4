SPECIFICATION Spec
CONSTANTS
  a = a
  b = b
  c = c
  Urls = {a, b}
  Inputs <- Pairs
  InitialSites <- Table
  Outcomes = {"saved", "denied", "quota"}
  Concurrency = 2
  MaxRuns = 2
  MaxJobs = 4
  AwareTimestamps = FALSE
INVARIANT
  LeftOutIsTakenAgain
PROPERTIES
  CompleteIsNotRepeated
  JobsFollowLifecycle
CHECK_DEADLOCK FALSE
