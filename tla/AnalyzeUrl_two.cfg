SPECIFICATION FairSpec
CONSTANTS
  j1 = j1
  j2 = j2
  Jobs = {j1, j2}
  InitialSites <- MCSites
  MaxRetries = 1
  Postgres = TRUE
  Interruptible <- Everywhere
INVARIANTS
  TypeOK
  UnsettledIsAttended
PROPERTIES
  TtlNotRestarted
  JobsFollowLifecycle
  TasksEnd
CHECK_DEADLOCK FALSE
