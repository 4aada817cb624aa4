SPECIFICATION FairSpec
CONSTANTS
  j1 = j1
  j2 = j2
  Jobs = {j1}
  InitialSites <- MCSites
  MaxRetries = 1
  Postgres = TRUE
  Interruptible <- Everywhere
PROPERTY
  SuccessIsFinal
CHECK_DEADLOCK FALSE
