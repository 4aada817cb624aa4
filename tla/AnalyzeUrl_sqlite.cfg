SPECIFICATION Spec
CONSTANTS
  j1 = j1
  j2 = j2
  Jobs = {j1}
  InitialSites <- MCSites
  MaxRetries = 1
  Postgres = FALSE
  Interruptible <- Nowhere
INVARIANT
  FinalFailureIsFailed
CHECK_DEADLOCK FALSE
