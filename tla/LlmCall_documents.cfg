\* Every property here is violated: leave one at a time.
SPECIFICATION Spec
CONSTANTS
  RawErrors <- MCRawErrors
  UrlWords <- MCUrlWords
  Attempts = 2
INVARIANTS
  PreconditionIsBlocked
  FailureIsReported
  UnknownIsFailure
CHECK_DEADLOCK FALSE
