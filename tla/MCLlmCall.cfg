SPECIFICATION Spec
CONSTANTS
  RawErrors <- MCRawErrors
  UrlWords <- MCUrlWords
  Attempts = 3
INVARIANTS
  TransientLeavesSite
  PlainUrlKeepsStatus
  QuotaEventIsQuotaError
  OnlyKeywordUrlHidesFailure
CHECK_DEADLOCK FALSE
