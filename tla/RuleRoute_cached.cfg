SPECIFICATION Spec
CONSTANTS
  KeywordHits <- MCKeywordHits
  OtherPages <- MCOtherPages
  DescScores <- MCDescScores
  CategoryHits <- MCCategoryHits
  UsePlaywright = TRUE
  MarkStatuses = {"unreachable", "blocked"}
  InitialRows <- MCRows
  MaxEvaluations = 1
INVARIANT
  CachedVerdictIsStored
