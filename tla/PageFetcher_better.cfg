SPECIFICATION Spec
CONSTANTS
  w1 = w1
  w2 = w2
  Workers = {}
  Candidates = 0
  Answers <- AllAnswers
  Renderings <- AllRenderings
INVARIANT
  BetterPageIsReturned
CHECK_DEADLOCK FALSE
