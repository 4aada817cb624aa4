SPECIFICATION Spec
CONSTANTS
  w1 = w1
  w2 = w2
  Workers = {w1, w2}
  Candidates = 2
  Answers <- SomeAnswers
  Renderings <- SomeRenderings
INVARIANT
  CloseLeavesNothing
CHECK_DEADLOCK FALSE
