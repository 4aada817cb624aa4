SPECIFICATION FairSpec
CONSTANTS
  w1 = w1
  w2 = w2
  Workers = {w1, w2}
  Candidates = 2
  Answers <- SomeAnswers
  Renderings <- SomeRenderings
INVARIANTS
  BrowsersAreAttended
  OnlyForeignClosedRemain
  OneDriverPerPage
  RenderingNeverWorsens
PROPERTY
  PipelineEnds
CHECK_DEADLOCK FALSE
