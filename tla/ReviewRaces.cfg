SPECIFICATION FairSpec
CONSTANTS
  r1 = r1
  r2 = r2
  p1 = p1
  p2 = p2
  w1 = w1
  w2 = w2
  None = None
  Requests = {r1, r2}
  Pages = {p1, p2}
  Reviewers = {w1, w2}
  Indexers = {}
  StampSteps = {1}
  MaxVersion = 2
CHECK_DEADLOCK FALSE
PROPERTIES EveryCallReturns DecisionsHold
