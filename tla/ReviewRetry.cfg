SPECIFICATION Spec
CONSTANTS
  r1 = r1
  p1 = p1
  w1 = w1
  i1 = i1
  None = None
  Requests = {r1}
  Pages = {p1}
  Reviewers = {w1}
  Indexers = {i1}
  StampSteps = {0, 1}
  MaxVersion = 6
INVARIANTS RetryAppendsOnce
