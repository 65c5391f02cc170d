SPECIFICATION Spec
CONSTANTS
  r1 = r1
  p1 = p1
  w1 = w1
  w2 = w2
  i1 = i1
  None = None
  Requests = {r1}
  Pages = {p1}
  Reviewers = {w1, w2}
  Indexers = {i1}
  StampSteps = {1}
  MaxVersion = 3
PROPERTIES AcceptedIsFinal
