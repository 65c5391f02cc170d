SPECIFICATION FairSpec
CONSTANTS
  c1 = c1
  c2 = c2
  p1 = p1
  p2 = p2
  None = None
  Calls = {c1, c2}
  Payloads = {p1, p2}
  MaxFaults = 3
CHECK_DEADLOCK FALSE
INVARIANTS TypeOK ExecutesOnce OkIsStored RunTellsTruth
PROPERTIES ImplementsKey KeyIsAnswered
