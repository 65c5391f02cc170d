\* Two pages, two workers, two runs to show there is one.
SPECIFICATION FairSpec
CONSTANTS
  p1 = p1
  p2 = p2
  w1 = w1
  w2 = w2
  r1 = r1
  r2 = r2
  Pages = {p1, p2}
  Workers = {w1, w2}
  Runs = {r1, r2}
  MaxButtons = 2
  MaxFaults = 1
  NoBudget = NoBudget
  Absent = Absent
  Unpriced = Unpriced
CHECK_DEADLOCK FALSE
INVARIANTS TypeOK RowTellsTruth RepliesTellTruth
PROPERTIES ImplementsConfirmed ConfirmedIndexEnds
