SPECIFICATION FairSpec
CONSTANTS
  u1 = u1
  u2 = u2
  u3 = u3
  d1 = d1
  d2 = d2
  o1 = o1
  None = None
  Updates = {u1, u2, u3}
  Presses = {u2, u3}
  Deliveries = {d1, d2}
  Operators = {o1}
  HasQueue = TRUE
  MaxRetries = 1
CONSTRAINT Related
CHECK_DEADLOCK FALSE
INVARIANTS TypeOK OneOwner WorkIsBounded SucceededIsBacked
PROPERTIES JobsEnd
