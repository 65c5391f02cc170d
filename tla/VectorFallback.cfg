\* A question whose vector query fails, on PostgreSQL.
SPECIFICATION Spec
CONSTANTS
  p1 = p1
  p2 = p2
  s1 = s1
  s2 = s2
  s3 = s3
  s4 = s4
  b1 = b1
  i1 = i1
  i2 = i2
  a1 = a1
  Pages = {p1, p2}
  Sections = {s1, s2, s3, s4}
  Blocks = {b1}
  Outline <- MCOutline
  Indexers = {i1}
  Askers = {a1}
  MaxInputs = 2
  MaxBytes = 3
  MaxAttempts = 2
  MaxEdits = 1
  TopK = 1
  MaxLost = 1
INVARIANT FallbackAnswers
