SPECIFICATION Spec
CONSTANTS
  None = None
  MaxFaults = 0
CHECK_DEADLOCK FALSE
INVARIANTS StoredFitsSchema
