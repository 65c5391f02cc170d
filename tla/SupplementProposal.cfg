SPECIFICATION FairSpec
CONSTANTS
  None = None
  MaxFaults = 2
CHECK_DEADLOCK FALSE
INVARIANTS TypeOK StoredIsGrounded RepairsBounded EvidenceTellsTruth RunTellsTruth
PROPERTIES RunCloses
