\* A media group of two photos, two workers, one fault, one session.
CONSTANTS
    Photos = {p1, p2}
    Workers = {w1, w2}
    Screenshots = TRUE
    MaxVersion = 2
    MaxSessions = 1
    MaxFaults = 1

SPECIFICATION FairSpec

INVARIANTS
    TypeOK
    OnePicker
    OneDelivery

PROPERTIES
    SettledBatchIsCurrent
    ImplementsLifecycle
    BatchIsOffered
    WorkEnds

CHECK_DEADLOCK FALSE
