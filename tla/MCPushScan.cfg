CONSTANTS
    Messages <- MCMessages
    Carries <- MCCarries
    EventOrder <- MCEventOrder
    Tokens = {"t1"}
    Catalog = {"d1", "d2"}
    Stuck = {"d1"}
    PageSize = 1
    BatchSize = 1
    MaxDeliver = 2
    MaxFaults = 1
SPECIFICATION Spec
INVARIANTS
    TypeOK
    AckedHasResult
    HaltsMatchFindings
    SLOTruthful
PROPERTIES
    PendingResolved
    AlertsSent
CHECK_DEADLOCK FALSE
