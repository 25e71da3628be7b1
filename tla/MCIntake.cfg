SPECIFICATION FairSpec
CONSTANTS
    TaskRoutes <- MCTaskRoutes
    Requests <- MCRequests
    RecoveryIds = {r1, r2}
    MaxStream = 2
    MaxDeliver = 2
    MaxAckPending = 2
    MaxFaults = 1
    MaxRestores = 1
INVARIANTS TypeOK WorkKept EvidenceMatchesCheckpoint JobsAreRequested
PROPERTY AcceptedIsStored
CHECK_DEADLOCK FALSE
