SPECIFICATION Spec
CONSTANTS
    TaskRoutes <- MCTaskRoutes
    Requests <- MCRequests
    RecoveryIds = {r1}
    MaxStream = 2
    MaxDeliver = 3
    MaxAckPending = 2
    MaxFaults = 1
    MaxRestores = 1
INVARIANT RerunAccepted
CHECK_DEADLOCK FALSE
