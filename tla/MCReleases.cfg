CONSTANTS
    Routes <- MCRoutes
    FactRoute <- MCFactRoute
    Facts = {}
    Messages <- MCMessages
    ReleaseRoute = "release"
    Contents = {c1, c2}
    Versions = {1, 2}
    MaxDeliver = 2
    MaxPolls = 2
    MaxFaults = 1
    MaxDeploys = 1
    MaxEdits = 1
    MaxArrivals = 2
SPECIFICATION Spec
INVARIANTS
    TypeOK
    UploadsFaithful
    AckedIsRecorded
    BoundIsActive
CHECK_DEADLOCK FALSE
