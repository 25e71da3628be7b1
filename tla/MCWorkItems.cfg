CONSTANTS
    Routes <- MCRoutes
    FactRoute <- MCFactRoute
    Facts <- MCFacts
    Messages <- MCNoMessages
    ReleaseRoute = "release"
    Contents = {c1, c2}
    Versions = {1}
    MaxDeliver = 2
    MaxPolls = 2
    MaxFaults = 2
    MaxDeploys = 0
    MaxEdits = 0
    MaxArrivals = 2
SPECIFICATION Spec
INVARIANTS
    LeasesHeld
    NewKeyAfterFailure
PROPERTIES
    TerminalIsFinal
    NoAttemptAfterDeadline
    ItemsSettle
CHECK_DEADLOCK FALSE
