SPECIFICATION Spec
CONSTANTS
    Keys = {k1}
    NoKey = NoKey
    Outcomes = {"ready_for_review"}
    PreOutboxMaxAttempts = 2
    ReportRetryMaxAttempts = 2
    MaxGeneration = 0
    MaxCrashes = 0
    Reporters = {TRUE}
    OldRows <- NoOldRows
INVARIANTS
    CISuccessIsSilent
