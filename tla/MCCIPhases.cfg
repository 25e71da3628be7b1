SPECIFICATION Spec
CONSTANTS
    Keys = {k1, k2}
    NoKey = NoKey
    Outcomes = {"ready_for_review"}
    PreOutboxMaxAttempts = 2
    ReportRetryMaxAttempts = 2
    MaxGeneration = 0
    MaxCrashes = 1
    Reporters = {TRUE}
    OldRows <- NoOldRows
SYMMETRY KeySymmetry
INVARIANTS
    OneRunAtATime
