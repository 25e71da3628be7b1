SPECIFICATION Spec
CONSTANTS
    Keys = {k1, k2}
    NoKey = NoKey
    Outcomes = {"stopped"}
    PreOutboxMaxAttempts = 2
    ReportRetryMaxAttempts = 1
    MaxGeneration = 2
    MaxCrashes = 1
    Reporters = {TRUE}
    OldRows <- NoOldRows
SYMMETRY KeySymmetry
INVARIANTS
    ResumeNeedsWake
    OneRunAtATime
PROPERTIES
    WakeKept
