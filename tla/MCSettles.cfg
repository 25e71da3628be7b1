SPECIFICATION FairSpec
CONSTANTS
    Keys = {k1, k2}
    NoKey = NoKey
    Outcomes = {"timed_out"}
    PreOutboxMaxAttempts = 2
    ReportRetryMaxAttempts = 1
    MaxGeneration = 0
    MaxCrashes = 1
    Reporters = {TRUE}
    OldRows <- AllOldRows
PROPERTIES
    JobSettles
