SPECIFICATION FairSpec
CONSTANTS
    MaxAttempts = 2
    MaxPushes = 1
    MaxGeneration = 1
    ReportRetryMax = 2
    MaxCrashes = 1
    Reporters = {TRUE, FALSE}
    OthersPush = FALSE
PROPERTIES
    EndsAsPromised
CHECK_DEADLOCK FALSE
