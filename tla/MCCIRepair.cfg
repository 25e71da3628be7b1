SPECIFICATION Spec
CONSTANTS
    MaxAttempts = 2
    MaxPushes = 1
    MaxGeneration = 1
    ReportRetryMax = 2
    MaxCrashes = 1
    Reporters = {TRUE, FALSE}
    OthersPush = TRUE
INVARIANTS
    TypeOK
    AttemptMatchesTask
    ChargedInOrder
    ChargedOnlyIfStarted
    OneRepairRun
    RepairOnlyOnFailure
PROPERTIES
    WakeKept
    ImplementsLifecycle
CHECK_DEADLOCK FALSE
