SPECIFICATION Spec
CONSTANTS
    Keys = {k1, k2}
    NoKey = NoKey
    Outcomes = {"timed_out"}
    PreOutboxMaxAttempts = 2
    ReportRetryMaxAttempts = 2
    MaxGeneration = 0
    MaxCrashes = 1
    Reporters = {TRUE, FALSE}
    OldRows <- AllOldRows
SYMMETRY KeySymmetry
INVARIANTS
    TypeOK
    NoSilentTerminal
    ReportEvidence
    DeliveredMeansPosted
    LaunchOrder
PROPERTIES
    EvidenceKept
