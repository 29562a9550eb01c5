SPECIFICATION FairSpec
CONSTANTS
    j1 = j1
    Jobs = {j1}
    MaxDeliveries = 1
    InProcess = TRUE
    S3Bucket = FALSE
    Duplicates = FALSE
    Expiry = FALSE
    Faults = {"write"}
    MaxFaults = 1
    MaxCrashes = 0
INVARIANTS
    AckMeansFlag
    CompletedHasResult
PROPERTIES
    SettlesForGood
    RefinesLifecycle
CHECK_DEADLOCK FALSE
