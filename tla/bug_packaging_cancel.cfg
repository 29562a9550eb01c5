SPECIFICATION Spec
CONSTANTS
    j1 = j1
    Jobs = {j1}
    MaxDeliveries = 1
    InProcess = FALSE
    S3Bucket = TRUE
    Duplicates = FALSE
    Expiry = FALSE
    Faults = {}
    MaxFaults = 0
    MaxCrashes = 0
INVARIANTS
    CompletedNotCancelled
CHECK_DEADLOCK FALSE
