SPECIFICATION Spec
CONSTANTS
    j1 = j1
    Jobs = {j1}
    MaxDeliveries = 1
    InProcess = TRUE
    S3Bucket = FALSE
    Duplicates = FALSE
    Expiry = TRUE
    Faults = {"read", "write", "ambiguous"}
    MaxFaults = 2
    MaxCrashes = 1
INVARIANTS
    CompletedNotCancelled
PROPERTIES
    FallbackKeepsOutcome
CHECK_DEADLOCK FALSE
