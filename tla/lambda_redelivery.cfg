SPECIFICATION Spec
CONSTANTS
    j1 = j1
    Jobs = {j1}
    MaxDeliveries = 2
    InProcess = FALSE
    S3Bucket = TRUE
    Duplicates = TRUE
    Expiry = FALSE
    Faults = {"read", "write", "ambiguous"}
    MaxFaults = 1
    MaxCrashes = 1
INVARIANTS
    CancelObservedWithinOneStage
    RowsAreWhole
PROPERTIES
    FlagSurvives
    FlagRaisedInFlight
CHECK_DEADLOCK FALSE
