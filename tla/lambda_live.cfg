SPECIFICATION FairSpec
CONSTANTS
    j1 = j1
    Jobs = {j1}
    MaxDeliveries = 2
    InProcess = FALSE
    S3Bucket = TRUE
    Duplicates = FALSE
    Expiry = FALSE
    Faults = {}
    MaxFaults = 0
    MaxCrashes = 1
INVARIANTS
    TypeOK
PROPERTIES
    SettlesForGood
    CancelSettles
