SPECIFICATION FairSpec
CONSTANTS
    r1 = r1
    r2 = r2
    NoKeys = NoKeys
    Requests = {r1, r2}
    Lifespan = TRUE
    MaxRotations = 2
    MaxRestarts = 1
INVARIANTS
    NeverUninitialised
PROPERTIES
    RunsForLiveKeys
    RefusedOnlyAfterRotation
    EveryRequestAnswered
CHECK_DEADLOCK FALSE
