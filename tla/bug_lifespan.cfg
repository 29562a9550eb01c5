SPECIFICATION Spec
CONSTANTS
    r1 = r1
    r2 = r2
    NoKeys = NoKeys
    Requests = {r1, r2}
    Lifespan = FALSE
    MaxRotations = 2
    MaxRestarts = 1
INVARIANTS
    NeverUninitialised
CHECK_DEADLOCK FALSE
