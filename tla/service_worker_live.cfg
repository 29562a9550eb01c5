SPECIFICATION FairSpec
CONSTANTS
    p1 = p1
    p2 = p2
    n1 = n1
    n2 = n2
    NoJob = NoJob
    Urls = {p1, p2}
    Starts = {n1, n2}
    Unwanted = {}
    MaxKills = 1
PROPERTIES
    TrackedSettles
CHECK_DEADLOCK FALSE
