SPECIFICATION FairSpec
CONSTANTS
    n1 = n1
    n2 = n2
    NoJob = NoJob
    Submits = {n1, n2}
    MaxPolls = 2
INVARIANTS
    EndIsOwn
    StoppedMeansShown
    ProgressIsVisible
    GreyMeansAsked
PROPERTIES
    PageSettles
CHECK_DEADLOCK FALSE
