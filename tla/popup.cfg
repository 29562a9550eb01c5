SPECIFICATION FairSpec
CONSTANTS
    n1 = n1
    n2 = n2
    NoJob = NoJob
    Starts = {n1, n2}
    Unwanted = {n1}
    MaxPolls = 2
INVARIANTS
    DownloadIsCurrent
    OneOutcome
    SubmittedOnce
    GreyMeansAsked
PROPERTIES
    OpenPopupSettles
CHECK_DEADLOCK FALSE
