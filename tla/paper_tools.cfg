SPECIFICATION Spec
CONSTANTS
    Families <- MCFamilies
    MaxInputDepth = 2
INVARIANTS
    DocumentIsWhole
    WrapperIsRefused
    TextIsKept
    NothingIsSwallowed
    LinkShowsFigure
    WrappersGoWhole
    CaptionsAreNumbered
