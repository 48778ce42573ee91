SPECIFICATION FairSpec
CONSTANTS
    Senders = {a}
    SendCap = 1
    MaxSends = 2
    MaxEchoes = 1
    MaxHellos = 1
    Parts = 2
    Supported = {1, 4}
    HelloVersions = {1, 2, 3, 4}
    None = None
INVARIANTS
    TypeOK
    MainIsComplete
    NoGaps
    EndedIsInert
PROPERTIES
    Implements
    FewAreReleased
    CloseEnds
CHECK_DEADLOCK FALSE
