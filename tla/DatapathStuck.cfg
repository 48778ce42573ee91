SPECIFICATION FairSpec
CONSTANTS
    Senders = {a, b}
    SendCap = 1
    MaxSends = 2
    MaxEchoes = 0
    MaxHellos = 1
    Parts = 1
    Supported = {4}
    HelloVersions = {4}
    None = None
PROPERTY SendersReleased
CHECK_DEADLOCK FALSE
