SPECIFICATION FairSpec
CONSTANTS
    a = a
    b = b
    c = c
    d = d
    Apps = {a, b}
    Clients = {c, d}
    QCap = 1
    MaxSends = 2
    Sends <- ClientsToA
    Observes <- AThenB
    Asks <- AskAThenB
    MayRaise = {b}
    MayStop = TRUE
    None = None
INVARIANTS
    TypeOK
    NothingLost
    RequesterWaits
PROPERTIES
     UndisturbedServed
CHECK_DEADLOCK FALSE
