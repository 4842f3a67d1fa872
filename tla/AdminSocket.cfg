SPECIFICATION SocketSpec
CONSTANTS
    Clients = {c1, c2}
    Wants <- AllWants
    n1 = n1
    i1 = i1
    k1 = k1
    k2 = k2
    Keys = {k1, k2, k3}
    NoKey = NoKey
    Names = {n1, i1}
    Ids = {i1, i2, i3}
    LegacyRows <- LegacyTable
    Json <- None
INVARIANTS AnnouncedKeyIsReal ConfirmedRevocationHolds
PROPERTIES ImplementsRegistry SentIsAnswered
CHECK_DEADLOCK FALSE
