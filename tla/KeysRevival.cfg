SPECIFICATION Spec
CONSTANTS
    k1 = k1
    k2 = k2
    n1 = n1
    n2 = n2
    NoKey = NoKey
    Keys = {k1, k2, k3}
    Names = {n1, n2}
    Ids = {i1, i2, i3}
    LegacyRows <- None
    Json <- JsonFile
INVARIANTS RevokedStaysRevoked
