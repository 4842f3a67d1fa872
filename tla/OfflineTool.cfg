SPECIFICATION ToolSpec
CONSTANTS
    k1 = k1
    k2 = k2
    n1 = n1
    NoKey = NoKey
    Keys = {k1, k2, k3, k4}
    Names = {n1}
    Ids = {i1, i2, i3, i4, i5}
    LegacyRows <- OldTable
    Json <- OldFile
    MaxUses = 2
INVARIANTS TypeOK RevokedUnlessRebuilt PrintedKeyIsValid
PROPERTIES KeysLeaveByRevocation
SYMMETRY Symmetry
CHECK_DEADLOCK FALSE
