SPECIFICATION Spec
CONSTANTS
    Zones <- BothSides
    Start = 960
    MaxTime = 1744
INVARIANTS ShownInItsBucket NothingStaleCharted
CHECK_DEADLOCK FALSE
