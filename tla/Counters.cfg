SPECIFICATION Spec
CONSTANTS
    LastModel = 2
    Tokens = {0, 1, 3, 8}
    IntMax = 7
    MaxRecorded = 5
INVARIANTS CountersExact TotalIsAllTime
CHECK_DEADLOCK FALSE
