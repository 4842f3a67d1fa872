SPECIFICATION PageSpec
CONSTANTS
    Keys = {k1}
    Models = {m1}
    Requests = {q1}
    StaleDays = 1
    ChartDays = 1
    ConfiguredDays = 1
    MaxPass = 1
    MaxDay = 4
SYMMETRY Symmetry
INVARIANTS PageCountsOnce
