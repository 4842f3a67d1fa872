SPECIFICATION Safety
CONSTANTS
    Keys = {k1, k2}
    Models = {m1}
    Requests = {q1, q2, q3}
    StaleDays = 2
    ChartDays = 2
    ConfiguredDays = 1
    MaxPass = 2
    MaxDay = 6
SYMMETRY Symmetry
INVARIANTS TypeOK EachRequestCountedOnce ChartComplete ActiveKeyNeverFolded
PROPERTIES ImplementsLedger
