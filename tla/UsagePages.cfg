SPECIFICATION FairPageSpec
CONSTANTS
    Keys = {k1}
    Models = {m1}
    Requests = {q1, q2}
    StaleDays = 1
    ChartDays = 1
    ConfiguredDays = 1
    MaxPass = 1
    MaxDay = 5
INVARIANTS PageNeverUndercounts
PROPERTIES IdleRevokedKeysFolded AgedRowsFolded
