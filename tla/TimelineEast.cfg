SPECIFICATION Spec
CONSTANTS
    Zones <- SevenEast
    Start = 960
    MaxTime = 1744
INVARIANTS ChartShowsFullRange
CHECK_DEADLOCK FALSE
