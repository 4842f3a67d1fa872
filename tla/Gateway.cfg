SPECIFICATION FairChatSpec
CONSTANTS
    Requests = {r1}
    Keys = {k1, k2}
    NoKey = NoKey
    KeyName <- SharedName
    Models <- OneModel
    NoModel = NoModel
    Nothing = Nothing
    Ips = {a}
    MaxFailures = 2
    Window = 2
    MaxNow = 4
    MaxAttempts = 5
INVARIANTS AtMostMaxFailures BlockedByFailuresOnly RecordedWhenAnswered RecordedAsRequested FallbackMeansRevoked ValidKeyNotRefused
PROPERTIES LeftStreamRecorded
CHECK_DEADLOCK FALSE
