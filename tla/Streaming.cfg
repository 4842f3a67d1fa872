SPECIFICATION Spec
CONSTANTS
    Streams <- AllStreams
    MaxLines = 3
    MaxSize = 7
    LineKinds = {"prompt", "both", "other", "binary"}
    CaptureMax = 4
    Capacity = 2
INVARIANTS TypeOK ByteTransparent FinishedIsRecorded TailHeld MemoryBounded FinalUsageCounted
PROPERTIES RecordedOnce
CHECK_DEADLOCK FALSE
