SPECIFICATION FairLoggerSpec
CHECK_DEADLOCK FALSE
CONSTANTS
    Absent = Absent
    MAX_REASON_LENGTH = 3
    LogConfigs <- MCConfigs
    Draws = {0, 70}
    MaxEntries = 4
    MaxTime = 4
    MaxStalls = 2
    MaxThrows = 1
    MaxQueueSize = 1
    BufferSize = 2
    HighWaterMark = 2
    MaxHeld = 3
    MaxFailures = 1
INVARIANTS
    AcceptedIsWritten
    StdoutInOrder
    RateBounded
PROPERTIES
    LogsFlushed
