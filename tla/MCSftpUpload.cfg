SPECIFICATION FairUploadSpec
CHECK_DEADLOCK FALSE
CONSTANTS
    Transfers = {t1, t2}
    Sessions = {s1, s2}
    None = None
    MaxConcurrent = 1
    MaxChunks = 2
INVARIANTS
    HandlesTracked
    CompleteIsWritten
    UploadsWithinLimit
PROPERTIES
    UploadAnswered
