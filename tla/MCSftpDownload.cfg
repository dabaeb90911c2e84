SPECIFICATION FairDownloadSpec
CHECK_DEADLOCK FALSE
CONSTANTS
    Transfers = {t1}
    Sessions = {s1}
    None = None
    MaxConcurrent = 1
    MaxChunks = 5
    Self = t1
    Owner = s1
    totalChunks = 5
    concurrency = 3
INVARIANTS
    ChunksInOrder
    CompleteSentAll
    AnsweredOnce
PROPERTIES
    DownloadEnds
