SPECIFICATION FairTerminalSpec
CHECK_DEADLOCK FALSE
CONSTANTS
    highWaterMark = 4
    rateLimitBytesPerSec = 2
    MaxChunk = 1
    MaxExecChunk = 3
    MaxOutput = 5
    None = None
    Sizes = {small, large}
    DefaultSize = small
    Commands = {c1}
    Streams = {stdout}
    maxExecOutputBytes = 2
    Marker = 1
    MaxWritten = 4
    MaxOpenings = 2
    MaxNotices = 1
INVARIANTS
    BufferBounded
    PauseHasOneOwner
    ShellKnowsWindow
    OutputWholeOrMarked
PROPERTIES
    StreamResumes
