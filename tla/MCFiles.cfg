SPECIFICATION FilesSpec
CONSTANTS
  Requests = {r1, r2}
  NoCh = NoCh
  Transfers = {t1, t2}
  Sessions = {s1}
  Owner = s1
  None = None
  MaxConcurrent = 1
  MaxChunks = 2
  chunkSize = 2
  fileSize = 3
  MaxMessages = 3
CHECK_DEADLOCK FALSE
INVARIANTS
    AnswerMatchesEffect
    OneChannelUnlessOverlap
    ShellUploadWhole
PROPERTIES
    RequestsAnswered
