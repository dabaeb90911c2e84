CONSTANTS
    Numeral <- MCNumeral
    Canonical <- MCCanonical
    StrongSecrets <- MCStrongSecrets
    SpacedHosts <- MCSpacedHosts
    BrokenPayloads <- MCBrokenPayloads
    Envs <- MCEnvs
    Disks <- MCDisks
    LaterDisks <- MCLaterDisks
    WordBits = 4
    OctetBits = 2
    SegmentBits = 2
    Segments = 2
    MAX_PATH_LENGTH = 4096
    DEFAULT_CHUNK_SIZE = 32768
    RangeOf <- MCRangeOf
    Lookups <- MCLookups
    Messages <- MCMessages
SPECIFICATION ServerSpec
CHECK_DEADLOCK FALSE
INVARIANTS
    SourcesRanked
    RangesAdmitMembers
    ChecksKeepContract
