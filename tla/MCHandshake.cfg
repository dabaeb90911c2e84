SPECIFICATION FairHandshakeSpec
CHECK_DEADLOCK FALSE
CONSTANTS
    Attempts = {a1, a2}
    PromptIds = {p1, p2}
    None = None
    MAX_PENDING_PROMPTS_PER_SOCKET = 1
    HostKeyConfigs <- MCHostKeyConfigs
    k1 = k1
    k2 = k2
    StoredKeys = {k1}
    PresentedKeys = {k1, k2}
    MaxRounds = 2
    AuthModes <- MCAuthModes
    Actions = {"submit", "cancel"}
INVARIANTS
    VerifiedOnce
    RoundsAnsweredOnce
    PromptAnswersItsRound
PROPERTIES
    VerificationEnds
