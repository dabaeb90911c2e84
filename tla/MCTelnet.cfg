SPECIFICATION FairTelnetSpec
CHECK_DEADLOCK FALSE
CONSTANTS
    loginPrompt <- MCLogin
    passwordPrompt <- MCPassword
    failurePattern <- MCFailure
    AuthSettings <- MCSettings
    MAX_AUTH_BUFFER_BYTES = 3
    HostOutput <- MCOutput
    WindowSizes <- MCWindows
    MaxOutput = 4
    MaxResize = 1
INVARIANTS
    OutputReachesBrowser
    EndedShellIsQuiet
PROPERTIES
    LoginEnds
