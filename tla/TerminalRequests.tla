--------------------------- MODULE TerminalRequests ---------------------------
(***************************************************************************)
(* What the browser asks of one SSH terminal and what comes back on the    *)
(* same socket: ServiceSocketTerminal and handleControl                    *)
(* (service-socket-terminal.ts, service-socket-control.ts), the registry   *)
(* of TerminalService and the commands of exec-command.ts, around the      *)
(* output flow of the shell.  Rows and columns are one size; a message     *)
(* that is not output counts one byte.  The login before and the leave of  *)
(* the browser are in SocketSession.                                       *)
(***************************************************************************)
EXTENDS TerminalFlow

LOCAL INSTANCE Functions

CONSTANTS
    None,
    Sizes,               \* window sizes
    DefaultSize,         \* TERMINAL_DEFAULTS
    Commands,            \* exec requests
    Streams,             \* the output streams of a command, treated alike
    maxExecOutputBytes,  \* ssh.maxExecOutputBytes
    Marker,              \* length of the truncation notice
    MaxExecChunk,        \* bound: the largest chunk of a command's output
    MaxWritten,          \* bound: what a command writes to one of its streams
    MaxOpenings,         \* bound: terminal events
    MaxNotices           \* bound: bytes of other handlers a control event may follow

ASSUME RequestsAssumption ==
    /\ maxExecOutputBytes \in Nat \ {0} /\ Marker \in Nat \ {0}
    /\ None \notin Sizes /\ DefaultSize \in Sizes
VARIABLES
    connected,            \* the connection is in the pool and usable
    terminal,             \* the terminal is in the registry
    initialTermSettings,  \* state.initialTermSettings
    shell,                \* "none", "opening" or "open"
    pty,                  \* size handed to client.shell()
    hostWindow,           \* size the host has of its terminal
    openings,             \* terminal events so far
    browserWindow,        \* the last size the browser told
    missed,               \* that size was told and nothing kept it
    cmd,                  \* command -> "idle", "opening", "running", "done"
    written,              \* command -> stream -> bytes the host wrote
    kept,                 \* command -> stream -> length of the string
    cut                   \* command -> stream -> the notice was added

windowVars == <<terminal, initialTermSettings, shell, pty, hostWindow, openings,
                browserWindow, missed>>
execVars == <<cmd, written, kept, cut>>
requestVars == <<connected, windowVars, execVars>>
terminalVars == <<flowVars, requestVars>>

TerminalInit ==
    /\ FlowInit
    /\ connected = TRUE
    /\ terminal = FALSE /\ initialTermSettings = None
    /\ shell = "none" /\ pty = None /\ hostWindow = None /\ openings = 0
    /\ browserWindow = None /\ missed = FALSE
    /\ cmd = [c \in Commands |-> "idle"]
    /\ written = [c \in Commands |-> [s \in Streams |-> 0]]
    /\ kept = [c \in Commands |-> [s \in Streams |-> 0]]
    /\ cut = [c \in Commands |-> [s \in Streams |-> FALSE]]

\* socket.emit beside the output of the shell: a disconnected socket takes
\* nothing, and an empty string does not count.
say(n) ==
    IF ~closed /\ n \in Nat \ {0}
    THEN /\ others' = others + n
         /\ buffered' = IF transport = "websocket" THEN buffered + n ELSE buffered
         /\ UNCHANGED <<remaining, streamPaused, paused, checking, ratePaused, bytesInWindow,
                        windowOver, resumeTimers, transport, dropped, closed>>
    ELSE UNCHANGED flowVars

-------------------------------------------------------------------------------
(* The terminal and its size *)

\* The size a terminal event asks for.
buildTerminalDefaults(settings) ==
    IF settings # None THEN settings
    ELSE IF initialTermSettings # None THEN initialTermSettings
    ELSE DefaultSize

\* handleTerminal up to the answer of the client.  A terminal that exists is
\* left as it is; shell() refuses a connection that is gone.  The browser asks
\* again only after a failure.
handleTerminal(settings) ==
    LET size == buildTerminalDefaults(settings)
    IN  /\ ~closed /\ shell = "none" /\ openings < MaxOpenings
        /\ openings' = openings + 1
        /\ terminal' = TRUE
        /\ browserWindow' = IF settings = None THEN browserWindow ELSE settings
        /\ IF connected
           THEN /\ shell' = "opening" /\ pty' = size
                /\ missed' = (missed /\ settings = None)
                /\ UNCHANGED flowVars
           ELSE /\ missed' = TRUE
                /\ say(1)
                /\ UNCHANGED <<shell, pty>>
        /\ UNCHANGED <<connected, initialTermSettings, hostWindow, execVars>>

ShellOpens ==
    /\ shell = "opening" /\ connected
    /\ shell' = "open" /\ hostWindow' = pty /\ pty' = None
    /\ UNCHANGED <<flowVars, connected, terminal, initialTermSettings, openings, browserWindow,
                   missed, execVars>>

\* The error is reported; the registry keeps the terminal.
ShellFails ==
    /\ shell = "opening"
    /\ shell' = "none" /\ pty' = None
    /\ missed' = (missed \/ browserWindow # initialTermSettings)
    /\ say(1)
    /\ UNCHANGED <<connected, terminal, initialTermSettings, hostWindow, openings, browserWindow,
                   execVars>>

\* Seeded fault: a size that comes before the terminal is not kept.
handleResizeForgets(size) ==
    /\ ~closed /\ browserWindow' = size
    /\ IF ~terminal THEN missed' = FALSE /\ UNCHANGED hostWindow
       ELSE /\ hostWindow' = IF shell = "open" THEN size ELSE hostWindow
            /\ missed' = (shell # "open")
    /\ UNCHANGED <<flowVars, connected, terminal, initialTermSettings, shell, pty, openings,
                   execVars>>

\* A size that comes before the terminal waits for it; else it goes to the
\* registry, which refuses a bad one, and to the shell, refused or not.
handleResize(size) ==
    /\ ~closed
    /\ browserWindow' = size
    /\ IF ~terminal
       THEN /\ initialTermSettings' = size /\ missed' = FALSE
            /\ UNCHANGED hostWindow
       ELSE /\ hostWindow' = IF shell = "open" THEN size ELSE hostWindow
            /\ missed' = (shell # "open")
            /\ UNCHANGED initialTermSettings
    /\ UNCHANGED <<flowVars, connected, terminal, shell, pty, openings, execVars>>

-------------------------------------------------------------------------------
(* Commands *)

\* What the command came to is emitted, an error or its output.
performExec(c, n) == cmd' = [cmd EXCEPT ![c] = "done"] /\ say(n)

\* A connection that is gone, or a client that throws, is an error at once.
runCommand(c) ==
    \/ connected /\ cmd' = [cmd EXCEPT ![c] = "opening"] /\ UNCHANGED flowVars
    \/ performExec(c, 1)

handleExec(c) ==
    /\ ~closed /\ cmd[c] = "idle"
    /\ runCommand(c)
    /\ UNCHANGED <<connected, windowVars, written, kept, cut>>

\* The callback of client.exec() with a stream.
monitorStream(c) ==
    /\ cmd[c] = "opening" /\ connected
    /\ cmd' = [cmd EXCEPT ![c] = "running"]
    /\ UNCHANGED <<flowVars, connected, windowVars, written, kept, cut>>

handleExecStartError(c) ==
    /\ cmd[c] = "opening"
    /\ performExec(c, 1)
    /\ UNCHANGED <<connected, windowVars, written, kept, cut>>

\* Seeded fault: output of exactly the limit is cut.
exceedsAtLimit(length, n) == length + n >= maxExecOutputBytes

exceeds(length, n) == length + n > maxExecOutputBytes

\* A chunk that does not fit is left out, with a notice in place of the first;
\* a later one that fits is added behind it.
onExecData(c, s, n) ==
    /\ cmd[c] = "running" /\ connected
    /\ written[c][s] + n <= MaxWritten
    /\ written' = [written EXCEPT ![c][s] = @ + n]
    /\ IF exceeds(kept[c][s], n)
       THEN /\ kept' = [kept EXCEPT ![c][s] = IF cut[c][s] THEN @ ELSE @ + Marker]
            /\ cut' = [cut EXCEPT ![c][s] = TRUE]
       ELSE /\ kept' = [kept EXCEPT ![c][s] = @ + n]
            /\ UNCHANGED cut
    /\ UNCHANGED <<flowVars, connected, windowVars, cmd>>

\* The channel has closed: what was kept is emitted, whatever waits already, and
\* the strings are gone.
handleStreamClose(c) ==
    /\ cmd[c] = "running"
    /\ performExec(c, FoldFunction(+, 0, kept[c]))
    /\ written' = [written EXCEPT ![c] = [s \in Streams |-> 0]]
    /\ kept' = [kept EXCEPT ![c] = [s \in Streams |-> 0]]
    /\ cut' = [cut EXCEPT ![c] = [s \in Streams |-> FALSE]]
    /\ UNCHANGED <<connected, windowVars>>

-------------------------------------------------------------------------------
(* Control events and the connection *)

\* A refused replay is an error; MaxNotices bounds them.
rejectReplay == others < MaxNotices /\ say(1)

\* Allowed, with a password stored and a shell, the password is written to the
\* shell and the browser hears nothing; else it is told.
handleReplayCredentials ==
    /\ ~closed
    /\ \/ shell = "open" /\ UNCHANGED flowVars
       \/ rejectReplay
    /\ UNCHANGED requestVars

\* Allowed or not, the browser is told.
handleReauth ==
    /\ ~closed /\ others < MaxNotices
    /\ say(1)
    /\ UNCHANGED requestVars

handleControl == handleReplayCredentials \/ handleReauth

\* External: the client has closed.
ConnectionLost ==
    /\ connected /\ connected' = FALSE
    /\ UNCHANGED <<flowVars, windowVars, execVars>>

\* The shell's stream has closed: the socket is disconnected, and its disconnect
\* handler ends the connection and destroys the terminal.
ShellCloses ==
    /\ shell = "open"
    /\ onClose
    /\ connected' = FALSE /\ terminal' = FALSE
    /\ UNCHANGED <<initialTermSettings, shell, pty, hostWindow, openings, browserWindow,
                   missed, execVars>>

\* The flow of the open shell, whose requests it leaves alone.
ShellData ==
    /\ shell = "open" /\ connected
    /\ \E size \in 1 .. MaxChunk : onData(size)
    /\ UNCHANGED requestVars

ShellTimer(due) == rateLimitTimer(due) /\ UNCHANGED requestVars
ShellCheck == checkResume /\ UNCHANGED requestVars
WindowElapses == shell = "open" /\ SecondPasses /\ UNCHANGED requestVars
BrowserReads == Drain /\ UNCHANGED requestVars
SocketUpgrades == Upgrade /\ UNCHANGED requestVars

TerminalNext ==
    \/ \E settings \in Sizes \cup {None} : handleTerminal(settings)
    \/ ShellOpens
    \/ ShellFails
    \/ \E size \in Sizes : handleResize(size)
    \/ \E c \in Commands :
          \/ handleExec(c)
          \/ monitorStream(c)
          \/ handleExecStartError(c)
          \/ \E s \in Streams, n \in 1 .. MaxExecChunk : onExecData(c, s, n)
          \/ handleStreamClose(c)
    \/ handleControl
    \/ ConnectionLost
    \/ ShellCloses
    \/ ShellData
    \/ \E due \in {"now", "windowEnd"} : ShellTimer(due)
    \/ ShellCheck
    \/ WindowElapses
    \/ BrowserReads
    \/ SocketUpgrades

TerminalSpec == TerminalInit /\ [][TerminalNext]_terminalVars

\* Timers fire, time passes and a connected browser goes on reading.
FairTerminalSpec ==
    /\ TerminalSpec
    /\ \A due \in {"now", "windowEnd"} : WF_terminalVars(ShellTimer(due))
    /\ WF_terminalVars(ShellCheck)
    /\ WF_terminalVars(WindowElapses)
    /\ WF_terminalVars(BrowserReads)

-------------------------------------------------------------------------------
(* Properties *)

\* The host of an open shell has the window size the browser told last, whether
\* it was told before the terminal, with it or after the shell opened.  A size
\* told while the shell opens, or with a shell that failed, is kept by nothing.
ShellKnowsWindow ==
    shell = "open" /\ browserWindow # None /\ ~missed => hostWindow = browserWindow

\* What a command answers is whole or marked: without the notice each stream is
\* everything the host wrote, with it the host wrote more than the limit, and
\* the string never outgrows the limit and one notice, however the output was
\* cut into chunks.
OutputWholeOrMarked ==
    \A c \in Commands, s \in Streams :
        /\ ~cut[c][s] => kept[c][s] = written[c][s]
        /\ cut[c][s] => written[c][s] > maxExecOutputBytes
        /\ kept[c][s] <= maxExecOutputBytes + Marker
===============================================================================
