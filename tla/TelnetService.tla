---------------------------- MODULE TelnetService ----------------------------
(***************************************************************************)
(* One telnet connection: connect(), shell(), resize(), disconnect() of    *)
(* app/services/telnet/telnet-service.ts, its entry in the connection pool *)
(* and the expect-style login of telnet-auth.ts, on top of the option      *)
(* negotiation of TelnetNegotiation.                                       *)
(*                                                                         *)
(* The remote host writes any data and any commands; TCP hands the bytes   *)
(* over in pieces of any length.  A regular expression is a sequence of    *)
(* bytes that the text must contain.  The browser opens one shell.         *)
(***************************************************************************)
EXTENDS TelnetNegotiation, FiniteSets

CONSTANTS
    loginPrompt, passwordPrompt, failurePattern,  \* the patterns, as byte sequences
    AuthSettings,           \* telnet.auth of the configuration with the user's password
    MAX_AUTH_BUFFER_BYTES,
    HostOutput,             \* what the host can write: [data, wire] records
    WindowSizes,            \* <<cols, rows>> of the browser's terminal
    MaxOutput,              \* bound: how often the host writes
    MaxResize               \* bound: resizes by the browser

ASSUME TelnetAssumption ==
    /\ MAX_AUTH_BUFFER_BYTES \in Nat /\ MaxOutput \in Nat /\ MaxResize \in Nat
    /\ WindowSizes \subseteq (1 .. 1000) \X (1 .. 1000)

Byte == 0 .. 255

OptionCommands == {DO, DONT, WILL, WONT}

\* External: a subnegotiation, the IACs of its body in pairs that start at firsts.
Subnegotiation(w) ==
    /\ w \in Seq(Byte) /\ Len(w) > 3
    /\ w[1] = IAC /\ w[2] = SB /\ w[Len(w) - 1] = IAC /\ w[Len(w)] = SE
    /\ \E firsts \in SUBSET (3 .. Len(w) - 3) :
         /\ \A i \in firsts : i + 1 \notin firsts
         /\ \A i \in 3 .. Len(w) - 2 : w[i] = IAC <=> i \in firsts \/ i - 1 \in firsts

\* External: the smallest things that a host which keeps to the protocol writes (a byte
\* of data, the escaped byte 255, a command, an option, a subnegotiation), with the
\* data among them.
HostUnit(h) ==
    \/ \E b \in Byte \ {IAC} : h = [data |-> <<b>>, wire |-> <<b>>]
    \/ h = [data |-> <<IAC>>, wire |-> <<IAC, IAC>>]
    \/ \E c \in Byte \ (OptionCommands \union {IAC, SB}) : h = [data |-> << >>, wire |-> <<IAC, c>>]
    \/ \E c \in OptionCommands, o \in Byte : h = [data |-> << >>, wire |-> <<IAC, c, o>>]
    \/ h = [data |-> << >>, wire |-> h.wire] /\ Subnegotiation(h.wire)

ASSUME HostAssumption == \A h \in HostOutput : HostUnit(h)

VARIABLES
    config,       \* the options given to connect(): which patterns, and a password
    tcp,          \* the net.Socket: idle, connecting, open, destroyed
    connectTimer, \* the timer of connect() is armed
    answer,       \* what connect() resolved to: none, ok, error
    pooled,       \* the connection is in the pool and in meta
    paused,       \* the socket is paused
    stream,       \* the ShellDuplex: none, open, destroyed
    needsDrain,   \* ShellDuplex.needsDrain
    listening,    \* handleSocketData is attached
    neg,          \* the negotiator
    auth,         \* the TelnetAuthenticator: state, buffer, timers
    wire,         \* bytes of the host that TCP has not delivered
    sent,         \* history: the data among what the host wrote
    pushed,       \* history: what shellStream.push() was given
    eaten,        \* history: how many bytes the prompts took
    window,       \* the last window size written to the socket
    outputs, resizes,   \* bound counters
    browser       \* the browser is connected

telnetVars == <<config, tcp, connectTimer, answer, pooled, paused, stream, needsDrain, listening,
                neg, auth, wire, sent, pushed, eaten, window, outputs, resizes, browser>>

Waiting == {"waiting-login", "waiting-password", "waiting-result"}

-------------------------------------------------------------------------------
(* TelnetAuthenticator: [state, buffer, timeout, settle] and what a call returns *)

\* No authenticator is built without a login prompt and a user name; the record
\* then stands for none, and every byte passes.
resolveInitialState(c) == IF c.login THEN "waiting-login" ELSE "pass-through"

buildAuthenticator(c) ==
    [state |-> resolveInitialState(c), buffer |-> << >>, timeout |-> c.login, settle |-> FALSE]

\* regex.test(text)
test(pattern, text) ==
    \E i \in 1 .. Len(text) - Len(pattern) + 1 : SubSeq(text, i, i + Len(pattern) - 1) = pattern

Result(a, write, forward) == [auth |-> a, write |-> write, forward |-> forward]

noAction(a) == Result(a, << >>, << >>)

transitionToPassThrough(a) ==
    Result([a EXCEPT !.state = "pass-through", !.buffer = << >>, !.timeout = FALSE,
                     !.settle = FALSE], << >>, a.buffer)

handleWaitingLogin(a) ==
    IF test(loginPrompt, a.buffer)
    THEN Result([a EXCEPT !.buffer = << >>,
                          !.state = IF config.password THEN "waiting-password" ELSE "waiting-result"],
                <<"username">>, << >>)
    ELSE noAction(a)

handleWaitingPassword(a) ==
    IF config.passwordPrompt /\ test(passwordPrompt, a.buffer)
    THEN Result([a EXCEPT !.buffer = << >>, !.state = "waiting-result", !.settle = FALSE],
                <<"password">>, << >>)
    ELSE noAction(a)

\* Only the packet that completes the failure message is forwarded.
handleWaitingResult(a, data) ==
    IF config.failure /\ test(failurePattern, a.buffer)
    THEN Result([a EXCEPT !.state = "failed", !.buffer = << >>, !.timeout = FALSE,
                          !.settle = FALSE], << >>, data)
    ELSE noAction([a EXCEPT !.settle = TRUE])

\* processData(): outside the waiting states the data pass.
processData(a, data) ==
    LET b == [a EXCEPT !.buffer = @ \o data]
    IN  CASE a.state \notin Waiting -> Result(a, << >>, data)
          [] a.state \in Waiting /\ Len(b.buffer) > MAX_AUTH_BUFFER_BYTES -> transitionToPassThrough(b)
          [] a.state = "waiting-login" /\ Len(b.buffer) <= MAX_AUTH_BUFFER_BYTES -> handleWaitingLogin(b)
          [] a.state = "waiting-password" /\ Len(b.buffer) <= MAX_AUTH_BUFFER_BYTES -> handleWaitingPassword(b)
          [] OTHER -> handleWaitingResult(b, data)

\* Seeded fault: the settle timer survives destroy().
destroyKeepsSettle(a) == [a EXCEPT !.timeout = FALSE]

destroy(a) == [a EXCEPT !.timeout = FALSE, !.settle = FALSE]

-------------------------------------------------------------------------------
(* connect() *)

\* A pattern that is missing, empty or no regular expression waits for nothing.
buildOptionalRegex(pattern) == pattern \notin {"absent", "", "invalid"}

\* What the socket adapter makes of the configuration and of what the user typed.
connectTelnet(s) ==
    [login |-> buildOptionalRegex(s.loginPrompt),
     passwordPrompt |-> buildOptionalRegex(s.passwordPrompt),
     failure |-> buildOptionalRegex(s.failurePattern),
     password |-> s.password \notin {"absent", ""}]

TelnetInit ==
    /\ \E s \in AuthSettings : config = connectTelnet(s)
    /\ tcp = "idle" /\ connectTimer = FALSE /\ answer = "none" /\ pooled = FALSE /\ paused = FALSE
    /\ stream = "none" /\ needsDrain = FALSE /\ listening = FALSE
    /\ neg = NewNegotiator(80, 24)
    /\ auth = buildAuthenticator([config EXCEPT !.login = FALSE])
    /\ wire = << >> /\ sent = << >> /\ pushed = << >> /\ eaten = 0 /\ window = << >>
    /\ outputs = 0 /\ resizes = 0 /\ browser = TRUE

shellUnchanged == UNCHANGED <<stream, needsDrain, listening, neg, auth, pushed, eaten, window>>

\* The subnet check answers (validateSubnets) and, if it allows the host, the
\* socket starts to connect.
Connect ==
    /\ tcp = "idle" /\ answer = "none" /\ browser
    /\ \/ tcp' = "connecting" /\ connectTimer' = TRUE /\ UNCHANGED answer
       \/ answer' = "error" /\ UNCHANGED <<tcp, connectTimer>>
    /\ shellUnchanged
    /\ UNCHANGED <<config, pooled, paused, wire, sent, outputs, resizes, browser>>

\* The timer, or an error event: the socket is destroyed and connect() fails.
ConnectFails ==
    /\ tcp = "connecting"
    /\ tcp' = "destroyed" /\ answer' = "error" /\ connectTimer' = FALSE
    /\ shellUnchanged
    /\ UNCHANGED <<config, pooled, paused, wire, sent, outputs, resizes, browser>>

\* The socket is paused, so that no byte comes before shell() listens.
Connected ==
    /\ tcp = "connecting"
    /\ tcp' = "open" /\ paused' = TRUE /\ pooled' = TRUE
    /\ answer' = "ok" /\ connectTimer' = FALSE
    /\ shellUnchanged
    /\ UNCHANGED <<config, wire, sent, outputs, resizes, browser>>

-------------------------------------------------------------------------------
(* shell() *)

\* The pool is asked, not the socket: the shell of a connection whose socket has
\* gone since connect() is opened too.
Shell ==
    /\ browser /\ pooled /\ stream = "none"
    /\ \E size \in WindowSizes :
         neg' = buildProactiveOffers(NewNegotiator(size[1], size[2])).neg
    /\ stream' = "open" /\ listening' = TRUE /\ paused' = FALSE
    /\ auth' = buildAuthenticator(config)
    /\ UNCHANGED <<config, tcp, connectTimer, answer, pooled, needsDrain, wire, sent, pushed, eaten,
                   window, outputs, resizes, browser>>

\* pushData(): push() may return false, which pauses the socket.
PushData(bytes) ==
    /\ pushed' = pushed \o bytes
    /\ \/ UNCHANGED <<needsDrain, paused>>
       \/ /\ bytes # << >> /\ ~needsDrain
          /\ needsDrain' = TRUE /\ paused' = TRUE

\* Where the last window size starts among the responses, 0 for nowhere.
LastNaws(bytes) ==
    LET starts == {i \in 1 .. Len(bytes) - 2 : SubSeq(bytes, i, i + 2) = <<IAC, SB, NAWS>>}
    IN  IF starts = {} THEN << >>
        ELSE SubSeq(bytes, CHOOSE i \in starts : \A j \in starts : j <= i, Len(bytes))

\* handleSocketData(): the negotiator, then the authenticator while it waits.
SocketData ==
    /\ tcp = "open" /\ ~paused /\ listening /\ wire # << >>
    /\ \E n \in 1 .. Len(wire) :
         LET out == processInbound(neg, SubSeq(wire, 1, n))
             res == processData(auth, out.clean)
         IN  /\ wire' = SubSeq(wire, n + 1, Len(wire))
             /\ neg' = out.neg
             /\ window' = IF LastNaws(out.responses) = << >> THEN window ELSE LastNaws(out.responses)
             /\ IF out.clean = << >>
                THEN UNCHANGED <<auth, eaten, pushed, needsDrain, paused>>
                ELSE /\ auth' = res.auth
                     /\ eaten' = IF res.write = << >> THEN eaten
                                 ELSE eaten + Len(auth.buffer) + Len(out.clean)
                     /\ PushData(res.forward)
    /\ UNCHANGED <<config, tcp, connectTimer, answer, pooled, stream, listening, sent, outputs,
                   resizes, browser>>

\* The socket has been resumed and nobody listens: the bytes are gone.
SocketDataUnread ==
    /\ tcp = "open" /\ ~paused /\ ~listening /\ wire # << >>
    /\ wire' = << >>
    /\ UNCHANGED <<config, tcp, connectTimer, answer, pooled, paused, sent, outputs, resizes, browser>>
    /\ shellUnchanged

\* _read(): the consumer wants more.
StreamRead ==
    /\ stream = "open" /\ needsDrain
    /\ needsDrain' = FALSE /\ paused' = FALSE
    /\ UNCHANGED <<config, tcp, connectTimer, answer, pooled, stream, listening, neg, auth, wire,
                   sent, pushed, eaten, window, outputs, resizes, browser>>

\* Seeded fault: the login passes through and what was buffered is forgotten.
AuthTimeoutForgets ==
    /\ auth.timeout
    /\ auth' = [auth EXCEPT !.timeout = FALSE, !.buffer = << >>,
                            !.state = IF @ \in Waiting THEN "pass-through" ELSE @]
    /\ UNCHANGED <<config, tcp, connectTimer, answer, pooled, paused, stream, needsDrain, listening,
                   neg, wire, sent, pushed, eaten, window, outputs, resizes, browser>>

\* Seeded fault: only the state before the password times out.
AuthTimeoutLogin ==
    /\ auth.timeout
    /\ IF auth.state = "waiting-login"
       THEN /\ auth' = [auth EXCEPT !.timeout = FALSE, !.state = "pass-through", !.buffer = << >>]
            /\ PushData(auth.buffer)
       ELSE /\ auth' = [auth EXCEPT !.timeout = FALSE]
            /\ UNCHANGED <<pushed, needsDrain, paused>>
    /\ UNCHANGED <<config, tcp, connectTimer, answer, pooled, stream, listening, neg, wire, sent,
                   eaten, window, outputs, resizes, browser>>

\* The timer of startTimeout(): a login that still waits passes through.
AuthTimeout ==
    /\ auth.timeout
    /\ IF auth.state \in Waiting
       THEN /\ auth' = [auth EXCEPT !.timeout = FALSE, !.state = "pass-through", !.buffer = << >>]
            /\ PushData(auth.buffer)
       ELSE /\ auth' = [auth EXCEPT !.timeout = FALSE]
            /\ UNCHANGED <<pushed, needsDrain, paused>>
    /\ UNCHANGED <<config, tcp, connectTimer, answer, pooled, stream, listening, neg, wire, sent,
                   eaten, window, outputs, resizes, browser>>

\* settleAuthResult()
AuthSettle ==
    /\ auth.settle
    /\ IF auth.state = "waiting-result"
       THEN /\ auth' = [auth EXCEPT !.state = "authenticated", !.buffer = << >>, !.timeout = FALSE,
                                    !.settle = FALSE]
            /\ PushData(auth.buffer)
       ELSE /\ auth' = [auth EXCEPT !.settle = FALSE]   \* the timer has fired
            /\ UNCHANGED <<pushed, needsDrain, paused>>
    /\ UNCHANGED <<config, tcp, connectTimer, answer, pooled, stream, listening, neg, wire, sent,
                   eaten, window, outputs, resizes, browser>>

\* cleanup() of the shell and the destruction of its stream.
EndShell ==
    /\ listening' = FALSE /\ auth' = destroy(auth)
    /\ stream' = IF stream = "open" THEN "destroyed" ELSE stream

\* The stream is closed from the browser's side; the socket stays.
StreamClose ==
    /\ stream = "open" /\ EndShell
    /\ UNCHANGED <<config, tcp, connectTimer, answer, pooled, paused, needsDrain, neg, wire, sent,
                   pushed, eaten, window, outputs, resizes, browser>>

\* The host or the network ends the socket; the pool entry stays.
SocketEnds ==
    /\ tcp = "open" /\ tcp' = "destroyed" /\ wire' = << >>
    /\ EndShell
    /\ UNCHANGED <<config, connectTimer, answer, pooled, paused, needsDrain, neg, sent, pushed,
                   eaten, window, outputs, resizes, browser>>

-------------------------------------------------------------------------------
(* resize() and disconnect() *)

\* The size is stored, and written whether the host asked for it or not.
resize(size) ==
    /\ pooled
    /\ neg' = [neg EXCEPT !.cols = size[1], !.rows = size[2]]
    /\ window' = IF tcp = "open" THEN encodeNaws(size[1], size[2]) ELSE window

\* resizeTelnet() of the socket adapter; what the service answers is only logged.
resizeTelnet ==
    /\ browser /\ stream # "none" /\ resizes < MaxResize
    /\ \E size \in WindowSizes : resize(size)
    /\ resizes' = resizes + 1
    /\ UNCHANGED <<config, tcp, connectTimer, answer, pooled, paused, stream, needsDrain, listening,
                   auth, wire, sent, pushed, eaten, outputs, browser>>

\* handleDisconnect() of the adapter, which knows the connection once connect()
\* has answered; the socket's close event then ends the shell.
Disconnect ==
    /\ browser /\ browser' = FALSE
    /\ IF pooled
       THEN /\ tcp' = "destroyed" /\ pooled' = FALSE /\ wire' = << >>
            /\ EndShell
       ELSE UNCHANGED <<tcp, pooled, wire, listening, auth, stream>>
    /\ UNCHANGED <<config, connectTimer, answer, paused, needsDrain, neg, sent, pushed, eaten,
                   window, outputs, resizes>>

\* External: the host writes data or a command.
HostWrites ==
    /\ tcp = "open" /\ outputs < MaxOutput
    /\ \E h \in HostOutput : wire' = wire \o h.wire /\ sent' = sent \o h.data
    /\ outputs' = outputs + 1
    /\ UNCHANGED <<config, tcp, connectTimer, answer, pooled, paused, resizes, browser>>
    /\ shellUnchanged

TelnetNext ==
    \/ Connect \/ ConnectFails \/ Connected \/ Shell \/ SocketData \/ SocketDataUnread
    \/ StreamRead \/ AuthTimeout \/ AuthSettle \/ StreamClose \/ SocketEnds \/ resizeTelnet
    \/ Disconnect \/ HostWrites

TelnetSpec == TelnetInit /\ [][TelnetNext]_telnetVars

\* Timers fire and TCP ends or fails a connection attempt.
FairTelnetSpec ==
    TelnetSpec /\ WF_telnetVars(AuthTimeout) /\ WF_telnetVars(AuthSettle)
               /\ WF_telnetVars(ConnectFails \/ Connected)

-------------------------------------------------------------------------------
(* Properties *)

\* What the browser has been shown, followed by what the login still holds back, is
\* all the host wrote after the prompts that the login took: through negotiation,
\* packets that split a command, the login, its timers and the pauses of the socket no
\* byte is lost, doubled or reordered.  After a failure message it is only an end of it
\* (createSocketDataHandler, processData).
OutputReachesBrowser ==
    listening /\ tcp = "open" /\ wire = << >> =>
        IF auth.state = "failed" THEN IsSuffix(pushed, sent)
        ELSE pushed \o auth.buffer = SubSeq(sent, eaten + 1, Len(sent))

\* Once the shell is over no timer of the login is left to push into the destroyed
\* stream and nothing listens to the socket (cleanup(), disconnect()).
EndedShellIsQuiet ==
    stream = "destroyed" => ~listening /\ ~auth.timeout /\ ~auth.settle

\* A login that waits ends: by its patterns, by a full buffer, by a timer or with
\* the shell (startTimeout).
LoginEnds == [](stream = "open" => <>(auth.state \notin Waiting \/ stream # "open"))
=============================================================================
