---------------------------- MODULE SocketSession ----------------------------
(***************************************************************************)
(* Browser sockets on top of SshService: ServiceSocketAdapter with its     *)
(* authentication, terminal and control handlers, the cache of AuthService *)
(* and the registry of TerminalService.  Sockets run concurrently and      *)
(* share the services.                                                     *)
(*                                                                         *)
(* Every AUTH event is an attempt, an element of Conns.  What a handler    *)
(* does between two turns of the event loop is one step: authenticate()    *)
(* and the call of connect() follow an AUTH event without another turn,    *)
(* and the rest of handleAuthentication follows the event that settled     *)
(* the promise before any other socket, client or timer gets a turn.       *)
(***************************************************************************)
EXTENDS SshService

CONSTANT Sockets      \* browser sockets

VARIABLES
    sock,          \* "open" until the disconnect event
    connectionId,  \* state.connectionId of the socket's adapter
    sessionId,     \* state.sessionId
    shellStream,   \* state.shellStream, named by its connection
    flow,          \* handleAuthentication of an attempt: "idle", "waiting", "done"
    by,            \* the socket that made the attempt
    login,         \* the username of the attempt
    opening,       \* <<socket, connection>>: shell() awaits the client
    streams,       \* <<socket, connection>>: open shells with their handlers
    stranded,      \* history: connections whose id no disconnect handler will find
    terminals,     \* sessions in TerminalService's registry
    authCache,     \* AuthService.authCache: "unused", "cached" or "expired"
    cachedUser     \* username of the entry

adapterVars == <<sock, connectionId, sessionId, shellStream, flow, by, login,
                 opening, streams, stranded>>
authVars == <<authCache, cachedUser>>
socketVars == <<sshVars, adapterVars, terminals, authVars>>

SocketInit ==
    /\ SshInit
    /\ sock = [k \in Sockets |-> "open"]
    /\ connectionId = [k \in Sockets |-> None]
    /\ sessionId = [k \in Sockets |-> None]
    /\ shellStream = [k \in Sockets |-> None]
    /\ flow = [c \in Conns |-> "idle"]
    /\ by = [c \in Conns |-> None]
    /\ login = [c \in Conns |-> None]
    /\ opening = {}
    /\ streams = {}
    /\ stranded = {}
    /\ terminals = {}
    /\ authCache = [s \in Sessions |-> "unused"]
    /\ cachedUser = [s \in Sessions |-> None]

\* The attempts whose handler runs before the event loop takes another turn.
resuming == {c \in Conns : flow[c] = "waiting" /\ promise[c] \in {"ok", "err"}}

-------------------------------------------------------------------------------
(***************************************************************************)
(* The AUTH event.                                                         *)
(***************************************************************************)

\* Seeded fault: any live entry answers, whoever it was made for.
findCachedSessionOther(u) == {s \in Sessions : authCache[s] = "cached"}

\* AuthService.findCachedSession: a live entry of the same username.
findCachedSession(u) == {s \in Sessions : authCache[s] = "cached" /\ cachedUser[s] = u}

\* connect() is called for user u in session s; the handler awaits its promise.
callConnect(k, c, u, s) ==
    /\ promise' = [promise EXCEPT ![c] = "validating"]
    /\ owner' = [owner EXCEPT ![c] = s]
    /\ by' = [by EXCEPT ![c] = k]
    /\ login' = [login EXCEPT ![c] = u]
    /\ flow' = [flow EXCEPT ![c] = "waiting"]
    /\ UNCHANGED <<timer, client, ending, status, pool, sessionConnections>>
    /\ UNCHANGED <<sock, connectionId, sessionId, shellStream, opening, streams, stranded,
                   terminals>>

\* Seeded fault: issueNewSession() is called although a live entry exists.
AuthIssueNewAlways(k, c, u) ==
    /\ \E s \in Sessions :
          /\ authCache[s] = "unused"
          /\ sessions' = sessions \cup {s}
          /\ states' = statesAfterIssue(s, u)
          /\ authCache' = [authCache EXCEPT ![s] = "cached"]
          /\ cachedUser' = [cachedUser EXCEPT ![s] = u]
          /\ callConnect(k, c, u, s)

\* authenticate() finds no live entry: a fresh session id, stored and cached.
AuthIssueNew(k, c, u) ==
    /\ findCachedSession(u) = {}
    /\ \E s \in Sessions :
          /\ authCache[s] = "unused"
          /\ sessions' = sessions \cup {s}
          /\ states' = statesAfterIssue(s, u)
          /\ authCache' = [authCache EXCEPT ![s] = "cached"]
          /\ cachedUser' = [cachedUser EXCEPT ![s] = u]
          /\ callConnect(k, c, u, s)

\* authenticate() answers with the cached session; the store is not touched.
AuthUseCached(k, c, u) ==
    \E s \in findCachedSession(u) :
        /\ callConnect(k, c, u, s)
        /\ UNCHANGED <<sessions, states, authVars>>

Auth(k, c, u) ==
    /\ resuming = {}
    /\ sock[k] = "open"
    /\ promise[c] = "idle"
    /\ AuthIssueNew(k, c, u) \/ AuthUseCached(k, c, u)

\* What storing the id of c leaves to nobody: c itself, on a socket that is
\* gone, or the connection of an earlier login, whose id is overwritten.
strandedBy(c) ==
    IF sock[by[c]] = "closed" THEN {c} ELSE {connectionId[by[c]]} \ {None}

\* Seeded fault: a second login of the socket keeps the first session id.
AuthFinishKeepsSession(c) ==
    /\ c \in resuming
    /\ flow' = [flow EXCEPT ![c] = "done"]
    /\ IF promise[c] = "ok"
       THEN /\ connectionId' = [connectionId EXCEPT ![by[c]] = c]
            /\ sessionId' = [sessionId EXCEPT ![by[c]] = IF @ = None THEN owner[c] ELSE @]
            /\ stranded' = stranded \cup strandedBy(c)
       ELSE UNCHANGED <<connectionId, sessionId, stranded>>
    /\ UNCHANGED <<sshVars, sock, shellStream, by, login, opening, streams, terminals, authVars>>

\* The rest of handleAuthentication: finalizeAuthentication, or the error is
\* reported.  Neither asks whether the socket is still there.
AuthFinish(c) ==
    /\ c \in resuming
    /\ flow' = [flow EXCEPT ![c] = "done"]
    /\ IF promise[c] = "ok"
       THEN /\ connectionId' = [connectionId EXCEPT ![by[c]] = c]
            /\ sessionId' = [sessionId EXCEPT ![by[c]] = owner[c]]
            /\ stranded' = stranded \cup strandedBy(c)
       ELSE UNCHANGED <<connectionId, sessionId, stranded>>
    /\ UNCHANGED <<sshVars, sock, shellStream, by, login, opening, streams, terminals, authVars>>

\* Time passes: an entry of the cache expires.
CacheExpires(s) ==
    /\ resuming = {}
    /\ authCache[s] = "cached"
    /\ authCache' = [authCache EXCEPT ![s] = "expired"]
    /\ UNCHANGED <<sshVars, adapterVars, terminals, cachedUser>>

-------------------------------------------------------------------------------
(***************************************************************************)
(* The TERMINAL and RESIZE events.                                         *)
(***************************************************************************)

\* TerminalService.create: an existing terminal is returned as it is.
createTerminal(s, t) ==
    /\ terminals' = terminals \cup {s}
    /\ states' = IF s \in terminals THEN states
                 ELSE dispatch(sessions, states, s, TerminalInit(t))

\* handleTerminal up to the answer of the client: without a session and a
\* connection it does nothing, and shell() refuses an unusable connection.
Terminal(k, t) ==
    /\ resuming = {}
    /\ sock[k] = "open"
    /\ sessionId[k] # None /\ connectionId[k] # None
    /\ createTerminal(sessionId[k], t)
    /\ opening' = IF usable(connectionId[k]) THEN opening \cup {<<k, connectionId[k]>>}
                  ELSE opening
    /\ UNCHANGED <<promise, timer, client, ending, owner, status, pool, sessionConnections,
                   sessions, sock, connectionId, sessionId, shellStream, flow, by, login, streams,
                   stranded, authVars>>

\* The client opened the channel: setupShellDataFlow, also on a closed socket.
ShellOpened(k, c) ==
    /\ resuming \subseteq {c}
    /\ <<k, c>> \in opening
    /\ client[c] = "ready"
    /\ opening' = opening \ {<<k, c>>}
    /\ streams' = streams \cup {<<k, c>>}
    /\ shellStream' = [shellStream EXCEPT ![k] = c]
    /\ UNCHANGED <<sshVars, sock, connectionId, sessionId, flow, by, login, stranded, terminals,
                   authVars>>

\* The channel could not be opened: the error is reported.
ShellFails(k, c) ==
    /\ resuming \subseteq {c}
    /\ <<k, c>> \in opening
    /\ opening' = opening \ {<<k, c>>}
    /\ UNCHANGED <<sshVars, sock, connectionId, sessionId, shellStream, flow, by, login, streams,
                   stranded, terminals, authVars>>

\* handleResize: TerminalService.resize refuses an unknown terminal.
Resize(k, t) ==
    /\ resuming = {}
    /\ sock[k] = "open"
    /\ sessionId[k] \in terminals
    /\ states' = dispatch(sessions, states, sessionId[k], TerminalResize(t))
    /\ UNCHANGED <<promise, timer, client, ending, owner, status, pool, sessionConnections,
                   sessions, adapterVars, terminals, authVars>>

-------------------------------------------------------------------------------
(***************************************************************************)
(* The end of a socket.                                                    *)
(***************************************************************************)

\* Seeded fault: ssh.disconnect() is not called.
handleDisconnectLeavesSsh(k) ==
    /\ sock' = [sock EXCEPT ![k] = "closed"]
    /\ connectionId' = [connectionId EXCEPT ![k] = None]
    /\ sessionId' = [sessionId EXCEPT ![k] = None]
    /\ shellStream' = [shellStream EXCEPT ![k] = None]
    /\ UNCHANGED <<ending, pool, sessionConnections, terminals, states, sessions>>

\* SessionService.delete() empties the record of the store and removes the id.
deleteSession(s, stored) ==
    /\ states' = [stored EXCEPT ![s] = createInitialState]
    /\ sessions' = sessions \ {s}

\* handleDisconnect of the control handler: ssh.disconnect(), terminal.destroy(),
\* session.delete(), and the adapter forgets its ids.
handleDisconnect(k) ==
    LET c == connectionId[k]
        s == sessionId[k]
    IN  /\ sock' = [sock EXCEPT ![k] = "closed"]
        /\ IF c = None THEN UNCHANGED <<ending, pool, sessionConnections>>
                       ELSE endConnections({c})
        /\ IF s = None THEN UNCHANGED <<terminals, states, sessions>>
           ELSE /\ terminals' = terminals \ {s}
                /\ deleteSession(s, statesAfterDisconnect(c))
        /\ connectionId' = [connectionId EXCEPT ![k] = None]
        /\ sessionId' = [sessionId EXCEPT ![k] = None]
        /\ shellStream' = [shellStream EXCEPT ![k] = None]

\* The disconnect event of the browser.
SocketDisconnect(k) ==
    /\ resuming = {}
    /\ sock[k] = "open"
    /\ handleDisconnect(k)
    /\ UNCHANGED <<promise, timer, client, owner, status, flow, by, login, opening, streams, stranded,
                   authVars>>

\* The close handler of a shell: socket.disconnect() runs the disconnect
\* handlers, unless the socket was closed before.
StreamClose(k, c) ==
    /\ resuming \subseteq {c}
    /\ <<k, c>> \in streams
    /\ streams' = streams \ {<<k, c>>}
    /\ IF sock[k] = "open" THEN handleDisconnect(k)
       ELSE UNCHANGED <<sock, ending, pool, sessionConnections, terminals, states, sessions,
                        connectionId, sessionId, shellStream>>
    /\ UNCHANGED <<promise, timer, client, owner, status, flow, by, login, opening, stranded, authVars>>

-------------------------------------------------------------------------------
\* A turn of the event loop for the name lookup, the timer or the client of c.
\* Only the client's own events can come before AuthFinish(c).
SshTurn(c) ==
    /\ \/ resuming = {} /\ (ValidationFails(c) \/ StartClient(c) \/ ClientConnectThrows(c))
       \/ resuming = {} /\ ConnectTimeout(c)
       \/ resuming \subseteq {c} /\ (ClientReady(c) \/ ClientError(c) \/ ClientClose(c))
    /\ UNCHANGED <<adapterVars, terminals, authVars>>

SocketNext ==
    \/ \E c \in Conns : SshTurn(c) \/ AuthFinish(c)
    \/ \E k \in Sockets :
          \/ \E c \in Conns, u \in Users : Auth(k, c, u)
          \/ \E t \in Terms : Terminal(k, t) \/ Resize(k, t)
          \/ \E c \in Conns : ShellOpened(k, c) \/ ShellFails(k, c) \/ StreamClose(k, c)
          \/ SocketDisconnect(k)
    \/ \E s \in Sessions : CacheExpires(s)

(***************************************************************************)
(* Fairness: that of SshService; a resumed handler runs; ssh2 answers or   *)
(* fails a shell request, and closes the channels of a closed client.      *)
(* Nothing is assumed of the browser or of the SSH server.                 *)
(***************************************************************************)
SocketFairness ==
    /\ \A c \in Conns :
          /\ WF_socketVars(SshTurn(c) /\ promise[c] = "validating")
          /\ WF_socketVars(SshTurn(c) /\ ConnectTimeout(c))
          /\ WF_socketVars(SshTurn(c) /\ ending[c] /\ ClientClose(c))
          /\ WF_socketVars(AuthFinish(c))
    /\ \A k \in Sockets, c \in Conns :
          /\ WF_socketVars(ShellOpened(k, c) \/ ShellFails(k, c))
          /\ WF_socketVars(client[c] = "closed" /\ StreamClose(k, c))

SocketSpec == SocketInit /\ [][SocketNext]_socketVars /\ SocketFairness

-------------------------------------------------------------------------------
(***************************************************************************)
(* Properties.                                                             *)
(***************************************************************************)

\* The connection a socket holds is its own: it came from an AUTH event of
\* this socket, it was opened for the session the socket holds, and no two
\* sockets hold one connection, whatever sessions they share.
SocketHoldsItsOwn ==
    \A k \in Sockets :
        /\ (connectionId[k] = None) = (sessionId[k] = None)
        /\ connectionId[k] # None =>
              /\ by[connectionId[k]] = k
              /\ owner[connectionId[k]] = sessionId[k]

\* The cache has at most one live session per user: logins of one user never
\* end up in two sessions at a time.
OneLiveSessionPerUser ==
    \A s, t \in Sessions :
        authCache[s] = "cached" /\ authCache[t] = "cached" /\ cachedUser[s] = cachedUser[t]
            => s = t

\* A login never lands in a session of another user: the session of an attempt
\* was issued to the username of the attempt, and while the store holds the
\* session it names that user, through every reuse, error and close.
SessionKeepsItsUser ==
    \A c \in Conns :
        by[c] # None =>
            /\ cachedUser[owner[c]] = login[c]
            /\ owner[c] \in sessions => states[owner[c]].auth.username = login[c]

\* A pooled connection is ended when its browser goes: its login is still to be
\* finalised, or its socket is open and holds the id for handleDisconnect().  The
\* exception is exact: the connections that finalizeAuthentication strands, by
\* storing the id in a socket that is gone or over the id of an earlier login.
\* No error, close, cached session or disconnect of another socket adds one.
PooledIsKnown ==
    \A c \in pool :
        \/ flow[c] = "waiting"
        \/ sock[by[c]] = "open" /\ connectionId[by[c]] = c
        \/ c \in stranded

=============================================================================
