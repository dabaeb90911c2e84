------------------------------ MODULE SshService ------------------------------
(***************************************************************************)
(* The life of SSH connections in app/services/ssh: connect() with its     *)
(* service timer, the ready, error and close handlers of the ssh2 client,  *)
(* the connection pool, disconnect() and the session-store slices these    *)
(* handlers write.                                                         *)
(*                                                                         *)
(* Every call of connect() is an element of Conns; it makes at most one    *)
(* client and one connection, so the connection is named by the attempt.   *)
(* The ssh2 client is external: it may become ready, fail any number of    *)
(* times and close once, in every order, also after end() was called.      *)
(***************************************************************************)
EXTENDS SessionReducers

CONSTANT Sessions     \* session ids

ASSUME NoneAssumption == None \notin Conns \cup Sessions \cup Users

VARIABLES
    promise,            \* the promise connect() returned, per attempt
    timer,              \* is the service's connect timer armed?
    client,             \* the ssh2 client: what it has emitted so far
    ending,             \* is the client going down (end() called, or it failed)?
    owner,              \* config.sessionId of the attempt
    status,             \* connection.status
    pool,               \* keys of ConnectionPool.connections
    sessionConnections, \* ConnectionPool.sessionConnections
    sessions,           \* keys of SessionStore.states
    states              \* values of SessionStore.states

sshVars == <<promise, timer, client, ending, owner, status, pool,
             sessionConnections, sessions, states>>

(***************************************************************************)
(* The type invariant.                                                     *)
(***************************************************************************)
SshTypeOK ==
    /\ promise \in [Conns -> {"idle", "validating", "pending", "ok", "err"}]
    /\ timer \in [Conns -> BOOLEAN]
    /\ client \in [Conns -> {"none", "connecting", "ready", "closed"}]
    /\ ending \in [Conns -> BOOLEAN]
    /\ owner \in [Conns -> Sessions \cup {None}]
    /\ status \in [Conns -> {"connecting", "connected", "error"}]
    /\ pool \in SUBSET Conns
    /\ sessionConnections \in [Sessions -> SUBSET Conns]
    /\ sessions \in SUBSET Sessions
    /\ states \in [Sessions -> SessionState]

SshInit ==
    /\ promise = [c \in Conns |-> "idle"]
    /\ timer = [c \in Conns |-> FALSE]
    /\ client = [c \in Conns |-> "none"]
    /\ ending = [c \in Conns |-> FALSE]
    /\ owner = [c \in Conns |-> None]
    /\ status = [c \in Conns |-> "connecting"]
    /\ pool = {}
    /\ sessionConnections = [s \in Sessions |-> {}]
    /\ sessions = {}
    /\ states = [s \in Sessions |-> createInitialState]

-------------------------------------------------------------------------------
(***************************************************************************)
(* Building blocks of the handlers.                                        *)
(***************************************************************************)

\* settle(): the first result wins and disarms the timer.
settle(c, result) ==
    IF promise[c] = "pending"
    THEN /\ promise' = [promise EXCEPT ![c] = result]
         /\ timer' = [timer EXCEPT ![c] = FALSE]
    ELSE UNCHANGED <<promise, timer>>

\* ConnectionPool.add
poolAdd(c) ==
    /\ pool' = pool \cup {c}
    /\ sessionConnections' = [sessionConnections EXCEPT ![owner[c]] = @ \cup {c}]

\* ConnectionPool.remove, of every connection in C: an id the pool does not
\* hold is ignored.
poolRemove(C) ==
    /\ pool' = pool \ C
    /\ sessionConnections' =
          [s \in Sessions |-> sessionConnections[s] \ {c \in C \cap pool : owner[c] = s}]

-------------------------------------------------------------------------------
(***************************************************************************)
(* connect()                                                               *)
(***************************************************************************)

\* The call, up to its await of the subnet validation.
Connect(c, s) ==
    /\ promise[c] = "idle"
    /\ promise' = [promise EXCEPT ![c] = "validating"]
    /\ owner' = [owner EXCEPT ![c] = s]
    /\ UNCHANGED <<timer, client, ending, status, pool, sessionConnections, sessions, states>>

\* The host is not permitted, or cannot be resolved.
ValidationFails(c) ==
    /\ promise[c] = "validating"
    /\ promise' = [promise EXCEPT ![c] = "err"]
    /\ UNCHANGED <<timer, client, ending, owner, status, pool, sessionConnections,
                   sessions, states>>

\* The host is permitted: arm the timer, register the handlers, connect.
StartClient(c) ==
    /\ promise[c] = "validating"
    /\ promise' = [promise EXCEPT ![c] = "pending"]
    /\ timer' = [timer EXCEPT ![c] = TRUE]
    /\ client' = [client EXCEPT ![c] = "connecting"]
    /\ UNCHANGED <<ending, owner, status, pool, sessionConnections, sessions, states>>

\* client.connect() throws: the armed timer is disarmed by settle().
ClientConnectThrows(c) ==
    /\ promise[c] = "validating"
    /\ promise' = [promise EXCEPT ![c] = "err"]
    /\ UNCHANGED <<timer, client, ending, owner, status, pool, sessionConnections,
                   sessions, states>>

\* Seeded fault: the timeout does not end the client.
ConnectTimeoutWithoutEnd(c) ==
    /\ timer[c]
    /\ promise[c] = "pending"
    /\ poolRemove({c})
    /\ settle(c, "err")
    /\ UNCHANGED <<ending, client, owner, status, sessions, states>>

\* The service timer fires before the promise settled.
ConnectTimeout(c) ==
    /\ timer[c]
    /\ promise[c] = "pending"
    /\ ending' = [ending EXCEPT ![c] = TRUE]
    /\ poolRemove({c})
    /\ settle(c, "err")
    /\ UNCHANGED <<client, owner, status, sessions, states>>

-------------------------------------------------------------------------------
(***************************************************************************)
(* The handlers of the client's events.                                    *)
(***************************************************************************)

\* What the ready handler does with a connection it accepts.
establish(c, id) ==
    /\ status' = [status EXCEPT ![c] = "connected"]
    /\ poolAdd(c)
    /\ states' = dispatch(sessions, states, owner[c], ConnectionEstablished(id))
    /\ settle(c, "ok")

\* Seeded fault: the isSettled() check is missing.
ClientReadyUngated(c) ==
    /\ client[c] = "connecting"
    /\ client' = [client EXCEPT ![c] = "ready"]
    /\ establish(c, c)
    /\ UNCHANGED <<ending, owner, sessions>>

\* createReadyHandler: a ready event after the promise settled is ignored.
ClientReady(c) ==
    /\ client[c] = "connecting"
    /\ client' = [client EXCEPT ![c] = "ready"]
    /\ IF promise[c] = "pending"
       THEN establish(c, c)
       ELSE UNCHANGED <<status, pool, sessionConnections, states, promise, timer>>
    /\ UNCHANGED <<ending, owner, sessions>>

\* Seeded fault: connection.status is not set to 'error'.
ClientErrorKeepsStatus(c) ==
    /\ client[c] \in {"connecting", "ready"}
    /\ ending' = [ending EXCEPT ![c] = TRUE]
    /\ states' = dispatch(sessions, states, owner[c], ConnectionError)
    /\ settle(c, "err")
    /\ UNCHANGED <<client, owner, status, pool, sessionConnections, sessions>>

\* createErrorHandler: not gated on the promise.
ClientError(c) ==
    /\ client[c] \in {"connecting", "ready"}
    /\ ending' = [ending EXCEPT ![c] = TRUE]
    /\ status' = [status EXCEPT ![c] = "error"]
    /\ states' = dispatch(sessions, states, owner[c], ConnectionError)
    /\ settle(c, "err")
    /\ UNCHANGED <<client, owner, pool, sessionConnections, sessions>>

\* createCloseHandler: it does not settle the promise.
ClientClose(c) ==
    /\ client[c] \in {"connecting", "ready"}
    /\ client' = [client EXCEPT ![c] = "closed"]
    /\ poolRemove({c})
    /\ states' = dispatch(sessions, states, owner[c], ConnectionClosed)
    /\ UNCHANGED <<promise, timer, ending, owner, status, sessions>>

-------------------------------------------------------------------------------
(***************************************************************************)
(* Operations on established connections.  A caller knows the id of a      *)
(* connection from the result of connect().                                *)
(***************************************************************************)

\* disconnect() of the connections in C: end the pooled ones, drop them from
\* the pool.
endConnections(C) ==
    /\ ending' = [c \in Conns |-> ending[c] \/ c \in C \cap pool]
    /\ poolRemove(C)

\* What disconnect(c) leaves in the store: the session of a pooled connection
\* is told that its connection closed.
statesAfterDisconnect(c) ==
    IF c \in pool THEN dispatch(sessions, states, owner[c], ConnectionClosed) ELSE states

Disconnect(c) ==
    /\ promise[c] = "ok"
    /\ endConnections({c})
    /\ states' = statesAfterDisconnect(c)
    /\ UNCHANGED <<promise, timer, client, owner, status, sessions>>

\* ConnectionPool.getBySession
getBySession(s) == sessionConnections[s] \cap pool

\* disconnectSession(): disconnect() for each connection of the session.
DisconnectSession(s) ==
    /\ getBySession(s) # {}
    /\ endConnections(getBySession(s))
    /\ states' = dispatch(sessions, states, s, ConnectionClosed)
    /\ UNCHANGED <<promise, timer, client, owner, status, sessions>>

\* cleanup(): ConnectionPool.clear ends every client; the store is not told.
Cleanup ==
    /\ pool # {}
    /\ ending' = [c \in Conns |-> ending[c] \/ c \in pool]
    /\ pool' = {}
    /\ sessionConnections' = [s \in Sessions |-> {}]
    /\ UNCHANGED <<promise, timer, client, owner, status, sessions, states>>

\* shell() and exec() answer an error unless this holds; then they use the
\* client.
usable(c) == c \in pool /\ status[c] = "connected"

-------------------------------------------------------------------------------
(***************************************************************************)
(* What the other services do to the store.                                *)
(***************************************************************************)

\* AuthService.issueNewSession
statesAfterIssue(s, u) ==
    LET created == [states EXCEPT ![s] = createInitialState]
        ids     == sessions \cup {s}
    IN dispatch(ids, dispatch(ids, created, s, AuthSuccess(u)), s, ConnectionStart)

OpenSession(s, u) ==
    /\ s \notin sessions
    /\ sessions' = sessions \cup {s}
    /\ states' = statesAfterIssue(s, u)
    /\ UNCHANGED <<promise, timer, client, ending, owner, status, pool, sessionConnections>>

\* SessionStore.removeSession: SESSION_END is dispatched to the listeners, then
\* the key is deleted.
RemoveSession(s) ==
    /\ s \in sessions
    /\ sessions' = sessions \ {s}
    /\ states' = [states EXCEPT ![s] = createInitialState]
    /\ UNCHANGED <<promise, timer, client, ending, owner, status, pool, sessionConnections>>

-------------------------------------------------------------------------------
SshNext ==
    \/ \E c \in Conns :
          \/ \E s \in Sessions : Connect(c, s)
          \/ ValidationFails(c) \/ StartClient(c) \/ ClientConnectThrows(c)
          \/ ConnectTimeout(c)
          \/ ClientReady(c) \/ ClientError(c) \/ ClientClose(c)
          \/ Disconnect(c)
    \/ \E s \in Sessions :
          \/ \E u \in Users : OpenSession(s, u)
          \/ RemoveSession(s)
          \/ DisconnectSession(s)
    \/ Cleanup

(***************************************************************************)
(* Fairness: a name lookup answers, an armed timer fires, and the socket   *)
(* of a client that is going down is closed by the operating system.       *)
(* Nothing is assumed of a peer that stays silent.                         *)
(***************************************************************************)
SshFairness ==
    \A c \in Conns :
        /\ WF_sshVars(ValidationFails(c) \/ StartClient(c) \/ ClientConnectThrows(c))
        /\ WF_sshVars(ConnectTimeout(c))
        /\ WF_sshVars(ending[c] /\ ClientClose(c))

SshSpec == SshInit /\ [][SshNext]_sshVars /\ SshFairness

-------------------------------------------------------------------------------
(***************************************************************************)
(* Properties.                                                             *)
(***************************************************************************)

\* Only a connection whose connect() succeeded is in the pool, and its client
\* is up: the timeout, a late ready event and a close, in any order, never
\* leave an abandoned or dead client there (issue #536).
PooledIsEstablished ==
    \A c \in pool : promise[c] = "ok" /\ client[c] = "ready"

\* A connection that shell() and exec() accept has a client that was neither
\* ended nor has failed.
UsableIsLive ==
    \A c \in Conns : usable(c) => client[c] = "ready" /\ ~ending[c]

\* The per-session index of the pool lists exactly the pooled connections, each
\* under the session it was opened for.
IndexMatchesPool ==
    \A s \in Sessions : sessionConnections[s] = {c \in pool : owner[c] = s}

\* The connection slice conn of session s names no connection that is gone.
NamesRealConnection(conn, s) ==
    /\ conn.status = "connected" => conn.connectionId # None
    /\ conn.connectionId # None =>
          /\ owner[conn.connectionId] = s
          /\ \/ conn.connectionId \in pool
             \/ ending[conn.connectionId] /\ client[conn.connectionId] = "ready"

\* A session that names a connection names one of its own that is pooled, or
\* one that was ended and whose close event is still to come; and a session
\* that reports "connected" names a connection.
StoreNamesRealConnection ==
    \A s \in sessions : NamesRealConnection(states[s].connection, s)

\* Where a call of connect() stands, as its caller sees it.
leaseOf(c) ==
    IF c \in pool THEN "lent"
    ELSE [idle |-> "idle", validating |-> "asked", pending |-> "asked",
          ok |-> "returned", err |-> "refused"][promise[c]]

Lease == INSTANCE ConnectionLease WITH lease <- [c \in Conns |-> leaseOf(c)]

\* A connection is given back for good: the calls of connect(), the pool and
\* the events behave as the leases of ConnectionLease, every call answered.
ImplementsLease == Lease!LeaseSpec

\* No client outlives its use: one whose connect() was given up, or that left
\* the pool, is closed in the end.
UnpooledClientCloses ==
    \A c \in Conns :
        (promise[c] \in {"ok", "err"} /\ c \notin pool /\ client[c] # "none")
            ~> client[c] = "closed"
=============================================================================
