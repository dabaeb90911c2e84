----------------------------- MODULE SocketProofs -----------------------------
(***************************************************************************)
(* Proofs about SshService for every set of connections and sessions, and  *)
(* about SocketSession for every number of sockets, logins and users.  The *)
(* second rest on the inductive invariant of the first: the sockets take   *)
(* steps of the service, and two steps that are more than one of it, the   *)
(* login into a fresh session and the end of a socket.                     *)
(***************************************************************************)
EXTENDS SocketSession, TLAPS

USE NoneAssumption

(***************************************************************************)
(* What the reducers do to the connection slice.                           *)
(***************************************************************************)

\* connectionReducer and authReducer keep a session state well typed under
\* CONNECTION_CLOSED, and no connection is named afterwards.
LEMMA ReduceClosed ==
    ASSUME NEW st \in SessionState
    PROVE  /\ sessionReducer(st, ConnectionClosed) \in SessionState
           /\ sessionReducer(st, ConnectionClosed).connection
                = [status |-> "closed", connectionId |-> None]
  BY DEF SessionState, sessionReducer, authReducer, connectionReducer, terminalReducer,
         ConnectionClosed, AuthStatuses, ConnectionStatuses

\* Under CONNECTION_ERROR the named connection stays and the status is "error".
LEMMA ReduceError ==
    ASSUME NEW st \in SessionState
    PROVE  /\ sessionReducer(st, ConnectionError) \in SessionState
           /\ sessionReducer(st, ConnectionError).connection.status = "error"
           /\ sessionReducer(st, ConnectionError).connection.connectionId
                = st.connection.connectionId
  BY DEF SessionState, sessionReducer, authReducer, connectionReducer, terminalReducer,
         ConnectionError, AuthStatuses, ConnectionStatuses

\* CONNECTION_ESTABLISHED names the connection.
LEMMA ReduceEstablished ==
    ASSUME NEW st \in SessionState, NEW c \in Conns
    PROVE  /\ sessionReducer(st, ConnectionEstablished(c)) \in SessionState
           /\ sessionReducer(st, ConnectionEstablished(c)).connection
                = [status |-> "connected", connectionId |-> c]
  BY DEF SessionState, sessionReducer, authReducer, connectionReducer, terminalReducer,
         ConnectionEstablished, AuthStatuses, ConnectionStatuses

(***************************************************************************)
(* dispatch() changes the state of the one session it is for, and only if  *)
(* the store holds it.                                                     *)
(***************************************************************************)

\* CONNECTION_CLOSED: the session names no connection afterwards.
LEMMA DispatchClosed ==
    ASSUME SshTypeOK, NEW sid \in Sessions,
           states' = dispatch(sessions, states, sid, ConnectionClosed)
    PROVE  /\ states' \in [Sessions -> SessionState]
           /\ \A s \in Sessions : s # sid => states'[s] = states[s]
           /\ sid \in sessions =>
                 states'[sid].connection = [status |-> "closed", connectionId |-> None]
  <1>1. CASE sid \in sessions
    <2>1. states' = [states EXCEPT ![sid] = sessionReducer(states[sid], ConnectionClosed)]
      BY <1>1 DEF dispatch
    <2>2. states \in [Sessions -> SessionState] /\ states[sid] \in SessionState
      BY DEF SshTypeOK
    <2> QED BY <1>1, <2>1, <2>2, ReduceClosed
  <1>2. CASE sid \notin sessions
    BY <1>2 DEF dispatch, SshTypeOK
  <1> QED BY <1>1, <1>2

\* CONNECTION_ERROR: the session still names what it named.
LEMMA DispatchError ==
    ASSUME SshTypeOK, NEW sid \in Sessions,
           states' = dispatch(sessions, states, sid, ConnectionError)
    PROVE  /\ states' \in [Sessions -> SessionState]
           /\ \A s \in Sessions : s # sid => states'[s] = states[s]
           /\ sid \in sessions =>
                 /\ states'[sid].connection.status = "error"
                 /\ states'[sid].connection.connectionId = states[sid].connection.connectionId
  <1>1. CASE sid \in sessions
    <2>1. states' = [states EXCEPT ![sid] = sessionReducer(states[sid], ConnectionError)]
      BY <1>1 DEF dispatch
    <2>2. states \in [Sessions -> SessionState] /\ states[sid] \in SessionState
      BY DEF SshTypeOK
    <2> QED BY <1>1, <2>1, <2>2, ReduceError
  <1>2. CASE sid \notin sessions
    BY <1>2 DEF dispatch, SshTypeOK
  <1> QED BY <1>1, <1>2

\* CONNECTION_ESTABLISHED: the session names the connection.
LEMMA DispatchEstablished ==
    ASSUME SshTypeOK, NEW sid \in Sessions, NEW c \in Conns,
           states' = dispatch(sessions, states, sid, ConnectionEstablished(c))
    PROVE  /\ states' \in [Sessions -> SessionState]
           /\ \A s \in Sessions : s # sid => states'[s] = states[s]
           /\ sid \in sessions =>
                 states'[sid].connection = [status |-> "connected", connectionId |-> c]
  <1>1. CASE sid \in sessions
    <2>1. states' = [states EXCEPT ![sid] = sessionReducer(states[sid], ConnectionEstablished(c))]
      BY <1>1 DEF dispatch
    <2>2. states \in [Sessions -> SessionState] /\ states[sid] \in SessionState
      BY DEF SshTypeOK
    <2> QED BY <1>1, <2>1, <2>2, ReduceEstablished
  <1>2. CASE sid \notin sessions
    BY <1>2 DEF dispatch, SshTypeOK
  <1> QED BY <1>1, <1>2

\* A session AuthService has just issued is well typed and names no connection.
LEMMA Issued ==
    ASSUME NEW s \in Sessions, NEW u \in Users, SshTypeOK
    PROVE  /\ statesAfterIssue(s, u) \in [Sessions -> SessionState]
           /\ \A t \in Sessions : t # s => statesAfterIssue(s, u)[t] = states[t]
           /\ statesAfterIssue(s, u)[s].connection
                 = [status |-> "connecting", connectionId |-> None]
  <1> DEFINE new == [ auth |-> [status |-> "authenticated", username |-> u],
                      connection |-> [status |-> "connecting", connectionId |-> None],
                      terminal |-> DefaultTerm ]
             authed == [ auth |-> [status |-> "authenticated", username |-> u],
                      connection |-> [status |-> "disconnected", connectionId |-> None],
                      terminal |-> DefaultTerm ]
  <1>1. sessionReducer(createInitialState, AuthSuccess(u)) = authed
    BY DEF createInitialState, sessionReducer, authReducer, connectionReducer,
           terminalReducer, AuthSuccess
  <1>2. sessionReducer(authed, ConnectionStart) = new
    BY DEF sessionReducer, authReducer, connectionReducer,
           terminalReducer, ConnectionStart
  <1>3. statesAfterIssue(s, u) = [states EXCEPT ![s] = new]
    BY <1>1, <1>2 DEF statesAfterIssue, dispatch, SshTypeOK
  <1>4. new \in SessionState
    BY DEF SessionState, AuthStatuses, ConnectionStatuses
  <1> QED BY <1>3, <1>4 DEF SshTypeOK

-----------------------------------------------------------------------------
(***************************************************************************)
(* The inductive invariant.  Beyond the properties it says how far an      *)
(* attempt has got: a pending promise has an unpooled client that nobody   *)
(* ended, and only a settled attempt can be ended.                         *)
(***************************************************************************)
AttemptProgress ==
    \A c \in Conns :
        /\ IF promise[c] = "idle" THEN owner[c] = None ELSE owner[c] \in Sessions
        /\ promise[c] \in {"idle", "validating"} => client[c] = "none"
        /\ promise[c] \in {"idle", "validating", "pending"} => ~ending[c]
        /\ promise[c] = "ok" => client[c] # "connecting"

SshInv ==
    /\ SshTypeOK
    /\ AttemptProgress
    /\ PooledIsEstablished
    /\ UsableIsLive
    /\ IndexMatchesPool
    /\ StoreNamesRealConnection

\* A session whose connection slice a step leaves alone still names a real
\* connection, when the step keeps that connection or starts to end it.
LEMMA NamedKept ==
    ASSUME SshTypeOK, NEW t \in sessions,
           NamesRealConnection(states[t].connection, t),
           states'[t].connection = states[t].connection,
           \A c \in Conns : owner[c] = t =>
              /\ owner'[c] = t
              /\ c \in pool => c \in pool' \/ (ending'[c] /\ client'[c] = "ready")
              /\ c \notin pool /\ ending[c] /\ client[c] = "ready" =>
                    c \in pool' \/ (ending'[c] /\ client'[c] = "ready")
    PROVE  NamesRealConnection(states[t].connection, t)'
  <1> DEFINE id == states[t].connection.connectionId
  <1>1. id \in Conns \cup {None}
    BY DEF SshTypeOK, SessionState
  <1>2. states'[t].connection.connectionId = id
    OBVIOUS
  <1>3. CASE id = None
    BY <1>2, <1>3 DEF NamesRealConnection
  <1>4. CASE id # None
    BY <1>1, <1>2, <1>4 DEF NamesRealConnection
  <1> QED BY <1>3, <1>4

\* A session that names no connection.
LEMMA NamedNone ==
    ASSUME NEW t \in Sessions,
           states'[t].connection.connectionId = None,
           states'[t].connection.status # "connected"
    PROVE  NamesRealConnection(states[t].connection, t)'
  BY DEF NamesRealConnection

\* The initial state of the SSH service satisfies the inductive invariant.
LEMMA SshInitInv == SshInit => SshInv
  <1> SUFFICES ASSUME SshInit PROVE SshInv
    OBVIOUS
  <1>1. createInitialState \in SessionState
    BY DEF createInitialState, SessionState, AuthStatuses, ConnectionStatuses
  <1> QED
    BY <1>1 DEF SshInit, SshInv, SshTypeOK, AttemptProgress, PooledIsEstablished,
           UsableIsLive, usable, IndexMatchesPool, StoreNamesRealConnection

(***************************************************************************)
(* Every step keeps the invariant, one step of the proof per action.       *)
(***************************************************************************)
LEMMA SshStepInv == SshInv /\ [SshNext]_sshVars => SshInv'
  <1> SUFFICES ASSUME SshInv, [SshNext]_sshVars PROVE SshInv'
    OBVIOUS
  <1> USE DEF SshInv
  <1>1. ASSUME NEW c \in Conns, NEW s \in Sessions, Connect(c, s) PROVE SshInv'
    <2>1. SshTypeOK' /\ AttemptProgress' /\ PooledIsEstablished' /\ UsableIsLive'
      BY <1>1 DEF Connect, SshTypeOK, AttemptProgress, PooledIsEstablished,
         UsableIsLive, usable
    <2>2. IndexMatchesPool'
      BY <1>1 DEF Connect, SshTypeOK, PooledIsEstablished, IndexMatchesPool
    <2>3. StoreNamesRealConnection'
      BY <1>1, NamedKept DEF Connect, SshTypeOK, AttemptProgress, StoreNamesRealConnection
    <2> QED BY <2>1, <2>2, <2>3
  <1>2. ASSUME NEW c \in Conns, ValidationFails(c) PROVE SshInv'
    <2>1. SshTypeOK' /\ AttemptProgress' /\ PooledIsEstablished' /\ UsableIsLive'
          /\ IndexMatchesPool'
      BY <1>2 DEF ValidationFails, SshTypeOK, AttemptProgress, PooledIsEstablished,
         UsableIsLive, usable, IndexMatchesPool
    <2>2. StoreNamesRealConnection'
      BY <1>2 DEF ValidationFails, StoreNamesRealConnection, NamesRealConnection
    <2> QED BY <2>1, <2>2
  <1>3. ASSUME NEW c \in Conns, StartClient(c) PROVE SshInv'
    <2>1. SshTypeOK' /\ AttemptProgress' /\ PooledIsEstablished' /\ UsableIsLive'
          /\ IndexMatchesPool'
      BY <1>3 DEF StartClient, SshTypeOK, AttemptProgress, PooledIsEstablished,
         UsableIsLive, usable, IndexMatchesPool
    <2>2. StoreNamesRealConnection'
      BY <1>3, NamedKept DEF StartClient, SshTypeOK, AttemptProgress,
         StoreNamesRealConnection
    <2> QED BY <2>1, <2>2
  <1>4. ASSUME NEW c \in Conns, ClientConnectThrows(c) PROVE SshInv'
    <2>1. SshTypeOK' /\ AttemptProgress' /\ PooledIsEstablished' /\ UsableIsLive'
          /\ IndexMatchesPool'
      BY <1>4 DEF ClientConnectThrows, SshTypeOK, AttemptProgress, PooledIsEstablished,
         UsableIsLive, usable, IndexMatchesPool
    <2>2. StoreNamesRealConnection'
      BY <1>4 DEF ClientConnectThrows, StoreNamesRealConnection, NamesRealConnection
    <2> QED BY <2>1, <2>2
  <1>5. ASSUME NEW c \in Conns, ConnectTimeout(c) PROVE SshInv'
    <2>1. c \notin pool
      BY <1>5 DEF ConnectTimeout, PooledIsEstablished
    <2>2. pool' = pool /\ sessionConnections' = sessionConnections
      BY <1>5, <2>1 DEF ConnectTimeout, poolRemove, SshTypeOK
    <2>3. SshTypeOK' /\ AttemptProgress'
      BY <1>5, <2>2 DEF ConnectTimeout, settle, SshTypeOK, AttemptProgress
    <2>5. PooledIsEstablished' /\ UsableIsLive' /\ IndexMatchesPool'
      BY <1>5, <2>1, <2>2 DEF ConnectTimeout, settle, SshTypeOK, PooledIsEstablished,
         UsableIsLive, usable, IndexMatchesPool
    <2>4. StoreNamesRealConnection'
      BY <1>5, <2>2, NamedKept DEF ConnectTimeout, SshTypeOK, StoreNamesRealConnection
    <2> QED BY <2>3, <2>4, <2>5
  <1>6. ASSUME NEW c \in Conns, ClientReady(c) PROVE SshInv'
    <2>1. CASE promise[c] = "pending"
      <3>1. owner[c] \in Sessions /\ c \notin pool /\ ~ending[c]
        BY <2>1 DEF AttemptProgress, PooledIsEstablished, SshTypeOK
      <3>2. states' = dispatch(sessions, states, owner[c], ConnectionEstablished(c))
        BY <1>6, <2>1 DEF ClientReady, establish
      <3>3. /\ states' \in [Sessions -> SessionState]
            /\ \A s \in Sessions : s # owner[c] => states'[s] = states[s]
            /\ owner[c] \in sessions => states'[owner[c]].connection
                                         = [status |-> "connected", connectionId |-> c]
        <4> QED BY <3>1, <3>2, DispatchEstablished
      <3>4. /\ client' = [client EXCEPT ![c] = "ready"]
            /\ status' = [status EXCEPT ![c] = "connected"]
            /\ promise' = [promise EXCEPT ![c] = "ok"]
            /\ timer' = [timer EXCEPT ![c] = FALSE]
            /\ pool' = pool \cup {c}
            /\ sessionConnections' = [sessionConnections EXCEPT ![owner[c]] = @ \cup {c}]
            /\ UNCHANGED <<ending, owner, sessions>>
        BY <1>6, <2>1 DEF ClientReady, establish, settle, poolAdd
      <3>5. SshTypeOK'
        BY <3>1, <3>3, <3>4 DEF SshTypeOK
      <3>6. AttemptProgress' /\ PooledIsEstablished' /\ UsableIsLive'
        BY <3>1, <3>4 DEF SshTypeOK, AttemptProgress, PooledIsEstablished, UsableIsLive,
           usable
      <3>7. IndexMatchesPool'
        BY <3>1, <3>4 DEF SshTypeOK, IndexMatchesPool
      <3>8. StoreNamesRealConnection'
        <4> SUFFICES ASSUME NEW t \in sessions
                     PROVE  NamesRealConnection(states[t].connection, t)'
          BY <3>4 DEF StoreNamesRealConnection
        <4>1. CASE t = owner[c]
          BY <3>3, <3>4, <4>1 DEF NamesRealConnection
        <4>2. CASE t # owner[c]
          BY <3>3, <3>4, <4>2, NamedKept DEF SshTypeOK, StoreNamesRealConnection
        <4> QED BY <4>1, <4>2
      <3> QED BY <3>5, <3>6, <3>7, <3>8
    <2>2. CASE promise[c] # "pending"
      <3>1. SshTypeOK' /\ AttemptProgress' /\ PooledIsEstablished' /\ UsableIsLive'
            /\ IndexMatchesPool'
        BY <1>6, <2>2 DEF ClientReady, SshTypeOK, AttemptProgress, PooledIsEstablished,
           UsableIsLive, usable, IndexMatchesPool
      <3>2. StoreNamesRealConnection'
        BY <1>6, <2>2, NamedKept DEF ClientReady, SshTypeOK, StoreNamesRealConnection
      <3> QED BY <3>1, <3>2
    <2> QED BY <2>1, <2>2
  <1>7. ASSUME NEW c \in Conns, ClientError(c) PROVE SshInv'
    <2>1. owner[c] \in Sessions
      BY <1>7 DEF ClientError, AttemptProgress, SshTypeOK
    <2>2. /\ states' \in [Sessions -> SessionState]
          /\ \A s \in Sessions : s # owner[c] => states'[s] = states[s]
          /\ owner[c] \in sessions =>
                /\ states'[owner[c]].connection.status = "error"
                /\ states'[owner[c]].connection.connectionId
                      = states[owner[c]].connection.connectionId
      <3>1. states' = dispatch(sessions, states, owner[c], ConnectionError)
        BY <1>7 DEF ClientError
      <3> QED BY <2>1, <3>1, DispatchError
    <2>3. SshTypeOK'
      BY <1>7, <2>2 DEF ClientError, settle, SshTypeOK
    <2>4. AttemptProgress' /\ PooledIsEstablished' /\ UsableIsLive' /\ IndexMatchesPool'
      BY <1>7 DEF ClientError, settle, SshTypeOK, AttemptProgress, PooledIsEstablished,
         UsableIsLive, usable, IndexMatchesPool
    <2>5. StoreNamesRealConnection'
      <3> SUFFICES ASSUME NEW t \in sessions
                   PROVE  NamesRealConnection(states[t].connection, t)'
        BY <1>7 DEF ClientError, StoreNamesRealConnection
      <3>1. /\ ending' = [ending EXCEPT ![c] = TRUE]
            /\ UNCHANGED <<client, owner, pool>>
        BY <1>7 DEF ClientError
      <3>2. NamesRealConnection(states[t].connection, t)
        BY DEF StoreNamesRealConnection
      <3>3. CASE t = owner[c]
        <4> DEFINE id == states[t].connection.connectionId
        <4>1. id \in Conns \cup {None}
          BY DEF SshTypeOK, SessionState
        <4> QED BY <2>2, <3>1, <3>2, <3>3, <4>1 DEF SshTypeOK, NamesRealConnection
      <3>4. CASE t # owner[c]
        BY <2>2, <3>1, <3>2, <3>4, NamedKept DEF SshTypeOK
      <3> QED BY <3>3, <3>4
    <2> QED BY <2>3, <2>4, <2>5
  <1>8. ASSUME NEW c \in Conns, ClientClose(c) PROVE SshInv'
    <2>1. owner[c] \in Sessions
      BY <1>8 DEF ClientClose, AttemptProgress, SshTypeOK
    <2>2. /\ states' \in [Sessions -> SessionState]
          /\ \A s \in Sessions : s # owner[c] => states'[s] = states[s]
          /\ owner[c] \in sessions =>
                states'[owner[c]].connection = [status |-> "closed", connectionId |-> None]
      <3>1. states' = dispatch(sessions, states, owner[c], ConnectionClosed)
        BY <1>8 DEF ClientClose
      <3> QED BY <2>1, <3>1, DispatchClosed
    <2>3. SshTypeOK'
      BY <1>8, <2>2 DEF ClientClose, poolRemove, SshTypeOK
    <2>4. AttemptProgress' /\ PooledIsEstablished' /\ UsableIsLive'
      BY <1>8 DEF ClientClose, poolRemove, SshTypeOK, AttemptProgress,
         PooledIsEstablished, UsableIsLive, usable
    <2>5. IndexMatchesPool'
      BY <1>8 DEF ClientClose, poolRemove, SshTypeOK, IndexMatchesPool
    <2>6. StoreNamesRealConnection'
      <3> SUFFICES ASSUME NEW t \in sessions
                   PROVE  NamesRealConnection(states[t].connection, t)'
        BY <1>8 DEF ClientClose, StoreNamesRealConnection
      <3>1. /\ client' = [client EXCEPT ![c] = "closed"]
            /\ pool' = pool \ {c}
            /\ UNCHANGED <<owner, ending>>
        BY <1>8 DEF ClientClose, poolRemove
      <3>2. CASE t = owner[c]
        BY <2>2, <3>2, NamedNone DEF SshTypeOK
      <3>3. CASE t # owner[c]
        BY <2>2, <3>1, <3>3, NamedKept DEF SshTypeOK, StoreNamesRealConnection
      <3> QED BY <3>2, <3>3
    <2> QED BY <2>3, <2>4, <2>5, <2>6
  <1>9. ASSUME NEW c \in Conns, Disconnect(c) PROVE SshInv'
    <2>1. owner[c] \in Sessions
      BY <1>9 DEF Disconnect, AttemptProgress
    <2>2. /\ states' \in [Sessions -> SessionState]
          /\ \A s \in Sessions : s # owner[c] => states'[s] = states[s]
          /\ c \in pool /\ owner[c] \in sessions =>
                states'[owner[c]].connection = [status |-> "closed", connectionId |-> None]
          /\ c \notin pool => states' = states
      <3>1. CASE c \in pool
        <4>1. states' = dispatch(sessions, states, owner[c], ConnectionClosed)
          BY <1>9, <3>1 DEF Disconnect, statesAfterDisconnect
        <4> QED BY <2>1, <3>1, <4>1, DispatchClosed
      <3>2. CASE c \notin pool
        BY <1>9, <3>2 DEF Disconnect, statesAfterDisconnect, SshTypeOK
      <3> QED BY <3>1, <3>2
    <2>3. SshTypeOK'
      BY <1>9, <2>2 DEF Disconnect, endConnections, poolRemove, SshTypeOK
    <2>4. AttemptProgress' /\ PooledIsEstablished' /\ UsableIsLive'
      BY <1>9 DEF Disconnect, endConnections, poolRemove, SshTypeOK, AttemptProgress,
         PooledIsEstablished, UsableIsLive, usable
    <2>5. IndexMatchesPool'
      BY <1>9 DEF Disconnect, endConnections, poolRemove, SshTypeOK, IndexMatchesPool
    <2>6. StoreNamesRealConnection'
      <3> SUFFICES ASSUME NEW t \in sessions
                   PROVE  NamesRealConnection(states[t].connection, t)'
        BY <1>9 DEF Disconnect, StoreNamesRealConnection
      <3>1. /\ ending' = [d \in Conns |-> ending[d] \/ d \in {c} \cap pool]
            /\ pool' = pool \ {c}
            /\ UNCHANGED <<client, owner>>
        BY <1>9 DEF Disconnect, endConnections, poolRemove
      <3>2. CASE c \in pool /\ t = owner[c]
        BY <2>2, <3>2, NamedNone DEF SshTypeOK
      <3>3. CASE t # owner[c] \/ c \notin pool
        BY <2>2, <3>1, <3>3, NamedKept DEF SshTypeOK, StoreNamesRealConnection
      <3> QED BY <3>2, <3>3
    <2> QED BY <2>3, <2>4, <2>5, <2>6
  <1>10. ASSUME NEW s \in Sessions, DisconnectSession(s) PROVE SshInv'
    <2>1. /\ states' \in [Sessions -> SessionState]
          /\ \A t \in Sessions : t # s => states'[t] = states[t]
          /\ s \in sessions =>
                states'[s].connection = [status |-> "closed", connectionId |-> None]
      <3>1. states' = dispatch(sessions, states, s, ConnectionClosed)
        BY <1>10 DEF DisconnectSession
      <3> QED BY <3>1, DispatchClosed
    <2>2. getBySession(s) = {c \in pool : owner[c] = s}
      BY DEF getBySession, IndexMatchesPool
    <2>3. SshTypeOK'
      BY <1>10, <2>1 DEF DisconnectSession, endConnections, poolRemove, SshTypeOK
    <2>4. AttemptProgress' /\ PooledIsEstablished' /\ UsableIsLive'
      BY <1>10, <2>2 DEF DisconnectSession, endConnections, poolRemove, SshTypeOK,
         AttemptProgress, PooledIsEstablished, UsableIsLive, usable
    <2>5. IndexMatchesPool'
      BY <1>10, <2>2 DEF DisconnectSession, endConnections, poolRemove, SshTypeOK,
         IndexMatchesPool
    <2>6. StoreNamesRealConnection'
      <3> SUFFICES ASSUME NEW t \in sessions
                   PROVE  NamesRealConnection(states[t].connection, t)'
        BY <1>10 DEF DisconnectSession, StoreNamesRealConnection
      <3>1. /\ ending' = [d \in Conns |-> ending[d] \/ d \in getBySession(s) \cap pool]
            /\ pool' = pool \ getBySession(s)
            /\ UNCHANGED <<client, owner>>
        BY <1>10 DEF DisconnectSession, endConnections, poolRemove
      <3>2. CASE t = s
        BY <2>1, <3>2, NamedNone DEF SshTypeOK
      <3>3. CASE t # s
        BY <2>1, <2>2, <3>1, <3>3, NamedKept DEF SshTypeOK, StoreNamesRealConnection
      <3> QED BY <3>2, <3>3
    <2> QED BY <2>3, <2>4, <2>5, <2>6
  <1>11. ASSUME Cleanup PROVE SshInv'
    <2>1. SshTypeOK' /\ AttemptProgress' /\ PooledIsEstablished' /\ UsableIsLive'
          /\ IndexMatchesPool'
      BY <1>11 DEF Cleanup, SshTypeOK, AttemptProgress, PooledIsEstablished,
         UsableIsLive, usable, IndexMatchesPool
    <2>2. StoreNamesRealConnection'
      BY <1>11, NamedKept DEF Cleanup, SshTypeOK, PooledIsEstablished,
         StoreNamesRealConnection
    <2> QED BY <2>1, <2>2
  <1>12. ASSUME NEW s \in Sessions, NEW u \in Users, OpenSession(s, u) PROVE SshInv'
    <2>1. SshTypeOK' /\ AttemptProgress' /\ PooledIsEstablished' /\ UsableIsLive'
          /\ IndexMatchesPool'
      BY <1>12, Issued DEF OpenSession, SshTypeOK, AttemptProgress,
         PooledIsEstablished, UsableIsLive, usable, IndexMatchesPool
    <2>2. StoreNamesRealConnection'
      <3> SUFFICES ASSUME NEW t \in sessions \cup {s}
                   PROVE  NamesRealConnection(states[t].connection, t)'
        BY <1>12 DEF OpenSession, StoreNamesRealConnection
      <3>1. states' = statesAfterIssue(s, u) /\ UNCHANGED <<owner, pool, ending, client>>
        BY <1>12 DEF OpenSession
      <3>2. CASE t = s
        BY <3>1, <3>2, Issued, NamedNone
      <3>3. CASE t # s
        BY <3>1, <3>3, Issued, NamedKept DEF SshTypeOK, StoreNamesRealConnection
      <3> QED BY <3>2, <3>3
    <2> QED BY <2>1, <2>2
  <1>13. ASSUME NEW s \in Sessions, RemoveSession(s) PROVE SshInv'
    <2>1. createInitialState \in SessionState
      BY DEF createInitialState, SessionState, AuthStatuses, ConnectionStatuses
    <2>2. SshTypeOK' /\ AttemptProgress' /\ PooledIsEstablished' /\ UsableIsLive'
          /\ IndexMatchesPool'
      BY <1>13, <2>1 DEF RemoveSession, SshTypeOK, AttemptProgress, PooledIsEstablished,
         UsableIsLive, usable, IndexMatchesPool
    <2>3. StoreNamesRealConnection'
      BY <1>13, NamedKept DEF RemoveSession, SshTypeOK, StoreNamesRealConnection
    <2> QED BY <2>2, <2>3
  <1>14. CASE UNCHANGED sshVars
    BY <1>14 DEF sshVars, SshTypeOK, AttemptProgress, PooledIsEstablished,
       UsableIsLive, usable, IndexMatchesPool, StoreNamesRealConnection,
       NamesRealConnection
  <1> QED
    BY <1>1, <1>2, <1>3, <1>4, <1>5, <1>6, <1>7, <1>8, <1>9, <1>10, <1>11, <1>12, <1>13,
       <1>14 DEF SshNext

-----------------------------------------------------------------------------
(***************************************************************************)
(* The theorems.                                                           *)
(***************************************************************************)

\* The state of the service, its pool and the store stays well typed.
THEOREM SshTypeCorrect == SshSpec => []SshTypeOK
  <1>1. SshInv => SshTypeOK
    BY DEF SshInv
  <1> QED BY <1>1, SshInitInv, SshStepInv, PTL DEF SshSpec

\* However the timer, ready, error, close and disconnect() interleave, for any
\* number of calls of connect(), the pool holds established clients only.
THEOREM PoolHoldsEstablished == SshSpec => []PooledIsEstablished
  <1>1. SshInv => PooledIsEstablished
    BY DEF SshInv
  <1> QED BY <1>1, SshInitInv, SshStepInv, PTL DEF SshSpec

\* A connection that shell() or exec() accepts is live.
THEOREM UsableConnectionsLive == SshSpec => []UsableIsLive
  <1>1. SshInv => UsableIsLive
    BY DEF SshInv
  <1> QED BY <1>1, SshInitInv, SshStepInv, PTL DEF SshSpec

\* The index of the pool and the pool agree.
THEOREM IndexAgrees == SshSpec => []IndexMatchesPool
  <1>1. SshInv => IndexMatchesPool
    BY DEF SshInv
  <1> QED BY <1>1, SshInitInv, SshStepInv, PTL DEF SshSpec

\* The session store never names a connection that is gone.
THEOREM StoreIsSound == SshSpec => []StoreNamesRealConnection
  <1>1. SshInv => StoreNamesRealConnection
    BY DEF SshInv
  <1> QED BY <1>1, SshInitInv, SshStepInv, PTL DEF SshSpec

-----------------------------------------------------------------------------
(***************************************************************************)
(* The service implements the leases of ConnectionLease (the safety part). *)
(***************************************************************************)

\* Removing C from the pool, the promises left alone, gives back its leases.
LEMMA ReturnStep ==
    ASSUME SshInv, NEW C \in SUBSET Conns, pool' = pool \ C, promise' = promise
    PROVE  Lease!Return(C \cap pool)
  BY DEF SshInv, SshTypeOK, PooledIsEstablished, leaseOf, Lease!Return

\* A step that leaves the promises and the pool alone is a stutter.
LEMMA LeaseStutter ==
    ASSUME pool' = pool, promise' = promise
    PROVE  UNCHANGED [c \in Conns |-> leaseOf(c)]
  BY DEF leaseOf

\* A step that moves one lease.
LEMMA MoveOne ==
    ASSUME NEW c \in Conns, NEW v, leaseOf(c)' = v,
           \A d \in Conns : d # c => leaseOf(d)' = leaseOf(d)
    PROVE  [d \in Conns |-> leaseOf(d)]' = [[d \in Conns |-> leaseOf(d)] EXCEPT ![c] = v]
  OBVIOUS

\* A promise that is rejected before the connection was pooled is a refusal.
LEMMA RefuseStep ==
    ASSUME SshInv, NEW c \in Conns, promise[c] \in {"validating", "pending"},
           promise' = [promise EXCEPT ![c] = "err"], pool' = pool
    PROVE  Lease!Refuse(c)
  <1>1. c \notin pool /\ leaseOf(c) = "asked"
    BY DEF SshInv, SshTypeOK, PooledIsEstablished, leaseOf
  <1>2. leaseOf(c)' = "refused" /\ \A d \in Conns : d # c => leaseOf(d)' = leaseOf(d)
    BY <1>1 DEF SshInv, SshTypeOK, leaseOf
  <1> QED BY <1>1, <1>2, MoveOne DEF Lease!Refuse

\* Every step of the service is a step of the leases, or a stutter.
LEMMA LeaseStep ==
    ASSUME SshInv, [SshNext]_sshVars
    PROVE  [Lease!LeaseNext]_([c \in Conns |-> leaseOf(c)])
  <1> DEFINE Goal == [Lease!LeaseNext]_([c \in Conns |-> leaseOf(c)])
  <1>1. ASSUME NEW c \in Conns, NEW s \in Sessions, Connect(c, s) PROVE Goal
    <2>1. c \notin pool /\ leaseOf(c) = "idle"
      BY <1>1 DEF Connect, SshInv, SshTypeOK, PooledIsEstablished, leaseOf
    <2>2. leaseOf(c)' = "asked" /\ \A d \in Conns : d # c => leaseOf(d)' = leaseOf(d)
      BY <1>1, <2>1 DEF Connect, SshInv, SshTypeOK, leaseOf
    <2>3. Lease!Ask(c)
      BY <2>1, <2>2, MoveOne DEF Lease!Ask
    <2> QED BY <2>3 DEF Lease!LeaseNext
  <1>2. ASSUME NEW c \in Conns, ValidationFails(c) \/ ClientConnectThrows(c) PROVE Goal
    <2>1. Lease!Refuse(c)
      BY <1>2, RefuseStep DEF ValidationFails, ClientConnectThrows
    <2> QED BY <2>1 DEF Lease!LeaseNext
  <1>3. ASSUME NEW c \in Conns, StartClient(c) PROVE Goal
    <2>1. UNCHANGED [d \in Conns |-> leaseOf(d)]
      BY <1>3 DEF StartClient, SshInv, SshTypeOK, PooledIsEstablished, leaseOf
    <2> QED BY <2>1
  <1>4. ASSUME NEW c \in Conns, ConnectTimeout(c) PROVE Goal
    <2>1. pool' = pool
      BY <1>4 DEF ConnectTimeout, poolRemove, SshInv, PooledIsEstablished, SshTypeOK
    <2>2. Lease!Refuse(c)
      BY <1>4, <2>1, RefuseStep DEF ConnectTimeout, settle
    <2> QED BY <2>2 DEF Lease!LeaseNext
  <1>5. ASSUME NEW c \in Conns, ClientReady(c) PROVE Goal
    <2>1. CASE promise[c] = "pending"
      <3>1. c \notin pool /\ leaseOf(c) = "asked"
        BY <2>1 DEF SshInv, SshTypeOK, PooledIsEstablished, leaseOf
      <3>2. pool' = pool \cup {c} /\ promise' = [promise EXCEPT ![c] = "ok"]
        BY <1>5, <2>1 DEF ClientReady, establish, settle, poolAdd
      <3>3. leaseOf(c)' = "lent" /\ \A d \in Conns : d # c => leaseOf(d)' = leaseOf(d)
        BY <3>1, <3>2 DEF SshInv, SshTypeOK, leaseOf
      <3>4. Lease!Lend(c)
        BY <3>1, <3>3, MoveOne DEF Lease!Lend
      <3> QED BY <3>4 DEF Lease!LeaseNext
    <2>2. CASE promise[c] # "pending"
      BY <1>5, <2>2, LeaseStutter DEF ClientReady
    <2> QED BY <2>1, <2>2
  <1>6. ASSUME NEW c \in Conns, ClientError(c) PROVE Goal
    <2>1. CASE promise[c] = "pending"
      <3>1. Lease!Refuse(c)
        BY <1>6, <2>1, RefuseStep DEF ClientError, settle
      <3> QED BY <3>1 DEF Lease!LeaseNext
    <2>2. CASE promise[c] # "pending"
      BY <1>6, <2>2, LeaseStutter DEF ClientError, settle
    <2> QED BY <2>1, <2>2
  <1>7. ASSUME NEW C \in SUBSET Conns, pool' = pool \ C, promise' = promise PROVE Goal
    <2>1. Lease!Return(C \cap pool)
      BY <1>7, ReturnStep
    <2> QED BY <2>1 DEF Lease!LeaseNext
  <1>8. ASSUME NEW c \in Conns, ClientClose(c) \/ Disconnect(c) PROVE Goal
    BY <1>7, <1>8 DEF ClientClose, Disconnect, endConnections, poolRemove
  <1>9. ASSUME NEW s \in Sessions, DisconnectSession(s) PROVE Goal
    <2>1. getBySession(s) \in SUBSET Conns
      BY DEF getBySession, SshInv, SshTypeOK
    <2> QED BY <1>7, <1>9, <2>1 DEF DisconnectSession, endConnections, poolRemove
  <1>10. ASSUME Cleanup PROVE Goal
    <2>1. pool \in SUBSET Conns /\ pool' = pool \ pool /\ promise' = promise
      BY <1>10 DEF Cleanup, SshInv, SshTypeOK
    <2> QED BY <1>7, <2>1
  <1>11. ASSUME NEW s \in Sessions,
                (\E u \in Users : OpenSession(s, u)) \/ RemoveSession(s)
         PROVE  Goal
    BY <1>11, LeaseStutter DEF OpenSession, RemoveSession
  <1>12. CASE UNCHANGED sshVars
    BY <1>12, LeaseStutter DEF sshVars
  <1> QED
    BY <1>1, <1>2, <1>3, <1>4, <1>5, <1>6, <1>8, <1>9, <1>10, <1>11, <1>12 DEF SshNext

\* For every set of calls and sessions, connect(), its events and disconnect()
\* lend a connection at most once and never lend again what was refused or
\* given back: the service implements ConnectionLease.
THEOREM SshImplementsLease == SshSpec => Lease!LeaseSafety
  <1>1. SshInit => Lease!LeaseInit
    BY DEF SshInit, leaseOf, Lease!LeaseInit
  <1> QED
    BY <1>1, SshInitInv, SshStepInv, LeaseStep, PTL DEF SshSpec, Lease!LeaseSafety

-----------------------------------------------------------------------------
(***************************************************************************)
(* SocketSession.                                                          *)
(***************************************************************************)
(***************************************************************************)
(* The inductive invariant, on top of SshInv.                              *)
(***************************************************************************)
SocketTyped ==
    /\ sock \in [Sockets -> {"open", "closed"}]
    /\ connectionId \in [Sockets -> Conns \cup {None}]
    /\ sessionId \in [Sockets -> Sessions \cup {None}]
    /\ shellStream \in [Sockets -> Conns \cup {None}]
    /\ flow \in [Conns -> {"idle", "waiting", "done"}]
    /\ by \in [Conns -> Sockets \cup {None}]
    /\ login \in [Conns -> Users \cup {None}]
    /\ opening \in SUBSET (Sockets \X Conns)
    /\ streams \in SUBSET (Sockets \X Conns)
    /\ terminals \in SUBSET Sessions
    /\ authCache \in [Sessions -> {"unused", "cached", "expired"}]
    /\ cachedUser \in [Sessions -> Users \cup {None}]
    /\ stranded \in SUBSET Conns

\* How far the handler of an attempt is: it exists from the call of connect() on,
\* and it is over only when the promise has settled.
HandlerProgress ==
    \A c \in Conns :
        /\ (promise[c] = "idle") <=> (flow[c] = "idle")
        /\ IF flow[c] = "idle" THEN by[c] = None ELSE by[c] \in Sockets /\ login[c] \in Users
        /\ flow[c] = "done" => promise[c] \in {"ok", "err"}

\* What a socket holds is the outcome of a login that is over.
HeldIsFinished ==
    \A k \in Sockets :
        connectionId[k] # None =>
            flow[connectionId[k]] = "done" /\ promise[connectionId[k]] = "ok"

\* The store holds only sessions the cache has issued, each with the user it
\* was issued to; and an attempt is made in a session issued to its user.
SessionsIssued ==
    /\ \A s \in sessions :
          authCache[s] # "unused" /\ states[s].auth.username = cachedUser[s]
    /\ \A c \in Conns :
          flow[c] # "idle" => authCache[owner[c]] # "unused" /\ cachedUser[owner[c]] = login[c]

SocketInv ==
    /\ SshInv
    /\ SocketTyped
    /\ HandlerProgress
    /\ HeldIsFinished
    /\ SessionsIssued
    /\ SocketHoldsItsOwn
    /\ PooledIsKnown
    /\ OneLiveSessionPerUser

(***************************************************************************)
(* Lemmas about the store.                                                 *)
(***************************************************************************)

\* The events of a connection and of a terminal leave the user of a session alone.
LEMMA ReduceKeepsUser ==
    ASSUME NEW st \in SessionState,
           NEW a \in {ConnectionClosed, ConnectionError}
                       \cup {ConnectionEstablished(c) : c \in Conns}
                       \cup {TerminalInit(t) : t \in Terms} \cup {TerminalResize(t) : t \in Terms}
    PROVE  sessionReducer(st, a).auth.username = st.auth.username
  BY DEF SessionState, sessionReducer, authReducer, ConnectionClosed, ConnectionError,
         ConnectionEstablished, TerminalInit, TerminalResize

\* dispatch() of one of them keeps the users of all sessions.
LEMMA DispatchKeepsUser ==
    ASSUME SshTypeOK, NEW sid \in Sessions,
           NEW a \in {ConnectionClosed, ConnectionError}
                       \cup {ConnectionEstablished(c) : c \in Conns}
                       \cup {TerminalInit(t) : t \in Terms} \cup {TerminalResize(t) : t \in Terms}
    PROVE  \A s \in Sessions :
              dispatch(sessions, states, sid, a)[s].auth.username = states[s].auth.username
  <1>1. states \in [Sessions -> SessionState]
    BY DEF SshTypeOK
  <1>2. CASE sid \in sessions
    <2>1. dispatch(sessions, states, sid, a) = [states EXCEPT ![sid] = sessionReducer(states[sid], a)]
      BY <1>2 DEF dispatch
    <2>2. sessionReducer(states[sid], a).auth.username = states[sid].auth.username
      BY <1>1, ReduceKeepsUser
    <2> QED BY <1>1, <2>1, <2>2
  <1>3. CASE sid \notin sessions
    BY <1>3 DEF dispatch
  <1> QED BY <1>2, <1>3

\* The terminal events keep a session state well typed and its connection slice.
LEMMA ReduceTerminal ==
    ASSUME NEW st \in SessionState,
           NEW a \in {TerminalInit(t) : t \in Terms} \cup {TerminalResize(t) : t \in Terms}
    PROVE  /\ sessionReducer(st, a) \in SessionState
           /\ sessionReducer(st, a).connection = st.connection
  BY DEF SessionState, sessionReducer, authReducer, connectionReducer, terminalReducer,
         TerminalInit, TerminalResize

\* So does their dispatch().
LEMMA DispatchTerminal ==
    ASSUME SshTypeOK, NEW sid \in Sessions,
           NEW a \in {TerminalInit(t) : t \in Terms} \cup {TerminalResize(t) : t \in Terms},
           states' = dispatch(sessions, states, sid, a)
    PROVE  /\ states' \in [Sessions -> SessionState]
           /\ \A s \in Sessions : states'[s].connection = states[s].connection
           /\ \A s \in Sessions : states'[s].auth.username = states[s].auth.username
  <1>1. states \in [Sessions -> SessionState]
    BY DEF SshTypeOK
  <1>2. \A s \in Sessions : states'[s].auth.username = states[s].auth.username
    BY DispatchKeepsUser
  <1>3. CASE sid \in sessions
    <2>1. states' = [states EXCEPT ![sid] = sessionReducer(states[sid], a)]
      BY <1>3 DEF dispatch
    <2>2. /\ sessionReducer(states[sid], a) \in SessionState
          /\ sessionReducer(states[sid], a).connection = states[sid].connection
      BY <1>1, ReduceTerminal
    <2> QED BY <1>1, <1>2, <2>1, <2>2
  <1>4. CASE sid \notin sessions
    BY <1>1, <1>4 DEF dispatch
  <1> QED BY <1>2, <1>3, <1>4

\* A fresh session names the user it was issued to.
LEMMA IssuedToUser ==
    ASSUME NEW s \in Sessions, NEW u \in Users, SshTypeOK
    PROVE  statesAfterIssue(s, u)[s].auth.username = u
  <1> DEFINE authed == [ auth |-> [status |-> "authenticated", username |-> u],
                         connection |-> [status |-> "disconnected", connectionId |-> None],
                         terminal |-> DefaultTerm ]
  <1>1. sessionReducer(createInitialState, AuthSuccess(u)) = authed
    BY DEF createInitialState, sessionReducer, authReducer, connectionReducer,
           terminalReducer, AuthSuccess
  <1>2. sessionReducer(authed, ConnectionStart).auth.username = u
    BY DEF sessionReducer, authReducer, ConnectionStart
  <1>3. statesAfterIssue(s, u) = [states EXCEPT ![s] = sessionReducer(authed, ConnectionStart)]
    BY <1>1 DEF statesAfterIssue, dispatch, SshTypeOK
  <1> QED BY <1>2, <1>3 DEF SshTypeOK

-----------------------------------------------------------------------------
(***************************************************************************)
(* The initial state.                                                      *)
(***************************************************************************)

\* The initial state of the sockets satisfies the inductive invariant.
LEMMA SocketInitInv == SocketInit => SocketInv
  <1> SUFFICES ASSUME SocketInit PROVE SocketInv
    OBVIOUS
  <1>1. SshInv
    BY SshInitInv DEF SocketInit
  <1>2. SocketTyped /\ HandlerProgress /\ HeldIsFinished /\ SessionsIssued
    BY DEF SocketInit, SshInit, SocketTyped, HandlerProgress, HeldIsFinished, SessionsIssued
  <1>3. SocketHoldsItsOwn /\ PooledIsKnown /\ OneLiveSessionPerUser
    BY DEF SocketInit, SshInit, SocketHoldsItsOwn, PooledIsKnown, OneLiveSessionPerUser
  <1> QED BY <1>1, <1>2, <1>3 DEF SocketInv

-----------------------------------------------------------------------------
(***************************************************************************)
(* The steps.                                                              *)
(***************************************************************************)

\* What an event of a connection changes, as its socket sees it: a promise that is
\* open may settle, and only with an open promise a connection enters the pool.
LEMMA TurnFacts ==
    ASSUME SocketInv, NEW c \in Conns, SshTurn(c)
    PROVE  /\ SshInv'
           /\ UNCHANGED <<owner, sessions>>
           /\ \A d \in Conns :
                 \/ promise'[d] = promise[d]
                 \/ promise[d] \in {"validating", "pending"}
                       /\ promise'[d] \in {"pending", "ok", "err"}
           /\ pool' \subseteq pool \cup {d \in Conns : promise[d] = "pending"}
           /\ \A s \in sessions : states'[s].auth.username = states[s].auth.username
  <1> USE DEF SocketInv, SshInv
  <1>1. SshNext
    BY DEF SshTurn, SshNext
  <1>2. SshInv'
    BY <1>1, SshStepInv
  <1>3. sessions \subseteq Sessions /\ states \in [Sessions -> SessionState]
    BY DEF SshTypeOK
  <1>4. CASE ValidationFails(c) \/ StartClient(c) \/ ClientConnectThrows(c)
    BY <1>2, <1>4 DEF ValidationFails, StartClient, ClientConnectThrows, SshTypeOK
  <1>5. CASE ConnectTimeout(c)
    BY <1>2, <1>5 DEF ConnectTimeout, settle, poolRemove, SshTypeOK
  <1>6. CASE ClientReady(c)
    <2>1. CASE promise[c] = "pending"
      <3>1. owner[c] \in Sessions
        BY <2>1 DEF AttemptProgress
      <3>2. states' = dispatch(sessions, states, owner[c], ConnectionEstablished(c))
        BY <1>6, <2>1 DEF ClientReady, establish
      <3>3. \A s \in Sessions : states'[s].auth.username = states[s].auth.username
        BY <3>1, <3>2, DispatchKeepsUser
      <3> QED
        BY <1>2, <1>3, <1>6, <2>1, <3>3 DEF ClientReady, establish, settle, poolAdd, SshTypeOK
    <2>2. CASE promise[c] # "pending"
      BY <1>2, <1>6, <2>2 DEF ClientReady, SshTypeOK
    <2> QED BY <2>1, <2>2
  <1>7. CASE ClientError(c)
    <2>1. owner[c] \in Sessions
      BY <1>7 DEF ClientError, AttemptProgress, SshTypeOK
    <2>2. states' = dispatch(sessions, states, owner[c], ConnectionError)
      BY <1>7 DEF ClientError
    <2>3. \A s \in Sessions : states'[s].auth.username = states[s].auth.username
      BY <2>1, <2>2, DispatchKeepsUser
    <2> QED BY <1>2, <1>3, <1>7, <2>3 DEF ClientError, settle, SshTypeOK
  <1>8. CASE ClientClose(c)
    <2>1. owner[c] \in Sessions
      BY <1>8 DEF ClientClose, AttemptProgress, SshTypeOK
    <2>2. states' = dispatch(sessions, states, owner[c], ConnectionClosed)
      BY <1>8 DEF ClientClose
    <2>3. \A s \in Sessions : states'[s].auth.username = states[s].auth.username
      BY <2>1, <2>2, DispatchKeepsUser
    <2> QED BY <1>2, <1>3, <1>8, <2>3 DEF ClientClose, poolRemove, SshTypeOK
  <1> QED BY <1>4, <1>5, <1>6, <1>7, <1>8 DEF SshTurn

\* An event of a connection keeps the invariant of the sockets.
LEMMA SshTurnKeeps == ASSUME SocketInv, NEW c \in Conns, SshTurn(c) PROVE SocketInv'
  <1> USE DEF SocketInv, SshInv
  <1>1. UNCHANGED <<adapterVars, terminals, authVars>>
    BY DEF SshTurn
  <1>2. SocketTyped' /\ OneLiveSessionPerUser'
    BY <1>1 DEF SocketTyped, OneLiveSessionPerUser, adapterVars, authVars
  <1>3. HandlerProgress'
    BY <1>1, TurnFacts DEF HandlerProgress, SocketTyped, adapterVars
  <1>4. HeldIsFinished'
    BY <1>1, TurnFacts DEF HeldIsFinished, SocketTyped, adapterVars
  <1>5. SessionsIssued'
    BY <1>1, TurnFacts DEF SessionsIssued, SocketTyped, adapterVars, authVars
  <1>6. SocketHoldsItsOwn'
    BY <1>1, TurnFacts DEF SocketHoldsItsOwn, adapterVars
  <1>7. PooledIsKnown'
    <2> SUFFICES ASSUME NEW d \in pool'
                 PROVE  \/ flow'[d] = "waiting"
                        \/ sock'[by'[d]] = "open" /\ connectionId'[by'[d]] = d
                        \/ d \in stranded'
      BY DEF PooledIsKnown
    <2>1. CASE d \in pool
      BY <1>1, <2>1, TurnFacts DEF PooledIsKnown, SshTypeOK, adapterVars
    <2>2. CASE d \notin pool
      <3>1. d \in Conns /\ promise[d] = "pending"
        BY <2>2, TurnFacts DEF SshTypeOK
      <3>2. flow[d] = "waiting"
        BY <3>1 DEF HandlerProgress, SocketTyped
      <3> QED BY <1>1, <3>2 DEF adapterVars
    <2> QED BY <2>1, <2>2
  <1> QED BY <1>2, <1>3, <1>4, <1>5, <1>6, <1>7, TurnFacts

\* The rest of a login stores connection and session of its attempt.
LEMMA AuthFinishKeeps == ASSUME SocketInv, NEW c \in Conns, AuthFinish(c) PROVE SocketInv'
  <1> USE DEF SocketInv, SshInv
  <1>1. UNCHANGED sshVars
    BY DEF AuthFinish
  <1>2. SshInv'
    BY <1>1, SshStepInv
  <1>3. /\ flow[c] = "waiting" /\ promise[c] \in {"ok", "err"}
        /\ by[c] \in Sockets /\ owner[c] \in Sessions /\ login[c] \in Users
        /\ flow' = [flow EXCEPT ![c] = "done"]
        /\ UNCHANGED <<sock, shellStream, by, login, opening, streams, terminals, authVars>>
        /\ IF promise[c] = "ok" THEN stranded' = stranded \cup strandedBy(c)
                                ELSE stranded' = stranded
    BY DEF AuthFinish, resuming, HandlerProgress, AttemptProgress
  <1>4. SocketTyped' /\ OneLiveSessionPerUser'
    <2>1. c \in Conns /\ connectionId[by[c]] \in Conns \cup {None}
      BY <1>3 DEF SocketTyped
    <2>2. strandedBy(c) \in SUBSET Conns
      BY <2>1 DEF strandedBy
    <2>3. stranded' \in SUBSET Conns
      BY <1>3, <2>2 DEF SocketTyped
    <2> QED BY <1>3, <2>3 DEF AuthFinish, SocketTyped, OneLiveSessionPerUser, authVars
  <1>5. HandlerProgress' /\ SessionsIssued'
    BY <1>1, <1>3 DEF HandlerProgress, SessionsIssued, SocketTyped, sshVars, authVars
  <1>6. CASE promise[c] = "ok"
    <2>1. /\ connectionId' = [connectionId EXCEPT ![by[c]] = c]
          /\ sessionId' = [sessionId EXCEPT ![by[c]] = owner[c]]
      BY <1>6 DEF AuthFinish
    <2>2. HeldIsFinished'
      BY <1>1, <1>3, <1>6, <2>1 DEF HeldIsFinished, SocketTyped, sshVars
    <2>3. SocketHoldsItsOwn'
      BY <1>1, <1>3, <2>1 DEF SocketHoldsItsOwn, SocketTyped, sshVars
    <2>4. PooledIsKnown'
      <3>1. by[c] \in Sockets /\ connectionId \in [Sockets -> Conns \cup {None}]
        BY <1>3 DEF SocketTyped
      <3>2. sock[by[c]] = "open" \/ c \in stranded'
        BY <1>3, <1>6, <3>1 DEF strandedBy, SocketTyped
      <3>3. connectionId'[by[c]] = c
        BY <2>1, <3>1
      <3>4. ASSUME NEW d \in pool, d # c
            PROVE  \/ flow'[d] = "waiting"
                   \/ sock[by[d]] = "open" /\ connectionId'[by[d]] = d
                   \/ d \in stranded'
        <4>1. d \in Conns /\ flow'[d] = flow[d] /\ stranded \subseteq stranded'
          BY <1>3, <1>6, <3>4 DEF SshTypeOK, SocketTyped
        <4>2. CASE sock[by[d]] = "open" /\ connectionId[by[d]] = d
          <5>1. CASE by[d] = by[c]
            <6>1. d \in strandedBy(c)
              BY <4>1, <4>2, <5>1 DEF strandedBy
            <6> QED BY <1>3, <1>6, <6>1
          <5>2. CASE by[d] # by[c]
            BY <2>1, <3>1, <4>2, <5>2
          <5> QED BY <5>1, <5>2
        <4>3. CASE ~(sock[by[d]] = "open" /\ connectionId[by[d]] = d)
          BY <4>1, <4>3 DEF PooledIsKnown
        <4> QED BY <4>2, <4>3
      <3> QED BY <1>1, <1>3, <3>2, <3>3, <3>4 DEF PooledIsKnown, sshVars
    <2> QED BY <1>2, <1>4, <1>5, <2>2, <2>3, <2>4
  <1>7. CASE promise[c] = "err"
    <2>1. UNCHANGED <<connectionId, sessionId, stranded>>
      BY <1>7 DEF AuthFinish
    <2>2. HeldIsFinished' /\ SocketHoldsItsOwn'
      BY <1>1, <1>3, <2>1 DEF HeldIsFinished, SocketHoldsItsOwn, SocketTyped, sshVars
    <2>3. c \notin pool
      BY <1>7 DEF PooledIsEstablished
    <2>4. PooledIsKnown'
      BY <1>1, <1>3, <2>1, <2>3 DEF PooledIsKnown, SocketTyped, SshTypeOK, sshVars
    <2> QED BY <1>2, <1>4, <1>5, <2>2, <2>4
  <1> QED BY <1>3, <1>6, <1>7

\* What the call of connect() does to the handlers of the attempts.
LEMMA CallConnectKeeps ==
    ASSUME SocketInv, NEW k \in Sockets, NEW c \in Conns, NEW u \in Users, NEW s \in Sessions,
           promise[c] = "idle", callConnect(k, c, u, s)
    PROVE  /\ HandlerProgress' /\ HeldIsFinished' /\ SocketHoldsItsOwn' /\ PooledIsKnown'
           /\ flow[c] = "idle" /\ flow' = [flow EXCEPT ![c] = "waiting"]
           /\ owner' = [owner EXCEPT ![c] = s] /\ login' = [login EXCEPT ![c] = u]
  <1> USE DEF SocketInv, SshInv
  <1>1. /\ promise' = [promise EXCEPT ![c] = "validating"]
        /\ owner' = [owner EXCEPT ![c] = s]
        /\ by' = [by EXCEPT ![c] = k]
        /\ login' = [login EXCEPT ![c] = u]
        /\ flow' = [flow EXCEPT ![c] = "waiting"]
        /\ UNCHANGED <<pool, sock, connectionId, sessionId, stranded>>
    BY DEF callConnect
  <1>2. flow[c] = "idle" /\ c \notin pool
    BY DEF HandlerProgress, PooledIsEstablished
  <1>3. \A j \in Sockets : connectionId[j] # c
    BY <1>2 DEF HeldIsFinished
  <1>4. HandlerProgress'
    BY <1>1 DEF HandlerProgress, SocketTyped, SshTypeOK
  <1>5. HeldIsFinished' /\ SocketHoldsItsOwn'
    BY <1>1, <1>3 DEF HeldIsFinished, SocketHoldsItsOwn, SocketTyped, SshTypeOK
  <1>6. PooledIsKnown'
    BY <1>1, <1>2 DEF PooledIsKnown, SocketTyped, SshTypeOK
  <1> QED BY <1>1, <1>2, <1>4, <1>5, <1>6

\* A login that is answered with the cached session is a call of connect().
LEMMA AuthUseCachedKeeps ==
    ASSUME SocketInv, NEW k \in Sockets, NEW c \in Conns, NEW u \in Users,
           promise[c] = "idle", AuthUseCached(k, c, u)
    PROVE  SocketInv'
  <1> USE DEF SocketInv, SshInv
  <1>1. PICK s \in Sessions :
          /\ authCache[s] = "cached" /\ cachedUser[s] = u
          /\ callConnect(k, c, u, s) /\ UNCHANGED <<sessions, states, authVars>>
    BY DEF AuthUseCached, findCachedSession
  <1>2. Connect(c, s)
    BY <1>1 DEF callConnect, Connect
  <1>3. SshInv'
    BY <1>2, SshStepInv DEF SshNext
  <1>4. SocketTyped' /\ OneLiveSessionPerUser'
    BY <1>1 DEF callConnect, SocketTyped, OneLiveSessionPerUser, authVars
  <1>5. /\ HandlerProgress' /\ HeldIsFinished' /\ SocketHoldsItsOwn' /\ PooledIsKnown'
        /\ flow' = [flow EXCEPT ![c] = "waiting"]
        /\ owner' = [owner EXCEPT ![c] = s] /\ login' = [login EXCEPT ![c] = u]
    BY <1>1, CallConnectKeeps
  <1>6. SessionsIssued'
    BY <1>1, <1>5 DEF SessionsIssued, SocketTyped, SshTypeOK, authVars
  <1> QED BY <1>3, <1>4, <1>5, <1>6

\* A login into a fresh session: the session is made and connect() is called in it.
LEMMA AuthIssueNewKeeps ==
    ASSUME SocketInv, NEW k \in Sockets, NEW c \in Conns, NEW u \in Users,
           promise[c] = "idle", AuthIssueNew(k, c, u)
    PROVE  SocketInv'
  <1> USE DEF SocketInv, SshInv
  <1>1. PICK s \in Sessions :
          /\ authCache[s] = "unused"
          /\ sessions' = sessions \cup {s}
          /\ states' = statesAfterIssue(s, u)
          /\ authCache' = [authCache EXCEPT ![s] = "cached"]
          /\ cachedUser' = [cachedUser EXCEPT ![s] = u]
          /\ callConnect(k, c, u, s)
    BY DEF AuthIssueNew
  <1>2. /\ promise' = [promise EXCEPT ![c] = "validating"]
        /\ owner' = [owner EXCEPT ![c] = s]
        /\ UNCHANGED <<timer, client, ending, status, pool, sessionConnections>>
    BY <1>1 DEF callConnect
  <1>3. c \notin pool /\ s \notin sessions
    BY <1>1 DEF PooledIsEstablished, SessionsIssued
  <1>4. SshTypeOK' /\ AttemptProgress' /\ PooledIsEstablished' /\ UsableIsLive'
    BY <1>1, <1>2, Issued DEF SshTypeOK, AttemptProgress, PooledIsEstablished,
       UsableIsLive, usable
  <1>5. IndexMatchesPool'
    BY <1>2, <1>3 DEF SshTypeOK, IndexMatchesPool
  <1>6. StoreNamesRealConnection'
    <2> SUFFICES ASSUME NEW t \in sessions \cup {s}
                 PROVE  NamesRealConnection(states[t].connection, t)'
      BY <1>1 DEF StoreNamesRealConnection
    <2>1. CASE t = s
      BY <1>1, <2>1, Issued, NamedNone
    <2>2. CASE t # s
      <3>1. t \in sessions /\ t \in Sessions /\ owner[c] = None
        BY <2>2 DEF SshTypeOK, AttemptProgress
      <3>2. states'[t].connection = states[t].connection
        BY <1>1, <2>2, <3>1, Issued
      <3> QED BY <1>2, <3>1, <3>2, NamedKept DEF SshTypeOK, StoreNamesRealConnection
    <2> QED BY <2>1, <2>2
  <1>7. SocketTyped'
    BY <1>1 DEF callConnect, SocketTyped
  <1>8. OneLiveSessionPerUser'
    <2>1. \A t \in Sessions : authCache[t] = "cached" => cachedUser[t] # u
      BY DEF AuthIssueNew, findCachedSession
    <2> QED BY <1>1, <2>1 DEF OneLiveSessionPerUser, SocketTyped
  <1>9. SessionsIssued'
    <2>1. /\ \A t \in Sessions : t # s => states'[t] = states[t]
          /\ states'[s].auth.username = u
      BY <1>1, Issued, IssuedToUser
    <2>2. \A t \in sessions' : authCache'[t] # "unused" /\ states'[t].auth.username = cachedUser'[t]
      BY <1>1, <2>1 DEF SessionsIssued, SocketTyped, SshTypeOK
    <2>3. \A d \in Conns :
             flow'[d] # "idle" => authCache'[owner'[d]] # "unused" /\ cachedUser'[owner'[d]] = login'[d]
      <3> SUFFICES ASSUME NEW d \in Conns, flow'[d] # "idle"
                   PROVE  authCache'[owner'[d]] # "unused" /\ cachedUser'[owner'[d]] = login'[d]
        OBVIOUS
      <3>1. CASE d = c
        BY <1>1, <3>1, CallConnectKeeps DEF SocketTyped, SshTypeOK
      <3>2. CASE d # c
        <4>1. flow[d] # "idle" /\ owner'[d] = owner[d] /\ login'[d] = login[d]
          BY <1>1, <3>2, CallConnectKeeps DEF SocketTyped, SshTypeOK
        <4>2. owner[d] \in Sessions /\ owner[d] # s
          BY <1>1, <4>1 DEF SessionsIssued, HandlerProgress, AttemptProgress
        <4> QED BY <1>1, <4>1, <4>2 DEF SessionsIssued, SocketTyped
      <3> QED BY <3>1, <3>2
    <2> QED BY <2>2, <2>3 DEF SessionsIssued
  <1> QED BY <1>1, <1>4, <1>5, <1>6, <1>7, <1>8, <1>9, CallConnectKeeps

\* A terminal event of a session touches the terminal slice of that session only.
LEMMA TerminalEventKeeps ==
    ASSUME SocketInv,
           states' \in [Sessions -> SessionState],
           \A s \in Sessions : states'[s].connection = states[s].connection,
           \A s \in Sessions : states'[s].auth.username = states[s].auth.username,
           terminals' \in SUBSET Sessions,
           opening' \in SUBSET (Sockets \X Conns),
           UNCHANGED <<promise, timer, client, ending, owner, status, pool, sessionConnections,
                       sessions, sock, connectionId, sessionId, shellStream, flow, by, login,
                       streams, stranded, authVars>>
    PROVE  SocketInv'
  <1> USE DEF SocketInv, SshInv
  <1>1. SshTypeOK' /\ AttemptProgress' /\ PooledIsEstablished' /\ UsableIsLive'
        /\ IndexMatchesPool'
    BY DEF SshTypeOK, AttemptProgress, PooledIsEstablished, UsableIsLive, usable, IndexMatchesPool
  <1>2. StoreNamesRealConnection'
    BY NamedKept DEF SshTypeOK, StoreNamesRealConnection
  <1>3. SocketTyped' /\ HandlerProgress' /\ HeldIsFinished'
    BY DEF SocketTyped, HandlerProgress, HeldIsFinished, authVars
  <1>4. SessionsIssued'
    BY DEF SessionsIssued, SshTypeOK, authVars
  <1>5. SocketHoldsItsOwn' /\ PooledIsKnown' /\ OneLiveSessionPerUser'
    BY DEF SocketHoldsItsOwn, PooledIsKnown, OneLiveSessionPerUser, authVars
  <1> QED BY <1>1, <1>2, <1>3, <1>4, <1>5

\* The terminal event: a terminal is made for the session the socket holds.
LEMMA TerminalKeeps ==
    ASSUME SocketInv, NEW k \in Sockets, NEW t \in Terms, Terminal(k, t)
    PROVE  SocketInv'
  <1> USE DEF SocketInv, SshInv
  <1>1. sessionId[k] \in Sessions /\ connectionId[k] \in Conns
    BY DEF Terminal, SocketTyped
  <1>2. /\ states' \in [Sessions -> SessionState]
        /\ \A s \in Sessions : states'[s].connection = states[s].connection
        /\ \A s \in Sessions : states'[s].auth.username = states[s].auth.username
    <2>1. CASE sessionId[k] \in terminals
      BY <2>1 DEF Terminal, createTerminal, SshTypeOK
    <2>2. CASE sessionId[k] \notin terminals
      <3>1. states' = dispatch(sessions, states, sessionId[k], TerminalInit(t))
        BY <2>2 DEF Terminal, createTerminal
      <3> QED BY <1>1, <3>1, DispatchTerminal
    <2> QED BY <2>1, <2>2
  <1>3. terminals' \in SUBSET Sessions /\ opening' \in SUBSET (Sockets \X Conns)
    BY <1>1 DEF Terminal, createTerminal, SocketTyped
  <1> QED BY <1>2, <1>3, TerminalEventKeeps DEF Terminal

\* The resize event.
LEMMA ResizeKeeps ==
    ASSUME SocketInv, NEW k \in Sockets, NEW t \in Terms, Resize(k, t)
    PROVE  SocketInv'
  <1> USE DEF SocketInv, SshInv
  <1>1. sessionId[k] \in Sessions
    BY DEF Resize, SocketTyped
  <1>2. states' = dispatch(sessions, states, sessionId[k], TerminalResize(t))
    BY DEF Resize
  <1>3. /\ states' \in [Sessions -> SessionState]
        /\ \A s \in Sessions : states'[s].connection = states[s].connection
        /\ \A s \in Sessions : states'[s].auth.username = states[s].auth.username
    BY <1>1, <1>2, DispatchTerminal
  <1> QED BY <1>3, TerminalEventKeeps DEF Resize, adapterVars, SocketTyped

\* A step that leaves the service, the attempts and the ids of the sockets alone.
LEMMA ShellStepKeeps ==
    ASSUME SocketInv,
           UNCHANGED <<sshVars, sock, connectionId, sessionId, flow, by, login, cachedUser, terminals,
                     stranded>>,
           opening' \in SUBSET (Sockets \X Conns), streams' \in SUBSET (Sockets \X Conns),
           shellStream' \in [Sockets -> Conns \cup {None}],
           authCache' \in [Sessions -> {"unused", "cached", "expired"}],
           \A s \in Sessions : authCache'[s] = "cached" => authCache[s] = "cached",
           \A s \in Sessions : authCache'[s] = "unused" => authCache[s] = "unused"
    PROVE  SocketInv'
  <1> USE DEF SocketInv, SshInv
  <1>1. SshInv'
    BY SshStepInv
  <1>2. SocketTyped' /\ HandlerProgress' /\ HeldIsFinished'
    BY DEF SocketTyped, HandlerProgress, HeldIsFinished, sshVars
  <1>3. SessionsIssued'
    BY DEF SessionsIssued, HandlerProgress, AttemptProgress, SshTypeOK, sshVars
  <1>4. SocketHoldsItsOwn' /\ PooledIsKnown' /\ OneLiveSessionPerUser'
    BY DEF SocketHoldsItsOwn, PooledIsKnown, OneLiveSessionPerUser, sshVars
  <1> QED BY <1>1, <1>2, <1>3, <1>4

-----------------------------------------------------------------------------
(***************************************************************************)
(* The end of a socket: its connection is ended and its session deleted.   *)
(***************************************************************************)

\* handleDisconnect() keeps the invariant, whatever becomes of the shells.
LEMMA DisconnectKeeps ==
    ASSUME SocketInv, NEW k \in Sockets, handleDisconnect(k), streams' \in SUBSET (Sockets \X Conns),
           UNCHANGED <<promise, timer, client, owner, status, flow, by, login, opening, stranded,
                       authVars>>
    PROVE  SocketInv'
  <1> USE DEF SocketInv, SshInv
  <1> DEFINE c == connectionId[k]
             s == sessionId[k]
  <1>1. /\ sock' = [sock EXCEPT ![k] = "closed"]
        /\ connectionId' = [connectionId EXCEPT ![k] = None]
        /\ sessionId' = [sessionId EXCEPT ![k] = None]
        /\ shellStream' = [shellStream EXCEPT ![k] = None]
    BY DEF handleDisconnect
  <1>2. HeldIsFinished' /\ SocketHoldsItsOwn' /\ HandlerProgress' /\ OneLiveSessionPerUser'
    BY <1>1 DEF HeldIsFinished, SocketHoldsItsOwn, HandlerProgress, OneLiveSessionPerUser,
       SocketTyped, authVars
  <1>3. CASE c = None
    <2>1. s = None
      BY <1>3 DEF SocketHoldsItsOwn
    <2>2. UNCHANGED <<ending, pool, sessionConnections, terminals, states, sessions>>
      BY <1>3, <2>1 DEF handleDisconnect
    <2>3. SshInv'
      <3>1. UNCHANGED sshVars
        BY <2>2 DEF sshVars
      <3> QED BY <3>1, SshStepInv
    <2>4. SocketTyped' /\ SessionsIssued'
      BY <1>1, <2>2 DEF SocketTyped, SessionsIssued, authVars
    <2>5. PooledIsKnown'
      BY <1>1, <1>3, <2>2 DEF PooledIsKnown, SocketTyped, SshTypeOK
    <2> QED BY <1>2, <2>3, <2>4, <2>5
  <1>4. CASE c # None
    <2>1. c \in Conns /\ s \in Sessions /\ owner[c] = s /\ by[c] = k
      BY <1>4 DEF SocketHoldsItsOwn, SocketTyped
    <2>2. /\ ending' = [d \in Conns |-> ending[d] \/ d \in {c} \cap pool]
          /\ pool' = pool \ {c}
          /\ sessionConnections' =
                [t \in Sessions |-> sessionConnections[t] \ {d \in {c} \cap pool : owner[d] = t}]
          /\ terminals' = terminals \ {s}
          /\ states' = [statesAfterDisconnect(c) EXCEPT ![s] = createInitialState]
          /\ sessions' = sessions \ {s}
      BY <1>4, <2>1 DEF handleDisconnect, endConnections, poolRemove, deleteSession
    <2>3. /\ states' \in [Sessions -> SessionState]
          /\ \A t \in Sessions : t # s => states'[t] = states[t]
      <3>1. createInitialState \in SessionState
        BY DEF createInitialState, SessionState, AuthStatuses, ConnectionStatuses
      <3>2. states \in [Sessions -> SessionState]
        BY DEF SshTypeOK
      <3>3. CASE c \in pool /\ s \in sessions
        <4>1. statesAfterDisconnect(c)
                = [states EXCEPT ![s] = sessionReducer(states[s], ConnectionClosed)]
          BY <2>1, <3>3 DEF statesAfterDisconnect, dispatch
        <4>2. sessionReducer(states[s], ConnectionClosed) \in SessionState
          BY <2>1, <3>2, ReduceClosed
        <4> QED BY <2>1, <2>2, <3>1, <3>2, <4>1, <4>2
      <3>4. CASE c \notin pool \/ s \notin sessions
        <4>1. statesAfterDisconnect(c) = states
          BY <2>1, <3>4 DEF statesAfterDisconnect, dispatch
        <4> QED BY <2>1, <2>2, <3>1, <3>2, <4>1
      <3> QED BY <3>3, <3>4
    <2>4. SshTypeOK' /\ AttemptProgress' /\ PooledIsEstablished' /\ UsableIsLive'
      BY <2>2, <2>3, <1>4, <2>1 DEF SshTypeOK, AttemptProgress, PooledIsEstablished, UsableIsLive,
         usable, HeldIsFinished
    <2>5. IndexMatchesPool'
      BY <2>2 DEF SshTypeOK, IndexMatchesPool
    <2>6. StoreNamesRealConnection'
      <3> SUFFICES ASSUME NEW t \in sessions, t # s
                   PROVE  NamesRealConnection(states[t].connection, t)'
        BY <2>2 DEF StoreNamesRealConnection
      <3> QED
        BY <2>1, <2>2, <2>3, NamedKept DEF SshTypeOK, StoreNamesRealConnection
    <2>7. SocketTyped' /\ SessionsIssued'
      BY <1>1, <2>2, <2>3 DEF SocketTyped, SessionsIssued, SshTypeOK, authVars
    <2>8. PooledIsKnown'
      BY <1>1, <2>2 DEF PooledIsKnown, SocketTyped, SshTypeOK
    <2> QED BY <1>2, <2>4, <2>5, <2>6, <2>7, <2>8
  <1> QED BY <1>3, <1>4

\* The close of a shell, of an open socket or a closed one.
LEMMA StreamCloseKeeps ==
    ASSUME SocketInv, NEW k \in Sockets, NEW c \in Conns, StreamClose(k, c)
    PROVE  SocketInv'
  <1>1. streams' \in SUBSET (Sockets \X Conns)
    BY DEF StreamClose, SocketInv, SocketTyped
  <1>2. CASE sock[k] = "open"
    BY <1>1, <1>2, DisconnectKeeps DEF StreamClose
  <1>3. CASE sock[k] # "open"
    <2>1. UNCHANGED <<sshVars, sock, connectionId, sessionId, flow, by, login, cachedUser, terminals,
                      stranded, opening, shellStream, authCache>>
      BY <1>3 DEF StreamClose, sshVars, authVars
    <2> QED BY <1>1, <2>1, ShellStepKeeps DEF SocketInv, SocketTyped
  <1> QED BY <1>2, <1>3

(***************************************************************************)
(* Every step keeps the invariant.                                         *)
(***************************************************************************)
LEMMA SocketStepInv == SocketInv /\ [SocketNext]_socketVars => SocketInv'
  <1> SUFFICES ASSUME SocketInv, [SocketNext]_socketVars PROVE SocketInv'
    OBVIOUS
  <1>1. ASSUME NEW c \in Conns, SshTurn(c) \/ AuthFinish(c) PROVE SocketInv'
    BY <1>1, SshTurnKeeps, AuthFinishKeeps
  <1>2. ASSUME NEW k \in Sockets, NEW c \in Conns, NEW u \in Users, Auth(k, c, u)
        PROVE  SocketInv'
    BY <1>2, AuthUseCachedKeeps, AuthIssueNewKeeps DEF Auth
  <1>3. ASSUME NEW k \in Sockets, NEW t \in Terms, Terminal(k, t) \/ Resize(k, t)
        PROVE  SocketInv'
    BY <1>3, TerminalKeeps, ResizeKeeps
  <1>4. ASSUME NEW k \in Sockets, NEW c \in Conns, ShellOpened(k, c) \/ ShellFails(k, c)
        PROVE  SocketInv'
    <2>1. /\ opening' \in SUBSET (Sockets \X Conns) /\ streams' \in SUBSET (Sockets \X Conns)
          /\ shellStream' \in [Sockets -> Conns \cup {None}]
          /\ authCache' \in [Sessions -> {"unused", "cached", "expired"}]
          /\ authCache' = authCache
          /\ UNCHANGED <<sshVars, sock, connectionId, sessionId, flow, by, login, cachedUser, terminals,
                     stranded>>
      BY <1>4 DEF ShellOpened, ShellFails, SocketInv, SocketTyped, authVars
    <2> QED BY <2>1, ShellStepKeeps
  <1>5. ASSUME NEW k \in Sockets, NEW c \in Conns, StreamClose(k, c) PROVE SocketInv'
    BY <1>5, StreamCloseKeeps
  <1>6. ASSUME NEW k \in Sockets, SocketDisconnect(k) PROVE SocketInv'
    BY <1>6, DisconnectKeeps DEF SocketDisconnect, SocketInv, SocketTyped
  <1>7. ASSUME NEW s \in Sessions, CacheExpires(s) PROVE SocketInv'
    <2>1. /\ authCache' = [authCache EXCEPT ![s] = "expired"]
          /\ UNCHANGED <<sshVars, sock, connectionId, sessionId, flow, by, login, cachedUser, terminals,
                         stranded, opening, streams, shellStream>>
      BY <1>7 DEF CacheExpires, adapterVars
    <2> QED BY <2>1, ShellStepKeeps DEF SocketInv, SocketTyped
  <1>8. CASE UNCHANGED socketVars
    <2>1. UNCHANGED <<sshVars, sock, connectionId, sessionId, flow, by, login, cachedUser, terminals,
                      stranded, opening, streams, shellStream, authCache>>
      BY <1>8 DEF socketVars, adapterVars, authVars
    <2> QED BY <2>1, ShellStepKeeps DEF SocketInv, SocketTyped
  <1> QED BY <1>1, <1>2, <1>3, <1>4, <1>5, <1>6, <1>7, <1>8 DEF SocketNext

-----------------------------------------------------------------------------
(***************************************************************************)
(* The theorems.                                                           *)
(***************************************************************************)

\* The inductive invariant holds in every reachable state.
THEOREM SocketInvariant == SocketSpec => []SocketInv
  BY SocketInitInv, SocketStepInv, PTL DEF SocketSpec

\* A socket holds a connection of its own login, opened for the session it holds,
\* whatever other sockets share that session (finalizeAuthentication, handleDisconnect).
THEOREM SocketsHoldTheirOwn == SocketSpec => []SocketHoldsItsOwn
  <1>1. SocketInv => SocketHoldsItsOwn
    BY DEF SocketInv
  <1> QED BY <1>1, SocketInvariant, PTL

\* A connection of the pool waits for its login to be finalised or is held by an open
\* socket, whose disconnect handler ends it, or finalizeAuthentication stranded it: by
\* storing its id in a closed socket, or by storing another id over it.
THEOREM PooledAreKnown == SocketSpec => []PooledIsKnown
  <1>1. SocketInv => PooledIsKnown
    BY DEF SocketInv
  <1> QED BY <1>1, SocketInvariant, PTL

\* However logins, expiries and disconnects interleave, a user has one live entry
\* in the cache of AuthService.
THEOREM OneSessionPerUser == SocketSpec => []OneLiveSessionPerUser
  <1>1. SocketInv => OneLiveSessionPerUser
    BY DEF SocketInv
  <1> QED BY <1>1, SocketInvariant, PTL

\* No login lands in a session of another user.
THEOREM SessionsKeepUsers == SocketSpec => []SessionKeepsItsUser
  <1>1. SocketInv => SessionKeepsItsUser
    <2> SUFFICES ASSUME SocketInv, NEW c \in Conns, by[c] # None
                 PROVE  /\ cachedUser[owner[c]] = login[c]
                        /\ owner[c] \in sessions => states[owner[c]].auth.username = login[c]
      BY DEF SessionKeepsItsUser
    <2>1. flow[c] # "idle"
      BY DEF SocketInv, HandlerProgress
    <2> QED BY <2>1 DEF SocketInv, SessionsIssued
  <1> QED BY <1>1, SocketInvariant, PTL

\* Under the sockets the connection service keeps its own promises: a connection a
\* shell is opened on is live.
THEOREM SocketsUseLive == SocketSpec => []UsableIsLive
  <1>1. SocketInv => UsableIsLive
    BY DEF SocketInv, SshInv
  <1> QED BY <1>1, SocketInvariant, PTL

\* And the store, which the sockets write too, names no connection that is gone.
THEOREM SocketsKeepStoreSound == SocketSpec => []StoreNamesRealConnection
  <1>1. SocketInv => StoreNamesRealConnection
    BY DEF SocketInv, SshInv
  <1> QED BY <1>1, SocketInvariant, PTL

-----------------------------------------------------------------------------
(***************************************************************************)
(* The sockets on top of the service still implement ConnectionLease.      *)
(***************************************************************************)

\* What handleDisconnect() does to the pool is to give back at most one lease.
LEMMA DisconnectReturns ==
    ASSUME SocketInv, NEW k \in Sockets, handleDisconnect(k), promise' = promise
    PROVE  [Lease!LeaseNext]_([c \in Conns |-> leaseOf(c)])
  <1> USE DEF SocketInv
  <1>1. CASE connectionId[k] = None
    BY <1>1, LeaseStutter DEF handleDisconnect
  <1>2. CASE connectionId[k] # None
    <2>1. {connectionId[k]} \in SUBSET Conns
      BY <1>2 DEF SocketTyped
    <2>2. pool' = pool \ {connectionId[k]}
      BY <1>2 DEF handleDisconnect, endConnections, poolRemove
    <2>3. Lease!Return({connectionId[k]} \cap pool)
      BY <2>1, <2>2, ReturnStep
    <2> QED BY <2>1, <2>3 DEF Lease!LeaseNext
  <1> QED BY <1>1, <1>2

\* Every step of the sockets is a step of the leases, or a stutter.
LEMMA SocketLeaseStep ==
    ASSUME SocketInv, [SocketNext]_socketVars
    PROVE  [Lease!LeaseNext]_([c \in Conns |-> leaseOf(c)])
  <1> DEFINE Goal == [Lease!LeaseNext]_([c \in Conns |-> leaseOf(c)])
  <1> USE DEF SocketInv
  <1>1. ASSUME NEW c \in Conns, SshTurn(c) PROVE Goal
    <2>1. SshNext
      BY <1>1 DEF SshTurn, SshNext
    <2> QED BY <2>1, LeaseStep
  <1>2. ASSUME NEW k \in Sockets, NEW c \in Conns, NEW u \in Users, Auth(k, c, u) PROVE Goal
    <2>1. /\ promise[c] = "idle" /\ promise' = [promise EXCEPT ![c] = "validating"]
          /\ pool' = pool
      BY <1>2 DEF Auth, AuthIssueNew, AuthUseCached, callConnect
    <2>2. c \notin pool /\ leaseOf(c) = "idle"
      BY <2>1 DEF SshInv, PooledIsEstablished, leaseOf
    <2>3. leaseOf(c)' = "asked" /\ \A d \in Conns : d # c => leaseOf(d)' = leaseOf(d)
      BY <2>1, <2>2 DEF SshInv, SshTypeOK, leaseOf
    <2>4. Lease!Ask(c)
      BY <2>2, <2>3, MoveOne DEF Lease!Ask
    <2> QED BY <2>4 DEF Lease!LeaseNext
  <1>3. ASSUME NEW c \in Conns, AuthFinish(c) PROVE Goal
    BY <1>3, LeaseStutter DEF AuthFinish, sshVars
  <1>4. ASSUME NEW k \in Sockets, NEW t \in Terms, Terminal(k, t) \/ Resize(k, t) PROVE Goal
    BY <1>4, LeaseStutter DEF Terminal, Resize
  <1>5. ASSUME NEW k \in Sockets, NEW c \in Conns, ShellOpened(k, c) \/ ShellFails(k, c) PROVE Goal
    BY <1>5, LeaseStutter DEF ShellOpened, ShellFails, sshVars
  <1>6. ASSUME NEW k \in Sockets, NEW c \in Conns, StreamClose(k, c) PROVE Goal
    BY <1>6, LeaseStutter, DisconnectReturns DEF StreamClose
  <1>7. ASSUME NEW k \in Sockets, SocketDisconnect(k) PROVE Goal
    BY <1>7, DisconnectReturns DEF SocketDisconnect
  <1>8. ASSUME NEW s \in Sessions, CacheExpires(s) PROVE Goal
    BY <1>8, LeaseStutter DEF CacheExpires, sshVars
  <1>9. CASE UNCHANGED socketVars
    BY <1>9, LeaseStutter DEF socketVars, sshVars
  <1> QED BY <1>1, <1>2, <1>3, <1>4, <1>5, <1>6, <1>7, <1>8, <1>9 DEF SocketNext

\* For every number of sockets and logins, what the sockets make of the service is
\* still the leases of ConnectionLease: no connection is lent twice or lent again.
THEOREM SocketsImplementLease == SocketSpec => Lease!LeaseSafety
  <1>1. SocketInit => Lease!LeaseInit
    BY DEF SocketInit, SshInit, leaseOf, Lease!LeaseInit
  <1> QED
    BY <1>1, SocketInvariant, SocketLeaseStep, PTL DEF SocketSpec, Lease!LeaseSafety
=============================================================================
