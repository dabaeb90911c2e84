--------------------------- MODULE SessionReducers ---------------------------
(***************************************************************************)
(* The pure reducers of the session store (app/state).  A session's state  *)
(* is reduced to what the services tell apart: whether it is               *)
(* authenticated and as whom, the status of its connection and the         *)
(* connection it names, and its terminal settings as one value.  Time      *)
(* stamps, host, port, error text and client metadata are left out.        *)
(***************************************************************************)

CONSTANTS None,         \* null in the source
          Conns,        \* connection ids
          Users,        \* user names
          Terms,        \* terminal settings a client can ask for
          DefaultTerm   \* the settings of a session without terminal

AuthStatuses == {"pending", "authenticated", "failed"}
ConnectionStatuses == {"disconnected", "connecting", "connected", "error", "closed"}

SessionState ==
    [ auth       : [status : AuthStatuses, username : Users \cup {None}],
      connection : [status : ConnectionStatuses, connectionId : Conns \cup {None}],
      terminal   : Terms \cup {DefaultTerm} ]

createInitialState ==
    [ auth       |-> [status |-> "pending", username |-> None],
      connection |-> [status |-> "disconnected", connectionId |-> None],
      terminal   |-> DefaultTerm ]

(***************************************************************************)
(* The actions the services dispatch.                                      *)
(***************************************************************************)
AuthSuccess(u)            == [type |-> "AUTH_SUCCESS", username |-> u]
AuthLogout                == [type |-> "AUTH_LOGOUT"]
ConnectionStart           == [type |-> "CONNECTION_START"]
ConnectionEstablished(c)  == [type |-> "CONNECTION_ESTABLISHED", connectionId |-> c]
ConnectionError           == [type |-> "CONNECTION_ERROR"]
ConnectionClosed          == [type |-> "CONNECTION_CLOSED"]
TerminalInit(t)           == [type |-> "TERMINAL_INIT", term |-> t]
TerminalResize(t)         == [type |-> "TERMINAL_RESIZE", term |-> t]
TerminalDestroy           == [type |-> "TERMINAL_DESTROY"]
SessionEnd                == [type |-> "SESSION_END"]

(***************************************************************************)
(* One reducer per slice of the state.                                     *)
(***************************************************************************)
authReducer(auth, action) ==
    CASE action.type = "AUTH_SUCCESS" ->
            [status |-> "authenticated", username |-> action.username]
      [] action.type = "AUTH_LOGOUT" ->
            [status |-> "pending", username |-> None]
      [] action.type \in {"CONNECTION_ERROR", "CONNECTION_CLOSED"} ->
            [auth EXCEPT !.status = IF @ = "authenticated" THEN "pending" ELSE @]
      [] OTHER -> auth

connectionReducer(conn, action) ==
    CASE action.type = "CONNECTION_START" ->
            [conn EXCEPT !.status = "connecting"]
      [] action.type = "CONNECTION_ESTABLISHED" ->
            [status |-> "connected", connectionId |-> action.connectionId]
      [] action.type = "CONNECTION_ERROR" ->
            [conn EXCEPT !.status = "error"]
      [] action.type = "CONNECTION_CLOSED" ->
            [status |-> "closed", connectionId |-> None]
      [] action.type = "AUTH_LOGOUT" ->
            [status |-> "disconnected", connectionId |-> None]
      [] OTHER -> conn

terminalReducer(term, action) ==
    CASE action.type \in {"TERMINAL_INIT", "TERMINAL_RESIZE"} -> action.term
      [] action.type = "TERMINAL_DESTROY" -> DefaultTerm
      [] OTHER -> term

sessionReducer(state, action) ==
    IF action.type = "SESSION_END"
    THEN [ auth       |-> [status |-> "pending", username |-> None],
           connection |-> [status |-> "closed", connectionId |-> None],
           terminal   |-> state.terminal ]
    ELSE [ auth       |-> authReducer(state.auth, action),
           connection |-> connectionReducer(state.connection, action),
           terminal   |-> terminalReducer(state.terminal, action) ]

(***************************************************************************)
(* SessionStore.dispatch: a session the store does not hold is left alone. *)
(* "ids" are the keys of the store's map, "states" its values; the value   *)
(* of an absent key is createInitialState.                                 *)
(***************************************************************************)
dispatch(ids, states, sid, action) ==
    IF sid \in ids
    THEN [states EXCEPT ![sid] = sessionReducer(@, action)]
    ELSE states
=============================================================================
