---------------------------- MODULE FileRequests ----------------------------
(***************************************************************************)
(* What the requests for files have in common, whatever the backend: the   *)
(* order of the checks in the handlers of                                  *)
(* app/socket/adapters/service-socket-sftp.ts and in                       *)
(* app/services/sftp/file-service-shared.ts, and the codes of their        *)
(* answers.  One browser socket with at most one SSH connection.           *)
(***************************************************************************)
EXTENDS Naturals, FiniteSets, Sequences

VARIABLES
    backend,      \* ssh.sftp.backend: "sftp", "shell", or "off" for not enabled
    browser,      \* "connected" or "gone"
    ssh           \* the connection of the socket: "none", "up", "closing", "ending" or "lost"

requestVars == <<backend, browser, ssh>>

\* factory.ts: the backend is chosen once, at the start.
RequestInit ==
    /\ backend \in {"sftp", "shell", "off"}
    /\ browser = "connected" /\ ssh = "none"

\* A path as the checks see it.  "malformed" stands for a request that the validators
\* of app/validation/socket/sftp.ts refuse, "tilde" for ~ or ~/...
Paths == {"absolute", "tilde", "malformed", "forbidden", "traversal", "blocked"}

isTilde(path) == path = "tilde"

\* validatePath() and mapPathErrorCode(): the extension is looked at only for transfers.
validateOperationPreconditions(path, checkExtension) ==
    CASE path = "forbidden"                 -> "SFTP_PATH_FORBIDDEN"
      [] path = "blocked" /\ checkExtension -> "SFTP_EXTENSION_BLOCKED"
      [] path = "traversal"                 -> "SFTP_INVALID_REQUEST"
      [] OTHER                              -> "ok"

\* ensureSftpEnabled(), the validator and getConnectionAndSessionIds(), in that order.
\* The identifiers stay when the SSH connection is lost.
handlerRefusal(path) ==
    IF backend = "off" THEN "SFTP_NOT_ENABLED"
    ELSE IF path = "malformed" THEN "SFTP_INVALID_REQUEST"
    ELSE IF ssh = "none" THEN "SFTP_NO_CONNECTION"
    ELSE "ok"

\* The client of a connection that was ended or lost is out of the pool; that of one the
\* host is about to close is not yet.
getSSHClient == ssh \in {"up", "closing"}

sshConnects ==
    /\ browser = "connected" /\ ssh = "none"
    /\ ssh' = "up"
    /\ UNCHANGED <<backend, browser>>

\* The disconnect listener of the adapter: the control handler ends the connection and
\* forgets the identifiers, so that handleDisconnect() of the file handlers, which comes
\* next, finds none and neither closes the session nor cancels the transfers.
handleDisconnect ==
    /\ browser = "connected" /\ browser' = "gone"
    /\ ssh' = IF getSSHClient THEN "ending" ELSE ssh
    /\ UNCHANGED backend

\* The host closes its half of the connection.
hostCloses ==
    /\ ssh = "up" /\ ssh' = "closing"
    /\ UNCHANGED <<backend, browser>>

connectionLost ==
    /\ ssh \in {"up", "closing", "ending"} /\ ssh' = "lost"
    /\ UNCHANGED <<backend, browser>>
=============================================================================
