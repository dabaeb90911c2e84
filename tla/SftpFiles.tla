----------------------------- MODULE SftpFiles ------------------------------
(***************************************************************************)
(* Directory operations through the SFTP subsystem: the session manager    *)
(* app/services/sftp/sftp-session.ts, the operations of                    *)
(* app/services/sftp/sftp-service.ts that use it and the socket handlers.  *)
(*                                                                         *)
(* A request goes through setupOperation() (open a session, expand ~) to   *)
(* its calls of the server, each with a timer.  A call that is answered    *)
(* after its timer has no caller any more, but the server has done it, and *)
(* a session opened late is still stored.  All requests are about one      *)
(* name, so that they meet.                                                *)
(***************************************************************************)
EXTENDS FileRequests

CONSTANTS
    Requests,     \* bound: the requests of the browser
    NoCh          \* no channel

\* At most one open per request, so that there are channels enough.
Channels == 1 .. Cardinality(Requests)

ASSUME SftpFilesAssumption == IsFiniteSet(Requests) /\ NoCh \notin Channels

VARIABLES
    req,          \* Request -> its kind, path with ~ or not, stage and the session it captured
    call,         \* Request -> the call the server has not answered, or "none"
    reply,        \* Request -> the answer that is on its way, or "none"
    opening,      \* requests whose client.sftp() has not answered
    sessions,     \* the channel in the map of the session manager, or NoCh
    channel,      \* Channel -> "unused", "open" or "closed"
    remote,       \* what is at the name: "absent", "file" or "directory"
    answer,       \* Request -> what the browser was told, or "none"
    effect,       \* history: requests that have changed the remote host
    overlap       \* history: an open was asked for or answered out of turn

sftpVars == <<req, call, reply, opening, sessions, channel, remote, answer, effect, overlap>>

Kinds == {"list", "stat", "mkdir", "delete"}

Waiting == {"opening", "expanding", "stat", "operate"}

Errors == {"SFTP_NOT_FOUND", "SFTP_PERMISSION_DENIED", "SFTP_SESSION_ERROR", "SFTP_TIMEOUT",
           "SFTP_NO_CONNECTION", "SFTP_NOT_ENABLED", "SFTP_INVALID_REQUEST", "SFTP_PATH_FORBIDDEN",
           "SFTP_EXTENSION_BLOCKED"}

SftpInit ==
    /\ req = [r \in Requests |-> [kind |-> "list", tilde |-> FALSE, stage |-> "new", ch |-> NoCh]]
    /\ call = [r \in Requests |-> "none"] /\ reply = [r \in Requests |-> "none"]
    /\ opening = {} /\ sessions = NoCh /\ channel = [c \in Channels |-> "unused"]
    /\ remote \in (IF backend = "sftp" THEN {"absent", "file"} ELSE {"absent"})
    /\ answer = [r \in Requests |-> "none"]
    /\ effect = {} /\ overlap = FALSE

-------------------------------------------------------------------------------
\* mapSftpError() looks for phrases in the message of the server.
mapSftpError(message) ==
    CASE message = "no such file"      -> "NOT_FOUND"
      [] message = "permission denied" -> "PERMISSION_DENIED"
      [] OTHER                         -> "OPERATION_FAILED"

\* The code of the service for a code of the session manager.
mapSessionError(code) ==
    CASE code = "NOT_FOUND"         -> "SFTP_NOT_FOUND"
      [] code = "PERMISSION_DENIED" -> "SFTP_PERMISSION_DENIED"
      [] code = "TIMEOUT"           -> "SFTP_TIMEOUT"
      [] code \in {"SESSION_ERROR", "OPERATION_FAILED"} -> "SFTP_SESSION_ERROR"

\* The promise of the handler resolves: one answer to the browser.
respond(r, code) ==
    /\ req' = [req EXCEPT ![r].stage = "answered", ![r].tilde = FALSE]
    /\ answer' = [answer EXCEPT ![r] = code]

\* The first call of the operation itself; delete() looks at the type first.
firstCall(kind) ==
    CASE kind = "list"   -> "readdir"
      [] kind = "mkdir"  -> "mkdir"
      [] OTHER           -> "stat"

\* A path with ~ is expanded by asking for realpath('.'); any other path is taken as it is,
\* and the request goes on to its own calls.
expandTildePath(rec) ==
    IF rec.tilde THEN [stage |-> "expanding", call |-> "realpath"]
    ELSE [stage |-> IF rec.kind = "delete" THEN "stat" ELSE "operate", call |-> firstCall(rec.kind)]

\* With a session: the session is captured and the path is expanded.
resolveTildePath(r, rec, c) ==
    LET step == expandTildePath(rec)
    IN /\ req' = [req EXCEPT ![r] = [rec EXCEPT !.ch = c, !.stage = step.stage]]
       /\ call' = [call EXCEPT ![r] = step.call]

\* Seeded fault: the map is not asked whether there is a session.
ensureSessionAlways(r, rec) ==
    /\ getSSHClient
    /\ req' = [req EXCEPT ![r] = [rec EXCEPT !.stage = "opening"]]
    /\ opening' = opening \cup {r} /\ overlap' = (overlap \/ opening # {})
    /\ UNCHANGED <<call, answer>>

\* ensureSession() and openSession(): a session in the map is used as it is, dead or alive;
\* without one and without a client there is nothing to open.
ensureSession(r, rec) ==
    \/ /\ sessions # NoCh
       /\ resolveTildePath(r, rec, sessions)
       /\ UNCHANGED <<opening, answer, overlap>>
    \/ /\ sessions = NoCh /\ ~getSSHClient
       /\ respond(r, "SFTP_NO_CONNECTION")
       /\ UNCHANGED <<call, opening, overlap>>
    \/ /\ sessions = NoCh /\ getSSHClient
       /\ req' = [req EXCEPT ![r] = [rec EXCEPT !.stage = "opening"]]
       /\ opening' = opening \cup {r} /\ overlap' = (overlap \/ opening # {})
       /\ UNCHANGED <<call, answer>>

\* The path is looked at before a session is.
setupOperation(r, rec, path) ==
    LET refusal == validateOperationPreconditions(path, FALSE)
    IN IF refusal # "ok"
       THEN /\ respond(r, refusal)
            /\ UNCHANGED <<call, opening, overlap>>
       ELSE ensureSession(r, rec)

\* handleList(), handleStat(), handleMkdir() and handleDelete() up to the first await.
handleRequest(r, kind, path) ==
    LET rec == [kind |-> kind, tilde |-> isTilde(path), stage |-> "new", ch |-> NoCh]
    IN /\ browser = "connected" /\ req[r].stage = "new"
       /\ IF handlerRefusal(path) # "ok"
          THEN /\ respond(r, handlerRefusal(path))
               /\ UNCHANGED <<call, opening, overlap>>
          ELSE setupOperation(r, rec, path)
       /\ UNCHANGED <<requestVars, reply, sessions, channel, remote, effect>>

-------------------------------------------------------------------------------

\* client.sftp() answers: the session is stored whoever waits, in the place of another one
\* if there is one; the request goes on if its timer has not run out.
openSucceeds(r) ==
    \E c \in Channels :
       /\ r \in opening /\ ssh \in {"up", "ending"}
       /\ channel[c] = "unused" /\ \A d \in 1 .. c - 1 : channel[d] # "unused"
       /\ opening' = opening \ {r}
       /\ channel' = [channel EXCEPT ![c] = "open"] /\ sessions' = c
       /\ overlap' = (overlap \/ req[r].stage # "opening")
       /\ IF req[r].stage = "opening" THEN resolveTildePath(r, req[r], c)
          ELSE UNCHANGED <<req, call>>
       /\ UNCHANGED <<requestVars, reply, remote, answer, effect>>

\* An error of client.sftp(), which openSession() also makes of what it throws, or the
\* connection is gone.
openFails(r) ==
    /\ r \in opening
    /\ opening' = opening \ {r}
    /\ IF req[r].stage = "opening" THEN respond(r, mapSessionError("SESSION_ERROR"))
       ELSE UNCHANGED <<req, answer>>
    /\ UNCHANGED <<requestVars, call, reply, sessions, channel, remote, effect, overlap>>

\* The timer of openSession(): the open itself goes on.
openTimeout(r) ==
    /\ req[r].stage = "opening"
    /\ respond(r, mapSessionError("TIMEOUT")) /\ overlap' = TRUE
    /\ UNCHANGED <<requestVars, call, reply, opening, sessions, channel, remote, effect>>

\* The SFTP server does a call: what it changes and what it says.
serverCall(what) ==
    CASE what = "realpath"                           -> [says |-> "ok", after |-> remote]
      [] what = "stat" /\ remote # "absent"          -> [says |-> remote, after |-> remote]
      [] what = "readdir" /\ remote = "directory"    -> [says |-> "ok", after |-> remote]
      [] what = "mkdir" /\ remote = "absent"         -> [says |-> "ok", after |-> "directory"]
      [] what = "rmdir" /\ remote = "directory"      -> [says |-> "ok", after |-> "absent"]
      [] what = "unlink" /\ remote = "file"          -> [says |-> "ok", after |-> "absent"]
      [] what \in {"stat", "readdir", "rmdir", "unlink"} /\ remote = "absent" ->
                                                        [says |-> "no such file", after |-> remote]
      [] OTHER                                       -> [says |-> "failure", after |-> remote]

serverAnswers(r) ==
    /\ call[r] # "none" /\ reply[r] = "none" /\ channel[req[r].ch] = "open"
    /\ \/ LET does == serverCall(call[r])
          IN /\ reply' = [reply EXCEPT ![r] = does.says]
             /\ remote' = does.after
             /\ effect' = IF does.after = remote THEN effect ELSE effect \cup {r}
       \/ /\ reply' = [reply EXCEPT ![r] = "permission denied"]
          /\ UNCHANGED <<remote, effect>>
    /\ UNCHANGED <<requestVars, req, call, opening, sessions, channel, answer, overlap>>

\* A call on a channel that is closed, or whose answer the close has swallowed: ssh2 reports
\* an error, or nothing, and the timer decides.
channelError(r) ==
    /\ call[r] # "none" /\ channel[req[r].ch] # "open"
    /\ reply' = [reply EXCEPT ![r] = "failure"]
    /\ UNCHANGED <<requestVars, req, call, opening, sessions, channel, remote, answer, effect, overlap>>

\* Seeded fault: the callback of a call that has timed out answers as well.
wrapSftpOperationLate(r) ==
    /\ reply[r] # "none"
    /\ reply' = [reply EXCEPT ![r] = "none"]
    /\ call' = [call EXCEPT ![r] = "none"]
    /\ respond(r, IF reply[r] \in {"ok", "file", "directory"} THEN "ok" ELSE mapSessionError(mapSftpError(reply[r])))
    /\ UNCHANGED <<requestVars, opening, sessions, channel, remote, effect, overlap>>

\* The callback inside wrapSftpOperation(), and what the operation does next.
wrapSftpOperation(r) ==
    LET stage == req[r].stage
        says == reply[r]
        next(s, c) == req' = [req EXCEPT ![r].stage = s] /\ call' = [call EXCEPT ![r] = c]
    IN /\ says # "none"
       /\ reply' = [reply EXCEPT ![r] = "none"]
       /\ \/ /\ stage \notin Waiting                      \* the timer was first
             /\ call' = [call EXCEPT ![r] = "none"] /\ UNCHANGED <<req, answer>>
          \/ /\ stage \in Waiting /\ says \notin {"ok", "file", "directory"}
             /\ respond(r, mapSessionError(mapSftpError(says))) /\ call' = [call EXCEPT ![r] = "none"]
          \/ /\ stage = "expanding" /\ says = "ok"
             /\ LET step == expandTildePath([req[r] EXCEPT !.tilde = FALSE])
                IN  next(step.stage, step.call)
             /\ UNCHANGED answer
          \/ /\ stage = "stat" /\ says \in {"file", "directory"}
             /\ next("operate", IF says = "directory" THEN "rmdir" ELSE "unlink")
             /\ UNCHANGED answer
          \/ /\ stage = "operate" /\ says \in {"ok", "file", "directory"}
             /\ respond(r, "ok") /\ call' = [call EXCEPT ![r] = "none"]
       /\ UNCHANGED <<requestVars, opening, sessions, channel, remote, effect, overlap>>

\* Seeded fault: the look at the type has no timer.
callTimeoutNotStat(r) ==
    /\ req[r].stage \in Waiting \ {"opening", "stat"}
    /\ respond(r, mapSessionError("TIMEOUT"))
    /\ UNCHANGED <<requestVars, call, reply, opening, sessions, channel, remote, effect, overlap>>

\* The timer of wrapSftpOperation(); the call is not taken back.
callTimeout(r) ==
    /\ req[r].stage \in Waiting \ {"opening"}
    /\ respond(r, mapSessionError("TIMEOUT"))
    /\ UNCHANGED <<requestVars, call, reply, opening, sessions, channel, remote, effect, overlap>>

-------------------------------------------------------------------------------
\* The loss of the connection closes its channels; the map is not told.
sshLost ==
    /\ connectionLost
    /\ channel' = [c \in Channels |-> IF channel[c] = "open" THEN "closed" ELSE channel[c]]
    /\ UNCHANGED <<req, call, reply, opening, sessions, remote, answer, effect, overlap>>

SftpNext ==
    \/ \E r \in Requests :
          \/ \E kind \in Kinds, path \in Paths \ {"blocked"} : handleRequest(r, kind, path)
          \/ openSucceeds(r) \/ openFails(r) \/ openTimeout(r)
          \/ serverAnswers(r) \/ channelError(r) \/ wrapSftpOperation(r) \/ callTimeout(r)
    \/ (sshConnects \/ handleDisconnect \/ hostCloses) /\ UNCHANGED sftpVars
    \/ sshLost

\* Every timer runs out if nothing else clears it.
SftpFairness == \A r \in Requests : WF_sftpVars(openTimeout(r)) /\ WF_sftpVars(callTimeout(r))

-------------------------------------------------------------------------------
\* The answer tells the truth about the remote host, with timers and late callbacks in any
\* order: a success means that the directory was made or the name deleted by this request,
\* and of the errors only a timeout or an error of the session may hide a change.
AnswerMatchesEffect ==
    \A r \in Requests :
       /\ (answer[r] = "ok" /\ req[r].kind \in {"mkdir", "delete"}) => r \in effect
       /\ (answer[r] \in Errors \ {"SFTP_TIMEOUT", "SFTP_SESSION_ERROR"}) => r \notin effect
       /\ (req[r].kind \in {"list", "stat"}) => r \notin effect

\* sftp-service.ts:262 and sftp-session.ts:148: openSession() is meant to keep one channel
\* per connection.  More than one is open, or one is open and out of the map, only if two
\* opens overlapped, or one was answered after its timer.
OneChannelUnlessOverlap ==
    ~overlap => \A c \in Channels : channel[c] = "open" => c = sessions
=============================================================================
