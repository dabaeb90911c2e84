----------------------------- MODULE FilesProofs ------------------------------
(***************************************************************************)
(* Proofs about the file services behind one socket, for every number of   *)
(* requests and transfers, every chunk size and every limit, and about     *)
(* what a started server lets in: messages of file transfer, and hosts.    *)
(***************************************************************************)
EXTENDS FileService, ServerRequests, FiniteSetTheorems, TLAPS

USE SftpFilesAssumption

-----------------------------------------------------------------------------
(***************************************************************************)
(* The SFTP subsystem (SftpFiles): the inductive invariant.                *)
(***************************************************************************)
Stages == Waiting \cup {"new", "answered"}

Calls == {"none", "realpath", "stat", "readdir", "mkdir", "rmdir", "unlink"}

Replies == {"none", "ok", "file", "directory", "no such file", "failure", "permission denied"}

SftpTyped ==
    /\ req \in [Requests -> [kind : Kinds, tilde : BOOLEAN, stage : Stages,
                             ch : Channels \cup {NoCh}]]
    /\ call \in [Requests -> Calls] /\ reply \in [Requests -> Replies]
    /\ opening \in SUBSET Requests /\ sessions \in Channels \cup {NoCh}
    /\ channel \in [Channels -> {"unused", "open", "closed"}]
    /\ remote \in {"absent", "file", "directory"}
    /\ answer \in [Requests -> {"none", "ok"} \cup Errors]
    /\ effect \in SUBSET Requests /\ overlap \in BOOLEAN

\* The calls a request of this kind makes to read, and the one that may write.
Reads(kind) == {"realpath", "stat"} \cup (IF kind = "list" THEN {"readdir"} ELSE {})

Writes(kind) ==
    CASE kind = "mkdir"  -> {"mkdir"}
      [] kind = "delete" -> {"rmdir", "unlink"}
      [] OTHER           -> {}

\* How far a request is: which call is out, what its reply can be, and what has become
\* of the remote host by then.  It has changed only by the last call of a mkdir or a
\* delete, a reply "ok" to that call means it has, and no answer but a timeout or an
\* error of the session leaves a call behind that may still change it.
RequestProgress(r) ==
    /\ call[r] \in {"none"} \cup Reads(req[r].kind) \cup Writes(req[r].kind)
    /\ call[r] = "none" => reply[r] = "none"
    /\ call[r] # "none" => req[r].ch \in Channels
    /\ req[r].stage # "answered" => answer[r] = "none"
    /\ req[r].stage \in {"new", "opening"} => call[r] = "none" /\ r \notin effect
    /\ req[r].stage = "expanding" => call[r] = "realpath" /\ r \notin effect
    /\ req[r].stage = "stat" =>
          req[r].kind = "delete" /\ call[r] = "stat" /\ r \notin effect
    /\ req[r].stage = "operate" =>
          /\ req[r].kind \in {"mkdir", "delete"} => call[r] \in Writes(req[r].kind)
          /\ reply[r] \notin {"ok", "failure"} => r \notin effect
          /\ (req[r].kind \in {"mkdir", "delete"} /\ reply[r] = "ok") => r \in effect
    /\ call[r] \in {"mkdir", "rmdir", "unlink"} => reply[r] \notin {"file", "directory"}
    /\ req[r].kind \in {"list", "stat"} => r \notin effect
    /\ (req[r].stage = "answered" /\ req[r].kind \in {"mkdir", "delete"} /\ answer[r] = "ok")
          => r \in effect
    /\ (req[r].stage = "answered" /\ answer[r] \notin {"ok", "SFTP_TIMEOUT", "SFTP_SESSION_ERROR"})
          => r \notin effect /\ call[r] = "none"
    /\ (req[r].stage = "answered" /\ answer[r] \in {"ok", "SFTP_SESSION_ERROR"}) => call[r] = "none"

\* Without an overlap there is at most one open under way, of a request that waits for
\* it, and only while the map has no session.
OneOpening ==
    ~overlap =>
        /\ opening # {} => sessions = NoCh
        /\ \A r \in opening : req[r].stage = "opening" /\ \A s \in opening : s = r

SftpInv ==
    /\ SftpTyped
    /\ \A r \in Requests : RequestProgress(r)
    /\ OneOpening
    /\ OneChannelUnlessOverlap

\* A step of r leaves what the others have got to alone.
OthersKept(r) ==
    \A s \in Requests \ {r} :
       /\ req'[s] = req[s] /\ call'[s] = call[s] /\ reply'[s] = reply[s] /\ answer'[s] = answer[s]
       /\ (s \in effect') = (s \in effect)

LEMMA OthersProgress ==
    ASSUME NEW r \in Requests, \A s \in Requests : RequestProgress(s),
           OthersKept(r), RequestProgress(r)'
    PROVE  \A s \in Requests : RequestProgress(s)'
  <1> SUFFICES ASSUME NEW s \in Requests, s # r PROVE RequestProgress(s)'
    OBVIOUS
  <1> QED BY DEF OthersKept, RequestProgress

\* The codes the browser is told.
LEMMA SessionCodes ==
    /\ \A m \in Replies : mapSessionError(mapSftpError(m)) \in
          {"SFTP_NOT_FOUND", "SFTP_PERMISSION_DENIED", "SFTP_SESSION_ERROR"}
    /\ mapSessionError("SESSION_ERROR") = "SFTP_SESSION_ERROR"
    /\ mapSessionError("TIMEOUT") = "SFTP_TIMEOUT"
    /\ \A m \in Replies : mapSessionError(mapSftpError(m)) # "SFTP_SESSION_ERROR"
          => m \in {"no such file", "permission denied"}
  BY DEF mapSessionError, mapSftpError, Replies

LEMMA RefusalCodes ==
    ASSUME NEW path \in Paths
    PROVE  /\ handlerRefusal(path) \in {"ok"} \cup (Errors \ {"SFTP_TIMEOUT", "SFTP_SESSION_ERROR"})
           /\ validateOperationPreconditions(path, FALSE)
                \in {"ok"} \cup (Errors \ {"SFTP_TIMEOUT", "SFTP_SESSION_ERROR"})
  BY DEF Paths, handlerRefusal, validateOperationPreconditions, Errors

\* With a session, a request goes on to the call of its path or to its own.
LEMMA ResolveSteps ==
    ASSUME SftpInv, NEW r \in Requests, NEW rec \in [kind : Kinds, tilde : BOOLEAN, stage : Stages,
                                                    ch : Channels \cup {NoCh}],
           NEW c \in Channels, resolveTildePath(r, rec, c),
           answer[r] = "none", r \notin effect, reply[r] = "none", UNCHANGED <<reply, answer, effect>>
    PROVE  /\ req' \in [Requests -> [kind : Kinds, tilde : BOOLEAN, stage : Stages,
                                     ch : Channels \cup {NoCh}]]
           /\ call' \in [Requests -> Calls]
           /\ RequestProgress(r)' /\ OthersKept(r) /\ req'[r].stage # "opening"
  <1> DEFINE step == expandTildePath(rec)
  <1>1. /\ req' = [req EXCEPT ![r] = [rec EXCEPT !.ch = c, !.stage = step.stage]]
        /\ call' = [call EXCEPT ![r] = step.call]
    BY DEF resolveTildePath
  <1>2. \/ step.stage = "expanding" /\ step.call = "realpath"
        \/ rec.kind = "delete" /\ step.stage = "stat" /\ step.call = "stat"
        \/ rec.kind = "list" /\ step.stage = "operate" /\ step.call = "readdir"
        \/ rec.kind = "mkdir" /\ step.stage = "operate" /\ step.call = "mkdir"
        \/ rec.kind = "stat" /\ step.stage = "operate" /\ step.call = "stat"
    BY DEF expandTildePath, firstCall, Kinds
  <1> HIDE DEF step
  <1>3. step.stage \in {"expanding", "stat", "operate"} /\ step.call \in Calls \ {"none"}
    BY <1>2 DEF Calls
  <1>4. /\ req'[r].kind = rec.kind /\ req'[r].stage = step.stage /\ req'[r].ch = c
        /\ call'[r] = step.call /\ reply'[r] = "none" /\ answer'[r] = "none" /\ r \notin effect'
    BY <1>1 DEF SftpInv, SftpTyped
  <1>5. /\ req' \in [Requests -> [kind : Kinds, tilde : BOOLEAN, stage : Stages,
                                  ch : Channels \cup {NoCh}]]
        /\ call' \in [Requests -> Calls]
    BY <1>1, <1>3 DEF SftpInv, SftpTyped, Stages, Waiting
  <1>6. OthersKept(r)
    BY <1>1 DEF SftpInv, SftpTyped, OthersKept
  <1>7. RequestProgress(r)'
    BY <1>2, <1>4 DEF RequestProgress, Reads, Writes, Kinds
  <1> QED BY <1>3, <1>4, <1>5, <1>6, <1>7

\* An answer to a request whose call is over, or that timed out.
LEMMA RespondSteps ==
    ASSUME SftpInv, NEW r \in Requests, NEW code \in {"ok"} \cup Errors, respond(r, code)
    PROVE  /\ req' \in [Requests -> [kind : Kinds, tilde : BOOLEAN, stage : Stages,
                                     ch : Channels \cup {NoCh}]]
           /\ answer' \in [Requests -> {"none", "ok"} \cup Errors]
           /\ req'[r].kind = req[r].kind /\ req'[r].ch = req[r].ch
           /\ req'[r].stage = "answered" /\ answer'[r] = code
           /\ \A s \in Requests \ {r} : req'[s] = req[s] /\ answer'[s] = answer[s]
  <1>1. /\ req' = [req EXCEPT ![r] = [req[r] EXCEPT !.stage = "answered", !.tilde = FALSE]]
        /\ answer' = [answer EXCEPT ![r] = code]
    BY DEF respond, SftpInv, SftpTyped
  <1>2. req[r] \in [kind : Kinds, tilde : BOOLEAN, stage : Stages, ch : Channels \cup {NoCh}]
    BY DEF SftpInv, SftpTyped
  <1>3. [req[r] EXCEPT !.stage = "answered", !.tilde = FALSE]
           \in [kind : Kinds, tilde : BOOLEAN, stage : Stages, ch : Channels \cup {NoCh}]
    BY <1>2 DEF Stages
  <1>4. req' \in [Requests -> [kind : Kinds, tilde : BOOLEAN, stage : Stages,
                              ch : Channels \cup {NoCh}]]
    BY <1>1, <1>3 DEF SftpInv, SftpTyped
  <1>5. answer' \in [Requests -> {"none", "ok"} \cup Errors]
    BY <1>1 DEF SftpInv, SftpTyped
  <1> QED BY <1>1, <1>2, <1>4, <1>5 DEF SftpInv, SftpTyped

\* A step that starts no open and stores no session.
LEMMA NoOpenKeeps ==
    ASSUME SftpInv, opening' \subseteq opening, sessions' = sessions, overlap => overlap',
           \A c \in Channels : channel'[c] = "open" => channel[c] = "open",
           \A s \in opening' : overlap' \/ req'[s].stage = req[s].stage
    PROVE  OneOpening' /\ OneChannelUnlessOverlap'
  BY DEF SftpInv, OneOpening, OneChannelUnlessOverlap

\* An answer keeps the invariant when the call is over, or has timed out, and the answer
\* is true of the remote host.
LEMMA RespondKeeps ==
    ASSUME SftpInv, NEW r \in Requests, req[r].stage # "answered",
           NEW code \in {"ok"} \cup Errors, respond(r, code),
           call' \in [Requests -> Calls], reply' \in [Requests -> Replies],
           \A s \in Requests \ {r} : call'[s] = call[s] /\ reply'[s] = reply[s],
           \/ call'[r] = call[r] /\ reply'[r] = reply[r] /\ (code # "SFTP_TIMEOUT" => call[r] = "none")
           \/ call'[r] = "none" /\ reply'[r] = "none",
           code = "ok" /\ req[r].kind \in {"mkdir", "delete"} => r \in effect,
           code \in {"ok", "SFTP_TIMEOUT", "SFTP_SESSION_ERROR"} \/ r \notin effect,
           opening' \subseteq opening, overlap' \in BOOLEAN, overlap => overlap',
           r \notin opening' \/ overlap', UNCHANGED <<sessions, channel, remote, effect>>
    PROVE  SftpInv'
  <1> USE DEF SftpInv
  <1>1. RequestProgress(r)
    OBVIOUS
  <1>2. /\ req' \in [Requests -> [kind : Kinds, tilde : BOOLEAN, stage : Stages,
                                  ch : Channels \cup {NoCh}]]
        /\ answer' \in [Requests -> {"none", "ok"} \cup Errors]
        /\ req'[r].kind = req[r].kind /\ req'[r].ch = req[r].ch
        /\ req'[r].stage = "answered" /\ answer'[r] = code
        /\ \A s \in Requests \ {r} : req'[s] = req[s] /\ answer'[s] = answer[s]
    BY RespondSteps
  <1>3. SftpTyped'
    BY <1>2 DEF SftpTyped
  <1>4. RequestProgress(r)'
    BY <1>1, <1>2 DEF RequestProgress
  <1>5. OthersKept(r)
    BY <1>2 DEF OthersKept
  <1>6. \A s \in Requests : RequestProgress(s)'
    BY <1>4, <1>5, OthersProgress
  <1>7. \A s \in opening' : overlap' \/ req'[s].stage = req[s].stage
    BY <1>2 DEF SftpTyped
  <1>8. OneOpening' /\ OneChannelUnlessOverlap'
    BY <1>7, NoOpenKeeps
  <1> QED BY <1>3, <1>6, <1>8

\* ensureSession(), on behalf of a request that has just come in.
LEMMA EnsureKeeps ==
    ASSUME SftpInv, NEW r \in Requests, req[r].stage = "new",
           NEW rec \in [kind : Kinds, tilde : BOOLEAN, stage : Stages, ch : Channels \cup {NoCh}],
           ensureSession(r, rec), UNCHANGED <<reply, sessions, channel, remote, effect>>
    PROVE  SftpInv'
  <1> USE DEF SftpInv
  <1>1. /\ RequestProgress(r) /\ call[r] = "none" /\ reply[r] = "none" /\ answer[r] = "none"
        /\ r \notin effect
    BY DEF RequestProgress
  <1>2. CASE /\ sessions # NoCh /\ resolveTildePath(r, rec, sessions)
             /\ UNCHANGED <<opening, answer, overlap>>
    <2>1. sessions \in Channels
      BY <1>2 DEF SftpTyped
    <2>2. /\ SftpTyped' /\ RequestProgress(r)' /\ OthersKept(r)
      <3>1. /\ req' \in [Requests -> [kind : Kinds, tilde : BOOLEAN, stage : Stages,
                                      ch : Channels \cup {NoCh}]]
            /\ call' \in [Requests -> Calls]
            /\ RequestProgress(r)' /\ OthersKept(r)
        BY <1>1, <1>2, <2>1, ResolveSteps
      <3> QED BY <1>2, <3>1 DEF SftpTyped
    <2>3. \A s \in Requests : RequestProgress(s)'
      BY <2>2, OthersProgress
    <2>4. \A s \in opening' : overlap' \/ req'[s].stage = req[s].stage
      BY <1>2, <2>2 DEF OthersKept, OneOpening, SftpTyped
    <2>5. OneOpening' /\ OneChannelUnlessOverlap'
      BY <1>2, <2>4, NoOpenKeeps
    <2> QED BY <2>2, <2>3, <2>5
  <1>3. CASE /\ respond(r, "SFTP_NO_CONNECTION") /\ UNCHANGED <<call, opening, overlap>>
    <2>1. "SFTP_NO_CONNECTION" \in Errors
      BY DEF Errors
    <2>2. r \notin opening \/ overlap
      BY DEF OneOpening
    <2> QED BY <1>1, <1>3, <2>1, <2>2, RespondKeeps DEF SftpTyped
  <1>4. CASE /\ sessions = NoCh
             /\ req' = [req EXCEPT ![r] = [rec EXCEPT !.stage = "opening"]]
             /\ opening' = opening \cup {r} /\ overlap' = (overlap \/ opening # {})
             /\ UNCHANGED <<call, answer>>
    <2>1. [rec EXCEPT !.stage = "opening"]
             \in [kind : Kinds, tilde : BOOLEAN, stage : Stages, ch : Channels \cup {NoCh}]
      BY DEF Stages, Waiting
    <2>2. SftpTyped'
      BY <1>4, <2>1 DEF SftpTyped
    <2>3. /\ req'[r].stage = "opening" /\ \A s \in Requests \ {r} : req'[s] = req[s]
      BY <1>4 DEF SftpTyped
    <2>4. RequestProgress(r)' /\ OthersKept(r)
      BY <1>1, <1>4, <2>3 DEF RequestProgress, OthersKept
    <2>5. \A s \in Requests : RequestProgress(s)'
      BY <2>4, OthersProgress
    <2>6. OneOpening'
      BY <1>4, <2>3 DEF OneOpening
    <2>7. OneChannelUnlessOverlap'
      BY <1>4 DEF OneChannelUnlessOverlap, SftpTyped
    <2> QED BY <2>2, <2>5, <2>6, <2>7
  <1> QED BY <1>2, <1>3, <1>4 DEF ensureSession

\* A request comes in: it is refused, or it gets or waits for a session.
LEMMA RequestKeeps ==
    ASSUME SftpInv, NEW r \in Requests, NEW kind \in Kinds, NEW path \in Paths,
           handleRequest(r, kind, path)
    PROVE  SftpInv'
  <1> DEFINE rec == [kind |-> kind, tilde |-> isTilde(path), stage |-> "new", ch |-> NoCh]
  <1>1. /\ req[r].stage = "new" /\ UNCHANGED <<reply, sessions, channel, remote, effect>>
        /\ IF handlerRefusal(path) # "ok"
           THEN respond(r, handlerRefusal(path)) /\ UNCHANGED <<call, opening, overlap>>
           ELSE setupOperation(r, rec, path)
    BY DEF handleRequest
  <1>2. rec \in [kind : Kinds, tilde : BOOLEAN, stage : Stages, ch : Channels \cup {NoCh}]
    BY DEF isTilde, Stages
  <1>3. ASSUME NEW code \in Errors \ {"SFTP_TIMEOUT", "SFTP_SESSION_ERROR"}, respond(r, code),
               UNCHANGED <<call, opening, overlap>>
        PROVE  SftpInv'
    <2>1. /\ call[r] = "none" /\ reply[r] = "none" /\ r \notin effect
          /\ r \notin opening \/ overlap
      BY <1>1 DEF SftpInv, RequestProgress, OneOpening
    <2>2. code # "ok" /\ code \in {"ok"} \cup Errors
      BY DEF Errors
    <2> QED BY <1>1, <1>3, <2>1, <2>2, RespondKeeps DEF SftpInv, SftpTyped
  <1>4. CASE handlerRefusal(path) # "ok"
    BY <1>1, <1>3, <1>4, RefusalCodes
  <1>5. CASE handlerRefusal(path) = "ok"
    <2>1. setupOperation(r, rec, path)
      BY <1>1, <1>5
    <2> HIDE DEF rec
    <2>2. CASE validateOperationPreconditions(path, FALSE) # "ok"
      BY <1>3, <2>1, <2>2, RefusalCodes DEF setupOperation
    <2>3. CASE validateOperationPreconditions(path, FALSE) = "ok"
      <3>1. ensureSession(r, rec)
        BY <2>1, <2>3 DEF setupOperation
      <3> QED BY <1>1, <1>2, <3>1, EnsureKeeps
    <2> QED BY <2>2, <2>3
  <1> QED BY <1>4, <1>5

\* The answers to an open, and its timer.
LEMMA OpenKeeps ==
    ASSUME SftpInv, NEW r \in Requests, openSucceeds(r) \/ openFails(r) \/ openTimeout(r)
    PROVE  SftpInv'
  <1> USE DEF SftpInv
  <1>1. RequestProgress(r)
    OBVIOUS
  <1>2. CASE openSucceeds(r)
    <2>1. PICK c \in Channels :
            /\ r \in opening /\ channel[c] = "unused"
            /\ opening' = opening \ {r}
            /\ channel' = [channel EXCEPT ![c] = "open"] /\ sessions' = c
            /\ overlap' = (overlap \/ req[r].stage # "opening")
            /\ IF req[r].stage = "opening" THEN resolveTildePath(r, req[r], c)
               ELSE UNCHANGED <<req, call>>
            /\ UNCHANGED <<reply, remote, answer, effect>>
      BY <1>2 DEF openSucceeds
    <2>2. /\ SftpTyped' /\ RequestProgress(r)' /\ OthersKept(r)
      <3>1. CASE req[r].stage = "opening"
        <4>1. /\ answer[r] = "none" /\ r \notin effect /\ reply[r] = "none"
          BY <1>1, <3>1 DEF RequestProgress
        <4>2. req[r] \in [kind : Kinds, tilde : BOOLEAN, stage : Stages, ch : Channels \cup {NoCh}]
          BY DEF SftpTyped
        <4>3. resolveTildePath(r, req[r], c) /\ UNCHANGED <<reply, answer, effect>>
          BY <2>1, <3>1
        <4>4. /\ req' \in [Requests -> [kind : Kinds, tilde : BOOLEAN, stage : Stages,
                                        ch : Channels \cup {NoCh}]]
              /\ call' \in [Requests -> Calls]
              /\ RequestProgress(r)' /\ OthersKept(r)
          BY <4>1, <4>2, <4>3, ResolveSteps
        <4> QED BY <2>1, <4>4 DEF SftpTyped
      <3>2. CASE req[r].stage # "opening"
        BY <1>1, <2>1, <3>2 DEF SftpTyped, RequestProgress, OthersKept
      <3> QED BY <3>1, <3>2
    <2>3. \A s \in Requests : RequestProgress(s)'
      BY <2>2, OthersProgress
    <2>4. OneOpening'
      BY <2>1 DEF OneOpening
    <2>5. OneChannelUnlessOverlap'
      BY <2>1 DEF OneOpening, OneChannelUnlessOverlap, SftpTyped
    <2> QED BY <2>2, <2>3, <2>4, <2>5
  <1>3. CASE openFails(r)
    <2>1. CASE req[r].stage = "opening"
      <3>1. /\ respond(r, "SFTP_SESSION_ERROR") /\ opening' = opening \ {r}
            /\ UNCHANGED <<call, reply, sessions, channel, remote, effect, overlap>>
        BY <1>3, <2>1, SessionCodes DEF openFails
      <3>2. /\ call[r] = "none" /\ r \notin effect /\ "SFTP_SESSION_ERROR" \in Errors
        BY <1>1, <2>1 DEF RequestProgress, Errors
      <3> QED BY <2>1, <3>1, <3>2, RespondKeeps DEF SftpTyped
    <2>2. CASE req[r].stage # "opening"
      <3>1. /\ opening' = opening \ {r}
            /\ UNCHANGED <<req, answer, call, reply, sessions, channel, remote, effect, overlap>>
        BY <1>3, <2>2 DEF openFails
      <3>2. OneOpening' /\ OneChannelUnlessOverlap'
        BY <3>1, NoOpenKeeps
      <3> QED BY <3>1, <3>2 DEF SftpTyped, RequestProgress
    <2> QED BY <2>1, <2>2
  <1>4. CASE openTimeout(r)
    <2>1. /\ respond(r, "SFTP_TIMEOUT") /\ overlap' = TRUE /\ req[r].stage = "opening"
          /\ UNCHANGED <<call, reply, opening, sessions, channel, remote, effect>>
      BY <1>4, SessionCodes DEF openTimeout
    <2>2. "SFTP_TIMEOUT" \in Errors
      BY DEF Errors
    <2> QED BY <2>1, <2>2, RespondKeeps DEF SftpTyped
  <1> QED BY <1>2, <1>3, <1>4

\* What the server says of a call is true: a call that reads changes nothing, one that
\* writes has changed the host exactly when it says "ok".
LEMMA ServerTellsTruth ==
    ASSUME remote \in {"absent", "file", "directory"}, NEW what \in Calls \ {"none"}
    PROVE  /\ serverCall(what).says \in {"ok", "file", "directory", "no such file", "failure"}
           /\ serverCall(what).after \in {"absent", "file", "directory"}
           /\ what \in {"realpath", "stat", "readdir"} => serverCall(what).after = remote
           /\ what \in {"mkdir", "rmdir", "unlink"} =>
                 /\ serverCall(what).says \notin {"file", "directory"}
                 /\ (serverCall(what).says = "ok") <=> (serverCall(what).after # remote)
  BY DEF serverCall, Calls

\* A call is answered by the server, or by the closed channel.
LEMMA ReplyKeeps ==
    ASSUME SftpInv, NEW r \in Requests, serverAnswers(r) \/ channelError(r)
    PROVE  SftpInv'
  <1> USE DEF SftpInv
  <1>1. RequestProgress(r) /\ call[r] \in Calls \ {"none"}
    BY DEF SftpTyped, serverAnswers, channelError
  <1>2. /\ UNCHANGED <<req, call, opening, sessions, channel, answer, overlap>>
        /\ \E m \in Replies \ {"none"} : reply' = [reply EXCEPT ![r] = m]
    BY <1>1, ServerTellsTruth DEF serverAnswers, channelError, Replies, SftpTyped
  <1>3. OneOpening' /\ OneChannelUnlessOverlap'
    BY <1>2, NoOpenKeeps
  <1>4. ASSUME SftpTyped', RequestProgress(r)', OthersKept(r) PROVE SftpInv'
    <2>1. \A s \in Requests : RequestProgress(s)'
      BY <1>4, OthersProgress
    <2> QED BY <1>3, <1>4, <2>1
  <1>5. CASE /\ reply[r] = "none" /\ reply' = [reply EXCEPT ![r] = serverCall(call[r]).says]
             /\ remote' = serverCall(call[r]).after
             /\ effect' = IF serverCall(call[r]).after = remote THEN effect ELSE effect \cup {r}
    <2> DEFINE does == serverCall(call[r])
    <2>1. /\ does.says \in {"ok", "file", "directory", "no such file", "failure"}
          /\ does.after \in {"absent", "file", "directory"}
          /\ call[r] \in {"realpath", "stat", "readdir"} => does.after = remote
          /\ call[r] \in {"mkdir", "rmdir", "unlink"} =>
                does.says \notin {"file", "directory"} /\ ((does.says = "ok") <=> (does.after # remote))
      BY <1>1, ServerTellsTruth DEF SftpTyped
    <2> HIDE DEF does
    <2>2. /\ reply' = [reply EXCEPT ![r] = does.says] /\ remote' = does.after
          /\ effect' = IF does.after = remote THEN effect ELSE effect \cup {r}
      BY <1>5 DEF does
    <2>3. SftpTyped'
      BY <1>2, <2>1, <2>2 DEF SftpTyped, Replies
    <2>4. OthersKept(r) /\ reply'[r] = does.says
      BY <1>2, <2>2 DEF OthersKept, SftpTyped
    <2>5. (r \in effect') <=> (r \in effect \/ does.after # remote)
      BY <2>2
    <2>6. call[r] \in {"realpath", "stat", "readdir"} \/ call[r] \in {"mkdir", "rmdir", "unlink"}
      BY <1>1 DEF Calls
    <2>7. req[r].kind \in Kinds
      BY DEF SftpTyped
    <2>8. CASE call[r] \in {"realpath", "stat", "readdir"}
      <3>1. effect' = effect
        BY <2>1, <2>2, <2>8
      <3>2. RequestProgress(r)'
        BY <1>1, <1>2, <1>5, <2>1, <2>4, <2>7, <2>8, <3>1 DEF RequestProgress, Reads, Writes, Kinds
      <3> QED BY <1>4, <2>3, <2>4, <3>2
    <2>9. CASE call[r] \in {"mkdir", "rmdir", "unlink"}
      <3>1. req[r].kind \in {"mkdir", "delete"}
        BY <1>1, <2>7, <2>9 DEF RequestProgress, Reads, Writes, Kinds
      <3>2. RequestProgress(r)'
        BY <1>1, <1>2, <1>5, <2>1, <2>4, <2>5, <2>9, <3>1 DEF RequestProgress, Reads, Writes
      <3> QED BY <1>4, <2>3, <2>4, <3>2
    <2> QED BY <2>6, <2>8, <2>9
  <1>6. CASE /\ reply[r] = "none" /\ reply' = [reply EXCEPT ![r] = "permission denied"]
             /\ UNCHANGED <<remote, effect>>
    <2>1. SftpTyped' /\ OthersKept(r) /\ reply'[r] = "permission denied"
      BY <1>2, <1>6 DEF SftpTyped, OthersKept, Replies
    <2>2. RequestProgress(r)'
      BY <1>1, <1>2, <1>6, <2>1 DEF RequestProgress
    <2> QED BY <1>4, <2>1, <2>2
  <1>7. CASE reply' = [reply EXCEPT ![r] = "failure"] /\ UNCHANGED <<remote, effect>>
    <2>1. SftpTyped' /\ OthersKept(r) /\ reply'[r] = "failure"
      BY <1>2, <1>7 DEF SftpTyped, OthersKept, Replies
    <2>2. RequestProgress(r)'
      BY <1>1, <1>2, <1>7, <2>1 DEF RequestProgress
    <2> QED BY <1>4, <2>1, <2>2
  <1> QED BY <1>5, <1>6, <1>7 DEF serverAnswers, channelError

\* The callback of a call: its answer, the next call, or nothing after the timer.
LEMMA CallbackKeeps ==
    ASSUME SftpInv, NEW r \in Requests, wrapSftpOperation(r)
    PROVE  SftpInv'
  <1> USE DEF SftpInv
  <1> DEFINE says == reply[r]
             stage == req[r].stage
  <1>1. RequestProgress(r) /\ says # "none" /\ says \in Replies /\ call[r] # "none"
    BY DEF wrapSftpOperation, SftpTyped, RequestProgress
  <1>2. /\ reply' = [reply EXCEPT ![r] = "none"]
        /\ UNCHANGED <<opening, sessions, channel, remote, effect, overlap>>
    BY DEF wrapSftpOperation
  <1>3. stage \in {"expanding", "stat", "operate", "answered"}
    BY <1>1 DEF RequestProgress, SftpTyped, Stages, Waiting
  <1>4. r \notin opening \/ overlap
    BY <1>3 DEF OneOpening
  <1>5. CASE /\ stage = "answered" /\ call' = [call EXCEPT ![r] = "none"] /\ UNCHANGED <<req, answer>>
    <2>1. SftpTyped' /\ OthersKept(r) /\ reply'[r] = "none" /\ call'[r] = "none"
      BY <1>2, <1>5 DEF SftpTyped, OthersKept, Calls, Replies
    <2>2. RequestProgress(r)'
      BY <1>1, <1>2, <1>5, <2>1 DEF RequestProgress
    <2>3. \A s \in Requests : RequestProgress(s)'
      BY <2>1, <2>2, OthersProgress
    <2>4. OneOpening' /\ OneChannelUnlessOverlap'
      BY <1>2, <1>5, NoOpenKeeps
    <2> QED BY <2>1, <2>3, <2>4
  <1>6. ASSUME NEW code \in {"ok"} \cup Errors, respond(r, code), call' = [call EXCEPT ![r] = "none"],
               stage # "answered", code = "ok" /\ req[r].kind \in {"mkdir", "delete"} => r \in effect,
               code \in {"ok", "SFTP_TIMEOUT", "SFTP_SESSION_ERROR"} \/ r \notin effect
        PROVE  SftpInv'
    <2>1. /\ call' \in [Requests -> Calls] /\ reply' \in [Requests -> Replies]
          /\ call'[r] = "none" /\ reply'[r] = "none"
          /\ \A s \in Requests \ {r} : call'[s] = call[s] /\ reply'[s] = reply[s]
      BY <1>2, <1>6 DEF SftpTyped, Calls, Replies
    <2> QED BY <1>2, <1>4, <1>6, <2>1, RespondKeeps DEF SftpTyped
  <1>7. CASE /\ stage \in Waiting /\ says \notin {"ok", "file", "directory"}
             /\ respond(r, mapSessionError(mapSftpError(says))) /\ call' = [call EXCEPT ![r] = "none"]
    <2> DEFINE code == mapSessionError(mapSftpError(says))
    <2>1. /\ code \in {"SFTP_NOT_FOUND", "SFTP_PERMISSION_DENIED", "SFTP_SESSION_ERROR"}
          /\ code # "SFTP_SESSION_ERROR" => says \in {"no such file", "permission denied"}
      BY <1>1, SessionCodes
    <2> HIDE DEF code
    <2>2. code \in Errors /\ code # "ok"
      BY <2>1 DEF Errors
    <2>3. says \in {"no such file", "permission denied"} => r \notin effect
      BY <1>1, <1>3, <1>7 DEF RequestProgress, Waiting
    <2>4. code \in {"ok", "SFTP_TIMEOUT", "SFTP_SESSION_ERROR"} \/ r \notin effect
      BY <2>1, <2>3
    <2>5. respond(r, code) /\ stage # "answered"
      BY <1>7 DEF code, Waiting
    <2> QED BY <1>6, <1>7, <2>2, <2>4, <2>5
  <1>8. CASE stage = "operate" /\ says \in {"ok", "file", "directory"}
             /\ respond(r, "ok") /\ call' = [call EXCEPT ![r] = "none"]
    <2>1. req[r].kind \in {"mkdir", "delete"} => r \in effect
      <3>1. req[r].kind \in {"mkdir", "delete"} => call[r] \in {"mkdir", "rmdir", "unlink"}
        BY <1>1, <1>8 DEF RequestProgress, Writes
      <3>2. req[r].kind \in {"mkdir", "delete"} => says = "ok"
        BY <1>1, <1>8, <3>1 DEF RequestProgress
      <3> QED BY <1>1, <1>8, <3>2 DEF RequestProgress
    <2> QED BY <1>6, <1>8, <2>1
  <1>9. ASSUME NEW s \in {"stat", "operate"}, NEW c \in Calls \ {"none"},
               req' = [req EXCEPT ![r].stage = s], call' = [call EXCEPT ![r] = c], UNCHANGED answer,
               stage \in {"expanding", "stat"},
               \/ s = "stat" /\ c = "stat" /\ req[r].kind = "delete"
               \/ s = "operate" /\ c \in Reads(req[r].kind) /\ req[r].kind \in {"list", "stat"}
               \/ s = "operate" /\ c \in Writes(req[r].kind)
        PROVE  SftpInv'
    <2>1. /\ req'[r].stage = s /\ req'[r].kind = req[r].kind /\ req'[r].ch = req[r].ch
          /\ reply'[r] = "none" /\ call'[r] = c /\ answer'[r] = answer[r] /\ OthersKept(r)
      BY <1>2, <1>9 DEF SftpTyped, OthersKept
    <2>2. SftpTyped'
      BY <1>2, <1>9 DEF SftpTyped, Replies, Stages, Waiting
    <2>3. /\ answer[r] = "none" /\ r \notin effect /\ req[r].ch \in Channels
      BY <1>1, <1>9 DEF RequestProgress
    <2>4. RequestProgress(r)'
      BY <1>2, <1>9, <2>1, <2>3 DEF RequestProgress, Reads, Writes
    <2>5. \A u \in Requests : RequestProgress(u)'
      BY <2>1, <2>4, OthersProgress
    <2>6. \A u \in opening' : overlap' \/ req'[u].stage = req[u].stage
      BY <1>2, <1>4, <2>1 DEF OthersKept, SftpTyped
    <2>7. OneOpening' /\ OneChannelUnlessOverlap'
      BY <1>2, <2>6, NoOpenKeeps
    <2> QED BY <2>2, <2>5, <2>7
  <1>10. CASE /\ stage = "expanding"
              /\ req' = [req EXCEPT ![r].stage = expandTildePath([req[r] EXCEPT !.tilde = FALSE]).stage]
              /\ call' = [call EXCEPT ![r] = expandTildePath([req[r] EXCEPT !.tilde = FALSE]).call]
              /\ UNCHANGED answer
    <2> DEFINE step == expandTildePath([req[r] EXCEPT !.tilde = FALSE])
    <2>1. req[r].kind \in Kinds /\ [req[r] EXCEPT !.tilde = FALSE].kind = req[r].kind
          /\ ~[req[r] EXCEPT !.tilde = FALSE].tilde
      BY DEF SftpTyped
    <2>2. /\ step.stage = (IF req[r].kind = "delete" THEN "stat" ELSE "operate")
          /\ step.call = firstCall(req[r].kind)
      BY <2>1 DEF expandTildePath
    <2> HIDE DEF step
    <2>3. /\ step.stage \in {"stat", "operate"} /\ step.call \in Calls \ {"none"}
          /\ \/ step.stage = "stat" /\ step.call = "stat" /\ req[r].kind = "delete"
             \/ step.stage = "operate" /\ step.call \in Reads(req[r].kind) /\ req[r].kind \in {"list", "stat"}
             \/ step.stage = "operate" /\ step.call \in Writes(req[r].kind)
      BY <2>1, <2>2 DEF firstCall, Kinds, Calls, Reads, Writes
    <2> QED BY <1>9, <1>10, <2>3 DEF step
  <1>11. CASE /\ stage = "stat" /\ says \in {"file", "directory"}
              /\ req' = [req EXCEPT ![r].stage = "operate"]
              /\ call' = [call EXCEPT ![r] = IF says = "directory" THEN "rmdir" ELSE "unlink"]
              /\ UNCHANGED answer
    <2> DEFINE c == IF says = "directory" THEN "rmdir" ELSE "unlink"
    <2>1. c \in Writes(req[r].kind) /\ c \in Calls \ {"none"}
      BY <1>1, <1>11 DEF RequestProgress, Writes, Calls
    <2> QED BY <1>9, <1>11, <2>1
  <1> QED BY <1>3, <1>5, <1>7, <1>8, <1>10, <1>11 DEF wrapSftpOperation, Waiting

\* The timer of a call; the call itself goes on.
LEMMA CallTimeoutKeeps ==
    ASSUME SftpInv, NEW r \in Requests, callTimeout(r)
    PROVE  SftpInv'
  <1>1. /\ respond(r, "SFTP_TIMEOUT") /\ req[r].stage \notin {"answered", "opening"}
        /\ UNCHANGED <<call, reply, opening, sessions, channel, remote, effect, overlap>>
    BY SessionCodes DEF callTimeout, Waiting
  <1>2. r \notin opening \/ overlap
    BY <1>1 DEF SftpInv, OneOpening
  <1>3. "SFTP_TIMEOUT" \in Errors
    BY DEF Errors
  <1> QED BY <1>1, <1>2, <1>3, RespondKeeps DEF SftpInv, SftpTyped

\* Steps that leave the requests alone.
LEMMA SftpQuiet ==
    ASSUME SftpInv, UNCHANGED <<req, call, reply, opening, sessions, remote, answer, effect, overlap>>,
           channel' \in [Channels -> {"unused", "open", "closed"}],
           \A c \in Channels : channel'[c] = "open" => channel[c] = "open"
    PROVE  SftpInv'
  <1>1. OneOpening' /\ OneChannelUnlessOverlap'
    BY NoOpenKeeps
  <1> QED BY <1>1 DEF SftpInv, SftpTyped, RequestProgress

LEMMA SftpInitInv == SftpInit => SftpInv
  <1> SUFFICES ASSUME SftpInit PROVE SftpInv
    OBVIOUS
  <1>1. SftpTyped
    BY DEF SftpInit, SftpTyped, Kinds, Stages, Calls, Replies
  <1>2. \A r \in Requests : RequestProgress(r)
    BY DEF SftpInit, RequestProgress
  <1> QED BY <1>1, <1>2 DEF SftpInit, SftpInv, OneOpening, OneChannelUnlessOverlap

LEMMA SftpStepInv ==
    ASSUME SftpInv, SftpNext \/ UNCHANGED sftpVars
    PROVE  SftpInv'
  <1>1. ASSUME NEW r \in Requests, NEW kind \in Kinds, NEW path \in Paths \ {"blocked"},
               handleRequest(r, kind, path)
        PROVE  SftpInv'
    BY <1>1, RequestKeeps
  <1>2. ASSUME NEW r \in Requests, \/ openSucceeds(r) \/ openFails(r) \/ openTimeout(r)
                                   \/ serverAnswers(r) \/ channelError(r)
                                   \/ wrapSftpOperation(r) \/ callTimeout(r)
        PROVE  SftpInv'
    BY <1>2, OpenKeeps, ReplyKeeps, CallbackKeeps, CallTimeoutKeeps
  <1>3. CASE sshLost
    BY <1>3, SftpQuiet DEF sshLost, SftpInv, SftpTyped
  <1>4. CASE UNCHANGED sftpVars
    BY <1>4, SftpQuiet DEF sftpVars, SftpInv, SftpTyped
  <1> QED BY <1>1, <1>2, <1>3, <1>4 DEF SftpNext

\* What was proved of the requests is what is promised of their answers.
LEMMA ProgressTellsTruth == SftpInv => AnswerMatchesEffect
  <1> SUFFICES ASSUME SftpInv, NEW r \in Requests
               PROVE  /\ (answer[r] = "ok" /\ req[r].kind \in {"mkdir", "delete"}) => r \in effect
                      /\ (answer[r] \in Errors \ {"SFTP_TIMEOUT", "SFTP_SESSION_ERROR"}) => r \notin effect
                      /\ (req[r].kind \in {"list", "stat"}) => r \notin effect
    BY DEF AnswerMatchesEffect
  <1>1. RequestProgress(r) /\ "ok" \notin Errors /\ "none" \notin Errors
    BY DEF SftpInv, Errors
  <1> QED BY <1>1 DEF RequestProgress

-----------------------------------------------------------------------------
(***************************************************************************)
(* The shell backend (ShellFiles): the inductive invariant.                *)
(***************************************************************************)
ShellStages ==
    {"new", "echo", "ls", "cat", "catLate", "uploading", "catting", "streaming", "thrown", "over"}

Jobs == [kind : ShellKinds, tilde : BOOLEAN, overwrite : BOOLEAN, stage : ShellStages]

Chunks == [index : Nat, last : BOOLEAN]

\* What the browser may be told of a job.
Tellings ==
    Errors \cup {"ok", "ready", "ack", "complete", "SFTP_MAX_TRANSFERS", "SFTP_ALREADY_EXISTS",
                 "SFTP_CHUNK_ERROR", "SFTP_FILE_TOO_LARGE"}

ShellTyped ==
    /\ job \in [Transfers -> Jobs]
    /\ uploadStreams \in SUBSET Transfers
    /\ stream \in [Transfers -> {"none", "open", "ended", "destroyed"}]
    /\ writes \in [Transfers -> Seq(Chunks)] /\ written \in [Transfers -> Seq(Chunks)]
    /\ told \in [Transfers -> Seq(Tellings)]
    /\ transfers \in [Transfers -> {"absent", "pending", "active"}]
    /\ nextChunkIndex = [t \in Transfers |-> nextChunkIndex[t]]

\* The chunks the channel has taken and the ones on their way to it follow one another,
\* as long as the stream was not destroyed; and the next chunk the transfer will take is
\* the one after them.
ChunksFollow(t) ==
    /\ \A k \in 1 .. Len(written[t]) : written[t][k].index = k - 1
    /\ stream[t] # "destroyed" =>
          \A k \in 1 .. Len(writes[t]) : writes[t][k].index = Len(written[t]) + k - 1
    /\ (job[t].stage = "uploading" /\ t \in uploadStreams /\ transfers[t] = "active")
          => nextChunkIndex[t] = Len(written[t]) + Len(writes[t])

\* A transfer that was told complete is out of the table and never comes back, and an
\* upload was told so after its last chunk.
CompleteOnce(t) ==
    LET complete == answersOf(t, "complete") IN
    /\ job[t].stage \notin {"uploading", "over"} => complete = {}
    /\ complete # {} => transfers[t] = "absent" /\ \E k \in 1 .. Len(told[t]) : complete = {k}
    /\ (job[t].kind = "upload" /\ complete # {}) =>
          \E k \in 1 .. Len(written[t]) : written[t][k].last

\* What the stage of a job says of its transfer and its stream.
JobProgress(t) ==
    /\ job[t].stage \in {"cat", "catLate", "uploading"} => job[t].kind = "upload"
    /\ job[t].stage \in {"catting", "streaming"} => job[t].kind # "upload"
    /\ job[t].stage # "uploading" => writes[t] = << >> /\ written[t] = << >>
    /\ job[t].stage = "uploading" => stream[t] # "none"
    /\ job[t].stage = "cat" =>
          transfers[t] = "absent" \/ (transfers[t] = "pending" /\ nextChunkIndex[t] = 0)
    /\ job[t].stage = "catLate" => transfers[t] = "absent"
    /\ (stream[t] = "open") <=> (t \in uploadStreams)

JobInv(t) == JobProgress(t) /\ ChunksFollow(t) /\ CompleteOnce(t)

ShellInv == ShellTyped /\ \A t \in Transfers : JobInv(t)

\* A step of the job t leaves the others alone.
OtherJobsKept(t) ==
    \A u \in Transfers \ {t} :
       /\ job'[u] = job[u] /\ transfers'[u] = transfers[u] /\ nextChunkIndex'[u] = nextChunkIndex[u]
       /\ stream'[u] = stream[u] /\ writes'[u] = writes[u] /\ written'[u] = written[u]
       /\ told'[u] = told[u] /\ (u \in uploadStreams' <=> u \in uploadStreams)

LEMMA JobStep ==
    ASSUME ShellInv, NEW t \in Transfers, ShellTyped', OtherJobsKept(t), JobInv(t)'
    PROVE  ShellInv'
  <1> SUFFICES ASSUME NEW u \in Transfers, u # t PROVE JobInv(u)'
    BY DEF ShellInv
  <1>1. JobInv(u)
    BY DEF ShellInv
  <1>2. JobProgress(u)'
    BY <1>1 DEF OtherJobsKept, JobInv, JobProgress
  <1>3. ChunksFollow(u)'
    BY <1>1 DEF OtherJobsKept, JobInv, ChunksFollow
  <1>4. CompleteOnce(u)'
    BY <1>1 DEF OtherJobsKept, JobInv, CompleteOnce, answersOf
  <1> QED BY <1>2, <1>3, <1>4 DEF JobInv

\* Whatever else is told, it is not that the transfer is complete.
LEMMA TellOther ==
    ASSUME ShellTyped, NEW t \in Transfers, NEW code \in Tellings, code # "complete", tell(t, code)
    PROVE  /\ told' \in [Transfers -> Seq(Tellings)]
           /\ answersOf(t, "complete")' = answersOf(t, "complete")
           /\ Len(told[t]) \in Nat /\ Len(told'[t]) = Len(told[t]) + 1
           /\ \A u \in Transfers \ {t} : told'[u] = told[u]
  <1>1. told' = [told EXCEPT ![t] = Append(told[t], code)] /\ told[t] \in Seq(Tellings)
    BY DEF tell, ShellTyped
  <1>2. /\ told'[t] = Append(told[t], code) /\ Append(told[t], code) \in Seq(Tellings)
        /\ told' \in [Transfers -> Seq(Tellings)]
    BY <1>1 DEF ShellTyped
  <1>3. /\ Len(told[t]) \in Nat /\ Len(told'[t]) = Len(told[t]) + 1
        /\ told'[t][Len(told[t]) + 1] = code
        /\ \A k \in 1 .. Len(told[t]) : told'[t][k] = told[t][k]
    BY <1>1, <1>2
  <1>4. answersOf(t, "complete")' = answersOf(t, "complete")
    BY <1>3 DEF answersOf
  <1> QED BY <1>1, <1>2, <1>3, <1>4 DEF ShellTyped

LEMMA TellComplete ==
    ASSUME ShellTyped, NEW t \in Transfers, answersOf(t, "complete") = {},
           \/ told' = [told EXCEPT ![t] = Append(@, "complete")]
           \/ told' = [told EXCEPT ![t] = @ \o <<"ack", "complete">>]
    PROVE  /\ told' \in [Transfers -> Seq(Tellings)]
           /\ \E k \in 1 .. Len(told'[t]) : answersOf(t, "complete")' = {k}
           /\ \A u \in Transfers \ {t} : told'[u] = told[u]
  <1>1. told[t] \in Seq(Tellings) /\ Len(told[t]) \in Nat
    BY DEF ShellTyped
  <1>3. \A k \in 1 .. Len(told[t]) : told[t][k] # "complete"
    BY DEF answersOf
  <1>4. ASSUME NEW s \in Seq(Tellings), Len(s) > Len(told[t]),
               \A k \in 1 .. Len(told[t]) : s[k] = told[t][k],
               \A k \in Len(told[t]) + 1 .. Len(s) : s[k] = "complete" <=> k = Len(s),
               told' = [told EXCEPT ![t] = s]
        PROVE  /\ told' \in [Transfers -> Seq(Tellings)]
               /\ \E k \in 1 .. Len(told'[t]) : answersOf(t, "complete")' = {k}
               /\ \A u \in Transfers \ {t} : told'[u] = told[u]
    <2>1. told' \in [Transfers -> Seq(Tellings)] /\ told'[t] = s
      BY <1>4 DEF ShellTyped
    <2>2. \A k \in 1 .. Len(s) : s[k] = "complete" <=> k = Len(s)
      <3> SUFFICES ASSUME NEW k \in 1 .. Len(s) PROVE s[k] = "complete" <=> k = Len(s)
        OBVIOUS
      <3>1. CASE k \in 1 .. Len(told[t])
        <4>1. s[k] # "complete" /\ k # Len(s)
          BY <1>1, <1>3, <1>4, <3>1
        <4> QED BY <4>1
      <3>2. CASE k \in Len(told[t]) + 1 .. Len(s)
        BY <1>4, <3>2
      <3> QED BY <1>1, <3>1, <3>2
    <2>3. Len(s) \in 1 .. Len(s)
      BY <1>1, <1>4
    <2>4. answersOf(t, "complete")' = {Len(s)}
      BY <2>1, <2>2, <2>3 DEF answersOf
    <2> QED BY <1>4, <2>1, <2>3, <2>4 DEF ShellTyped
  <1>5. CASE told' = [told EXCEPT ![t] = Append(@, "complete")]
    <2> DEFINE s == Append(told[t], "complete")
    <2>1. "complete" \in Tellings
      BY DEF Tellings
    <2>2. /\ s \in Seq(Tellings) /\ Len(s) = Len(told[t]) + 1 /\ s[Len(told[t]) + 1] = "complete"
          /\ \A k \in 1 .. Len(told[t]) : s[k] = told[t][k]
      BY <1>1, <2>1
    <2>3. told' = [told EXCEPT ![t] = s]
      BY <1>5 DEF ShellTyped
    <2> HIDE DEF s
    <2>4. \A k \in Len(told[t]) + 1 .. Len(s) : s[k] = "complete" <=> k = Len(s)
      BY <1>1, <2>2
    <2>5. Len(s) > Len(told[t])
      BY <1>1, <2>2
    <2> QED BY <1>4, <2>2, <2>3, <2>4, <2>5
  <1>6. CASE told' = [told EXCEPT ![t] = @ \o <<"ack", "complete">>]
    <2> DEFINE s == told[t] \o <<"ack", "complete">>
    <2>1. <<"ack", "complete">> \in Seq(Tellings)
      BY DEF Tellings
    <2>2. /\ s \in Seq(Tellings) /\ Len(s) = Len(told[t]) + 2 /\ s[Len(told[t]) + 1] = "ack"
          /\ s[Len(told[t]) + 2] = "complete"
          /\ \A k \in 1 .. Len(told[t]) : s[k] = told[t][k]
      BY <1>1, <2>1
    <2>3. told' = [told EXCEPT ![t] = s]
      BY <1>6 DEF ShellTyped
    <2> HIDE DEF s
    <2>4. \A k \in Len(told[t]) + 1 .. Len(s) : s[k] = "complete" <=> k = Len(s)
      BY <1>1, <2>2
    <2>5. Len(s) > Len(told[t])
      BY <1>1, <2>2
    <2> QED BY <1>4, <2>2, <2>3, <2>4, <2>5
  <1> QED BY <1>5, <1>6

\* The end of a job.
LEMMA OverSteps ==
    ASSUME ShellTyped, NEW t \in Transfers, over(t)
    PROVE  /\ job' \in [Transfers -> Jobs]
           /\ job'[t].stage = "over" /\ job'[t].kind = job[t].kind
           /\ \A u \in Transfers \ {t} : job'[u] = job[u]
  <1>1. job' = [job EXCEPT ![t] = [job[t] EXCEPT !.stage = "over", !.tilde = FALSE, !.overwrite = FALSE]]
    BY DEF over, ShellTyped
  <1>2. job[t] \in Jobs
    BY DEF ShellTyped
  <1>3. [job[t] EXCEPT !.stage = "over", !.tilde = FALSE, !.overwrite = FALSE] \in Jobs
    BY <1>2 DEF Jobs, ShellStages
  <1> QED BY <1>1, <1>2, <1>3 DEF ShellTyped, Jobs

\* Deleting a transfer of the table.
LEMMA DeleteSteps ==
    ASSUME ShellTyped, NEW t \in Transfers, cancelTransfer(t) \/ deleteTransfers({t})
    PROVE  /\ transfers' \in [Transfers -> {"absent", "pending", "active"}]
           /\ nextChunkIndex' = [u \in Transfers |-> nextChunkIndex'[u]]
           /\ transfers'[t] = "absent"
           /\ \A u \in Transfers \ {t} :
                 transfers'[u] = transfers[u] /\ nextChunkIndex'[u] = nextChunkIndex[u]
  BY DEF ShellTyped, cancelTransfer, deleteTransfers

\* A job that is not an upload under way ends with an answer; what is left in the table
\* of transfers or was taken out of it does not matter to it any more.
LEMMA EndKeeps ==
    ASSUME ShellInv, NEW t \in Transfers, job[t].stage \notin {"uploading", "over"}, over(t),
           \/ UNCHANGED managerVars
           \/ cancelTransfer(t) \/ deleteTransfers({t}),
           \/ UNCHANGED told
           \/ \E code \in Tellings \ {"complete"} : tell(t, code),
           UNCHANGED streamVars
    PROVE  ShellInv'
  <1>1. ShellTyped /\ JobInv(t)
    BY DEF ShellInv
  <1>2. /\ job' \in [Transfers -> Jobs]
        /\ job'[t].stage = "over" /\ job'[t].kind = job[t].kind
        /\ \A u \in Transfers \ {t} : job'[u] = job[u]
    BY <1>1, OverSteps
  <1>3. /\ transfers' \in [Transfers -> {"absent", "pending", "active"}]
        /\ nextChunkIndex' = [u \in Transfers |-> nextChunkIndex'[u]]
        /\ \A u \in Transfers \ {t} :
              transfers'[u] = transfers[u] /\ nextChunkIndex'[u] = nextChunkIndex[u]
    <2>1. CASE UNCHANGED managerVars
      BY <1>1, <2>1 DEF managerVars, ShellTyped
    <2>2. CASE cancelTransfer(t) \/ deleteTransfers({t})
      BY <1>1, <2>2, DeleteSteps
    <2> QED BY <2>1, <2>2
  <1>4. /\ told' \in [Transfers -> Seq(Tellings)]
        /\ answersOf(t, "complete")' = answersOf(t, "complete")
        /\ \A u \in Transfers \ {t} : told'[u] = told[u]
    <2>1. CASE UNCHANGED told
      BY <1>1, <2>1 DEF ShellTyped, answersOf
    <2>2. CASE \E code \in Tellings \ {"complete"} : tell(t, code)
      BY <1>1, <2>2, TellOther
    <2> QED BY <2>1, <2>2
  <1>5. UNCHANGED <<uploadStreams, stream, writes, written>>
    BY DEF streamVars
  <1>6. ShellTyped'
    BY <1>1, <1>2, <1>3, <1>4, <1>5 DEF ShellTyped
  <1>7. OtherJobsKept(t)
    BY <1>2, <1>3, <1>4, <1>5 DEF OtherJobsKept
  <1>8. answersOf(t, "complete") = {} /\ writes[t] = << >> /\ written[t] = << >>
    BY <1>1 DEF JobInv, JobProgress, CompleteOnce
  <1>9. JobProgress(t)' /\ CompleteOnce(t)'
    BY <1>1, <1>2, <1>4, <1>5, <1>8 DEF JobInv, JobProgress, CompleteOnce
  <1>10. ChunksFollow(t)'
    BY <1>1, <1>2, <1>5, <1>8 DEF JobInv, ChunksFollow
  <1> QED BY <1>6, <1>7, <1>9, <1>10, JobStep DEF JobInv

Early == {"new", "echo", "ls"}

LEMMA ShellCodes ==
    /\ \A kind \in ShellKinds, path \in Paths, tooLarge \in BOOLEAN :
          shellRefusal(kind, path, tooLarge) \in Tellings \ {"complete"}
    /\ Outcomes \subseteq Tellings \ {"complete"}
    /\ {"ready", "ack", "SFTP_ALREADY_EXISTS", "SFTP_INVALID_REQUEST", "SFTP_MAX_TRANSFERS",
        "SFTP_CHUNK_ERROR", "SFTP_PERMISSION_DENIED", "SFTP_TIMEOUT", "SFTP_NO_CONNECTION"}
          \subseteq Tellings \ {"complete"}
  <1>1. "complete" \notin Errors /\ {"ok"} \cup Errors \subseteq Tellings
    BY DEF Errors, Tellings
  <1>2. ASSUME NEW kind \in ShellKinds, NEW path \in Paths, NEW tooLarge \in BOOLEAN
        PROVE  shellRefusal(kind, path, tooLarge) \in Tellings \ {"complete"}
    <2>1. handlerRefusal(path) \in {"ok"} \cup Errors
      BY DEF handlerRefusal, Errors
    <2>2. validateOperationPreconditions(path, kind \in {"upload", "download"})
             \in {"ok"} \cup Errors
      BY DEF validateOperationPreconditions, Errors, Paths
    <2>3. shellRefusal(kind, path, tooLarge) \in {"ok", "SFTP_FILE_TOO_LARGE"} \cup Errors
      BY <2>1, <2>2 DEF shellRefusal, Errors
    <2> QED BY <1>1, <2>3 DEF Tellings
  <1> QED BY <1>1, <1>2 DEF Outcomes, Errors, Tellings

\* An answer ends a job that has not got to its stream.
LEMMA AnswerKeeps ==
    ASSUME ShellInv, NEW t \in Transfers, job[t].stage \notin {"uploading", "over"},
           NEW code \in Tellings \ {"complete"}, answers(t, code), UNCHANGED <<managerVars, streamVars>>
    PROVE  ShellInv'
  BY EndKeeps DEF answers

\* A call of exec(): the job waits for it, or has failed without a word.
LEMMA ExecSteps ==
    ASSUME ShellTyped, NEW t \in Transfers, NEW rec \in Jobs, NEW stage \in ShellStages,
           exec(t, rec, stage)
    PROVE  /\ job' \in [Transfers -> Jobs] /\ job'[t] \in Jobs
           /\ job'[t].stage \in {stage, "thrown"} /\ job'[t].kind = rec.kind
           /\ \A u \in Transfers \ {t} : job'[u] = job[u]
  <1> DEFINE r == [rec EXCEPT !.stage = IF execThrows THEN "thrown" ELSE stage]
  <1>1. job' = [job EXCEPT ![t] = r]
    BY DEF exec
  <1>2. r \in Jobs /\ r.stage \in {stage, "thrown"} /\ r.kind = rec.kind
    BY DEF Jobs, ShellStages
  <1> HIDE DEF r
  <1> QED BY <1>1, <1>2 DEF ShellTyped

\* A job that has not got to its stream moves on without a word.
LEMMA MoveKeeps ==
    ASSUME ShellInv, NEW t \in Transfers, job[t].stage \in Early,
           NEW rec \in Jobs, NEW stage \in {"echo", "ls"}, exec(t, rec, stage),
           UNCHANGED <<told, managerVars, streamVars>>
    PROVE  ShellInv'
  <1>1. ShellTyped /\ JobInv(t)
    BY DEF ShellInv
  <1>2. /\ job' \in [Transfers -> Jobs] /\ job'[t].stage \in {"echo", "ls", "thrown"}
        /\ \A u \in Transfers \ {t} : job'[u] = job[u]
        /\ UNCHANGED <<uploadStreams, stream, writes, written, transfers, nextChunkIndex>>
    BY <1>1, ExecSteps DEF ShellStages, streamVars, managerVars
  <1>3. ShellTyped' /\ OtherJobsKept(t)
    BY <1>1, <1>2 DEF ShellTyped, OtherJobsKept
  <1>4. JobInv(t)'
    BY <1>1, <1>2 DEF JobInv, JobProgress, ChunksFollow, CompleteOnce, answersOf, Early
  <1> QED BY <1>3, <1>4, JobStep

\* startUpload() up to exec().
LEMMA StartCatKeeps ==
    ASSUME ShellInv, NEW t \in Transfers, job[t].stage \in Early,
           NEW rec \in Jobs, rec.kind = "upload", startCat(t, rec), UNCHANGED streamVars
    PROVE  ShellInv'
  <1>1. ShellTyped /\ JobInv(t)
    BY DEF ShellInv
  <1>2. CASE startTransfer(t, Owner) /\ UNCHANGED told
             /\ exec(t, [rec EXCEPT !.tilde = FALSE, !.overwrite = FALSE], "cat")
    <2>1. /\ [rec EXCEPT !.tilde = FALSE, !.overwrite = FALSE] \in Jobs
          /\ [rec EXCEPT !.tilde = FALSE, !.overwrite = FALSE].kind = "upload"
      BY DEF Jobs
    <2>2. /\ job' \in [Transfers -> Jobs]
          /\ job'[t].stage \in {"cat", "thrown"} /\ job'[t].kind = "upload"
          /\ \A u \in Transfers \ {t} : job'[u] = job[u]
      BY <1>1, <1>2, <2>1, ExecSteps DEF ShellStages
    <2>3. /\ transfers' \in [Transfers -> {"absent", "pending", "active"}]
          /\ nextChunkIndex' = [u \in Transfers |-> nextChunkIndex'[u]]
          /\ transfers'[t] = "pending" /\ nextChunkIndex'[t] = 0
          /\ \A u \in Transfers \ {t} :
                transfers'[u] = transfers[u] /\ nextChunkIndex'[u] = nextChunkIndex[u]
      BY <1>1, <1>2 DEF startTransfer, ShellTyped
    <2>4. UNCHANGED <<uploadStreams, stream, writes, written, told>>
      BY <1>2 DEF streamVars
    <2>5. ShellTyped' /\ OtherJobsKept(t)
      BY <1>1, <2>2, <2>3, <2>4 DEF ShellTyped, OtherJobsKept
    <2>6. answersOf(t, "complete")' = {}
      BY <1>1, <2>4 DEF JobInv, CompleteOnce, Early, answersOf
    <2>7. JobInv(t)'
      BY <1>1, <2>2, <2>3, <2>4, <2>6 DEF JobInv, JobProgress, ChunksFollow, CompleteOnce, Early
    <2> QED BY <2>5, <2>7, JobStep
  <1>3. CASE answers(t, "SFTP_MAX_TRANSFERS") /\ UNCHANGED managerVars
    BY <1>3, ShellCodes, AnswerKeeps DEF Early
  <1> QED BY <1>2, <1>3 DEF startCat

LEMMA AfterSetupKeeps ==
    ASSUME ShellInv, NEW t \in Transfers, job[t].stage \in Early,
           NEW rec \in Jobs, afterSetup(t, rec), UNCHANGED streamVars
    PROVE  ShellInv'
  <1>1. CASE rec.kind = "upload" /\ rec.overwrite
    BY <1>1, StartCatKeeps DEF afterSetup
  <1>2. CASE ~(rec.kind = "upload" /\ rec.overwrite)
    BY <1>2, MoveKeeps DEF afterSetup
  <1> QED BY <1>1, <1>2

LEMMA ShellRequestKeeps ==
    ASSUME ShellInv, NEW t \in Transfers, NEW kind \in ShellKinds, NEW path \in Paths,
           NEW overwrite \in BOOLEAN, NEW tooLarge \in BOOLEAN,
           shellRequest(t, kind, path, overwrite, tooLarge)
    PROVE  ShellInv'
  <1> DEFINE rec == [kind |-> kind, tilde |-> isTilde(path), overwrite |-> overwrite, stage |-> "new"]
             refusal == shellRefusal(kind, path, tooLarge)
  <1>1. /\ job[t].stage = "new" /\ UNCHANGED streamVars
        /\ IF refusal # "ok" THEN answers(t, refusal) /\ UNCHANGED managerVars
           ELSE shellSetupOperation(t, rec)
    BY DEF shellRequest
  <1>2. rec \in Jobs
    BY DEF Jobs, ShellStages, isTilde
  <1>3. refusal \in Tellings \ {"complete"}
    BY ShellCodes
  <1> HIDE DEF rec, refusal
  <1>4. CASE refusal # "ok"
    BY <1>1, <1>3, <1>4, AnswerKeeps
  <1>5. CASE shellSetupOperation(t, rec)
    <2>1. CASE rec.tilde /\ homeDir # "cached"
      BY <1>1, <1>2, <1>5, <2>1, MoveKeeps DEF shellSetupOperation, Early
    <2>2. CASE ~(rec.tilde /\ homeDir # "cached")
      BY <1>1, <1>2, <1>5, <2>2, AfterSetupKeeps DEF shellSetupOperation, Early
    <2> QED BY <2>1, <2>2
  <1> QED BY <1>1, <1>4, <1>5

\* A download is told ready, with or without its stream.
LEMMA TellTwo ==
    ASSUME ShellTyped, NEW t \in Transfers, NEW a \in Tellings \ {"complete"},
           NEW b \in Tellings \ {"complete"}, told' = [told EXCEPT ![t] = @ \o <<a, b>>]
    PROVE  /\ told' \in [Transfers -> Seq(Tellings)]
           /\ answersOf(t, "complete")' = answersOf(t, "complete")
           /\ \A u \in Transfers \ {t} : told'[u] = told[u]
  <1>1. told[t] \in Seq(Tellings) /\ <<a, b>> \in Seq(Tellings)
    BY DEF ShellTyped
  <1>2. /\ told'[t] = told[t] \o <<a, b>> /\ told[t] \o <<a, b>> \in Seq(Tellings)
        /\ told' \in [Transfers -> Seq(Tellings)]
    BY <1>1 DEF ShellTyped
  <1>3. /\ Len(told[t]) \in Nat /\ Len(told'[t]) = Len(told[t]) + 2
        /\ told'[t][Len(told[t]) + 1] = a /\ told'[t][Len(told[t]) + 2] = b
        /\ \A k \in 1 .. Len(told[t]) : told'[t][k] = told[t][k]
    BY <1>1, <1>2
  <1>4. answersOf(t, "complete")' = answersOf(t, "complete")
    BY <1>3 DEF answersOf
  <1> QED BY <1>1, <1>2, <1>4 DEF ShellTyped

LEMMA StartDownloadKeeps ==
    ASSUME ShellInv, NEW t \in Transfers, job[t].stage = "ls", job[t].kind # "upload",
           validateAndStartDownload(t), UNCHANGED streamVars
    PROVE  ShellInv'
  <1>1. ShellTyped /\ JobInv(t)
    BY DEF ShellInv
  <1>2. answersOf(t, "complete") = {} /\ writes[t] = << >> /\ written[t] = << >>
    BY <1>1 DEF JobInv, JobProgress, CompleteOnce
  <1>3. UNCHANGED <<uploadStreams, stream, writes, written>>
    BY DEF streamVars
  <1>4. ASSUME transfers' = [transfers EXCEPT ![t] = "active"],
               nextChunkIndex' = [nextChunkIndex EXCEPT ![t] = 0],
               job' \in [Transfers -> Jobs], job'[t].stage \in {"catting", "thrown", "over"},
               job'[t].kind = job[t].kind, \A u \in Transfers \ {t} : job'[u] = job[u],
               told' \in [Transfers -> Seq(Tellings)],
               answersOf(t, "complete")' = answersOf(t, "complete"),
               \A u \in Transfers \ {t} : told'[u] = told[u]
        PROVE  ShellInv'
    <2>1. ShellTyped' /\ OtherJobsKept(t)
      BY <1>1, <1>3, <1>4 DEF ShellTyped, OtherJobsKept
    <2>2. JobProgress(t)'
      BY <1>1, <1>2, <1>3, <1>4 DEF JobInv, JobProgress
    <2>3. ChunksFollow(t)'
      BY <1>1, <1>2, <1>3, <1>4 DEF JobInv, ChunksFollow
    <2>4. CompleteOnce(t)'
      BY <1>2, <1>4 DEF CompleteOnce
    <2> QED BY <2>1, <2>2, <2>3, <2>4, JobStep DEF JobInv
  <1>5. CASE /\ transfers' = [transfers EXCEPT ![t] = "active"]
             /\ nextChunkIndex' = [nextChunkIndex EXCEPT ![t] = 0]
             /\ tell(t, "ready")
             /\ exec(t, [job[t] EXCEPT !.overwrite = FALSE], "catting")
    <2>1. job[t] \in Jobs
      BY <1>1 DEF ShellTyped
    <2>2. /\ [job[t] EXCEPT !.overwrite = FALSE] \in Jobs
          /\ [job[t] EXCEPT !.overwrite = FALSE].kind = job[t].kind
      BY <2>1 DEF Jobs
    <2>3. /\ job' \in [Transfers -> Jobs]
          /\ job'[t].stage \in {"catting", "thrown"} /\ job'[t].kind = job[t].kind
          /\ \A u \in Transfers \ {t} : job'[u] = job[u]
      BY <1>1, <1>5, <2>2, ExecSteps DEF ShellStages
    <2>4. /\ told' \in [Transfers -> Seq(Tellings)]
          /\ answersOf(t, "complete")' = answersOf(t, "complete")
          /\ \A u \in Transfers \ {t} : told'[u] = told[u]
      BY <1>1, <1>5, TellOther, ShellCodes
    <2> QED BY <1>4, <1>5, <2>3, <2>4
  <1>6. CASE /\ transfers' = [transfers EXCEPT ![t] = "active"]
             /\ nextChunkIndex' = [nextChunkIndex EXCEPT ![t] = 0]
             /\ told' = [told EXCEPT ![t] = @ \o <<"ready", "SFTP_NO_CONNECTION">>] /\ over(t)
    <2>1. /\ job' \in [Transfers -> Jobs]
          /\ job'[t].stage = "over" /\ job'[t].kind = job[t].kind
          /\ \A u \in Transfers \ {t} : job'[u] = job[u]
      BY <1>1, <1>6, OverSteps
    <2>2. /\ told' \in [Transfers -> Seq(Tellings)]
          /\ answersOf(t, "complete")' = answersOf(t, "complete")
          /\ \A u \in Transfers \ {t} : told'[u] = told[u]
      BY <1>1, <1>6, TellTwo, ShellCodes
    <2> QED BY <1>4, <1>6, <2>1, <2>2
  <1>7. CASE answers(t, "SFTP_MAX_TRANSFERS") /\ UNCHANGED managerVars
    BY <1>7, ShellCodes, AnswerKeeps
  <1> QED BY <1>5, <1>6, <1>7 DEF validateAndStartDownload

\* The commands of executeCommand() end.
LEMMA CommandKeeps ==
    ASSUME ShellInv, NEW t \in Transfers, NEW outcome \in Outcomes,
           echoEnds(t, outcome) \/ lsEnds(t, outcome) \/ entryRefused(t)
    PROVE  ShellInv'
  <1>1. job[t] \in Jobs /\ job[t].stage \in {"echo", "ls"} /\ UNCHANGED streamVars
    BY DEF echoEnds, lsEnds, entryRefused, ShellInv, ShellTyped
  <1>2. job[t].stage \in Early /\ job[t].stage \notin {"uploading", "over"}
    BY <1>1 DEF Early
  <1>3. ASSUME NEW code \in Tellings \ {"complete"}, answers(t, code), UNCHANGED managerVars
        PROVE  ShellInv'
    BY <1>1, <1>2, <1>3, AnswerKeeps
  <1>4. CASE echoEnds(t, outcome)
    BY <1>1, <1>2, <1>3, <1>4, AfterSetupKeeps, ShellCodes DEF echoEnds
  <1>5. CASE lsEnds(t, outcome)
    <2>1. CASE job[t].kind \in {"list", "stat"}
      BY <1>3, <1>5, <2>1, ShellCodes DEF lsEnds
    <2>2. CASE job[t].kind = "upload"
      BY <1>1, <1>2, <1>3, <1>5, <2>2, StartCatKeeps, ShellCodes DEF lsEnds
    <2>3. CASE job[t].kind \notin {"list", "stat", "upload"}
      BY <1>1, <1>3, <1>5, <2>3, StartDownloadKeeps, ShellCodes DEF lsEnds
    <2> QED BY <2>1, <2>2, <2>3
  <1>6. CASE entryRefused(t)
    BY <1>3, <1>6, ShellCodes DEF entryRefused
  <1> QED BY <1>4, <1>5, <1>6

\* startUpload() from exec() on: the stream, an error, or the timer.
LEMMA CatKeeps ==
    ASSUME ShellInv, NEW t \in Transfers, catStarts(t) \/ catFails(t) \/ catTimeout(t)
    PROVE  ShellInv'
  <1>1. ShellTyped /\ JobInv(t) /\ job[t] \in Jobs /\ job[t].stage \in {"cat", "catLate"}
    BY DEF ShellInv, ShellTyped, catStarts, catFails, catTimeout
  <1>2. /\ answersOf(t, "complete") = {} /\ writes[t] = << >> /\ written[t] = << >>
        /\ job[t].kind = "upload"
    BY <1>1 DEF JobInv, JobProgress, CompleteOnce
  <1>3. CASE catStarts(t)
    <2>1. /\ uploadStreams' = uploadStreams \cup {t} /\ stream' = [stream EXCEPT ![t] = "open"]
          /\ UNCHANGED <<writes, written>>
          /\ job' = [job EXCEPT ![t] = [job[t] EXCEPT !.stage =
                                            IF job[t].stage = "cat" THEN "uploading" ELSE "over"]]
      BY <1>1, <1>3 DEF catStarts, ShellTyped
    <2>2. /\ job' \in [Transfers -> Jobs] /\ job'[t].kind = "upload"
          /\ job'[t].stage = (IF job[t].stage = "cat" THEN "uploading" ELSE "over")
          /\ \A u \in Transfers \ {t} : job'[u] = job[u]
      BY <1>1, <1>2, <2>1 DEF ShellTyped, Jobs, ShellStages
    <2>3. /\ transfers' \in [Transfers -> {"absent", "pending", "active"}]
          /\ nextChunkIndex' = [u \in Transfers |-> nextChunkIndex'[u]]
          /\ transfers'[t] \in {"active", "absent"}
          /\ transfers'[t] = "active" => nextChunkIndex'[t] = 0
          /\ \A u \in Transfers \ {t} :
                transfers'[u] = transfers[u] /\ nextChunkIndex'[u] = nextChunkIndex[u]
      BY <1>1, <1>3 DEF catStarts, activateTransfer, managerVars, ShellTyped, JobInv, JobProgress
    <2>4. /\ told' \in [Transfers -> Seq(Tellings)]
          /\ answersOf(t, "complete")' = {}
          /\ \A u \in Transfers \ {t} : told'[u] = told[u]
      <3>1. CASE tell(t, "ready")
        BY <1>1, <1>2, <3>1, TellOther, ShellCodes
      <3>2. CASE UNCHANGED told
        BY <1>1, <1>2, <3>2 DEF ShellTyped, answersOf
      <3> QED BY <1>3, <3>1, <3>2 DEF catStarts
    <2>5. ShellTyped' /\ OtherJobsKept(t)
      BY <1>1, <2>1, <2>2, <2>3, <2>4 DEF ShellTyped, OtherJobsKept
    <2>6. stream'[t] = "open" /\ t \in uploadStreams' /\ writes'[t] = << >> /\ written'[t] = << >>
      BY <1>1, <1>2, <2>1 DEF ShellTyped
    <2>7. JobInv(t)'
      BY <2>2, <2>3, <2>4, <2>6 DEF JobInv, JobProgress, ChunksFollow, CompleteOnce
    <2> QED BY <2>5, <2>7, JobStep
  <1>4. CASE catFails(t)
    <2>1. over(t) /\ cancelTransfer(t) /\ UNCHANGED streamVars
      BY <1>4 DEF catFails
    <2>2. UNCHANGED told \/ \E code \in Tellings \ {"complete"} : tell(t, code)
      BY <1>4, ShellCodes DEF catFails
    <2> QED BY <1>1, <2>1, <2>2, EndKeeps
  <1>5. CASE catTimeout(t)
    <2>1. /\ cancelTransfer(t) /\ tell(t, "SFTP_TIMEOUT")
          /\ UNCHANGED <<uploadStreams, stream, writes, written>>
          /\ job' = [job EXCEPT ![t] = [job[t] EXCEPT !.stage = "catLate"]]
      BY <1>1, <1>5 DEF catTimeout, streamVars, ShellTyped
    <2>2. /\ job' \in [Transfers -> Jobs] /\ job'[t].kind = "upload" /\ job'[t].stage = "catLate"
          /\ \A u \in Transfers \ {t} : job'[u] = job[u]
      BY <1>1, <1>2, <2>1 DEF ShellTyped, Jobs, ShellStages
    <2>3. /\ transfers' \in [Transfers -> {"absent", "pending", "active"}]
          /\ nextChunkIndex' = [u \in Transfers |-> nextChunkIndex'[u]]
          /\ transfers'[t] = "absent"
          /\ \A u \in Transfers \ {t} :
                transfers'[u] = transfers[u] /\ nextChunkIndex'[u] = nextChunkIndex[u]
      BY <1>1, <2>1, DeleteSteps
    <2>4. /\ told' \in [Transfers -> Seq(Tellings)]
          /\ answersOf(t, "complete")' = {}
          /\ \A u \in Transfers \ {t} : told'[u] = told[u]
      BY <1>1, <1>2, <2>1, TellOther, ShellCodes
    <2>5. ShellTyped' /\ OtherJobsKept(t)
      BY <1>1, <2>1, <2>2, <2>3, <2>4 DEF ShellTyped, OtherJobsKept
    <2>6. JobInv(t)'
      BY <1>1, <1>2, <2>1, <2>2, <2>3, <2>4 DEF JobInv, JobProgress, ChunksFollow, CompleteOnce
    <2> QED BY <2>5, <2>6, JobStep
  <1> QED BY <1>3, <1>4, <1>5

\* A chunk of the browser: it is the next one, or it is refused.
LEMMA ChunkKeeps ==
    ASSUME ShellInv, NEW t \in Transfers, NEW i \in Nat, NEW isLast \in BOOLEAN,
           uploadChunk(t, i, isLast)
    PROVE  ShellInv'
  <1>1. /\ ShellTyped /\ JobInv(t) /\ job[t].stage = "uploading"
        /\ writes[t] \in Seq(Chunks) /\ written[t] \in Seq(Chunks)
    BY DEF ShellInv, ShellTyped, uploadChunk
  <1>2. UNCHANGED <<job, uploadStreams, stream, written, transfers>>
    BY DEF uploadChunk, managerVars
  <1>3. CASE chunkAccepted(t, i)
    <2> DEFINE chunk == [index |-> i, last |-> isLast]
    <2>1. /\ t \in uploadStreams /\ transfers[t] = "active" /\ i = nextChunkIndex[t]
          /\ nextChunkIndex' = [nextChunkIndex EXCEPT ![t] = nextChunkIndex[t] + 1]
          /\ writes' = [writes EXCEPT ![t] = Append(writes[t], chunk)] /\ UNCHANGED told
      BY <1>1, <1>3 DEF uploadChunk, chunkAccepted, ShellTyped
    <2>2. chunk \in Chunks /\ chunk.index = i
      BY DEF Chunks
    <2> HIDE DEF chunk
    <2>3. /\ writes'[t] = Append(writes[t], chunk) /\ writes' \in [Transfers -> Seq(Chunks)]
          /\ Len(writes'[t]) = Len(writes[t]) + 1 /\ writes'[t][Len(writes[t]) + 1] = chunk
          /\ \A k \in 1 .. Len(writes[t]) : writes'[t][k] = writes[t][k]
          /\ Len(writes[t]) \in Nat /\ Len(written[t]) \in Nat
      BY <1>1, <2>1, <2>2 DEF ShellTyped
    <2>4. ShellTyped' /\ OtherJobsKept(t) /\ nextChunkIndex'[t] = i + 1
      BY <1>1, <1>2, <2>1, <2>3 DEF ShellTyped, OtherJobsKept
    <2>5. i = Len(written[t]) + Len(writes[t])
      BY <1>1, <2>1 DEF JobInv, ChunksFollow
    <2>6. ChunksFollow(t)'
      <3>1. ASSUME stream[t] # "destroyed", NEW k \in 1 .. Len(writes'[t])
            PROVE  writes'[t][k].index = Len(written[t]) + k - 1
        <4>1. CASE k \in 1 .. Len(writes[t])
          BY <1>1, <2>3, <3>1, <4>1 DEF JobInv, ChunksFollow
        <4>2. CASE k = Len(writes[t]) + 1
          <5>1. writes'[t][k].index = i
            BY <2>2, <2>3, <4>2
          <5> DEFINE m == Len(written[t])
                     n == Len(writes[t])
          <5>2. m \in Nat /\ n \in Nat /\ i = m + n /\ k = n + 1
            BY <2>3, <2>5, <4>2
          <5> HIDE DEF m, n
          <5>3. i = m + k - 1
            BY <5>2
          <5> QED BY <5>1, <5>3 DEF m
        <4> QED BY <2>3, <4>1, <4>2
      <3>2. nextChunkIndex'[t] = Len(written[t]) + Len(writes'[t])
        <4> DEFINE m == Len(written[t])
                   n == Len(writes[t])
        <4>1. m \in Nat /\ n \in Nat /\ i = m + n /\ Len(writes'[t]) = n + 1
          BY <2>3, <2>5
        <4>2. nextChunkIndex'[t] = i + 1
          BY <2>4
        <4> HIDE DEF m, n
        <4>3. nextChunkIndex'[t] = m + (n + 1)
          BY <4>1, <4>2
        <4> QED BY <4>1, <4>3 DEF m
      <3> QED BY <1>1, <1>2, <3>1, <3>2 DEF JobInv, ChunksFollow
    <2>7. JobProgress(t)' /\ CompleteOnce(t)'
      BY <1>1, <1>2, <2>1 DEF JobInv, JobProgress, CompleteOnce, answersOf
    <2> QED BY <2>4, <2>6, <2>7, JobStep DEF JobInv
  <1>4. CASE tell(t, "SFTP_CHUNK_ERROR") /\ UNCHANGED <<managerVars, writes>>
    <2>1. /\ told' \in [Transfers -> Seq(Tellings)]
          /\ answersOf(t, "complete")' = answersOf(t, "complete")
          /\ Len(told[t]) \in Nat /\ Len(told'[t]) = Len(told[t]) + 1
          /\ \A u \in Transfers \ {t} : told'[u] = told[u]
      BY <1>1, <1>4, TellOther, ShellCodes
    <2>2. ShellTyped' /\ OtherJobsKept(t)
      BY <1>1, <1>2, <1>4, <2>1 DEF ShellTyped, OtherJobsKept, managerVars
    <2>3. JobProgress(t)' /\ ChunksFollow(t)'
      BY <1>1, <1>2, <1>4 DEF JobInv, JobProgress, ChunksFollow, managerVars
    <2>4. \A k \in 1 .. Len(told[t]) : k \in 1 .. Len(told'[t])
      BY <2>1
    <2>5. CompleteOnce(t)'
      BY <1>1, <1>2, <1>4, <2>1, <2>4 DEF JobInv, CompleteOnce, managerVars
    <2> QED BY <2>2, <2>3, <2>5, JobStep DEF JobInv
  <1> QED BY <1>3, <1>4 DEF uploadChunk

\* The first chunk on its way and the ones behind it.
LEMMA FirstAndRest ==
    ASSUME NEW s \in Seq(Chunks), s # << >>
    PROVE  /\ Len(s) \in Nat \ {0} /\ s[1] = Head(s) /\ Head(s) \in Chunks
           /\ Tail(s) \in Seq(Chunks) /\ Len(Tail(s)) = Len(s) - 1
           /\ \A k \in 1 .. Len(s) - 1 : Tail(s)[k] = s[k + 1]
  OBVIOUS

LEMMA LastOfAppend ==
    ASSUME NEW s \in Seq(Chunks), NEW chunk \in Chunks
    PROVE  /\ Append(s, chunk) \in Seq(Chunks) /\ Len(s) \in Nat
           /\ Len(Append(s, chunk)) = Len(s) + 1 /\ Append(s, chunk)[Len(s) + 1] = chunk
           /\ \A k \in 1 .. Len(s) : Append(s, chunk)[k] = s[k]
  OBVIOUS

\* The channel takes the first of the chunks on their way: what it has taken and what
\* follows are still numbered from 0 on.
LEMMA TakenInOrder ==
    ASSUME ShellTyped, NEW t \in Transfers, ChunksFollow(t), writes[t] # << >>,
           stream[t] # "destroyed",
           writes'[t] = Tail(writes[t]), written'[t] = Append(written[t], Head(writes[t])),
           (job'[t].stage = "uploading" /\ t \in uploadStreams' /\ transfers'[t] = "active") =>
               /\ job[t].stage = "uploading" /\ t \in uploadStreams /\ transfers[t] = "active"
               /\ nextChunkIndex'[t] = nextChunkIndex[t]
    PROVE  ChunksFollow(t)'
  <1> DEFINE m == Len(written[t])
             n == Len(writes[t])
             first == Head(writes[t])
  <1>1. writes[t] \in Seq(Chunks) /\ written[t] \in Seq(Chunks)
    BY DEF ShellTyped
  <1>2. /\ n \in Nat \ {0} /\ writes[t][1] = first /\ first \in Chunks
        /\ Len(writes'[t]) = n - 1
        /\ \A k \in 1 .. n - 1 : writes'[t][k] = writes[t][k + 1]
    BY <1>1, FirstAndRest
  <1>3. /\ m \in Nat /\ Len(written'[t]) = m + 1 /\ written'[t][m + 1] = first
        /\ \A k \in 1 .. m : written'[t][k] = written[t][k]
    BY <1>1, <1>2, LastOfAppend
  <1>4. /\ \A k \in 1 .. m : written[t][k].index = k - 1
        /\ \A k \in 1 .. n : writes[t][k].index = m + k - 1
    BY DEF ChunksFollow
  <1>5. first.index = m
    <2>1. writes[t][1].index = m + 1 - 1
      BY <1>2, <1>4
    <2> QED BY <1>2, <1>3, <2>1
  <1>6. (job'[t].stage = "uploading" /\ t \in uploadStreams' /\ transfers'[t] = "active") =>
            nextChunkIndex'[t] = m + n
    BY DEF ChunksFollow
  <1> HIDE DEF m, n, first
  <1>7. ASSUME NEW k \in 1 .. m + 1 PROVE written'[t][k].index = k - 1
    <2>1. CASE k \in 1 .. m
      BY <1>3, <1>4, <2>1
    <2>2. CASE k = m + 1
      BY <1>3, <1>5, <2>2
    <2> QED BY <1>3, <2>1, <2>2
  <1>8. ASSUME NEW k \in 1 .. n - 1 PROVE writes'[t][k].index = (m + 1) + k - 1
    <2>1. k + 1 \in 1 .. n /\ writes'[t][k] = writes[t][k + 1]
      BY <1>2
    <2>2. writes[t][k + 1].index = m + (k + 1) - 1
      BY <1>4, <2>1
    <2> QED BY <1>2, <1>3, <2>1, <2>2
  <1>9. m + n = (m + 1) + (n - 1)
    BY <1>2, <1>3
  <1> QED BY <1>2, <1>3, <1>6, <1>7, <1>8, <1>9 DEF ChunksFollow

\* What an upload has been told stays true when the channel takes another chunk.
LEMMA LastStays ==
    ASSUME ShellTyped, NEW t \in Transfers, NEW chunk \in Chunks,
           written'[t] = Append(written[t], chunk)
    PROVE  /\ (\E k \in 1 .. Len(written[t]) : written[t][k].last) =>
                  \E k \in 1 .. Len(written'[t]) : written'[t][k].last
           /\ chunk.last => \E k \in 1 .. Len(written'[t]) : written'[t][k].last
  <1> DEFINE m == Len(written[t])
  <1>1. written[t] \in Seq(Chunks)
    BY DEF ShellTyped
  <1>2. /\ m \in Nat /\ Len(written'[t]) = m + 1 /\ written'[t][m + 1] = chunk
        /\ \A k \in 1 .. m : written'[t][k] = written[t][k]
    BY <1>1, LastOfAppend
  <1>3. ASSUME NEW k \in 1 .. m, written[t][k].last
        PROVE  \E j \in 1 .. Len(written'[t]) : written'[t][j].last
    <2>1. k \in 1 .. Len(written'[t]) /\ written'[t][k] = written[t][k]
      BY <1>2
    <2> QED BY <1>3, <2>1
  <1>4. m + 1 \in 1 .. Len(written'[t])
    BY <1>2
  <1> QED BY <1>2, <1>3, <1>4

\* The write callback.  After the last chunk the upload is complete, and told so if its
\* transfer is still there, which it then is no more.
LEMMA WriteDoneKeeps ==
    ASSUME ShellInv, NEW t \in Transfers, writeDone(t)
    PROVE  ShellInv'
  <1> DEFINE chunk == Head(writes[t])
  <1>1. /\ ShellTyped /\ JobInv(t) /\ JobProgress(t) /\ ChunksFollow(t) /\ CompleteOnce(t)
        /\ writes[t] # << >> /\ stream[t] # "destroyed" /\ job[t].stage = "uploading"
        /\ job[t].kind = "upload"
    BY DEF ShellInv, JobInv, JobProgress, writeDone
  <1>2. /\ writes[t] \in Seq(Chunks) /\ written[t] \in Seq(Chunks)
        /\ chunk \in Chunks /\ Tail(writes[t]) \in Seq(Chunks)
        /\ Append(written[t], chunk) \in Seq(Chunks)
    <2>1. writes[t] \in Seq(Chunks) /\ written[t] \in Seq(Chunks)
      BY <1>1 DEF ShellTyped
    <2>2. chunk \in Chunks /\ Tail(writes[t]) \in Seq(Chunks)
      BY <1>1, <2>1, FirstAndRest
    <2> QED BY <2>1, <2>2, LastOfAppend
  <1>3. /\ writes' = [writes EXCEPT ![t] = Tail(writes[t])]
        /\ written' = [written EXCEPT ![t] = Append(written[t], chunk)]
        /\ UNCHANGED job
    BY <1>1 DEF writeDone, ShellTyped
  <1> HIDE DEF chunk
  <1>4. /\ writes'[t] = Tail(writes[t]) /\ written'[t] = Append(written[t], chunk)
        /\ writes' \in [Transfers -> Seq(Chunks)] /\ written' \in [Transfers -> Seq(Chunks)]
        /\ \A u \in Transfers \ {t} : writes'[u] = writes[u] /\ written'[u] = written[u]
    BY <1>1, <1>2, <1>3 DEF ShellTyped
  <1>5. /\ (\E k \in 1 .. Len(written[t]) : written[t][k].last) =>
                  \E k \in 1 .. Len(written'[t]) : written'[t][k].last
        /\ chunk.last => \E k \in 1 .. Len(written'[t]) : written'[t][k].last
    BY <1>1, <1>2, <1>4, LastStays
  <1>6. ASSUME NEW code \in Tellings, code # "complete", tell(t, code)
        PROVE  /\ told' \in [Transfers -> Seq(Tellings)]
               /\ answersOf(t, "complete")' = answersOf(t, "complete")
               /\ \A k \in 1 .. Len(told[t]) : k \in 1 .. Len(told'[t])
               /\ \A u \in Transfers \ {t} : told'[u] = told[u]
    <2>1. /\ told' \in [Transfers -> Seq(Tellings)]
          /\ answersOf(t, "complete")' = answersOf(t, "complete")
          /\ Len(told[t]) \in Nat /\ Len(told'[t]) = Len(told[t]) + 1
          /\ \A u \in Transfers \ {t} : told'[u] = told[u]
      BY <1>1, <1>6, TellOther
    <2> QED BY <2>1
  <1>7. CASE chunk.last
    <2>1. /\ stream' = [stream EXCEPT ![t] = "ended"] /\ uploadStreams' = uploadStreams \ {t}
          /\ deleteTransfers({t})
          /\ told' = [told EXCEPT ![t] =
                @ \o IF transfers[t] = "absent" THEN <<"ack">> ELSE <<"ack", "complete">>]
      BY <1>7 DEF writeDone, chunk
    <2>2. /\ transfers' \in [Transfers -> {"absent", "pending", "active"}]
          /\ nextChunkIndex' = [u \in Transfers |-> nextChunkIndex'[u]]
          /\ transfers'[t] = "absent"
          /\ \A u \in Transfers \ {t} :
                transfers'[u] = transfers[u] /\ nextChunkIndex'[u] = nextChunkIndex[u]
      BY <1>1, <2>1, DeleteSteps
    <2>3. /\ told' \in [Transfers -> Seq(Tellings)]
          /\ \A u \in Transfers \ {t} : told'[u] = told[u]
          /\ answersOf(t, "complete")' # {} =>
                \E k \in 1 .. Len(told'[t]) : answersOf(t, "complete")' = {k}
      <3>1. CASE transfers[t] = "absent"
        <4>1. told[t] \in Seq(Tellings) /\ told[t] \o <<"ack">> = Append(told[t], "ack")
          BY <1>1 DEF ShellTyped
        <4>2. tell(t, "ack")
          BY <1>1, <2>1, <3>1, <4>1 DEF tell, ShellTyped
        <4>3. /\ told' \in [Transfers -> Seq(Tellings)]
              /\ answersOf(t, "complete")' = answersOf(t, "complete")
              /\ \A k \in 1 .. Len(told[t]) : k \in 1 .. Len(told'[t])
              /\ \A u \in Transfers \ {t} : told'[u] = told[u]
          BY <1>6, <4>2 DEF Tellings
        <4> QED BY <1>1, <4>3 DEF CompleteOnce
      <3>2. CASE transfers[t] # "absent"
        <4>1. answersOf(t, "complete") = {}
          BY <1>1, <3>2 DEF CompleteOnce
        <4>2. told' = [told EXCEPT ![t] = @ \o <<"ack", "complete">>]
          BY <2>1, <3>2
        <4> QED BY <1>1, <4>1, <4>2, TellComplete
      <3> QED BY <3>1, <3>2
    <2>4. /\ stream' \in [Transfers -> {"none", "open", "ended", "destroyed"}]
          /\ stream'[t] = "ended" /\ t \notin uploadStreams'
          /\ \A u \in Transfers \ {t} :
                stream'[u] = stream[u] /\ (u \in uploadStreams' <=> u \in uploadStreams)
      BY <1>1, <2>1 DEF ShellTyped
    <2>5. ShellTyped' /\ OtherJobsKept(t)
      BY <1>1, <1>3, <1>4, <2>1, <2>2, <2>3, <2>4 DEF ShellTyped, OtherJobsKept
    <2>6. ChunksFollow(t)'
      BY <1>1, <1>4, <2>4, TakenInOrder DEF chunk
    <2>7. JobProgress(t)'
      BY <1>1, <1>3, <2>2, <2>4 DEF JobProgress
    <2>8. CompleteOnce(t)'
      BY <1>1, <1>3, <1>5, <1>7, <2>2, <2>3 DEF CompleteOnce
    <2> QED BY <2>5, <2>6, <2>7, <2>8, JobStep DEF JobInv
  <1>8. CASE ~chunk.last
    <2>1. tell(t, "ack") /\ UNCHANGED <<stream, uploadStreams, managerVars>>
      BY <1>8 DEF writeDone, chunk
    <2>2. /\ told' \in [Transfers -> Seq(Tellings)]
          /\ answersOf(t, "complete")' = answersOf(t, "complete")
          /\ \A k \in 1 .. Len(told[t]) : k \in 1 .. Len(told'[t])
          /\ \A u \in Transfers \ {t} : told'[u] = told[u]
      BY <1>6, <2>1 DEF Tellings
    <2>3. ShellTyped' /\ OtherJobsKept(t)
      BY <1>1, <1>3, <1>4, <2>1, <2>2 DEF ShellTyped, OtherJobsKept, managerVars
    <2>4. ChunksFollow(t)'
      <3>1. (job'[t].stage = "uploading" /\ t \in uploadStreams' /\ transfers'[t] = "active") =>
                /\ job[t].stage = "uploading" /\ t \in uploadStreams /\ transfers[t] = "active"
                /\ nextChunkIndex'[t] = nextChunkIndex[t]
        BY <1>3, <2>1 DEF managerVars
      <3> QED BY <1>1, <1>4, <3>1, TakenInOrder DEF chunk
    <2>5. JobProgress(t)'
      BY <1>1, <1>3, <2>1 DEF JobProgress, managerVars
    <2>6. CompleteOnce(t)'
      BY <1>1, <1>3, <1>5, <2>1, <2>2 DEF CompleteOnce, managerVars
    <2> QED BY <2>3, <2>4, <2>5, <2>6, JobStep DEF JobInv
  <1> QED BY <1>7, <1>8

\* A failed write destroys the stream, and the transfer stays.
LEMMA WriteFailsKeeps ==
    ASSUME ShellInv, NEW t \in Transfers, writeFails(t)
    PROVE  ShellInv'
  <1>1. /\ ShellTyped /\ JobProgress(t) /\ ChunksFollow(t) /\ CompleteOnce(t)
        /\ writes[t] # << >> /\ stream[t] # "ended" /\ job[t].stage = "uploading"
        /\ tell(t, "SFTP_CHUNK_ERROR") /\ cleanupUpload(t)
        /\ UNCHANGED <<job, written, managerVars>>
    BY DEF ShellInv, JobInv, JobProgress, writeFails
  <1>2. /\ writes' = [writes EXCEPT ![t] = Tail(writes[t])] /\ Tail(writes[t]) \in Seq(Chunks)
    <2>1. writes[t] \in Seq(Chunks)
      BY <1>1 DEF ShellTyped
    <2> QED BY <1>1, <2>1, FirstAndRest DEF writeFails, ShellTyped
  <1>3. /\ writes' \in [Transfers -> Seq(Chunks)]
        /\ \A u \in Transfers \ {t} : writes'[u] = writes[u]
    BY <1>1, <1>2 DEF ShellTyped
  <1>4. /\ stream' \in [Transfers -> {"none", "open", "ended", "destroyed"}]
        /\ uploadStreams' \in SUBSET Transfers
        /\ stream'[t] = "destroyed" /\ t \notin uploadStreams'
        /\ \A u \in Transfers \ {t} :
              stream'[u] = stream[u] /\ (u \in uploadStreams' <=> u \in uploadStreams)
    BY <1>1 DEF cleanupUpload, ShellTyped, JobProgress
  <1>5. /\ told' \in [Transfers -> Seq(Tellings)]
        /\ answersOf(t, "complete")' = answersOf(t, "complete")
        /\ \A k \in 1 .. Len(told[t]) : k \in 1 .. Len(told'[t])
        /\ \A u \in Transfers \ {t} : told'[u] = told[u]
    <2>1. /\ told' \in [Transfers -> Seq(Tellings)]
          /\ answersOf(t, "complete")' = answersOf(t, "complete")
          /\ Len(told[t]) \in Nat /\ Len(told'[t]) = Len(told[t]) + 1
          /\ \A u \in Transfers \ {t} : told'[u] = told[u]
      BY <1>1, TellOther DEF Tellings
    <2> QED BY <2>1
  <1>6. ShellTyped' /\ OtherJobsKept(t)
    BY <1>1, <1>3, <1>4, <1>5 DEF ShellTyped, OtherJobsKept, managerVars
  <1>7. JobProgress(t)'
    BY <1>1, <1>4 DEF JobProgress, managerVars
  <1>8. ChunksFollow(t)'
    BY <1>1, <1>4 DEF ChunksFollow
  <1>9. CompleteOnce(t)'
    BY <1>1, <1>5 DEF CompleteOnce, managerVars
  <1> QED BY <1>6, <1>7, <1>8, <1>9, JobStep DEF JobInv

\* The browser cancels an upload, before, under or after its writes.
LEMMA CancelUploadKeeps ==
    ASSUME ShellInv, NEW t \in Transfers, cancelUpload(t)
    PROVE  ShellInv'
  <1>1. /\ ShellTyped /\ JobProgress(t) /\ ChunksFollow(t) /\ CompleteOnce(t)
        /\ cleanupUpload(t) /\ cancelTransfer(t)
        /\ UNCHANGED <<job, writes, written, told>>
    BY DEF ShellInv, JobInv, cancelUpload
  <1>2. /\ transfers' \in [Transfers -> {"absent", "pending", "active"}]
        /\ nextChunkIndex' = [u \in Transfers |-> nextChunkIndex'[u]]
        /\ transfers'[t] = "absent"
        /\ \A u \in Transfers \ {t} :
              transfers'[u] = transfers[u] /\ nextChunkIndex'[u] = nextChunkIndex[u]
    BY <1>1, DeleteSteps
  <1>3. /\ stream' \in [Transfers -> {"none", "open", "ended", "destroyed"}]
        /\ uploadStreams' \in SUBSET Transfers
        /\ stream'[t] \in {stream[t], "destroyed"} /\ stream'[t] # "open"
        /\ t \notin uploadStreams'
        /\ \A u \in Transfers \ {t} :
              stream'[u] = stream[u] /\ (u \in uploadStreams' <=> u \in uploadStreams)
    BY <1>1 DEF cleanupUpload, ShellTyped, JobProgress
  <1>4. ShellTyped' /\ OtherJobsKept(t)
    BY <1>1, <1>2, <1>3 DEF ShellTyped, OtherJobsKept
  <1>5. JobProgress(t)'
    BY <1>1, <1>2, <1>3 DEF JobProgress
  <1>6. ChunksFollow(t)'
    BY <1>1, <1>2, <1>3 DEF ChunksFollow
  <1>7. CompleteOnce(t)'
    BY <1>1, <1>2 DEF CompleteOnce, answersOf
  <1> QED BY <1>4, <1>5, <1>6, <1>7, JobStep DEF JobInv

\* cat of a download: it starts, writes, fails and ends.
LEMMA CatOutputKeeps ==
    ASSUME ShellInv, NEW t \in Transfers,
           catStreams(t) \/ streamFails(t) \/ \E n \in 1 .. output[t] : catData(t, n)
    PROVE  ShellInv'
  <1>1. /\ ShellTyped /\ JobInv(t) /\ JobProgress(t) /\ ChunksFollow(t) /\ CompleteOnce(t)
        /\ job[t] \in Jobs /\ job[t].stage \in {"catting", "streaming"} /\ job[t].kind # "upload"
        /\ writes[t] = << >> /\ written[t] = << >>
    BY DEF ShellInv, ShellTyped, JobInv, JobProgress, catStreams, streamFails, catData
  <1>2. CASE catStreams(t)
    <2>1. /\ job' = [job EXCEPT ![t] = [job[t] EXCEPT !.stage = "streaming"]]
          /\ UNCHANGED <<uploadStreams, stream, writes, written, told, managerVars>>
      BY <1>1, <1>2 DEF catStreams, streamVars, ShellTyped
    <2>2. /\ job' \in [Transfers -> Jobs] /\ job'[t].kind = job[t].kind
          /\ job'[t].stage = "streaming" /\ \A u \in Transfers \ {t} : job'[u] = job[u]
      BY <1>1, <2>1 DEF ShellTyped, Jobs, ShellStages
    <2>3. ShellTyped' /\ OtherJobsKept(t)
      BY <1>1, <2>1, <2>2 DEF ShellTyped, OtherJobsKept, managerVars
    <2>4. JobProgress(t)' /\ ChunksFollow(t)'
      BY <1>1, <2>1, <2>2 DEF JobProgress, ChunksFollow, managerVars
    <2>5. CompleteOnce(t)'
      BY <1>1, <2>1, <2>2 DEF CompleteOnce, answersOf, managerVars
    <2> QED BY <2>3, <2>4, <2>5, JobStep DEF JobInv
  <1>3. CASE streamFails(t)
    <2>1. /\ over(t) /\ UNCHANGED streamVars /\ "SFTP_CHUNK_ERROR" \in Tellings \ {"complete"}
          /\ \/ UNCHANGED managerVars /\ UNCHANGED told
             \/ cancelTransfer(t) /\ tell(t, "SFTP_CHUNK_ERROR")
      BY <1>3 DEF streamFails, Tellings
    <2> QED BY <1>1, <2>1, EndKeeps
  <1>4. ASSUME NEW n \in 1 .. output[t], catData(t, n), t \in cancelled
        PROVE  ShellInv'
    <2>1. over(t) /\ UNCHANGED streamVars /\ UNCHANGED managerVars /\ UNCHANGED told
      BY <1>4 DEF catData, managerVars
    <2> QED BY <1>1, <2>1, EndKeeps
  <1>5. ASSUME NEW n \in 1 .. output[t], catData(t, n), t \notin cancelled
        PROVE  ShellInv'
    <2>1. /\ \E m : nextChunkIndex' = [nextChunkIndex EXCEPT ![t] = m]
          /\ UNCHANGED <<job, uploadStreams, stream, writes, written, told, transfers>>
      BY <1>5 DEF catData, emitChunks, streamVars
    <2>2. /\ nextChunkIndex' = [u \in Transfers |-> nextChunkIndex'[u]]
          /\ \A u \in Transfers \ {t} : nextChunkIndex'[u] = nextChunkIndex[u]
      BY <1>1, <2>1 DEF ShellTyped
    <2>3. ShellTyped' /\ OtherJobsKept(t)
      BY <1>1, <2>1, <2>2 DEF ShellTyped, OtherJobsKept
    <2>4. JobProgress(t)' /\ ChunksFollow(t)'
      BY <1>1, <2>1 DEF JobProgress, ChunksFollow
    <2>5. CompleteOnce(t)'
      BY <1>1, <2>1 DEF CompleteOnce, answersOf
    <2> QED BY <2>3, <2>4, <2>5, JobStep DEF JobInv
  <1> QED BY <1>2, <1>3, <1>4, <1>5

\* The end of cat completes the download if its transfer is still there.
LEMMA CatEndKeeps ==
    ASSUME ShellInv, NEW t \in Transfers, catEnd(t)
    PROVE  ShellInv'
  <1>1. /\ ShellTyped /\ JobProgress(t) /\ CompleteOnce(t)
        /\ job[t].stage = "streaming" /\ job[t].kind # "upload"
        /\ writes[t] = << >> /\ written[t] = << >>
        /\ over(t) /\ UNCHANGED streamVars
    BY DEF ShellInv, JobInv, JobProgress, catEnd
  <1>2. CASE UNCHANGED <<managerVars, told>>
    BY <1>1, <1>2, EndKeeps
  <1>3. CASE deleteTransfers({t}) /\ (UNCHANGED told \/ tell(t, "complete"))
    <2>1. /\ job' \in [Transfers -> Jobs]
          /\ job'[t].stage = "over" /\ job'[t].kind = job[t].kind
          /\ \A u \in Transfers \ {t} : job'[u] = job[u]
      BY <1>1, OverSteps
    <2>2. /\ transfers' \in [Transfers -> {"absent", "pending", "active"}]
          /\ nextChunkIndex' = [u \in Transfers |-> nextChunkIndex'[u]]
          /\ transfers'[t] = "absent"
          /\ \A u \in Transfers \ {t} :
                transfers'[u] = transfers[u] /\ nextChunkIndex'[u] = nextChunkIndex[u]
      BY <1>1, <1>3, DeleteSteps
    <2>3. answersOf(t, "complete") = {}
      BY <1>1 DEF CompleteOnce
    <2>4. /\ told' \in [Transfers -> Seq(Tellings)]
          /\ \A u \in Transfers \ {t} : told'[u] = told[u]
          /\ answersOf(t, "complete")' # {} =>
                \E k \in 1 .. Len(told'[t]) : answersOf(t, "complete")' = {k}
      <3>1. CASE UNCHANGED told
        BY <1>1, <2>3, <3>1 DEF ShellTyped, answersOf
      <3>2. CASE tell(t, "complete")
        BY <1>1, <2>3, <3>2, TellComplete DEF tell
      <3> QED BY <1>3, <3>1, <3>2
    <2>5. ShellTyped' /\ OtherJobsKept(t)
      BY <1>1, <2>1, <2>2, <2>4 DEF ShellTyped, OtherJobsKept, streamVars
    <2>6. JobProgress(t)' /\ ChunksFollow(t)'
      BY <1>1, <2>1, <2>2 DEF JobProgress, ChunksFollow, streamVars
    <2>7. CompleteOnce(t)'
      BY <1>1, <2>1, <2>2, <2>4 DEF CompleteOnce
    <2> QED BY <2>5, <2>6, <2>7, JobStep DEF JobInv
  <1> QED BY <1>2, <1>3 DEF catEnd

\* The browser cancels a download.
LEMMA CancelDownloadKeeps ==
    ASSUME ShellInv, NEW t \in Transfers, cancelDownload(t)
    PROVE  ShellInv'
  <1>1. /\ ShellTyped /\ JobProgress(t) /\ ChunksFollow(t) /\ CompleteOnce(t)
        /\ cancelTransfer(t) /\ UNCHANGED <<job, uploadStreams, stream, writes, written, told>>
    BY DEF ShellInv, JobInv, cancelDownload, streamVars
  <1>2. /\ transfers' \in [Transfers -> {"absent", "pending", "active"}]
        /\ nextChunkIndex' = [u \in Transfers |-> nextChunkIndex'[u]]
        /\ transfers'[t] = "absent"
        /\ \A u \in Transfers \ {t} :
              transfers'[u] = transfers[u] /\ nextChunkIndex'[u] = nextChunkIndex[u]
    BY <1>1, DeleteSteps
  <1>3. ShellTyped' /\ OtherJobsKept(t)
    BY <1>1, <1>2 DEF ShellTyped, OtherJobsKept
  <1>4. JobProgress(t)' /\ ChunksFollow(t)'
    BY <1>1, <1>2 DEF JobProgress, ChunksFollow
  <1>5. CompleteOnce(t)'
    BY <1>1, <1>2 DEF CompleteOnce, answersOf
  <1> QED BY <1>3, <1>4, <1>5, JobStep DEF JobInv

\* Steps that leave the jobs alone.
LEMMA ShellQuiet ==
    ASSUME ShellInv, UNCHANGED <<managerVars, shellVars>>
    PROVE  ShellInv'
  <1>1. ShellTyped'
    BY DEF ShellInv, ShellTyped, managerVars, shellVars
  <1>2. ASSUME NEW t \in Transfers PROVE JobInv(t)'
    <2>1. JobProgress(t)' /\ ChunksFollow(t)'
      BY DEF ShellInv, JobInv, JobProgress, ChunksFollow, managerVars, shellVars
    <2>2. CompleteOnce(t)'
      BY DEF ShellInv, JobInv, CompleteOnce, answersOf, managerVars, shellVars
    <2> QED BY <2>1, <2>2 DEF JobInv
  <1> QED BY <1>1, <1>2 DEF ShellInv

LEMMA ShellInitInv == TransferInit /\ ShellInit => ShellInv
  <1> SUFFICES ASSUME TransferInit, ShellInit PROVE ShellInv
    OBVIOUS
  <1>1. ShellTyped
    BY DEF TransferInit, ShellInit, ShellTyped, Jobs, ShellKinds, ShellStages
  <1>2. ASSUME NEW t \in Transfers PROVE JobInv(t)
    <2>1. answersOf(t, "complete") = {}
      BY DEF ShellInit, answersOf
    <2> QED BY <2>1 DEF ShellInit, TransferInit, JobInv, JobProgress, ChunksFollow, CompleteOnce
  <1> QED BY <1>1, <1>2 DEF ShellInv

LEMMA ShellStepInv ==
    ASSUME ShellInv, ShellNext \/ UNCHANGED <<managerVars, shellVars>>
    PROVE  ShellInv'
  <1>1. ASSUME NEW t \in Transfers, NEW kind \in ShellKinds, NEW path \in Paths,
               NEW overwrite \in BOOLEAN, NEW tooLarge \in BOOLEAN,
               shellRequest(t, kind, path, overwrite, tooLarge)
        PROVE  ShellInv'
    BY <1>1, ShellRequestKeeps
  <1>2. ASSUME NEW t \in Transfers, \/ \E outcome \in Outcomes : echoEnds(t, outcome) \/ lsEnds(t, outcome)
                                    \/ entryRefused(t)
        PROVE  ShellInv'
    <2>1. "ok" \in Outcomes
      BY DEF Outcomes
    <2> QED BY <1>2, <2>1, CommandKeeps
  <1>3. ASSUME NEW t \in Transfers, catStarts(t) \/ catFails(t) \/ catTimeout(t)
        PROVE  ShellInv'
    BY <1>3, CatKeeps
  <1>4. ASSUME NEW t \in Transfers, NEW i \in 0 .. MaxChunks - 1, NEW isLast \in BOOLEAN,
               uploadChunk(t, i, isLast)
        PROVE  ShellInv'
    <2>1. i \in Nat
      BY TransferAssumption
    <2> QED BY <1>4, <2>1, ChunkKeeps
  <1>5. ASSUME NEW t \in Transfers, writeDone(t) \/ writeFails(t) \/ cancelUpload(t)
        PROVE  ShellInv'
    BY <1>5, WriteDoneKeeps, WriteFailsKeeps, CancelUploadKeeps
  <1>6. ASSUME NEW t \in Transfers, \/ catStreams(t) \/ streamFails(t) \/ catEnd(t) \/ cancelDownload(t)
                                    \/ \E n \in 1 .. output[t] : catData(t, n)
        PROVE  ShellInv'
    BY <1>6, CatOutputKeeps, CatEndKeeps, CancelDownloadKeeps
  <1>7. CASE UNCHANGED <<managerVars, shellVars>>
    BY <1>7, ShellQuiet
  <1> QED BY <1>1, <1>2, <1>3, <1>4, <1>5, <1>6, <1>7 DEF ShellNext

\* What was proved of the jobs is what is promised of an upload.
LEMMA ChunksMakeWhole == ShellInv => ShellUploadWhole
  <1> SUFFICES ASSUME ShellInv, NEW t \in Transfers
               PROVE  /\ \A k \in 1 .. Len(written[t]) : written[t][k].index = k - 1
                      /\ (job[t].kind = "upload" /\ answersOf(t, "complete") # {}) =>
                            \E k \in 1 .. Len(written[t]) : written[t][k].last
                      /\ Cardinality(answersOf(t, "complete")) <= 1
                      /\ (stream[t] = "open") = (t \in uploadStreams)
    BY DEF ShellUploadWhole
  <1>1. JobProgress(t) /\ ChunksFollow(t) /\ CompleteOnce(t)
    BY DEF ShellInv, JobInv
  <1>2. Cardinality(answersOf(t, "complete")) <= 1
    <2>1. CASE answersOf(t, "complete") = {}
      BY <2>1, FS_EmptySet
    <2>2. CASE answersOf(t, "complete") # {}
      <3>1. PICK k : answersOf(t, "complete") = {k}
        BY <1>1, <2>2 DEF CompleteOnce
      <3> QED BY <3>1, FS_Singleton
    <2> QED BY <2>1, <2>2
  <1>3. (stream[t] = "open") = (t \in uploadStreams)
    BY <1>1 DEF JobProgress
  <1> QED BY <1>1, <1>2, <1>3 DEF ChunksFollow, CompleteOnce

-----------------------------------------------------------------------------
(***************************************************************************)
(* The theorems.                                                           *)
(***************************************************************************)

\* Each backend keeps its invariant; the one that is not used stays as it was.
FilesInv == SftpInv /\ ShellInv

\* The inductive invariant holds in every reachable state.
THEOREM FilesInvariant == FilesSpec => []FilesInv
  <1>1. FilesInit => FilesInv
    BY SftpInitInv, ShellInitInv DEF FilesInit, FilesInv
  <1>2. FilesInv /\ [FilesNext]_filesVars => FilesInv'
    <2> SUFFICES ASSUME FilesInv, [FilesNext]_filesVars PROVE FilesInv'
      OBVIOUS
    <2>1. SftpNext \/ UNCHANGED sftpVars
      BY DEF FilesNext, filesVars
    <2>2. ShellNext \/ UNCHANGED <<managerVars, shellVars>>
      BY DEF FilesNext, filesVars
    <2> QED BY <2>1, <2>2, SftpStepInv, ShellStepInv DEF FilesInv
  <1> QED BY <1>1, <1>2, PTL DEF FilesSpec

\* Whatever the order of callbacks and timers, the browser is told that a directory was
\* made or something deleted only if the server did it, that it was refused only if the
\* server did not, and a request that reads changes nothing (wrapSftpOperation).
THEOREM AnswersTellTruth == FilesSpec => []AnswerMatchesEffect
  <1>1. FilesInv => AnswerMatchesEffect
    BY ProgressTellsTruth DEF FilesInv
  <1> QED BY <1>1, FilesInvariant, PTL

\* No SFTP channel is open but the one in the map of sessions, unless two opens
\* overlapped or one was answered after its timer (ensureSession, openSession).
THEOREM OneChannelOpen == FilesSpec => []OneChannelUnlessOverlap
  <1>1. FilesInv => OneChannelUnlessOverlap
    BY DEF FilesInv, SftpInv
  <1> QED BY <1>1, FilesInvariant, PTL

\* An upload through cat is told complete once at most, and only after the channel took
\* all of its chunks in order (processUploadChunk, completeUpload).
THEOREM ShellUploadsWhole == FilesSpec => []ShellUploadWhole
  <1>1. FilesInv => ShellUploadWhole
    BY ChunksMakeWhole DEF FilesInv
  <1> QED BY <1>1, FilesInvariant, PTL

-----------------------------------------------------------------------------
(***************************************************************************)
(* The messages that reach the services (SftpMessages).                    *)
(***************************************************************************)
\* What a check lets through under a rule of the contract.
Follows(v, rule) ==
    v # Refused => \/ v = Absentee /\ rule[2] = "may"
                   \/ v # Absentee /\ v[1] = rule[1]

\* Each check agrees with one rule, whatever the message holds in that field.
LEMMA ChecksFollow ==
    ASSUME NEW m, NEW key, NEW min, NEW max
    PROVE  /\ Follows(validateRequiredString(m, key, min, max), Must("string"))
           /\ Follows(validateOptionalString(m, key, max), May("string"))
           /\ Follows(validateRequiredInt(m, key, min, max), Must("int"))
           /\ Follows(validateOptionalInt(m, key, min, max), May("int"))
           /\ Follows(validateRequiredBoolean(m, key), Must("boolean"))
           /\ Follows(validateOptionalBoolean(m, key), May("boolean"))
  <1> DEFINE v == Field(m, key)
  <1>1. /\ validateRequiredString(m, key, min, max) \in {v, Refused}
        /\ validateRequiredString(m, key, min, max) # Refused => v[1] = "string"
    BY DEF validateRequiredString, IsText
  <1>2. /\ validateOptionalString(m, key, max) \in {v, Refused}
        /\ validateOptionalString(m, key, max) # Refused => v = Absentee \/ v[1] = "string"
    BY DEF validateOptionalString, IsText
  <1>3. /\ validateRequiredInt(m, key, min, max) \in {v, Refused}
        /\ validateRequiredInt(m, key, min, max) # Refused => v[1] = "int"
    BY DEF validateRequiredInt, IsInt
  <1>4. /\ validateOptionalInt(m, key, min, max) \in {v, Refused}
        /\ validateOptionalInt(m, key, min, max) # Refused => v = Absentee \/ v[1] = "int"
    BY DEF validateOptionalInt, IsInt
  <1>5. /\ validateRequiredBoolean(m, key) \in {v, Refused}
        /\ validateRequiredBoolean(m, key) # Refused => v[1] = "boolean"
    BY DEF validateRequiredBoolean
  <1>6. \/ validateOptionalBoolean(m, key) = v /\ v[1] = "boolean"
        \/ validateOptionalBoolean(m, key) = Absentee
    BY DEF validateOptionalBoolean
  <1>7. /\ Absentee[1] = "undefined"
        /\ \A type : /\ Must(type)[1] = type /\ Must(type)[2] = "must"
                     /\ May(type)[1] = type /\ May(type)[2] = "may"
    BY DEF Absentee, Must, May
  <1> HIDE DEF v
  <1> QED BY <1>1, <1>2, <1>3, <1>4, <1>5, <1>6, <1>7 DEF Follows

\* A request holds the fields that have a value, each as its check left it, and none of
\* them was refused.
LEMMA RequestFields ==
    ASSUME NEW checked, Request(checked) # Refused
    PROVE  /\ DOMAIN Request(checked)[2] = {k \in DOMAIN checked : checked[k] # Absentee}
           /\ \A k \in DOMAIN checked : checked[k] # Refused
           /\ \A k \in DOMAIN Request(checked)[2] : Request(checked)[2][k] = checked[k]
  <1>1. /\ \A k \in DOMAIN checked : checked[k] # Refused
        /\ Request(checked)
             = <<"request", [key \in {k \in DOMAIN checked : checked[k] # Absentee} |-> checked[key]]>>
    BY DEF Request
  <1>2. Request(checked)[2]
          = [key \in {k \in DOMAIN checked : checked[k] # Absentee} |-> checked[key]]
    BY <1>1
  <1> QED BY <1>1, <1>2

\* It is enough that the checks are those of the contract, field by field.
LEMMA FieldsMeet ==
    ASSUME NEW request, NEW message, NEW checked, DOMAIN checked = DOMAIN Contract(request),
           \A k \in DOMAIN checked : Follows(checked[k], Contract(request)[k]),
           ensureRecord(message, checked) # Refused
    PROVE  MeetsContract(request, ensureRecord(message, checked)[2])
  <1> DEFINE f == Request(checked)[2]
  <1>1. ensureRecord(message, checked) = Request(checked) /\ Request(checked) # Refused
    BY DEF ensureRecord
  <1>2. /\ DOMAIN f = {k \in DOMAIN checked : checked[k] # Absentee}
        /\ \A k \in DOMAIN checked : checked[k] # Refused
        /\ \A k \in DOMAIN f : f[k] = checked[k]
    BY <1>1, RequestFields
  <1> HIDE DEF f
  <1>3. MeetsContract(request, f)
    BY <1>2 DEF MeetsContract, Follows
  <1> QED BY <1>1, <1>3 DEF f

\* What the checks let through of any message, for any limits, has every field the
\* contract asks for, of its type, and no other (validation/socket/sftp.ts,
\* types/contracts/v1/sftp.ts).
LEMMA AcceptedMeets ==
    ASSUME NEW request \in FileRequestNames, NEW message, NEW limit,
           validate(request, message, limit) # Refused
    PROVE  MeetsContract(request, validate(request, message, limit)[2])
  <1> DEFINE m == message[2]
             r == validate(request, message, limit)
  <1>0. \A key, min, max :
          /\ Follows(validateRequiredString(m, key, min, max), Must("string"))
          /\ Follows(validateOptionalString(m, key, max), May("string"))
          /\ Follows(validateRequiredInt(m, key, min, max), Must("int"))
          /\ Follows(validateOptionalInt(m, key, min, max), May("int"))
          /\ Follows(validateRequiredBoolean(m, key), Must("boolean"))
          /\ Follows(validateOptionalBoolean(m, key), May("boolean"))
    BY ChecksFollow
  <1> HIDE DEF m
  <1>1. CASE request = "list"
    <2> DEFINE c == [path |-> Path(m), showHidden |-> validateOptionalBoolean(m, "showHidden")]
    <2>1. r = ensureRecord(message, c)
      BY <1>1 DEF validate, validateSftpListRequest, m
    <2>2. Contract(request) = [path |-> Must("string"), showHidden |-> May("boolean")]
      BY <1>1 DEF Contract
    <2>3. DOMAIN c = DOMAIN Contract(request) /\ \A k \in DOMAIN c : Follows(c[k], Contract(request)[k])
      BY <1>0, <2>2 DEF Path
    <2> HIDE DEF c
    <2> QED BY <2>1, <2>3, FieldsMeet
  <1>2. CASE request = "stat"
    <2> DEFINE c == [path |-> Path(m)]
    <2>1. r = ensureRecord(message, c)
      BY <1>2 DEF validate, validateSftpStatRequest, m
    <2>2. Contract(request) = [path |-> Must("string")]
      BY <1>2 DEF Contract
    <2>3. DOMAIN c = DOMAIN Contract(request) /\ \A k \in DOMAIN c : Follows(c[k], Contract(request)[k])
      BY <1>0, <2>2 DEF Path
    <2> HIDE DEF c
    <2> QED BY <2>1, <2>3, FieldsMeet
  <1>3. CASE request = "mkdir"
    <2> DEFINE c == [path |-> Path(m), mode |-> validateOptionalInt(m, "mode", 0, 511)]
    <2>1. r = ensureRecord(message, c)
      BY <1>3 DEF validate, validateSftpMkdirRequest, m
    <2>2. Contract(request) = [path |-> Must("string"), mode |-> May("int")]
      BY <1>3 DEF Contract
    <2>3. DOMAIN c = DOMAIN Contract(request) /\ \A k \in DOMAIN c : Follows(c[k], Contract(request)[k])
      BY <1>0, <2>2 DEF Path
    <2> HIDE DEF c
    <2> QED BY <2>1, <2>3, FieldsMeet
  <1>4. CASE request = "delete"
    <2> DEFINE c == [path |-> Path(m), recursive |-> validateOptionalBoolean(m, "recursive")]
    <2>1. r = ensureRecord(message, c)
      BY <1>4 DEF validate, validateSftpDeleteRequest, m
    <2>2. Contract(request) = [path |-> Must("string"), recursive |-> May("boolean")]
      BY <1>4 DEF Contract
    <2>3. DOMAIN c = DOMAIN Contract(request) /\ \A k \in DOMAIN c : Follows(c[k], Contract(request)[k])
      BY <1>0, <2>2 DEF Path
    <2> HIDE DEF c
    <2> QED BY <2>1, <2>3, FieldsMeet
  <1>5. CASE request = "upload-start"
    <2> DEFINE c == [remotePath |-> RemotePath(m),
                     fileName |-> validateRequiredString(m, "fileName", 1, 255),
                     fileSize |-> validateRequiredInt(m, "fileSize", 0, limit),
                     mimeType |-> validateOptionalString(m, "mimeType", 128),
                     overwrite |-> validateOptionalBoolean(m, "overwrite")]
    <2>1. r = ensureRecord(message, c)
      BY <1>5 DEF validate, validateSftpUploadStartRequest, m
    <2>2. Contract(request) = [remotePath |-> Must("string"), fileName |-> Must("string"),
                               fileSize |-> Must("int"), mimeType |-> May("string"),
                               overwrite |-> May("boolean")]
      BY <1>5 DEF Contract
    <2>3. DOMAIN c = DOMAIN Contract(request) /\ \A k \in DOMAIN c : Follows(c[k], Contract(request)[k])
      BY <1>0, <2>2 DEF RemotePath
    <2> HIDE DEF c
    <2> QED BY <2>1, <2>3, FieldsMeet
  <1>6. CASE request = "upload-chunk"
    <2> DEFINE c == [transferId |-> validateTransferId(m),
                     chunkIndex |-> validateRequiredInt(m, "chunkIndex", 0, 1000000),
                     data |-> validateRequiredString(m, "data", 0, maxDataLength),
                     isLast |-> validateRequiredBoolean(m, "isLast")]
    <2>1. r = ensureRecord(message, c)
      BY <1>6 DEF validate, validateSftpUploadChunkRequest, m
    <2>2. Contract(request) = [transferId |-> Must("string"), chunkIndex |-> Must("int"),
                               data |-> Must("string"), isLast |-> Must("boolean")]
      BY <1>6 DEF Contract
    <2>3. DOMAIN c = DOMAIN Contract(request) /\ \A k \in DOMAIN c : Follows(c[k], Contract(request)[k])
      BY <1>0, <2>2 DEF validateTransferId
    <2> HIDE DEF c
    <2> QED BY <2>1, <2>3, FieldsMeet
  <1>7. CASE request = "download-start"
    <2> DEFINE c == [remotePath |-> RemotePath(m)]
    <2>1. r = ensureRecord(message, c)
      BY <1>7 DEF validate, validateSftpDownloadStartRequest, m
    <2>2. Contract(request) = [remotePath |-> Must("string")]
      BY <1>7 DEF Contract
    <2>3. DOMAIN c = DOMAIN Contract(request) /\ \A k \in DOMAIN c : Follows(c[k], Contract(request)[k])
      BY <1>0, <2>2 DEF RemotePath
    <2> HIDE DEF c
    <2> QED BY <2>1, <2>3, FieldsMeet
  <1>8. CASE request \in {"upload-cancel", "download-cancel"}
    <2> DEFINE c == [transferId |-> validateTransferId(m)]
    <2>1. r = ensureRecord(message, c)
      BY <1>8 DEF validate, validateCancelRequest, m
    <2>2. Contract(request) = [transferId |-> Must("string")]
      BY <1>8 DEF Contract
    <2>3. DOMAIN c = DOMAIN Contract(request) /\ \A k \in DOMAIN c : Follows(c[k], Contract(request)[k])
      BY <1>0, <2>2 DEF validateTransferId
    <2> HIDE DEF c
    <2> QED BY <2>1, <2>3, FieldsMeet
  <1> QED BY <1>1, <1>2, <1>3, <1>4, <1>5, <1>6, <1>7, <1>8 DEF FileRequestNames

-----------------------------------------------------------------------------
(***************************************************************************)
(* The ranges hosts are let in by (Subnets): for every width of words and  *)
(* segments the masks leave exactly the leading bits.                      *)
(***************************************************************************)
LEMMA OnesMask ==
    ASSUME NEW width \in Nat, NEW n \in Nat, NEW x \in Bits(width), NEW y \in Bits(width)
    PROVE  And(x, Ones(width, n)) = And(y, Ones(width, n))
             <=> \A i \in 1..width : i + n <= width => x[i] = y[i]
  <1> DEFINE ones == Ones(width, n)
  <1>1. \A i \in 1..width : ones[i] = IF i + n <= width THEN 1 ELSE 0
    BY DEF Ones
  <1>2. /\ DOMAIN x = 1..width /\ DOMAIN y = 1..width
        /\ \A i \in 1..width : x[i] \in {0, 1} /\ y[i] \in {0, 1}
    BY DEF Bits
  <1> HIDE DEF ones
  <1>3. /\ And(x, ones) = [i \in 1..width |-> x[i] * ones[i]]
        /\ And(y, ones) = [i \in 1..width |-> y[i] * ones[i]]
    BY <1>2 DEF And
  <1>4. And(x, ones) = And(y, ones) <=> \A i \in 1..width : x[i] * ones[i] = y[i] * ones[i]
    BY <1>3
  <1>5. \A i \in 1..width : x[i] * ones[i] = y[i] * ones[i] <=> (i + n <= width => x[i] = y[i])
    <2> SUFFICES ASSUME NEW i \in 1..width
                 PROVE  x[i] * ones[i] = y[i] * ones[i] <=> (i + n <= width => x[i] = y[i])
      OBVIOUS
    <2>1. CASE i + n <= width
      <3>1. ones[i] = 1
        BY <1>1, <2>1
      <3> QED BY <1>2, <2>1, <3>1
    <2>2. CASE ~(i + n <= width)
      <3>1. ones[i] = 0
        BY <1>1, <2>2
      <3> QED BY <1>2, <2>2, <3>1
    <2> QED BY <2>1, <2>2
  <1> QED BY <1>4, <1>5 DEF ones

\* An IPv4 range matches the addresses that share its leading bits, unless its mask is 0.
LEMMA Ipv4Range ==
    ASSUME NEW ip \in V4, NEW base \in V4, NEW mask \in 1..WordBits
    PROVE  isIpv4InCidr(ip, base, mask) <=> \A i \in 1..mask : ip[i] = base[i]
  <1>1. WordBits \in Nat \ {0}
    BY WidthAssumption
  <1>2. (WordBits - mask) % WordBits = WordBits - mask
    BY <1>1
  <1>3. isIpv4InCidr(ip, base, mask)
          <=> \A i \in 1..WordBits : i + (WordBits - mask) <= WordBits => ip[i] = base[i]
    BY <1>1, <1>2, OnesMask DEF isIpv4InCidr, V4
  <1>4. \A i \in 1..WordBits : i + (WordBits - mask) <= WordBits <=> i \in 1..mask
    BY <1>1
  <1> QED BY <1>1, <1>3, <1>4

\* An IPv6 range matches the addresses that share its leading bits.
LEMMA Ipv6Range ==
    ASSUME NEW ip \in V6, NEW base \in V6, NEW mask \in 0..(Segments * SegmentBits)
    PROVE  ipv6MatchesMask(ip, base, mask)
             <=> \A i \in 1..Segments, j \in 1..SegmentBits :
                   (i - 1) * SegmentBits + j <= mask => ip[i][j] = base[i][j]
  <1>1. SegmentBits \in Nat \ {0} /\ Segments \in Nat \ {0} /\ mask \in Nat
    BY WidthAssumption
  <1> DEFINE checked(i) == (i - 1) * SegmentBits
             bits(i) == IF mask - checked(i) < SegmentBits THEN mask - checked(i) ELSE SegmentBits
             bitMask(i) == Ones(SegmentBits, SegmentBits - bits(i))
             Share(i) == \A j \in 1..SegmentBits : checked(i) + j <= mask => ip[i][j] = base[i][j]
  <1>2. ipv6MatchesMask(ip, base, mask)
          <=> \A i \in 1..Segments :
                checked(i) < mask => And(ip[i], bitMask(i)) = And(base[i], bitMask(i))
    BY DEF ipv6MatchesMask
  <1>3. ASSUME NEW i \in 1..Segments
        PROVE  (checked(i) < mask => And(ip[i], bitMask(i)) = And(base[i], bitMask(i))) <=> Share(i)
    <2>1. checked(i) \in Int
      BY <1>1
    <2>2. ip[i] \in Bits(SegmentBits) /\ base[i] \in Bits(SegmentBits)
      BY DEF V6
    <2> HIDE DEF checked
    <2>3. CASE checked(i) < mask
      <3>1. SegmentBits - bits(i) \in Nat
        BY <1>1, <2>1, <2>3
      <3>2. And(ip[i], bitMask(i)) = And(base[i], bitMask(i))
              <=> \A j \in 1..SegmentBits :
                    j + (SegmentBits - bits(i)) <= SegmentBits => ip[i][j] = base[i][j]
        BY <1>1, <2>2, <3>1, OnesMask
      <3>3. \A j \in 1..SegmentBits :
              j + (SegmentBits - bits(i)) <= SegmentBits <=> checked(i) + j <= mask
        BY <1>1, <2>1, <2>3
      <3> QED BY <2>3, <3>2, <3>3
    <2>4. CASE ~(checked(i) < mask)
      <3>1. \A j \in 1..SegmentBits : ~(checked(i) + j <= mask)
        BY <1>1, <2>1, <2>4
      <3> QED BY <2>4, <3>1
    <2> QED BY <2>3, <2>4
  <1> HIDE DEF bitMask, bits
  <1> QED BY <1>2, <1>3

\* Of a list of ranges without stars, single addresses and masks of no bits, an address is
\* let in exactly by the ranges that hold it.
LEMMA PlainMatches ==
    ASSUME NEW r \in RangeShapes, NEW a \in Addresses,
           r.range \in {"v6", "nothing"} \/ (r.range = "v4" /\ r.mask # 0)
    PROVE  Matches(a[1], a[2], r) <=> InRange(a[1], a[2], r)
  <1>0. (a[1] = "v4" /\ a[2] \in V4) \/ (a[1] = "v6" /\ a[2] \in V6)
    BY DEF Addresses
  <1>1. CASE r.range = "v4"
    <2>1. r \in [range : {"v4"}, base : V4, mask : 0..WordBits] /\ r.mask # 0
      BY <1>1 DEF RangeShapes
    <2>2. r.base \in V4 /\ r.mask \in 1..WordBits
      BY <2>1, WidthAssumption
    <2>3. Matches(a[1], a[2], r) <=> a[1] = "v4" /\ isIpv4InCidr(a[2], r.base, r.mask)
      BY <1>1 DEF Matches
    <2>4. InRange(a[1], a[2], r) <=> a[1] = "v4" /\ \A i \in 1..r.mask : a[2][i] = r.base[i]
      BY <1>1 DEF InRange
    <2> QED BY <1>0, <2>2, <2>3, <2>4, Ipv4Range
  <1>2. CASE r.range = "v6"
    <2>1. r \in [range : {"v6"}, base : V6, mask : 0..(Segments * SegmentBits)]
      BY <1>2 DEF RangeShapes
    <2>2. r.base \in V6 /\ r.mask \in 0..(Segments * SegmentBits)
      BY <2>1
    <2>3. Matches(a[1], a[2], r) <=> a[1] = "v6" /\ ipv6MatchesMask(a[2], r.base, r.mask)
      BY <1>2 DEF Matches
    <2>4. InRange(a[1], a[2], r)
            <=> a[1] = "v6" /\ \A i \in 1..Segments, j \in 1..SegmentBits :
                   (i - 1) * SegmentBits + j <= r.mask => a[2][i][j] = r.base[i][j]
      BY <1>2 DEF InRange
    <2> QED BY <1>0, <2>2, <2>3, <2>4, Ipv6Range
  <1>3. CASE r.range = "nothing"
    BY <1>0, <1>3 DEF Matches, InRange
  <1> QED BY <1>1, <1>2, <1>3

-----------------------------------------------------------------------------
(***************************************************************************)
(* What the started server lets in (ServerRequests).                       *)
(***************************************************************************)
ChunkOf(n) ==
    <<"object", [transferId |-> Text(36), chunkIndex |-> Whole(0),
                 data |-> Text(EncodedLength(n)), isLast |-> Flag(TRUE)]>>

\* The text of a chunk of up to the default size is within the limit.
LEMMA EncodedFits ==
    ASSUME NEW n \in 0..DEFAULT_CHUNK_SIZE
    PROVE  EncodedLength(n) \in 0..maxDataLength
  <1>1. DEFAULT_CHUNK_SIZE \in Nat /\ n \in Nat /\ n <= DEFAULT_CHUNK_SIZE
    BY ChunkSizeAssumption
  <1>2. PICK thirds \in Nat : thirds = (n + 2) \div 3 /\ 3 * thirds <= n + 2
    BY <1>1
  <1>3. PICK share \in Nat : /\ share = (DEFAULT_CHUNK_SIZE * 134 + 99) \div 100
                             /\ 100 * share >= DEFAULT_CHUNK_SIZE * 134
    BY <1>1
  <1>4. 4 * thirds <= share + 100
    BY <1>1, <1>2, <1>3
  <1> QED BY <1>2, <1>3, <1>4 DEF EncodedLength, maxDataLength

\* A chunk of up to the default size passes every check of its message.
LEMMA ChunkPasses ==
    ASSUME NEW n \in 0..DEFAULT_CHUNK_SIZE, NEW limit
    PROVE  validate("upload-chunk", ChunkOf(n), limit) # Refused
  <1> DEFINE m == ChunkOf(n)[2]
             checked == [transferId |-> validateTransferId(m),
                         chunkIndex |-> validateRequiredInt(m, "chunkIndex", 0, 1000000),
                         data |-> validateRequiredString(m, "data", 0, maxDataLength),
                         isLast |-> validateRequiredBoolean(m, "isLast")]
  <1>1. /\ Field(m, "transferId") = Text(36)
        /\ Field(m, "chunkIndex") = Whole(0)
        /\ Field(m, "data") = Text(EncodedLength(n))
        /\ Field(m, "isLast") = Flag(TRUE)
    BY DEF Field, ChunkOf, Text, Whole, Flag
  <1> HIDE DEF m
  <1>2. checked.transferId # Refused
    BY <1>1 DEF validateTransferId, validateRequiredString, IsText, Text, Refused
  <1>3. checked.chunkIndex # Refused
    BY <1>1 DEF validateRequiredInt, IsInt, Whole, Refused
  <1>4. checked.data # Refused
    BY <1>1, EncodedFits DEF validateRequiredString, IsText, Text, Refused
  <1>5. checked.isLast # Refused
    BY <1>1 DEF validateRequiredBoolean, Flag, Refused
  <1>6. DOMAIN checked = {"transferId", "chunkIndex", "data", "isLast"}
    OBVIOUS
  <1> HIDE DEF checked
  <1>7. Request(checked) # Refused
    BY <1>2, <1>3, <1>4, <1>5, <1>6 DEF Request, Refused
  <1>8. validate("upload-chunk", ChunkOf(n), limit) = Request(checked)
    <2>1. validate("upload-chunk", ChunkOf(n), limit) = validateSftpUploadChunkRequest(ChunkOf(n))
      BY DEF validate
    <2>2. ChunkOf(n)[1] = "object"
      BY DEF ChunkOf
    <2> QED BY <2>1, <2>2 DEF validateSftpUploadChunkRequest, ensureRecord, checked, m
  <1> QED BY <1>7, <1>8

\* The text of a chunk well above the default size is beyond the limit.
LEMMA EncodedTooLong ==
    ASSUME NEW n \in Nat, 200 * n >= 201 * DEFAULT_CHUNK_SIZE + 15150
    PROVE  EncodedLength(n) \in Int /\ maxDataLength \in Int /\ EncodedLength(n) > maxDataLength
  <1>1. DEFAULT_CHUNK_SIZE \in Nat
    BY ChunkSizeAssumption
  <1>2. PICK thirds \in Nat : thirds = (n + 2) \div 3 /\ 3 * thirds >= n
    BY <1>1
  <1>3. PICK share \in Nat : /\ share = (DEFAULT_CHUNK_SIZE * 134 + 99) \div 100
                             /\ 100 * share <= DEFAULT_CHUNK_SIZE * 134 + 99
    BY <1>1
  <1>4. 4 * thirds > share + 100
    BY <1>1, <1>2, <1>3
  <1> QED BY <1>2, <1>3, <1>4 DEF EncodedLength, maxDataLength

\* Such a chunk is refused.
LEMMA ChunkTooLong ==
    ASSUME NEW n \in Nat, 200 * n >= 201 * DEFAULT_CHUNK_SIZE + 15150, NEW limit
    PROVE  validate("upload-chunk", ChunkOf(n), limit) = Refused
  <1> DEFINE m == ChunkOf(n)[2]
             checked == [transferId |-> validateTransferId(m),
                         chunkIndex |-> validateRequiredInt(m, "chunkIndex", 0, 1000000),
                         data |-> validateRequiredString(m, "data", 0, maxDataLength),
                         isLast |-> validateRequiredBoolean(m, "isLast")]
  <1>1. Field(m, "data") = Text(EncodedLength(n))
    BY DEF Field, ChunkOf, Text, Whole, Flag
  <1> HIDE DEF m
  <1>2. EncodedLength(n) \notin 0..maxDataLength
    BY EncodedTooLong
  <1>3. checked.data = Refused /\ "data" \in DOMAIN checked
    BY <1>1, <1>2 DEF validateRequiredString, IsText, Text
  <1> HIDE DEF checked
  <1>4. Request(checked) = Refused
    BY <1>3 DEF Request
  <1>5. validate("upload-chunk", ChunkOf(n), limit) = Request(checked)
    <2>1. validate("upload-chunk", ChunkOf(n), limit) = validateSftpUploadChunkRequest(ChunkOf(n))
      BY DEF validate
    <2>2. ChunkOf(n)[1] = "object"
      BY DEF ChunkOf
    <2> QED BY <2>1, <2>2 DEF validateSftpUploadChunkRequest, ensureRecord, checked, m
  <1> QED BY <1>4, <1>5

\* The last answer is the one the checks give under the configuration in force, which no
\* longer changes once the server listens.
AnswersHold ==
    /\ asked # <<"none">> => phase = "listening"
    /\ asked[1] = "host" =>
         /\ asked[2] \subseteq Addresses /\ (Ranges = {} => asked[2] = {})
         /\ asked[3] = validateConnectionWithDns(asked[2], Ranges)
    /\ asked[1] = "message" =>
         asked[2] \in FileRequestNames /\ asked[4] = validate(asked[2], asked[3], maxFileSize)
    /\ asked[1] = "chunk" => asked[3] = validate("upload-chunk", ChunkOf(asked[2]), maxFileSize)

\* Every answer of a listening server is the one its checks and its configuration give.
THEOREM ServerAnswers == ServerSpec => []AnswersHold
  <1>1. ServerInit => AnswersHold
    BY DEF ServerInit, AnswersHold
  <1>2. AnswersHold /\ [ServerNext]_serverVars => AnswersHold'
    <2> SUFFICES ASSUME AnswersHold, [ServerNext]_serverVars PROVE AnswersHold'
      OBVIOUS
    <2>1. CASE Start
      <3>1. asked' = asked /\ phase # "listening"
        BY <2>1 DEF Start, ConfigNext, resolveConfigFile, loadEnhancedConfig, createServices,
                    DiskChanges
      <3>2. asked' = <<"none">>
        BY <3>1 DEF AnswersHold
      <3> QED BY <3>2 DEF AnswersHold
    <2>2. CASE validateHost
      <3>1. PICK addresses \in (IF Ranges = {} THEN {{}} ELSE Lookups) :
              asked' = <<"host", addresses, validateConnectionWithDns(addresses, Ranges)>>
        BY <2>2 DEF validateHost
      <3>2. addresses \subseteq Addresses /\ (Ranges = {} => addresses = {})
        BY QuestionsAssumption
      <3>3. phase' = "listening" /\ config' = config
        BY <2>2 DEF validateHost, configVars
      <3>4. Ranges' = Ranges
        BY <3>3 DEF Ranges
      <3> QED BY <3>1, <3>2, <3>3, <3>4 DEF AnswersHold
    <2>3. CASE receiveMessage
      <3>1. PICK m \in Messages :
              asked' = <<"message", m[1], m[2], validate(m[1], m[2], maxFileSize)>>
        BY <2>3 DEF receiveMessage
      <3>2. m[1] \in FileRequestNames
        BY QuestionsAssumption
      <3>3. phase' = "listening" /\ config' = config
        BY <2>3 DEF receiveMessage, configVars
      <3>4. maxFileSize' = maxFileSize
        BY <3>3 DEF maxFileSize
      <3> QED BY <3>1, <3>2, <3>3, <3>4 DEF AnswersHold
    <2>4. CASE receiveChunk
      <3>1. PICK n : asked' = <<"chunk", n, validate("upload-chunk", ChunkOf(n), maxFileSize)>>
        BY <2>4 DEF receiveChunk, ChunkOf
      <3>2. phase' = "listening" /\ config' = config
        BY <2>4 DEF receiveChunk, configVars
      <3>3. maxFileSize' = maxFileSize
        BY <3>2 DEF maxFileSize
      <3> QED BY <3>1, <3>2, <3>3 DEF AnswersHold
    <2>5. CASE UNCHANGED serverVars
      <3>1. asked' = asked /\ phase' = phase /\ config' = config
        BY <2>5 DEF serverVars, configVars
      <3>2. Ranges' = Ranges /\ maxFileSize' = maxFileSize
        BY <3>1 DEF Ranges, maxFileSize
      <3> QED BY <3>1, <3>2 DEF AnswersHold
    <2> QED BY <2>1, <2>2, <2>3, <2>4, <2>5 DEF ServerNext
  <1> QED BY <1>1, <1>2, PTL DEF ServerSpec

\* A host is let in exactly when one of its addresses shares the leading bits of a range,
\* for every width of octets, segments and words (hostname-resolver.ts isIpv4InCidr,
\* ipv6MatchesMask).
THEOREM HostsOfRanges == ServerSpec => []RangesAdmitMembers
  <1>1. AnswersHold => RangesAdmitMembers
    <2> SUFFICES ASSUME AnswersHold, asked[1] = "host", asked[2] # {},
                        \A r \in Ranges : \/ r.range \in {"v6", "nothing"}
                                          \/ r.range = "v4" /\ r.mask # 0
                 PROVE  asked[3] = "allowed"
                          <=> \E a \in asked[2], r \in Ranges : InRange(a[1], a[2], r)
      BY DEF RangesAdmitMembers
    <2>1. asked[2] \subseteq Addresses /\ asked[3] = validateConnectionWithDns(asked[2], Ranges)
      BY DEF AnswersHold
    <2>2. Ranges \subseteq RangeShapes
      BY QuestionsAssumption DEF Ranges, RangeShapes
    <2>3. \A a \in asked[2], r \in Ranges : Matches(a[1], a[2], r) <=> InRange(a[1], a[2], r)
      BY <2>1, <2>2, PlainMatches
    <2>4. Ranges # {}
      BY DEF AnswersHold
    <2> QED BY <2>1, <2>3, <2>4 DEF validateConnectionWithDns, isIpInSubnets
  <1> QED BY <1>1, ServerAnswers, PTL

\* The checks of a file message let through nothing the contract forbids, every chunk of
\* up to the default size, and none that is well above it, whatever size is configured
\* and announced (validation/socket/sftp.ts).
THEOREM ChecksAgree == ServerSpec => []ChecksKeepContract
  <1>1. AnswersHold => ChecksKeepContract
    <2> SUFFICES ASSUME AnswersHold PROVE ChecksKeepContract
      OBVIOUS
    <2>1. AcceptedMeetsContract
      BY AcceptedMeets DEF AcceptedMeetsContract, AnswersHold
    <2>2. ChunkLimitIsDefault
      BY ChunkPasses, ChunkTooLong DEF ChunkLimitIsDefault, AnswersHold
    <2> QED BY <2>1, <2>2 DEF ChecksKeepContract
  <1> QED BY <1>1, ServerAnswers, PTL
=============================================================================
