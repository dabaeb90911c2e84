----------------------------- MODULE ShellFiles -----------------------------
(***************************************************************************)
(* The backend for hosts without the SFTP subsystem,                       *)
(* app/services/sftp/shell-file-service.ts: ls, echo and cat through       *)
(* client.exec(), with the handlers of                                     *)
(* app/socket/adapters/service-socket-sftp.ts that call it.                *)
(*                                                                         *)
(* A job is a request of the browser.  A command that executeCommand()     *)
(* runs only reads, and its late end has no caller, so that it is one step *)
(* with its outcome; the two uses of cat are streams of their own.  Data   *)
(* is counted in units of which chunkSize make a chunk.                    *)
(***************************************************************************)
EXTENDS FileRequests, TransferManager

CONSTANTS
    Owner,            \* the session of the socket
    chunkSize,        \* config.chunkSize
    fileSize,         \* the size of the file that is downloaded
    MaxMessages       \* bound: the chunk messages of the browser, per upload

ASSUME ShellAssumption ==
    /\ Owner \in Sessions /\ chunkSize \in Nat \ {0} /\ fileSize \in Nat /\ MaxMessages \in Nat

VARIABLES
    homeDir,          \* the entry of the sessions map: "absent", "null" or "cached"
    job,              \* Transfer -> [kind, tilde, overwrite, stage]
    uploadStreams,    \* the transfers in the map
    stream,           \* Transfer -> the stream to cat: "none", "open", "ended", "destroyed"
    writes,           \* Transfer -> chunks whose write callback is pending, in order
    written,          \* Transfer -> chunks the channel has taken, in order
    messages,         \* Transfer -> chunk messages handled so far
    downloadStates,   \* the transfers in the map
    cancelled,        \* transfers whose DownloadState says so
    output,           \* Transfer -> units cat has still to write
    buffer,           \* Transfer -> units not yet emitted
    sent,             \* Transfer -> the chunks emitted, in order
    told              \* Transfer -> the answers, in order

shellVars == <<homeDir, job, uploadStreams, stream, writes, written, messages, downloadStates,
               cancelled, output, buffer, sent, told>>

ShellInit ==
    /\ homeDir = "absent" /\ uploadStreams = {} /\ downloadStates = {} /\ cancelled = {}
    /\ job = [t \in Transfers |->
                 [kind |-> "list", tilde |-> FALSE, overwrite |-> FALSE, stage |-> "new"]]
    /\ stream = [t \in Transfers |-> "none"]
    /\ writes = [t \in Transfers |-> << >>] /\ written = [t \in Transfers |-> << >>]
    /\ messages = [t \in Transfers |-> 0] /\ output = [t \in Transfers |-> 0]
    /\ buffer = [t \in Transfers |-> 0]
    /\ sent = [t \in Transfers |-> << >>] /\ told = [t \in Transfers |-> << >>]

streamVars == <<uploadStreams, stream, writes, written, messages>>
catVars == <<downloadStates, cancelled, output, buffer, sent>>

-------------------------------------------------------------------------------
ShellKinds == {"list", "stat", "mkdir", "delete", "upload", "download"}

\* client.exec() of ssh2 throws when it cannot write to the socket of the connection.  The
\* executor of a promise calls it, so that the promise rejects; nobody handles that.
execThrows == ssh # "up"

\* exec() is called, and the job waits for its stream or its end.
exec(t, rec, stage) ==
    job' = [job EXCEPT ![t] = [rec EXCEPT !.stage = IF execThrows THEN "thrown" ELSE stage]]

\* A rejection that nobody handles ends the process (external: Node, without options).
unhandledRejection == \E t \in Transfers : job[t].stage = "thrown"

tell(t, code) == told' = [told EXCEPT ![t] = Append(@, code)]

\* The job is over: what is known of its path is of no use any more.
over(t) == job' = [job EXCEPT ![t].stage = "over", ![t].tilde = FALSE, ![t].overwrite = FALSE]

\* The handler answers and is done.
answers(t, code) == tell(t, code) /\ over(t)

\* startUpload() after the look for an existing file: the entry in the table of
\* transfers, then cat with a timer.
startCat(t, rec) ==
    \/ /\ startTransfer(t, Owner)
       /\ exec(t, [rec EXCEPT !.tilde = FALSE, !.overwrite = FALSE], "cat") /\ UNCHANGED told
    \/ /\ ~(getActiveCount(Owner) < MaxConcurrent /\ transfers[t] = "absent")
       /\ answers(t, "SFTP_MAX_TRANSFERS") /\ UNCHANGED managerVars

\* What the operation does once its path is known.
afterSetup(t, rec) ==
    IF rec.kind = "upload" /\ rec.overwrite THEN startCat(t, rec)
    ELSE exec(t, rec, "ls") /\ UNCHANGED <<told, managerVars>>

\* setupOperation(): the checks, the client, ensureSession() and resolveTildePath(), which
\* runs echo ~ unless the home directory is known.
shellSetupOperation(t, rec) ==
    /\ homeDir' = IF homeDir = "absent" THEN "null" ELSE homeDir
    /\ IF rec.tilde /\ homeDir # "cached"
       THEN exec(t, rec, "echo") /\ UNCHANGED <<told, managerVars>>
       ELSE afterSetup(t, rec)

\* The handlers, with the checks of validateUploadPreFlight() for an upload; mkdir() and
\* delete() are not supported.
shellRefusal(kind, path, tooLarge) ==
    LET checks == validateOperationPreconditions(path, kind \in {"upload", "download"})
    IN IF handlerRefusal(path) # "ok" THEN handlerRefusal(path)
       ELSE IF kind \in {"mkdir", "delete"} THEN "SFTP_INVALID_REQUEST"
       ELSE IF kind = "upload" /\ tooLarge THEN "SFTP_FILE_TOO_LARGE"
       ELSE IF checks # "ok" THEN checks
       ELSE IF ~getSSHClient THEN "SFTP_NO_CONNECTION"
       ELSE "ok"

shellRequest(t, kind, path, overwrite, tooLarge) ==
    LET rec == [kind |-> kind, tilde |-> isTilde(path), overwrite |-> overwrite, stage |-> "new"]
        refusal == shellRefusal(kind, path, tooLarge)
    IN /\ browser = "connected" /\ job[t].stage = "new"
       /\ IF refusal # "ok"
          THEN answers(t, refusal) /\ UNCHANGED <<homeDir, managerVars>>
          ELSE shellSetupOperation(t, rec)
       /\ UNCHANGED <<requestVars, streamVars, catVars>>

-------------------------------------------------------------------------------
\* executeCommand() from exec() on: exit code 0, another code or an error that exec() or the
\* stream reports (mapCommandError(), mapExecError()), or the timer.
Outcomes == {"ok", "SFTP_NOT_FOUND", "SFTP_PERMISSION_DENIED", "SFTP_SESSION_ERROR", "SFTP_TIMEOUT"}

\* echo ~ ends; a home that is not an absolute path counts as an error of the session.
echoEnds(t, outcome) ==
    /\ job[t].stage = "echo"
    /\ IF outcome = "ok"
       THEN /\ homeDir' = "cached"
            /\ afterSetup(t, job[t])
       ELSE answers(t, outcome) /\ UNCHANGED <<homeDir, managerVars>>
    /\ UNCHANGED <<requestVars, streamVars, catVars>>

\* The transfer is made and active at once, the browser told, and the stream of cat asked
\* for with the path of the request.  Without a client the answer is an error, and the
\* transfer stays.
validateAndStartDownload(t) ==
    \/ /\ getActiveCount(Owner) < MaxConcurrent /\ transfers[t] = "absent"
       /\ transfers' = [transfers EXCEPT ![t] = "active"]
       /\ transferSession' = [transferSession EXCEPT ![t] = Owner]
       /\ nextChunkIndex' = [nextChunkIndex EXCEPT ![t] = 0]
       /\ IF getSSHClient
          THEN /\ tell(t, "ready") /\ exec(t, [job[t] EXCEPT !.overwrite = FALSE], "catting")
               /\ downloadStates' = downloadStates \cup {t}
          ELSE /\ told' = [told EXCEPT ![t] = @ \o <<"ready", "SFTP_NO_CONNECTION">>]
               /\ over(t) /\ UNCHANGED downloadStates
    \/ /\ ~(getActiveCount(Owner) < MaxConcurrent /\ transfers[t] = "absent")
       /\ answers(t, "SFTP_MAX_TRANSFERS") /\ UNCHANGED <<managerVars, downloadStates>>

\* ls ends: the answer of list and stat; for an upload any error, a timeout too, counts as
\* "not there"; for a download the entry must be a file and not too large.
lsEnds(t, outcome) ==
    /\ job[t].stage = "ls"
    /\ CASE job[t].kind \in {"list", "stat"} ->
              /\ answers(t, outcome)
              /\ UNCHANGED <<managerVars, downloadStates>>
         [] job[t].kind = "upload" ->
              /\ IF outcome = "ok" THEN answers(t, "SFTP_ALREADY_EXISTS") /\ UNCHANGED managerVars
                 ELSE startCat(t, job[t])
              /\ UNCHANGED downloadStates
         [] OTHER ->
              IF outcome = "ok" THEN validateAndStartDownload(t)
              ELSE answers(t, outcome) /\ UNCHANGED <<managerVars, downloadStates>>
    /\ UNCHANGED <<requestVars, homeDir, streamVars, cancelled, output, buffer, sent>>

\* An entry that cannot be parsed, is no file, or is too large.
entryRefused(t) ==
    /\ job[t].stage = "ls" /\ job[t].kind \in {"stat", "download"}
    /\ answers(t, "SFTP_INVALID_REQUEST")
    /\ UNCHANGED <<requestVars, managerVars, homeDir, streamVars, catVars>>

-------------------------------------------------------------------------------
(* Uploads: startUpload() from exec() on, processUploadChunk(), completeUpload() *)

\* exec() gives the stream, perhaps after the timer: it is stored, and the transfer
\* activated if it is still there.
catStarts(t) ==
    /\ job[t].stage \in {"cat", "catLate"}
    /\ uploadStreams' = uploadStreams \cup {t} /\ stream' = [stream EXCEPT ![t] = "open"]
    /\ IF transfers[t] = "pending" THEN activateTransfer(t) ELSE UNCHANGED managerVars
    /\ job' = [job EXCEPT ![t].stage = IF @ = "cat" THEN "uploading" ELSE "over"]
    /\ IF job[t].stage = "cat" THEN tell(t, "ready") ELSE UNCHANGED told
    /\ UNCHANGED <<requestVars, homeDir, writes, written, messages, catVars>>

\* exec() reports an error.
catFails(t) ==
    /\ job[t].stage \in {"cat", "catLate"}
    /\ cancelTransfer(t)
    /\ over(t)
    /\ IF job[t].stage = "cat" THEN tell(t, "SFTP_PERMISSION_DENIED") ELSE UNCHANGED told
    /\ UNCHANGED <<requestVars, homeDir, streamVars, catVars>>

\* The timer of startUpload().
catTimeout(t) ==
    /\ job[t].stage = "cat"
    /\ cancelTransfer(t)
    /\ job' = [job EXCEPT ![t].stage = "catLate"] /\ tell(t, "SFTP_TIMEOUT")
    /\ UNCHANGED <<requestVars, homeDir, streamVars, catVars>>

\* Seeded fault: the chunk is written whatever its number.
chunkAcceptedAny(t, i) ==
    /\ verifyOwnership(t, Owner) /\ t \in uploadStreams /\ transfers[t] = "active"

\* handleUploadChunk() and processUploadChunk() up to the write: the transfer is the
\* session's, its stream is there, and the chunk is the next one.
chunkAccepted(t, i) ==
    /\ verifyOwnership(t, Owner) /\ t \in uploadStreams
    /\ transfers[t] = "active" /\ i = nextChunkIndex[t]

uploadChunk(t, i, isLast) ==
    /\ browser = "connected" /\ job[t].stage = "uploading" /\ messages[t] < MaxMessages
    /\ messages' = [messages EXCEPT ![t] = @ + 1]
    /\ IF chunkAccepted(t, i)
       THEN /\ nextChunkIndex' = [nextChunkIndex EXCEPT ![t] = @ + 1]
            /\ writes' = [writes EXCEPT ![t] = Append(@, [index |-> i, last |-> isLast])]
            /\ UNCHANGED <<transfers, transferSession, told>>
       ELSE tell(t, "SFTP_CHUNK_ERROR") /\ UNCHANGED <<managerVars, writes>>
    /\ UNCHANGED <<requestVars, homeDir, job, uploadStreams, stream, written, catVars>>

cleanupUpload(t) ==
    /\ stream' = [stream EXCEPT ![t] = IF t \in uploadStreams THEN "destroyed" ELSE @]
    /\ uploadStreams' = uploadStreams \ {t}

\* The write callback: after the last chunk the stream is ended and out of the map, and
\* handleUploadChunk() completes the transfer if it is still there.
writeDone(t) ==
    /\ writes[t] # << >> /\ stream[t] # "destroyed"
    /\ LET chunk == Head(writes[t]) IN
       /\ writes' = [writes EXCEPT ![t] = Tail(@)]
       /\ written' = [written EXCEPT ![t] = Append(@, chunk)]
       /\ IF chunk.last
          THEN /\ stream' = [stream EXCEPT ![t] = "ended"] /\ uploadStreams' = uploadStreams \ {t}
               /\ deleteTransfers({t})
               /\ told' = [told EXCEPT ![t] =
                     @ \o IF transfers[t] = "absent" THEN <<"ack">> ELSE <<"ack", "complete">>]
          ELSE /\ tell(t, "ack") /\ UNCHANGED <<stream, uploadStreams, managerVars>>
    /\ UNCHANGED <<requestVars, homeDir, job, messages, catVars>>

\* The write fails, or the stream was destroyed under it; the transfer stays in the table.
writeFails(t) ==
    /\ writes[t] # << >> /\ stream[t] # "ended"
    /\ writes' = [writes EXCEPT ![t] = Tail(@)]
    /\ cleanupUpload(t) /\ tell(t, "SFTP_CHUNK_ERROR")
    /\ UNCHANGED <<requestVars, managerVars, homeDir, job, written, messages, catVars>>

\* handleUploadCancel() and cancelUpload().
cancelUpload(t) ==
    /\ browser = "connected" /\ job[t].kind = "upload" /\ verifyOwnership(t, Owner)
    /\ cleanupUpload(t) /\ cancelTransfer(t)
    /\ UNCHANGED <<requestVars, homeDir, job, writes, written, messages, catVars, told>>

-------------------------------------------------------------------------------
(* Downloads: streamDownloadChunks() *)

\* exec() answers.  cat writes the file, or nothing: it cannot read it, or its path still
\* has the ~, which the quotes keep from being expanded.
catStreams(t) ==
    /\ job[t].stage = "catting"
    /\ job' = [job EXCEPT ![t].stage = "streaming"]
    /\ \E size \in {0, fileSize} :
          (job[t].tilde => size = 0) /\ output' = [output EXCEPT ![t] = size]
    /\ UNCHANGED <<requestVars, managerVars, homeDir, streamVars, downloadStates, cancelled, buffer,
                   sent, told>>

\* exec() or the stream reports an error: the browser hears of it unless it has
\* cancelled; exec() does not look at that.
streamFails(t) ==
    /\ job[t].stage \in {"catting", "streaming"}
    /\ over(t)
    /\ IF job[t].stage = "streaming" /\ t \in cancelled
       THEN UNCHANGED <<managerVars, downloadStates, told>>
       ELSE /\ downloadStates' = downloadStates \ {t}
            /\ cancelTransfer(t) /\ tell(t, "SFTP_CHUNK_ERROR")
    /\ UNCHANGED <<requestVars, homeDir, streamVars, cancelled, output, buffer, sent>>

\* emitChunk() for a number of chunks: the progress counts only while there is a transfer.
emitChunks(t, sizes, last) ==
    /\ sent' = [sent EXCEPT ![t] =
          @ \o [k \in 1 .. Len(sizes) |-> [size |-> sizes[k], last |-> last]]]
    /\ nextChunkIndex' = [nextChunkIndex EXCEPT ![t] =
          IF transfers[t] = "active" /\ Len(sent[t]) = @ THEN @ + Len(sizes) ELSE @]

\* The data listener: a cancelled download destroys the stream, and nobody hears of it again.
catData(t, n) ==
    /\ job[t].stage = "streaming"
    /\ output' = [output EXCEPT ![t] = @ - n]
    /\ IF t \in cancelled
       THEN /\ over(t)
            /\ UNCHANGED <<buffer, sent, nextChunkIndex>>
       ELSE /\ LET all == buffer[t] + n IN
               /\ buffer' = [buffer EXCEPT ![t] = all % chunkSize]
               /\ emitChunks(t, [k \in 1 .. all \div chunkSize |-> chunkSize], FALSE)
            /\ UNCHANGED job
    /\ UNCHANGED <<requestVars, transfers, transferSession, homeDir, streamVars, downloadStates,
                   cancelled, told>>

\* The end listener: the rest is the last chunk, empty if there is none, and the transfer
\* is complete if it is still there.  The exit code of cat is not looked at.
catEnd(t) ==
    /\ job[t].stage = "streaming" /\ output[t] = 0
    /\ over(t)
    /\ IF t \in cancelled
       THEN UNCHANGED <<managerVars, downloadStates, buffer, sent, told>>
       ELSE /\ sent' = [sent EXCEPT ![t] = Append(@, [size |-> buffer[t], last |-> TRUE])]
            /\ buffer' = [buffer EXCEPT ![t] = 0]
            /\ downloadStates' = downloadStates \ {t}
            /\ deleteTransfers({t})
            /\ IF transfers[t] = "absent" THEN UNCHANGED told ELSE tell(t, "complete")
    /\ UNCHANGED <<requestVars, homeDir, streamVars, cancelled, output>>

\* handleDownloadCancel() and cancelDownload().
cancelDownload(t) ==
    /\ browser = "connected" /\ job[t].kind = "download" /\ verifyOwnership(t, Owner)
    /\ cancelled' = cancelled \cup (downloadStates \cap {t})
    /\ downloadStates' = downloadStates \ {t}
    /\ cancelTransfer(t)
    /\ UNCHANGED <<requestVars, homeDir, job, streamVars, output, buffer, sent, told>>

-------------------------------------------------------------------------------
ShellNext ==
    /\ ~unhandledRejection
    /\ \/ \E t \in Transfers :
             \/ \E kind \in ShellKinds, path \in Paths, overwrite, tooLarge \in BOOLEAN :
                   shellRequest(t, kind, path, overwrite, tooLarge)
             \/ \E outcome \in Outcomes : echoEnds(t, outcome) \/ lsEnds(t, outcome)
             \/ entryRefused(t)
             \/ catStarts(t) \/ catFails(t) \/ catTimeout(t)
             \/ \E i \in 0 .. MaxChunks - 1, isLast \in BOOLEAN : uploadChunk(t, i, isLast)
             \/ writeDone(t) \/ writeFails(t) \/ cancelUpload(t)
             \/ catStreams(t) \/ streamFails(t) \/ catEnd(t) \/ cancelDownload(t)
             \/ \E n \in 1 .. output[t] : catData(t, n)
       \/ /\ sshConnects \/ handleDisconnect \/ hostCloses \/ connectionLost
          /\ UNCHANGED <<managerVars, shellVars>>

\* A promise of the service that a timer guards.
ShellWaiting == {"echo", "ls", "cat"}

\* The timers of executeCommand() and startUpload(), as long as the process runs.
ShellFairness ==
    \A t \in Transfers :
       WF_shellVars(/\ ~unhandledRejection
                    /\ echoEnds(t, "SFTP_TIMEOUT") \/ lsEnds(t, "SFTP_TIMEOUT") \/ catTimeout(t))

-------------------------------------------------------------------------------
answersOf(t, code) == {k \in 1 .. Len(told[t]) : told[t][k] = code}

\* An upload is never told complete unless the channel to cat has taken the chunks 0, 1, ...
\* up to the last one, in order, whatever the browser sends twice or out of order and
\* whichever write fails; and a stream that is open can still be found and destroyed.
ShellUploadWhole ==
    \A t \in Transfers :
       LET w == written[t] IN
       /\ \A k \in 1 .. Len(w) : w[k].index = k - 1
       /\ (job[t].kind = "upload" /\ answersOf(t, "complete") # {}) => \E k \in 1 .. Len(w) : w[k].last
       /\ Cardinality(answersOf(t, "complete")) <= 1
       /\ (stream[t] = "open") = (t \in uploadStreams)

=============================================================================
