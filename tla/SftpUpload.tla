----------------------------- MODULE SftpUpload -----------------------------
(***************************************************************************)
(* The uploads of SftpService (app/services/sftp/sftp-service.ts), with    *)
(* the socket handlers that call it                                        *)
(* (app/socket/adapters/service-socket-sftp.ts) and the transfer table.    *)
(*                                                                         *)
(* Every session has one socket.  The browser is sequential, as            *)
(* maxConcurrentChunks: 1 tells it: it sends a chunk when the one before   *)
(* is acknowledged and stops at an error.  Requests that are answered with *)
(* an error and change nothing are left out.                               *)
(***************************************************************************)
EXTENDS TransferManager

VARIABLES
    upload,        \* the promise of startUpload() for each transfer id
    owner,         \* the session that asked, captured by the handler
    handle,        \* the file handle on the SFTP server
    uploadHandles, \* the ids in the map of active handles
    chunk,         \* the chunk of each upload that is under way
    written,       \* chunks that the SFTP server has confirmed
    completed,     \* uploads for which sftp-complete was emitted
    connected      \* sessions whose socket is connected

uploadVars == <<upload, owner, handle, uploadHandles, chunk, written, completed, connected>>
allVars == <<managerVars, uploadVars>>

\* The variables are well typed.
UploadTypeOK ==
    /\ TransferTypeOK
    /\ upload \in [Transfers -> {"idle", "setup", "opening", "late", "started", "failed"}]
    /\ owner \in [Transfers -> Sessions \cup {None}]
    /\ handle \in [Transfers -> {"none", "open", "closed"}]
    /\ uploadHandles \subseteq Transfers
    /\ chunk \in [Transfers -> {"none", "writing", "late", "failed"}]
    /\ written \in [Transfers -> 0 .. MaxChunks]
    /\ completed \subseteq Transfers
    /\ connected \subseteq Sessions

UploadInit ==
    /\ TransferInit
    /\ upload = [t \in Transfers |-> "idle"]
    /\ owner = [t \in Transfers |-> None]
    /\ handle = [t \in Transfers |-> "none"]
    /\ uploadHandles = {}
    /\ chunk = [t \in Transfers |-> "none"]
    /\ written = [t \in Transfers |-> 0]
    /\ completed = {}
    /\ connected = Sessions

-------------------------------------------------------------------------------
\* startUpload() up to its awaits: the SFTP session, the path and the stat.
handleUploadStart(t, s) ==
    /\ upload[t] = "idle" /\ s \in connected
    /\ upload' = [upload EXCEPT ![t] = "setup"]
    /\ owner' = [owner EXCEPT ![t] = s]
    /\ UNCHANGED <<managerVars, handle, uploadHandles, chunk, written, completed, connected>>

\* Every error before the file is opened, the refusal by startTransfer()
\* included, which is the only one when the limit is reached.
StartRefused(t) ==
    /\ upload[t] = "setup"
    /\ upload' = [upload EXCEPT ![t] = "failed"]
    /\ UNCHANGED <<managerVars, owner, handle, uploadHandles, chunk, written, completed, connected>>

\* The transfer is tracked, the file is asked for and the timer is armed.
StartTracked(t) ==
    /\ upload[t] = "setup"
    /\ startTransfer(t, owner[t])
    /\ upload' = [upload EXCEPT ![t] = "opening"]
    /\ UNCHANGED <<owner, handle, uploadHandles, chunk, written, completed, connected>>

\* Seeded fault: the timer does not settle the promise.
StartTimeoutSilent(t) ==
    /\ upload[t] = "opening"
    /\ cancelTransfer(t)
    /\ UNCHANGED uploadVars

\* The timer: the transfer is given up, sftp.open() is still to answer.
StartTimeout(t) ==
    /\ upload[t] = "opening"
    /\ cancelTransfer(t)
    /\ upload' = [upload EXCEPT ![t] = "late"]
    /\ UNCHANGED <<owner, handle, uploadHandles, chunk, written, completed, connected>>

OpenFails(t) ==
    /\ upload[t] \in {"opening", "late"}
    /\ cancelTransfer(t)
    /\ upload' = [upload EXCEPT ![t] = "failed"]
    /\ UNCHANGED <<owner, handle, uploadHandles, chunk, written, completed, connected>>

\* The handle is stored whether or not the timer has fired; the result of
\* activateTransfer() is not looked at.
OpenOk(t) ==
    /\ upload[t] \in {"opening", "late"}
    /\ handle' = [handle EXCEPT ![t] = "open"]
    /\ uploadHandles' = uploadHandles \cup {t}
    /\ IF transfers[t] = "pending" THEN activateTransfer(t) ELSE UNCHANGED managerVars
    /\ upload' = [upload EXCEPT ![t] = IF upload[t] = "opening" THEN "started" ELSE "failed"]
    /\ UNCHANGED <<owner, chunk, written, completed, connected>>

\* Seeded fault: the entry is deleted and the file stays open.
closeUploadForgets(t) ==
    /\ uploadHandles' = uploadHandles \ {t}
    /\ UNCHANGED handle

closeUpload(t) ==
    /\ handle' = IF t \in uploadHandles THEN [handle EXCEPT ![t] = "closed"] ELSE handle
    /\ uploadHandles' = uploadHandles \ {t}

-------------------------------------------------------------------------------
\* processUploadChunk() up to the sftp.write(): the progress is counted before
\* the chunk is written.
processUploadChunk(t) ==
    /\ t \in uploadHandles
    /\ updateProgress(t, written[t])
    /\ chunk' = [chunk EXCEPT ![t] = "writing"]

handleUploadChunk(t, s) ==
    /\ s \in connected /\ verifyOwnership(t, s)
    /\ upload[t] = "started" /\ chunk[t] = "none" /\ written[t] < MaxChunks
    /\ processUploadChunk(t)
    /\ UNCHANGED <<upload, owner, handle, uploadHandles, written, completed, connected>>

\* The browser gets an error; the write goes on.
WriteTimeout(t) ==
    /\ chunk[t] = "writing"
    /\ chunk' = [chunk EXCEPT ![t] = "late"]
    /\ UNCHANGED <<managerVars, upload, owner, handle, uploadHandles, written, completed, connected>>

\* The handle is closed and the transfer stays.
WriteFails(t) ==
    /\ chunk[t] \in {"writing", "late"}
    /\ closeUpload(t)
    /\ chunk' = [chunk EXCEPT ![t] = "failed"]
    /\ UNCHANGED <<managerVars, upload, owner, written, completed, connected>>

\* Seeded fault: the upload is complete when the last chunk but one is.
isLastEarly(t) == written[t] = MaxChunks - 2

isLast(t) == written[t] = MaxChunks - 1

\* A chunk is written.  After the last one the file is closed, and if the
\* promise was still pending handleUploadChunk() completes the upload.
WriteOk(t) ==
    /\ chunk[t] \in {"writing", "late"}
    /\ written' = [written EXCEPT ![t] = @ + 1]
    /\ chunk' = [chunk EXCEPT ![t] = IF chunk[t] = "writing" THEN "none" ELSE "failed"]
    /\ IF isLast(t) THEN closeUpload(t) ELSE UNCHANGED <<handle, uploadHandles>>
    /\ IF isLast(t) /\ chunk[t] = "writing" /\ transfers[t] # "absent"
       THEN completeTransfer(t) /\ completed' = completed \cup {t}
       ELSE UNCHANGED <<managerVars, completed>>
    /\ UNCHANGED <<upload, owner, connected>>

cancelUpload(t) == closeUpload(t) /\ cancelTransfer(t)

\* Silent unless the session owns the transfer.
handleUploadCancel(t, s) ==
    /\ s \in connected /\ verifyOwnership(t, s)
    /\ upload[t] = "started"
    /\ cancelUpload(t)
    /\ UNCHANGED <<upload, owner, chunk, written, completed, connected>>

\* handleDisconnect() of the adapter: the control handler has set the ids to
\* null, so the SFTP handler finds none and cleans nothing up.
Disconnect(s) ==
    /\ s \in connected
    /\ connected' = connected \ {s}
    /\ UNCHANGED <<managerVars, upload, owner, handle, uploadHandles, chunk, written, completed>>

-------------------------------------------------------------------------------
\* What SftpService does by itself or when the SFTP server answers.
ServerStep(t) ==
    \/ StartRefused(t) \/ StartTracked(t)
    \/ StartTimeout(t) \/ OpenFails(t) \/ OpenOk(t)
    \/ WriteTimeout(t) \/ WriteFails(t) \/ WriteOk(t)

UploadNext ==
    \/ \E t \in Transfers, s \in Sessions :
          handleUploadStart(t, s) \/ handleUploadChunk(t, s) \/ handleUploadCancel(t, s)
    \/ \E t \in Transfers : ServerStep(t)
    \/ \E s \in Sessions : Disconnect(s)

\* The setup is bounded by the timers of the SFTP session, and Node fires the
\* timers of startUpload() and processUploadChunk().
UploadFairness ==
    \A t \in Transfers :
        /\ WF_allVars(StartRefused(t) \/ StartTracked(t))
        /\ WF_allVars(StartTimeout(t))
        /\ WF_allVars(WriteTimeout(t))

UploadSpec == UploadInit /\ [][UploadNext]_allVars
FairUploadSpec == UploadSpec /\ UploadFairness

-------------------------------------------------------------------------------
\* The map of handles and the files that are open on the server agree: no
\* open file is forgotten, and no handle is used after it was closed.
HandlesTracked == \A t \in Transfers : (handle[t] = "open") = (t \in uploadHandles)

\* sftp-complete is emitted only for a file that was written to its last
\* chunk and closed, and whose transfer is gone.
CompleteIsWritten ==
    \A t \in completed :
        written[t] = MaxChunks /\ handle[t] = "closed" /\ transfers[t] = "absent"

\* As long as the transfer exists, the chunk that is being written goes to
\* the offset where the confirmed chunks end, and without one nothing is
\* counted that was not written, except after a failed write.
OffsetFollowsWritten ==
    \A t \in Transfers : transfers[t] = "active" =>
        /\ chunk[t] \in {"writing", "late"} => nextChunkIndex[t] = written[t] + 1
        /\ chunk[t] = "none" => nextChunkIndex[t] = written[t]

\* startUpload() is answered, and so is every chunk that was accepted, even if
\* the SFTP server never says a word.
UploadAnswered ==
    \A t \in Transfers :
        /\ upload[t] = "setup" ~> upload[t] \in {"late", "started", "failed"}
        /\ chunk[t] = "writing" ~> chunk[t] # "writing"

\* The uploads of session s that occupy the SFTP server: the file is being opened
\* for a caller who waits, or it is open for an upload that has started.
uploading(s) ==
    {t \in Transfers :
        /\ owner[t] = s
        /\ upload[t] = "opening" \/ (upload[t] = "started" /\ handle[t] = "open")}

\* "enforcing concurrent limits": counted by what runs and not by the table, a
\* session never has more than maxConcurrentTransfers uploads under way, whatever
\* starts, ends, cancels and disconnects come between the look at the count and
\* the answer of the open.  An upload whose start timed out is not counted: its
\* open may still be under way, or may have left a file open after the table
\* dropped the transfer.
UploadsWithinLimit == \A s \in Sessions : Cardinality(uploading(s)) <= MaxConcurrent

=============================================================================
