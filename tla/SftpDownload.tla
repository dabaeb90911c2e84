---------------------------- MODULE SftpDownload ----------------------------
(***************************************************************************)
(* One download through SftpService: startDownload() and the parallel read *)
(* loop of streamDownloadChunks() (app/services/sftp/sftp-service.ts),     *)
(* with the socket handlers that call them                                 *)
(* (app/socket/adapters/service-socket-sftp.ts).                           *)
(*                                                                         *)
(* Chunk numbers stand for the data, however many bytes a read gave.  A    *)
(* step is one callback: an answer of the SFTP server, the end of an       *)
(* awaited drain, or a message of the browser.  When the socket is not     *)
(* congested the wait for the drain is empty, and Drained follows the emit *)
(* at once; the order of all others is arbitrary.                          *)
(***************************************************************************)
EXTENDS TransferManager, Sequences

CONSTANTS
    Self,            \* the transfer id that generateTransferId() returned
    Owner,           \* the session that asks
    totalChunks,     \* Math.ceil(fileSize / chunkSize)
    concurrency      \* SFTP_DEFAULTS.DOWNLOAD_CONCURRENCY

ASSUME DownloadAssumption ==
    /\ Self \in Transfers /\ Owner \in Sessions
    /\ totalChunks \in Nat /\ concurrency \in Nat \ {0}

VARIABLES
    phase,           \* where startDownload() and streamDownloadChunks() are
    reads,           \* chunks whose sftp.read() has not answered
    nextChunkToRead,
    chunkBuffer,     \* chunks read and not yet emitted
    nextChunkToEmit,
    isEmitting,      \* emitBufferedChunks() awaits onChunk()
    hasError,
    cancelled,       \* downloadState.cancelled, the flag the loop looks at
    downloadStreams, \* the entry in the map: "none", "running" or "cancelled"
    fileHandle,
    sent,            \* the chunks emitted to the browser, in order
    answers          \* onComplete and onError calls, in order

loopVars == <<phase, reads, nextChunkToRead, chunkBuffer, nextChunkToEmit, isEmitting,
              hasError, cancelled, downloadStreams, fileHandle, sent, answers>>

downloadVars == <<managerVars, loopVars>>

Chunks == 0 .. totalChunks - 1

\* The variables are well typed.
DownloadTypeOK ==
    /\ TransferTypeOK
    /\ phase \in {"idle", "setup", "opening", "streaming", "ended"}
    /\ reads \subseteq Chunks /\ chunkBuffer \subseteq Chunks
    /\ nextChunkToRead \in 0 .. totalChunks /\ nextChunkToEmit \in 0 .. totalChunks
    /\ isEmitting \in BOOLEAN /\ hasError \in BOOLEAN /\ cancelled \in BOOLEAN
    /\ downloadStreams \in {"none", "running", "cancelled"}
    /\ fileHandle \in {"none", "open", "closed"}
    /\ sent \in Seq(Chunks) /\ answers \in Seq({"complete", "error"})

DownloadInit ==
    /\ TransferInit
    /\ phase = "idle"
    /\ reads = {} /\ chunkBuffer = {}
    /\ nextChunkToRead = 0 /\ nextChunkToEmit = 0
    /\ isEmitting = FALSE /\ hasError = FALSE /\ cancelled = FALSE
    /\ downloadStreams = "none" /\ fileHandle = "none"
    /\ sent = << >> /\ answers = << >>

-------------------------------------------------------------------------------
\* handleDownloadStart() up to the awaits of setupOperation() and stat().
handleDownloadStart ==
    /\ phase = "idle"
    /\ phase' = "setup"
    /\ UNCHANGED <<managerVars, reads, nextChunkToRead, chunkBuffer, nextChunkToEmit, isEmitting,
                   hasError, cancelled, downloadStreams, fileHandle, sent, answers>>

\* No session, no such file, not a file, too large, or too many transfers.
StartFails ==
    /\ phase = "setup"
    /\ phase' = "ended"
    /\ answers' = Append(answers, "error")
    /\ UNCHANGED <<managerVars, reads, nextChunkToRead, chunkBuffer, nextChunkToEmit, isEmitting,
                   hasError, cancelled, downloadStreams, fileHandle, sent>>

\* validateAndStartDownload() starts and activates the transfer;
\* streamDownloadChunks() registers the download and asks for the file.
StartDownload ==
    /\ phase = "setup"
    /\ getActiveCount(Owner) < MaxConcurrent
    /\ transfers[Self] = "absent"
    /\ transfers' = [transfers EXCEPT ![Self] = "active"]
    /\ transferSession' = [transferSession EXCEPT ![Self] = Owner]
    /\ nextChunkIndex' = [nextChunkIndex EXCEPT ![Self] = 0]
    /\ phase' = "opening"
    /\ downloadStreams' = "running"
    /\ UNCHANGED <<reads, nextChunkToRead, chunkBuffer, nextChunkToEmit, isEmitting,
                   hasError, cancelled, fileHandle, sent, answers>>

\* The entry in downloadStreams stays.
FileOpenFails ==
    /\ phase = "opening"
    /\ cancelTransfer(Self)
    /\ phase' = "ended"
    /\ answers' = Append(answers, "error")
    /\ UNCHANGED <<reads, nextChunkToRead, chunkBuffer, nextChunkToEmit, isEmitting,
                   hasError, cancelled, downloadStreams, fileHandle, sent>>

cleanup ==
    /\ downloadStreams' = "none"
    /\ fileHandle' = "closed"

initialReads == IF concurrency < totalChunks THEN concurrency ELSE totalChunks

\* The flag is copied from the entry; without an entry it stays as it was.
FileOpened ==
    /\ phase = "opening"
    /\ cancelled' = (IF downloadStreams = "none" THEN cancelled ELSE downloadStreams = "cancelled")
    /\ IF cancelled'
       THEN /\ cleanup
            /\ phase' = "ended"
            /\ UNCHANGED <<reads, nextChunkToRead>>
       ELSE /\ fileHandle' = "open"
            /\ phase' = "streaming"
            /\ nextChunkToRead' = initialReads
            /\ reads' = 0 .. initialReads - 1
            /\ UNCHANGED downloadStreams
    /\ UNCHANGED <<managerVars, chunkBuffer, nextChunkToEmit, isEmitting,
                   hasError, sent, answers>>

-------------------------------------------------------------------------------
\* The head of the loop in emitBufferedChunks(): with the chunks of buffer
\* stored, chunk k is emitted if it is there; if not the loop ends.
emitNext(buffer, k) ==
    IF k \in buffer
    THEN /\ chunkBuffer' = buffer \ {k}
         /\ sent' = Append(sent, k)
         /\ isEmitting' = TRUE
         /\ IF transfers[Self] = "active" /\ nextChunkIndex[Self] = k
            THEN updateProgress(Self, k)
            ELSE UNCHANGED managerVars
    ELSE /\ chunkBuffer' = buffer
         /\ isEmitting' = FALSE
         /\ UNCHANGED <<managerVars, sent>>

\* readChunk() for the next chunk, if there is one, once i is answered.
readNext(i) ==
    IF nextChunkToRead < totalChunks
    THEN /\ nextChunkToRead' = nextChunkToRead + 1
         /\ reads' = (reads \ {i}) \cup (IF fileHandle = "open" THEN {nextChunkToRead} ELSE {})
    ELSE /\ reads' = reads \ {i}
         /\ UNCHANGED nextChunkToRead

\* Seeded fault: the chunk is emitted when it arrives.
ReadDoneUnordered(i) ==
    /\ i \in reads /\ ~hasError /\ ~cancelled
    /\ readNext(i)
    /\ emitNext(chunkBuffer \cup {i}, i)
    /\ UNCHANGED <<phase, nextChunkToEmit, hasError, cancelled, downloadStreams,
                   fileHandle, answers>>

\* The server answers a read.  It may give fewer bytes than were asked for, and at the end
\* of a file that has shrunk none: what it gave is the chunk, nothing is read again.
ReadDone(i) ==
    /\ i \in reads /\ ~hasError /\ ~cancelled
    /\ readNext(i)
    /\ IF isEmitting
       THEN /\ chunkBuffer' = chunkBuffer \cup {i}
            /\ UNCHANGED <<managerVars, sent, isEmitting>>
       ELSE emitNext(chunkBuffer \cup {i}, nextChunkToEmit)
    /\ UNCHANGED <<phase, nextChunkToEmit, hasError, cancelled, downloadStreams,
                   fileHandle, answers>>

\* Seeded fault: an earlier error is not looked at.
ReadFailsAgain(i) ==
    /\ i \in reads
    /\ hasError' = TRUE
    /\ cleanup
    /\ cancelTransfer(Self)
    /\ answers' = Append(answers, "error")
    /\ phase' = "ended"
    /\ reads' = reads \ {i}
    /\ UNCHANGED <<nextChunkToRead, chunkBuffer, nextChunkToEmit, isEmitting, cancelled,
                   sent>>

ReadFails(i) ==
    /\ i \in reads /\ ~hasError /\ ~cancelled
    /\ hasError' = TRUE
    /\ cleanup
    /\ cancelTransfer(Self)
    /\ answers' = Append(answers, "error")
    /\ phase' = "ended"
    /\ reads' = reads \ {i}
    /\ UNCHANGED <<nextChunkToRead, chunkBuffer, nextChunkToEmit, isEmitting, cancelled,
                   sent>>

\* An answer that comes after the error is dropped.
ReadIgnored(i) ==
    /\ i \in reads /\ (hasError \/ cancelled)
    /\ reads' = reads \ {i}
    /\ UNCHANGED <<managerVars, phase, nextChunkToRead, chunkBuffer, nextChunkToEmit, isEmitting,
                   hasError, cancelled, downloadStreams, fileHandle, sent, answers>>

completeDownload ==
    /\ cleanup
    /\ deleteTransfers({Self})
    /\ answers' = IF transfers[Self] # "absent" THEN Append(answers, "complete") ELSE answers
    /\ phase' = "ended"
    /\ nextChunkToEmit' = nextChunkToEmit + 1
    /\ isEmitting' = FALSE
    /\ UNCHANGED <<reads, nextChunkToRead, chunkBuffer, hasError, cancelled, sent>>

\* Seeded fault: the last chunk is the one before the last.
DrainedLastEarly ==
    /\ isEmitting
    /\ IF nextChunkToEmit = totalChunks - 2
       THEN completeDownload
       ELSE /\ nextChunkToEmit' = nextChunkToEmit + 1
            /\ emitNext(chunkBuffer, nextChunkToEmit + 1)
            /\ UNCHANGED <<phase, reads, nextChunkToRead, hasError, cancelled, downloadStreams,
                           fileHandle, answers>>

\* Seeded fault: the loop ends after one chunk.
DrainedOnce ==
    /\ isEmitting
    /\ IF nextChunkToEmit = totalChunks - 1
       THEN completeDownload
       ELSE /\ nextChunkToEmit' = nextChunkToEmit + 1
            /\ isEmitting' = FALSE
            /\ UNCHANGED <<managerVars, phase, reads, nextChunkToRead, chunkBuffer, hasError,
                           cancelled, downloadStreams, fileHandle, sent, answers>>

\* onChunk() returns: the loop of emitBufferedChunks() goes on.  It looks at
\* neither hasError nor cancelled.
Drained ==
    /\ isEmitting
    /\ IF nextChunkToEmit = totalChunks - 1
       THEN completeDownload
       ELSE /\ nextChunkToEmit' = nextChunkToEmit + 1
            /\ emitNext(chunkBuffer, nextChunkToEmit + 1)
            /\ UNCHANGED <<phase, reads, nextChunkToRead, hasError, cancelled, downloadStreams,
                           fileHandle, answers>>

\* The entry is marked and deleted at once.
cancelDownload == downloadStreams' = "none" /\ cancelTransfer(Self)

handleDownloadCancel ==
    /\ verifyOwnership(Self, Owner)
    /\ cancelDownload
    /\ UNCHANGED <<phase, reads, nextChunkToRead, chunkBuffer, nextChunkToEmit, isEmitting,
                   hasError, cancelled, fileHandle, sent, answers>>

-------------------------------------------------------------------------------
DownloadNext ==
    \/ handleDownloadStart \/ StartFails \/ StartDownload
    \/ FileOpenFails \/ FileOpened
    \/ \E i \in Chunks : ReadDone(i) \/ ReadFails(i) \/ ReadIgnored(i)
    \/ Drained
    \/ handleDownloadCancel

\* The SFTP server answers every request, and the browser reads its socket.
DownloadFairness ==
    /\ WF_downloadVars(FileOpenFails \/ FileOpened)
    /\ \A i \in Chunks : WF_downloadVars(ReadDone(i) \/ ReadFails(i) \/ ReadIgnored(i))
    /\ WF_downloadVars(Drained)

DownloadSpec == DownloadInit /\ [][DownloadNext]_downloadVars
FairDownloadSpec == DownloadSpec /\ DownloadFairness

-------------------------------------------------------------------------------
\* "Chunks are buffered and emitted in order to maintain file integrity"
\* (DOCS/features/SFTP.md): whatever the order of the answers, the browser
\* gets chunks 0, 1, 2, ... without a gap.
ChunksInOrder == \A k \in 1 .. Len(sent) : sent[k] = k - 1

\* While the loop runs every chunk that was asked for is in flight, buffered
\* or emitted, and in one of these places only; and no chunk that is due lies
\* in the buffer while nobody emits.
NoChunkStranded ==
    phase = "streaming" =>
        /\ reads \cap chunkBuffer = {}
        /\ reads \cup chunkBuffer = Len(sent) .. nextChunkToRead - 1
        /\ nextChunkToEmit \in chunkBuffer => isEmitting

\* onComplete is called only when the browser was sent every chunk, the handle
\* is closed and the slot is free.  That each chunk has its full length is not
\* said: a short read is emitted as it is (sftp-service.ts:869).
CompleteSentAll ==
    \A k \in 1 .. Len(answers) : answers[k] = "complete" =>
        /\ Len(sent) = totalChunks
        /\ reads = {} /\ chunkBuffer = {}
        /\ fileHandle = "closed"
        /\ transfers[Self] = "absent"

\* At most one of onComplete and onError, and at most once, however many of the
\* parallel reads fail.
AnsweredOnce == Len(answers) <= 1

\* No more reads in flight than DOWNLOAD_CONCURRENCY.
ReadsBounded == Cardinality(reads) <= concurrency

\* When the promise is resolved the handle is closed and the transfer is gone.
EndReleases == phase = "ended" => fileHandle # "open" /\ transfers[Self] = "absent"

\* A download whose file was asked for ends.
DownloadEnds == phase = "opening" ~> phase = "ended"

=============================================================================
