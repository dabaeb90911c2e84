---------------------------- MODULE TransferProofs ----------------------------
(***************************************************************************)
(* The limit of the table of transfers, on top of it the safety of the     *)
(* uploads, for every set of transfers and sessions, every limit and every *)
(* size, and that of one download, for every number of chunks and every    *)
(* degree of parallelism.                                                  *)
(***************************************************************************)
EXTENDS SftpUpload, SftpDownload, FiniteSetTheorems, TLAPS

-----------------------------------------------------------------------------
(***************************************************************************)
(* The table of transfers (TransferManager).                               *)
(***************************************************************************)
USE TransferAssumption

\* The limit and the types together are inductive under what the file services
\* call.
TransferInv == TransferTypeOK /\ LimitRespected

\* The transfers that count are finitely many.
LEMMA CountedFinite ==
    ASSUME NEW s
    PROVE  IsFiniteSet(countedTransfers(s)) /\ getActiveCount(s) \in Nat
  <1>1. IsFiniteSet(countedTransfers(s))
    BY FS_Subset DEF countedTransfers
  <1> QED BY <1>1, FS_CardinalityType DEF getActiveCount

\* A step after which no further transfer of s counts keeps the limit of s.
LEMMA FewerCounted ==
    ASSUME NEW s, countedTransfers(s)' \subseteq countedTransfers(s),
           getActiveCount(s) <= MaxConcurrent
    PROVE  getActiveCount(s)' <= MaxConcurrent
  <1>1. /\ IsFiniteSet(countedTransfers(s)')
        /\ Cardinality(countedTransfers(s)') <= Cardinality(countedTransfers(s))
    BY CountedFinite, FS_Subset
  <1>2. Cardinality(countedTransfers(s)') \in Nat /\ getActiveCount(s) \in Nat
    BY <1>1, CountedFinite, FS_CardinalityType
  <1> QED BY <1>1, <1>2 DEF getActiveCount

\* Deleting entries keeps the table well typed and adds no transfer.
LEMMA DeleteKeeps ==
    ASSUME TransferInv, NEW T \in SUBSET Transfers, deleteTransfers(T)
    PROVE  TransferInv'
  <1>1. TransferTypeOK'
    BY DEF TransferInv, TransferTypeOK, deleteTransfers
  <1>2. ASSUME NEW s \in Sessions PROVE getActiveCount(s)' <= MaxConcurrent
    <2>1. countedTransfers(s)' \subseteq countedTransfers(s)
      BY DEF countedTransfers, deleteTransfers
    <2> QED BY <2>1, FewerCounted DEF TransferInv, LimitRespected
  <1> QED BY <1>1, <1>2 DEF TransferInv, LimitRespected

\* startTransfer() adds one transfer to a session that is below its limit.
LEMMA StartKeeps ==
    ASSUME TransferInv, NEW t \in Transfers, NEW s \in Sessions, startTransfer(t, s)
    PROVE  TransferInv'
  <1>1. TransferTypeOK'
    BY DEF TransferInv, TransferTypeOK, startTransfer
  <1>2. ASSUME NEW r \in Sessions PROVE getActiveCount(r)' <= MaxConcurrent
    <2>1. CASE r # s
      <3>1. countedTransfers(r)' \subseteq countedTransfers(r)
        BY <2>1 DEF countedTransfers, startTransfer, TransferInv, TransferTypeOK
      <3> QED BY <3>1, FewerCounted DEF TransferInv, LimitRespected
    <2>2. CASE r = s
      <3>1. countedTransfers(s)' = countedTransfers(s) \cup {t}
        BY DEF countedTransfers, startTransfer, TransferInv, TransferTypeOK
      <3>2. t \notin countedTransfers(s)
        BY DEF countedTransfers, startTransfer
      <3>3. Cardinality(countedTransfers(s) \cup {t}) = Cardinality(countedTransfers(s)) + 1
        BY <3>2, CountedFinite, FS_AddElement
      <3>4. getActiveCount(s)' = getActiveCount(s) + 1
        BY <3>1, <3>3 DEF getActiveCount
      <3>5. getActiveCount(s) < MaxConcurrent /\ getActiveCount(s) \in Nat
        BY CountedFinite DEF startTransfer
      <3> QED BY <2>2, <3>4, <3>5
    <2> QED BY <2>1, <2>2
  <1> QED BY <1>1, <1>2 DEF TransferInv, LimitRespected

\* activateTransfer() and updateProgress() leave the counted transfers alone.
LEMMA ActiveKeeps ==
    ASSUME TransferInv, NEW t \in Transfers, NEW i \in Nat,
           activateTransfer(t) \/ updateProgress(t, i)
    PROVE  TransferInv'
  <1>1. TransferTypeOK'
    BY DEF TransferInv, TransferTypeOK, activateTransfer, updateProgress
  <1>2. ASSUME NEW s \in Sessions PROVE getActiveCount(s)' <= MaxConcurrent
    <2>1. countedTransfers(s)' \subseteq countedTransfers(s)
      BY DEF countedTransfers, activateTransfer, updateProgress, TransferInv, TransferTypeOK
    <2> QED BY <2>1, FewerCounted DEF TransferInv, LimitRespected
  <1> QED BY <1>1, <1>2 DEF TransferInv, LimitRespected

\* The empty table respects every limit.
LEMMA TransferInitInv == TransferInit => TransferInv
  <1> SUFFICES ASSUME TransferInit PROVE TransferInv
    OBVIOUS
  <1>1. TransferTypeOK
    BY DEF TransferInit, TransferTypeOK
  <1>2. ASSUME NEW s \in Sessions PROVE getActiveCount(s) <= MaxConcurrent
    <2>1. countedTransfers(s) = {}
      BY DEF countedTransfers, TransferInit
    <2>2. getActiveCount(s) = 0
      BY <2>1, FS_EmptySet DEF getActiveCount
    <2> QED BY <2>2
  <1> QED BY <1>1, <1>2 DEF TransferInv, LimitRespected

\* Every call of a file service keeps the invariant.
LEMMA TransferStepInv == TransferInv /\ [ServiceNext]_managerVars => TransferInv'
  <1> SUFFICES ASSUME TransferInv, [ServiceNext]_managerVars PROVE TransferInv'
    OBVIOUS
  <1>1. ASSUME NEW t \in Transfers, NEW s \in Sessions, startTransfer(t, s)
        PROVE  TransferInv'
    BY <1>1, StartKeeps
  <1>2. ASSUME NEW t \in Transfers, NEW i \in Nat,
               activateTransfer(t) \/ updateProgress(t, i)
        PROVE  TransferInv'
    BY <1>2, ActiveKeeps
  <1>3. ASSUME NEW T \in SUBSET Transfers, deleteTransfers(T) PROVE TransferInv'
    BY <1>3, DeleteKeeps
  <1>4. ASSUME NEW t \in Transfers, completeTransfer(t) \/ cancelTransfer(t)
        PROVE  TransferInv'
    BY <1>3, <1>4 DEF completeTransfer, cancelTransfer
  <1>5. ASSUME NEW s \in Sessions, cancelSessionTransfers(s) PROVE TransferInv'
    BY <1>3, <1>5 DEF cancelSessionTransfers
  <1>6. ASSUME clearTransfers PROVE TransferInv'
    BY <1>3, <1>6 DEF clearTransfers
  <1>7. CASE UNCHANGED managerVars
    BY <1>7 DEF managerVars, TransferInv, TransferTypeOK, LimitRespected, getActiveCount,
       countedTransfers
  <1>8. 0 .. MaxChunks - 1 \subseteq Nat
    OBVIOUS
  <1> QED BY <1>1, <1>2, <1>4, <1>5, <1>6, <1>7, <1>8 DEF ServiceNext

\* However many transfers and sessions there are, no session has more than
\* maxConcurrentTransfers transfers pending or active, as long as transfers are
\* started, activated, finished and cancelled the way the file services do.
THEOREM LimitHolds == ServiceSpec => []LimitRespected
  <1>1. TransferInv => LimitRespected
    BY DEF TransferInv
  <1> QED BY <1>1, TransferInitInv, TransferStepInv, PTL DEF ServiceSpec

-----------------------------------------------------------------------------
(***************************************************************************)
(* The uploads (SftpUpload).                                               *)
(***************************************************************************)
\* How far the upload t is: what the states of its promise, of its chunk and of
\* its transfer say about one another.
UploadProgress(t) ==
    /\ upload[t] # "idle" => owner[t] \in Sessions
    /\ upload[t] # "started" => chunk[t] = "none" /\ written[t] = 0 /\ t \notin completed
    /\ upload[t] \in {"idle", "setup", "late", "failed"} => transfers[t] = "absent"
    /\ upload[t] = "opening" => transfers[t] = "pending" /\ nextChunkIndex[t] = 0
    /\ upload[t] = "started" => transfers[t] \in {"active", "absent"}
    /\ upload[t] = "started" /\ t \in uploadHandles => transfers[t] = "active"
    /\ transfers[t] # "absent" => transferSession[t] = owner[t]
    /\ chunk[t] \in {"writing", "late"} => written[t] < MaxChunks
    /\ chunk[t] = "writing" /\ transfers[t] # "absent" => t \in uploadHandles
    /\ t \in completed => chunk[t] = "none"

\* The properties of one upload.
UploadOK(t) ==
    /\ UploadProgress(t)
    /\ (handle[t] = "open") <=> (t \in uploadHandles)
    /\ t \in completed =>
         written[t] = MaxChunks /\ handle[t] = "closed" /\ transfers[t] = "absent"
    /\ transfers[t] = "active" /\ chunk[t] \in {"writing", "late"} =>
         nextChunkIndex[t] = written[t] + 1
    /\ transfers[t] = "active" /\ chunk[t] = "none" => nextChunkIndex[t] = written[t]

UploadInv == UploadTypeOK /\ \A t \in Transfers : UploadOK(t)

-------------------------------------------------------------------------------
USE TransferAssumption

\* Deleting an entry keeps the table well typed and leaves the others alone.
LEMMA DeleteOne ==
    ASSUME TransferTypeOK, NEW t \in Transfers, deleteTransfers({t})
    PROVE  /\ TransferTypeOK' /\ transfers'[t] = "absent"
           /\ \A u \in Transfers \ {t} :
                /\ transfers'[u] = transfers[u] /\ nextChunkIndex'[u] = nextChunkIndex[u]
                /\ transferSession'[u] = transferSession[u]
  BY DEF TransferTypeOK, deleteTransfers

\* What a step does to other uploads: nothing that their properties mention.
LEMMA OtherUploads ==
    ASSUME UploadInv, NEW u \in Transfers,
           upload'[u] = upload[u], owner'[u] = owner[u], handle'[u] = handle[u],
           (u \in uploadHandles') <=> (u \in uploadHandles),
           chunk'[u] = chunk[u], written'[u] = written[u],
           (u \in completed') <=> (u \in completed),
           transfers'[u] = transfers[u], nextChunkIndex'[u] = nextChunkIndex[u],
           transferSession'[u] = transferSession[u]
    PROVE  UploadOK(u)'
  BY DEF UploadInv, UploadOK, UploadProgress

\* The invariant holds at the start.
LEMMA UploadInitInv == UploadInit => UploadInv
  <1> SUFFICES ASSUME UploadInit PROVE UploadInv
    OBVIOUS
  <1>1. UploadTypeOK
    BY DEF UploadInit, TransferInit, UploadTypeOK, TransferTypeOK
  <1>2. ASSUME NEW t \in Transfers PROVE UploadOK(t)
    BY DEF UploadInit, TransferInit, UploadOK, UploadProgress
  <1> QED BY <1>1, <1>2 DEF UploadInv

\* A request for an upload.
LEMMA UploadStartKeeps ==
    ASSUME UploadInv, NEW t \in Transfers, NEW s \in Sessions, handleUploadStart(t, s)
    PROVE  UploadInv'
  <1>1. UploadTypeOK /\ UploadOK(t)
    BY DEF UploadInv
  <1>2. TransferTypeOK'
    BY <1>1 DEF UploadTypeOK, TransferTypeOK, managerVars, handleUploadStart
  <1>3. UploadTypeOK'
    BY <1>1, <1>2 DEF UploadTypeOK, UploadOK, UploadProgress, handleUploadStart
  <1>4. ASSUME NEW u \in Transfers PROVE UploadOK(u)'
    <2>1. CASE u # t
      BY <1>1, <1>2, <2>1, OtherUploads
         DEF UploadTypeOK, TransferTypeOK, managerVars, handleUploadStart
    <2>2. CASE u = t
      BY <1>1, <1>2, <2>2
         DEF UploadTypeOK, TransferTypeOK, UploadOK, UploadProgress, managerVars, handleUploadStart
    <2> QED BY <2>1, <2>2
  <1> QED BY <1>3, <1>4 DEF UploadInv

\* A refused upload.
LEMMA RefusedKeeps ==
    ASSUME UploadInv, NEW t \in Transfers, StartRefused(t)
    PROVE  UploadInv'
  <1>1. UploadTypeOK /\ UploadOK(t)
    BY DEF UploadInv
  <1>2. TransferTypeOK'
    BY <1>1 DEF UploadTypeOK, TransferTypeOK, managerVars, StartRefused
  <1>3. UploadTypeOK'
    BY <1>1, <1>2 DEF UploadTypeOK, UploadOK, UploadProgress, StartRefused
  <1>4. ASSUME NEW u \in Transfers PROVE UploadOK(u)'
    <2>1. CASE u # t
      BY <1>1, <1>2, <2>1, OtherUploads DEF UploadTypeOK, TransferTypeOK, managerVars, StartRefused
    <2>2. CASE u = t
      BY <1>1, <1>2, <2>2
         DEF UploadTypeOK, TransferTypeOK, UploadOK, UploadProgress, managerVars, StartRefused
    <2> QED BY <2>1, <2>2
  <1> QED BY <1>3, <1>4 DEF UploadInv

\* The transfer is tracked.
LEMMA TrackedKeeps ==
    ASSUME UploadInv, NEW t \in Transfers, StartTracked(t)
    PROVE  UploadInv'
  <1>1. UploadTypeOK /\ UploadOK(t)
    BY DEF UploadInv
  <1>2. TransferTypeOK'
    BY <1>1 DEF UploadTypeOK, TransferTypeOK, UploadOK, UploadProgress, StartTracked, startTransfer
  <1>3. UploadTypeOK'
    BY <1>1, <1>2 DEF UploadTypeOK, UploadOK, UploadProgress, StartTracked, startTransfer
  <1>4. ASSUME NEW u \in Transfers PROVE UploadOK(u)'
    <2>1. CASE u # t
      BY <1>1, <1>2, <2>1, OtherUploads
         DEF UploadTypeOK, TransferTypeOK, managerVars, StartTracked, startTransfer
    <2>2. CASE u = t
      BY <1>1, <1>2, <2>2
         DEF UploadTypeOK, TransferTypeOK, UploadOK, UploadProgress, managerVars, StartTracked, startTransfer
    <2> QED BY <2>1, <2>2
  <1> QED BY <1>3, <1>4 DEF UploadInv

\* The timer of startUpload().
LEMMA TimeoutKeeps ==
    ASSUME UploadInv, NEW t \in Transfers, StartTimeout(t)
    PROVE  UploadInv'
  <1>1. UploadTypeOK /\ UploadOK(t)
    BY DEF UploadInv
  <1>2. /\ TransferTypeOK' /\ transfers'[t] = "absent"
        /\ \A u \in Transfers \ {t} :
             /\ transfers'[u] = transfers[u] /\ nextChunkIndex'[u] = nextChunkIndex[u]
             /\ transferSession'[u] = transferSession[u]
    BY <1>1, DeleteOne DEF UploadTypeOK, StartTimeout, cancelTransfer
  <1>3. UploadTypeOK'
    BY <1>1, <1>2 DEF UploadTypeOK, UploadOK, UploadProgress, StartTimeout
  <1>4. ASSUME NEW u \in Transfers PROVE UploadOK(u)'
    <2>1. CASE u # t
      BY <1>1, <1>2, <2>1, OtherUploads DEF UploadTypeOK, TransferTypeOK, managerVars, StartTimeout
    <2>2. CASE u = t
      BY <1>1, <1>2, <2>2
         DEF UploadTypeOK, TransferTypeOK, UploadOK, UploadProgress, managerVars, StartTimeout
    <2> QED BY <2>1, <2>2
  <1> QED BY <1>3, <1>4 DEF UploadInv

\* The file cannot be opened.
LEMMA OpenFailsKeeps ==
    ASSUME UploadInv, NEW t \in Transfers, OpenFails(t)
    PROVE  UploadInv'
  <1>1. UploadTypeOK /\ UploadOK(t)
    BY DEF UploadInv
  <1>2. /\ TransferTypeOK' /\ transfers'[t] = "absent"
        /\ \A u \in Transfers \ {t} :
             /\ transfers'[u] = transfers[u] /\ nextChunkIndex'[u] = nextChunkIndex[u]
             /\ transferSession'[u] = transferSession[u]
    BY <1>1, DeleteOne DEF UploadTypeOK, OpenFails, cancelTransfer
  <1>3. UploadTypeOK'
    BY <1>1, <1>2 DEF UploadTypeOK, UploadOK, UploadProgress, OpenFails
  <1>4. ASSUME NEW u \in Transfers PROVE UploadOK(u)'
    <2>1. CASE u # t
      BY <1>1, <1>2, <2>1, OtherUploads DEF UploadTypeOK, TransferTypeOK, managerVars, OpenFails
    <2>2. CASE u = t
      BY <1>1, <1>2, <2>2
         DEF UploadTypeOK, TransferTypeOK, UploadOK, UploadProgress, managerVars, OpenFails
    <2> QED BY <2>1, <2>2
  <1> QED BY <1>3, <1>4 DEF UploadInv

\* The file is open, perhaps too late.
LEMMA OpenOkKeeps ==
    ASSUME UploadInv, NEW t \in Transfers, OpenOk(t)
    PROVE  UploadInv'
  <1>1. UploadTypeOK /\ UploadOK(t)
    BY DEF UploadInv
  <1>2. TransferTypeOK'
    BY <1>1 DEF UploadTypeOK, TransferTypeOK, managerVars, OpenOk, activateTransfer
  <1>3. UploadTypeOK'
    BY <1>1, <1>2 DEF UploadTypeOK, UploadOK, UploadProgress, OpenOk, activateTransfer
  <1>4. ASSUME NEW u \in Transfers PROVE UploadOK(u)'
    <2>1. CASE u # t
      BY <1>1, <1>2, <2>1, OtherUploads
         DEF UploadTypeOK, TransferTypeOK, managerVars, OpenOk, activateTransfer
    <2>2. CASE u = t
      BY <1>1, <1>2, <2>2
         DEF UploadTypeOK, TransferTypeOK, UploadOK, UploadProgress, managerVars, OpenOk, activateTransfer
    <2> QED BY <2>1, <2>2
  <1> QED BY <1>3, <1>4 DEF UploadInv

\* A chunk is accepted.
LEMMA ChunkKeeps ==
    ASSUME UploadInv, NEW t \in Transfers, NEW s \in Sessions, handleUploadChunk(t, s)
    PROVE  UploadInv'
  <1>1. UploadTypeOK /\ UploadOK(t)
    BY DEF UploadInv
  <1>2. TransferTypeOK'
    BY <1>1
       DEF UploadTypeOK, TransferTypeOK, managerVars, handleUploadChunk, processUploadChunk, updateProgress, verifyOwnership
  <1>3. UploadTypeOK'
    BY <1>1, <1>2
       DEF UploadTypeOK, UploadOK, UploadProgress, handleUploadChunk, processUploadChunk, updateProgress, verifyOwnership
  <1>4. ASSUME NEW u \in Transfers PROVE UploadOK(u)'
    <2>1. CASE u # t
      BY <1>1, <1>2, <2>1, OtherUploads
         DEF UploadTypeOK, TransferTypeOK, managerVars, handleUploadChunk, processUploadChunk, updateProgress, verifyOwnership
    <2>2. CASE u = t
      BY <1>1, <1>2, <2>2
         DEF UploadTypeOK, TransferTypeOK, UploadOK, UploadProgress, managerVars, handleUploadChunk, processUploadChunk, updateProgress, verifyOwnership
    <2> QED BY <2>1, <2>2
  <1> QED BY <1>3, <1>4 DEF UploadInv

\* The timer of processUploadChunk().
LEMMA WriteTimeoutKeeps ==
    ASSUME UploadInv, NEW t \in Transfers, WriteTimeout(t)
    PROVE  UploadInv'
  <1>1. UploadTypeOK /\ UploadOK(t)
    BY DEF UploadInv
  <1>2. TransferTypeOK'
    BY <1>1 DEF UploadTypeOK, TransferTypeOK, managerVars, WriteTimeout
  <1>3. UploadTypeOK'
    BY <1>1, <1>2 DEF UploadTypeOK, UploadOK, UploadProgress, WriteTimeout
  <1>4. ASSUME NEW u \in Transfers PROVE UploadOK(u)'
    <2>1. CASE u # t
      BY <1>1, <1>2, <2>1, OtherUploads DEF UploadTypeOK, TransferTypeOK, managerVars, WriteTimeout
    <2>2. CASE u = t
      BY <1>1, <1>2, <2>2
         DEF UploadTypeOK, TransferTypeOK, UploadOK, UploadProgress, managerVars, WriteTimeout
    <2> QED BY <2>1, <2>2
  <1> QED BY <1>3, <1>4 DEF UploadInv

\* A write fails.
LEMMA WriteFailsKeeps ==
    ASSUME UploadInv, NEW t \in Transfers, WriteFails(t)
    PROVE  UploadInv'
  <1>1. UploadTypeOK /\ UploadOK(t)
    BY DEF UploadInv
  <1>2. TransferTypeOK'
    BY <1>1 DEF UploadTypeOK, TransferTypeOK, managerVars, WriteFails, closeUpload
  <1>3. UploadTypeOK'
    BY <1>1, <1>2 DEF UploadTypeOK, UploadOK, UploadProgress, WriteFails, closeUpload
  <1>4. ASSUME NEW u \in Transfers PROVE UploadOK(u)'
    <2>1. CASE u # t
      BY <1>1, <1>2, <2>1, OtherUploads
         DEF UploadTypeOK, TransferTypeOK, managerVars, WriteFails, closeUpload
    <2>2. CASE u = t
      BY <1>1, <1>2, <2>2
         DEF UploadTypeOK, TransferTypeOK, UploadOK, UploadProgress, managerVars, WriteFails, closeUpload
    <2> QED BY <2>1, <2>2
  <1> QED BY <1>3, <1>4 DEF UploadInv

\* The browser cancels.
LEMMA CancelKeeps ==
    ASSUME UploadInv, NEW t \in Transfers, NEW s \in Sessions, handleUploadCancel(t, s)
    PROVE  UploadInv'
  <1>1. UploadTypeOK /\ UploadOK(t)
    BY DEF UploadInv
  <1>2. /\ TransferTypeOK' /\ transfers'[t] = "absent"
        /\ \A u \in Transfers \ {t} :
             /\ transfers'[u] = transfers[u] /\ nextChunkIndex'[u] = nextChunkIndex[u]
             /\ transferSession'[u] = transferSession[u]
    BY <1>1, DeleteOne DEF UploadTypeOK, handleUploadCancel, cancelUpload, cancelTransfer
  <1>3. UploadTypeOK'
    BY <1>1, <1>2 DEF UploadTypeOK, UploadOK, UploadProgress, handleUploadCancel, cancelUpload, closeUpload
  <1>4. ASSUME NEW u \in Transfers PROVE UploadOK(u)'
    <2>1. CASE u # t
      BY <1>1, <1>2, <2>1, OtherUploads
         DEF UploadTypeOK, TransferTypeOK, managerVars, handleUploadCancel, cancelUpload, closeUpload
    <2>2. CASE u = t
      BY <1>1, <1>2, <2>2
         DEF UploadTypeOK, TransferTypeOK, UploadOK, UploadProgress, managerVars, handleUploadCancel, cancelUpload, closeUpload
    <2> QED BY <2>1, <2>2
  <1> QED BY <1>3, <1>4 DEF UploadInv

\* A write is confirmed; the last one closes the file and completes the upload.
LEMMA WriteOkKeeps ==
    ASSUME UploadInv, NEW t \in Transfers, WriteOk(t)
    PROVE  UploadInv'
  <1>1. UploadTypeOK /\ UploadOK(t)
    BY DEF UploadInv
  <1>2. chunk[t] \in {"writing", "late"} /\ upload[t] = "started" /\ written[t] < MaxChunks
    BY <1>1 DEF WriteOk, UploadOK, UploadProgress
  <1>3. CASE isLast(t) /\ chunk[t] = "writing" /\ transfers[t] # "absent"
    <2>1. /\ deleteTransfers({t}) /\ closeUpload(t) /\ completed' = completed \cup {t}
          /\ written' = [written EXCEPT ![t] = @ + 1] /\ chunk' = [chunk EXCEPT ![t] = "none"]
          /\ UNCHANGED <<upload, owner, connected>>
      BY <1>1, <1>3 DEF WriteOk, completeTransfer, UploadTypeOK
    <2>2. /\ TransferTypeOK' /\ transfers'[t] = "absent"
          /\ \A u \in Transfers \ {t} :
               /\ transfers'[u] = transfers[u] /\ nextChunkIndex'[u] = nextChunkIndex[u]
               /\ transferSession'[u] = transferSession[u]
      BY <1>1, <2>1, DeleteOne DEF UploadTypeOK
    <2>3. UploadTypeOK'
      BY <1>1, <1>2, <2>1, <2>2 DEF UploadTypeOK, closeUpload
    <2>4. ASSUME NEW u \in Transfers, u # t PROVE UploadOK(u)'
      BY <1>1, <2>1, <2>2, <2>4, OtherUploads DEF UploadTypeOK, closeUpload
    <2>5. UploadOK(t)'
      BY <1>1, <1>2, <1>3, <2>1, <2>2
         DEF UploadTypeOK, UploadOK, UploadProgress, closeUpload, isLast
    <2> QED BY <2>3, <2>4, <2>5 DEF UploadInv
  <1>4. CASE ~ (isLast(t) /\ chunk[t] = "writing" /\ transfers[t] # "absent")
    <2>1. /\ UNCHANGED <<managerVars, completed, upload, owner, connected>>
          /\ closeUpload(t) \/ UNCHANGED <<handle, uploadHandles>>
          /\ written' = [written EXCEPT ![t] = @ + 1]
          /\ chunk' = [chunk EXCEPT ![t] = IF chunk[t] = "writing" THEN "none" ELSE "failed"]
          /\ isLast(t) => closeUpload(t)
          /\ ~isLast(t) => UNCHANGED <<handle, uploadHandles>>
      BY <1>4 DEF WriteOk
    <2>2. /\ TransferTypeOK' /\ transfers' = transfers /\ nextChunkIndex' = nextChunkIndex
          /\ transferSession' = transferSession
      BY <1>1, <2>1 DEF UploadTypeOK, TransferTypeOK, managerVars
    <2>3. UploadTypeOK'
      BY <1>1, <1>2, <2>1, <2>2 DEF UploadTypeOK, closeUpload
    <2>4. ASSUME NEW u \in Transfers, u # t PROVE UploadOK(u)'
      BY <1>1, <2>1, <2>2, <2>4, OtherUploads DEF UploadTypeOK, closeUpload
    <2>5. UploadOK(t)'
      BY <1>1, <1>2, <1>4, <2>1, <2>2
         DEF UploadTypeOK, UploadOK, UploadProgress, closeUpload, isLast
    <2> QED BY <2>3, <2>4, <2>5 DEF UploadInv
  <1> QED BY <1>3, <1>4

\* A disconnect, and a stuttering step, leave the uploads as they are.
LEMMA UploadQuietKeeps ==
    ASSUME UploadInv, (\E s \in Sessions : Disconnect(s)) \/ UNCHANGED allVars
    PROVE  UploadInv'
  <1>1. /\ UNCHANGED <<managerVars, upload, owner, handle, uploadHandles, chunk, written, completed>>
        /\ connected' \subseteq connected
    BY DEF Disconnect, allVars, uploadVars
  <1>2. UploadTypeOK'
    BY <1>1 DEF UploadInv, UploadTypeOK, TransferTypeOK, managerVars
  <1>3. ASSUME NEW u \in Transfers PROVE UploadOK(u)'
    BY <1>1, OtherUploads DEF managerVars
  <1> QED BY <1>2, <1>3 DEF UploadInv

\* The invariant of the uploads holds in every reachable state.
THEOREM UploadInvariant == UploadSpec => []UploadInv
  <1>1. UploadInv /\ [UploadNext]_allVars => UploadInv'
    <2> SUFFICES ASSUME UploadInv, [UploadNext]_allVars PROVE UploadInv'
      OBVIOUS
    <2>1. ASSUME NEW t \in Transfers, NEW s \in Sessions,
                 handleUploadStart(t, s) \/ handleUploadChunk(t, s) \/ handleUploadCancel(t, s)
          PROVE  UploadInv'
      BY <2>1, UploadStartKeeps, ChunkKeeps, CancelKeeps
    <2>2. ASSUME NEW t \in Transfers, ServerStep(t) PROVE UploadInv'
      BY <2>2, RefusedKeeps, TrackedKeeps, TimeoutKeeps, OpenFailsKeeps, OpenOkKeeps,
         WriteTimeoutKeeps, WriteFailsKeeps, WriteOkKeeps DEF ServerStep
    <2>3. CASE (\E s \in Sessions : Disconnect(s)) \/ UNCHANGED allVars
      BY <2>3, UploadQuietKeeps
    <2> QED BY <2>1, <2>2, <2>3, Zenon DEF UploadNext
  <1> QED BY <1>1, UploadInitInv, PTL DEF UploadSpec

\* The variables of the uploads are well typed.
THEOREM UploadTypeCorrect == UploadSpec => []UploadTypeOK
  <1>1. UploadInv => UploadTypeOK
    BY DEF UploadInv
  <1> QED BY <1>1, UploadInvariant, PTL

\* Every open file is in the map of handles, and nothing else is.
THEOREM UploadHandlesTracked == UploadSpec => []HandlesTracked
  <1>1. UploadInv => HandlesTracked
    BY DEF UploadInv, UploadOK, HandlesTracked
  <1> QED BY <1>1, UploadInvariant, PTL

\* sftp-complete means that the file is written and closed.
THEOREM UploadCompletesWritten == UploadSpec => []CompleteIsWritten
  <1>1. UploadInv => CompleteIsWritten
    BY DEF UploadInv, UploadOK, UploadTypeOK, CompleteIsWritten
  <1> QED BY <1>1, UploadInvariant, PTL

\* Every chunk goes to the offset where the confirmed ones end.
THEOREM UploadOffsets == UploadSpec => []OffsetFollowsWritten
  <1>1. UploadInv => OffsetFollowsWritten
    BY DEF UploadInv, UploadOK, OffsetFollowsWritten
  <1> QED BY <1>1, UploadInvariant, PTL

\* What the uploads do to the table is what the file services may call, so that what
\* holds of the table under those calls holds here.
LEMMA UploadUsesManager == UploadSpec => ServiceSpec
  <1>1. UploadInit => TransferInit
    BY DEF UploadInit
  <1>2. UploadInv /\ [UploadNext]_allVars => [ServiceNext]_managerVars
    <2> SUFFICES ASSUME UploadInv, [UploadNext]_allVars PROVE [ServiceNext]_managerVars
      OBVIOUS
    <2> DEFINE Service == [ServiceNext]_managerVars
    <2>1. ASSUME UNCHANGED managerVars PROVE Service
      BY <2>1
    <2>2. ASSUME NEW t \in Transfers, NEW s \in Sessions,
                 handleUploadStart(t, s) \/ handleUploadChunk(t, s) \/ handleUploadCancel(t, s)
          PROVE  Service
      <3>1. CASE handleUploadStart(t, s)
        BY <2>1, <3>1 DEF handleUploadStart
      <3>2. CASE handleUploadChunk(t, s)
        <4>1. updateProgress(t, written[t]) /\ written[t] \in 0 .. MaxChunks - 1
          BY <3>2 DEF handleUploadChunk, processUploadChunk, UploadInv, UploadTypeOK
        <4> QED BY <4>1 DEF ServiceNext
      <3>3. CASE handleUploadCancel(t, s)
        <4>1. cancelTransfer(t)
          BY <3>3 DEF handleUploadCancel, cancelUpload
        <4> QED BY <4>1 DEF ServiceNext
      <3> QED BY <2>2, <3>1, <3>2, <3>3
    <2>3. ASSUME NEW t \in Transfers, ServerStep(t) PROVE Service
      <3>1. CASE StartTracked(t)
        <4>1. startTransfer(t, owner[t]) /\ owner[t] \in Sessions
          BY <3>1 DEF StartTracked, UploadInv, UploadOK, UploadProgress
        <4> QED BY <4>1 DEF ServiceNext
      <3>2. CASE StartTimeout(t) \/ OpenFails(t)
        <4>1. cancelTransfer(t)
          BY <3>2 DEF StartTimeout, OpenFails
        <4> QED BY <4>1 DEF ServiceNext
      <3>3. CASE OpenOk(t)
        <4>1. activateTransfer(t) \/ UNCHANGED managerVars
          BY <3>3 DEF OpenOk
        <4> QED BY <4>1 DEF ServiceNext
      <3>4. CASE WriteOk(t)
        <4>1. completeTransfer(t) \/ UNCHANGED managerVars
          BY <3>4, Zenon DEF WriteOk
        <4> QED BY <4>1 DEF ServiceNext
      <3>5. CASE StartRefused(t) \/ WriteTimeout(t) \/ WriteFails(t)
        BY <2>1, <3>5 DEF StartRefused, WriteTimeout, WriteFails
      <3> QED BY <2>3, <3>1, <3>2, <3>3, <3>4, <3>5 DEF ServerStep
    <2>4. CASE (\E s \in Sessions : Disconnect(s)) \/ UNCHANGED allVars
      BY <2>1, <2>4 DEF Disconnect, allVars
    <2> QED BY <2>2, <2>3, <2>4, Zenon DEF UploadNext
  <1> QED BY <1>1, <1>2, UploadInvariant, PTL DEF UploadSpec, ServiceSpec

\* Therefore the uploads keep the limit of simultaneous transfers.
THEOREM UploadLimit == UploadSpec => []LimitRespected
  BY UploadUsesManager, LimitHolds, PTL

\* And not only in the table: the uploads of a session that have a file open, or wait
\* for one, never exceed the limit, for every limit and however they interleave.
THEOREM UploadsBounded == UploadSpec => []UploadsWithinLimit
  <1>1. UploadInv /\ LimitRespected => UploadsWithinLimit
    <2> SUFFICES ASSUME UploadInv, LimitRespected, NEW s \in Sessions
                 PROVE  Cardinality(uploading(s)) <= MaxConcurrent
      BY DEF UploadsWithinLimit
    <2>1. ASSUME NEW t \in uploading(s) PROVE t \in countedTransfers(s)
      <3>1. t \in Transfers /\ owner[t] = s /\ UploadOK(t)
        BY <2>1 DEF uploading, UploadInv
      <3>2. transfers[t] \in {"pending", "active"}
        BY <2>1, <3>1 DEF uploading, UploadOK, UploadProgress
      <3> QED BY <3>1, <3>2 DEF countedTransfers, UploadOK, UploadProgress
    <2>2. /\ IsFiniteSet(countedTransfers(s)) /\ getActiveCount(s) \in Nat
          /\ getActiveCount(s) <= MaxConcurrent
      BY CountedFinite DEF LimitRespected
    <2>3. /\ IsFiniteSet(uploading(s))
          /\ Cardinality(uploading(s)) <= Cardinality(countedTransfers(s))
      BY <2>1, <2>2, FS_Subset
    <2> QED BY <2>2, <2>3, FS_CardinalityType DEF getActiveCount
  <1> QED BY <1>1, UploadInvariant, UploadLimit, PTL

-----------------------------------------------------------------------------
(***************************************************************************)
(* One download (SftpDownload).                                            *)
(***************************************************************************)

\* Where the loop is: nothing is read before the file is open, everything is
\* released at the end, and an error ends the promise.
PhaseOK ==
    /\ phase \in {"idle", "setup", "opening"} =>
         /\ reads = {} /\ chunkBuffer = {} /\ sent = << >> /\ answers = << >>
         /\ nextChunkToEmit = 0 /\ ~isEmitting /\ ~hasError /\ fileHandle = "none"
    /\ phase \in {"idle", "setup"} => transfers[Self] = "absent"
    /\ phase = "streaming" => ~hasError /\ answers = << >> /\ fileHandle = "open"
    /\ phase = "ended" => fileHandle # "open" /\ transfers[Self] = "absent"
    /\ phase = "ended" /\ ~hasError => reads = {} /\ chunkBuffer = {} /\ ~isEmitting
    /\ hasError => phase = "ended"

\* cancelDownload() deletes the entry that it marks, so that the flag is never
\* raised.
NeverCancelled == ~cancelled /\ downloadStreams # "cancelled"

\* What is emitted: the chunks in order, one of them under way if isEmitting.
EmittedOK ==
    /\ ChunksInOrder
    /\ Len(sent) = nextChunkToEmit + (IF isEmitting THEN 1 ELSE 0)

\* A read that failed leaves a gap, which the emitting loop never passes.
GapAfterError == hasError => \E m \in Chunks : m >= Len(sent) /\ m \notin chunkBuffer

DownloadInv ==
    /\ DownloadTypeOK /\ PhaseOK /\ NeverCancelled /\ EmittedOK /\ GapAfterError
    /\ NoChunkStranded /\ CompleteSentAll /\ AnsweredOnce

-------------------------------------------------------------------------------
USE TransferAssumption, DownloadAssumption

\* An interval of chunk numbers that ends below d.
LEMMA IntervalInside ==
    ASSUME NEW a \in Nat, NEW c \in Nat, NEW d \in Nat, c <= d
    PROVE  a .. c - 1 \subseteq 0 .. d - 1
  OBVIOUS

\* One turn of the emitting loop: if chunk k, the next one, is in the buffer it
\* leaves the buffer and extends what was sent; if not nothing happens.
LEMMA EmitStep ==
    ASSUME DownloadTypeOK, ChunksInOrder,
           NEW buffer \in SUBSET Chunks, NEW k \in Nat, Len(sent) = k, emitNext(buffer, k)
    PROVE  /\ TransferTypeOK' /\ transfers' = transfers
           /\ sent' \in Seq(Chunks) /\ ChunksInOrder'
           /\ isEmitting' \in BOOLEAN /\ (isEmitting' <=> k \in buffer)
           /\ Len(sent') = k + (IF isEmitting' THEN 1 ELSE 0)
           /\ chunkBuffer' = buffer \ {k}
  <1>1. CASE k \in buffer
    <2>a. /\ chunkBuffer' = buffer \ {k} /\ isEmitting' = TRUE /\ sent' = Append(sent, k)
          /\ updateProgress(Self, k) \/ UNCHANGED managerVars
      BY <1>1, Zenon DEF emitNext
    <2>b. /\ transfers' = transfers /\ transferSession' = transferSession
          /\ nextChunkIndex' \in [Transfers -> Nat]
      <3>1. CASE updateProgress(Self, k)
        BY <3>1 DEF updateProgress, DownloadTypeOK, TransferTypeOK
      <3>2. CASE UNCHANGED managerVars
        BY <3>2 DEF managerVars, DownloadTypeOK, TransferTypeOK
      <3> QED BY <2>a, <3>1, <3>2
    <2>1. /\ chunkBuffer' = buffer \ {k} /\ isEmitting' = TRUE /\ sent' = Append(sent, k)
          /\ transfers' = transfers /\ transferSession' = transferSession
          /\ nextChunkIndex' \in [Transfers -> Nat]
      BY <2>a, <2>b
    <2>2. sent' \in Seq(Chunks) /\ Len(sent') = k + 1
      BY <1>1, <2>1 DEF DownloadTypeOK
    <2>3. ASSUME NEW j \in 1 .. Len(sent') PROVE sent'[j] = j - 1
      <3>1. CASE j \in 1 .. Len(sent)
        BY <2>1, <3>1 DEF ChunksInOrder, DownloadTypeOK
      <3>2. CASE j = Len(sent) + 1
        BY <2>1, <3>2 DEF DownloadTypeOK
      <3>3. Len(sent') = Len(sent) + 1 /\ Len(sent) \in Nat
        BY <2>2
      <3> QED BY <3>1, <3>2, <3>3
    <2>4. TransferTypeOK'
      BY <2>1 DEF TransferTypeOK, DownloadTypeOK
    <2>5. isEmitting' \in BOOLEAN /\ (isEmitting' <=> k \in buffer)
      BY <1>1, <2>1
    <2> QED BY <1>1, <2>1, <2>2, <2>3, <2>4, <2>5 DEF ChunksInOrder
  <1>2. CASE k \notin buffer
    <2>1. chunkBuffer' = buffer /\ isEmitting' = FALSE /\ UNCHANGED <<managerVars, sent>>
      BY <1>2, Zenon DEF emitNext
    <2>2. TransferTypeOK' /\ transfers' = transfers
      BY <2>1 DEF managerVars, TransferTypeOK, DownloadTypeOK
    <2>3. sent' \in Seq(Chunks) /\ ChunksInOrder' /\ Len(sent') = k
      BY <2>1 DEF ChunksInOrder, DownloadTypeOK
    <2>4. isEmitting' \in BOOLEAN /\ (isEmitting' <=> k \in buffer)
      BY <1>2, <2>1
    <2>5. chunkBuffer' = buffer \ {k}
      BY <1>2, <2>1
    <2> QED BY <1>2, <2>1, <2>2, <2>3, <2>4, <2>5
  <1> QED BY <1>1, <1>2

\* The invariant holds at the start.
LEMMA DownloadInitInv == DownloadInit => DownloadInv
  <1> SUFFICES ASSUME DownloadInit PROVE DownloadInv
    OBVIOUS
  <1>1. TransferTypeOK
    BY DEF DownloadInit, TransferInit, TransferTypeOK
  <1>2. transfers[Self] = "absent"
    BY DEF DownloadInit, TransferInit
  <1>3. DownloadTypeOK
    <2>1. << >> \in Seq(Chunks) /\ << >> \in Seq({"complete", "error"})
      OBVIOUS
    <2>2. 0 \in 0 .. totalChunks
      OBVIOUS
    <2> QED BY <1>1, <2>1, <2>2 DEF DownloadInit, DownloadTypeOK
  <1>4. PhaseOK
    BY <1>2 DEF DownloadInit, PhaseOK
  <1>5. EmittedOK
    BY DEF DownloadInit, EmittedOK, ChunksInOrder
  <1>6. NeverCancelled /\ GapAfterError /\ NoChunkStranded /\ CompleteSentAll /\ AnsweredOnce
    BY DEF DownloadInit, NeverCancelled, GapAfterError, NoChunkStranded, CompleteSentAll,
           AnsweredOnce
  <1> QED BY <1>3, <1>4, <1>5, <1>6 DEF DownloadInv

\* Deleting the transfer keeps the table well typed.
LEMMA DeleteSelf ==
    ASSUME TransferTypeOK, deleteTransfers({Self})
    PROVE  TransferTypeOK' /\ transfers'[Self] = "absent"
  BY DEF TransferTypeOK, deleteTransfers

\* An answered read: the chunk goes to the buffer, the next one that is due is
\* emitted, and another read starts.
LEMMA ReadDoneKeeps ==
    ASSUME DownloadInv, NEW i \in Chunks, ReadDone(i)
    PROVE  DownloadInv'
  <1> DEFINE n == Len(sent)
             r == nextChunkToRead
             b == chunkBuffer \cup {i}
  <1>1. DownloadTypeOK /\ PhaseOK /\ NeverCancelled /\ EmittedOK /\ NoChunkStranded
    BY DEF DownloadInv
  <1>2. /\ i \in reads /\ ~hasError /\ readNext(i)
        /\ UNCHANGED <<phase, nextChunkToEmit, hasError, cancelled, downloadStreams, fileHandle,
                       answers>>
    BY DEF ReadDone
  <1>3. phase = "streaming" /\ fileHandle = "open" /\ answers = << >>
    BY <1>1, <1>2 DEF PhaseOK, DownloadTypeOK
  <1>4. n \in Nat /\ r \in Nat /\ r <= totalChunks /\ nextChunkToEmit \in Nat
    BY <1>1 DEF DownloadTypeOK
  <1>5. reads \cap chunkBuffer = {} /\ reads \cup chunkBuffer = n .. r - 1
    BY <1>1, <1>3 DEF NoChunkStranded
  <1>6. /\ nextChunkToRead' \in 0 .. totalChunks
        /\ reads' = (reads \ {i}) \cup (r .. nextChunkToRead' - 1)
        /\ nextChunkToRead' >= r
    <2>1. CASE r < totalChunks
      <3>1. nextChunkToRead' = r + 1 /\ reads' = (reads \ {i}) \cup {r}
        BY <1>2, <1>3, <2>1 DEF readNext
      <3>2. r .. (r + 1) - 1 = {r}
        BY <1>4
      <3> QED BY <1>4, <2>1, <3>1, <3>2
    <2>2. CASE ~ (r < totalChunks)
      <3>1. nextChunkToRead' = r /\ reads' = reads \ {i}
        BY <1>2, <2>2 DEF readNext
      <3>2. r .. r - 1 = {}
        BY <1>4
      <3> QED BY <1>4, <2>2, <3>1, <3>2
    <2> QED BY <2>1, <2>2
  <1>7. reads' \subseteq Chunks /\ b \subseteq Chunks
    <2>1. reads \subseteq Chunks /\ b \subseteq Chunks
      BY <1>1 DEF DownloadTypeOK
    <2>2. r .. nextChunkToRead' - 1 \subseteq Chunks
      <3>1. nextChunkToRead' \in Nat /\ nextChunkToRead' <= totalChunks
        BY <1>6
      <3> QED BY <1>4, <3>1, IntervalInside DEF Chunks
    <2> QED BY <1>6, <2>1, <2>2
  <1>8. reads' \cap b = {} /\ reads' \cup b = n .. nextChunkToRead' - 1
    BY <1>2, <1>4, <1>5, <1>6
  <1>9. /\ TransferTypeOK' /\ sent' \in Seq(Chunks)
        /\ isEmitting' \in BOOLEAN /\ EmittedOK'
        /\ Len(sent') >= n /\ chunkBuffer' = b \ (n .. Len(sent') - 1)
        /\ Len(sent') > n => n \in b
        /\ nextChunkToEmit \in chunkBuffer' => isEmitting'
        /\ Len(sent') \in {n, n + 1}
    <2>1. CASE isEmitting
      <3>1. /\ chunkBuffer' = b
            /\ UNCHANGED <<managerVars, sent, isEmitting>>
        BY <2>1 DEF ReadDone
      <3>2. n .. Len(sent') - 1 = {}
        BY <1>4, <3>1
      <3>3. EmittedOK' /\ TransferTypeOK'
        BY <1>1, <1>2, <3>1 DEF EmittedOK, ChunksInOrder, managerVars, DownloadTypeOK,
                                TransferTypeOK
      <3> QED BY <1>1, <1>4, <2>1, <3>1, <3>2, <3>3 DEF DownloadTypeOK
    <2>2. CASE ~isEmitting
      <3>1. n = nextChunkToEmit /\ emitNext(b, n)
        BY <1>1, <1>4, <2>2 DEF EmittedOK, ReadDone
      <3>2. /\ TransferTypeOK' /\ sent' \in Seq(Chunks) /\ ChunksInOrder'
            /\ isEmitting' \in BOOLEAN /\ (isEmitting' <=> n \in b)
            /\ Len(sent') = n + (IF isEmitting' THEN 1 ELSE 0)
            /\ chunkBuffer' = b \ {n}
        BY <1>1, <1>4, <1>7, <3>1, EmitStep DEF EmittedOK
      <3>3. b \ {n} = b \ (n .. Len(sent') - 1)
        BY <1>4, <3>2
      <3> QED BY <1>2, <1>4, <3>1, <3>2, <3>3 DEF EmittedOK
    <2> QED BY <2>1, <2>2
  <1>10. chunkBuffer' \subseteq Chunks
    BY <1>7, <1>9
  <1>11. DownloadTypeOK'
    BY <1>1, <1>2, <1>6, <1>7, <1>9, <1>10 DEF DownloadTypeOK
  <1>12. PhaseOK' /\ NeverCancelled' /\ GapAfterError' /\ CompleteSentAll' /\ AnsweredOnce'
    BY <1>1, <1>2, <1>3 DEF PhaseOK, NeverCancelled, GapAfterError, CompleteSentAll, AnsweredOnce
  <1>13. NoChunkStranded'
    <2>1. reads' \cap chunkBuffer' = {}
      BY <1>8, <1>9
    <2>2. n \notin reads' \/ Len(sent') = n
      BY <1>8, <1>9, <1>4
    <2>3. reads' \cup chunkBuffer' = Len(sent') .. nextChunkToRead' - 1
      BY <1>4, <1>6, <1>8, <1>9, <2>2
    <2> QED BY <1>2, <1>9, <2>1, <2>3 DEF NoChunkStranded
  <1> QED BY <1>9, <1>11, <1>12, <1>13 DEF DownloadInv

\* The emitting loop goes on; it reaches the last chunk only if no read failed.
LEMMA DrainedKeeps ==
    ASSUME DownloadInv, Drained
    PROVE  DownloadInv'
  <1> DEFINE n == Len(sent)
  <1>1. /\ DownloadTypeOK /\ PhaseOK /\ NeverCancelled /\ EmittedOK /\ NoChunkStranded
        /\ GapAfterError /\ CompleteSentAll /\ AnsweredOnce
    BY DEF DownloadInv
  <1>2. isEmitting /\ n = nextChunkToEmit + 1 /\ nextChunkToEmit \in Nat /\ n \in Nat
    BY <1>1 DEF Drained, EmittedOK, DownloadTypeOK
  <1>3. phase = "streaming" \/ hasError
    BY <1>1, <1>2 DEF PhaseOK, DownloadTypeOK
  <1>4. CASE nextChunkToEmit = totalChunks - 1
    <2>1. n = totalChunks /\ completeDownload
      BY <1>2, <1>4 DEF Drained
    <2>2. ~hasError /\ phase = "streaming" /\ answers = << >>
      <3>1. ~hasError
        BY <1>1, <2>1 DEF GapAfterError, Chunks
      <3> QED BY <1>1, <1>3, <3>1 DEF PhaseOK
    <2>3. /\ downloadStreams' = "none" /\ fileHandle' = "closed" /\ deleteTransfers({Self})
          /\ phase' = "ended" /\ nextChunkToEmit' = nextChunkToEmit + 1 /\ isEmitting' = FALSE
          /\ UNCHANGED <<reads, nextChunkToRead, chunkBuffer, hasError, cancelled, sent>>
          /\ answers' \in {<< >>, <<"complete">>}
      BY <2>1, <2>2 DEF completeDownload, cleanup
    <2>4. TransferTypeOK' /\ transfers'[Self] = "absent"
      BY <1>1, <2>3, DeleteSelf DEF DownloadTypeOK
    <2>5. reads = {} /\ chunkBuffer = {}
      <3>1. reads \cup chunkBuffer = totalChunks .. nextChunkToRead - 1
        BY <1>1, <2>1, <2>2 DEF NoChunkStranded
      <3>2. nextChunkToRead <= totalChunks /\ nextChunkToRead \in Nat
        BY <1>1 DEF DownloadTypeOK
      <3>3. totalChunks .. nextChunkToRead - 1 = {}
        BY <3>2
      <3> QED BY <3>1, <3>3
    <2>6. answers' \in Seq({"complete", "error"}) /\ Len(answers') <= 1
      <3>1. CASE answers' = << >>
        BY <3>1
      <3>2. CASE answers' = <<"complete">>
        BY <3>2
      <3> QED BY <2>3, <3>1, <3>2
    <2>7. DownloadTypeOK'
      <3>1. nextChunkToEmit' \in 0 .. totalChunks
        BY <1>2, <2>1, <2>3
      <3> QED BY <1>1, <2>3, <2>4, <2>6, <3>1 DEF DownloadTypeOK
    <2>8. PhaseOK' /\ NeverCancelled'
      BY <1>1, <2>2, <2>3, <2>4, <2>5 DEF PhaseOK, NeverCancelled
    <2>9. EmittedOK'
      BY <1>1, <1>2, <2>3 DEF EmittedOK, ChunksInOrder
    <2>10. GapAfterError' /\ NoChunkStranded' /\ AnsweredOnce'
      BY <2>2, <2>3, <2>6 DEF GapAfterError, NoChunkStranded, AnsweredOnce
    <2>11. CompleteSentAll'
      BY <2>1, <2>3, <2>4, <2>5 DEF CompleteSentAll
    <2> QED BY <2>7, <2>8, <2>9, <2>10, <2>11 DEF DownloadInv
  <1>5. CASE nextChunkToEmit # totalChunks - 1
    <2>1. /\ nextChunkToEmit' = n /\ emitNext(chunkBuffer, n)
          /\ UNCHANGED <<phase, reads, nextChunkToRead, hasError, cancelled, downloadStreams,
                         fileHandle, answers>>
      BY <1>2, <1>5 DEF Drained
    <2>2. /\ TransferTypeOK' /\ transfers' = transfers
          /\ sent' \in Seq(Chunks) /\ ChunksInOrder'
          /\ isEmitting' \in BOOLEAN /\ (isEmitting' <=> n \in chunkBuffer)
          /\ Len(sent') = n + (IF isEmitting' THEN 1 ELSE 0)
          /\ chunkBuffer' = chunkBuffer \ {n}
      BY <1>1, <1>2, <2>1, EmitStep DEF EmittedOK, DownloadTypeOK
    <2>3. chunkBuffer' \subseteq Chunks
      BY <1>1, <2>2 DEF DownloadTypeOK
    <2>4. nextChunkToEmit' \in 0 .. totalChunks
      <3>1. sent \in Seq(Chunks) /\ ChunksInOrder /\ n \in 1 .. Len(sent)
        BY <1>1, <1>2 DEF DownloadTypeOK, EmittedOK
      <3>2. sent[n] = n - 1 /\ sent[n] \in Chunks
        BY <3>1 DEF ChunksInOrder
      <3>3. n - 1 \in 0 .. totalChunks - 1
        BY <3>2 DEF Chunks
      <3> QED BY <1>2, <2>1, <3>3
    <2>5. DownloadTypeOK'
      BY <1>1, <2>1, <2>2, <2>3, <2>4 DEF DownloadTypeOK
    <2>6. EmittedOK'
      BY <2>1, <2>2 DEF EmittedOK
    <2>7. GapAfterError'
      <3> SUFFICES ASSUME hasError'
                   PROVE  \E m \in Chunks : m >= Len(sent') /\ m \notin chunkBuffer'
        BY DEF GapAfterError
      <3>1. PICK m \in Chunks : m >= n /\ m \notin chunkBuffer
        BY <1>1, <2>1 DEF GapAfterError
      <3>2. m >= Len(sent') /\ m \notin chunkBuffer'
        BY <1>2, <2>2, <3>1 DEF Chunks
      <3> QED BY <3>2
    <2>8. NoChunkStranded'
      <3> SUFFICES ASSUME phase = "streaming" PROVE NoChunkStranded'
        BY <2>1 DEF NoChunkStranded
      <3>1. /\ reads \cap chunkBuffer = {}
            /\ reads \cup chunkBuffer = n .. nextChunkToRead - 1
            /\ nextChunkToRead \in Nat
        BY <1>1 DEF NoChunkStranded, DownloadTypeOK
      <3>2. reads' \cup chunkBuffer' = Len(sent') .. nextChunkToRead' - 1
        <4>1. CASE n \in chunkBuffer
          BY <1>2, <2>1, <2>2, <3>1, <4>1
        <4>2. CASE n \notin chunkBuffer
          BY <1>2, <2>1, <2>2, <3>1, <4>2
        <4> QED BY <4>1, <4>2
      <3> QED BY <2>1, <2>2, <3>1, <3>2 DEF NoChunkStranded
    <2>9. PhaseOK'
      BY <1>1, <1>3, <2>1, <2>2 DEF PhaseOK
    <2>10. CompleteSentAll'
      <3> SUFFICES ASSUME NEW k \in 1 .. Len(answers), answers[k] = "complete" PROVE FALSE
        BY <2>1 DEF CompleteSentAll
      <3>1. n = totalChunks /\ chunkBuffer = {}
        BY <1>1 DEF CompleteSentAll
      <3> QED BY <1>2, <1>5, <3>1
    <2>11. NeverCancelled' /\ AnsweredOnce'
      BY <1>1, <2>1 DEF NeverCancelled, AnsweredOnce
    <2> QED BY <2>5, <2>6, <2>7, <2>8, <2>9, <2>10, <2>11 DEF DownloadInv
  <1> QED BY <1>4, <1>5

\* The first read that fails ends the download; its chunk is the gap.
LEMMA ReadFailsKeeps ==
    ASSUME DownloadInv, NEW i \in Chunks, ReadFails(i)
    PROVE  DownloadInv'
  <1>1. /\ DownloadTypeOK /\ PhaseOK /\ NeverCancelled /\ EmittedOK /\ NoChunkStranded
    BY DEF DownloadInv
  <1>2. /\ i \in reads /\ ~hasError /\ hasError' = TRUE /\ deleteTransfers({Self})
        /\ downloadStreams' = "none" /\ fileHandle' = "closed" /\ phase' = "ended"
        /\ answers' = Append(answers, "error") /\ reads' = reads \ {i}
        /\ UNCHANGED <<nextChunkToRead, chunkBuffer, nextChunkToEmit, isEmitting, cancelled, sent>>
    BY DEF ReadFails, cleanup, cancelTransfer
  <1>3. phase = "streaming" /\ answers = << >>
    BY <1>1, <1>2 DEF PhaseOK, DownloadTypeOK
  <1>4. TransferTypeOK' /\ transfers'[Self] = "absent"
    BY <1>1, <1>2, DeleteSelf DEF DownloadTypeOK
  <1>5. /\ answers' = <<"error">> /\ Len(answers') = 1 /\ answers' \in Seq({"complete", "error"})
        /\ answers'[1] = "error"
    BY <1>2, <1>3
  <1>6. DownloadTypeOK'
    BY <1>1, <1>2, <1>4, <1>5 DEF DownloadTypeOK
  <1>7. PhaseOK' /\ NeverCancelled'
    BY <1>1, <1>2, <1>4 DEF PhaseOK, NeverCancelled
  <1>8. EmittedOK'
    BY <1>1, <1>2 DEF EmittedOK, ChunksInOrder
  <1>9. GapAfterError'
    <2>1. i \in Len(sent) .. nextChunkToRead - 1 /\ i \notin chunkBuffer
      BY <1>1, <1>2, <1>3 DEF NoChunkStranded
    <2>2. Len(sent) \in Nat /\ nextChunkToRead \in Nat
      BY <1>1 DEF DownloadTypeOK
    <2>3. i >= Len(sent)
      BY <2>1, <2>2
    <2> QED BY <1>2, <2>1, <2>3 DEF GapAfterError
  <1>10. NoChunkStranded' /\ CompleteSentAll' /\ AnsweredOnce'
    BY <1>2, <1>5 DEF NoChunkStranded, CompleteSentAll, AnsweredOnce
  <1> QED BY <1>6, <1>7, <1>8, <1>9, <1>10 DEF DownloadInv

\* The steps before the file is open.
LEMMA DownloadStartKeeps ==
    ASSUME DownloadInv, handleDownloadStart \/ StartFails \/ StartDownload \/ FileOpenFails \/ FileOpened
    PROVE  DownloadInv'
  <1>1. DownloadTypeOK /\ PhaseOK /\ NeverCancelled /\ EmittedOK
    BY DEF DownloadInv
  <1>2. /\ phase \in {"idle", "setup", "opening"}
        /\ reads = {} /\ chunkBuffer = {} /\ sent = << >> /\ answers = << >>
        /\ nextChunkToEmit = 0 /\ ~isEmitting /\ ~hasError /\ fileHandle = "none"
    BY <1>1 DEF PhaseOK, handleDownloadStart, StartFails, StartDownload, FileOpenFails, FileOpened
  <1>3. /\ UNCHANGED <<chunkBuffer, nextChunkToEmit, isEmitting, hasError, sent>>
        /\ ~cancelled' /\ downloadStreams' \in {"none", "running"}
    BY <1>1 DEF NeverCancelled, DownloadTypeOK, handleDownloadStart, StartFails, StartDownload,
                FileOpenFails, FileOpened, cleanup
  <1>4. EmittedOK' /\ GapAfterError' /\ NeverCancelled'
    BY <1>1, <1>2, <1>3 DEF EmittedOK, ChunksInOrder, GapAfterError, NeverCancelled
  <1>5. /\ answers' \in Seq({"complete", "error"}) /\ AnsweredOnce' /\ CompleteSentAll'
        /\ answers' \in {<< >>, <<"error">>}
    <2>1. answers' = << >> \/ answers' = <<"error">>
      BY <1>2 DEF handleDownloadStart, StartFails, StartDownload, FileOpenFails, FileOpened
    <2>2. CASE answers' = << >>
      BY <2>2 DEF AnsweredOnce, CompleteSentAll
    <2>3. CASE answers' = <<"error">>
      <3>1. Len(answers') = 1 /\ answers'[1] = "error" /\ answers' \in Seq({"complete", "error"})
        BY <2>3
      <3> QED BY <2>3, <3>1 DEF AnsweredOnce, CompleteSentAll
    <2> QED BY <2>1, <2>2, <2>3
  <1>6. CASE handleDownloadStart
    <2>1. DownloadTypeOK'
      BY <1>1, <1>2, <1>3, <1>5, <1>6 DEF handleDownloadStart, managerVars, DownloadTypeOK,
                                         TransferTypeOK
    <2>2. PhaseOK'
      BY <1>1, <1>2, <1>6 DEF handleDownloadStart, managerVars, PhaseOK
    <2>3. NoChunkStranded'
      BY <1>6 DEF handleDownloadStart, NoChunkStranded
    <2> QED BY <1>4, <1>5, <2>1, <2>2, <2>3 DEF DownloadInv
  <1>7. CASE StartFails
    <2>1. DownloadTypeOK'
      BY <1>1, <1>2, <1>3, <1>5, <1>7 DEF StartFails, managerVars, DownloadTypeOK, TransferTypeOK
    <2>2. PhaseOK'
      BY <1>1, <1>2, <1>7 DEF StartFails, managerVars, PhaseOK
    <2>3. NoChunkStranded'
      BY <1>7 DEF StartFails, NoChunkStranded
    <2> QED BY <1>4, <1>5, <2>1, <2>2, <2>3 DEF DownloadInv
  <1>8. CASE StartDownload
    <2>1. TransferTypeOK'
      BY <1>1, <1>8 DEF StartDownload, TransferTypeOK, DownloadTypeOK
    <2>2. DownloadTypeOK'
      BY <1>1, <1>2, <1>3, <1>5, <1>8, <2>1 DEF StartDownload, DownloadTypeOK
    <2>3. PhaseOK'
      BY <1>1, <1>2, <1>8 DEF StartDownload, PhaseOK
    <2>4. NoChunkStranded'
      BY <1>8 DEF StartDownload, NoChunkStranded
    <2> QED BY <1>4, <1>5, <2>2, <2>3, <2>4 DEF DownloadInv
  <1>9. CASE FileOpenFails
    <2>1. TransferTypeOK' /\ transfers'[Self] = "absent"
      BY <1>1, <1>9, DeleteSelf DEF FileOpenFails, cancelTransfer, DownloadTypeOK
    <2>2. DownloadTypeOK'
      BY <1>1, <1>2, <1>3, <1>5, <1>9, <2>1 DEF FileOpenFails, DownloadTypeOK
    <2>3. PhaseOK'
      BY <1>1, <1>2, <1>9, <2>1 DEF FileOpenFails, PhaseOK
    <2>4. NoChunkStranded'
      BY <1>9 DEF FileOpenFails, NoChunkStranded
    <2> QED BY <1>4, <1>5, <2>2, <2>3, <2>4 DEF DownloadInv
  <1>10. CASE FileOpened
    <2>1. /\ phase' = "streaming" /\ fileHandle' = "open" /\ answers' = answers
          /\ nextChunkToRead' = initialReads /\ reads' = 0 .. initialReads - 1
          /\ UNCHANGED managerVars
      BY <1>3, <1>10 DEF FileOpened
    <2>2. initialReads \in Nat /\ initialReads <= totalChunks
      BY DEF initialReads
    <2>3. reads' \subseteq Chunks /\ nextChunkToRead' \in 0 .. totalChunks
      BY <2>1, <2>2, IntervalInside DEF Chunks
    <2>4. TransferTypeOK'
      BY <1>1, <2>1 DEF managerVars, DownloadTypeOK, TransferTypeOK
    <2>a. cancelled' \in BOOLEAN
      BY <1>1, <1>10 DEF FileOpened, DownloadTypeOK
    <2>5. DownloadTypeOK'
      BY <1>1, <1>2, <1>3, <1>5, <2>1, <2>3, <2>4, <2>a DEF DownloadTypeOK
    <2>6. PhaseOK'
      BY <1>2, <1>3, <2>1 DEF PhaseOK
    <2>7. NoChunkStranded'
      BY <1>2, <1>3, <2>1 DEF NoChunkStranded
    <2> QED BY <1>4, <1>5, <2>5, <2>6, <2>7 DEF DownloadInv
  <1> QED BY <1>6, <1>7, <1>8, <1>9, <1>10

\* A dropped answer and a cancel touch nothing that the loop relies on.
LEMMA QuietKeeps ==
    ASSUME DownloadInv, (\E i \in Chunks : ReadIgnored(i)) \/ handleDownloadCancel
    PROVE  DownloadInv'
  <1>1. /\ DownloadTypeOK /\ PhaseOK /\ NeverCancelled /\ EmittedOK /\ NoChunkStranded
        /\ GapAfterError /\ CompleteSentAll /\ AnsweredOnce
    BY DEF DownloadInv
  <1>2. CASE \E i \in Chunks : ReadIgnored(i)
    <2>1. PICK i \in Chunks : ReadIgnored(i)
      BY <1>2
    <2>2. /\ reads' = reads \ {i} /\ hasError
          /\ UNCHANGED <<managerVars, phase, nextChunkToRead, chunkBuffer, nextChunkToEmit,
                         isEmitting, hasError, cancelled, downloadStreams, fileHandle, sent,
                         answers>>
      BY <1>1, <2>1 DEF ReadIgnored, NeverCancelled
    <2>3. TransferTypeOK' /\ transfers' = transfers
      BY <1>1, <2>2 DEF managerVars, DownloadTypeOK, TransferTypeOK
    <2>4. DownloadTypeOK'
      BY <1>1, <2>2, <2>3 DEF DownloadTypeOK
    <2>5. PhaseOK' /\ NoChunkStranded'
      BY <1>1, <2>2, <2>3 DEF PhaseOK, NoChunkStranded
    <2>6. EmittedOK' /\ GapAfterError' /\ NeverCancelled' /\ AnsweredOnce'
      BY <1>1, <2>2 DEF EmittedOK, ChunksInOrder, GapAfterError, NeverCancelled, AnsweredOnce
    <2>7. CompleteSentAll'
      BY <1>1, <2>2, <2>3 DEF CompleteSentAll
    <2> QED BY <2>4, <2>5, <2>6, <2>7 DEF DownloadInv
  <1>3. CASE handleDownloadCancel
    <2>1. /\ downloadStreams' = "none" /\ deleteTransfers({Self})
          /\ UNCHANGED <<phase, reads, nextChunkToRead, chunkBuffer, nextChunkToEmit, isEmitting,
                         hasError, cancelled, fileHandle, sent, answers>>
      BY <1>3 DEF handleDownloadCancel, cancelDownload, cancelTransfer
    <2>2. TransferTypeOK' /\ transfers'[Self] = "absent"
      BY <1>1, <2>1, DeleteSelf DEF DownloadTypeOK
    <2>3. DownloadTypeOK'
      BY <1>1, <2>1, <2>2 DEF DownloadTypeOK
    <2>4. PhaseOK' /\ NoChunkStranded'
      BY <1>1, <2>1, <2>2 DEF PhaseOK, NoChunkStranded
    <2>5. EmittedOK' /\ GapAfterError' /\ NeverCancelled' /\ AnsweredOnce'
      BY <1>1, <2>1 DEF EmittedOK, ChunksInOrder, GapAfterError, NeverCancelled, AnsweredOnce
    <2>6. CompleteSentAll'
      BY <1>1, <2>1, <2>2 DEF CompleteSentAll
    <2> QED BY <2>3, <2>4, <2>5, <2>6 DEF DownloadInv
  <1> QED BY <1>2, <1>3

\* A stuttering step changes nothing.
LEMMA StutterKeeps ==
    ASSUME DownloadInv, UNCHANGED downloadVars
    PROVE  DownloadInv'
  BY DEF downloadVars, managerVars, loopVars, DownloadInv, DownloadTypeOK, TransferTypeOK, PhaseOK,
         NeverCancelled, EmittedOK, ChunksInOrder, GapAfterError, NoChunkStranded,
         CompleteSentAll, AnsweredOnce

\* The invariant of the download holds in every reachable state.
THEOREM DownloadInvariant == DownloadSpec => []DownloadInv
  <1>1. DownloadInv /\ [DownloadNext]_downloadVars => DownloadInv'
    <2> SUFFICES ASSUME DownloadInv, [DownloadNext]_downloadVars PROVE DownloadInv'
      OBVIOUS
    <2>1. CASE handleDownloadStart \/ StartFails \/ StartDownload \/ FileOpenFails \/ FileOpened
      BY <2>1, DownloadStartKeeps
    <2>2. ASSUME NEW i \in Chunks, ReadDone(i) PROVE DownloadInv'
      BY <2>2, ReadDoneKeeps
    <2>3. ASSUME NEW i \in Chunks, ReadFails(i) PROVE DownloadInv'
      BY <2>3, ReadFailsKeeps
    <2>4. CASE Drained
      BY <2>4, DrainedKeeps
    <2>5. CASE (\E i \in Chunks : ReadIgnored(i)) \/ handleDownloadCancel
      BY <2>5, QuietKeeps
    <2>6. CASE UNCHANGED downloadVars
      BY <2>6, StutterKeeps
    <2> QED BY <2>1, <2>2, <2>3, <2>4, <2>5, <2>6, Zenon DEF DownloadNext
  <1> QED BY <1>1, DownloadInitInv, PTL DEF DownloadSpec

\* The variables of a download are well typed.
THEOREM DownloadTypeCorrect == DownloadSpec => []DownloadTypeOK
  <1>1. DownloadInv => DownloadTypeOK
    BY DEF DownloadInv
  <1> QED BY <1>1, DownloadInvariant, PTL

\* For every size and every degree of parallelism the browser gets the chunks
\* in order and without a gap.
THEOREM DownloadInOrder == DownloadSpec => []ChunksInOrder
  <1>1. DownloadInv => ChunksInOrder
    BY DEF DownloadInv, EmittedOK
  <1> QED BY <1>1, DownloadInvariant, PTL

\* No chunk that was asked for is lost between the reads, the buffer and the
\* socket.
THEOREM DownloadStrandsNothing == DownloadSpec => []NoChunkStranded
  <1>1. DownloadInv => NoChunkStranded
    BY DEF DownloadInv
  <1> QED BY <1>1, DownloadInvariant, PTL

\* onComplete means that every chunk was sent and everything was released.
THEOREM DownloadSendsAll == DownloadSpec => []CompleteSentAll
  <1>1. DownloadInv => CompleteSentAll
    BY DEF DownloadInv
  <1> QED BY <1>1, DownloadInvariant, PTL

\* A download is answered at most once.
THEOREM DownloadAnsweredOnce == DownloadSpec => []AnsweredOnce
  <1>1. DownloadInv => AnsweredOnce
    BY DEF DownloadInv
  <1> QED BY <1>1, DownloadInvariant, PTL

\* The end of a download releases the handle and the slot.
THEOREM DownloadReleases == DownloadSpec => []EndReleases
  <1>1. DownloadInv => EndReleases
    BY DEF DownloadInv, PhaseOK, EndReleases
  <1> QED BY <1>1, DownloadInvariant, PTL

\* No more than DOWNLOAD_CONCURRENCY reads are in flight: an answer frees one
\* place and starts at most one read.
THEOREM DownloadReadsBounded == DownloadSpec => []ReadsBounded
  <1> DEFINE B == IsFiniteSet(reads) /\ ReadsBounded
  <1>1. DownloadInit => B
    BY FS_EmptySet DEF DownloadInit, ReadsBounded
  <1>2. DownloadInv /\ B /\ [DownloadNext]_downloadVars => B'
    <2> SUFFICES ASSUME DownloadInv, B, [DownloadNext]_downloadVars PROVE B'
      OBVIOUS
    <2>1. IsFiniteSet(reads) /\ Cardinality(reads) \in Nat /\ Cardinality(reads) <= concurrency
      BY FS_CardinalityType DEF ReadsBounded
    <2>2. ASSUME NEW i \in Chunks, i \in reads PROVE
             /\ IsFiniteSet(reads \ {i}) /\ Cardinality(reads \ {i}) = Cardinality(reads) - 1
      BY <2>1, <2>2, FS_RemoveElement
    <2>3. CASE reads' = reads
      BY <2>1, <2>3 DEF ReadsBounded
    <2>4. ASSUME NEW i \in Chunks, i \in reads, reads' = reads \ {i} PROVE B'
      BY <2>1, <2>2, <2>4 DEF ReadsBounded
    <2>5. ASSUME NEW i \in Chunks, ReadDone(i) PROVE B'
      <3>1. i \in reads /\ readNext(i)
        BY <2>5 DEF ReadDone
      <3>2. reads' = reads \ {i} \/ reads' = (reads \ {i}) \cup {nextChunkToRead}
        BY <3>1 DEF readNext
      <3>3. ASSUME reads' = (reads \ {i}) \cup {nextChunkToRead} PROVE B'
        <4>1. /\ IsFiniteSet((reads \ {i}) \cup {nextChunkToRead})
              /\ \/ Cardinality((reads \ {i}) \cup {nextChunkToRead}) = Cardinality(reads \ {i})
                 \/ Cardinality((reads \ {i}) \cup {nextChunkToRead}) = Cardinality(reads \ {i}) + 1
          BY <2>2, <3>1, FS_AddElement
        <4>2. Cardinality(reads \ {i}) = Cardinality(reads) - 1
          BY <2>2, <3>1
        <4>3. Cardinality((reads \ {i}) \cup {nextChunkToRead}) <= concurrency
          BY <2>1, <4>1, <4>2
        <4> QED BY <3>3, <4>1, <4>3 DEF ReadsBounded
      <3> QED BY <2>4, <3>1, <3>2, <3>3
    <2>6. CASE FileOpened
      <3>1. reads' = reads \/ reads' = 0 .. initialReads - 1
        BY <2>6 DEF FileOpened
      <3>2. initialReads \in Nat /\ initialReads <= concurrency
        BY DEF initialReads
      <3>3. /\ IsFiniteSet(0 .. initialReads - 1)
            /\ Cardinality(0 .. initialReads - 1) = initialReads
        BY <3>2, FS_Interval
      <3> QED BY <2>3, <3>1, <3>2, <3>3 DEF ReadsBounded
    <2>7. ASSUME NEW i \in Chunks, ReadFails(i) \/ ReadIgnored(i) PROVE B'
      BY <2>4, <2>7 DEF ReadFails, ReadIgnored
    <2>8. CASE Drained
      BY <2>3, <2>8 DEF Drained, completeDownload
    <2>9. CASE handleDownloadStart \/ StartFails \/ StartDownload \/ FileOpenFails \/ handleDownloadCancel
      BY <2>3, <2>9 DEF handleDownloadStart, StartFails, StartDownload, FileOpenFails, handleDownloadCancel, cancelDownload
    <2>10. CASE UNCHANGED downloadVars
      BY <2>3, <2>10 DEF downloadVars, loopVars
    <2> QED BY <2>5, <2>6, <2>7, <2>8, <2>9, <2>10, Zenon DEF DownloadNext
  <1>3. B => ReadsBounded
    OBVIOUS
  <1> QED BY <1>1, <1>2, <1>3, DownloadInvariant, PTL DEF DownloadSpec
===============================================================================
