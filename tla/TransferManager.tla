--------------------------- MODULE TransferManager ---------------------------
(***************************************************************************)
(* app/services/sftp/transfer-manager.ts: the table of file transfers, one *)
(* table for all sessions, with a limit on the transfers of one session.   *)
(* A chunk has size 1, so that bytesTransferred is nextChunkIndex.         *)
(*                                                                         *)
(* Every operation is an action that is enabled when the operation         *)
(* succeeds; an operation that answers with an error changes nothing.      *)
(* failTransfer, pauseTransfer and resumeTransfer have no caller and are   *)
(* left out, with the status "paused".                                     *)
(***************************************************************************)
EXTENDS Naturals, FiniteSets

CONSTANTS
    Transfers,       \* transfer ids
    Sessions,        \* session ids
    None,            \* null
    MaxConcurrent,   \* maxConcurrentTransfers
    MaxChunks        \* bound of the model: chunks per transfer

ASSUME TransferAssumption ==
    /\ IsFiniteSet(Transfers)
    /\ None \notin Sessions
    /\ MaxConcurrent \in Nat /\ MaxChunks \in Nat

VARIABLES
    transfers,       \* status of each id; "absent" is not in the map
    transferSession, \* transfer.sessionId
    nextChunkIndex   \* transfer.nextChunkIndex

managerVars == <<transfers, transferSession, nextChunkIndex>>

\* The table is well typed, and an id has a session exactly when it is present.
TransferTypeOK ==
    /\ transfers \in [Transfers -> {"absent", "pending", "active"}]
    /\ transferSession \in [Transfers -> Sessions \cup {None}]
    /\ nextChunkIndex \in [Transfers -> Nat]
    /\ \A t \in Transfers : (transfers[t] = "absent") = (transferSession[t] = None)

TransferInit ==
    /\ transfers = [t \in Transfers |-> "absent"]
    /\ transferSession = [t \in Transfers |-> None]
    /\ nextChunkIndex = [t \in Transfers |-> 0]

-------------------------------------------------------------------------------
\* Seeded fault: a transfer whose file is still being opened does not count.
countedTransfersActive(s) ==
    {t \in Transfers : transferSession[t] = s /\ transfers[t] = "active"}

countedTransfers(s) ==
    {t \in Transfers : transferSession[t] = s /\ transfers[t] \in {"pending", "active"}}

getActiveCount(s) == Cardinality(countedTransfers(s))

startTransfer(t, s) ==
    /\ getActiveCount(s) < MaxConcurrent
    /\ transfers[t] = "absent"
    /\ transfers' = [transfers EXCEPT ![t] = "pending"]
    /\ transferSession' = [transferSession EXCEPT ![t] = s]
    /\ nextChunkIndex' = [nextChunkIndex EXCEPT ![t] = 0]

activateTransfer(t) ==
    /\ transfers[t] = "pending"
    /\ transfers' = [transfers EXCEPT ![t] = "active"]
    /\ UNCHANGED <<transferSession, nextChunkIndex>>

updateProgress(t, i) ==
    /\ transfers[t] = "active"
    /\ i = nextChunkIndex[t]
    /\ nextChunkIndex' = [nextChunkIndex EXCEPT ![t] = i + 1]
    /\ UNCHANGED <<transfers, transferSession>>

\* The entries of T are deleted from the map.
deleteTransfers(T) ==
    /\ transfers' = [t \in Transfers |-> IF t \in T THEN "absent" ELSE transfers[t]]
    /\ transferSession' = [t \in Transfers |-> IF t \in T THEN None ELSE transferSession[t]]
    /\ nextChunkIndex' = [t \in Transfers |-> IF t \in T THEN 0 ELSE nextChunkIndex[t]]

\* completeTransfer() needs the entry, whatever its status.
completeTransfer(t) == transfers[t] # "absent" /\ deleteTransfers({t})

\* cancelTransfer() of an absent entry is fine.
cancelTransfer(t) == deleteTransfers({t})

cancelSessionTransfers(s) == deleteTransfers({t \in Transfers : transferSession[t] = s})

clearTransfers == deleteTransfers(Transfers)

verifyOwnership(t, s) == transferSession[t] = s

-------------------------------------------------------------------------------
\* What the file services call, in any order.
ServiceNext ==
    \/ \E t \in Transfers :
          \/ \E s \in Sessions : startTransfer(t, s)
          \/ activateTransfer(t) \/ completeTransfer(t) \/ cancelTransfer(t)
          \/ \E i \in 0 .. MaxChunks - 1 : updateProgress(t, i)
    \/ \E s \in Sessions : cancelSessionTransfers(s)
    \/ clearTransfers

ServiceSpec == TransferInit /\ [][ServiceNext]_managerVars

-------------------------------------------------------------------------------
\* "enforcing concurrent limits" (TransferManager): a session never has more
\* than maxConcurrentTransfers transfers pending or active.
LimitRespected == \A s \in Sessions : getActiveCount(s) <= MaxConcurrent
=============================================================================
