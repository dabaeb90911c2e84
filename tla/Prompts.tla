------------------------------- MODULE Prompts -------------------------------
(***************************************************************************)
(* The prompts one socket shows in the browser: the payloads of            *)
(* app/socket/handlers/prompt-handler.ts, the tracker of prompt-tracker.ts,*)
(* the checks of prompt-validator.ts and the adapter                       *)
(* app/socket/adapters/service-socket-prompt.ts.                           *)
(*                                                                         *)
(* Every socket has a tracker of its own.  A response is abstracted to     *)
(* what the checks tell apart: whether it is well formed, the prompt it    *)
(* names, its action, the keys of its inputs and those with a value.       *)
(***************************************************************************)
EXTENDS Integers, FiniteSets, Sequences

CONSTANTS
    PromptIds,         \* bound: the identifiers generatePromptId() can draw
    None,
    MAX_PENDING_PROMPTS_PER_SOCKET

ASSUME PromptAssumption ==
    /\ MAX_PENDING_PROMPTS_PER_SOCKET \in Nat /\ None \notin PromptIds

VARIABLES
    promptsById,       \* the primary index: PromptId -> tracked prompt or None
    promptsBySocket,   \* the secondary index: the set of this socket's prompts
    responseHandlers,  \* PromptId -> who is called with the response, or None
    expired,           \* the tracked prompts whose timeoutAt has passed
    drawn              \* history: the identifiers drawn so far

promptVars == <<promptsById, promptsBySocket, responseHandlers, expired, drawn>>

(* prompt-handler.ts: type, buttons, required inputs *)

createInputPrompt(inputs) == [type |-> "input", buttons |-> {"submit", "cancel"}, inputs |-> inputs]

createConfirmPrompt == [type |-> "confirm", buttons |-> {"confirm", "cancel"}, inputs |-> {}]

createNoticePrompt == [type |-> "notice", buttons |-> {"ok"}, inputs |-> {}]

\* The payloads with inputs out of keys.
PromptPayloads(keys) ==
    {createInputPrompt(i) : i \in SUBSET keys} \cup {createConfirmPrompt, createNoticePrompt}

PromptInit ==
    /\ promptsById = [p \in PromptIds |-> None] /\ promptsBySocket = {}
    /\ responseHandlers = [p \in PromptIds |-> None] /\ expired = {} /\ drawn = {}

-------------------------------------------------------------------------------
(* prompt-validator.ts *)

\* A response: wellFormed is the verdict of validateAction() and
\* validateResponseInputs(), given the keys of its inputs (none for no inputs) and
\* filled the ones with a value.
Responses(actions, keys) ==
    {r \in [wellFormed : BOOLEAN, id : PromptIds, action : actions,
            given : SUBSET keys, filled : SUBSET keys] :
        r.filled \subseteq r.given /\ (~r.wellFormed => r.given = {})}

validatePromptResponse(r) == r.wellFormed

\* One of the buttons, dismissed or timeout; nothing to check without buttons.
validateResponseAction(action, buttons) ==
    buttons = {} \/ action \in buttons \cup {"dismissed", "timeout"}

\* No key that was not asked for; every input of a prompt is required, whatever the
\* action says.
validateResponseInputKeys(r, expected) == r.given \subseteq expected /\ expected \subseteq r.filled

-------------------------------------------------------------------------------
(* prompt-tracker.ts *)

getPendingCount == Cardinality(promptsBySocket)

track(id, payload) ==
    /\ promptsById' = [promptsById EXCEPT ![id] = payload]
    /\ promptsBySocket' = promptsBySocket \cup {id}

\* track() and the registration of the handler, or neither: the caller of a prompt
\* beyond the limit is told by null and hears no more.
sendPrompt(payload, handler) ==
    \E id \in PromptIds \ drawn :
       /\ drawn' = drawn \cup {id}
       /\ IF getPendingCount >= MAX_PENDING_PROMPTS_PER_SOCKET
          THEN UNCHANGED <<promptsById, promptsBySocket, responseHandlers>>
          ELSE /\ track(id, payload)
               /\ responseHandlers' = [responseHandlers EXCEPT ![id] = handler]
       /\ UNCHANGED expired

\* Both indices.
remove(id) ==
    /\ promptsById' = [promptsById EXCEPT ![id] = None]
    /\ promptsBySocket' = promptsBySocket \ {id}
    /\ expired' = expired \ {id}

\* A toast is emitted and not tracked.
sendToastPrompt ==
    \E id \in PromptIds \ drawn :
       /\ drawn' = drawn \cup {id}
       /\ UNCHANGED <<promptsById, promptsBySocket, responseHandlers, expired>>

\* Date.now() passes timeoutAt of a tracked prompt; nothing runs.
PromptExpires ==
    \E id \in promptsBySocket \ expired :
       /\ expired' = expired \cup {id}
       /\ UNCHANGED <<promptsById, promptsBySocket, responseHandlers, drawn>>

\* The response passes every check of handlePromptResponse().
Accepted(r) ==
    /\ validatePromptResponse(r)
    /\ promptsById[r.id] # None /\ r.id \notin expired
    /\ validateResponseAction(r.action, promptsById[r.id].buttons)
    /\ validateResponseInputKeys(r, promptsById[r.id].inputs)

\* It names an expired prompt: validate() removes the prompt, its handler stays.
FoundExpired(r) ==
    validatePromptResponse(r) /\ promptsById[r.id] # None /\ r.id \in expired

\* Seeded fault: the prompt stays tracked after its response.
TakeResponseKeep(r) ==
    Accepted(r) /\ UNCHANGED promptVars

\* handlePromptResponse() when the response is accepted: the prompt leaves the
\* tracker and its handler is taken out of the map and called.
TakeResponse(r) ==
    /\ Accepted(r)
    /\ remove(r.id)
    /\ responseHandlers' = [responseHandlers EXCEPT ![r.id] = None]
    /\ UNCHANGED drawn

\* The other responses: only an expired prompt changes anything.
RefuseResponse(r) ==
    /\ ~Accepted(r)
    /\ IF FoundExpired(r) THEN remove(r.id) ELSE UNCHANGED <<promptsById, promptsBySocket, expired>>
    /\ UNCHANGED <<responseHandlers, drawn>>

removeAllForSocket ==
    promptsById' = [p \in PromptIds |-> None] /\ promptsBySocket' = {} /\ expired' = {}

\* handleDisconnect()
PromptDisconnect ==
    /\ removeAllForSocket
    /\ responseHandlers' = [p \in PromptIds |-> None]
    /\ UNCHANGED drawn

-------------------------------------------------------------------------------
(* Properties *)

\* The two indices of the tracker name the same prompts, never more than the limit,
\* and every prompt that can still be answered has somebody to answer to
\* (track, remove, removeAllForSocket, sendPrompt).
TrackerConsistent ==
    /\ promptsBySocket = {p \in PromptIds : promptsById[p] # None}
    /\ Cardinality(promptsBySocket) <= MAX_PENDING_PROMPTS_PER_SOCKET
    /\ \A p \in promptsBySocket : responseHandlers[p] # None
=============================================================================
