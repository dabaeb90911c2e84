--------------------------- MODULE HandshakeProofs ---------------------------
(***************************************************************************)
(* Proofs about Prompts and SshHandshake for every number of handshakes,   *)
(* prompts and rounds, and every configuration of the host keys.           *)
(***************************************************************************)
EXTENDS SshHandshake, FiniteSetTheorems, TLAPS

USE PromptAssumption, HandshakeAssumption

(***************************************************************************)
(* The inductive invariant.                                                *)
(***************************************************************************)
PromptTyped ==
    /\ promptsById \in [PromptIds -> PromptPayloads(InputKeys) \cup {None}]
    /\ responseHandlers \in [PromptIds -> PromptHandlers \cup {None}]
    /\ promptsBySocket \in SUBSET drawn /\ IsFiniteSet(promptsBySocket)
    /\ expired \in SUBSET PromptIds /\ drawn \in SUBSET PromptIds

\* The tracker alone: a prompt that is tracked was drawn, so that a fresh identifier
\* is new to both indices.
PromptInv == PromptTyped /\ TrackerConsistent

VerifierTyped ==
    /\ verdict \in [Attempts -> {"none", "asked", "true", "false"}]
    /\ verifyCalls \in [Attempts -> Nat]
    /\ listeners \in SUBSET Attempts /\ keyTimers \in SUBSET Attempts
    /\ browser \in BOOLEAN

\* A call of finish() as the history records it.
Calls == [round : Nat, answers : Nat, by : {"password", "browser"}]

RoundTyped ==
    /\ isFirstRound \in [Attempts -> BOOLEAN]
    /\ round \in [Attempts -> Nat]
    /\ announced \in [Attempts -> Seq(Nat)]
    /\ finished \in [Attempts -> Seq(Calls)]

\* The flag of the first round is up only before the first round, and the round that
\* waits is the last one announced.
RoundProgress ==
    \A a \in Attempts :
        /\ isFirstRound[a] => Len(announced[a]) = 0
        /\ round[a] # 0 => round[a] = Len(announced[a])

\* What the prompt of a round remembers is what its host asked for.
PromptsRemember ==
    \A p \in promptsBySocket :
        LET h == responseHandlers[p]
        IN  h.for = "round" =>
               /\ h.round = round[h.attempt] /\ h.round \in 1 .. Len(announced[h.attempt])
               /\ h.prompts = announced[h.attempt][h.round]

\* No two prompts the browser can answer ask for the same handshake: the answer to
\* one would leave the other without its round.
OnePromptPerHandshake ==
    \A p, q \in promptsBySocket :
        /\ responseHandlers[p].for = "round" /\ responseHandlers[q].for = "round"
        /\ responseHandlers[p].attempt = responseHandlers[q].attempt
        => p = q

RoundInv ==
    /\ PromptInv
    /\ RoundTyped
    /\ RoundProgress
    /\ PromptsRemember
    /\ OnePromptPerHandshake
    /\ RoundsAnsweredOnce
    /\ PromptAnswersItsRound

HandshakeInv == VerifierTyped /\ VerifiedOnce /\ RoundInv

(***************************************************************************)
(* The tracker.                                                            *)
(***************************************************************************)

\* The payloads the server sends are payloads of the type PromptPayload.
LEMMA PayloadsTyped ==
    /\ \A i \in SUBSET InputKeys : createInputPrompt(i) \in PromptPayloads(InputKeys)
    /\ createConfirmPrompt \in PromptPayloads(InputKeys)
    /\ createNoticePrompt \in PromptPayloads(InputKeys)
  BY DEF PromptPayloads

\* sendPrompt() keeps the two indices in step and under the limit, and what it adds,
\* if anything, is one prompt with the given handler.
LEMMA SendKeeps ==
    ASSUME PromptInv, NEW payload \in PromptPayloads(InputKeys), NEW handler \in PromptHandlers,
           sendPrompt(payload, handler)
    PROVE  /\ PromptInv'
           /\ \E id \in PromptIds \ promptsBySocket :
                /\ promptsBySocket' \subseteq promptsBySocket \cup {id}
                /\ id \in promptsBySocket' => responseHandlers'[id] = handler
                /\ \A p \in promptsBySocket : responseHandlers'[p] = responseHandlers[p]
  <1> USE DEF PromptInv, PromptTyped, TrackerConsistent
  <1>1. PICK id \in PromptIds \ drawn :
            /\ drawn' = drawn \cup {id}
            /\ IF getPendingCount >= MAX_PENDING_PROMPTS_PER_SOCKET
               THEN UNCHANGED <<promptsById, promptsBySocket, responseHandlers>>
               ELSE /\ track(id, payload)
                    /\ responseHandlers' = [responseHandlers EXCEPT ![id] = handler]
            /\ UNCHANGED expired
    BY DEF sendPrompt
  <1>2. id \notin promptsBySocket
    BY <1>1
  <1>3. CASE getPendingCount >= MAX_PENDING_PROMPTS_PER_SOCKET
    BY <1>1, <1>2, <1>3
  <1>4. CASE ~(getPendingCount >= MAX_PENDING_PROMPTS_PER_SOCKET)
    <2>1. /\ promptsById' = [promptsById EXCEPT ![id] = payload]
          /\ promptsBySocket' = promptsBySocket \cup {id}
          /\ responseHandlers' = [responseHandlers EXCEPT ![id] = handler]
      BY <1>1, <1>4 DEF track
    <2>2. payload # None /\ handler # None
      OBVIOUS
    <2>3. /\ IsFiniteSet(promptsBySocket') 
          /\ Cardinality(promptsBySocket') = Cardinality(promptsBySocket) + 1
      BY <1>2, <2>1, FS_AddElement
    <2>4. Cardinality(promptsBySocket) \in Nat
      BY FS_CardinalityType
    <2>5. Cardinality(promptsBySocket') <= MAX_PENDING_PROMPTS_PER_SOCKET
      BY <1>4, <2>3, <2>4 DEF getPendingCount
    <2>6. PromptTyped'
      BY <1>1, <2>1, <2>3
    <2>7. promptsBySocket' = {p \in PromptIds : promptsById'[p] # None}
      BY <2>1, <2>2
    <2>8. \A p \in promptsBySocket' : responseHandlers'[p] # None
      BY <2>1, <2>2
    <2> QED BY <1>1, <1>2, <2>1, <2>5, <2>6, <2>7, <2>8
  <1> QED BY <1>3, <1>4

\* remove() takes a prompt out of both indices.
LEMMA RemoveKeeps ==
    ASSUME PromptInv, NEW id \in PromptIds, remove(id), UNCHANGED drawn,
           \/ UNCHANGED responseHandlers
           \/ responseHandlers' = [responseHandlers EXCEPT ![id] = None]
    PROVE  /\ PromptInv'
           /\ promptsBySocket' = promptsBySocket \ {id}
           /\ \A p \in promptsBySocket' : responseHandlers'[p] = responseHandlers[p]
  <1> USE DEF PromptInv, PromptTyped, TrackerConsistent, remove
  <1>1. /\ IsFiniteSet(promptsBySocket')
        /\ Cardinality(promptsBySocket') <= Cardinality(promptsBySocket)
        /\ Cardinality(promptsBySocket) \in Nat /\ Cardinality(promptsBySocket') \in Nat
    BY FS_RemoveElement, FS_CardinalityType, FS_Subset
  <1>2. \A p \in promptsBySocket' : responseHandlers'[p] = responseHandlers[p]
    OBVIOUS
  <1>3. PromptTyped'
    BY <1>1
  <1>4. promptsBySocket' = {p \in PromptIds : promptsById'[p] # None}
    OBVIOUS
  <1> QED BY <1>1, <1>2, <1>3, <1>4

\* Nor do the other steps of the tracker disturb it: none of them adds a prompt or
\* changes the handler of one that stays.
LEMMA TrackerKeeps ==
    ASSUME PromptInv,
           \/ \E r \in Responses(Actions, ResponseKeys) : RefuseResponse(r)
           \/ sendToastPrompt \/ PromptExpires \/ PromptDisconnect \/ UNCHANGED promptVars
    PROVE  /\ PromptInv' /\ promptsBySocket' \subseteq promptsBySocket
           /\ \A p \in promptsBySocket' : responseHandlers'[p] = responseHandlers[p]
  <1> USE DEF PromptInv
  <1>1. ASSUME NEW r \in Responses(Actions, ResponseKeys), RefuseResponse(r)
        PROVE  /\ PromptInv' /\ promptsBySocket' \subseteq promptsBySocket
               /\ \A p \in promptsBySocket' : responseHandlers'[p] = responseHandlers[p]
    <2>1. r.id \in PromptIds
      BY DEF Responses
    <2>2. CASE FoundExpired(r)
      BY <1>1, <2>1, <2>2, RemoveKeeps DEF RefuseResponse
    <2>3. CASE ~FoundExpired(r)
      BY <1>1, <2>3 DEF RefuseResponse, PromptTyped, TrackerConsistent
    <2> QED BY <2>2, <2>3
  <1>2. CASE sendToastPrompt \/ PromptExpires \/ UNCHANGED promptVars
    BY <1>2 DEF sendToastPrompt, PromptExpires, promptVars, PromptTyped, TrackerConsistent
  <1>3. CASE PromptDisconnect
    <2>1. promptsBySocket' = {} /\ IsFiniteSet(promptsBySocket') /\ Cardinality(promptsBySocket') = 0
      BY <1>3, FS_EmptySet DEF PromptDisconnect, removeAllForSocket
    <2> QED BY <1>3, <2>1 DEF PromptDisconnect, removeAllForSocket, PromptTyped, TrackerConsistent
  <1> QED BY <1>1, <1>2, <1>3

-----------------------------------------------------------------------------
(***************************************************************************)
(* The verification of host keys.                                          *)
(***************************************************************************)

\* A step that does not call verify() and asks no question.
LEMMA VerifierQuiet ==
    ASSUME VerifierTyped, VerifiedOnce, UNCHANGED <<hkVars, browser>>
    PROVE  VerifierTyped' /\ VerifiedOnce'
  BY DEF VerifierTyped, VerifiedOnce, hkVars

\* verify() for attempts that have been asked for and whose timers stop with it, or
\* for one that was never asked, keeps the count at one.
LEMMA VerifyKeeps ==
    ASSUME VerifierTyped, VerifiedOnce, NEW asked \in SUBSET Attempts, NEW by,
           NEW valid \in {"true", "false"}, verify(asked, valid, by),
           \A a \in asked : verdict[a] \in {"none", "asked"},
           keyTimers' = keyTimers \ asked, listeners' = listeners \ asked, browser' = browser
    PROVE  VerifierTyped' /\ VerifiedOnce'
  <1> USE DEF VerifierTyped, VerifiedOnce
  <1>1. VerifierTyped'
    <2>1. verdict' \in [Attempts -> {"none", "asked", "true", "false"}]
      BY DEF verify
    <2>2. verifyCalls' \in [Attempts -> Nat]
      BY DEF verify
    <2> QED BY <2>1, <2>2
  <1>2. ASSUME NEW a \in Attempts
        PROVE  verifyCalls'[a] = (IF verdict'[a] \in {"true", "false"} THEN 1 ELSE 0)
    <2>1. verifyCalls[a] = (IF verdict[a] \in {"true", "false"} THEN 1 ELSE 0)
      OBVIOUS
    <2>2. CASE a \in asked
      <3>1. verdict'[a] = valid /\ verifyCalls'[a] = verifyCalls[a] + 1
        BY <2>2 DEF verify
      <3> QED BY <2>1, <2>2, <3>1
    <2>3. CASE a \notin asked
      <3>1. verdict'[a] = verdict[a] /\ verifyCalls'[a] = verifyCalls[a]
        BY <2>3 DEF verify
      <3> QED BY <2>1, <3>1
    <2> QED BY <2>2, <2>3
  <1>3. keyTimers' = {a \in Attempts : verdict'[a] = "asked"}
    BY DEF verify
  <1> QED BY <1>1, <1>2, <1>3

\* The decision of createHostKeyVerifier() about a key that was not decided before.
LEMMA DecideKeeps ==
    ASSUME VerifierTyped, VerifiedOnce, NEW a \in Attempts, verdict[a] = "none",
           decideHostKey(a), browser' = browser
    PROVE  VerifierTyped' /\ VerifiedOnce'
  <1>1. a \notin keyTimers /\ a \notin listeners
    BY DEF VerifiedOnce
  <1>2. CASE awaitClientVerification(a)
    BY <1>2 DEF VerifierTyped, VerifiedOnce, awaitClientVerification
  <1>3. ASSUME NEW valid \in {"true", "false"}, NEW by, verify({a}, valid, by),
               UNCHANGED <<listeners, keyTimers>>
        PROVE  VerifierTyped' /\ VerifiedOnce'
    BY <1>1, <1>3, VerifyKeeps
  <1> QED BY <1>2, <1>3 DEF decideHostKey

\* Every step, whatever the order of answers, timers and the disconnect.
LEMMA VerifierStep ==
    ASSUME VerifierTyped, VerifiedOnce, [HandshakeNext]_handshakeVars
    PROVE  VerifierTyped' /\ VerifiedOnce'
  <1> DEFINE Goal == VerifierTyped' /\ VerifiedOnce'
  <1>1. ASSUME NEW a \in Attempts, HostKeyPresented(a) PROVE Goal
    BY <1>1, DecideKeeps DEF HostKeyPresented
  <1>2. ASSUME NEW a \in Attempts, HostKeyTimeout(a) PROVE Goal
    <2>1. verdict[a] = "asked"
      BY <1>2 DEF HostKeyTimeout, VerifiedOnce
    <2> QED BY <1>2, <2>1, VerifyKeeps DEF HostKeyTimeout
  <1>3. CASE HostKeyResponse
    <2>1. listeners \in SUBSET Attempts /\ \A a \in listeners : verdict[a] = "asked"
      BY DEF VerifierTyped, VerifiedOnce
    <2>2. PICK valid \in {"true", "false"} : verify(listeners, valid, "browser")
      BY <1>3 DEF HostKeyResponse
    <2>3. /\ keyTimers' = keyTimers \ listeners /\ listeners' = listeners \ listeners
          /\ browser' = browser
      BY <1>3 DEF HostKeyResponse
    <2> QED BY <2>1, <2>2, <2>3, VerifyKeeps
  <1>4. CASE SocketDisconnect
    <2>1. listeners = keyTimers /\ keyTimers = {a \in Attempts : verdict[a] = "asked"}
      BY <1>4 DEF SocketDisconnect, VerifiedOnce
    <2>2. keyTimers' = {} /\ listeners' = {} /\ browser' = FALSE
      BY <1>4, <2>1 DEF SocketDisconnect
    <2>3. VerifierTyped'
      <3>1. verdict' \in [Attempts -> {"none", "asked", "true", "false"}]
        BY <1>4 DEF SocketDisconnect, VerifierTyped, verify
      <3>2. verifyCalls' \in [Attempts -> Nat]
        BY <1>4 DEF SocketDisconnect, VerifierTyped, verify
      <3> QED BY <2>2, <3>1, <3>2 DEF VerifierTyped
    <2>4. ASSUME NEW a \in Attempts
          PROVE  /\ verifyCalls'[a] = (IF verdict'[a] \in {"true", "false"} THEN 1 ELSE 0)
                 /\ verdict'[a] # "asked"
      BY <1>4, <2>1 DEF SocketDisconnect, VerifierTyped, VerifiedOnce, verify
    <2> QED BY <2>2, <2>3, <2>4 DEF VerifiedOnce
  <1>5. CASE \/ \E a \in Attempts : StartAttempt(a) \/ KeyboardInteractive(a) \/ AttemptSettles(a)
             \/ RequestLogin \/ OtherPrompt \/ PromptTimePasses
             \/ \E r \in Responses(Actions, ResponseKeys) : PromptResponse(r)
             \/ UNCHANGED handshakeVars
    <2>1. UNCHANGED <<hkVars, browser>>
      BY <1>5 DEF StartAttempt, KeyboardInteractive, AttemptSettles, RequestLogin, OtherPrompt,
                  PromptTimePasses, PromptResponse, handshakeVars
    <2> QED BY <2>1, VerifierQuiet
  <1> QED BY <1>1, <1>2, <1>3, <1>4, <1>5 DEF HandshakeNext

-----------------------------------------------------------------------------
(***************************************************************************)
(* The keyboard-interactive rounds.                                        *)
(***************************************************************************)

\* A step that announces and answers no round, and adds no prompt for one.
LEMMA RoundQuiet ==
    ASSUME RoundInv, PromptInv', UNCHANGED <<kiVars, forwardAll>>,
           \A p \in promptsBySocket' :
              \/ p \in promptsBySocket /\ responseHandlers'[p] = responseHandlers[p]
              \/ responseHandlers'[p].for # "round"
    PROVE  RoundInv'
  <1> USE DEF RoundInv
  <1>1. RoundTyped' /\ RoundProgress' /\ RoundsAnsweredOnce'
    BY DEF kiVars, RoundTyped, RoundProgress, RoundsAnsweredOnce, AnswersRound
  <1>2. OnePromptPerHandshake'
    BY DEF OnePromptPerHandshake
  <1>3. PromptAnswersItsRound'
    BY DEF PromptInv, PromptAnswersItsRound, kiVars
  <1>4. PromptsRemember'
    BY DEF PromptsRemember, kiVars
  <1> QED BY <1>1, <1>2, <1>3, <1>4

\* The prompts of the login and of other uses.
LEMMA OtherSendKeeps ==
    ASSUME RoundInv, UNCHANGED <<kiVars, forwardAll>>, NEW payload \in PromptPayloads(InputKeys),
           NEW h \in {[for |-> "login"], [for |-> "other"]}, sendPrompt(payload, h)
    PROVE  RoundInv'
  <1>1. h \in PromptHandlers /\ h.for # "round"
    BY DEF PromptHandlers
  <1>2. PICK id \in PromptIds \ promptsBySocket :
            /\ promptsBySocket' \subseteq promptsBySocket \cup {id}
            /\ id \in promptsBySocket' => responseHandlers'[id] = h
            /\ \A p \in promptsBySocket : responseHandlers'[p] = responseHandlers[p]
    BY <1>1, SendKeeps DEF RoundInv
  <1>3. PromptInv'
    BY <1>1, SendKeeps DEF RoundInv
  <1> QED BY <1>1, <1>2, <1>3, RoundQuiet

\* The handler of a round names a handshake; rounds are counted in numbers.
LEMMA HandlerOfRound ==
    ASSUME NEW h \in PromptHandlers, h.for = "round"
    PROVE  h.attempt \in Attempts /\ h.round \in Nat \ {0} /\ h.prompts \in Nat
  BY DEF PromptHandlers, roundHandler, Rounds

\* What is known of one handshake.
LEMMA AnsweredSoFar ==
    ASSUME RoundTyped, RoundProgress, RoundsAnsweredOnce, NEW a \in Attempts
    PROVE  /\ finished[a] \in Seq(Calls) /\ announced[a] \in Seq(Nat)
           /\ Len(finished[a]) \in Nat /\ Len(announced[a]) \in Nat
           /\ round[a] = 0 => Len(finished[a]) = Len(announced[a])
           /\ round[a] # 0 => /\ Len(announced[a]) = round[a]
                              /\ Len(announced[a]) = Len(finished[a]) + 1
           /\ \A i \in 1 .. Len(finished[a]) : AnswersRound(finished[a][i], i, announced[a])
  <1>1. finished[a] \in Seq(Calls) /\ announced[a] \in Seq(Nat) /\ round[a] \in Nat
    BY DEF RoundTyped
  <1>2. Len(finished[a]) \in Nat /\ Len(announced[a]) \in Nat
    BY <1>1
  <1>3. Len(finished[a]) = Len(announced[a]) - (IF round[a] = 0 THEN 0 ELSE 1)
    BY DEF RoundsAnsweredOnce
  <1>4. \A i \in 1 .. Len(finished[a]) : AnswersRound(finished[a][i], i, announced[a])
    BY DEF RoundsAnsweredOnce
  <1>5. round[a] # 0 => Len(announced[a]) = round[a]
    BY DEF RoundProgress
  <1>6. /\ round[a] = 0 => Len(finished[a]) = Len(announced[a])
        /\ round[a] # 0 => Len(announced[a]) = Len(finished[a]) + 1
    <2>1. CASE round[a] = 0
      BY <1>2, <1>3, <2>1
    <2>2. CASE round[a] # 0
      <3>1. Len(finished[a]) = Len(announced[a]) - 1
        BY <1>3, <2>2
      <3> QED BY <1>2, <2>2, <3>1
    <2> QED BY <2>1, <2>2
  <1> QED BY <1>1, <1>2, <1>4, <1>5, <1>6

\* What one call of finish() adds to the history: the answer to the round after those
\* that have been answered, with its number of parts or none.
LEMMA FinishKeeps ==
    ASSUME RoundTyped, RoundsAnsweredOnce, RoundProgress, NEW a \in Attempts,
           NEW k \in Nat, NEW n \in Nat, NEW by \in {"password", "browser"}, finish(a, k, n, by),
           announced' \in [Attempts -> Seq(Nat)], forwardAll' = forwardAll,
           \A b \in Attempts \ {a} : announced'[b] = announced[b],
           \A i \in 1 .. Len(finished[a]) : announced'[a][i] = announced[a][i],
           k = Len(finished[a]) + 1, Len(announced'[a]) = k, n \in {0, announced'[a][k]},
           by = "password" => k = 1 /\ n = announced'[a][1] /\ ~forwardAll
    PROVE  /\ RoundsAnsweredOnce'
           /\ round' \in [Attempts -> Nat] /\ finished' \in [Attempts -> Seq(Calls)]
           /\ round' = [round EXCEPT ![a] = 0]
  <1> DEFINE call == [round |-> k, answers |-> n, by |-> by]
  <1>1. /\ finished' = [finished EXCEPT ![a] = Append(@, call)]
        /\ round' = [round EXCEPT ![a] = 0]
    BY DEF finish
  <1>2. call \in Calls /\ finished[a] \in Seq(Calls)
    BY DEF Calls, RoundTyped
  <1>3. /\ finished' \in [Attempts -> Seq(Calls)] /\ round' \in [Attempts -> Nat]
        /\ finished'[a] = Append(finished[a], call) /\ round'[a] = 0
    BY <1>1, <1>2 DEF RoundTyped
  <1>4. call.round = k /\ call.answers = n /\ call.by = by
    OBVIOUS
  <1> HIDE DEF call
  <1>5. /\ Len(finished'[a]) = k /\ finished'[a][k] = call
        /\ \A i \in 1 .. Len(finished[a]) : finished'[a][i] = finished[a][i]
    BY <1>2, <1>3
  <1>6. ASSUME NEW i \in 1 .. k
        PROVE  AnswersRound(finished[a][i], i, announced[a])'
    <2>1. CASE i = k
      BY <1>4, <1>5, <2>1 DEF AnswersRound
    <2>2. CASE i # k
      <3>1. i \in 1 .. Len(finished[a]) /\ 1 \in 1 .. Len(finished[a])
        BY <1>2, <2>2
      <3>2. AnswersRound(finished[a][i], i, announced[a])
        BY <3>1 DEF RoundsAnsweredOnce
      <3>3. /\ finished'[a][i] = finished[a][i]
            /\ announced'[a][i] = announced[a][i] /\ announced'[a][1] = announced[a][1]
        BY <1>5, <3>1
      <3> QED BY <3>2, <3>3 DEF AnswersRound
    <2> QED BY <2>1, <2>2
  <1>7. ASSUME NEW b \in Attempts, b # a
        PROVE  /\ finished'[b] = finished[b] /\ round'[b] = round[b] /\ announced'[b] = announced[b]
               /\ \A i \in 1 .. Len(finished[b]) : AnswersRound(finished[b][i], i, announced[b])'
    <2>1. finished'[b] = finished[b] /\ round'[b] = round[b] /\ announced'[b] = announced[b]
      BY <1>1, <1>7 DEF RoundTyped
    <2>2. ASSUME NEW i \in 1 .. Len(finished[b])
          PROVE  AnswersRound(finished[b][i], i, announced[b])'
      <3>1. AnswersRound(finished[b][i], i, announced[b])
        BY AnsweredSoFar
      <3> QED BY <2>1, <3>1 DEF AnswersRound
    <2> QED BY <2>1, <2>2
  <1>8. ASSUME NEW b \in Attempts
        PROVE  /\ Len(finished'[b]) = Len(announced'[b]) - (IF round'[b] = 0 THEN 0 ELSE 1)
               /\ \A i \in 1 .. Len(finished'[b]) : AnswersRound(finished[b][i], i, announced[b])'
    <2>1. CASE b = a
      <3>1. Len(finished'[a]) = k /\ Len(announced'[a]) = k /\ round'[a] = 0
        BY <1>3, <1>5
      <3>2. \A i \in 1 .. Len(finished'[a]) : AnswersRound(finished[a][i], i, announced[a])'
        BY <1>5, <1>6
      <3> QED BY <2>1, <3>1, <3>2
    <2>2. CASE b # a
      <3>1. Len(finished[b]) = Len(announced[b]) - (IF round[b] = 0 THEN 0 ELSE 1)
        BY DEF RoundsAnsweredOnce
      <3> QED BY <1>7, <2>2, <3>1
    <2> QED BY <2>1, <2>2
  <1>9. RoundsAnsweredOnce'
    BY <1>8 DEF RoundsAnsweredOnce
  <1> QED BY <1>1, <1>3, <1>9

\* A round is announced: it is answered at once with the password, the first time,
\* or it asks the browser and no other prompt asks for the same handshake.
LEMMA AnnounceKeeps ==
    ASSUME RoundInv, NEW a \in Attempts, KeyboardInteractive(a)
    PROVE  RoundInv'
  <1> USE DEF RoundInv
  <1> DEFINE k == Len(announced[a]) + 1
  <1>1. /\ round[a] = 0 /\ Len(announced[a]) < MaxRounds
        /\ isFirstRound' = [isFirstRound EXCEPT ![a] = FALSE] /\ forwardAll' = forwardAll
    BY DEF KeyboardInteractive, configUnchanged
  <1>2. PICK r \in Rounds :
          /\ announced' = [announced EXCEPT ![a] = Append(@, r.n)]
          /\ IF AutoAnswered(a, r)
             THEN finish(a, k, r.n, "password") /\ UNCHANGED promptVars
             ELSE /\ round' = [round EXCEPT ![a] = k]
                  /\ sendPrompt(createInputPrompt(IF r.n = 0 THEN {} ELSE InputKeys),
                                roundHandler(a, k, r.n))
                  /\ UNCHANGED finished
    BY DEF KeyboardInteractive
  <1>3. r.n \in Nat /\ announced[a] \in Seq(Nat) /\ MaxRounds \in Nat
    BY DEF Rounds, RoundTyped
  <1>4. k \in 1 .. MaxRounds /\ Len(finished[a]) = k - 1
    <2>1. Len(announced[a]) \in Nat /\ Len(finished[a]) = Len(announced[a])
      BY <1>1, AnsweredSoFar
    <2> QED BY <1>1, <1>3, <2>1
  <1> HIDE DEF k
  <1>5. /\ announced' \in [Attempts -> Seq(Nat)]
        /\ announced'[a] = Append(announced[a], r.n) /\ Len(announced'[a]) = k
        /\ announced'[a][k] = r.n
        /\ \A i \in 1 .. Len(finished[a]) : announced'[a][i] = announced[a][i]
        /\ \A b \in Attempts \ {a} : announced'[b] = announced[b]
    <2>1. announced' \in [Attempts -> Seq(Nat)] /\ announced'[a] = Append(announced[a], r.n)
      BY <1>2, <1>3 DEF RoundTyped
    <2> QED BY <1>2, <1>3, <1>4, <2>1 DEF k, RoundTyped
  <1>6. \A p \in promptsBySocket :
           ~(responseHandlers[p].for = "round" /\ responseHandlers[p].attempt = a)
    BY <1>1 DEF PromptsRemember
  <1>7. \A p \in promptsBySocket : responseHandlers[p].for = "round" =>
             responseHandlers[p].attempt \in Attempts \ {a}
    <2> SUFFICES ASSUME NEW p \in promptsBySocket, responseHandlers[p].for = "round"
                 PROVE  responseHandlers[p].attempt \in Attempts \ {a}
      OBVIOUS
    <2>1. responseHandlers[p] \in PromptHandlers
      BY DEF PromptInv, PromptTyped, TrackerConsistent
    <2> QED BY <1>6, <2>1, HandlerOfRound
  <1>8. CASE AutoAnswered(a, r)
    <2>1. finish(a, k, r.n, "password") /\ UNCHANGED promptVars
      BY <1>2, <1>8
    <2>2. isFirstRound[a] /\ ~forwardAll
      BY <1>8 DEF AutoAnswered
    <2>3. k = 1
      BY <2>2 DEF RoundProgress, k
    <2>4. /\ RoundsAnsweredOnce'
          /\ round' \in [Attempts -> Nat] /\ finished' \in [Attempts -> Seq(Calls)]
          /\ round' = [round EXCEPT ![a] = 0]
      <3>1. k \in Nat /\ k = Len(finished[a]) + 1
        BY <1>4, AnsweredSoFar
      <3>2. r.n \in {0, announced'[a][k]} /\ r.n = announced'[a][1]
        BY <1>5, <2>3
      <3> QED BY <1>1, <1>3, <1>5, <2>1, <2>2, <2>3, <3>1, <3>2, FinishKeeps
    <2>5. round' = round
      BY <1>1, <2>4 DEF RoundTyped
    <2>6. RoundTyped'
      BY <1>1, <1>5, <2>4 DEF RoundTyped
    <2>7. RoundProgress'
      BY <1>1, <1>5, <2>5 DEF RoundProgress, RoundTyped
    <2>8. PromptInv' /\ OnePromptPerHandshake' /\ PromptAnswersItsRound'
      BY <2>1, <2>5 DEF promptVars, PromptInv, PromptTyped, TrackerConsistent,
                        OnePromptPerHandshake, PromptAnswersItsRound
    <2>9. PromptsRemember'
      BY <1>5, <1>7, <2>1, <2>5 DEF promptVars, PromptsRemember
    <2> QED BY <2>4, <2>6, <2>7, <2>8, <2>9
  <1>9. CASE ~AutoAnswered(a, r)
    <2> DEFINE payload == createInputPrompt(IF r.n = 0 THEN {} ELSE InputKeys)
               handler == roundHandler(a, k, r.n)
    <2>1. /\ round' = [round EXCEPT ![a] = k] /\ UNCHANGED finished
          /\ sendPrompt(payload, handler)
      BY <1>2, <1>9
    <2>2. payload \in PromptPayloads(InputKeys) /\ handler \in PromptHandlers
      BY <1>4, PayloadsTyped DEF PromptHandlers
    <2>3. PromptInv'
      BY <2>1, <2>2, SendKeeps
    <2>4. PICK id \in PromptIds \ promptsBySocket :
              /\ promptsBySocket' \subseteq promptsBySocket \cup {id}
              /\ id \in promptsBySocket' => responseHandlers'[id] = handler
              /\ \A p \in promptsBySocket : responseHandlers'[p] = responseHandlers[p]
      BY <2>1, <2>2, SendKeeps
    <2>5. RoundTyped'
      BY <1>1, <1>4, <1>5, <2>1 DEF RoundTyped
    <2>6. RoundProgress'
      BY <1>1, <1>5, <2>1 DEF RoundProgress, RoundTyped
    <2>7. RoundsAnsweredOnce'
      <3>1. ASSUME NEW b \in Attempts
            PROVE  /\ Len(finished[b]) = Len(announced'[b]) - (IF round'[b] = 0 THEN 0 ELSE 1)
                   /\ \A i \in 1 .. Len(finished[b]) : announced'[b][i] = announced[b][i]
        <4>1. CASE b = a
          <5>1. Len(finished[a]) \in Nat /\ Len(announced'[a]) = k /\ Len(finished[a]) = k - 1
            BY <1>4, <1>5, AnsweredSoFar
          <5>2. round'[a] = k /\ k # 0
            BY <1>4, <2>1 DEF RoundTyped
          <5> QED BY <1>4, <1>5, <4>1, <5>1, <5>2
        <4>2. CASE b # a
          <5>1. announced'[b] = announced[b] /\ round'[b] = round[b]
            BY <1>5, <2>1, <4>2 DEF RoundTyped
          <5> QED BY <5>1 DEF RoundsAnsweredOnce
        <4> QED BY <4>1, <4>2
      <3>2. ASSUME NEW b \in Attempts, NEW i \in 1 .. Len(finished[b])
            PROVE  AnswersRound(finished[b][i], i, announced[b])'
        <4>1. AnswersRound(finished[b][i], i, announced[b])
          BY AnsweredSoFar
        <4>2. 1 \in 1 .. Len(finished[b])
          BY AnsweredSoFar
        <4>3. announced'[b][i] = announced[b][i] /\ announced'[b][1] = announced[b][1]
          BY <3>1, <4>2
        <4> QED BY <1>1, <2>1, <4>1, <4>3 DEF AnswersRound
      <3> QED BY <2>1, <3>1, <3>2 DEF RoundsAnsweredOnce
    <2>8. /\ handler.for = "round" /\ handler.attempt = a /\ handler.round = k
          /\ handler.prompts = r.n
      BY DEF roundHandler
    <2> HIDE DEF handler
    <2>9. OnePromptPerHandshake'
      BY <1>6, <2>4, <2>8 DEF OnePromptPerHandshake
    <2>10. ASSUME NEW p \in promptsBySocket', responseHandlers'[p].for = "round"
           PROVE  LET h == responseHandlers'[p]
                  IN  /\ h.round = round'[h.attempt] /\ h.round \in 1 .. Len(announced'[h.attempt])
                      /\ h.prompts = announced'[h.attempt][h.round]
      <3>1. CASE p = id
        BY <1>4, <1>5, <2>1, <2>4, <2>8, <3>1 DEF RoundTyped
      <3>2. CASE p # id
        <4>1. p \in promptsBySocket /\ responseHandlers'[p] = responseHandlers[p]
          BY <2>4, <3>2
        <4>2. responseHandlers[p].attempt \in Attempts \ {a}
          BY <1>7, <2>10, <4>1
        <4>3. /\ round'[responseHandlers[p].attempt] = round[responseHandlers[p].attempt]
              /\ announced'[responseHandlers[p].attempt] = announced[responseHandlers[p].attempt]
          BY <1>5, <2>1, <4>2 DEF RoundTyped
        <4> QED BY <2>10, <4>1, <4>3 DEF PromptsRemember
      <3> QED BY <3>1, <3>2
    <2>11. PromptsRemember' /\ PromptAnswersItsRound'
      BY <2>3, <2>10 DEF PromptsRemember, PromptAnswersItsRound, PromptInv
    <2> QED BY <2>3, <2>5, <2>6, <2>7, <2>9, <2>11
  <1> QED BY <1>8, <1>9

\* A response that is taken: it leaves the tracker, and if it belongs to a round that
\* round was waiting, gets its one answer, and no other prompt misses it.
LEMMA TakeKeeps ==
    ASSUME RoundInv, NEW r \in Responses(Actions, ResponseKeys), PromptResponse(r), TakeResponse(r)
    PROVE  RoundInv'
  <1> USE DEF RoundInv
  <1> DEFINE h == responseHandlers[r.id]
  <1>1. r.id \in promptsBySocket
    BY DEF Responses, TakeResponse, Accepted, PromptInv, TrackerConsistent
  <1>2. /\ PromptInv' /\ promptsBySocket' = promptsBySocket \ {r.id}
        /\ \A p \in promptsBySocket' : responseHandlers'[p] = responseHandlers[p]
    <2>1. r.id \in PromptIds
      BY DEF Responses
    <2> QED BY <2>1, RemoveKeeps DEF TakeResponse
  <1>3. ~RefuseResponse(r)
    BY DEF TakeResponse, RefuseResponse
  <1>4. h \in PromptHandlers
    BY <1>1 DEF PromptInv, PromptTyped, TrackerConsistent
  <1>5. UNCHANGED <<isFirstRound, announced, forwardAll>>
    BY DEF PromptResponse, configUnchanged
  <1>6. CASE h.for = "round"
    <2> DEFINE a == h.attempt
               k == h.round
               n == IF Cancelled(r) THEN 0 ELSE h.prompts
    <2>1. a \in Attempts /\ k \in Nat \ {0} /\ n \in Nat
      BY <1>4, <1>6, HandlerOfRound
    <2>2. k = round[a] /\ h.prompts = announced[a][k]
      BY <1>1, <1>6 DEF PromptsRemember
    <2>3. n \in {0, announced[a][k]}
      BY <2>2
    <2>4. finish(a, k, n, "browser")
      BY <1>3, <1>6 DEF PromptResponse
    <2> HIDE DEF n, a, k
    <2>5. Len(announced[a]) = k /\ k = Len(finished[a]) + 1
      BY <2>1, <2>2, AnsweredSoFar
    <2>6. /\ RoundsAnsweredOnce'
          /\ round' \in [Attempts -> Nat] /\ finished' \in [Attempts -> Seq(Calls)]
          /\ round' = [round EXCEPT ![a] = 0]
      BY <1>5, <2>1, <2>3, <2>4, <2>5, FinishKeeps DEF RoundTyped
    <2>7. RoundTyped' /\ RoundProgress'
      BY <1>5, <2>1, <2>6 DEF RoundTyped, RoundProgress
    <2>8. OnePromptPerHandshake'
      BY <1>2 DEF OnePromptPerHandshake
    <2>9. ASSUME NEW p \in promptsBySocket', responseHandlers'[p].for = "round"
          PROVE  /\ responseHandlers'[p] = responseHandlers[p] /\ p \in promptsBySocket
                 /\ round'[responseHandlers[p].attempt] = round[responseHandlers[p].attempt]
      <3>1. p \in promptsBySocket /\ p # r.id /\ responseHandlers'[p] = responseHandlers[p]
        BY <1>2
      <3>2. responseHandlers[p] \in PromptHandlers
        BY <3>1 DEF PromptInv, PromptTyped, TrackerConsistent
      <3>3. responseHandlers[p].attempt \in Attempts
        BY <2>9, <3>1, <3>2, HandlerOfRound
      <3>4. responseHandlers[p].attempt # a
        BY <1>1, <1>6, <2>9, <3>1 DEF OnePromptPerHandshake, a
      <3> QED BY <2>6, <3>1, <3>3, <3>4 DEF RoundTyped
    <2>10. PromptsRemember' /\ PromptAnswersItsRound'
      BY <1>2, <1>5, <2>9 DEF PromptsRemember, PromptAnswersItsRound, PromptInv
    <2> QED BY <1>2, <2>6, <2>7, <2>8, <2>10
  <1>7. CASE h.for # "round"
    <2>1. UNCHANGED <<finished, round>>
      BY <1>3, <1>7 DEF PromptResponse
    <2> QED BY <1>2, <1>5, <2>1, RoundQuiet DEF kiVars
  <1> QED BY <1>6, <1>7

LEMMA RoundStep ==
    ASSUME RoundInv, [HandshakeNext]_handshakeVars
    PROVE  RoundInv'
  <1>1. ASSUME NEW a \in Attempts, KeyboardInteractive(a) PROVE RoundInv'
    BY <1>1, AnnounceKeeps
  <1>2. ASSUME NEW r \in Responses(Actions, ResponseKeys), PromptResponse(r) PROVE RoundInv'
    <2>1. CASE TakeResponse(r)
      BY <1>2, <2>1, TakeKeeps
    <2>2. CASE RefuseResponse(r) /\ UNCHANGED <<finished, round, phase>>
      <3>1. UNCHANGED <<kiVars, forwardAll>>
        BY <1>2, <2>2 DEF PromptResponse, configUnchanged, kiVars
      <3>2. /\ PromptInv' /\ promptsBySocket' \subseteq promptsBySocket
            /\ \A p \in promptsBySocket' : responseHandlers'[p] = responseHandlers[p]
        BY <2>2, TrackerKeeps DEF RoundInv
      <3> QED BY <3>1, <3>2, RoundQuiet
    <2> QED BY <1>2, <2>1, <2>2 DEF PromptResponse
  <1>3. CASE RequestLogin
    <2>1. UNCHANGED <<kiVars, forwardAll>> /\ sendPrompt(createInputPrompt(InputKeys), [for |-> "login"])
      BY <1>3 DEF RequestLogin, configUnchanged
    <2>2. createInputPrompt(InputKeys) \in PromptPayloads(InputKeys)
      BY PayloadsTyped
    <2> QED BY <2>1, <2>2, OtherSendKeeps
  <1>4. CASE OtherPrompt
    <2>1. UNCHANGED <<kiVars, forwardAll>>
      BY <1>4 DEF OtherPrompt, configUnchanged
    <2>2. ASSUME NEW payload \in {createConfirmPrompt, createNoticePrompt},
                 sendPrompt(payload, [for |-> "other"])
          PROVE  RoundInv'
      <3>1. payload \in PromptPayloads(InputKeys)
        BY PayloadsTyped
      <3> QED BY <2>1, <2>2, <3>1, OtherSendKeeps
    <2>3. CASE sendToastPrompt
      <3>1. /\ PromptInv' /\ promptsBySocket' \subseteq promptsBySocket
            /\ \A p \in promptsBySocket' : responseHandlers'[p] = responseHandlers[p]
        BY <2>3, TrackerKeeps DEF RoundInv
      <3> QED BY <2>1, <3>1, RoundQuiet
    <2> QED BY <1>4, <2>2, <2>3 DEF OtherPrompt
  <1>5. CASE \/ PromptTimePasses \/ SocketDisconnect \/ HostKeyResponse \/ UNCHANGED handshakeVars
             \/ \E a \in Attempts : \/ StartAttempt(a) \/ HostKeyPresented(a) \/ HostKeyTimeout(a)
                                    \/ AttemptSettles(a)
    <2>1. UNCHANGED <<kiVars, forwardAll>>
      BY <1>5 DEF PromptTimePasses, SocketDisconnect, HostKeyResponse, handshakeVars, StartAttempt,
                  HostKeyPresented, HostKeyTimeout, AttemptSettles, configUnchanged
    <2>2. PromptExpires \/ PromptDisconnect \/ UNCHANGED promptVars
      BY <1>5 DEF PromptTimePasses, SocketDisconnect, HostKeyResponse, handshakeVars, StartAttempt,
                  HostKeyPresented, HostKeyTimeout, AttemptSettles
    <2>3. /\ PromptInv' /\ promptsBySocket' \subseteq promptsBySocket
          /\ \A p \in promptsBySocket' : responseHandlers'[p] = responseHandlers[p]
      BY <2>2, TrackerKeeps DEF RoundInv
    <2> QED BY <2>1, <2>3, RoundQuiet
  <1> QED BY <1>1, <1>2, <1>3, <1>4, <1>5 DEF HandshakeNext

-----------------------------------------------------------------------------
(***************************************************************************)
(* The theorems.                                                           *)
(***************************************************************************)

\* No prompt, no question and no round at the start.
LEMMA HandshakeInitInv == HandshakeInit => HandshakeInv
  <1> SUFFICES ASSUME HandshakeInit PROVE HandshakeInv
    OBVIOUS
  <1>1. VerifierTyped /\ VerifiedOnce
    BY DEF HandshakeInit, VerifierTyped, VerifiedOnce
  <1>2. promptsBySocket = {} /\ IsFiniteSet(promptsBySocket) /\ Cardinality(promptsBySocket) = 0
    BY FS_EmptySet DEF HandshakeInit, PromptInit
  <1>3. PromptInv
    <2>1. PromptTyped
      BY <1>2 DEF HandshakeInit, PromptInit, PromptTyped
    <2>2. promptsBySocket = {p \in PromptIds : promptsById[p] # None}
      BY <1>2 DEF HandshakeInit, PromptInit
    <2> QED BY <1>2, <2>1, <2>2 DEF PromptInv, TrackerConsistent
  <1>4. RoundTyped
    <2>1. finished \in [Attempts -> Seq(Calls)] /\ announced \in [Attempts -> Seq(Nat)]
      BY DEF HandshakeInit
    <2> QED BY <2>1 DEF HandshakeInit, RoundTyped
  <1>5. RoundProgress /\ RoundsAnsweredOnce
    BY DEF HandshakeInit, RoundProgress, RoundsAnsweredOnce
  <1>6. OnePromptPerHandshake /\ PromptAnswersItsRound /\ PromptsRemember
    BY <1>2, <1>3 DEF OnePromptPerHandshake, PromptsRemember, PromptAnswersItsRound, PromptInv
  <1> QED BY <1>1, <1>3, <1>4, <1>5, <1>6 DEF HandshakeInv, RoundInv

LEMMA HandshakeStepInv ==
    HandshakeInv /\ [HandshakeNext]_handshakeVars => HandshakeInv'
  BY VerifierStep, RoundStep DEF HandshakeInv

\* The inductive invariant holds in every reachable state.
THEOREM HandshakeInvariant == HandshakeSpec => []HandshakeInv
  BY HandshakeInitInv, HandshakeStepInv, PTL DEF HandshakeSpec

\* ssh2 is told once whether to trust a key, whatever the order of the answer of the
\* browser, the disconnect and the timer (awaitClientVerification).
THEOREM KeysVerifiedOnce == HandshakeSpec => []VerifiedOnce
  <1>1. HandshakeInv => VerifiedOnce
    BY DEF HandshakeInv
  <1> QED BY <1>1, HandshakeInvariant, PTL

\* The i-th call of finish() answers the i-th round the host announced, with as many
\* parts as that round has prompts or none, and only the first round is ever answered
\* with the stored password.
THEOREM EveryRoundAnsweredOnce == HandshakeSpec => []RoundsAnsweredOnce
  <1>1. HandshakeInv => RoundsAnsweredOnce
    BY DEF HandshakeInv, RoundInv
  <1> QED BY <1>1, HandshakeInvariant, PTL

\* A prompt the browser can still answer belongs to a round that still waits.
THEOREM PromptsAnswerTheirRound == HandshakeSpec => []PromptAnswersItsRound
  <1>1. HandshakeInv => PromptAnswersItsRound
    BY DEF HandshakeInv, RoundInv
  <1> QED BY <1>1, HandshakeInvariant, PTL
=============================================================================
