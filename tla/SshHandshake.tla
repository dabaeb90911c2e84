---------------------------- MODULE SshHandshake ----------------------------
(***************************************************************************)
(* The SSH handshakes of one browser socket and the questions they ask the *)
(* browser: the host key verification (app/services/host-key) and the      *)
(* keyboard-interactive rounds (app/services/ssh/ssh-service.ts,           *)
(* app/socket/adapters/service-socket-authentication.ts), over the prompts *)
(* of module Prompts.                                                      *)
(*                                                                         *)
(* The browser may authenticate again while a handshake is under way, so   *)
(* that several handshakes share the socket.  External: ssh2 asks for the  *)
(* host key first and then for any rounds, one at a time; the connect      *)
(* timer of connect() ends the client.                                     *)
(***************************************************************************)
EXTENDS Prompts

CONSTANTS
    Attempts,      \* bound: the handshakes the browser can start
    HostKeyConfigs,\* [enabled, serverStore, dbExists, clientStore, unknownKeyAction]
    StoredKeys,    \* what the server's database may hold for the host: a key or None
    PresentedKeys, \* the keys the host may present
    AuthModes,     \* [forwardAll, password, allowed]: how rounds may be answered
    MaxRounds,     \* bound: keyboard-interactive rounds of a handshake
    Actions        \* the actions a browser may send

VARIABLES
    hkConfig,      \* ssh.hostKeyVerification
    stored,        \* the host_keys row of the host, or None
    presented,     \* the key the host presents
    forwardAll,    \* forwardAllPrompts or alwaysSendKeyboardInteractivePrompts
    password,      \* the credentials hold a password
    keyboardInteractiveAllowed, \* the policy of the server admits the method
    phase,         \* attempt -> idle, connecting, settled
    verdict,       \* attempt -> what verify() was called with: none, asked, true, false
    verifyCalls,   \* history: attempt -> how often verify() was called
    answeredBy,    \* history: attempt -> what decided: none, store, browser, policy, end
    listeners,     \* attempts with a response and a disconnect listener on the socket
    keyTimers,     \* attempts with a running verification timer
    isFirstRound,  \* attempt -> BOOLEAN
    round,         \* attempt -> the number of the round that waits for finish(), or 0
    announced,     \* attempt -> the rounds of the host: how many prompts each has
    finished,      \* history: attempt -> the calls of finish()
    browser        \* the socket is connected

hkVars == <<verdict, verifyCalls, answeredBy, listeners, keyTimers>>

kiVars == <<isFirstRound, round, announced, finished>>

handshakeVars == <<hkConfig, stored, presented, forwardAll, password, keyboardInteractiveAllowed,
                   phase, hkVars, kiVars, browser, promptVars>>

\* A round of keyboard-interactive prompts: how many, and whether each of them
\* contains the word password.
Rounds == {[n |-> 0, allPassword |-> FALSE], [n |-> 1, allPassword |-> FALSE],
           [n |-> 1, allPassword |-> TRUE]}

\* The key of the one input of a round, and one that no prompt asks for.
InputKeys == {0}

ResponseKeys == {0, 1}

\* What handleSSHKeyboardInteractive() leaves behind for a response: the finish
\* callback of round k of attempt a, and the number of its prompts.
roundHandler(a, k, n) == [for |-> "round", attempt |-> a, round |-> k, prompts |-> n]

\* Who is called with a response: a round of an attempt, the login form, or others.
PromptHandlers ==
    {roundHandler(a, k, r.n) : a \in Attempts, k \in 1 .. MaxRounds, r \in Rounds}
        \cup {[for |-> "login"], [for |-> "other"]}

ASSUME HandshakeAssumption ==
    /\ MaxRounds \in Nat
    /\ None \notin PromptPayloads(InputKeys) \cup PromptHandlers

HandshakeInit ==
    /\ PromptInit
    /\ hkConfig \in HostKeyConfigs /\ stored \in StoredKeys
    /\ presented \in PresentedKeys
    /\ \E mode \in AuthModes :
         /\ forwardAll = mode.forwardAll /\ password = mode.password
         /\ keyboardInteractiveAllowed = mode.allowed
    /\ phase = [a \in Attempts |-> "idle"]
    /\ verdict = [a \in Attempts |-> "none"] /\ verifyCalls = [a \in Attempts |-> 0]
    /\ answeredBy = [a \in Attempts |-> "none"]
    /\ listeners = {} /\ keyTimers = {}
    /\ isFirstRound = [a \in Attempts |-> TRUE] /\ round = [a \in Attempts |-> 0]
    /\ announced = [a \in Attempts |-> << >>] /\ finished = [a \in Attempts |-> << >>]
    /\ browser = TRUE

configUnchanged ==
    UNCHANGED <<hkConfig, stored, presented, forwardAll, password, keyboardInteractiveAllowed>>

-------------------------------------------------------------------------------
(* Host keys *)

\* HostKeyStore.lookup() and serverLookup(): without a database all is unknown.
lookup(key) ==
    CASE ~hkConfig.dbExists \/ stored = None -> "unknown"
      [] hkConfig.dbExists /\ stored # None /\ stored = key -> "trusted"
      [] OTHER -> "mismatch"

serverLookup(key) == IF hkConfig.serverStore THEN lookup(key) ELSE "unknown"

\* verify(valid) for the attempts in as.
verify(as, valid, by) ==
    /\ verdict' = [a \in Attempts |-> IF a \in as THEN valid ELSE verdict[a]]
    /\ verifyCalls' = [a \in Attempts |-> IF a \in as THEN verifyCalls[a] + 1 ELSE verifyCalls[a]]
    /\ answeredBy' = [a \in Attempts |-> IF a \in as THEN by ELSE answeredBy[a]]

\* awaitClientVerification(): the timer, two listeners, and the question.
awaitClientVerification(a) ==
    /\ verdict' = [verdict EXCEPT ![a] = "asked"]
    /\ listeners' = IF browser THEN listeners \cup {a} ELSE listeners
    /\ keyTimers' = keyTimers \cup {a}
    /\ UNCHANGED <<verifyCalls, answeredBy>>

\* The decision tree of createHostKeyVerifier().
decideHostKey(a) ==
    LET known == serverLookup(presented)
    IN  \/ /\ ~hkConfig.enabled
           /\ verify({a}, "true", "policy") /\ UNCHANGED <<listeners, keyTimers>>
        \/ /\ hkConfig.enabled /\ known # "unknown"
           /\ verify({a}, IF known = "trusted" THEN "true" ELSE "false", "store")
           /\ UNCHANGED <<listeners, keyTimers>>
        \/ /\ hkConfig.enabled /\ known = "unknown"
           /\ hkConfig.clientStore \/ hkConfig.unknownKeyAction = "prompt"
           /\ awaitClientVerification(a)
        \/ /\ hkConfig.enabled /\ known = "unknown" /\ ~hkConfig.clientStore
           /\ hkConfig.unknownKeyAction # "prompt"
           /\ verify({a}, IF hkConfig.unknownKeyAction = "alert" THEN "true" ELSE "false", "policy")
           /\ UNCHANGED <<listeners, keyTimers>>

\* ssh2 calls hostVerifier.
HostKeyPresented(a) ==
    /\ phase[a] = "connecting" /\ verdict[a] = "none"
    /\ decideHostKey(a)
    /\ configUnchanged /\ UNCHANGED <<phase, kiVars, browser, promptVars>>

\* Seeded fault: cleanup() forgets the timer.
HostKeyResponseKeepsTimer ==
    /\ browser /\ listeners # {}
    /\ \E valid \in {"true", "false"} : verify(listeners, valid, "browser")
    /\ listeners' = {}
    /\ configUnchanged /\ UNCHANGED <<phase, kiVars, keyTimers, browser, promptVars>>

\* hostkey:verify-response reaches every handler that listens: the response does
\* not say which question it answers.
HostKeyResponse ==
    /\ browser /\ listeners # {}
    /\ \E valid \in {"true", "false"} : verify(listeners, valid, "browser")
    /\ listeners' = {} /\ keyTimers' = keyTimers \ listeners
    /\ configUnchanged /\ UNCHANGED <<phase, kiVars, browser, promptVars>>

\* Seeded fault: the question is withdrawn without an answer to ssh2.
HostKeyTimeoutSilent(a) ==
    /\ a \in keyTimers
    /\ listeners' = listeners \ {a} /\ keyTimers' = keyTimers \ {a}
    /\ configUnchanged
    /\ UNCHANGED <<phase, verdict, verifyCalls, answeredBy, kiVars, browser, promptVars>>

HostKeyTimeout(a) ==
    /\ a \in keyTimers
    /\ verify({a}, "false", "end")
    /\ listeners' = listeners \ {a} /\ keyTimers' = keyTimers \ {a}
    /\ configUnchanged /\ UNCHANGED <<phase, kiVars, browser, promptVars>>

-------------------------------------------------------------------------------
(* Keyboard-interactive *)

\* The finish callback that ssh2 gave with round k of attempt a is called with n
\* answers, the stored password or what the browser said.
finish(a, k, n, by) ==
    /\ finished' = [finished EXCEPT ![a] = Append(@, [round |-> k, answers |-> n, by |-> by])]
    /\ round' = [round EXCEPT ![a] = 0]

\* What ssh2 is given: a password or no secret at all, and whether it may answer
\* the rounds of a server (algorithms, keepalive and capture are left out).
buildConnectConfig == [password |-> password, tryKeyboard |-> keyboardInteractiveAllowed]

\* Seeded fault: every round that asks for passwords is answered with the stored one.
AutoAnsweredAlways(a, r) == ~forwardAll /\ r.n > 0 /\ r.allPassword /\ password

\* The first round is answered with the password when every prompt asks for it.
AutoAnswered(a, r) ==
    isFirstRound[a] /\ ~forwardAll /\ r.n > 0 /\ r.allPassword /\ password

\* The keyboard-interactive listener: answer, or ask the browser through
\* handleSSHKeyboardInteractive(); a prompt that is refused leaves the round open.
KeyboardInteractive(a) ==
    /\ buildConnectConfig.tryKeyboard
    /\ phase[a] = "connecting" /\ verdict[a] = "true" /\ round[a] = 0
    /\ Len(announced[a]) < MaxRounds
    /\ isFirstRound' = [isFirstRound EXCEPT ![a] = FALSE]
    /\ \E r \in Rounds :
         LET k == Len(announced[a]) + 1
         IN  /\ announced' = [announced EXCEPT ![a] = Append(@, r.n)]
             /\ IF AutoAnswered(a, r)
                THEN finish(a, k, r.n, "password") /\ UNCHANGED promptVars
                ELSE /\ round' = [round EXCEPT ![a] = k]
                     /\ sendPrompt(createInputPrompt(IF r.n = 0 THEN {} ELSE InputKeys),
                                   roundHandler(a, k, r.n))
                     /\ UNCHANGED finished
    /\ configUnchanged /\ UNCHANGED <<phase, hkVars, browser>>

Cancelled(r) == r.action \in {"cancel", "dismissed", "timeout"}

\* checkInitialAuth() with alwaysSendKeyboardInteractivePrompts: the user name and
\* the password are asked for with a prompt too.
RequestLogin ==
    /\ browser /\ forwardAll /\ drawn = {} /\ \A a \in Attempts : phase[a] = "idle"
    /\ sendPrompt(createInputPrompt(InputKeys), [for |-> "login"])
    /\ configUnchanged /\ UNCHANGED <<phase, hkVars, kiVars, browser>>

\* prompt-response: an accepted one is handed to its round, or starts a handshake
\* with the credentials it brings (handleKeyboardInteractiveResponse).
PromptResponse(r) ==
    /\ browser
    /\ \/ RefuseResponse(r) /\ UNCHANGED <<finished, round, phase>>
       \/ /\ TakeResponse(r)
          /\ LET h == responseHandlers[r.id]
             IN  CASE h.for = "round" ->
                        /\ finish(h.attempt, h.round, IF Cancelled(r) THEN 0 ELSE h.prompts, "browser")
                        /\ UNCHANGED phase
                   [] h.for = "login" /\ ~Cancelled(r) ->
                        \E a \in Attempts : /\ phase[a] = "idle"
                                            /\ phase' = [phase EXCEPT ![a] = "connecting"]
                                            /\ UNCHANGED <<finished, round>>
                   [] OTHER -> UNCHANGED <<finished, round, phase>>
    /\ configUnchanged /\ UNCHANGED <<hkVars, isFirstRound, announced, browser>>

\* Other uses of the prompts: confirm, notice and toast (sendConfirmPrompt...).
OtherPrompt ==
    /\ browser
    /\ \/ sendPrompt(createConfirmPrompt, [for |-> "other"])
       \/ sendPrompt(createNoticePrompt, [for |-> "other"])
       \/ sendToastPrompt
    /\ configUnchanged /\ UNCHANGED <<phase, hkVars, kiVars, browser>>

PromptTimePasses ==
    PromptExpires /\ configUnchanged /\ UNCHANGED <<phase, hkVars, kiVars, browser>>

-------------------------------------------------------------------------------
(* The handshake *)

\* handleAuthentication() reaches connectSSH().
StartAttempt(a) ==
    /\ browser /\ phase[a] = "idle"
    /\ phase' = [phase EXCEPT ![a] = "connecting"]
    /\ configUnchanged /\ UNCHANGED <<hkVars, kiVars, browser, promptVars>>

\* ready, an error of ssh2, or the timer of connect(); open questions stay open.
AttemptSettles(a) ==
    /\ phase[a] = "connecting"
    /\ phase' = [phase EXCEPT ![a] = "settled"]
    /\ configUnchanged /\ UNCHANGED <<hkVars, kiVars, browser, promptVars>>

\* The disconnect event: onDisconnect() of every verification, and the prompts.
SocketDisconnect ==
    /\ browser /\ browser' = FALSE
    /\ verify(listeners, "false", "end")
    /\ listeners' = {} /\ keyTimers' = keyTimers \ listeners
    /\ PromptDisconnect
    /\ configUnchanged /\ UNCHANGED <<phase, kiVars>>

HandshakeNext ==
    \/ \E a \in Attempts :
         StartAttempt(a) \/ HostKeyPresented(a) \/ HostKeyTimeout(a) \/ KeyboardInteractive(a)
         \/ AttemptSettles(a)
    \/ HostKeyResponse \/ RequestLogin \/ OtherPrompt \/ PromptTimePasses \/ SocketDisconnect
    \/ \E r \in Responses(Actions, ResponseKeys) : PromptResponse(r)

HandshakeSpec == HandshakeInit /\ [][HandshakeNext]_handshakeVars

\* The verification timers fire.
FairHandshakeSpec ==
    HandshakeSpec /\ \A a \in Attempts : WF_handshakeVars(HostKeyTimeout(a))

-------------------------------------------------------------------------------
(* Properties *)

\* verify() is called at most once for a key, whatever the order of the response,
\* the disconnect and the timer, and a decided verification leaves neither timer
\* nor listener on the socket (awaitClientVerification).
VerifiedOnce ==
    /\ \A a \in Attempts : verifyCalls[a] = (IF verdict[a] \in {"true", "false"} THEN 1 ELSE 0)
    /\ keyTimers = {a \in Attempts : verdict[a] = "asked"}
    /\ listeners = IF browser THEN keyTimers ELSE {}

\* A question about a host key is decided, if only by its timer.
VerificationEnds == \A a \in Attempts : (verdict[a] = "asked") ~> (verdict[a] \in {"true", "false"})

\* What a call of finish() has to be to answer the i-th of the rounds of a host.
AnswersRound(call, i, rounds) ==
    /\ call.round = i /\ call.answers \in {0, rounds[i]}
    /\ call.by = "password" => i = 1 /\ call.answers = rounds[1] /\ ~forwardAll

\* The callbacks of ssh2 are called once each, for the rounds in the order in which
\* the host announced them: the i-th answer is that of the i-th round, with as many
\* parts as that round has prompts or none at all, and only the first round is ever
\* answered with the stored password, never one of a user who asked to see all
\* prompts (setupKeyboardInteractiveHandler, handleSSHKeyboardInteractive).
RoundsAnsweredOnce ==
    \A a \in Attempts :
        /\ Len(finished[a]) = Len(announced[a]) - (IF round[a] = 0 THEN 0 ELSE 1)
        /\ \A i \in 1 .. Len(finished[a]) : AnswersRound(finished[a][i], i, announced[a])

\* The tracker's indices agree, and a prompt that the browser can still answer and
\* that belongs to a round belongs to the one that waits: a response is handed to
\* the round it was asked for or to nobody (handlePromptResponse).
PromptAnswersItsRound ==
    /\ TrackerConsistent
    /\ \A p \in promptsBySocket :
         LET h == responseHandlers[p]
         IN  h.for = "round" => h.round = round[h.attempt]

=============================================================================
