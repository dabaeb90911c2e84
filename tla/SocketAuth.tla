----------------------------- MODULE SocketAuth ------------------------------
(***************************************************************************)
(* The socket side of a login: a page opens sockets, each takes its own    *)
(* copy of the stored session when it connects, UnifiedAuthPipeline picks  *)
(* the provider, and ServiceSocketAuthentication connects by itself, asks  *)
(* the browser, or refuses.  The copy is never written back: io.ts runs    *)
(* the session middleware with a response that never ends.                 *)
(***************************************************************************)
EXTENDS HttpSession

CONSTANTS
    Sockets,    \* browser sockets, in the order 1, 2, ...
    Forms,      \* credentials a browser may submit on a socket
    MaxForms    \* bound: AUTH events of a socket

ASSUME FormsAssumption == Forms \subseteq Credentials /\ MaxForms \in Nat

VARIABLE sock    \* the adapters

NoSocket == [state |-> "new", page |-> None, copy |-> NoSession, by |-> 0, auto |-> None,
             provider |-> "manual", manual |-> None, asked |-> "none", ki |-> FALSE,
             tries |-> {}, forms |-> 0, conn |-> None]

SocketInit == sock = [k \in Sockets |-> NoSocket]

-------------------------------------------------------------------------------
\* UnifiedAuthPipeline.detectAuthProvider.
detectAuthProvider(s) ==
    CASE s.failed -> "manual"
      [] ~s.failed /\ s.basic /\ s.creds # None -> "basic"
      [] ~s.failed /\ ~(s.basic /\ s.creds # None) /\ s.method = "POST" /\ s.creds # None -> "post"
      [] OTHER -> "manual"

\* BasicAuthProvider reads the socket's copy as it is now.
basicAuthenticated(x) == x.provider = "basic" /\ x.copy.basic /\ x.copy.creds # None

\* PostAuthProvider does so too.
postAuthenticated(x) == x.provider = "post" /\ x.copy.method = "POST" /\ x.copy.creds # None

\* convertToAuthCredentials: a host, and a password or a key that is not empty.
convertToAuthCredentials(c) ==
    IF c.host # None /\ (c.pw \notin {None, ""} \/ c.key) THEN c ELSE None

\* isValidCredentials: an empty password is a string too.
isValidCredentials(c) == c.host # None /\ (c.pw # None \/ c.key)

\* AuthService.validateCredentials: the password or the key is not empty.
serviceAccepts(c) == c.pw \notin {None, ""} \/ c.key

\* requestAuthentication asks for the form.
requestAuthentication(x) == [x EXCEPT !.asked = "form", !.ki = FALSE]

\* requestKeyboardInteractiveAuth asks with a prompt, if the policy allows it.
requestKeyboardInteractiveAuth(x) ==
    IF "keyboard-interactive" \in cfg.allowed
    THEN [x EXCEPT !.asked = "prompt", !.ki = TRUE]
    ELSE requestAuthentication(x)

\* emitAuthFailure.
emitAuthFailure(x) == [x EXCEPT !.asked = "failure"]

\* updateAuthPipeline with setManualCredentials: from now on the provider is
\* the manual one, whatever the session says.
updateAuthPipeline(x, c) == [x EXCEPT !.provider = "manual", !.manual = c]

\* enforceAuthMethodPolicy.
enforceAuthMethodPolicy(x, c) == policyAllows(c, x.ki)

\* AuthService is asked for a session and the connection is tried.
performAuthentication(y, c) ==
    IF serviceAccepts(c) THEN [y EXCEPT !.tries = @ \cup {c}] ELSE emitAuthFailure(y)

\* handleAuthentication up to the call of connect(): the credentials are
\* checked, the pipeline takes them and the policy is enforced.
handleAuthentication(x, c) ==
    LET y == updateAuthPipeline(x, c)
    IN  CASE ~isValidCredentials(c) -> emitAuthFailure(x)
          [] isValidCredentials(c) /\ ~enforceAuthMethodPolicy(y, c) ->
                 [emitAuthFailure(y) EXCEPT !.ki = FALSE]
          [] OTHER -> performAuthentication(y, c)

\* checkInitialAuth: connect with what the session holds, or ask.  When the
\* provider counts as authenticated and its credentials are unusable, the
\* socket does neither.
checkInitialAuth(x) ==
    IF basicAuthenticated(x) \/ postAuthenticated(x)
    THEN LET c == convertToAuthCredentials(x.copy.creds)
         IN  IF c = None THEN x ELSE handleAuthentication([x EXCEPT !.auto = c], c)
    ELSE IF cfg.askKi THEN requestKeyboardInteractiveAuth(x) ELSE requestAuthentication(x)

\* A page opens a socket, for the first time or again after a lost one.
OpenSocket(k, p) ==
    /\ sock[k].state = "new"
    /\ \A j \in Sockets : j < k => sock[j].state # "new"
    /\ LET x == [NoSocket EXCEPT !.state = "open", !.page = p, !.copy = store, !.by = writer,
                                 !.provider = detectAuthProvider(store)]
       IN  sock' = [sock EXCEPT ![k] = checkInitialAuth(x)]
    /\ UNCHANGED httpVars

\* The AUTH event with credentials, or the answer to the prompt, which
\* handleKeyboardInteractiveResponse sends to the configured host.
SubmitForm(k, f) ==
    /\ sock[k].state = "open"
    /\ sock[k].forms < MaxForms
    /\ LET x == [sock[k] EXCEPT !.forms = @ + 1]
       IN  sock' = [sock EXCEPT ![k] = handleAuthentication(x, [f EXCEPT !.src = 0])]
    /\ UNCHANGED httpVars

AnswerPrompt(k, f) ==
    /\ sock[k].state = "open"
    /\ sock[k].forms < MaxForms
    /\ sock[k].asked = "prompt"
    /\ LET x == [sock[k] EXCEPT !.forms = @ + 1, !.asked = "none"]
           c == [pw |-> f.pw, key |-> FALSE, host |-> cfg.host, src |-> 0]
       IN  sock' = [sock EXCEPT ![k] =
               IF f.pw = None \/ cfg.host = None THEN emitAuthFailure(x)
               ELSE handleAuthentication([x EXCEPT !.ki = TRUE], c)]
    /\ UNCHANGED httpVars

CancelPrompt(k) ==
    /\ sock[k].state = "open"
    /\ sock[k].asked = "prompt"
    /\ sock' = [sock EXCEPT ![k] = emitAuthFailure(@)]
    /\ UNCHANGED httpVars

\* connect() has resolved: finalizeAuthentication, whether or not the socket is open.
Connected(k, c) ==
    /\ c \in sock[k].tries
    /\ sock' = [sock EXCEPT ![k].tries = @ \ {c}, ![k].conn = c,
                            ![k].copy.failed = FALSE, ![k].ki = FALSE]
    /\ UNCHANGED httpVars

\* emitConnectionError: an error of the kind "auth" clears the socket's copy.
Refused(k, c) ==
    /\ c \in sock[k].tries
    /\ sock' = [sock EXCEPT ![k].tries = @ \ {c}, ![k].asked = "failure",
                            ![k].copy = [@ EXCEPT !.creds = None, !.basic = FALSE,
                                                  !.failed = TRUE]]
    /\ UNCHANGED httpVars

Unreachable(k, c) ==
    /\ c \in sock[k].tries
    /\ sock' = [sock EXCEPT ![k].tries = @ \ {c}, ![k].asked = "failure"]
    /\ UNCHANGED httpVars

\* handleDisconnect: the adapter forgets what it knew.
Disconnect(k) ==
    /\ sock[k].state = "open"
    /\ sock' = [sock EXCEPT ![k] = [NoSocket EXCEPT !.state = "closed", !.tries = sock[k].tries]]
    /\ UNCHANGED httpVars

SocketStep ==
    \E k \in Sockets :
        \/ \E p \in pages : OpenSocket(k, p)
        \/ \E f \in Forms : SubmitForm(k, f) \/ AnswerPrompt(k, f)
        \/ CancelPrompt(k)
        \/ \E c \in sock[k].tries : Connected(k, c) \/ Refused(k, c) \/ Unreachable(k, c)
        \/ Disconnect(k)

LoginInit == HttpInit /\ SocketInit
LoginNext == (HttpStep /\ UNCHANGED sock) \/ SocketStep

LoginSpec == LoginInit /\ [][LoginNext]_<<httpVars, sock>>

-------------------------------------------------------------------------------
\* The page of /host/:host is locked to that host, and the socket it opens
\* connects by itself to no other, as long as no other request of the session
\* was written in between (updateSessionCredentials, checkInitialAuth).
PageConnectsToItsHost ==
    \A k \in Sockets :
        LET x == sock[k]
        IN  /\ x.state # "new"
            /\ x.auto # None
            /\ x.page.locked # None
            /\ x.by = x.page.req
            => x.auto.host = x.page.locked

===============================================================================
