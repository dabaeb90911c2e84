----------------------------- MODULE HttpSession -----------------------------
(***************************************************************************)
(* The HTTP side of a login: the session store, the middleware chain and   *)
(* the routes of /ssh, for the requests of one browser session.  Requests  *)
(* overlap: each works on the copy of the session it loaded, and writes    *)
(* that copy back when it ends.                                            *)
(*                                                                         *)
(* A credential is a password or a private key with the host it is for;    *)
(* src names the request that brought it, so that a property can tell the  *)
(* same credential used twice from one that was given again.  The name of  *)
(* the user and the terminal settings are left out.                        *)
(***************************************************************************)
EXTENDS Naturals, FiniteSets

CONSTANTS
    Hosts,        \* target hosts
    Passwords,    \* passwords; "" is the empty one
    Configs,      \* configurations, each with the requests its browsers may send
    MaxRequests,  \* bound: HTTP requests
    MaxInFlight,  \* bound: requests that overlap
    None

Requests == 1..MaxRequests

\* SshCredentials.
Credentials ==
    [pw : Passwords \cup {None}, key : BOOLEAN, host : Hosts \cup {None}, src : Requests \cup {0}]

\* AuthSession: what express-session keeps of a browser.
AuthSession ==
    [creds : Credentials \cup {None}, basic : BOOLEAN, method : {None, "POST"},
     failed : BOOLEAN, header : Requests \cup {None}]

\* SshRouteRequest: a request as the routes see it.
SshRouteRequest ==
    [kind : {"root", "host", "post", "clear", "force", "reauth"},
     basic : Passwords \cup {None}, host : Hosts \cup {None}, user : BOOLEAN,
     pw : Passwords \cup {None}, bodyHost : Hosts \cup {None},
     header : {"absent", "text", "legacy", "empty"}, sso : {"none", "user", "both"},
     trusted : BOOLEAN, badPort : BOOLEAN]

AuthMethods == {"password", "publickey", "keyboard-interactive"}

\* Config, as far as the login reads it, with the requests of its browsers.
Config ==
    [allowed : SUBSET AuthMethods,
     user : [pw : Passwords \cup {None}, key : BOOLEAN] \cup {None},
     host : Hosts \cup {None}, askKi : BOOLEAN, sso : BOOLEAN, csrf : BOOLEAN,
     inputs : SUBSET SshRouteRequest]

ASSUME HttpAssumption ==
    /\ None \notin Hosts \cup Passwords
    /\ MaxRequests \in Nat
    /\ MaxInFlight \in Nat
    /\ Configs \subseteq Config

VARIABLES
    cfg,      \* the configuration
    store,    \* EphemeralSessionStore: the entry of this browser
    req,      \* the requests in flight and answered
    pages,    \* the pages served: what buildTempConfig put into them
    writer,   \* history: the request that wrote the entry last
    gone      \* history: requests whose credentials a finished request removed

httpVars == <<cfg, store, req, pages, writer, gone>>

NoSession == [creds |-> None, basic |-> FALSE, method |-> None, failed |-> FALSE, header |-> None]

Idle == [state |-> "idle", in |-> None, sess |-> NoSession, saved |-> NoSession,
         reply |-> 0, page |-> None]

HttpInit ==
    /\ cfg \in Configs
    /\ store = NoSession
    /\ req = [i \in Requests |-> Idle]
    /\ pages = {}
    /\ writer = 0
    /\ gone = {}

-------------------------------------------------------------------------------
(***************************************************************************)
(* The store.  express-session loads the entry with get, writes the whole  *)
(* session with set when it differs from what was loaded or saved, and     *)
(* otherwise calls touch, which stores no more than the cookie.  The       *)
(* cookie has no maximal age, so that no entry ever expires.               *)
(***************************************************************************)

\* Seeded fault: the whole session is stored, not only the cookie.
touchWhole(sess) == sess

\* EphemeralSessionStore.touch: what is stored stays, under a new cookie.
touch(sess) == store

\* Request i writes its session back with EphemeralSessionStore.set.
set(i, sess) ==
    /\ store' = sess
    /\ writer' = i
    /\ gone' = IF sess.creds = None THEN gone ELSE gone \ {sess.creds.src}

-------------------------------------------------------------------------------
(***************************************************************************)
(* The middleware in front of the routes.                                  *)
(***************************************************************************)

\* createCSRFMiddleware lets a POST pass from a trusted proxy or with an SSO
\* header.  Any other needs the session's csrfToken, which no code ever sets.
csrfRejects(r) ==
    /\ cfg.sso
    /\ cfg.csrf
    /\ ~r.trusted
    /\ r.sso = "none"
    /\ r.kind = "post"

\* createSSOAuthMiddleware: the configured user for a body without credentials,
\* unless both SSO headers are there (which nothing reads afterwards).
applyDefaultCredentials(r) ==
    IF /\ cfg.sso
       /\ r.sso # "both"
       /\ ~(r.user /\ r.pw \in Passwords \ {""})
       /\ cfg.user # None
       /\ cfg.user.pw # None
    THEN [r EXCEPT !.user = TRUE, !.pw = IF @ \in {None, ""} THEN cfg.user.pw ELSE @]
    ELSE r

\* hasConfigCredentials with processAuthentication: Basic credentials win over
\* the configured ones; None is the answer 401.
processAuthentication(r) ==
    CASE r.basic # None -> [pw |-> r.basic, key |-> FALSE]
      [] r.basic = None /\ cfg.user # None -> [pw |-> cfg.user.pw, key |-> cfg.user.key]
      [] OTHER -> None

\* createSessionData: an empty password is left out, the host is the configured one.
createSessionData(i, a) ==
    [pw |-> IF a.pw = "" THEN None ELSE a.pw, key |-> a.key, host |-> cfg.host, src |-> i]

\* createAuthMiddleware once credentials were found.
repopulate(i, sess, a) ==
    IF sess.failed
    THEN [sess EXCEPT !.failed = FALSE, !.basic = FALSE, !.creds = None]
    ELSE [sess EXCEPT !.creds = createSessionData(i, a), !.basic = TRUE]

-------------------------------------------------------------------------------
(***************************************************************************)
(* What the routes do with a session.                                      *)
(***************************************************************************)

\* resolveRequestedAuthMethods and evaluateAuthMethodPolicy; an empty password
\* asks for nothing.
requestedMethods(c, ki) ==
    {m \in AuthMethods :
        \/ m = "password" /\ c.pw \notin {None, ""}
        \/ m = "publickey" /\ c.key
        \/ m = "keyboard-interactive" /\ ki}

policyAllows(c, ki) == requestedMethods(c, ki) \subseteq cfg.allowed

\* processHeaderParams: the override a request brings, None when its header
\* keys are absent, legacy or empty.
processHeaderParams(i, r) == IF r.header = "text" THEN i ELSE None

\* hasAnyHeaderKey: a header key, be it a legacy one or an empty one.
hasAnyHeaderKey(r) == r.header # "absent"

\* processHeaderParameters: a request's override replaces the former one, and
\* a request without any header key clears it.
processHeaderParameters(i, r, sess) ==
    IF processHeaderParams(i, r) = None /\ hasAnyHeaderKey(r) THEN sess
    ELSE [sess EXCEPT !.header = processHeaderParams(i, r)]

\* validateSshRouteCredentials: a password or a private key, not empty.
validRouteCredentials(c) == c # None /\ (c.pw \notin {None, ""} \/ c.key)

\* validateConnectionParameters: the host of the URL or the configured one, a
\* port in range; None is the answer 400.
validateConnectionParameters(r, h) ==
    IF r.badPort THEN None ELSE IF h # None THEN h ELSE cfg.host

\* Seeded fault: the host of the URL does not reach the session.
updateSessionCredentialsNoHost(sess, h) == sess

\* updateSessionCredentials: the credentials are for the host of the URL.
updateSessionCredentials(sess, h) == [sess EXCEPT !.creds.host = h]

\* hasSessionCredentials: does the page connect by itself?
hasSessionCredentials(sess) == sess.creds # None /\ (sess.basic \/ sess.method = "POST")

\* buildTempConfig: what the page of request i is told.
buildTempConfig(i, r, sess, locked) ==
    [req |-> i, auto |-> hasSessionCredentials(sess) \/ r.kind = "host" \/ r.host # None,
     locked |-> locked, header |-> sess.header, own |-> r.header]

\* The outcome of a route: the session it leaves, the status, the page.
outcome(sess, status, page) == [sess |-> sess, status |-> status, page |-> page]

\* GET /: the page, whatever the session holds.
rootRoute(i, r, sess) ==
    LET s == processHeaderParameters(i, r, sess)
    IN outcome(s, 200, buildTempConfig(i, r, s, None))

\* handleSshGetRoute, behind the authentication middleware.
handleSshGetRoute(i, r, sess) ==
    LET h == validateConnectionParameters(r, r.host)
        s == processHeaderParameters(i, r, updateSessionCredentials(sess, h))
    IN  CASE ~validRouteCredentials(sess.creds) -> outcome(sess, 401, None)
          [] validRouteCredentials(sess.creds) /\ ~policyAllows(sess.creds, FALSE) ->
                 outcome(sess, 403, None)
          [] validRouteCredentials(sess.creds) /\ policyAllows(sess.creds, FALSE) /\ h = None ->
                 outcome(sess, 400, None)
          [] OTHER -> outcome(s, 200, buildTempConfig(i, r, s, r.host))

\* createAuthSessionUpdates: usedBasicAuth and authFailed stay as they are.
createAuthSessionUpdates(i, r, sess, h) ==
    [sess EXCEPT !.creds = [pw |-> r.pw, key |-> FALSE, host |-> h, src |-> i],
                 !.method = "POST"]

\* extractCredentials: a name and a password in the body.
extractCredentials(r) == r.user /\ r.pw \in Passwords \ {""}

\* buildConnectionParams of a POST: the body's host wins over the URL's.
buildConnectionParams(r) ==
    validateConnectionParameters(r, IF r.bodyHost # None THEN r.bodyHost ELSE r.host)

\* handlePostAuthRoute, behind the CSRF and SSO middleware.
handlePostAuthRoute(i, raw, sess) ==
    LET r == applyDefaultCredentials(raw)
        h == buildConnectionParams(r)
        s == processHeaderParameters(i, r, createAuthSessionUpdates(i, r, sess, h))
        full == extractCredentials(r) /\ h # None
    IN  CASE csrfRejects(r) -> outcome(sess, 403, None)
          [] ~csrfRejects(r) /\ ~full -> outcome(sess, 400, None)
          [] ~csrfRejects(r) /\ full /\ "password" \notin cfg.allowed ->
                 outcome(sess, 403, None)
          [] OTHER -> outcome(s, 200, buildTempConfig(i, r, s, None))

\* GET /clear-credentials answers 200 and does nothing to the session.
clearRoute(sess) == outcome(sess, 200, None)

\* GET /force-reconnect removes the credentials and answers 401.
forceRoute(sess) == outcome([sess EXCEPT !.creds = None], 401, None)

\* processReauthRequest: every key with "auth" or "ssh" in its name is removed.
processReauthRequest(sess) == [NoSession EXCEPT !.header = sess.header]

route(i, r, sess) ==
    CASE r.kind = "root" -> rootRoute(i, r, sess)
      [] r.kind = "host" -> handleSshGetRoute(i, r, sess)
      [] r.kind = "post" -> handlePostAuthRoute(i, r, sess)
      [] r.kind = "clear" -> clearRoute(sess)
      [] r.kind = "force" -> forceRoute(sess)
      [] r.kind = "reauth" -> outcome(processReauthRequest(sess), 302, None)

-------------------------------------------------------------------------------
(***************************************************************************)
(* The steps of a request.                                                 *)
(***************************************************************************)

\* The session middleware has loaded the entry: get hands out a parsed copy.
Arrive(i, r) ==
    /\ req[i].state = "idle"
    /\ \A j \in Requests : j < i => req[j].state # "idle"
    /\ Cardinality({j \in Requests : req[j].state \notin {"idle", "done"}}) < MaxInFlight
    /\ req' = [req EXCEPT ![i] = [Idle EXCEPT !.state = IF r.kind = "host" THEN "auth" ELSE "route",
                                              !.in = r, !.sess = store, !.saved = store]]
    /\ UNCHANGED <<cfg, store, pages, writer, gone>>

\* The authentication middleware of the host routes: 401, or the session is
\* filled and saved before the route runs.
AuthMiddleware(i) ==
    /\ req[i].state = "auth"
    /\ LET a == processAuthentication(req[i].in)
           s == repopulate(i, req[i].sess, a)
       IN  IF a = None
           THEN /\ req' = [req EXCEPT ![i].state = "ending", ![i].reply = 401]
                /\ UNCHANGED <<store, writer, gone>>
           ELSE /\ req' = [req EXCEPT ![i].state = "route", ![i].sess = s, ![i].saved = s]
                /\ set(i, s)
    /\ UNCHANGED <<cfg, pages>>

\* The route has run; its answer waits for the page template.
RunRoute(i) ==
    /\ req[i].state = "route"
    /\ LET o == route(i, req[i].in, req[i].sess)
       IN  req' = [req EXCEPT ![i].state = "ending", ![i].sess = o.sess,
                              ![i].reply = o.status, ![i].page = o.page]
    /\ UNCHANGED <<cfg, store, pages, writer, gone>>

\* A finished request that removed credentials: all that came before are gone.
removes(i) == req[i].in.kind \in {"force", "reauth"}

\* The answer is sent: express-session saves a changed session, or touches it.
End(i) ==
    /\ req[i].state = "ending"
    /\ req' = [req EXCEPT ![i] = [Idle EXCEPT !.state = "done"]]
    /\ pages' = IF req[i].page = None THEN pages ELSE pages \cup {req[i].page}
    /\ IF req[i].sess # req[i].saved
       THEN /\ store' = req[i].sess
            /\ writer' = i
            /\ gone' = (gone \cup IF removes(i) THEN 1..i ELSE {})
                           \ IF req[i].sess.creds = None \/ removes(i) THEN {}
                             ELSE {req[i].sess.creds.src}
       ELSE store' = touch(req[i].sess) /\ UNCHANGED <<writer, gone>>
    /\ UNCHANGED cfg

HttpStep ==
    \/ \E i \in Requests, r \in cfg.inputs : Arrive(i, r)
    \/ \E i \in Requests : AuthMiddleware(i) \/ RunRoute(i) \/ End(i)

-------------------------------------------------------------------------------
\* Credentials that a finished /reauth or /force-reconnect removed are not in
\* the stored session: neither the removal (processReauthRequest) nor a
\* request that overlapped it and only read the session (touch) leaves or
\* brings them back.
RemovedStaysRemoved == store.creds # None => store.creds.src \notin gone

===============================================================================
