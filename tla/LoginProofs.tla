----------------------------- MODULE LoginProofs ------------------------------
(***************************************************************************)
(* Proofs about the login over HTTP (HttpSession) and on a socket          *)
(* (SocketAuth), for every number of requests and sockets, every overlap   *)
(* of requests and every configuration.                                    *)
(***************************************************************************)
EXTENDS SocketAuth, TLAPS

-----------------------------------------------------------------------------
(***************************************************************************)
(* The inductive invariant.                                                *)
(***************************************************************************)
\* What buildTempConfig() makes.
Pages ==
    [req : Requests, auto : BOOLEAN, locked : Hosts \cup {None}, header : Requests \cup {None},
     own : {"absent", "text", "legacy", "empty"}]

RequestStates ==
    [state : {"idle", "auth", "route", "ending", "done"}, in : SshRouteRequest \cup {None},
     sess : AuthSession, saved : AuthSession, reply : Nat, page : Pages \cup {None}]

SocketStates ==
    [state : {"new", "open", "closed"}, page : Pages \cup {None}, copy : AuthSession,
     by : Requests \cup {0}, auto : Credentials \cup {None}, provider : {"basic", "post", "manual"},
     manual : Credentials \cup {None}, asked : {"none", "form", "prompt", "failure"}, ki : BOOLEAN,
     tries : SUBSET Credentials, forms : Nat, conn : Credentials \cup {None}]

HttpTyped ==
    /\ cfg \in Configs
    /\ store \in AuthSession
    /\ req \in [Requests -> RequestStates]
    /\ pages \in SUBSET Pages
    /\ writer \in Requests \cup {0}

\* How far request i is: one that removes credentials has none when it ends; one that has
\* written the store still finds there what it saved, or is not the last writer any more;
\* and its page is locked to the host of its credentials.
RequestProgress(i) ==
    LET q == req[i] IN
    /\ q.state \in {"auth", "route", "ending"} => q.in \in SshRouteRequest
    /\ q.state = "auth" => q.in.kind = "host"
    /\ (q.state = "ending" /\ removes(i)) => q.sess.creds = None
    /\ q.state \in {"idle", "auth"} => writer # i
    /\ (q.state \in {"route", "ending"} /\ writer = i) => store = q.saved
    /\ q.state \in {"auth", "route"} => q.page = None
    /\ (q.state = "ending" /\ q.page # None) =>
          /\ q.page \in Pages /\ q.page.req = i
          /\ q.page.locked # None => q.sess.creds.host = q.page.locked

\* A page that was served is of a finished request, and as long as that request is the
\* last writer, the stored credentials are for the host of the page.
PageAgrees(p) ==
    /\ req[p.req].state = "done"
    /\ (p.locked # None /\ writer = p.req) => store.creds.host = p.locked

HttpInv ==
    /\ HttpTyped
    /\ \A i \in Requests : RequestProgress(i)
    /\ \A p \in pages : PageAgrees(p)
    /\ RemovedStaysRemoved

ConnectsToItsHost(x) ==
    (x.auto # None /\ x.page.locked # None /\ x.by = x.page.req) => x.auto.host = x.page.locked

SocketInv ==
    /\ sock \in [Sockets -> SocketStates]
    /\ \A k \in Sockets : ConnectsToItsHost(sock[k])

LoginInv == HttpInv /\ SocketInv

-----------------------------------------------------------------------------
(***************************************************************************)
(* What the middleware and the routes leave in a session.                  *)
(***************************************************************************)
\* The host of the URL wins over the configured one.
LEMMA HostOfRoute ==
    ASSUME NEW r \in SshRouteRequest, NEW h \in Hosts \cup {None}, cfg \in Configs
    PROVE  /\ validateConnectionParameters(r, h) \in Hosts \cup {None}
           /\ (h # None /\ validateConnectionParameters(r, h) # None) =>
                 validateConnectionParameters(r, h) = h
  BY HttpAssumption DEF validateConnectionParameters, Config

\* The override of the header is the only thing processHeaderParameters() touches.
LEMMA HeaderKeeps ==
    ASSUME NEW i \in Requests, NEW r \in SshRouteRequest, NEW sess \in AuthSession
    PROVE  /\ processHeaderParameters(i, r, sess) \in AuthSession
           /\ processHeaderParameters(i, r, sess).creds = sess.creds
  BY DEF AuthSession, processHeaderParameters, processHeaderParams

LEMMA PageMade ==
    ASSUME NEW i \in Requests, NEW r \in SshRouteRequest, NEW sess \in AuthSession,
           NEW locked \in Hosts \cup {None}
    PROVE  /\ buildTempConfig(i, r, sess, locked) \in Pages
           /\ buildTempConfig(i, r, sess, locked).req = i
           /\ buildTempConfig(i, r, sess, locked).locked = locked
  BY DEF buildTempConfig, hasSessionCredentials, Pages, AuthSession, SshRouteRequest

\* Updating the host leaves the other fields of the credentials.
LEMMA UpdateSets ==
    ASSUME NEW sess \in AuthSession, sess.creds # None, NEW h \in Hosts \cup {None}
    PROVE  /\ updateSessionCredentials(sess, h) \in AuthSession
           /\ updateSessionCredentials(sess, h).creds.host = h
  <1>1. sess.creds \in Credentials
    BY DEF AuthSession
  <1>2. /\ [sess.creds EXCEPT !.host = h] \in Credentials
        /\ [sess.creds EXCEPT !.host = h].host = h
    BY <1>1 DEF Credentials
  <1>3. updateSessionCredentials(sess, h) = [sess EXCEPT !.creds = [sess.creds EXCEPT !.host = h]]
    BY DEF updateSessionCredentials, AuthSession
  <1> QED BY <1>2, <1>3 DEF AuthSession

\* The single sign-on middleware fills in a name and a password.
LEMMA DefaultsTyped ==
    ASSUME NEW r \in SshRouteRequest, cfg \in Configs
    PROVE  applyDefaultCredentials(r) \in SshRouteRequest /\ applyDefaultCredentials(r).kind = r.kind
  <1>1. cfg.user # None => cfg.user.pw \in Passwords \cup {None}
    BY HttpAssumption DEF Config
  <1>2. r.pw \in Passwords \cup {None}
    BY DEF SshRouteRequest
  <1>3. CASE applyDefaultCredentials(r) = r
    BY <1>3
  <1>4. CASE /\ cfg.user # None
             /\ \E pw \in Passwords \cup {None} :
                   applyDefaultCredentials(r) = [r EXCEPT !.user = TRUE, !.pw = pw]
    BY <1>4 DEF SshRouteRequest
  <1>5. cfg.user # None =>
            \/ applyDefaultCredentials(r) = r
            \/ \E pw \in Passwords \cup {None} :
                  applyDefaultCredentials(r) = [r EXCEPT !.user = TRUE, !.pw = pw]
    <2>1. \/ applyDefaultCredentials(r) = r
          \/ applyDefaultCredentials(r) =
                [r EXCEPT !.user = TRUE, !.pw = IF r.pw \in {None, ""} THEN cfg.user.pw ELSE r.pw]
      BY DEF applyDefaultCredentials, SshRouteRequest
    <2> QED BY <1>1, <1>2, <2>1
  <1>6. cfg.user = None => applyDefaultCredentials(r) = r
    BY DEF applyDefaultCredentials
  <1> QED BY <1>3, <1>4, <1>5, <1>6

LEMMA RepopulateTyped ==
    ASSUME NEW i \in Requests, NEW sess \in AuthSession, cfg \in Configs,
           NEW a \in [pw : Passwords \cup {None}, key : BOOLEAN]
    PROVE  repopulate(i, sess, a) \in AuthSession
  <1>1. createSessionData(i, a) \in Credentials
    BY HttpAssumption DEF createSessionData, Credentials, Config
  <1>2. [sess EXCEPT !.creds = createSessionData(i, a), !.basic = TRUE] \in AuthSession
    BY <1>1 DEF AuthSession
  <1>3. [sess EXCEPT !.failed = FALSE, !.basic = FALSE, !.creds = None] \in AuthSession
    BY DEF AuthSession
  <1> QED BY <1>2, <1>3 DEF repopulate

\* What a route may leave: the page names the request and is locked to the host that the
\* route put into the credentials, and a route that removes credentials leaves none.
Leaves(o, i, r) ==
    /\ o.sess \in AuthSession /\ o.status \in Nat /\ o.page \in Pages \cup {None}
    /\ r.kind \in {"force", "reauth"} => o.sess.creds = None
    /\ o.page # None =>
          /\ o.page.req = i
          /\ o.page.locked # None => o.sess.creds.host = o.page.locked

LEMMA PlainOutcome ==
    ASSUME NEW i \in Requests, NEW r, r.kind \notin {"force", "reauth"}, NEW s \in AuthSession,
           NEW status \in Nat
    PROVE  Leaves(outcome(s, status, None), i, r)
  BY DEF Leaves, outcome

LEMMA PageOutcome ==
    ASSUME NEW i \in Requests, NEW r, r.kind \notin {"force", "reauth"}, NEW s \in AuthSession,
           NEW rr \in SshRouteRequest, NEW locked \in Hosts \cup {None},
           locked # None => s.creds.host = locked
    PROVE  Leaves(outcome(s, 200, buildTempConfig(i, rr, s, locked)), i, r)
  <1>1. /\ buildTempConfig(i, rr, s, locked) \in Pages
        /\ buildTempConfig(i, rr, s, locked).req = i
        /\ buildTempConfig(i, rr, s, locked).locked = locked
    BY PageMade
  <1> QED BY <1>1 DEF Leaves, outcome

LEMMA RouteLeaves ==
    ASSUME NEW i \in Requests, NEW r \in SshRouteRequest, NEW sess \in AuthSession, cfg \in Configs
    PROVE  Leaves(route(i, r, sess), i, r)
  <1> DEFINE o == route(i, r, sess)
  <1>1. r.host \in Hosts \cup {None} /\ r.bodyHost \in Hosts \cup {None}
    BY DEF SshRouteRequest
  <1>2. CASE r.kind = "root"
    <2>1. o = rootRoute(i, r, sess)
      BY <1>2 DEF route
    <2> DEFINE s == processHeaderParameters(i, r, sess)
    <2>2. s \in AuthSession
      BY HeaderKeeps
    <2>3. o = outcome(s, 200, buildTempConfig(i, r, s, None))
      BY <2>1 DEF rootRoute
    <2> HIDE DEF s, o
    <2>4. Leaves(outcome(s, 200, buildTempConfig(i, r, s, None)), i, r)
      <3>1. r.kind \notin {"force", "reauth"} /\ None \in Hosts \cup {None}
        BY <1>2
      <3> QED BY <2>2, <3>1, PageOutcome
    <2> QED BY <2>3, <2>4 DEF o
  <1>3. CASE r.kind = "host"
    <2> DEFINE h == validateConnectionParameters(r, r.host)
               u == updateSessionCredentials(sess, h)
               s == processHeaderParameters(i, r, u)
    <2>1. \/ o \in {outcome(sess, 401, None), outcome(sess, 403, None), outcome(sess, 400, None)}
          \/ /\ validRouteCredentials(sess.creds) /\ h # None
             /\ o = outcome(s, 200, buildTempConfig(i, r, s, r.host))
      <3>1. o = handleSshGetRoute(i, r, sess)
        BY <1>3 DEF route
      <3>2. CASE ~validRouteCredentials(sess.creds)
        BY <3>1, <3>2 DEF handleSshGetRoute
      <3>3. CASE validRouteCredentials(sess.creds) /\ ~policyAllows(sess.creds, FALSE)
        BY <3>1, <3>3 DEF handleSshGetRoute
      <3>4. CASE validRouteCredentials(sess.creds) /\ policyAllows(sess.creds, FALSE) /\ h = None
        BY <3>1, <3>4 DEF handleSshGetRoute
      <3>5. CASE validRouteCredentials(sess.creds) /\ policyAllows(sess.creds, FALSE) /\ h # None
        BY <3>1, <3>5 DEF handleSshGetRoute
      <3> QED BY <3>2, <3>3, <3>4, <3>5
    <2>2. CASE o \in {outcome(sess, 401, None), outcome(sess, 403, None), outcome(sess, 400, None)}
      BY <1>3, <2>2, PlainOutcome
    <2>3. CASE /\ validRouteCredentials(sess.creds) /\ h # None
               /\ o = outcome(s, 200, buildTempConfig(i, r, s, r.host))
      <3>1. h \in Hosts \cup {None} /\ (r.host # None => h = r.host)
        BY <1>1, <2>3, HostOfRoute
      <3> HIDE DEF h
      <3>2. u \in AuthSession /\ u.creds.host = h
        BY <2>3, <3>1, UpdateSets DEF validRouteCredentials
      <3> HIDE DEF u
      <3>3. s \in AuthSession /\ s.creds.host = h
        BY <3>2, HeaderKeeps
      <3> HIDE DEF s
      <3>4. Leaves(outcome(s, 200, buildTempConfig(i, r, s, r.host)), i, r)
        BY <1>1, <1>3, <3>1, <3>3, PageOutcome
      <3> QED BY <2>3, <3>4
    <2> QED BY <2>1, <2>2, <2>3
  <1>4. CASE r.kind = "post"
    <2> DEFINE d == applyDefaultCredentials(r)
               h == buildConnectionParams(d)
               u == createAuthSessionUpdates(i, d, sess, h)
               s == processHeaderParameters(i, d, u)
    <2>1. o \in {outcome(sess, 403, None), outcome(sess, 400, None),
                 outcome(s, 200, buildTempConfig(i, d, s, None))}
      BY <1>4 DEF route, handlePostAuthRoute
    <2>2. d \in SshRouteRequest
      BY DefaultsTyped
    <2> HIDE DEF d
    <2>3. h \in Hosts \cup {None}
      <3>1. \A g \in Hosts \cup {None} : validateConnectionParameters(d, g) \in Hosts \cup {None}
        BY <2>2, HostOfRoute
      <3> QED BY <2>2, <3>1 DEF buildConnectionParams, SshRouteRequest
    <2> HIDE DEF h
    <2>4. u \in AuthSession
      <3>1. [pw |-> d.pw, key |-> FALSE, host |-> h, src |-> i] \in Credentials
        BY <2>2, <2>3 DEF Credentials, SshRouteRequest
      <3> QED BY <3>1 DEF createAuthSessionUpdates, AuthSession
    <2> HIDE DEF u
    <2>5. s \in AuthSession
      BY <2>2, <2>4, HeaderKeeps
    <2> HIDE DEF s
    <2>6. /\ Leaves(outcome(sess, 403, None), i, r) /\ Leaves(outcome(sess, 400, None), i, r)
          /\ Leaves(outcome(s, 200, buildTempConfig(i, d, s, None)), i, r)
      <3>1. r.kind \notin {"force", "reauth"} /\ None \in Hosts \cup {None}
        BY <1>4
      <3>2. Leaves(outcome(sess, 403, None), i, r) /\ Leaves(outcome(sess, 400, None), i, r)
        BY <3>1, PlainOutcome
      <3>3. Leaves(outcome(s, 200, buildTempConfig(i, d, s, None)), i, r)
        BY <2>2, <2>5, <3>1, PageOutcome
      <3> QED BY <3>2, <3>3
    <2> QED BY <2>1, <2>6
  <1>5. CASE r.kind = "clear"
    BY <1>5, PlainOutcome DEF route, clearRoute
  <1>6. CASE r.kind \in {"force", "reauth"}
    <2>1. ASSUME NEW s \in AuthSession, s.creds = None, NEW status \in Nat
          PROVE  Leaves(outcome(s, status, None), i, r)
      BY <2>1 DEF Leaves, outcome
    <2>2. CASE r.kind = "force"
      <3> DEFINE s == [sess EXCEPT !.creds = None]
      <3>1. s \in AuthSession /\ s.creds = None
        BY DEF AuthSession
      <3>2. o = outcome(s, 401, None)
        BY <2>2 DEF route, forceRoute
      <3> HIDE DEF o, s
      <3>3. Leaves(o, i, r)
        BY <2>1, <3>1, <3>2
      <3> QED BY <3>3 DEF o
    <2>3. CASE r.kind = "reauth"
      <3>1. /\ processReauthRequest(sess) \in AuthSession
            /\ processReauthRequest(sess).creds = None
        BY DEF AuthSession, processReauthRequest, NoSession
      <3>2. o = outcome(processReauthRequest(sess), 302, None)
        BY <2>3 DEF route
      <3> HIDE DEF o
      <3>3. Leaves(o, i, r)
        BY <2>1, <3>1, <3>2
      <3> QED BY <3>3 DEF o
    <2> QED BY <1>6, <2>2, <2>3
  <1>7. r.kind \in {"root", "host", "post", "clear", "force", "reauth"}
    BY DEF SshRouteRequest
  <1> QED BY <1>2, <1>3, <1>4, <1>5, <1>6, <1>7

-----------------------------------------------------------------------------
(***************************************************************************)
(* The steps of a request.                                                 *)
(***************************************************************************)
LEMMA ArriveKeeps ==
    ASSUME HttpInv, NEW i \in Requests, NEW r \in cfg.inputs, Arrive(i, r)
    PROVE  HttpInv'
  <1> DEFINE q == [Idle EXCEPT !.state = IF r.kind = "host" THEN "auth" ELSE "route",
                               !.in = r, !.sess = store, !.saved = store]
  <1>1. /\ HttpTyped /\ req[i].state = "idle" /\ RequestProgress(i) /\ writer # i
        /\ UNCHANGED <<cfg, store, pages, writer, gone>>
    BY DEF HttpInv, Arrive, RequestProgress
  <1>2. req' = [req EXCEPT ![i] = q]
    BY DEF Arrive
  <1>3. r \in SshRouteRequest
    BY <1>1, HttpAssumption DEF HttpTyped, Config
  <1>4. /\ q \in RequestStates
        /\ q.state = (IF r.kind = "host" THEN "auth" ELSE "route")
        /\ q.in = r /\ q.sess = store /\ q.saved = store /\ q.page = None
    <2>1. Idle \in RequestStates /\ Idle.page = None
      BY DEF Idle, NoSession, RequestStates, AuthSession
    <2>2. store \in AuthSession
      BY <1>1 DEF HttpTyped
    <2> QED BY <1>3, <2>1, <2>2 DEF RequestStates
  <1> HIDE DEF q
  <1>5. /\ req'[i] = q /\ req' \in [Requests -> RequestStates]
        /\ \A j \in Requests \ {i} : req'[j] = req[j]
    BY <1>1, <1>2, <1>4 DEF HttpTyped
  <1>6. HttpTyped'
    BY <1>1, <1>5 DEF HttpTyped
  <1>7. \A j \in Requests : RequestProgress(j)'
    BY <1>1, <1>3, <1>4, <1>5 DEF HttpInv, RequestProgress, removes
  <1>8. \A p \in pages' : PageAgrees(p)'
    BY <1>1, <1>5 DEF HttpInv, HttpTyped, Pages, PageAgrees
  <1> QED BY <1>1, <1>6, <1>7, <1>8 DEF HttpInv, RemovedStaysRemoved

\* The authentication middleware saves what it filled in, so that the request finds in the
\* store what it saved.
LEMMA AuthKeeps ==
    ASSUME HttpInv, NEW i \in Requests, AuthMiddleware(i)
    PROVE  HttpInv'
  <1> DEFINE a == processAuthentication(req[i].in)
             s == repopulate(i, req[i].sess, a)
  <1>1. /\ HttpTyped /\ req[i].state = "auth" /\ RequestProgress(i) /\ writer # i
        /\ req[i] \in RequestStates /\ req[i].sess \in AuthSession
        /\ req[i].in \in SshRouteRequest /\ req[i].in.kind = "host" /\ req[i].page = None
        /\ UNCHANGED <<cfg, pages>>
    BY DEF HttpInv, HttpTyped, AuthMiddleware, RequestProgress, RequestStates
  <1>2. CASE /\ req' = [req EXCEPT ![i].state = "ending", ![i].reply = 401]
             /\ UNCHANGED <<store, writer, gone>>
    <2> DEFINE q == [req[i] EXCEPT !.state = "ending", !.reply = 401]
    <2>1. req' = [req EXCEPT ![i] = q]
      BY <1>1, <1>2 DEF HttpTyped
    <2>2. /\ q \in RequestStates /\ q.state = "ending" /\ q.in = req[i].in /\ q.page = None
      <3>1. ASSUME NEW x \in RequestStates, NEW status \in Nat
            PROVE  [x EXCEPT !.state = "ending", !.reply = status] \in RequestStates
        BY DEF RequestStates
      <3>2. q \in RequestStates
        <4>1. req[i] \in RequestStates /\ 401 \in Nat
          BY <1>1
        <4> QED BY <3>1, <4>1
      <3>3. q.state = "ending" /\ q.in = req[i].in /\ q.page = req[i].page
        BY <1>1 DEF RequestStates
      <3> QED BY <1>1, <3>2, <3>3
    <2> HIDE DEF q
    <2>3. /\ req'[i] = q /\ req' \in [Requests -> RequestStates]
          /\ \A j \in Requests \ {i} : req'[j] = req[j]
      BY <1>1, <2>1, <2>2 DEF HttpTyped
    <2>4. HttpTyped'
      BY <1>1, <1>2, <2>3 DEF HttpTyped
    <2>5. \A j \in Requests : RequestProgress(j)'
      BY <1>1, <1>2, <2>2, <2>3 DEF HttpInv, RequestProgress, removes
    <2>6. \A p \in pages' : PageAgrees(p)'
      BY <1>1, <1>2, <2>3 DEF HttpInv, HttpTyped, Pages, PageAgrees
    <2> QED BY <1>2, <2>4, <2>5, <2>6 DEF HttpInv, RemovedStaysRemoved
  <1>3. CASE /\ a # None
             /\ req' = [req EXCEPT ![i].state = "route", ![i].sess = s, ![i].saved = s]
             /\ set(i, s)
    <2> DEFINE q == [req[i] EXCEPT !.state = "route", !.sess = s, !.saved = s]
    <2>1. s \in AuthSession
      <3>1. a \in [pw : Passwords \cup {None}, key : BOOLEAN]
        <4>1. cfg.user # None => cfg.user \in [pw : Passwords \cup {None}, key : BOOLEAN]
          BY <1>1, HttpAssumption DEF HttpTyped, Config
        <4>2. req[i].in.basic \in Passwords \cup {None}
          BY <1>1 DEF SshRouteRequest
        <4> QED BY <1>3, <4>1, <4>2 DEF processAuthentication
      <3> QED BY <1>1, <3>1, RepopulateTyped DEF HttpTyped
    <2>2. req' = [req EXCEPT ![i] = q]
      BY <1>1, <1>3 DEF HttpTyped
    <2>3. store' = s /\ writer' = i /\ (s.creds # None => s.creds.src \notin gone')
      BY <1>3 DEF set
    <2> HIDE DEF s
    <2>4. /\ q \in RequestStates /\ q.state = "route" /\ q.in = req[i].in /\ q.page = None
          /\ q.sess = s /\ q.saved = s
      BY <1>1, <2>1 DEF RequestStates
    <2> HIDE DEF q
    <2>5. /\ req'[i] = q /\ req' \in [Requests -> RequestStates]
          /\ \A j \in Requests \ {i} : req'[j] = req[j]
      BY <1>1, <2>2, <2>4 DEF HttpTyped
    <2>6. HttpTyped'
      BY <1>1, <2>1, <2>3, <2>5 DEF HttpTyped
    <2>7. \A j \in Requests : RequestProgress(j)'
      BY <1>1, <2>3, <2>4, <2>5 DEF HttpInv, RequestProgress, removes
    <2>8. \A p \in pages' : PageAgrees(p)'
      BY <1>1, <2>3, <2>5 DEF HttpInv, HttpTyped, Pages, PageAgrees
    <2>9. RemovedStaysRemoved'
      BY <2>3 DEF RemovedStaysRemoved
    <2> QED BY <2>6, <2>7, <2>8, <2>9 DEF HttpInv
  <1> QED BY <1>2, <1>3 DEF AuthMiddleware

LEMMA RouteKeeps ==
    ASSUME HttpInv, NEW i \in Requests, RunRoute(i)
    PROVE  HttpInv'
  <1> DEFINE o == route(i, req[i].in, req[i].sess)
             q == [req[i] EXCEPT !.state = "ending", !.sess = o.sess, !.reply = o.status,
                                 !.page = o.page]
  <1>1. /\ HttpTyped /\ req[i].state = "route" /\ RequestProgress(i)
        /\ req[i] \in RequestStates /\ req[i].sess \in AuthSession
        /\ req[i].in \in SshRouteRequest /\ cfg \in Configs
        /\ UNCHANGED <<cfg, store, pages, writer, gone>>
    BY DEF HttpInv, HttpTyped, RunRoute, RequestProgress, RequestStates
  <1>2. req' = [req EXCEPT ![i] = q]
    BY <1>1 DEF HttpTyped, RunRoute
  <1>3. Leaves(o, i, req[i].in)
    BY <1>1, RouteLeaves
  <1> HIDE DEF o
  <1>4. /\ q \in RequestStates /\ q.state = "ending" /\ q.in = req[i].in /\ q.saved = req[i].saved
        /\ q.sess = o.sess /\ q.page = o.page
    BY <1>1, <1>3 DEF RequestStates, Leaves
  <1> HIDE DEF q
  <1>5. /\ req'[i] = q /\ req' \in [Requests -> RequestStates]
        /\ \A j \in Requests \ {i} : req'[j] = req[j]
    BY <1>1, <1>2, <1>4 DEF HttpTyped
  <1>6. HttpTyped'
    BY <1>1, <1>5 DEF HttpTyped
  <1>7. RequestProgress(i)'
    BY <1>1, <1>3, <1>4, <1>5 DEF RequestProgress, removes, Leaves
  <1>8. \A j \in Requests : RequestProgress(j)'
    BY <1>1, <1>5, <1>7 DEF HttpInv, RequestProgress, removes
  <1>9. \A p \in pages' : PageAgrees(p)'
    BY <1>1, <1>5 DEF HttpInv, HttpTyped, Pages, PageAgrees
  <1> QED BY <1>1, <1>6, <1>8, <1>9 DEF HttpInv, RemovedStaysRemoved

\* The end of a request: the page goes out, and the session is written or touched.
LEMMA EndKeeps ==
    ASSUME HttpInv, NEW i \in Requests, End(i)
    PROVE  HttpInv'
  <1> DEFINE q == [Idle EXCEPT !.state = "done"]
  <1>1. /\ HttpTyped /\ req[i].state = "ending" /\ RequestProgress(i)
        /\ req[i] \in RequestStates /\ req[i].sess \in AuthSession
        /\ req' = [req EXCEPT ![i] = q] /\ UNCHANGED cfg
    BY DEF HttpInv, HttpTyped, End, RequestProgress, RequestStates
  <1>2. q \in RequestStates /\ q.state = "done"
    BY DEF Idle, NoSession, RequestStates, AuthSession
  <1> HIDE DEF q
  <1>3. /\ req'[i] = q /\ req' \in [Requests -> RequestStates]
        /\ \A j \in Requests \ {i} : req'[j] = req[j]
    BY <1>1, <1>2 DEF HttpTyped
  <1>4. /\ pages' \in SUBSET Pages
        /\ \A p \in pages' : p \in pages \/ (p = req[i].page /\ req[i].page # None)
    BY <1>1 DEF End, HttpTyped, RequestProgress
  <1>5. \A p \in pages : p.req \in Requests \ {i}
    BY <1>1 DEF HttpInv, HttpTyped, Pages, PageAgrees
  <1>6. CASE req[i].sess # req[i].saved
    <2>1. /\ store' = req[i].sess /\ writer' = i
          /\ gone' = (gone \cup IF removes(i) THEN 1..i ELSE {})
                         \ IF req[i].sess.creds = None \/ removes(i) THEN {}
                           ELSE {req[i].sess.creds.src}
      BY <1>6 DEF End
    <2>2. HttpTyped'
      BY <1>1, <1>3, <1>4, <2>1 DEF HttpTyped
    <2>3. \A j \in Requests : RequestProgress(j)'
      BY <1>1, <1>2, <1>3, <2>1 DEF HttpInv, RequestProgress, removes
    <2>4. \A p \in pages' : PageAgrees(p)'
      <3>1. ASSUME NEW p \in pages PROVE PageAgrees(p)'
        BY <1>3, <1>5, <2>1 DEF HttpInv, PageAgrees
      <3>2. CASE req[i].page # None
        <4>1. /\ req[i].page.req = i
              /\ req[i].page.locked # None => store'.creds.host = req[i].page.locked
          BY <1>1, <2>1, <3>2 DEF RequestProgress
        <4> QED BY <1>2, <1>3, <1>4, <3>1, <4>1 DEF PageAgrees
      <3> QED BY <1>4, <3>1, <3>2
    <2>5. RemovedStaysRemoved'
      BY <1>1, <2>1 DEF RequestProgress, RemovedStaysRemoved
    <2> QED BY <2>2, <2>3, <2>4, <2>5 DEF HttpInv
  <1>7. CASE req[i].sess = req[i].saved
    <2>1. UNCHANGED <<store, writer, gone>>
      BY <1>7 DEF End, touch
    <2>2. HttpTyped'
      BY <1>1, <1>3, <1>4, <2>1 DEF HttpTyped
    <2>3. \A j \in Requests : RequestProgress(j)'
      BY <1>1, <1>2, <1>3, <2>1 DEF HttpInv, RequestProgress, removes
    <2>4. \A p \in pages' : PageAgrees(p)'
      <3>1. ASSUME NEW p \in pages PROVE PageAgrees(p)'
        BY <1>3, <1>5, <2>1 DEF HttpInv, PageAgrees
      <3>2. CASE req[i].page # None
        <4>1. /\ req[i].page.req = i
              /\ (req[i].page.locked # None /\ writer' = i) =>
                    store'.creds.host = req[i].page.locked
          BY <1>1, <1>7, <2>1, <3>2 DEF RequestProgress
        <4> QED BY <1>2, <1>3, <1>4, <3>1, <4>1 DEF PageAgrees
      <3> QED BY <1>4, <3>1, <3>2
    <2> QED BY <2>1, <2>2, <2>3, <2>4 DEF HttpInv, RemovedStaysRemoved
  <1> QED BY <1>6, <1>7

LEMMA HttpInitInv == HttpInit => HttpInv
  <1> SUFFICES ASSUME HttpInit PROVE HttpInv
    OBVIOUS
  <1>1. NoSession \in AuthSession /\ NoSession.creds = None
    BY DEF NoSession, AuthSession
  <1>2. Idle \in RequestStates /\ Idle.state = "idle"
    BY <1>1 DEF Idle, RequestStates
  <1>3. HttpTyped
    BY <1>1, <1>2 DEF HttpInit, HttpTyped
  <1>4. \A i \in Requests : RequestProgress(i)
    BY <1>2, HttpAssumption DEF HttpInit, RequestProgress, Requests
  <1> QED BY <1>1, <1>3, <1>4 DEF HttpInit, HttpInv, RemovedStaysRemoved

LEMMA HttpStepInv ==
    ASSUME HttpInv, HttpStep \/ UNCHANGED httpVars
    PROVE  HttpInv'
  <1>1. CASE HttpStep
    BY <1>1, ArriveKeeps, AuthKeeps, RouteKeeps, EndKeeps DEF HttpStep
  <1>2. CASE UNCHANGED httpVars
    BY <1>2 DEF httpVars, HttpInv, HttpTyped, RequestProgress, removes, PageAgrees, RemovedStaysRemoved
  <1> QED BY <1>1, <1>2

-----------------------------------------------------------------------------
(***************************************************************************)
(* The steps of a socket.                                                  *)
(***************************************************************************)
\* A socket that goes on with the page and the host it started with.
Continues(x, y) ==
    y \in SocketStates /\ y.page = x.page /\ y.by = x.by /\ y.auto = x.auto

LEMMA HandleContinues ==
    ASSUME NEW x \in SocketStates, NEW c \in Credentials
    PROVE  Continues(x, handleAuthentication(x, c))
  <1> DEFINE y == updateAuthPipeline(x, c)
  <1>1. ASSUME NEW z \in SocketStates
        PROVE  /\ Continues(z, emitAuthFailure(z))
               /\ Continues(z, [z EXCEPT !.ki = FALSE])
               /\ Continues(z, performAuthentication(z, c))
    <2>1. Continues(z, emitAuthFailure(z))
      BY DEF emitAuthFailure, Continues, SocketStates
    <2>2. Continues(z, [z EXCEPT !.ki = FALSE])
      BY DEF Continues, SocketStates
    <2>3. z.tries \cup {c} \in SUBSET Credentials
      BY DEF SocketStates
    <2>4. Continues(z, [z EXCEPT !.tries = z.tries \cup {c}])
      BY <2>3 DEF Continues, SocketStates
    <2>5. [z EXCEPT !.tries = @ \cup {c}] = [z EXCEPT !.tries = z.tries \cup {c}]
      BY DEF SocketStates
    <2> QED BY <2>1, <2>2, <2>4, <2>5 DEF performAuthentication
  <1>2. Continues(x, y)
    BY DEF updateAuthPipeline, Continues, SocketStates
  <1>3. y \in SocketStates
    BY <1>2 DEF Continues
  <1> HIDE DEF y
  <1>4. Continues(x, emitAuthFailure(x))
    BY <1>1
  <1>5. Continues(x, performAuthentication(y, c))
    BY <1>1, <1>2, <1>3 DEF Continues
  <1>6. Continues(x, [emitAuthFailure(y) EXCEPT !.ki = FALSE])
    <2>1. Continues(y, emitAuthFailure(y)) /\ emitAuthFailure(y) \in SocketStates
      BY <1>1, <1>3 DEF Continues
    <2>2. Continues(emitAuthFailure(y), [emitAuthFailure(y) EXCEPT !.ki = FALSE])
      BY <1>1, <2>1
    <2> QED BY <1>2, <2>1, <2>2 DEF Continues
  <1> QED BY <1>4, <1>5, <1>6 DEF handleAuthentication, y

\* A socket that connects by itself uses what it took from the session.
LEMMA InitialHost ==
    ASSUME NEW x \in SocketStates, x.auto = None
    PROVE  LET y == checkInitialAuth(x) IN
           /\ y \in SocketStates /\ y.page = x.page /\ y.by = x.by
           /\ y.auto # None => y.auto = x.copy.creds
  <1> DEFINE c == convertToAuthCredentials(x.copy.creds)
             y == checkInitialAuth(x)
  <1>1. Continues(x, requestAuthentication(x)) /\ Continues(x, requestKeyboardInteractiveAuth(x))
    <2>1. Continues(x, requestAuthentication(x))
      BY DEF requestAuthentication, Continues, SocketStates
    <2>2. Continues(x, [x EXCEPT !.asked = "prompt", !.ki = TRUE])
      BY DEF Continues, SocketStates
    <2> QED BY <2>1, <2>2 DEF requestKeyboardInteractiveAuth
  <1>2. ASSUME basicAuthenticated(x) \/ postAuthenticated(x), c # None
        PROVE  /\ c = x.copy.creds /\ c \in Credentials
               /\ [x EXCEPT !.auto = c] \in SocketStates
               /\ [x EXCEPT !.auto = c].page = x.page /\ [x EXCEPT !.auto = c].by = x.by
               /\ [x EXCEPT !.auto = c].auto = c
    <2>1. c = x.copy.creds
      BY <1>2 DEF convertToAuthCredentials
    <2>2. x.copy.creds # None /\ x.copy.creds \in Credentials \cup {None}
      BY <1>2 DEF basicAuthenticated, postAuthenticated, SocketStates, AuthSession
    <2>3. c \in Credentials
      BY <2>1, <2>2
    <2> HIDE DEF c
    <2> QED BY <2>1, <2>3 DEF SocketStates
  <1>3. \/ y = x \/ y = requestAuthentication(x) \/ y = requestKeyboardInteractiveAuth(x)
        \/ /\ basicAuthenticated(x) \/ postAuthenticated(x)
           /\ c # None /\ y = handleAuthentication([x EXCEPT !.auto = c], c)
    BY DEF checkInitialAuth
  <1>4. CASE y = x \/ y = requestAuthentication(x) \/ y = requestKeyboardInteractiveAuth(x)
    BY <1>1, <1>4 DEF Continues
  <1>5. CASE /\ basicAuthenticated(x) \/ postAuthenticated(x)
             /\ c # None /\ y = handleAuthentication([x EXCEPT !.auto = c], c)
    <2> HIDE DEF c, y
    <2>1. Continues([x EXCEPT !.auto = c], y)
      BY <1>2, <1>5, HandleContinues
    <2>2. y \in SocketStates /\ y.page = x.page /\ y.by = x.by /\ y.auto = x.copy.creds
      BY <1>2, <1>5, <2>1 DEF Continues
    <2> QED BY <2>2 DEF y
  <1> QED BY <1>3, <1>4, <1>5

\* A step of socket k that keeps the promise for k keeps it for all.
LEMMA OneSocket ==
    ASSUME SocketInv, NEW k \in Sockets, NEW y \in SocketStates, ConnectsToItsHost(y),
           sock' = [sock EXCEPT ![k] = y]
    PROVE  SocketInv'
  <1>1. sock'[k] = y /\ \A j \in Sockets \ {k} : sock'[j] = sock[j]
    BY DEF SocketInv
  <1>2. sock' \in [Sockets -> SocketStates]
    BY DEF SocketInv
  <1>3. \A j \in Sockets : ConnectsToItsHost(sock'[j])
    BY <1>1 DEF SocketInv
  <1>4. \A j \in Sockets : ConnectsToItsHost(sock[j])'
    BY <1>3 DEF ConnectsToItsHost
  <1> QED BY <1>2, <1>4 DEF SocketInv

LEMMA ContinuesKeeps ==
    ASSUME SocketInv, NEW k \in Sockets, NEW y, Continues(sock[k], y),
           sock' = [sock EXCEPT ![k] = y]
    PROVE  SocketInv'
  <1>1. y \in SocketStates /\ ConnectsToItsHost(y)
    BY DEF SocketInv, Continues, ConnectsToItsHost
  <1> QED BY <1>1, OneSocket

LEMMA NoSocketTyped == NoSocket \in SocketStates /\ NoSocket.auto = None
  <1>1. NoSession \in AuthSession
    BY DEF NoSession, AuthSession
  <1> QED BY <1>1 DEF NoSocket, SocketStates

LEMMA OpenKeeps ==
    ASSUME HttpInv, SocketInv, NEW k \in Sockets, NEW p \in pages, OpenSocket(k, p)
    PROVE  SocketInv'
  <1> DEFINE provider == detectAuthProvider(store)
             x == [NoSocket EXCEPT !.state = "open", !.page = p, !.copy = store, !.by = writer,
                                   !.provider = provider]
             y == checkInitialAuth(x)
  <1>1. /\ store \in AuthSession /\ writer \in Requests \cup {0} /\ p \in Pages /\ PageAgrees(p)
    BY DEF HttpInv, HttpTyped
  <1>2. provider \in {"basic", "post", "manual"}
    BY DEF detectAuthProvider
  <1>3. sock' = [sock EXCEPT ![k] = y]
    BY DEF OpenSocket
  <1> HIDE DEF provider
  <1>4. x \in SocketStates /\ x.auto = None /\ x.page = p /\ x.by = writer /\ x.copy = store
    BY <1>1, <1>2, NoSocketTyped DEF SocketStates
  <1> HIDE DEF x
  <1>5. /\ y \in SocketStates /\ y.page = p /\ y.by = writer
        /\ y.auto # None => y.auto = store.creds
    BY <1>4, InitialHost
  <1>6. ConnectsToItsHost(y)
    BY <1>1, <1>5 DEF PageAgrees, ConnectsToItsHost
  <1> HIDE DEF y
  <1> QED BY <1>3, <1>5, <1>6, OneSocket

LEMMA SubmitKeeps ==
    ASSUME SocketInv, NEW k \in Sockets, NEW f \in Forms, SubmitForm(k, f)
    PROVE  SocketInv'
  <1> DEFINE x == [sock[k] EXCEPT !.forms = @ + 1]
             c == [f EXCEPT !.src = 0]
             y == handleAuthentication(x, c)
  <1>1. sock[k] \in SocketStates
    BY DEF SocketInv
  <1>2. sock' = [sock EXCEPT ![k] = y]
    BY DEF SubmitForm
  <1>3. c \in Credentials
    BY FormsAssumption DEF Credentials
  <1>4. Continues(sock[k], x) /\ x \in SocketStates
    BY <1>1 DEF Continues, SocketStates
  <1> HIDE DEF x, c
  <1>5. Continues(sock[k], y)
    BY <1>3, <1>4, HandleContinues DEF Continues
  <1> HIDE DEF y
  <1> QED BY <1>2, <1>5, ContinuesKeeps

LEMMA PromptKeeps ==
    ASSUME HttpInv, SocketInv, NEW k \in Sockets, NEW f \in Forms, AnswerPrompt(k, f)
    PROVE  SocketInv'
  <1> DEFINE n == sock[k].forms + 1
             x == [sock[k] EXCEPT !.forms = n, !.asked = "none"]
             w == [x EXCEPT !.ki = TRUE]
             c == [pw |-> f.pw, key |-> FALSE, host |-> cfg.host, src |-> 0]
             y == IF f.pw = None \/ cfg.host = None THEN emitAuthFailure(x)
                  ELSE handleAuthentication(w, c)
  <1>1. sock[k] \in SocketStates /\ cfg \in Configs
    BY DEF HttpInv, HttpTyped, SocketInv
  <1>2. sock' = [sock EXCEPT ![k] = y]
    BY <1>1 DEF AnswerPrompt
  <1>3. c \in Credentials
    <2>1. f.pw \in Passwords \cup {None}
      BY FormsAssumption DEF Credentials
    <2>2. cfg.host \in Hosts \cup {None}
      BY <1>1, HttpAssumption DEF Config
    <2> QED BY <2>1, <2>2 DEF Credentials
  <1>4. n \in Nat
    BY <1>1 DEF SocketStates
  <1> HIDE DEF n, c
  <1>5. Continues(sock[k], x) /\ x \in SocketStates
    BY <1>1, <1>4 DEF Continues, SocketStates
  <1> HIDE DEF x
  <1>6. Continues(x, w) /\ w \in SocketStates
    BY <1>5 DEF Continues, SocketStates
  <1>7. Continues(x, emitAuthFailure(x))
    BY <1>5 DEF emitAuthFailure, Continues, SocketStates
  <1> HIDE DEF w
  <1>8. Continues(w, handleAuthentication(w, c))
    BY <1>3, <1>6, HandleContinues
  <1>9. Continues(sock[k], y)
    BY <1>5, <1>6, <1>7, <1>8 DEF Continues
  <1> HIDE DEF y
  <1> QED BY <1>2, <1>9, ContinuesKeeps

\* The prompt is cancelled, or a connection attempt has its outcome.
LEMMA OutcomeKeeps ==
    ASSUME SocketInv, NEW k \in Sockets,
           \/ CancelPrompt(k)
           \/ \E c \in sock[k].tries : Connected(k, c) \/ Refused(k, c) \/ Unreachable(k, c)
    PROVE  SocketInv'
  <1> DEFINE x == sock[k]
  <1>1. /\ x \in SocketStates /\ x.copy \in AuthSession /\ x.tries \in SUBSET Credentials
        /\ sock \in [Sockets -> SocketStates]
    BY DEF SocketInv, SocketStates
  <1>2. CASE CancelPrompt(k)
    <2>1. sock' = [sock EXCEPT ![k] = emitAuthFailure(x)]
      BY <1>1, <1>2 DEF CancelPrompt
    <2>2. Continues(x, emitAuthFailure(x))
      BY <1>1 DEF emitAuthFailure, Continues, SocketStates
    <2> QED BY <2>1, <2>2, ContinuesKeeps
  <1>3. ASSUME NEW c \in x.tries, Connected(k, c) PROVE SocketInv'
    <2> DEFINE copy == [x.copy EXCEPT !.failed = FALSE]
               tries == x.tries \ {c}
               y == [x EXCEPT !.tries = tries, !.conn = c, !.copy = copy, !.ki = FALSE]
    <2>1. copy \in AuthSession /\ tries \in SUBSET Credentials /\ c \in Credentials
      BY <1>1 DEF AuthSession
    <2>2. sock' = [sock EXCEPT ![k] = y]
      BY <1>1, <1>3 DEF Connected
    <2> HIDE DEF copy, tries
    <2>3. Continues(x, y)
      BY <1>1, <2>1 DEF Continues, SocketStates
    <2> QED BY <2>2, <2>3, ContinuesKeeps
  <1>4. ASSUME NEW c \in x.tries, Refused(k, c) PROVE SocketInv'
    <2> DEFINE copy == [x.copy EXCEPT !.creds = None, !.basic = FALSE, !.failed = TRUE]
               tries == x.tries \ {c}
               y == [x EXCEPT !.tries = tries, !.asked = "failure", !.copy = copy]
    <2>1. copy \in AuthSession /\ tries \in SUBSET Credentials
      BY <1>1 DEF AuthSession
    <2>2. sock' = [sock EXCEPT ![k] = y]
      BY <1>1, <1>4 DEF Refused
    <2> HIDE DEF copy, tries
    <2>3. Continues(x, y)
      BY <1>1, <2>1 DEF Continues, SocketStates
    <2> QED BY <2>2, <2>3, ContinuesKeeps
  <1>5. ASSUME NEW c \in x.tries, Unreachable(k, c) PROVE SocketInv'
    <2> DEFINE tries == x.tries \ {c}
               y == [x EXCEPT !.tries = tries, !.asked = "failure"]
    <2>1. tries \in SUBSET Credentials
      BY <1>1
    <2>2. sock' = [sock EXCEPT ![k] = y]
      BY <1>1, <1>5 DEF Unreachable
    <2> HIDE DEF tries
    <2>3. Continues(x, y)
      BY <1>1, <2>1 DEF Continues, SocketStates
    <2> QED BY <2>2, <2>3, ContinuesKeeps
  <1> QED BY <1>2, <1>3, <1>4, <1>5

LEMMA DisconnectKeeps ==
    ASSUME SocketInv, NEW k \in Sockets, Disconnect(k)
    PROVE  SocketInv'
  <1> DEFINE tries == sock[k].tries
             y == [NoSocket EXCEPT !.state = "closed", !.tries = tries]
  <1>1. tries \in SUBSET Credentials
    BY DEF SocketInv, SocketStates
  <1>2. sock' = [sock EXCEPT ![k] = y]
    BY DEF Disconnect
  <1> HIDE DEF tries
  <1>3. y \in SocketStates /\ y.auto = None
    BY <1>1, NoSocketTyped DEF SocketStates
  <1>4. ConnectsToItsHost(y)
    BY <1>3 DEF ConnectsToItsHost
  <1> HIDE DEF y
  <1> QED BY <1>2, <1>3, <1>4, OneSocket

-----------------------------------------------------------------------------
(***************************************************************************)
(* The theorems.                                                           *)
(***************************************************************************)
LEMMA LoginInitInv == LoginInit => LoginInv
  <1> SUFFICES ASSUME LoginInit PROVE LoginInv
    OBVIOUS
  <1>1. SocketInv
    BY NoSocketTyped DEF LoginInit, SocketInit, SocketInv, ConnectsToItsHost
  <1> QED BY <1>1, HttpInitInv DEF LoginInit, LoginInv

LEMMA LoginStepInv == LoginInv /\ [LoginNext]_<<httpVars, sock>> => LoginInv'
  <1> SUFFICES ASSUME HttpInv, SocketInv, [LoginNext]_<<httpVars, sock>>
               PROVE  HttpInv' /\ SocketInv'
    BY DEF LoginInv
  <1>1. ASSUME UNCHANGED sock PROVE SocketInv'
    BY <1>1 DEF SocketInv, ConnectsToItsHost
  <1>2. ASSUME SocketStep PROVE SocketInv' /\ UNCHANGED httpVars
    <2>1. PICK k \in Sockets :
              \/ \E p \in pages : OpenSocket(k, p)
              \/ \E f \in Forms : SubmitForm(k, f) \/ AnswerPrompt(k, f)
              \/ CancelPrompt(k)
              \/ \E c \in sock[k].tries : Connected(k, c) \/ Refused(k, c) \/ Unreachable(k, c)
              \/ Disconnect(k)
      BY <1>2 DEF SocketStep
    <2>2. ASSUME NEW p \in pages, OpenSocket(k, p) PROVE SocketInv' /\ UNCHANGED httpVars
      BY <2>2, OpenKeeps DEF OpenSocket
    <2>3. ASSUME NEW f \in Forms, SubmitForm(k, f) PROVE SocketInv' /\ UNCHANGED httpVars
      BY <2>3, SubmitKeeps DEF SubmitForm
    <2>4. ASSUME NEW f \in Forms, AnswerPrompt(k, f) PROVE SocketInv' /\ UNCHANGED httpVars
      BY <2>4, PromptKeeps DEF AnswerPrompt
    <2>5. ASSUME \/ CancelPrompt(k)
                 \/ \E c \in sock[k].tries : Connected(k, c) \/ Refused(k, c) \/ Unreachable(k, c)
          PROVE  SocketInv' /\ UNCHANGED httpVars
      <3>1. SocketInv'
        BY <2>5, OutcomeKeeps
      <3>2. UNCHANGED httpVars
        BY <2>5 DEF CancelPrompt, Connected, Refused, Unreachable
      <3> QED BY <3>1, <3>2
    <2>6. ASSUME Disconnect(k) PROVE SocketInv' /\ UNCHANGED httpVars
      BY <2>6, DisconnectKeeps DEF Disconnect
    <2> QED BY <2>1, <2>2, <2>3, <2>4, <2>5, <2>6
  <1>3. HttpStep \/ UNCHANGED httpVars
    BY <1>2 DEF LoginNext
  <1>4. HttpInv'
    BY <1>3, HttpStepInv
  <1>5. SocketInv'
    BY <1>1, <1>2 DEF LoginNext
  <1> QED BY <1>4, <1>5

\* The inductive invariant holds in every reachable state.
THEOREM LoginInvariant == LoginSpec => []LoginInv
  BY LoginInitInv, LoginStepInv, PTL DEF LoginSpec

\* Credentials that /reauth or /force-reconnect removed do not come back into the store,
\* whatever request overlapped the removal and only read the session (touch).
THEOREM RemovalsLast == LoginSpec => []RemovedStaysRemoved
  <1>1. LoginInv => RemovedStaysRemoved
    BY DEF LoginInv, HttpInv
  <1> QED BY <1>1, LoginInvariant, PTL

\* The socket of a page that is locked to a host connects by itself to that host only,
\* unless another request wrote the session in between (updateSessionCredentials).
THEOREM PagesConnectToTheirHost == LoginSpec => []PageConnectsToItsHost
  <1>1. LoginInv => PageConnectsToItsHost
    BY DEF LoginInv, SocketInv, ConnectsToItsHost, PageConnectsToItsHost
  <1> QED BY <1>1, LoginInvariant, PTL
=============================================================================
