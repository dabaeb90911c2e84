------------------------------- MODULE MCLogin -------------------------------
(***************************************************************************)
(* A small instance of SocketAuth: three requests of one browser session,  *)
(* at most two of them at a time, and a socket, on three servers.          *)
(***************************************************************************)
EXTENDS SocketAuth

input(kind) ==
    [kind |-> kind, basic |-> None, host |-> None, user |-> FALSE, pw |-> None,
     bodyHost |-> None, header |-> "absent", sso |-> "none", trusted |-> FALSE, badPort |-> FALSE]

basicAt(h) == [input("host") EXCEPT !.basic = "p", !.host = h]
postOf(pw, h) == [input("post") EXCEPT !.user = TRUE, !.pw = pw, !.bodyHost = h]

\* Every method, no configured user: Basic credentials, good and empty, a
\* form of the portal, and the routes that forget.
Plain ==
    [allowed |-> AuthMethods, user |-> None, host |-> "a", askKi |-> FALSE,
     sso |-> FALSE, csrf |-> FALSE,
     inputs |-> {input("root"), input("clear"), input("force"), input("reauth"),
                 [input("root") EXCEPT !.header = "text"],
                 [input("host") EXCEPT !.basic = ""],
                 basicAt("b"), [postOf("p", None) EXCEPT !.host = "b", !.header = "empty"]}]

\* Keys only, with a configured key; a POST has a password, so that it is refused.
KeysOnly ==
    [allowed |-> {"publickey"}, user |-> [pw |-> None, key |-> TRUE], host |-> "a",
     askKi |-> TRUE, sso |-> TRUE, csrf |-> FALSE,
     inputs |-> {[input("root") EXCEPT !.header = "legacy"], input("reauth"), input("host"),
                 [input("host") EXCEPT !.host = "b"], basicAt("b"), postOf("p", "b")}]

\* SSO with CSRF protection, a configured user, no configured host, the prompt
\* instead of the form.
Portal ==
    [allowed |-> AuthMethods \ {"publickey"}, user |-> [pw |-> "p", key |-> FALSE], host |-> None,
     askKi |-> TRUE, sso |-> TRUE, csrf |-> TRUE,
     inputs |-> {input("root"), input("host"), [basicAt("b") EXCEPT !.badPort = TRUE],
                 postOf("p", "b"), [postOf(None, "b") EXCEPT !.sso = "user"],
                 [postOf(None, "b") EXCEPT !.sso = "both"],
                 [postOf("p", None) EXCEPT !.trusted = TRUE, !.user = FALSE, !.host = "a"]}]

MCConfigs == {Plain, KeysOnly, Portal}

form(pw, key) == [pw |-> pw, key |-> key, host |-> "a", src |-> 0]

MCForms == {form("p", FALSE), form("", TRUE), form("", FALSE), form(None, FALSE)}
===============================================================================
