----------------------------- MODULE MCHandshake -----------------------------
(* Two handshakes on one socket, two prompts of which one may be pending,    *)
(* and one configuration for every path of the decision about host keys.     *)
EXTENDS SshHandshake
CONSTANTS k1, k2
MCHostKey(enabled, server, client, action) ==
    [enabled |-> enabled, serverStore |-> server, dbExists |-> server, clientStore |-> client,
     unknownKeyAction |-> action]
MCHostKeyConfigs ==
    {MCHostKey(FALSE, TRUE, TRUE, "prompt"), MCHostKey(TRUE, TRUE, TRUE, "reject"),
     MCHostKey(TRUE, FALSE, TRUE, "reject"), MCHostKey(TRUE, FALSE, FALSE, "reject"),
     MCHostKey(TRUE, FALSE, FALSE, "alert")}
MCMode(forward, ki) == [forwardAll |-> forward, password |-> TRUE, allowed |-> ki]
MCAuthModes == {MCMode(FALSE, TRUE), MCMode(TRUE, TRUE), MCMode(FALSE, FALSE)}
=============================================================================
