------------------------------- MODULE MCServer -------------------------------
(* Small environments, files, ranges and messages for the start of the       *)
(* server.  The environments set the variables of one group at a time: the   *)
(* groups share no leaf and no rule.                                         *)
EXTENDS ServerRequests

(* Entries of allowedSubnets: a single address, all IPv4 and IPv6 ranges of   *)
(* two bases, a star, and an entry that spells no range.                      *)
Masks == "0" :> 0 @@ "1" :> 1 @@ "2" :> 2 @@ "3" :> 3 @@ "4" :> 4

Bases == "0101/" :> <<0, 1, 0, 1>> @@ "1010/" :> <<1, 0, 1, 0>> @@ "01:10/" :> <<<<0, 1>>, <<1, 0>>>>

Cidr == [part \in {b \o m: b \in DOMAIN Bases, m \in DOMAIN Masks} |->
           CHOOSE r \in {[range |-> IF b = "01:10/" THEN "v6" ELSE "v4",
                          base |-> Bases[b], mask |-> Masks[m], part |-> b \o m]:
                            b \in DOMAIN Bases, m \in DOMAIN Masks}:
              r.part = part]

MCRangeOf ==
    [part \in DOMAIN Cidr |->
       [range |-> Cidr[part].range, base |-> Cidr[part].base, mask |-> Cidr[part].mask]]
    @@ "0101" :> [range |-> "exact", address |-> <<"v4", <<0, 1, 0, 1>>>>]
    @@ "01.*" :> [range |-> "wild", octets |-> <<<<0, 1>>, Star>>]

MCNumeral == "1" :> 1 @@ "0" :> 0 @@ "22" :> 22 @@ "1024" :> 1024 @@ "65536" :> 65536

MCCanonical ==
    "mine" :> "mine" @@ "Mine" :> "mine" @@ "nord" :> "nord" @@ "Nord" :> "nord"
    @@ "Default" :> "default" @@ "custom" :> "custom"

MCStrongSecrets == {<<"generated">>, <<"long">>, <<"other">>}

MCSpacedHosts == {<<"my host">>}

MCBrokenPayloads == {<<"broken">>}

(* All ways to set some of the variables of a table to one of their texts. *)
Settings(texts) ==
    UNION {{e \in [S -> UNION {texts[v]: v \in S}]: \A v \in S: e[v] \in texts[v]}:
             S \in SUBSET DOMAIN texts}

Ports == {<<>>, <<"22">>, <<"0">>, <<"x">>}

Secrets == {<<>>, <<"null">>, <<"long">>, <<"short">>}

Switch == {<<"true">>, <<"0">>}

MCEnvs ==
    Settings("PORT" :> Ports @@ "WEBSSH2_LISTEN_PORT" :> Ports)
    \cup Settings("WEBSSH2_USER_NAME" :> {<<"u">>, <<>>} @@ "WEBSSH2_USER_PASSWORD" :> {<<"p">>, <<>>}
                  @@ "WEBSSH2_SSH_HOST" :> {<<"h">>, <<"my host">>, <<"null">>})
    \cup Settings("WEBSSH2_AUTH_ALLOWED" :>
                    {<<>>, <<"null">>, <<"x">>, <<"publickey", "", "x", "password", "publickey">>})
    \cup Settings("WEBSSH2_SSH_ALGORITHMS_PRESET" :> {<<"strict">>, <<"legacy">>, <<"x">>}
                  @@ "WEBSSH2_SSH_ALGORITHMS_CIPHER" :> {<<"ctr", "cbc">>, <<"null">>}
                  @@ "WEBSSH2_SSH_ALGORITHMS_KEX" :> {<<"nistp256">>, <<>>})
    \cup Settings("WEBSSH2_SESSION_SECRET" :> Secrets @@ "WEBSSH_SESSION_SECRET" :> Secrets
                  @@ "WEBSSH2_SESSION_NAME" :> {<<"sid">>})
    \cup Settings("WEBSSH2_LOGGING_SYSLOG_ENABLED" :> Switch
                  @@ "WEBSSH2_LOGGING_SYSLOG_HOST" :> {<<"h">>, <<>>})
    \cup Settings("WEBSSH2_SSH_HOSTKEY_MODE" :> {<<"server">>, <<"client">>, <<"x">>}
                  @@ "WEBSSH2_SSH_HOSTKEY_SERVER_ENABLED" :> Switch
                  @@ "WEBSSH2_SSH_HOSTKEY_CLIENT_ENABLED" :> Switch)
    \cup Settings("WEBSSH2_SSH_SFTP_BACKEND" :> {<<"shell">>, <<"x">>}
                  @@ "WEBSSH2_SSH_SFTP_CHUNK_SIZE" :> {<<"1024">>, <<"65536">>}
                  @@ "WEBSSH2_SSH_SFTP_MAX_FILE_SIZE" :> {<<"22">>}
                  @@ "WEBSSH2_TELNET_ENABLED" :> {<<"1">>})
    \cup Settings("WEBSSH2_THEMING_ENABLED" :> {<<"true">>}
                  @@ "WEBSSH2_THEMING_THEMES" :> {<<"Nord", "<x>">>, <<>>}
                  @@ "WEBSSH2_THEMING_DEFAULT_THEME" :> {<<"mine">>, <<"<x>">>}
                  @@ "WEBSSH2_THEMING_HEADER_BACKGROUND" :> {<<"locked">>, <<"x">>}
                  @@ "WEBSSH2_THEMING_ADDITIONAL_THEMES" :>
                       {<<"nord", "mine", "Mine", "custom">>, <<"broken">>})
    \cup Settings("WEBSSH2_SSH_ALLOWED_SUBNETS" :>
                    ({<<part>>: part \in DOMAIN MCRangeOf}
                     \cup {<<"0101/4", "01:10/3">>, <<"x">>, <<"x", "1010/2">>}))
    \cup Settings("WEBSSH2_OPTIONS_TRANSPORT" :> {<<"polling", "x", "polling">>, <<"x">>, <<>>})

(* The documents of the file: sections in part, sections that are no         *)
(* objects, empty sections, and settings of several groups.                  *)
Documents == {
    Null, Num(1), Obj(<<>>),
    Obj([options |-> Str(<<"x">>)]),
    Obj([options |-> Obj([transport |-> List(<<"websocket", "x">>)])]),
    Obj([options |-> Obj([transport |-> Str(<<"x">>),
                          theming |-> Obj([additionalThemes |-> List(<<"nord">>)])])]),
    Obj([ssh |-> Null]),
    Obj([ssh |-> Obj([host |-> Str(<<"h">>), algorithms |-> Obj([kex |-> List(<<"group1">>)]),
                      hostKeyVerification |->
                        Obj([mode |-> Str(<<"server">>),
                             clientStore |-> Obj([enabled |-> Bool(TRUE)])])])]),
    Obj([user |-> Obj([name |-> Str(<<"u">>)]), telnet |-> Obj([enabled |-> Bool(TRUE)]),
         logging |-> Obj([syslog |-> Obj([enabled |-> Bool(FALSE)])])]),
    Obj([session |-> Obj([secret |-> Str(<<"other">>)])]),
    Obj([session |-> Obj([secret |-> Null])]) }

Contents == {<<"none">>, <<"denied">>, <<"garbage">>} \cup {<<"json", d>>: d \in Documents}

MCLaterDisks ==
    {("currentWorkingDirectory" :> c @@ "parentDirectory" :> <<"none">>):
        c \in {<<"none">>, <<"json", Obj([session |-> Obj([secret |-> Str(<<"other">>)])])>>}}

(* Only the first file found is read: a second one matters without a first. *)
MCDisks ==
    {("currentWorkingDirectory" :> c @@ "parentDirectory" :> <<"none">>): c \in Contents}
    \cup {("currentWorkingDirectory" :> <<"none">> @@
           "parentDirectory" :> <<"json", Obj([listen |-> Obj([port |-> Num(22)])])>>)}

MCLookups == {{}} \cup {{<<"v4", a>>}: a \in V4} \cup {{<<"v6", a>>}: a \in V6}
               \cup {{<<"v4", <<0, 0, 0, 0>>>>, <<"v4", <<0, 1, 0, 1>>>>}}

(* A message every check lets through, and what is tried in one field. *)
Sound == [
    list |-> [path |-> Text(1), showHidden |-> Flag(TRUE)],
    stat |-> [path |-> Text(1)],
    mkdir |-> [path |-> Text(1), mode |-> Whole(511)],
    delete |-> [path |-> Text(1), recursive |-> Flag(TRUE)],
    upload_start |-> [remotePath |-> Text(1), fileName |-> Text(1), fileSize |-> Whole(0),
                      mimeType |-> Text(1), overwrite |-> Flag(FALSE)],
    upload_chunk |-> [transferId |-> Text(1), chunkIndex |-> Whole(0), data |-> Text(0),
                      isLast |-> Flag(TRUE)],
    download_start |-> [remotePath |-> Text(1)],
    cancel |-> [transferId |-> Text(1)] ]

Tried == {<<"null">>, <<"undefined">>, <<"array">>, Flag(TRUE), <<"fraction">>,
          Whole(-1), Whole(22), Whole(104857601), Text(0), Text(129), Text(5000)}

Requests == ("list" :> "list" @@ "stat" :> "stat" @@ "mkdir" :> "mkdir" @@ "delete" :> "delete"
             @@ "upload-start" :> "upload_start" @@ "upload-chunk" :> "upload_chunk"
             @@ "download-start" :> "download_start" @@ "upload-cancel" :> "cancel"
             @@ "download-cancel" :> "cancel")

MCMessages ==
    UNION {LET sound == Sound[Requests[r]]
           IN {<<r, <<"string", 1>>>>, <<r, <<"object", sound>>>>}
              \cup {<<r, <<"object", [sound EXCEPT ![key] = v]>>>>:
                      key \in DOMAIN sound, v \in Tried}: r \in DOMAIN Requests}
=============================================================================
