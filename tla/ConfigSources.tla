---------------------------- MODULE ConfigSources ----------------------------
(* What a configuration is made from: the variables of the environment, the  *)
(* JSON file and the defaults, each read into a document, the documents      *)
(* merged, the result checked against the schema and the rules behind it.    *)
(*                                                                           *)
(* A text is the sequence of its parts between commas, blanks cut off; the   *)
(* JSON spelling of a list is the same text.  A value is a tuple that starts *)
(* with its kind, an object is a function from keys to values.  The tables   *)
(* name one variable, leaf and section of every sort the code tells apart.   *)
EXTENDS Integers, Sequences, SequencesExt

CONSTANTS
    Numeral,        \* the numbers: a function from the parts that spell one
    Canonical,      \* theme names as canonicalizeThemeName leaves them
    StrongSecrets,  \* the texts of 32 characters and more
    SpacedHosts,    \* the host names with a space in them
    BrokenPayloads  \* theme payloads that are no base64 JSON array

Null == <<"null">>

Missing == <<"missing">>

NaN == <<"NaN">>

Str(text) == <<"str", text>>

Num(n) == <<"num", n>>

Bool(b) == <<"bool", b>>

List(parts) == <<"list", parts>>

Obj(f) == <<"obj", f>>

IsObj(v) == v[1] = "obj"

(* The value a path leads to. *)
At(doc, path) ==
    FoldLeft(LAMBDA v, k: IF IsObj(v) /\ k \in DOMAIN v[2] THEN v[2][k] ELSE Missing, doc, path)

(* One property set, every object on the way created that is not there. *)
setNestedProperty(doc, path, v) ==
    LET set[i \in 0..Len(path)] ==
          LET here == At(doc, SubSeq(path, 1, i))
          IN IF i = Len(path) THEN v
             ELSE Obj(path[i + 1] :> set[i + 1] @@ (IF IsObj(here) THEN here[2] ELSE <<>>))
    IN set[0]

\* Seeded fault: a section of the source replaces the whole section.
deepMergePureShallow(target, source) ==
    IF IsObj(source) THEN Obj(source[2] @@ target[2]) ELSE target

(* The objects of both meet at the path and are merged key by key. *)
deepMergePure(target, source) ==
    LET merge[path \in Seq(STRING)] ==
          LET t == At(target, path)[2]
              s == At(source, path)[2]
          IN Obj([k \in DOMAIN t \cup DOMAIN s |->
                    IF k \notin DOMAIN s THEN t[k]
                    ELSE IF k \in DOMAIN t /\ IsObj(t[k]) /\ IsObj(s[k])
                    THEN merge[Append(path, k)]
                    ELSE s[k]])
    IN IF IsObj(source) THEN merge[<<>>] ELSE target

(* Each element that is allowed once, where it first stands. *)
Once(seq, allowed) ==
    FoldLeft(LAMBDA acc, x: IF x \in allowed /\ ~Contains(acc, x) THEN Append(acc, x) ELSE acc,
             <<>>, seq)

-----------------------------------------------------------------------------
(* The environment. *)

parseArrayValue(text) == List(SelectSeq(text, LAMBDA part: part # ""))

parseEnvValue(text, type) ==
    IF text = <<"null">> THEN Null
    ELSE IF text = <<>> THEN (IF type = "array" THEN List(<<>>) ELSE Null)
    ELSE CASE type = "boolean" -> Bool(text \in {<<"true">>, <<"1">>})
           [] type = "number" -> IF text[1] \in DOMAIN Numeral THEN Num(Numeral[text[1]]) ELSE NaN
           [] type = "array" -> parseArrayValue(text)
           [] type = "string" -> Str(text)

HostKey == <<"ssh", "hostKeyVerification">>

ENV_VAR_MAPPING == <<
    <<"PORT", <<"listen", "port">>, "number">>,
    <<"WEBSSH2_LISTEN_PORT", <<"listen", "port">>, "number">>,
    <<"WEBSSH2_USER_NAME", <<"user", "name">>, "string">>,
    <<"WEBSSH2_USER_PASSWORD", <<"user", "password">>, "string">>,
    <<"WEBSSH2_SSH_HOST", <<"ssh", "host">>, "string">>,
    <<"WEBSSH2_AUTH_ALLOWED", <<"ssh", "allowedAuthMethods">>, "array">>,
    <<"WEBSSH2_SSH_ALLOWED_SUBNETS", <<"ssh", "allowedSubnets">>, "array">>,
    <<"WEBSSH2_SSH_ALGORITHMS_CIPHER", <<"ssh", "algorithms", "cipher">>, "array">>,
    <<"WEBSSH2_SSH_ALGORITHMS_KEX", <<"ssh", "algorithms", "kex">>, "array">>,
    <<"WEBSSH2_SSH_ALGORITHMS_PRESET", <<"ssh", "algorithms">>, "preset">>,
    <<"WEBSSH2_SESSION_SECRET", <<"session", "secret">>, "string">>,
    <<"WEBSSH2_SESSION_NAME", <<"session", "name">>, "string">>,
    <<"WEBSSH2_LOGGING_SYSLOG_ENABLED", <<"logging", "syslog", "enabled">>, "boolean">>,
    <<"WEBSSH2_LOGGING_SYSLOG_HOST", <<"logging", "syslog", "host">>, "string">>,
    <<"WEBSSH2_SSH_HOSTKEY_MODE", HostKey \o <<"mode">>, "string">>,
    <<"WEBSSH2_SSH_HOSTKEY_SERVER_ENABLED", HostKey \o <<"serverStore", "enabled">>, "boolean">>,
    <<"WEBSSH2_SSH_HOSTKEY_CLIENT_ENABLED", HostKey \o <<"clientStore", "enabled">>, "boolean">>,
    <<"WEBSSH2_SSH_SFTP_BACKEND", <<"ssh", "sftp", "backend">>, "string">>,
    <<"WEBSSH2_SSH_SFTP_CHUNK_SIZE", <<"ssh", "sftp", "chunkSize">>, "number">>,
    <<"WEBSSH2_SSH_SFTP_MAX_FILE_SIZE", <<"ssh", "sftp", "maxFileSize">>, "number">>,
    <<"WEBSSH2_TELNET_ENABLED", <<"telnet", "enabled">>, "boolean">>,
    <<"WEBSSH2_THEMING_ENABLED", <<"options", "theming", "enabled">>, "boolean">>
>>

(* Two of the profiles, by what their lists start with. *)
ALGORITHM_PRESETS ==
    [strict |-> Obj([cipher |-> List(<<"gcm">>), kex |-> List(<<"nistp256">>)]),
     legacy |-> Obj([cipher |-> List(<<"cbc">>), kex |-> List(<<"group1">>)])]

collectPresetEntries(env) ==
    LET name == "WEBSSH2_SSH_ALGORITHMS_PRESET"
    IN IF name \in DOMAIN env /\ \E p \in DOMAIN ALGORITHM_PRESETS: env[name] = <<p>>
       THEN << <<<<"ssh", "algorithms">>, ALGORITHM_PRESETS[env[name][1]]>> >>
       ELSE <<>>

collectMappedEntries(env) ==
    LET set == SelectSeq(ENV_VAR_MAPPING, LAMBDA m: m[3] # "preset" /\ m[1] \in DOMAIN env)
    IN [i \in DOMAIN set |-> <<set[i][2], parseEnvValue(env[set[i][1]], set[i][3])>>]

Theming == <<"options", "theming">>

BUILTIN_THEME_NAMES == {"Default", "Nord"}

Reserved == {"default", "custom"}

(* A theme of the payload is good when its name is neither reserved nor a    *)
(* built-in one, however written; of two with one name the first stays.      *)
loadAdditionalThemes(names) ==
    FoldLeft(LAMBDA acc, t:
               IF /\ Canonical[t] \notin Reserved \cup {Canonical[b]: b \in BUILTIN_THEME_NAMES}
                  /\ \A i \in DOMAIN acc: Canonical[acc[i]] # Canonical[t]
               THEN Append(acc, t)
               ELSE acc, <<>>, names)

resolveThemingEnv(env) ==
    LET From(name, value(_)) ==
          IF name \in DOMAIN env THEN value(env[name]) ELSE <<>>
        Named(text) == text # <<>> /\ Len(text) = 1 /\ text[1] \in DOMAIN Canonical
    IN From("WEBSSH2_THEMING_THEMES", LAMBDA t:
              << <<Theming \o <<"themes">>,
                   List(SelectSeq(t, LAMBDA n: n \in DOMAIN Canonical))>> >>)
       \o From("WEBSSH2_THEMING_DEFAULT_THEME", LAMBDA t:
              << <<Theming \o <<"defaultTheme">>,
                   IF Named(t) THEN Str(t) ELSE Str(<<"Default">>)>> >>)
       \o From("WEBSSH2_THEMING_HEADER_BACKGROUND", LAMBDA t:
              IF t \in {<<"independent">>, <<"followTerminal">>, <<"locked">>}
              THEN << <<Theming \o <<"headerBackground">>, Str(t)>> >>
              ELSE <<>>)
       \o From("WEBSSH2_THEMING_ADDITIONAL_THEMES", LAMBDA t:
              << <<Theming \o <<"additionalThemes">>,
                   List(IF t \in BrokenPayloads THEN <<>> ELSE loadAdditionalThemes(t))>> >>)

(* The transports that stay of a configured list; none: the client chooses. *)
parseTransports(v) ==
    IF v[1] \notin {"str", "list"} THEN <<>>
    ELSE Once(v[2], {"websocket", "polling"})

resolveTransportEnv(env) ==
    LET name == "WEBSSH2_OPTIONS_TRANSPORT"
    IN IF name \in DOMAIN env /\ parseTransports(Str(env[name])) # <<>>
       THEN << <<<<"options", "transport">>, List(parseTransports(Str(env[name])))>> >>
       ELSE <<>>

mapEnvironmentVariables(env) ==
    FoldLeft(LAMBDA doc, e: setNestedProperty(doc, e[1], e[2]),
             Obj(<<>>),
             collectPresetEntries(env) \o collectMappedEntries(env)
               \o resolveThemingEnv(env) \o resolveTransportEnv(env))

(* A null secret of the environment counts as unset. *)
withoutNullSessionSecret(doc) ==
    IF At(doc, <<"session", "secret">>) # Null THEN doc
    ELSE LET rest == [k \in DOMAIN doc[2]["session"][2] \ {"secret"} |->
                        doc[2]["session"][2][k]]
             others == [k \in DOMAIN doc[2] \ {"session"} |-> doc[2][k]]
         IN Obj(IF DOMAIN rest = {} THEN others ELSE "session" :> Obj(rest) @@ others)

normalizeSessionSecret(text) == IF text = <<>> THEN Missing ELSE Str(text)

SecretOf(env, name) == IF name \in DOMAIN env THEN normalizeSessionSecret(env[name]) ELSE Missing

resolveSessionSecretFromEnv(env) ==
    LET canonical == SecretOf(env, "WEBSSH2_SESSION_SECRET")
    IN IF canonical # Missing THEN canonical ELSE SecretOf(env, "WEBSSH_SESSION_SECRET")

isSessionSecretGenerated(seed, env, fileConfig) ==
    /\ seed = Missing
    /\ SecretOf(env, "WEBSSH2_SESSION_SECRET") = Missing
    /\ At(fileConfig, <<"session", "secret">>) = Missing

-----------------------------------------------------------------------------
(* The file. *)

(* options must be something the `in' operator takes. *)
Inspectable(fileConfig) ==
    /\ fileConfig # Null
    /\ At(fileConfig, <<"options">>)[1] \in {"missing", "obj", "list"}

normalizeFileConfigTransport(fileConfig) ==
    LET options == At(fileConfig, <<"options">>)
        kept == parseTransports(options[2]["transport"])
        others == [k \in DOMAIN options[2] \ {"transport"} |-> options[2][k]]
    IN IF ~IsObj(options) \/ "transport" \notin DOMAIN options[2] THEN fileConfig
       ELSE Obj("options" :> Obj(IF kept = <<>> THEN others
                                 ELSE "transport" :> List(kept) @@ others)
                @@ fileConfig[2])

-----------------------------------------------------------------------------
(* The defaults, the schema and the rules. *)

Generated == Str(<<"generated">>)

createCompleteDefaultConfig(seed) ==
    Obj([listen |-> Obj([port |-> Num(2222)]),
         user |-> Obj([name |-> Null, password |-> Null]),
         ssh |-> Obj([host |-> Null, allowedSubnets |-> List(<<>>),
                      allowedAuthMethods |->
                        List(<<"password", "keyboard-interactive", "publickey">>),
                      algorithms |-> Obj([cipher |-> List(<<"gcm", "ctr">>),
                                          kex |-> List(<<"curve25519">>)]),
                      sftp |-> Obj([backend |-> Str(<<"sftp">>), chunkSize |-> Num(32768),
                                    maxFileSize |-> Num(104857600)]),
                      hostKeyVerification |->
                        Obj([mode |-> Str(<<"hybrid">>),
                             serverStore |-> Obj([enabled |-> Bool(TRUE)]),
                             clientStore |-> Obj([enabled |-> Bool(TRUE)])])]),
         options |-> Obj([theming |-> Obj([enabled |-> Bool(FALSE), themes |-> Null,
                                           additionalThemes |-> List(<<>>),
                                           defaultTheme |-> Str(<<"Default">>),
                                           headerBackground |-> Str(<<"independent">>)])]),
         session |-> Obj([name |-> Str(<<"webssh2.sid">>),
                          secret |-> IF seed = Missing THEN Generated ELSE seed]),
         logging |-> Obj([minimumLevel |-> Str(<<"info">>)]),
         telnet |-> Obj([enabled |-> Bool(FALSE)])])

OneOf(texts) == {Str(<<t>>): t \in texts}

(* What each leaf may be; a leaf marked optional may be absent. *)
ConfigSchema == {
    <<<<"listen", "port">>, "port", FALSE>>,
    <<<<"user", "name">>, "nullable", FALSE>>,
    <<<<"user", "password">>, "nullable", FALSE>>,
    <<<<"ssh", "host">>, "nullable", FALSE>>,
    <<<<"ssh", "allowedAuthMethods">>, "list", TRUE>>,
    <<<<"ssh", "allowedSubnets">>, "list", TRUE>>,
    <<<<"ssh", "algorithms", "cipher">>, "list", FALSE>>,
    <<<<"ssh", "algorithms", "kex">>, "list", FALSE>>,
    <<<<"ssh", "sftp", "backend">>, "backend", FALSE>>,
    <<<<"ssh", "sftp", "chunkSize">>, "positive", FALSE>>,
    <<<<"ssh", "sftp", "maxFileSize">>, "positive", FALSE>>,
    <<HostKey \o <<"mode">>, "mode", FALSE>>,
    <<HostKey \o <<"serverStore", "enabled">>, "bool", FALSE>>,
    <<HostKey \o <<"clientStore", "enabled">>, "bool", FALSE>>,
    <<<<"options", "transport">>, "transports", TRUE>>,
    <<Theming \o <<"enabled">>, "bool", FALSE>>,
    <<Theming \o <<"themes">>, "nullable list", FALSE>>,
    <<Theming \o <<"additionalThemes">>, "list", FALSE>>,
    <<Theming \o <<"defaultTheme">>, "str", FALSE>>,
    <<Theming \o <<"headerBackground">>, "headerBackground", FALSE>>,
    <<<<"session", "name">>, "str", FALSE>>,
    <<<<"session", "secret">>, "secret", FALSE>>,
    <<<<"logging", "minimumLevel">>, "str", TRUE>>,
    <<<<"logging", "syslog", "enabled">>, "bool", FALSE>>,
    <<<<"logging", "syslog", "host">>, "str", TRUE>>,
    <<<<"telnet", "enabled">>, "bool", FALSE>> }

LeafPaths == {leaf[1]: leaf \in ConfigSchema}

Sections == UNION {{SubSeq(p, 1, n): n \in 1..(Len(p) - 1)}: p \in LeafPaths}

OptionalSections == {<<"ssh", "sftp">>, Theming, <<"logging">>, <<"logging", "syslog">>,
                     <<"telnet">>}

Fits(v, type) ==
    CASE type = "port" -> v[1] = "num" /\ v[2] \in 1..65535
      [] type = "positive" -> v[1] = "num" /\ v[2] > 0
      [] type = "nullable" -> v[1] \in {"str", "null"}
      [] type = "nullable list" -> v[1] \in {"list", "null"}
      [] type = "transports" -> v[1] = "list" /\ v[2] # <<>>
      [] type = "secret" -> v[1] = "str" /\ v[2] # <<>>
      [] type = "backend" -> v \in OneOf({"sftp", "shell"})
      [] type = "mode" -> v \in OneOf({"server", "client", "hybrid"})
      [] type = "headerBackground" -> v \in OneOf({"independent", "followTerminal", "locked"})
      [] type \in {"list", "bool", "str"} -> v[1] = type

(* Whether nothing stands at the path because an optional section is absent. *)
Absent(doc, path) ==
    \E n \in 1..Len(path):
        SubSeq(path, 1, n) \in OptionalSections /\ At(doc, SubSeq(path, 1, n)) = Missing

validateConfigSchema(doc) ==
    /\ \A s \in Sections: IsObj(At(doc, s)) \/ Absent(doc, s)
    /\ \A leaf \in ConfigSchema:
          \/ Absent(doc, leaf[1])
          \/ leaf[3] /\ At(doc, leaf[1]) = Missing
          \/ Fits(At(doc, leaf[1]), leaf[2])

resolveAllowedAuthMethods(v) ==
    Once(IF v = Missing THEN <<"password", "keyboard-interactive", "publickey">> ELSE v[2],
         {"password", "keyboard-interactive", "publickey"})

Filled(v) == v \notin {Null, Missing} /\ v # Str(<<>>)

checkAuthConfiguration(doc) ==
    Filled(At(doc, <<"ssh", "host">>)) /\ Filled(At(doc, <<"user", "name">>))
      => Filled(At(doc, <<"user", "password">>))

validateBusinessRules(doc) ==
    /\ At(doc, <<"ssh", "host">>) \notin {Str(<<h>>): h \in SpacedHosts}
    /\ checkAuthConfiguration(doc)
    /\ At(doc, <<"session", "secret">>)[2] \in StrongSecrets

(* The stores the mode turns on; explicit flags win over the mode when the   *)
(* caller says which are explicit.                                           *)
resolveHostKeyMode(conf, serverExplicit, clientExplicit) ==
    LET mode == conf[HostKey \o <<"mode">>]
    IN [server |-> IF serverExplicit THEN conf[HostKey \o <<"serverStore", "enabled">>]
                   ELSE Bool(mode \in OneOf({"server", "hybrid"})),
        client |-> IF clientExplicit THEN conf[HostKey \o <<"clientStore", "enabled">>]
                   ELSE Bool(mode \in OneOf({"client", "hybrid"}))]
=============================================================================
