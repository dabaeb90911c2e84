---------------------------- MODULE Configuration ----------------------------
(* The start of the server: the file is looked for, read after an await, and *)
(* everything is merged and checked; then the services are made and the      *)
(* server listens, or the process exits.  The file may change between the    *)
(* look and the read.                                                        *)
EXTENDS ConfigSources

CONSTANTS
    Envs,          \* the environments: functions from variables to texts
    Disks,         \* what may lie in the two places a file is looked for in
    LaterDisks     \* what it may change to before it is read

VARIABLES
    env,           \* process.env
    disk,          \* place -> <<"none">>, <<"denied">>, <<"garbage">> or <<"json", document>>
    phase,         \* "start", "resolved", "loaded", "listening" or "exited"
    place,         \* the location resolveConfigFile answered
    fileConfig,    \* the document of the file, Missing without one
    config,        \* configInstance: the value of each leaf
    warned,        \* the warning about a generated secret was given
    services       \* what createServices made

configVars == <<env, disk, phase, place, fileConfig, config, warned, services>>

Places == {"currentWorkingDirectory", "parentDirectory"}

ConfigInit ==
    /\ env \in Envs
    /\ disk \in Disks
    /\ phase = "start"
    /\ place = "none"
    /\ fileConfig = Missing
    /\ config = <<>>
    /\ warned = FALSE
    /\ services = <<>>

resolveConfigFile ==
    /\ phase = "start"
    /\ phase' = "resolved"
    /\ place' = IF disk["currentWorkingDirectory"] # <<"none">> THEN "currentWorkingDirectory"
                ELSE IF disk["parentDirectory"] # <<"none">> THEN "parentDirectory"
                ELSE "none"
    /\ UNCHANGED <<env, disk, fileConfig, config, warned, services>>

(* The file as read: a document, Missing, or failed. *)
loadFileConfig ==
    LET content == IF place = "none" THEN <<"none">> ELSE disk[place]
    IN CASE content = <<"none">> -> [ok |-> TRUE, value |-> Missing]
         [] content[1] \in {"denied", "garbage"} -> [ok |-> FALSE, value |-> Missing]
         [] content[1] = "json" /\ ~Inspectable(content[2]) -> [ok |-> FALSE, value |-> Missing]
         [] content[1] = "json" /\ Inspectable(content[2]) ->
              [ok |-> TRUE, value |-> normalizeFileConfigTransport(content[2])]

mergeConfigs(seed, file) ==
    LET merged == deepMergePure(createCompleteDefaultConfig(seed), file)
    IN deepMergePure(merged, withoutNullSessionSecret(mapEnvironmentVariables(env)))

(* The read has answered; the rest of the load has no await in it.  Nothing  *)
(* reads the disk again, and the model forgets it.                           *)
loadEnhancedConfig ==
    /\ phase = "resolved"
    /\ LET seed == resolveSessionSecretFromEnv(env)
           file == loadFileConfig
           merged == mergeConfigs(seed, file.value)
           methods == resolveAllowedAuthMethods(At(merged, <<"ssh", "allowedAuthMethods">>))
       IN /\ fileConfig' = file.value
          /\ warned' = (file.ok /\ isSessionSecretGenerated(seed, env, file.value))
          /\ IF /\ file.ok
                /\ validateConfigSchema(merged)
                /\ methods # <<>>
                /\ validateBusinessRules(merged)
             THEN /\ phase' = "loaded"
                  /\ config' = [[p \in LeafPaths |-> At(merged, p)]
                                  EXCEPT ![<<"ssh", "allowedAuthMethods">>] = List(methods)]
             ELSE phase' = "exited" /\ UNCHANGED config
    /\ disk' = [p \in Places |-> <<"none">>]
    /\ UNCHANGED <<env, place, services>>

(* initializeServerAsync after getConfig: the services, the routes of each   *)
(* protocol and its socket server.                                           *)
createServices ==
    /\ phase = "loaded"
    /\ phase' = "listening"
    /\ services' =
         [stores |-> resolveHostKeyMode(config, FALSE, FALSE),
          files |-> IF config[<<"ssh", "sftp", "backend">>] = Str(<<"shell">>)
                    THEN "shell" ELSE "sftp",
          telnet |-> config[<<"telnet", "enabled">>] = Bool(TRUE)]
    /\ UNCHANGED <<env, disk, place, fileConfig, config, warned>>

(* The file found is changed or taken away before it is read. *)
DiskChanges ==
    /\ phase = "resolved"
    /\ \E d \in LaterDisks: d # disk /\ disk' = d
    /\ UNCHANGED <<env, phase, place, fileConfig, config, warned, services>>

ConfigNext == resolveConfigFile \/ loadEnhancedConfig \/ createServices \/ DiskChanges

ConfigSpec == ConfigInit /\ [][ConfigNext]_configVars

-----------------------------------------------------------------------------
(* What the environment says of a leaf: the last variable mapped to it, else *)
(* the profile; the theming and transport variables are read on their own.   *)
EnvSays(p) ==
    LET vars == {i \in DOMAIN ENV_VAR_MAPPING:
                   ENV_VAR_MAPPING[i][1] \in DOMAIN env /\ ENV_VAR_MAPPING[i][2] = p}
        last == ENV_VAR_MAPPING[Max(vars)]
        said == parseEnvValue(env[last[1]], last[3])
        read == SelectSeq(collectPresetEntries(env), LAMBDA e: IsPrefix(e[1], p))
        own == SelectSeq(resolveThemingEnv(env) \o resolveTransportEnv(env), LAMBDA e: e[1] = p)
    IN IF vars # {}
       THEN IF p = <<"session", "secret">> /\ said = Null THEN Missing ELSE said
       ELSE IF read # <<>> THEN At(read[1][2], SubSeq(p, Len(read[1][1]) + 1, Len(p)))
       ELSE IF own # <<>> THEN own[1][2]
       ELSE Missing

Said(p) == IF EnvSays(p) # Missing THEN EnvSays(p) ELSE At(fileConfig, p)

(* Every setting of the running server is the one the highest source that    *)
(* mentions it gives: environment, then file, then default                   *)
(* (config-processor.ts mergeConfigs, env-mapper.ts).  Sections are merged   *)
(* key by key, a profile is a base the single variables refine, and of the   *)
(* methods only the known ones stay.                                         *)
SourcesRanked ==
    phase = "loaded" =>
      \A p \in LeafPaths:
        LET given == IF Said(p) # Missing THEN Said(p)
                     ELSE At(createCompleteDefaultConfig(resolveSessionSecretFromEnv(env)), p)
        IN config[p] = IF p = <<"ssh", "allowedAuthMethods">>
                       THEN List(resolveAllowedAuthMethods(given)) ELSE given

(* DOCS/configuration/CONFIG-JSON.md:736: explicit store flags always take   *)
(* precedence over the defaults of the mode (factory.ts createServices).     *)
ExplicitFlagWins ==
    phase = "listening" =>
      /\ Said(HostKey \o <<"serverStore", "enabled">>) # Missing =>
           services.stores.server = Said(HostKey \o <<"serverStore", "enabled">>)
      /\ Said(HostKey \o <<"clientStore", "enabled">>) # Missing =>
           services.stores.client = Said(HostKey \o <<"clientStore", "enabled">>)
=============================================================================
