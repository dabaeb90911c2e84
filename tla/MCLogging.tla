------------------------------ MODULE MCLogging ------------------------------
(* Four entries, one failing connection, a stream that is full twice and throws once. *)
EXTENDS StructuredLogger
MCEntry(event, level, reason) ==
    [event |-> event, level |-> level, reason |-> reason, port |-> 22]
MCRule(target, limit, burst, interval) ==
    [target |-> target, limit |-> limit, burst |-> burst, interval |-> interval]
MCControls(rules, default, limits) ==
    [sampling |-> [rules |-> rules, defaultSampleRate |-> default], rateLimit |-> limits]
MCInfo == MCEntry("auth_attempt", "info", Absent)
MCConfigs ==
    {[minimumLevel |-> "info", stdoutLevel |-> Absent, faulty |-> TRUE, entries |-> {MCInfo},
      controls |-> MCControls(<<>>, 100, <<>>)],
     [minimumLevel |-> "info", stdoutLevel |-> "error", faulty |-> FALSE,
      entries |-> {MCInfo, MCEntry("error", "error", 3), MCEntry("error", "error", 4),
                   MCEntry("pty_resize", "warn", Absent), MCEntry("error", "debug", 3)},
      controls |-> MCControls(<<[target |-> "*", sampleRate |-> 50],
                                [target |-> "error", sampleRate |-> 100],
                                [target |-> "pty_resize", sampleRate |-> 0]>>, 100,
                              <<MCRule("*", 0, 1, 1), MCRule("error", 1, 0, 2)>>)]}
=============================================================================
