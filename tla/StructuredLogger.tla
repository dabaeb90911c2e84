--------------------------- MODULE StructuredLogger ---------------------------
(***************************************************************************)
(* A structured logger: app/logging/structured-logger.ts on the transports *)
(* app/logger.ts builds for it (composite-transport.ts over                *)
(* transport-filters.ts).  The server has one and every browser socket one *)
(* more, each with its own limits, queues and connection to the collector. *)
(*                                                                         *)
(* flush() and updateControls() have no caller in the server.              *)
(***************************************************************************)
EXTENDS LogControls, LogTransports

CONSTANTS
    LogConfigs,        \* [minimumLevel, stdoutLevel or Absent, controls], and as bounds
                       \* the entries logged under it and whether anything fails
    Draws,             \* the random numbers, in percent
    MaxEntries,        \* bound: entries logged
    MaxTime,           \* bound: the clock
    MaxStalls,         \* bound: writes the stream answers with full
    MaxThrows          \* bound: writes the stream throws at

ASSUME LoggerAssumption ==
    /\ MaxEntries \in Nat /\ MaxTime \in Nat /\ MaxStalls \in Nat /\ MaxThrows \in Nat
    /\ Draws \subseteq 0 .. 99

\* What the schema of the configuration admits (schemas/config-schema.ts).
ASSUME RulesAssumption ==
    \A c \in LogConfigs :
       c.controls.rateLimit \in
          Seq([target : STRING, limit : Nat, burst : Nat, interval : Nat \ {0}])

VARIABLES
    config,
    controlState,
    queueDropCount,
    stdout,            \* the stream's transport
    syslog,            \* the collector's transport
    now,
    failures,          \* connections that failed so far
    stalls,            \* [full, throw]: the stream's answers so far
    logged,            \* history: entries that passed the level and were well formed
    accepted,          \* history: [stdout, syslog]: the lines each transport took
    allowed            \* history: <<event, time>> of every line past the limits, in order

loggerVars == <<config, controlState, queueDropCount, stdout, syslog, now, failures, stalls,
                logged, accepted, allowed>>

RuleKeys(c) == {c.controls.rateLimit[i].target : i \in DOMAIN c.controls.rateLimit}

LoggerInit ==
    /\ config \in LogConfigs
    /\ controlState = createLoggingControlState(RuleKeys(config))
    /\ queueDropCount = 0 /\ stdout = stdoutInit /\ syslog = syslogInit
    /\ now = 0 /\ failures = 0 /\ stalls = [full |-> 0, throw |-> 0]
    /\ logged = 0 /\ accepted = [stdout |-> <<>>, syslog |-> <<>>] /\ allowed = <<>>

\* What the stream may answer to a write.
Answers ==
    {"more"} \cup (IF config.faulty /\ stalls.full < MaxStalls THEN {"full"} ELSE {})
             \cup (IF config.faulty /\ stalls.throw < MaxThrows THEN {"throw"} ELSE {})

Answered(answer) ==
    stalls' = [stalls EXCEPT !.full  = IF answer = "full" THEN @ + 1 ELSE @,
                             !.throw = IF answer = "throw" THEN @ + 1 ELSE @]

-------------------------------------------------------------------------------
(* transport-filters.ts and composite-transport.ts *)

\* The stream's transport behind its level filter: a line below it is published nowhere.
stdoutTakes(entry) ==
    config.stdoutLevel = Absent \/ shouldLog(entry.level, config.stdoutLevel)

filteredPublish(entry, line, answer) ==
    IF stdoutTakes(entry) THEN stdoutPublish(stdout, line, answer)
    ELSE [result |-> "ok", state |-> stdout]

\* Every transport is given the line; the first error is the answer.
publishToAll(entry, line, answer) ==
    LET first  == filteredPublish(entry, line, answer)
        second == syslogPublish(syslog, line)
    IN  [stdout |-> first.state, syslog |-> second.state,
         takes |-> [stdout |-> stdoutTakes(entry) /\ first.result = "ok",
                    syslog |-> second.result = "ok"],
         result |-> IF first.result = "ok" THEN second.result ELSE first.result]

Taken(publish, line) ==
    [stdout |-> IF publish.takes.stdout THEN Append(accepted.stdout, line) ELSE accepted.stdout,
     syslog |-> IF publish.takes.syslog THEN Append(accepted.syslog, line) ELSE accepted.syslog]

-------------------------------------------------------------------------------
(* structured-logger.ts *)

rollbackPublished(state) ==
    [state EXCEPT !.published = IF @ > 0 THEN @ - 1 ELSE 0]

\* log().  An entry that cannot be formatted changes nothing: the controls' new state
\* is dropped with it.
log ==
    \E entry \in config.entries, draw \in Draws, answer \in Answers :
       LET decision == evaluateLoggingControls(entry.event, now, config.controls,
                                               controlState, draw)
           line     == Len(allowed) + 1
           publish  == publishToAll(entry, line, answer)
           asked    == ~stdout.waitingForDrain /\ publish.stdout # stdout
       IN  /\ logged < MaxEntries
           /\ shouldLog(entry.level, config.minimumLevel)
           /\ decision.allow => formatStructuredLog(entry)
           /\ logged' = logged + 1
           /\ IF ~decision.allow
              THEN /\ controlState' = decision.state
                   /\ UNCHANGED <<queueDropCount, stdout, syslog, stalls, accepted,
                                  allowed>>
              ELSE /\ allowed' = Append(allowed, <<entry.event, now>>)
                   /\ stdout' = publish.stdout /\ syslog' = publish.syslog
                   /\ accepted' = Taken(publish, line)
                   /\ IF publish.result = "backpressure"
                      THEN /\ queueDropCount' = queueDropCount + 1
                           /\ controlState' = rollbackPublished(decision.state)
                      ELSE /\ controlState' = decision.state
                           /\ UNCHANGED queueDropCount
                   /\ IF asked THEN Answered(answer) ELSE answer = "more" /\ UNCHANGED stalls
           /\ UNCHANGED <<config, now, failures>>

-------------------------------------------------------------------------------
(* What Node, the collector and the clock do *)

Quiet == UNCHANGED <<config, controlState, queueDropCount, logged, accepted, allowed>>

SyslogStep(next) ==
    syslog' = next /\ Quiet /\ UNCHANGED <<stdout, now, stalls>>

\* The stream has room again.
StreamDrains ==
    /\ stdout.drainListener
    /\ \E n \in 0 .. Len(stdout.queue), answer \in Answers :
          /\ (n = Len(stdout.queue)) <=> (answer = "more")
          /\ stdout' = handleDrain(stdout, n, answer) /\ Answered(answer)
    /\ Quiet /\ UNCHANGED <<syslog, now, failures>>

Connects(c) ==
    /\ syslog.conns[c].st = "connecting"
    /\ SyslogStep(handleConnected([syslog EXCEPT !.conns[c].st = "open"], c))
    /\ UNCHANGED failures

\* What is buffered goes out together; the drain event, where one was promised, flushes
\* to whatever connection is held.
Delivers(c) ==
    /\ syslog.conns[c].st = "open" /\ syslog.conns[c].buf # <<>>
    /\ LET left == [syslog EXCEPT !.conns[c].buf = <<>>, !.conns[c].needDrain = FALSE]
       IN  SyslogStep(IF syslog.conns[c].needDrain THEN flushQueue(left) ELSE left)
    /\ UNCHANGED failures

\* The connection is gone with all it had buffered; its events are still to come.
Dies(c) ==
    /\ syslog.conns[c].st \in {"connecting", "open"} /\ config.faulty /\ failures < MaxFailures
    /\ \E how \in IF syslog.conns[c].st = "open" THEN {"destroyed", "ended"} ELSE {"destroyed"} :
          SyslogStep([syslog EXCEPT !.conns[c] = [NewConn EXCEPT !.st = how]])
    /\ failures' = failures + 1

Errors(c) ==
    /\ syslog.conns[c].st = "destroyed"
    /\ SyslogStep(handleSocketError([syslog EXCEPT !.conns[c].st = "errored"]))
    /\ UNCHANGED failures

Closes(c) ==
    /\ syslog.conns[c].st \in {"ended", "errored"}
    /\ SyslogStep(handleSocketClose([syslog EXCEPT !.conns[c] = ClosedConn]))
    /\ UNCHANGED failures

FlushTimer == syslog.flushTimer /\ SyslogStep(flushTick(syslog)) /\ UNCHANGED failures

ReconnectTimer == syslog.reconnectTimer /\ SyslogStep(reconnectNow(syslog)) /\ UNCHANGED failures

\* Only the limits read the clock.
Tick ==
    /\ config.controls.rateLimit # <<>> /\ now < MaxTime /\ now' = now + 1
    /\ Quiet /\ UNCHANGED <<stdout, syslog, failures, stalls>>

LoggerNext ==
    \/ log \/ StreamDrains \/ FlushTimer \/ ReconnectTimer \/ Tick
    \/ \E c \in ConnIds : Connects(c) \/ Delivers(c) \/ Dies(c) \/ Errors(c) \/ Closes(c)

LoggerSpec == LoggerInit /\ [][LoggerNext]_loggerVars

\* The timers fire, and Node reports what became of a connection, of the lines it was
\* given and of a stream it called full.
FairLoggerSpec ==
    /\ LoggerSpec
    /\ WF_loggerVars(StreamDrains) /\ WF_loggerVars(FlushTimer) /\ WF_loggerVars(ReconnectTimer)
    /\ \A c \in ConnIds :
          WF_loggerVars(Connects(c)) /\ WF_loggerVars(Delivers(c))
          /\ WF_loggerVars(Errors(c)) /\ WF_loggerVars(Closes(c))

-------------------------------------------------------------------------------
\* What the collector's transport took, it hands to connections in that order and
\* without a gap, whatever fails on the way: a line leaves the queue only when a live
\* connection has it (flushQueue(), the handlers of the connection's events).
AcceptedIsWritten ==
    LET taken == accepted.syslog
        sent  == syslog.sent
    IN  /\ sent = SubSeq(taken, 1, Len(sent))
        /\ \E k \in 0 .. Len(taken) :
              /\ syslog.queue = SubSeq(taken, k + 1, Len(taken))
              /\ k <= Len(sent) /\ Len(sent) <= k + 1

\* As long as the stream never throws, it gets the lines its transport took in order
\* and all of them, however often it was full (publish(), flush(), handleDrain()).
\* Not each only once: a line with which a drain fills the stream again stays at the
\* head of the queue and is written again, and Joined counts the repetition as one.
StdoutInOrder ==
    ~stdout.threw => Joined(stdout.out, stdout.queue) = accepted.stdout

\* However the refills fall, a window of d lets through no more than the capacity and
\* one limit for every interval begun in it (refillBucket(), evaluateRateLimit()).
RateBounded ==
    \A i \in DOMAIN config.controls.rateLimit, from, to \in 0 .. MaxTime :
       LET rule   == config.controls.rateLimit[i]
           events == {e \in {x.event : x \in config.entries} :
                         selectRateLimitRule(config.controls.rateLimit, e) = <<rule>>}
           passed == {n \in DOMAIN allowed :
                         allowed[n][1] \in events /\ allowed[n][2] \in from .. to}
           begun  == (to - from + rule.interval - 1) \div rule.interval
       IN  from <= to => Cardinality(passed) <= rule.limit + rule.burst + begun * rule.limit

\* Nothing waits for ever: the collector's queue empties once connections stop failing,
\* and the stream's unless the stream threw.
LogsFlushed ==
    []<>(syslog.queue = <<>> /\ (stdout.threw \/ stdout.queue = <<>>))
=============================================================================
