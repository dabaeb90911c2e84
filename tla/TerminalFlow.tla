----------------------------- MODULE TerminalFlow -----------------------------
(***************************************************************************)
(* The shell output of one terminal: setupShellDataFlow()                  *)
(* (app/socket/adapters/service-socket-terminal.ts) with the decision      *)
(* function of app/socket/backpressure.ts.                                 *)
(*                                                                         *)
(* Two mechanisms pause and resume the same SSH stream: the rate limit,    *)
(* which counts the bytes of a window of one second, and the backpressure, *)
(* which looks at the bytes that wait in the WebSocket.  Time is kept as   *)
(* one bit, windowOver: a second has passed since windowStart.             *)
(*                                                                         *)
(* External: the stream delivers no data while it is paused, and a chunk   *)
(* that is emitted counts in bufferedAmount at once.                       *)
(***************************************************************************)
EXTENDS Integers

CONSTANTS
    highWaterMark,         \* ssh.socketHighWaterMark, a positive integer
    rateLimitBytesPerSec,  \* ssh.outputRateLimitBytesPerSec, 0 for none
    MaxChunk,              \* bound: the largest chunk the stream delivers
    MaxOutput              \* bound: the bytes the remote shell writes

ASSUME FlowAssumption ==
    /\ highWaterMark \in Nat \ {0} /\ rateLimitBytesPerSec \in Nat
    /\ MaxChunk \in Nat \ {0} /\ MaxOutput \in Nat

VARIABLES
    remaining,     \* bytes the remote shell has still to write
    streamPaused,  \* the stream is paused
    paused,        \* backpressure.paused
    checking,      \* the drain listener and the timer of scheduleResumeCheck()
    ratePaused,    \* rateLimitState.paused
    bytesInWindow, \* rateLimitState.bytesInWindow
    windowOver,    \* Date.now() - rateLimitState.windowStart >= 1000
    resumeTimers,  \* the pending rate-limit timers, counted by when they are due
    transport,     \* conn.transport.name
    buffered,      \* bufferedAmount of the WebSocket
    others,        \* bytes emitted on the socket by other handlers
    dropped,       \* bytes read from the stream and never emitted
    closed         \* the stream's close listener has run

flowVars == <<remaining, streamPaused, paused, checking, ratePaused, bytesInWindow,
              windowOver, resumeTimers, transport, buffered, others, dropped, closed>>

\* The variables are well typed.
FlowTypeOK ==
    /\ remaining \in 0 .. MaxOutput /\ others \in Nat
    /\ buffered \in 0 .. (MaxOutput + others)
    /\ dropped \in 0 .. MaxOutput
    /\ streamPaused \in BOOLEAN /\ paused \in BOOLEAN /\ checking \in BOOLEAN
    /\ ratePaused \in BOOLEAN /\ windowOver \in BOOLEAN /\ closed \in BOOLEAN
    /\ bytesInWindow \in 0 .. rateLimitBytesPerSec
    /\ resumeTimers \in [{"now", "windowEnd"} -> Nat]
    /\ transport \in {"polling", "websocket"}

FlowInit ==
    /\ remaining = MaxOutput /\ buffered = 0 /\ others = 0 /\ dropped = 0
    /\ streamPaused = FALSE /\ paused = FALSE /\ checking = FALSE
    /\ ratePaused = FALSE /\ bytesInWindow = 0 /\ windowOver = FALSE
    /\ resumeTimers = [due \in {"now", "windowEnd"} |-> 0]
    /\ transport \in {"polling", "websocket"}
    /\ closed = FALSE

-------------------------------------------------------------------------------
(* backpressure.ts *)

\* null (here -1) unless the transport is a WebSocket.
getWebSocketBufferedBytes(name, amount) == IF name = "websocket" THEN amount ELSE -1

lowWaterMark == highWaterMark \div 4

\* Pause at the high water mark, resume below a quarter of it.
computeBackpressureAction(bytes, currentlyPaused) ==
    IF bytes = -1 THEN "none"
    ELSE IF ~currentlyPaused /\ bytes >= highWaterMark THEN "pause"
    ELSE IF currentlyPaused /\ bytes < lowWaterMark THEN "resume"
    ELSE "none"

-------------------------------------------------------------------------------
(* The stream's data listener *)

rateLimited == rateLimitBytesPerSec > 0

\* The bytes counted for the window once an elapsed window has been reset.
bytesSoFar == IF windowOver THEN 0 ELSE bytesInWindow

overLimit(size) == rateLimited /\ bytesSoFar + size > rateLimitBytesPerSec

\* Seeded fault: the stream is marked as paused and goes on.
dataOverLimitRuns(size) ==
    /\ overLimit(size)
    /\ bytesInWindow' = bytesSoFar /\ windowOver' = FALSE /\ ratePaused' = TRUE
    /\ resumeTimers' = [resumeTimers EXCEPT ![IF windowOver THEN "now" ELSE "windowEnd"] = @ + 1]
    /\ dropped' = dropped + size
    /\ UNCHANGED <<streamPaused, paused, checking, transport, buffered, closed>>

\* A chunk over the limit: the listener pauses the stream, sets a timer for the
\* rest of the window and returns without emitting.  The delay is computed from
\* windowElapsed as it was before the window was reset, so that after an
\* elapsed window the timer is due at once.
dataOverLimit(size) ==
    /\ overLimit(size)
    /\ bytesInWindow' = bytesSoFar
    /\ windowOver' = FALSE
    /\ streamPaused' = (streamPaused \/ ~ratePaused)
    /\ ratePaused' = TRUE
    /\ resumeTimers' = [resumeTimers EXCEPT ![IF windowOver THEN "now" ELSE "windowEnd"] = @ + 1]
    /\ dropped' = dropped + size
    /\ UNCHANGED <<paused, checking, transport, buffered, closed>>

\* checkBackpressure(), given what is buffered after the emit.
checkBackpressure(amount) ==
    LET pause == /\ ~paused
                 /\ computeBackpressureAction(
                        getWebSocketBufferedBytes(transport, amount), paused) = "pause"
    IN  /\ paused' = (paused \/ pause)
        /\ streamPaused' = (streamPaused \/ pause)
        /\ checking' = (checking \/ pause)

\* A chunk within the limit is emitted.
dataEmitted(size) ==
    LET amount == IF transport = "websocket" THEN buffered + size ELSE buffered
    IN  /\ ~overLimit(size)
        /\ bytesInWindow' = IF rateLimited THEN bytesSoFar + size ELSE bytesInWindow
        /\ windowOver' = IF rateLimited THEN FALSE ELSE windowOver
        /\ buffered' = amount
        /\ checkBackpressure(amount)
        /\ UNCHANGED <<ratePaused, resumeTimers, transport, dropped, closed>>

onData(size) ==
    /\ ~closed /\ ~streamPaused /\ size <= remaining
    /\ remaining' = remaining - size /\ UNCHANGED others
    /\ dataOverLimit(size) \/ dataEmitted(size)

-------------------------------------------------------------------------------
(* Timers, the drain event and the end of the stream *)

\* The timer starts a new window and resumes the stream; after the close the
\* state is null and it does nothing.
rateLimitTimer(due) ==
    /\ resumeTimers[due] > 0
    /\ due = "windowEnd" => windowOver
    /\ resumeTimers' = [resumeTimers EXCEPT ![due] = @ - 1]
    /\ IF closed
       THEN UNCHANGED <<bytesInWindow, windowOver, ratePaused, streamPaused>>
       ELSE /\ bytesInWindow' = 0 /\ windowOver' = FALSE
            /\ ratePaused' = FALSE
            /\ streamPaused' = (streamPaused /\ paused)
    /\ UNCHANGED <<remaining, paused, checking, transport, buffered, others, dropped, closed>>

\* Seeded fault: the drain event resumes the stream without looking at the buffer.
checkResumeBlind ==
    /\ checking
    /\ paused' = FALSE /\ checking' = FALSE /\ streamPaused' = FALSE
    /\ UNCHANGED <<remaining, ratePaused, bytesInWindow, windowOver, resumeTimers,
                   transport, buffered, others, dropped, closed>>

\* Seeded fault: a check that comes too early is not scheduled again.
checkResumeOnce ==
    /\ checking /\ checking' = FALSE
    /\ IF buffered < lowWaterMark
       THEN paused' = FALSE /\ streamPaused' = FALSE
       ELSE UNCHANGED <<paused, streamPaused>>
    /\ UNCHANGED <<remaining, ratePaused, bytesInWindow, windowOver, resumeTimers,
                   transport, buffered, others, dropped, closed>>

\* checkResume() on a drain event or after 50 ms: it resumes the stream or
\* waits again.
checkResume ==
    /\ checking
    /\ IF computeBackpressureAction(
              getWebSocketBufferedBytes(transport, buffered), paused) = "resume"
       THEN paused' = FALSE /\ checking' = FALSE /\ streamPaused' = FALSE
       ELSE UNCHANGED <<paused, checking, streamPaused>>
    /\ UNCHANGED <<remaining, ratePaused, bytesInWindow, windowOver, resumeTimers,
                   transport, buffered, others, dropped, closed>>

\* The stream's close listener: it clears the check, drops the rate-limit state
\* and disconnects the socket.
onClose ==
    /\ ~closed /\ closed' = TRUE
    /\ checking' = FALSE
    /\ UNCHANGED <<remaining, streamPaused, paused, ratePaused, bytesInWindow, windowOver,
                   resumeTimers, transport, buffered, others, dropped>>

\* External: the browser takes bytes from the WebSocket.
Drain ==
    /\ \E n \in 1 .. buffered : buffered' = buffered - n
    /\ UNCHANGED <<remaining, streamPaused, paused, checking, ratePaused, bytesInWindow,
                   windowOver, resumeTimers, transport, others, dropped, closed>>

\* External: engine.io upgrades the connection from polling to a WebSocket.
Upgrade ==
    /\ transport = "polling" /\ transport' = "websocket"
    /\ UNCHANGED <<remaining, streamPaused, paused, checking, ratePaused, bytesInWindow,
                   windowOver, resumeTimers, buffered, others, dropped, closed>>

\* External: a second has passed since windowStart.
SecondPasses ==
    /\ ~windowOver /\ windowOver' = TRUE
    /\ UNCHANGED <<remaining, streamPaused, paused, checking, ratePaused, bytesInWindow,
                   resumeTimers, transport, buffered, others, dropped, closed>>

\* Another handler of the socket emits: what it emits waits with the output.
otherEmit ==
    /\ ~closed
    /\ others' \in Nat /\ others' > others
    /\ buffered' = IF transport = "websocket" THEN buffered + (others' - others) ELSE buffered
    /\ UNCHANGED <<remaining, streamPaused, paused, checking, ratePaused, bytesInWindow,
                   windowOver, resumeTimers, transport, dropped, closed>>

FlowNext ==
    \/ \E size \in 1 .. MaxChunk : onData(size)
    \/ \E due \in {"now", "windowEnd"} : rateLimitTimer(due)
    \/ checkResume
    \/ onClose
    \/ Drain
    \/ otherEmit
    \/ Upgrade
    \/ SecondPasses

FlowSpec == FlowInit /\ [][FlowNext]_flowVars

\* Timers fire, time passes and a connected browser goes on reading.
FairFlowSpec ==
    /\ FlowSpec
    /\ \A due \in {"now", "windowEnd"} : WF_flowVars(rateLimitTimer(due))
    /\ WF_flowVars(checkResume)
    /\ WF_flowVars(Drain)
    /\ WF_flowVars(SecondPasses)

-------------------------------------------------------------------------------
(* Properties *)

\* What waits in the WebSocket stays below the high water mark and one chunk,
\* beside what other handlers emitted: no resume, of either mechanism, reopens
\* the stream above the mark.
BufferBounded == buffered < highWaterMark + MaxChunk + others

\* The two pauses never overlap and each has exactly one resume to come: a
\* stream paused by the rate limit has one timer, a stream paused by the
\* backpressure has its check, and a running stream has neither.
PauseHasOneOwner ==
    ~closed =>
        /\ streamPaused <=> (paused \/ ratePaused)
        /\ ~(paused /\ ratePaused)
        /\ checking <=> paused
        /\ resumeTimers["now"] + resumeTimers["windowEnd"] = IF ratePaused THEN 1 ELSE 0

\* The count of a window is cleared only when its second has passed: no timer,
\* in particular not one that was due at once, cuts a window short.
WindowNotCutShort == [][bytesInWindow' < bytesInWindow => windowOver]_flowVars

\* A paused stream of an open terminal flows again.
StreamResumes == streamPaused ~> (~streamPaused \/ closed)

===============================================================================
