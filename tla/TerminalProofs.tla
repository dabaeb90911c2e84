---------------------------- MODULE TerminalProofs ----------------------------
(***************************************************************************)
(* The safety of the terminal's output flow, for every high water mark,    *)
(* rate limit, chunk size and amount of output, and that what the browser  *)
(* asks of a terminal leaves that flow as it is: the flow of a terminal    *)
(* with its requests is the flow of TerminalFlow, and what is promised of  *)
(* sizes and of command output holds.                                      *)
(***************************************************************************)
EXTENDS TerminalRequests, TLAPS

-----------------------------------------------------------------------------
(***************************************************************************)
(* The flow alone (TerminalFlow).                                          *)
(***************************************************************************)
\* Bytes are written once: what waits in the socket or was dropped has left
\* the shell or another handler.
BytesConserved ==
    /\ remaining + dropped <= MaxOutput
    /\ remaining + buffered + dropped <= MaxOutput + others

\* A stream that no backpressure holds is below the mark, beside what other
\* handlers emitted, and while the connection polls nothing is in the WebSocket.
BelowMark ==
    /\ ~closed /\ ~paused => buffered < highWaterMark + others
    /\ transport = "polling" => buffered = 0

\* A timer that is due at once was set in a window that is still empty.
EmptyWindow == ~closed /\ resumeTimers["now"] > 0 => bytesInWindow = 0

\* The two halves of the type invariant: the flags and the numbers.
FlagsOK ==
    /\ streamPaused \in BOOLEAN /\ paused \in BOOLEAN /\ checking \in BOOLEAN
    /\ ratePaused \in BOOLEAN /\ windowOver \in BOOLEAN /\ closed \in BOOLEAN

NumbersOK ==
    /\ remaining \in 0 .. MaxOutput /\ others \in Nat
    /\ buffered \in 0 .. (MaxOutput + others)
    /\ dropped \in 0 .. MaxOutput
    /\ bytesInWindow \in 0 .. rateLimitBytesPerSec
    /\ resumeTimers \in [{"now", "windowEnd"} -> Nat]
    /\ transport \in {"polling", "websocket"}

FlowInv ==
    /\ FlowTypeOK /\ BytesConserved /\ BelowMark /\ EmptyWindow
    /\ BufferBounded /\ PauseHasOneOwner

-------------------------------------------------------------------------------
USE FlowAssumption

\* The low water mark is below the high one.
LEMMA LowBelowHigh == lowWaterMark \in Nat /\ lowWaterMark < highWaterMark
  BY DEF lowWaterMark

\* The type invariant is its two halves.
LEMMA TypeHalves == FlowTypeOK <=> FlagsOK /\ NumbersOK
  BY Zenon DEF FlowTypeOK, FlagsOK, NumbersOK

\* The initial state satisfies the invariant.
LEMMA FlowInitInv == FlowInit => FlowInv
  <1> SUFFICES ASSUME FlowInit PROVE FlowInv
    OBVIOUS
  <1>1. resumeTimers["now"] = 0 /\ resumeTimers["windowEnd"] = 0
    BY DEF FlowInit
  <1>2. FlowTypeOK
    <2>1. FlagsOK
      BY Zenon DEF FlowInit, FlagsOK
    <2>2. NumbersOK
      BY DEF FlowInit, NumbersOK
    <2>. QED BY <2>1, <2>2, TypeHalves
  <1>3. BytesConserved /\ BelowMark /\ EmptyWindow /\ BufferBounded
    BY <1>1 DEF FlowInit, BytesConserved, BelowMark, EmptyWindow, BufferBounded
  <1>4. PauseHasOneOwner
    BY <1>1 DEF FlowInit, PauseHasOneOwner
  <1>. QED BY <1>2, <1>3, <1>4 DEF FlowInv

\* The data listener keeps the invariant: it runs only while nobody holds the
\* stream, so that at most one of the two mechanisms takes it.
LEMMA OnDataInv ==
    ASSUME FlowInv, NEW size \in 1 .. MaxChunk, onData(size)
    PROVE  FlowInv'
  <1>a. ~closed /\ ~streamPaused /\ ~paused /\ ~ratePaused /\ ~checking
    BY DEF FlowInv, FlowTypeOK, PauseHasOneOwner, onData
  <1>b. resumeTimers["now"] = 0 /\ resumeTimers["windowEnd"] = 0
    BY <1>a DEF FlowInv, FlowTypeOK, PauseHasOneOwner
  <1>c. size \in Nat \ {0} /\ size <= MaxChunk /\ size <= remaining
        /\ remaining' = remaining - size /\ others' = others
    BY DEF onData
  <1>d. bytesSoFar \in 0 .. rateLimitBytesPerSec
    BY DEF bytesSoFar, FlowInv, FlowTypeOK
  <1>1. CASE dataOverLimit(size)
    <2>1. /\ bytesInWindow' = bytesSoFar /\ windowOver' = FALSE /\ streamPaused' = TRUE
          /\ ratePaused' = TRUE /\ dropped' = dropped + size
          /\ resumeTimers' = [resumeTimers EXCEPT ![IF windowOver THEN "now" ELSE "windowEnd"] = @ + 1]
          /\ UNCHANGED <<paused, checking, transport, buffered, closed>>
      BY <1>1, <1>a DEF dataOverLimit
    <2>0. windowOver \in BOOLEAN /\ resumeTimers \in [{"now", "windowEnd"} -> Nat]
      BY DEF FlowInv, FlowTypeOK
    <2>2. /\ resumeTimers' \in [{"now", "windowEnd"} -> Nat]
          /\ resumeTimers'["now"] + resumeTimers'["windowEnd"] = 1
          /\ resumeTimers'["now"] > 0 => windowOver
      <3>1. CASE windowOver
        BY <2>0, <2>1, <3>1, <1>b
      <3>2. CASE ~windowOver
        BY <2>0, <2>1, <3>2, <1>b
      <3>. QED BY <3>1, <3>2
    <2>3. bytesInWindow' \in 0 .. rateLimitBytesPerSec /\ (windowOver => bytesInWindow' = 0)
      BY <2>1, <1>d DEF bytesSoFar
    <2>4. FlowTypeOK' /\ BytesConserved'
      <3>1. FlagsOK /\ NumbersOK
        BY TypeHalves DEF FlowInv
      <3>2. FlagsOK'
        BY <2>1, <3>1, Zenon DEF FlagsOK
      <3>3. NumbersOK' /\ BytesConserved'
        <4>1. others' = others /\ remaining' = remaining - size /\ buffered' = buffered
              /\ transport' = transport /\ dropped' = dropped + size
          BY <2>1, <1>c
        <4>2. remaining + dropped <= MaxOutput /\ remaining + buffered + dropped <= MaxOutput + others
          BY DEF FlowInv, BytesConserved
        <4>3. dropped + size \in 0 .. MaxOutput
          BY <4>2, <1>c, <3>1 DEF NumbersOK
        <4>. QED BY <4>1, <4>2, <4>3, <2>2, <2>3, <1>c, <3>1 DEF NumbersOK, BytesConserved
      <3>. QED BY <3>2, <3>3, Zenon DEF FlowTypeOK, FlagsOK, NumbersOK
    <2>5. BelowMark' /\ EmptyWindow' /\ BufferBounded'
      BY <2>1, <2>2, <2>3, <1>c DEF FlowInv, FlowTypeOK, BelowMark, EmptyWindow, BufferBounded
    <2>6. PauseHasOneOwner'
      BY <2>1, <2>2, <1>a DEF PauseHasOneOwner
    <2>. QED BY <2>4, <2>5, <2>6 DEF FlowInv
  <1>2. CASE dataEmitted(size)
    <2> DEFINE amount == IF transport = "websocket" THEN buffered + size ELSE buffered
               pause == transport = "websocket" /\ amount >= highWaterMark
    <2>1. /\ buffered' = amount /\ bytesInWindow' \in 0 .. rateLimitBytesPerSec
          /\ windowOver' \in BOOLEAN
          /\ UNCHANGED <<ratePaused, resumeTimers, transport, dropped, closed>>
      <3>1. FlagsOK /\ NumbersOK
        BY TypeHalves DEF FlowInv
      <3>2. windowOver' \in BOOLEAN
        BY <1>2, <3>1, Zenon DEF dataEmitted, FlagsOK
      <3>3. bytesInWindow' \in 0 .. rateLimitBytesPerSec
        BY <1>2, <1>c, <1>d, <3>1 DEF dataEmitted, overLimit, rateLimited, NumbersOK
      <3>. QED BY <1>2, <3>2, <3>3 DEF dataEmitted
    <2>0. amount \in Nat /\ buffered \in Nat /\ others \in Nat /\ others' = others
      BY <1>c DEF FlowInv, FlowTypeOK
    <2>2. (computeBackpressureAction(getWebSocketBufferedBytes(transport, amount), paused) = "pause")
             <=> pause
      BY <1>a, <2>0 DEF computeBackpressureAction, getWebSocketBufferedBytes
    <2>3. (paused' <=> pause) /\ (streamPaused' <=> pause) /\ (checking' <=> pause)
          /\ paused' \in BOOLEAN /\ streamPaused' \in BOOLEAN /\ checking' \in BOOLEAN
      <3>1. checkBackpressure(amount)
        BY <1>2 DEF dataEmitted
      <3>. QED BY <3>1, <2>2, <1>a, Zenon DEF checkBackpressure
    <2>4. buffered < highWaterMark + others /\ (transport = "polling" => buffered = 0)
      BY <1>a DEF FlowInv, BelowMark
    <2>5. amount <= buffered + size /\ amount < highWaterMark + MaxChunk + others
      BY <2>0, <2>4, <1>c
    <2>6. FlowTypeOK' /\ BytesConserved' /\ BufferBounded'
      <3>1. FlagsOK /\ NumbersOK
        BY TypeHalves DEF FlowInv
      <3>2. FlagsOK'
        BY <2>1, <2>3, <3>1, Zenon DEF FlagsOK
      <3>3. BytesConserved' /\ BufferBounded'
        BY <2>0, <2>1, <2>5, <1>c, <3>1 DEF FlowInv, NumbersOK, BytesConserved, BufferBounded
      <3>4. NumbersOK'
        BY <2>0, <2>1, <2>5, <1>c, <3>1, <3>3 DEF NumbersOK, BytesConserved
      <3>. QED BY <3>2, <3>3, <3>4, Zenon DEF FlowTypeOK, FlagsOK, NumbersOK
    <2>7. BelowMark'
      BY <2>0, <2>1, <2>3, <2>4, <1>a, FlowAssumption DEF BelowMark, FlowInv, FlowTypeOK
    <2>8. EmptyWindow' /\ PauseHasOneOwner'
      BY <2>1, <2>3, <1>a, <1>b DEF EmptyWindow, PauseHasOneOwner
    <2>. QED BY <2>6, <2>7, <2>8 DEF FlowInv
  <1>. QED BY <1>1, <1>2 DEF onData

\* The rate-limit timer keeps the invariant: it is the only one, and its pause
\* is the only one.
LEMMA RateTimerInv ==
    ASSUME FlowInv, NEW due \in {"now", "windowEnd"}, rateLimitTimer(due)
    PROVE  FlowInv'
  <1>1. /\ resumeTimers[due] > 0 /\ resumeTimers' = [resumeTimers EXCEPT ![due] = @ - 1]
        /\ UNCHANGED <<remaining, paused, checking, transport, buffered, others, dropped, closed>>
    BY DEF rateLimitTimer
  <1>2. CASE closed
    <2>1. UNCHANGED <<bytesInWindow, windowOver, ratePaused, streamPaused>>
      BY <1>2 DEF rateLimitTimer
    <2>. QED
      BY <1>1, <1>2, <2>1
      DEF FlowInv, FlowTypeOK, BytesConserved, BelowMark, EmptyWindow, BufferBounded, PauseHasOneOwner
  <1>3. CASE ~closed
    <2>1. ratePaused /\ ~paused /\ ~checking
          /\ resumeTimers["now"] + resumeTimers["windowEnd"] = 1
      BY <1>1, <1>3 DEF FlowInv, FlowTypeOK, PauseHasOneOwner
    <2>2. bytesInWindow' = 0 /\ windowOver' = FALSE /\ ratePaused' = FALSE /\ streamPaused' = FALSE
      BY <1>3, <2>1 DEF rateLimitTimer
    <2>3. resumeTimers' \in [{"now", "windowEnd"} -> Nat]
          /\ resumeTimers'["now"] + resumeTimers'["windowEnd"] = 0
      BY <1>1, <2>1 DEF FlowInv, FlowTypeOK
    <2>4. FlowTypeOK' /\ BytesConserved'
      <3>1. FlagsOK /\ NumbersOK
        BY TypeHalves DEF FlowInv
      <3>2. FlagsOK'
        BY <1>1, <2>2, <3>1, Zenon DEF FlagsOK
      <3>3. NumbersOK' /\ BytesConserved'
        BY <1>1, <2>2, <2>3, <3>1 DEF FlowInv, NumbersOK, BytesConserved
      <3>. QED BY <3>2, <3>3, Zenon DEF FlowTypeOK, FlagsOK, NumbersOK
    <2>5. BelowMark' /\ EmptyWindow' /\ BufferBounded'
      BY <1>1, <2>2 DEF FlowInv, BelowMark, EmptyWindow, BufferBounded
    <2>6. PauseHasOneOwner'
      BY <1>1, <2>1, <2>2, <2>3 DEF PauseHasOneOwner
    <2>. QED BY <2>4, <2>5, <2>6 DEF FlowInv
  <1>. QED BY <1>2, <1>3

\* The check keeps the invariant: it resumes only below the low water mark.
LEMMA CheckResumeInv ==
    ASSUME FlowInv, checkResume
    PROVE  FlowInv'
  <1>1. UNCHANGED <<remaining, ratePaused, bytesInWindow, windowOver, resumeTimers,
                    transport, buffered, others, dropped, closed>>
    BY DEF checkResume
  <1>2. CASE computeBackpressureAction(
                 getWebSocketBufferedBytes(transport, buffered), paused) = "resume"
    <2>1. paused' = FALSE /\ checking' = FALSE /\ streamPaused' = FALSE
      BY <1>2 DEF checkResume
    <2>2. buffered < highWaterMark
      BY <1>2, LowBelowHigh DEF computeBackpressureAction, getWebSocketBufferedBytes, FlowInv, FlowTypeOK
    <2>3. paused \/ closed
      BY DEF checkResume, FlowInv, PauseHasOneOwner, FlowTypeOK
    <2>4. FlowTypeOK' /\ BytesConserved' /\ EmptyWindow' /\ BufferBounded'
      BY <1>1, <2>1 DEF FlowInv, FlowTypeOK, BytesConserved, EmptyWindow, BufferBounded
    <2>5. BelowMark'
      BY <1>1, <2>2 DEF FlowInv, FlowTypeOK, BelowMark
    <2>6. PauseHasOneOwner'
      BY <1>1, <2>1, <2>3 DEF FlowInv, FlowTypeOK, PauseHasOneOwner
    <2>. QED BY <2>4, <2>5, <2>6 DEF FlowInv
  <1>3. CASE computeBackpressureAction(
                 getWebSocketBufferedBytes(transport, buffered), paused) # "resume"
    <2>1. UNCHANGED <<paused, checking, streamPaused>>
      BY <1>3 DEF checkResume
    <2>. QED
      BY <1>1, <2>1
      DEF FlowInv, FlowTypeOK, BytesConserved, BelowMark, EmptyWindow, BufferBounded, PauseHasOneOwner
  <1>. QED BY <1>2, <1>3

\* What drains or what other handlers emit keeps the invariant: the buffer grows
\* by no more than they emit.
LEMMA BufferInv ==
    ASSUME FlowInv, NEW b \in Nat, NEW o \in Nat, buffered' = b, others' = o,
           UNCHANGED <<remaining, streamPaused, paused, checking, ratePaused, bytesInWindow,
                       windowOver, resumeTimers, transport, dropped, closed>>,
           b + others <= buffered + o,
           transport = "polling" => b = 0
    PROVE  FlowInv'
  <1>1. FlagsOK /\ NumbersOK
    BY TypeHalves DEF FlowInv
  <1>2. FlagsOK'
    BY <1>1, Zenon DEF FlagsOK
  <1>3. BytesConserved' /\ NumbersOK'
    BY <1>1 DEF FlowInv, BytesConserved, NumbersOK
  <1>4. BelowMark' /\ BufferBounded'
    BY <1>1 DEF FlowInv, NumbersOK, BelowMark, BufferBounded
  <1>5. EmptyWindow' /\ PauseHasOneOwner'
    BY DEF FlowInv, EmptyWindow, PauseHasOneOwner
  <1>6. FlowTypeOK'
    BY <1>2, <1>3, Zenon DEF FlowTypeOK, FlagsOK, NumbersOK
  <1>. QED BY <1>3, <1>4, <1>5, <1>6 DEF FlowInv

\* Every step keeps the invariant.
LEMMA FlowStepInv == FlowInv /\ [FlowNext]_flowVars => FlowInv'
  <1> SUFFICES ASSUME FlowInv, [FlowNext]_flowVars PROVE FlowInv'
    OBVIOUS
  <1>1. ASSUME NEW size \in 1 .. MaxChunk, onData(size) PROVE FlowInv'
    BY <1>1, OnDataInv
  <1>2. ASSUME NEW due \in {"now", "windowEnd"}, rateLimitTimer(due) PROVE FlowInv'
    BY <1>2, RateTimerInv
  <1>3. CASE checkResume
    BY <1>3, CheckResumeInv
  <1>4. CASE onClose
    BY <1>4
    DEF onClose, FlowInv, FlowTypeOK, BytesConserved, BelowMark, EmptyWindow, BufferBounded,
        PauseHasOneOwner
  <1>5. CASE Drain
    <2>1. PICK n \in 1 .. buffered : buffered' = buffered - n
      BY <1>5 DEF Drain
    <2>2. UNCHANGED <<remaining, streamPaused, paused, checking, ratePaused, bytesInWindow,
                      windowOver, resumeTimers, transport, dropped, closed>> /\ others' = others
      BY <1>5 DEF Drain
    <2>3. buffered \in Nat /\ others \in Nat /\ (transport = "polling" => buffered = 0)
      BY DEF FlowInv, FlowTypeOK, BelowMark
    <2>4. buffered - n \in Nat /\ (buffered - n) + others <= buffered + others
          /\ (transport = "polling" => buffered - n = 0)
      BY <2>3
    <2>. QED BY <2>1, <2>2, <2>3, <2>4, BufferInv
  <1>6. CASE Upgrade
    BY <1>6
    DEF Upgrade, FlowInv, FlowTypeOK, BytesConserved, BelowMark, EmptyWindow, BufferBounded,
        PauseHasOneOwner
  <1>7. CASE SecondPasses
    BY <1>7
    DEF SecondPasses, FlowInv, FlowTypeOK, BytesConserved, BelowMark, EmptyWindow, BufferBounded,
        PauseHasOneOwner
  <1>8. CASE otherEmit
    <2>1. buffered \in Nat /\ others \in Nat /\ (transport = "polling" => buffered = 0)
      BY DEF FlowInv, FlowTypeOK, BelowMark
    <2>2. PICK o \in Nat : others' = o /\ o > others
      BY <1>8 DEF otherEmit
    <2>3. PICK b \in Nat : /\ buffered' = b /\ b + others <= buffered + o
                           /\ transport = "polling" => b = 0
      BY <1>8, <2>1, <2>2 DEF otherEmit
    <2>4. UNCHANGED <<remaining, streamPaused, paused, checking, ratePaused, bytesInWindow,
                      windowOver, resumeTimers, transport, dropped, closed>>
      BY <1>8 DEF otherEmit
    <2>. QED BY <2>2, <2>3, <2>4, BufferInv
  <1>9. CASE UNCHANGED flowVars
    BY <1>9
    DEF flowVars, FlowInv, FlowTypeOK, BytesConserved, BelowMark, EmptyWindow, BufferBounded,
        PauseHasOneOwner
  <1>. QED BY <1>1, <1>2, <1>3, <1>4, <1>5, <1>6, <1>7, <1>8, <1>9 DEF FlowNext

\* The inductive invariant holds in every reachable state.
THEOREM FlowInvariant == FlowSpec => []FlowInv
  <1>. QED BY FlowInitInv, FlowStepInv, PTL DEF FlowSpec

\* The variables stay well typed, the count of the rate window within the limit.
THEOREM FlowTypeCorrect == FlowSpec => []FlowTypeOK
  <1>1. FlowInv => FlowTypeOK
    BY DEF FlowInv
  <1>. QED BY <1>1, FlowInvariant, PTL

\* What waits in the WebSocket stays below the high water mark and one chunk,
\* beside what other handlers emitted.
THEOREM FlowBounded == FlowSpec => []BufferBounded
  <1>1. FlowInv => BufferBounded
    BY DEF FlowInv
  <1>. QED BY <1>1, FlowInvariant, PTL

\* The rate limit and the backpressure never hold the stream together, and each
\* hold has its one resume to come.
THEOREM FlowOneOwner == FlowSpec => []PauseHasOneOwner
  <1>1. FlowInv => PauseHasOneOwner
    BY DEF FlowInv
  <1>. QED BY <1>1, FlowInvariant, PTL

\* No step clears the count of a window before its second has passed.
THEOREM FlowWindow == FlowSpec => WindowNotCutShort
  <1>1. ASSUME FlowInv, [FlowNext]_flowVars
        PROVE  [bytesInWindow' < bytesInWindow => windowOver]_flowVars
    <2>0. bytesInWindow \in Nat
      BY <1>1 DEF FlowInv, FlowTypeOK
    <2>1. ASSUME NEW size \in 1 .. MaxChunk, onData(size) PROVE bytesInWindow' < bytesInWindow => windowOver
      <3>1. bytesInWindow' = bytesInWindow \/ bytesInWindow' = bytesSoFar
            \/ bytesInWindow' = bytesSoFar + size
        BY <2>1 DEF onData, dataOverLimit, dataEmitted
      <3>. QED BY <2>0, <2>1, <3>1 DEF bytesSoFar
    <2>2. ASSUME NEW due \in {"now", "windowEnd"}, rateLimitTimer(due)
          PROVE  bytesInWindow' < bytesInWindow => windowOver
      <3>1. CASE closed
        BY <2>0, <2>2, <3>1 DEF rateLimitTimer
      <3>2. CASE ~closed /\ due = "now"
        BY <1>1, <2>0, <2>2, <3>2 DEF rateLimitTimer, FlowInv, EmptyWindow
      <3>3. CASE due = "windowEnd"
        BY <2>2, <3>3 DEF rateLimitTimer
      <3>. QED BY <2>2, <3>1, <3>2, <3>3
    <2>3. CASE checkResume \/ onClose \/ Drain \/ otherEmit \/ Upgrade \/ SecondPasses
      BY <2>0, <2>3 DEF checkResume, onClose, Drain, otherEmit, Upgrade, SecondPasses
    <2>. QED BY <1>1, <2>1, <2>2, <2>3 DEF FlowNext
  <1>. QED BY <1>1, FlowInvariant, PTL DEF FlowSpec, WindowNotCutShort

-----------------------------------------------------------------------------
(***************************************************************************)
(* The terminal with its requests (TerminalRequests).                      *)
(***************************************************************************)
\* A size that was told and not lost is where the next step looks for it: with
\* the host, in the request of the shell, or in initialTermSettings.
WindowInv ==
    /\ shell \in {"none", "opening", "open"}
    /\ shell # "none" /\ ~closed => terminal
    /\ shell = "none" /\ ~missed => browserWindow \in {None, initialTermSettings}
    /\ shell = "opening" /\ browserWindow # None /\ ~missed => pty = browserWindow
    /\ shell = "open" /\ browserWindow # None /\ ~missed => hostWindow = browserWindow

\* A string without the notice is within the limit.
OutputInv ==
    /\ written \in [Commands -> [Streams -> Nat]]
    /\ kept \in [Commands -> [Streams -> Nat]]
    /\ cut \in [Commands -> [Streams -> BOOLEAN]]
    /\ \A c \in Commands, s \in Streams :
           ~cut[c][s] => kept[c][s] <= maxExecOutputBytes
    /\ OutputWholeOrMarked

-------------------------------------------------------------------------------
USE RequestsAssumption

\* What is emitted beside the output is a step of another handler, or nothing.
LEMMA SayIsOtherEmit ==
    ASSUME FlowTypeOK, NEW n, say(n)
    PROVE  otherEmit \/ UNCHANGED flowVars
  <1>1. CASE ~closed /\ n \in Nat \ {0}
    <2>1. others' = others + n /\ others \in Nat /\ n \in Nat /\ n > 0
      BY <1>1 DEF say, FlowTypeOK
    <2>2. others' \in Nat /\ others' > others /\ others' - others = n
      BY <2>1
    <2>. QED BY <1>1, <2>2 DEF say, otherEmit
  <1>2. CASE ~(~closed /\ n \in Nat \ {0})
    BY <1>2 DEF say
  <1>. QED BY <1>1, <1>2

\* Every step of the terminal is a step of its flow or leaves the flow alone.
LEMMA TerminalStepIsFlowStep ==
    ASSUME FlowTypeOK, [TerminalNext]_terminalVars
    PROVE  [FlowNext]_flowVars
  <1>1. ASSUME NEW n, say(n) PROVE [FlowNext]_flowVars
    BY <1>1, SayIsOtherEmit DEF FlowNext
  <1>2. ASSUME NEW settings \in Sizes \cup {None}, handleTerminal(settings)
        PROVE  [FlowNext]_flowVars
    BY <1>1, <1>2 DEF handleTerminal
  <1>3. CASE ShellOpens
    BY <1>3 DEF ShellOpens
  <1>4. CASE ShellFails
    BY <1>1, <1>4 DEF ShellFails
  <1>5. ASSUME NEW size \in Sizes, handleResize(size) PROVE [FlowNext]_flowVars
    BY <1>5 DEF handleResize
  <1>6. ASSUME NEW c \in Commands, handleExec(c) PROVE [FlowNext]_flowVars
    BY <1>1, <1>6 DEF handleExec, runCommand, performExec
  <1>7. ASSUME NEW c \in Commands, monitorStream(c) PROVE [FlowNext]_flowVars
    BY <1>7 DEF monitorStream
  <1>8. ASSUME NEW c \in Commands, handleExecStartError(c) PROVE [FlowNext]_flowVars
    BY <1>1, <1>8 DEF handleExecStartError, performExec
  <1>9. ASSUME NEW c \in Commands, NEW s \in Streams, NEW n \in 1 .. MaxExecChunk,
               onExecData(c, s, n)
        PROVE  [FlowNext]_flowVars
    BY <1>9 DEF onExecData
  <1>10. ASSUME NEW c \in Commands, handleStreamClose(c) PROVE [FlowNext]_flowVars
    BY <1>1, <1>10 DEF handleStreamClose, performExec
  <1>11. CASE handleControl
    BY <1>1, <1>11 DEF handleControl, handleReplayCredentials, rejectReplay, handleReauth
  <1>12. CASE ConnectionLost
    BY <1>12 DEF ConnectionLost
  <1>13. CASE ShellCloses
    BY <1>13 DEF ShellCloses, FlowNext
  <1>14. CASE ShellData
    BY <1>14 DEF ShellData, FlowNext
  <1>15. ASSUME NEW due \in {"now", "windowEnd"}, ShellTimer(due) PROVE [FlowNext]_flowVars
    BY <1>15 DEF ShellTimer, FlowNext
  <1>16. CASE ShellCheck \/ WindowElapses \/ BrowserReads \/ SocketUpgrades
    BY <1>16 DEF ShellCheck, WindowElapses, BrowserReads, SocketUpgrades, FlowNext
  <1>17. CASE UNCHANGED terminalVars
    BY <1>17 DEF terminalVars
  <1>. QED
    BY <1>2, <1>3, <1>4, <1>5, <1>6, <1>7, <1>8, <1>9, <1>10, <1>11, <1>12, <1>13, <1>14, <1>15,
       <1>16, <1>17 DEF TerminalNext

\* The requests of the browser implement the output flow: with them the shell's
\* stream is paused, resumed and drained as without them.
THEOREM TerminalImplementsFlow == TerminalSpec => FlowSpec
  <1>1. TerminalInit => FlowInit
    BY DEF TerminalInit
  <1>2. FlowInv /\ [TerminalNext]_terminalVars => [FlowNext]_flowVars /\ FlowInv'
    <2> SUFFICES ASSUME FlowInv, [TerminalNext]_terminalVars
                 PROVE  [FlowNext]_flowVars /\ FlowInv'
      OBVIOUS
    <2>1. FlowTypeOK
      BY DEF FlowInv
    <2>2. [FlowNext]_flowVars
      BY <2>1, TerminalStepIsFlowStep
    <2>. QED BY <2>2, FlowStepInv
  <1>. QED BY <1>1, <1>2, FlowInitInv, PTL DEF TerminalSpec, FlowSpec

\* Beside what other handlers emit the WebSocket of a terminal holds less than
\* the mark and one chunk.
THEOREM TerminalBounded == TerminalSpec => []BufferBounded
  <1>. QED BY TerminalImplementsFlow, FlowBounded, PTL

\* No request lets the two pauses of the stream overlap or leaves one without
\* its resume.
THEOREM TerminalOneOwner == TerminalSpec => []PauseHasOneOwner
  <1>. QED BY TerminalImplementsFlow, FlowOneOwner, PTL

-------------------------------------------------------------------------------
\* A size is carried from the browser to the host by every step.
LEMMA WindowStep == WindowInv /\ [TerminalNext]_terminalVars => WindowInv'
  <1> SUFFICES ASSUME WindowInv, [TerminalNext]_terminalVars PROVE WindowInv'
    OBVIOUS
  <1>0. ASSUME UNCHANGED <<terminal, initialTermSettings, shell, pty, hostWindow, browserWindow,
                           missed>>,
               closed' = closed
        PROVE  WindowInv'
    BY <1>0 DEF WindowInv
  <1>1. ASSUME NEW n, say(n) PROVE closed' = closed
    BY <1>1 DEF say, flowVars
  <1>2. ASSUME NEW settings \in Sizes \cup {None}, handleTerminal(settings) PROVE WindowInv'
    <2>1. closed' = closed
      BY <1>1, <1>2 DEF handleTerminal, flowVars
    <2>. QED BY <1>2, <2>1 DEF handleTerminal, WindowInv, buildTerminalDefaults
  <1>3. CASE ShellOpens
    BY <1>3 DEF ShellOpens, WindowInv, flowVars
  <1>4. CASE ShellFails
    <2>1. closed' = closed
      BY <1>1, <1>4 DEF ShellFails
    <2>. QED BY <1>4, <2>1 DEF ShellFails, WindowInv
  <1>5. ASSUME NEW size \in Sizes, handleResize(size) PROVE WindowInv'
    BY <1>5 DEF handleResize, WindowInv, flowVars
  <1>6. ASSUME NEW c \in Commands,
               \/ handleExec(c) \/ monitorStream(c) \/ handleExecStartError(c)
               \/ \E s \in Streams, n \in 1 .. MaxExecChunk : onExecData(c, s, n)
               \/ handleStreamClose(c)
        PROVE  WindowInv'
    <2>1. UNCHANGED windowVars /\ closed' = closed
      BY <1>1, <1>6
      DEF handleExec, runCommand, performExec, monitorStream, handleExecStartError, onExecData,
          handleStreamClose, flowVars
    <2>. QED BY <1>0, <2>1 DEF windowVars
  <1>7. CASE handleControl \/ ConnectionLost
    <2>1. UNCHANGED windowVars /\ closed' = closed
      BY <1>1, <1>7
      DEF handleControl, handleReplayCredentials, rejectReplay, handleReauth, ConnectionLost,
          requestVars, flowVars
    <2>. QED BY <1>0, <2>1 DEF windowVars
  <1>8. CASE ShellCloses
    BY <1>8 DEF ShellCloses, onClose, WindowInv
  <1>9. ASSUME \/ ShellData \/ \E due \in {"now", "windowEnd"} : ShellTimer(due)
               \/ ShellCheck \/ WindowElapses \/ BrowserReads \/ SocketUpgrades
        PROVE  WindowInv'
    <2>1. closed' = closed
      BY <1>9
      DEF ShellData, ShellTimer, ShellCheck, WindowElapses, BrowserReads, SocketUpgrades, onData,
          dataOverLimit, dataEmitted, rateLimitTimer, checkResume, SecondPasses, Drain, Upgrade
    <2>2. UNCHANGED windowVars
      BY <1>9
      DEF ShellData, ShellTimer, ShellCheck, WindowElapses, BrowserReads, SocketUpgrades,
          requestVars
    <2>. QED BY <1>0, <2>1, <2>2 DEF windowVars
  <1>10. CASE UNCHANGED terminalVars
    BY <1>0, <1>10 DEF terminalVars, requestVars, windowVars, flowVars
  <1>. QED BY <1>2, <1>3, <1>4, <1>5, <1>6, <1>7, <1>8, <1>9, <1>10 DEF TerminalNext

\* The host of an open shell has the size the browser told last, unless it was
\* told while nothing kept it.
THEOREM TerminalKnowsWindow == TerminalSpec => []ShellKnowsWindow
  <1>1. TerminalInit => WindowInv
    BY DEF TerminalInit, WindowInv
  <1>2. WindowInv => ShellKnowsWindow
    BY DEF WindowInv, ShellKnowsWindow
  <1>. QED BY <1>1, <1>2, WindowStep, PTL DEF TerminalSpec

-------------------------------------------------------------------------------
\* A chunk is kept whole or replaced by the notice, and only a stream that
\* outgrew the limit gets one.
LEMMA ExecDataInv ==
    ASSUME OutputInv, NEW c \in Commands, NEW s \in Streams, NEW n \in 1 .. MaxExecChunk,
           onExecData(c, s, n)
    PROVE  OutputInv'
  <1> DEFINE w == written[c][s]
             k == kept[c][s]
  <1>1. /\ w \in Nat /\ k \in Nat /\ cut[c][s] \in BOOLEAN /\ n \in Nat \ {0}
        /\ ~cut[c][s] => k = w /\ k <= maxExecOutputBytes
        /\ cut[c][s] => w > maxExecOutputBytes
        /\ k <= maxExecOutputBytes + Marker
    BY DEF OutputInv, OutputWholeOrMarked
  <1>2. written' = [written EXCEPT ![c][s] = w + n]
    BY DEF onExecData
  <1>3. PICK k2 \in Nat, x2 \in BOOLEAN :
           /\ kept' = [kept EXCEPT ![c][s] = k2]
           /\ cut' = [cut EXCEPT ![c][s] = x2]
           /\ ~x2 => k2 = w + n /\ k2 <= maxExecOutputBytes
           /\ x2 => w + n > maxExecOutputBytes
           /\ k2 <= maxExecOutputBytes + Marker
    <2>0. maxExecOutputBytes \in Nat /\ Marker \in Nat
      OBVIOUS
    <2>1. CASE exceeds(k, n)
      <3> DEFINE k2 == IF cut[c][s] THEN k ELSE k + Marker
      <3>1. /\ kept' = [kept EXCEPT ![c][s] = k2]
            /\ cut' = [cut EXCEPT ![c][s] = TRUE]
        BY <2>1 DEF onExecData
      <3>2. k2 \in Nat /\ w + n > maxExecOutputBytes /\ k2 <= maxExecOutputBytes + Marker
        BY <1>1, <2>0, <2>1 DEF exceeds
      <3>. QED BY <3>1, <3>2
    <2>2. CASE ~exceeds(k, n)
      <3>1. kept' = [kept EXCEPT ![c][s] = k + n] /\ cut' = cut
        BY <2>2 DEF onExecData
      <3>2. cut' = [cut EXCEPT ![c][s] = cut[c][s]]
        BY <3>1 DEF OutputInv
      <3>3. /\ k + n \in Nat /\ k + n <= maxExecOutputBytes
            /\ k + n <= maxExecOutputBytes + Marker
            /\ ~cut[c][s] => k + n = w + n
            /\ cut[c][s] => w + n > maxExecOutputBytes
        BY <1>1, <2>0, <2>2 DEF exceeds
      <3>. QED BY <3>1, <3>2, <3>3, <1>1
    <2>. QED BY <2>1, <2>2
  <1>4. /\ written' \in [Commands -> [Streams -> Nat]]
        /\ kept' \in [Commands -> [Streams -> Nat]]
        /\ cut' \in [Commands -> [Streams -> BOOLEAN]]
    BY <1>1, <1>2, <1>3 DEF OutputInv
  <1>5. ASSUME NEW d \in Commands, NEW r \in Streams
        PROVE  /\ ~cut'[d][r] => kept'[d][r] <= maxExecOutputBytes
               /\ ~cut'[d][r] => kept'[d][r] = written'[d][r]
               /\ cut'[d][r] => written'[d][r] > maxExecOutputBytes
               /\ kept'[d][r] <= maxExecOutputBytes + Marker
    <2>1. CASE d = c /\ r = s
      BY <1>2, <1>3, <2>1 DEF OutputInv
    <2>2. CASE ~(d = c /\ r = s)
      <3>1. /\ written'[d][r] = written[d][r] /\ kept'[d][r] = kept[d][r]
            /\ cut'[d][r] = cut[d][r]
        BY <1>2, <1>3, <2>2 DEF OutputInv
      <3>. QED BY <3>1 DEF OutputInv, OutputWholeOrMarked
    <2>. QED BY <2>1, <2>2
  <1>. QED BY <1>4, <1>5 DEF OutputInv, OutputWholeOrMarked

\* The answer of a command forgets its strings.
LEMMA StreamCloseInv ==
    ASSUME OutputInv, NEW c \in Commands, handleStreamClose(c)
    PROVE  OutputInv'
  <1>1. /\ written' = [written EXCEPT ![c] = [s \in Streams |-> 0]]
        /\ kept' = [kept EXCEPT ![c] = [s \in Streams |-> 0]]
        /\ cut' = [cut EXCEPT ![c] = [s \in Streams |-> FALSE]]
    BY DEF handleStreamClose
  <1>2. /\ written' \in [Commands -> [Streams -> Nat]]
        /\ kept' \in [Commands -> [Streams -> Nat]]
        /\ cut' \in [Commands -> [Streams -> BOOLEAN]]
    BY <1>1 DEF OutputInv
  <1>3. ASSUME NEW d \in Commands, NEW r \in Streams
        PROVE  /\ ~cut'[d][r] => kept'[d][r] <= maxExecOutputBytes
               /\ ~cut'[d][r] => kept'[d][r] = written'[d][r]
               /\ cut'[d][r] => written'[d][r] > maxExecOutputBytes
               /\ kept'[d][r] <= maxExecOutputBytes + Marker
    <2>1. CASE d = c
      BY <1>1, <2>1 DEF OutputInv
    <2>2. CASE d # c
      BY <1>1, <2>2 DEF OutputInv, OutputWholeOrMarked
    <2>. QED BY <2>1, <2>2
  <1>. QED BY <1>2, <1>3 DEF OutputInv, OutputWholeOrMarked

\* Every step keeps the accounts of the commands.
LEMMA OutputStep == OutputInv /\ [TerminalNext]_terminalVars => OutputInv'
  <1> SUFFICES ASSUME OutputInv, [TerminalNext]_terminalVars PROVE OutputInv'
    OBVIOUS
  <1>1. ASSUME UNCHANGED <<written, kept, cut>> PROVE OutputInv'
    BY <1>1 DEF OutputInv, OutputWholeOrMarked
  <1>2. ASSUME NEW c \in Commands, NEW s \in Streams, NEW n \in 1 .. MaxExecChunk,
               onExecData(c, s, n)
        PROVE  OutputInv'
    BY <1>2, ExecDataInv
  <1>3. ASSUME NEW c \in Commands, handleStreamClose(c) PROVE OutputInv'
    BY <1>3, StreamCloseInv
  <1>4. ASSUME NEW c \in Commands, handleExec(c) \/ monitorStream(c) \/ handleExecStartError(c)
        PROVE  OutputInv'
    BY <1>1, <1>4 DEF handleExec, monitorStream, handleExecStartError
  <1>5. CASE \/ \E settings \in Sizes \cup {None} : handleTerminal(settings)
             \/ ShellOpens \/ ShellFails \/ \E size \in Sizes : handleResize(size)
    BY <1>1, <1>5 DEF handleTerminal, ShellOpens, ShellFails, handleResize, execVars
  <1>6. CASE handleControl \/ ConnectionLost \/ ShellCloses
    BY <1>1, <1>6
    DEF handleControl, handleReplayCredentials, handleReauth, ConnectionLost, ShellCloses,
        requestVars, execVars
  <1>7. CASE \/ ShellData \/ \E due \in {"now", "windowEnd"} : ShellTimer(due)
             \/ ShellCheck \/ WindowElapses \/ BrowserReads \/ SocketUpgrades
    BY <1>1, <1>7
    DEF ShellData, ShellTimer, ShellCheck, WindowElapses, BrowserReads, SocketUpgrades,
        requestVars, execVars
  <1>8. CASE UNCHANGED terminalVars
    BY <1>1, <1>8 DEF terminalVars, requestVars, execVars
  <1>. QED BY <1>2, <1>3, <1>4, <1>5, <1>6, <1>7, <1>8 DEF TerminalNext

\* What a command answers is everything the host wrote or carries the notice.
THEOREM TerminalOutputMarked == TerminalSpec => []OutputWholeOrMarked
  <1>1. TerminalInit => OutputInv
    BY DEF TerminalInit, OutputInv, OutputWholeOrMarked
  <1>2. OutputInv => OutputWholeOrMarked
    BY DEF OutputInv
  <1>. QED BY <1>1, <1>2, OutputStep, PTL DEF TerminalSpec
=============================================================================
