---------------------------- MODULE LogTransports ----------------------------
(***************************************************************************)
(* Where log lines go: app/logging/stdout-transport.ts writes to a stream  *)
(* and app/logging/syslog-transport.ts to a connection it makes and makes  *)
(* again.  Both keep a bounded queue for the time the other side is slow.  *)
(*                                                                         *)
(* Each transport is a record its methods turn into another, since they    *)
(* call each other.  A line is the number of its entry.  The stream and    *)
(* the connections belong to Node: a connection takes a line even when it  *)
(* answers false, and is gone before its error and close events arrive.    *)
(***************************************************************************)
EXTENDS Integers, FiniteSets, Sequences

CONSTANTS
    MaxQueueSize,      \* maxQueueSize of the stream's queue
    BufferSize,        \* bufferSize of the collector's queue
    HighWaterMark,     \* lines a connection buffers before it answers false
    MaxHeld,           \* bound: lines told apart in a connection's buffer
    MaxFailures        \* bound: connections that fail

ASSUME TransportsAssumption ==
    /\ MaxQueueSize \in Nat /\ BufferSize \in Nat \ {0} /\ MaxFailures \in Nat
    /\ HighWaterMark \in Nat \ {0, 1} /\ MaxHeld \in Nat /\ MaxHeld > HighWaterMark

\* Each failure can leave the transport without a connection twice.
ConnIds == 1 .. (2 * MaxFailures + 1)

-------------------------------------------------------------------------------
(* stdout-transport.ts.  A write answers "more", "full" or throws.         *)

stdoutInit == [queue |-> <<>>, waitingForDrain |-> FALSE, drainListener |-> FALSE,
               out |-> <<>>, threw |-> FALSE]

\* Lines joined to those taken before; a line repeated at once is told once.
Joined(taken, lines) ==
    IF taken # <<>> /\ lines # <<>> /\ taken[Len(taken)] = lines[1]
    THEN taken \o Tail(lines) ELSE taken \o lines

attachDrainListener(s) == [s EXCEPT !.waitingForDrain = TRUE, !.drainListener = TRUE]

\* history: out is what the stream took, threw whether it ever refused.
writePayloadToStream(s, line, answer) ==
    LET taken == [s EXCEPT !.out = Joined(@, <<line>>)]
    IN  CASE answer = "throw" -> [s EXCEPT !.threw = TRUE]
          [] answer = "full"  -> attachDrainListener(taken)
          [] answer = "more"  -> taken

\* Queued while the stream is full, refused when the queue is full too.
stdoutPublish(s, line, answer) ==
    IF s.waitingForDrain
    THEN IF Len(s.queue) >= MaxQueueSize THEN [result |-> "backpressure", state |-> s]
         ELSE [result |-> "ok", state |-> [s EXCEPT !.queue = Append(@, line)]]
    ELSE [result |-> IF answer = "throw" THEN "error" ELSE "ok",
          state  |-> writePayloadToStream(s, line, answer)]

\* Seeded fault: after a drain nothing waits, even when the stream is full again.
handleDrainReady(s, n, answer) ==
    LET written == [s EXCEPT !.out = Joined(@, SubSeq(s.queue, 1, n)),
                             !.queue = SubSeq(@, n + 1, Len(@)), !.drainListener = FALSE]
    IN  IF n = Len(s.queue) \/ answer = "throw" THEN [written EXCEPT !.waitingForDrain = FALSE]
        ELSE [writePayloadToStream(written, s.queue[n + 1], answer)
                EXCEPT !.waitingForDrain = FALSE]

\* flush() when the stream has drained: n lines are written and leave the queue; the
\* next one, if any, is answered with full or throws and stays at the head, so that
\* it is written again.  After a throw the next publish() does not wait for the queue.
handleDrain(s, n, answer) ==
    LET written == [s EXCEPT !.out = Joined(@, SubSeq(s.queue, 1, n)),
                             !.queue = SubSeq(@, n + 1, Len(@)), !.drainListener = FALSE]
    IN  IF n = Len(s.queue) THEN [written EXCEPT !.waitingForDrain = FALSE]
        ELSE IF answer = "throw"
        THEN [written EXCEPT !.waitingForDrain = FALSE, !.threw = TRUE]
        ELSE writePayloadToStream(written, s.queue[n + 1], answer)

-------------------------------------------------------------------------------
(* syslog-transport.ts.  A connection is new, connecting, open, destroyed  *)
(* (its events still to come), errored (its close still to come) or closed.*)

NewConn == [st |-> "new", buf |-> <<>>, needDrain |-> FALSE]

ClosedConn == [NewConn EXCEPT !.st = "closed"]

\* ensureConnection() and bindSocket(): no second connection while one is held or
\* being made.
ensureConnection(s) ==
    LET fresh == CHOOSE c \in ConnIds :
                    /\ s.conns[c].st = "new"
                    /\ \A d \in ConnIds : s.conns[d].st = "new" => c <= d
    IN  IF s.current # 0 \/ s.connecting THEN s
        ELSE [s EXCEPT !.connecting = TRUE, !.current = fresh,
                       !.conns[fresh].st = "connecting"]

\* The lines a connection takes before it answers false, or all there are.
Taking(conn, queue) ==
    LET room == HighWaterMark - 1 - Len(conn.buf)
    IN  IF conn.st \notin {"connecting", "open"} \/ room <= 0 THEN 0
        ELSE IF room < Len(queue) THEN room ELSE Len(queue)

\* Seeded fault: a line leaves the queue before the answer to its write is known.
flushQueueShift(s) ==
    IF s.current = 0 THEN ensureConnection(s)
    ELSE LET conn  == s.conns[s.current]
             alive == conn.st \in {"connecting", "open"}
             n     == Taking(conn, s.queue)
             upTo  == IF n < Len(s.queue) THEN n + 1 ELSE n
             lines == IF alive THEN SubSeq(s.queue, 1, upTo) ELSE <<>>
         IN  [s EXCEPT !.queue = SubSeq(@, upTo + 1, Len(@)),
                       !.sent = Joined(@, lines),
                       !.conns[s.current] =
                           [conn EXCEPT !.buf = @ \o lines,
                                        !.needDrain = @ \/ (alive /\ upTo > n)]]

\* The lines answered with true leave the queue.  The next one is written as well, is
\* answered with false and stays: it is written again at every later flush.  A
\* destroyed connection takes nothing and answers false.
\* history: sent is what connections took, a line repeated at once told once.
flushQueue(s) ==
    IF s.current = 0 THEN ensureConnection(s)
    ELSE LET conn  == s.conns[s.current]
             alive == conn.st \in {"connecting", "open"}
             n     == Taking(conn, s.queue)
             upTo  == IF n < Len(s.queue) THEN n + 1 ELSE n
             lines == IF alive THEN SubSeq(s.queue, 1, upTo) ELSE <<>>
             held  == conn.buf \o lines
         IN  [s EXCEPT !.queue = SubSeq(@, n + 1, Len(@)),
                       !.sent = Joined(@, lines),
                       !.conns[s.current] =
                           [conn EXCEPT !.buf = IF Len(held) > MaxHeld THEN SubSeq(held, 1, MaxHeld)
                                                ELSE held,
                                        !.needDrain = @ \/ (alive /\ upTo > n)]]

scheduleFlush(s) == [s EXCEPT !.flushTimer = TRUE]

scheduleReconnect(s) == [s EXCEPT !.reconnectTimer = TRUE]

syslogInit ==
    ensureConnection([queue |-> <<>>, current |-> 0, connecting |-> FALSE,
                      flushTimer |-> FALSE, reconnectTimer |-> FALSE,
                      conns |-> [c \in ConnIds |-> NewConn], sent |-> <<>>])

syslogPublish(s, line) ==
    LET queued  == ensureConnection([s EXCEPT !.queue = Append(@, line)])
        flushed == flushQueue(queued)
    IN  IF Len(s.queue) >= BufferSize THEN [result |-> "backpressure", state |-> s]
        ELSE [result |-> "ok",
              state  |-> IF flushed.queue # <<>> THEN scheduleFlush(flushed) ELSE flushed]

\* A connection that is no longer the current one is left as it is, open.
handleConnected(s, c) ==
    IF s.current # c THEN s ELSE flushQueue([s EXCEPT !.connecting = FALSE])

handleSocketError(s) == scheduleReconnect([s EXCEPT !.connecting = FALSE, !.current = 0])

\* Seeded fault: the close of a connection that was being made is not its end.
handleSocketCloseConnecting(s) == scheduleReconnect([s EXCEPT !.current = 0])

\* Whichever connection closed: the one held now is let go of.
handleSocketClose(s) == scheduleReconnect([s EXCEPT !.connecting = FALSE, !.current = 0])

\* The reconnect timer.  Only how long it takes doubles, up to 30 s.
reconnectNow(s) == ensureConnection([s EXCEPT !.reconnectTimer = FALSE])

\* One tick of the flush timer: it ends when it finds nothing to do.
flushTick(s) == IF s.queue = <<>> THEN [s EXCEPT !.flushTimer = FALSE] ELSE flushQueue(s)
=============================================================================
