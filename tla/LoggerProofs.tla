----------------------------- MODULE LoggerProofs -----------------------------
(***************************************************************************)
(* Proofs about StructuredLogger: what becomes of the lines, for every     *)
(* size of the queues, every number of failing connections and every       *)
(* answer of the stream, and how many pass the limits, for every rule and  *)
(* every course of the clock.                                              *)
(***************************************************************************)
EXTENDS StructuredLogger, SequenceTheorems, FiniteSetTheorems, TLAPS

-----------------------------------------------------------------------------
(***************************************************************************)
(* What both transports keep: a line that was taken is written, or waits,  *)
(* or is the one line that was written and waits all the same.             *)
(***************************************************************************)
Ascending(s) == \A i, j \in 1 .. Len(s) : i < j => s[i] < s[j]

\* The lines out are the first ones of taken and the queue is the rest, but for d lines
\* that are in both.
SplitBy(d, out, queue, taken) ==
    /\ Len(taken) = Len(out) + Len(queue) - d
    /\ d = 1 => Len(out) > 0 /\ Len(queue) > 0
    /\ \A i \in 1 .. Len(out) : taken[i] = out[i]
    /\ \A j \in 1 .. Len(queue) : queue[j] = taken[Len(out) - d + j]

Split(out, queue, taken) == \E d \in {0, 1} : SplitBy(d, out, queue, taken)

\* Joined() leaves out the first line of what it adds if that was the last one before.
LEMMA JoinedLines ==
    ASSUME NEW o \in Seq(Nat), NEW q \in Seq(Nat)
    PROVE  /\ Joined(o, q) \in Seq(Nat)
           /\ q = <<>> => Joined(o, q) = o
           /\ \E d \in {0, 1} :
                /\ d = 1 <=> (Len(o) > 0 /\ Len(q) > 0 /\ o[Len(o)] = q[1])
                /\ Len(Joined(o, q)) = Len(o) + Len(q) - d
                /\ \A i \in 1 .. Len(o) : Joined(o, q)[i] = o[i]
                /\ \A i \in Len(o) + 1 .. Len(o) + Len(q) - d : Joined(o, q)[i] = q[i - Len(o) + d]
  <1>0. Len(o) \in Nat /\ Len(q) \in Nat
    OBVIOUS
  <1>1. CASE o # <<>> /\ q # <<>> /\ o[Len(o)] = q[1]
    <2> DEFINE a == Len(o)
               b == Len(q)
    <2>1. Joined(o, q) = o \o Tail(q)
      BY <1>1 DEF Joined
    <2>2. /\ Tail(q) \in Seq(Nat) /\ Len(Tail(q)) = Len(q) - 1
          /\ \A i \in 1 .. Len(q) - 1 : Tail(q)[i] = q[i + 1]
      BY <1>1, HeadTailProperties
    <2>3. /\ Joined(o, q) \in Seq(Nat) /\ Len(Joined(o, q)) = a + b - 1
          /\ \A i \in 1 .. a + b - 1 :
                Joined(o, q)[i] = IF i <= a THEN o[i] ELSE Tail(q)[i - a]
      BY <1>0, <2>1, <2>2, ConcatProperties
    <2>4. a \in Nat /\ b \in Nat \ {0}
      BY <1>0, <1>1, EmptySeq
    <2>5. \A i \in 1 .. b - 1 : Tail(q)[i] = q[i + 1]
      BY <2>2
    <2> DEFINE w == Joined(o, q)
               r == Tail(q)
    <2> HIDE DEF a, b, w, r
    <2>6. \A i \in a + 1 .. a + b - 1 : w[i] = q[i - a + 1]
      <3> TAKE i \in a + 1 .. a + b - 1
      <3>1. i - a \in 1 .. b - 1 /\ i \in 1 .. a + b - 1 /\ ~(i <= a)
        BY <2>4
      <3> QED BY <2>3, <2>5, <3>1 DEF w, r
    <2>7. \A i \in 1 .. a : w[i] = o[i]
      BY <2>3, <2>4 DEF w
    <2>8. q # <<>> /\ Len(o) > 0 /\ Len(q) > 0
      BY <1>1, EmptySeq
    <2> QED BY <1>1, <2>3, <2>6, <2>7, <2>8 DEF a, b, w
  <1>2. CASE ~(o # <<>> /\ q # <<>> /\ o[Len(o)] = q[1])
    <2>1. Joined(o, q) = o \o q
      BY <1>2 DEF Joined
    <2>2. /\ Joined(o, q) \in Seq(Nat) /\ Len(Joined(o, q)) = Len(o) + Len(q)
          /\ \A i \in 1 .. Len(o) + Len(q) :
                Joined(o, q)[i] = IF i <= Len(o) THEN o[i] ELSE q[i - Len(o)]
      BY <2>1, ConcatProperties
    <2>3. \A i \in Len(o) + 1 .. Len(o) + Len(q) - 0 : Joined(o, q)[i] = q[i - Len(o) + 0]
      BY <2>2
    <2>4. \A i \in 1 .. Len(o) : Joined(o, q)[i] = o[i]
      BY <2>2
    <2>5. q = <<>> => Joined(o, q) = o
      BY <2>1, ConcatEmptySeq
    <2>6. ~(Len(o) > 0 /\ Len(q) > 0 /\ o[Len(o)] = q[1])
      BY <1>2, EmptySeq
    <2> QED BY <2>2, <2>3, <2>4, <2>5, <2>6
  <1> QED BY <1>1, <1>2

\* A split of ascending lines is what Joined() undoes.
LEMMA SplitIsJoined ==
    ASSUME NEW o \in Seq(Nat), NEW q \in Seq(Nat), NEW t \in Seq(Nat), Ascending(t), Split(o, q, t)
    PROVE  Joined(o, q) = t
  <1> DEFINE a == Len(o)
             b == Len(q)
             c == Len(t)
             w == Joined(o, q)
  <1>1. PICK d \in {0, 1} :
            /\ c = a + b - d /\ (d = 1 => a > 0 /\ b > 0)
            /\ \A i \in 1 .. a : t[i] = o[i]
            /\ \A j \in 1 .. b : q[j] = t[a - d + j]
    BY DEF Split, SplitBy
  <1>2. PICK e \in {0, 1} :
            /\ e = 1 <=> (a > 0 /\ b > 0 /\ o[a] = q[1])
            /\ Len(w) = a + b - e
            /\ \A i \in 1 .. a : w[i] = o[i]
            /\ \A i \in a + 1 .. a + b - e : w[i] = q[i - a + e]
    BY JoinedLines
  <1>3. a \in Nat /\ b \in Nat /\ c \in Nat /\ w \in Seq(Nat)
    <2>1. w \in Seq(Nat)
      BY JoinedLines
    <2> QED BY <2>1
  <1>4. /\ \A i, j \in 1 .. c : i < j => t[i] < t[j]
        /\ \A i \in 1 .. c : t[i] \in Nat
    BY ElementOfSeq DEF Ascending
  <1>5. Len(w) = c /\ (\A i \in 1 .. c : w[i] = t[i]) => w = t
    BY <1>3, SeqEqual
  <1> HIDE DEF a, b, c, w
  <1>6. e = d
    <2>1. CASE d = 1
      <3>1. a \in 1 .. a /\ 1 \in 1 .. b /\ a - d + 1 = a
        BY <1>1, <1>3, <2>1
      <3>2. o[a] = t[a] /\ q[1] = t[a - d + 1]
        BY <1>1, <3>1
      <3> QED BY <1>1, <1>2, <2>1, <3>1, <3>2
    <2>2. CASE d = 0
      <3> SUFFICES ASSUME a > 0, b > 0, o[a] = q[1] PROVE FALSE
        BY <1>2, <2>2
      <3>1. /\ a \in 1 .. a /\ 1 \in 1 .. b /\ a - d + 1 = a + 1
            /\ a \in 1 .. c /\ a + 1 \in 1 .. c /\ a < a + 1
        BY <1>1, <1>3, <2>2
      <3>2. o[a] = t[a] /\ q[1] = t[a - d + 1]
        BY <1>1, <3>1
      <3>3. t[a] = t[a + 1]
        BY <3>1, <3>2
      <3>4. t[a] < t[a + 1] /\ t[a] \in Nat
        BY <1>4, <3>1
      <3> QED BY <3>3, <3>4
    <2> QED BY <2>1, <2>2
  <1>7. \A i \in 1 .. c : w[i] = t[i]
    <2> TAKE i \in 1 .. c
    <2>1. CASE i <= a
      BY <1>1, <1>2, <1>3, <2>1
    <2>2. CASE i > a
      <3>1. i \in a + 1 .. a + b - d /\ i - a + d \in 1 .. b /\ a - d + (i - a + d) = i
        BY <1>1, <1>3, <2>2
      <3>2. q[i - a + d] = t[a - d + (i - a + d)]
        BY <1>1, <3>1
      <3> QED BY <1>2, <1>6, <3>1, <3>2
    <2> QED BY <1>3, <2>1, <2>2
  <1>8. Len(w) = c
    BY <1>1, <1>2, <1>6
  <1> QED BY <1>5, <1>7, <1>8 DEF w

\* A line that is taken waits in the queue.
LEMMA SplitAppend ==
    ASSUME NEW o \in Seq(Nat), NEW q \in Seq(Nat), NEW t \in Seq(Nat), NEW x \in Nat, Split(o, q, t)
    PROVE  Split(o, Append(q, x), Append(t, x))
  <1> DEFINE a == Len(o)
             b == Len(q)
             c == Len(t)
             qx == Append(q, x)
             tx == Append(t, x)
  <1>1. PICK d \in {0, 1} :
            /\ c = a + b - d /\ (d = 1 => a > 0 /\ b > 0)
            /\ \A i \in 1 .. a : t[i] = o[i]
            /\ \A j \in 1 .. b : q[j] = t[a - d + j]
    BY DEF Split, SplitBy
  <1>2. /\ Len(qx) = b + 1 /\ qx[b + 1] = x /\ \A i \in 1 .. b : qx[i] = q[i]
        /\ Len(tx) = c + 1 /\ tx[c + 1] = x /\ \A i \in 1 .. c : tx[i] = t[i]
    BY AppendProperties
  <1>3. a \in Nat /\ b \in Nat /\ c \in Nat
    OBVIOUS
  <1>4. (/\ Len(tx) = a + Len(qx) - d /\ (d = 1 => a > 0 /\ Len(qx) > 0)
         /\ \A i \in 1 .. a : tx[i] = o[i]
         /\ \A j \in 1 .. Len(qx) : qx[j] = tx[a - d + j]) => Split(o, qx, tx)
    BY DEF Split, SplitBy
  <1> HIDE DEF a, b, c, qx, tx
  <1>5. \A i \in 1 .. a : tx[i] = o[i]
    BY <1>1, <1>2, <1>3
  <1>6. \A j \in 1 .. b + 1 : qx[j] = tx[a - d + j]
    <2> TAKE j \in 1 .. b + 1
    <2>1. CASE j \in 1 .. b
      <3>1. a - d + j \in 1 .. c
        BY <1>1, <1>3, <2>1
      <3> QED BY <1>1, <1>2, <2>1, <3>1
    <2>2. CASE j = b + 1
      <3>1. a - d + j = c + 1
        BY <1>1, <1>3, <2>2
      <3> QED BY <1>2, <2>2, <3>1
    <2> QED BY <1>3, <2>1, <2>2
  <1>7. Len(tx) = a + Len(qx) - d /\ (d = 1 => a > 0 /\ Len(qx) > 0)
    BY <1>1, <1>2, <1>3
  <1>8. Split(o, qx, tx)
    BY <1>2, <1>4, <1>5, <1>6, <1>7
  <1> QED BY <1>8 DEF qx, tx

\* The first m lines of the queue are written, and all of them but possibly the last one
\* leave it.
LEMMA SplitTake ==
    ASSUME NEW o \in Seq(Nat), NEW q \in Seq(Nat), NEW t \in Seq(Nat), Split(o, q, t), Ascending(t),
           NEW m \in 0 .. Len(q), NEW n \in 0 .. m, m <= n + 1
    PROVE  /\ SubSeq(q, 1, m) \in Seq(Nat) /\ SubSeq(q, n + 1, Len(q)) \in Seq(Nat)
           /\ Joined(o, SubSeq(q, 1, m)) \in Seq(Nat)
           /\ Split(Joined(o, SubSeq(q, 1, m)), SubSeq(q, n + 1, Len(q)), t)
  <1> DEFINE a == Len(o)
             b == Len(q)
             c == Len(t)
             p == SubSeq(q, 1, m)
             r == SubSeq(q, n + 1, Len(q))
             w == Joined(o, p)
  <1>1. PICK d \in {0, 1} :
            /\ c = a + b - d /\ (d = 1 => a > 0 /\ b > 0)
            /\ \A i \in 1 .. a : t[i] = o[i]
            /\ \A j \in 1 .. b : q[j] = t[a - d + j]
    BY DEF Split, SplitBy
  <1>2. a \in Nat /\ b \in Nat /\ c \in Nat /\ m \in 0 .. b /\ n \in 0 .. m /\ m <= n + 1
    OBVIOUS
  <1>3. p \in Seq(Nat) /\ Len(p) = m /\ \A i \in 1 .. m : p[i] = q[i]
    <2>1. \A i \in 1 .. m : q[i] \in Nat
      BY ElementOfSeq
    <2>2. /\ p \in Seq(Nat) /\ Len(p) = IF 1 <= m THEN m - 1 + 1 ELSE 0
          /\ \A i \in 1 .. m - 1 + 1 : p[i] = q[1 + i - 1]
      BY <2>1, SubSeqProperties
    <2> HIDE DEF p
    <2> QED BY <2>2
  <1>4. r \in Seq(Nat) /\ Len(r) = b - n /\ \A i \in 1 .. b - n : r[i] = q[n + i]
    <2>1. \A i \in n + 1 .. b : q[i] \in Nat
      BY ElementOfSeq
    <2>2. /\ r \in Seq(Nat) /\ Len(r) = IF n + 1 <= b THEN b - (n + 1) + 1 ELSE 0
          /\ \A i \in 1 .. b - (n + 1) + 1 : r[i] = q[(n + 1) + i - 1]
      BY <2>1, SubSeqProperties
    <2> HIDE DEF r, b
    <2>3. Len(r) = b - n
      BY <1>2, <2>2
    <2>4. \A i \in 1 .. b - n : r[i] = q[n + i]
      <3> TAKE i \in 1 .. b - n
      <3>1. i \in 1 .. b - (n + 1) + 1 /\ (n + 1) + i - 1 = n + i
        BY <1>2
      <3> QED BY <2>2, <3>1
    <2> QED BY <2>2, <2>3, <2>4
  <1>5. \A i \in 1 .. c : t[i] \in Nat
    BY ElementOfSeq
  <1>6. \A i, j \in 1 .. c : i < j => t[i] < t[j]
    BY DEF Ascending
  <1>7. PICK e \in {0, 1} :
            /\ e = 1 <=> (a > 0 /\ m > 0 /\ o[a] = p[1])
            /\ Len(w) = a + m - e
            /\ \A i \in 1 .. a : w[i] = o[i]
            /\ \A i \in a + 1 .. a + m - e : w[i] = p[i - a + e]
    <2> HIDE DEF p
    <2>1. PICK e \in {0, 1} :
            /\ e = 1 <=> (Len(o) > 0 /\ Len(p) > 0 /\ o[Len(o)] = p[1])
            /\ Len(Joined(o, p)) = Len(o) + Len(p) - e
            /\ \A i \in 1 .. Len(o) : Joined(o, p)[i] = o[i]
            /\ \A i \in Len(o) + 1 .. Len(o) + Len(p) - e : Joined(o, p)[i] = p[i - Len(o) + e]
      BY <1>3, JoinedLines
    <2> HIDE DEF w, a
    <2>2. w = Joined(o, p) /\ a = Len(o) /\ Len(p) = m
      BY <1>3 DEF w, a
    <2> WITNESS e \in {0, 1}
    <2> QED BY <2>1, <2>2
  <1>8. w \in Seq(Nat)
    <2> HIDE DEF p
    <2> QED BY <1>3, JoinedLines
  <1>9. \A f \in {0, 1} :
            /\ c = Len(w) + Len(r) - f /\ (f = 1 => Len(w) > 0 /\ Len(r) > 0)
            /\ \A i \in 1 .. Len(w) : t[i] = w[i]
            /\ \A j \in 1 .. Len(r) : r[j] = t[Len(w) - f + j]
            => Split(w, r, t)
    <2> HIDE DEF w, r
    <2> QED BY DEF Split, SplitBy
  <1> HIDE DEF a, b, c, p, r, w
  <1>10. \A i \in 1 .. m : p[i] = t[a - d + i]
    <2> TAKE i \in 1 .. m
    <2>1. i \in 1 .. b
      BY <1>2
    <2> QED BY <1>1, <1>3, <2>1
  \* What is written follows what was, or repeats its last line when the queue does.
  <1>11. m > 0 => e = d
    <2> SUFFICES ASSUME m > 0 PROVE e = d
      OBVIOUS
    <2>1. CASE d = 1
      <3>1. a \in 1 .. a /\ 1 \in 1 .. m /\ a - d + 1 = a
        BY <1>1, <1>2, <2>1
      <3>2. o[a] = t[a] /\ p[1] = t[a - d + 1]
        BY <1>1, <1>10, <3>1
      <3> QED BY <1>1, <1>7, <2>1, <3>1, <3>2
    <2>2. CASE d = 0
      <3> SUFFICES ASSUME a > 0, o[a] = p[1] PROVE FALSE
        BY <1>7, <2>2
      <3>0. a \in Nat /\ m \in Nat /\ b \in Nat /\ m <= b /\ c = a + b
        BY <1>1, <1>2, <2>2
      <3>1. /\ a \in 1 .. a /\ 1 \in 1 .. m /\ a - d + 1 = a + 1
            /\ a \in 1 .. c /\ a + 1 \in 1 .. c /\ a < a + 1
        BY <2>2, <3>0
      <3>2. o[a] = t[a] /\ p[1] = t[a - d + 1]
        BY <1>1, <1>10, <3>1
      <3>3. t[a] = t[a + 1]
        BY <3>1, <3>2
      <3>4. t[a] < t[a + 1] /\ t[a] \in Nat
        BY <1>5, <1>6, <3>1
      <3> QED BY <3>3, <3>4
    <2> QED BY <2>1, <2>2
  \* With nothing written the split is the one before.
  <1> DEFINE f == IF m = 0 THEN d ELSE m - n
  <1>12. f \in {0, 1} /\ Len(w) - f = a - d + n
    BY <1>2, <1>7, <1>11
  <1>13. c = Len(w) + Len(r) - f /\ (f = 1 => Len(w) > 0 /\ Len(r) > 0)
    <2>1. CASE m = 0
      BY <1>1, <1>2, <1>4, <1>7, <1>12, <2>1
    <2>2. CASE m > 0
      BY <1>1, <1>2, <1>4, <1>7, <1>11, <1>12, <2>2
    <2> QED BY <1>2, <2>1, <2>2
  <1>14. \A i \in 1 .. Len(w) : t[i] = w[i]
    <2> TAKE i \in 1 .. Len(w)
    <2>1. CASE i <= a
      BY <1>1, <1>2, <1>7, <2>1
    <2>2. CASE i > a
      <3>1. m > 0 /\ e = d
        BY <1>2, <1>7, <1>11, <2>2
      <3>2. /\ i \in a + 1 .. a + m - d /\ i - a + d \in 1 .. m
            /\ a - d + (i - a + d) = i
        BY <1>2, <1>7, <2>2, <3>1
      <3> QED BY <1>7, <1>10, <3>1, <3>2
    <2> QED BY <1>2, <1>7, <2>1, <2>2
  <1>15. \A j \in 1 .. Len(r) : r[j] = t[Len(w) - f + j]
    <2> TAKE j \in 1 .. Len(r)
    <2>1. r[j] = q[n + j] /\ n + j \in 1 .. b
      BY <1>2, <1>4
    <2>2. q[n + j] = t[a - d + (n + j)]
      BY <1>1, <2>1
    <2>3. a - d + (n + j) = (a - d + n) + j
      BY <1>2, <1>4
    <2> HIDE DEF f
    <2> QED BY <1>12, <2>1, <2>2, <2>3
  <1>16. Split(w, r, t)
    <2> HIDE DEF f
    <2> QED BY <1>9, <1>12, <1>13, <1>14, <1>15
  <1> QED BY <1>3, <1>4, <1>8, <1>16 DEF p, r, w, b

-----------------------------------------------------------------------------
(***************************************************************************)
(* The inductive invariant.                                                *)
(***************************************************************************)
USE TransportsAssumption

Stdouts ==
    [queue : Seq(Nat), waitingForDrain : BOOLEAN, drainListener : BOOLEAN, out : Seq(Nat),
     threw : BOOLEAN]

Connections ==
    [st : {"new", "connecting", "open", "destroyed", "ended", "errored", "closed"},
     buf : Seq(Nat), needDrain : BOOLEAN]

Syslogs ==
    [queue : Seq(Nat), current : ConnIds \cup {0}, connecting : BOOLEAN, flushTimer : BOOLEAN,
     reconnectTimer : BOOLEAN, conns : [ConnIds -> Connections], sent : Seq(Nat)]

Items(s) == {s[i] : i \in 1 .. Len(s)}

\* A transport takes lines in the order in which they passed the limits.
TakenInOrder ==
    /\ accepted \in [stdout : Seq(Nat), syslog : Seq(Nat)]
    /\ allowed \in Seq(Items(allowed))
    /\ Ascending(accepted.stdout) /\ \A i \in 1 .. Len(accepted.stdout) : accepted.stdout[i] <= Len(allowed)
    /\ Ascending(accepted.syslog) /\ \A i \in 1 .. Len(accepted.syslog) : accepted.syslog[i] <= Len(allowed)

\* As long as the stream has not thrown, nothing is queued unless a drain is awaited.
StdoutKeeps(s, taken) ==
    ~s.threw => Split(s.out, s.queue, taken) /\ (~s.waitingForDrain => s.queue = <<>>)

InState(s, states) == {c \in ConnIds : s.conns[c].st \in states}

Used   == {"connecting", "open", "destroyed", "ended", "errored", "closed"}
Failed == {"destroyed", "ended", "errored", "closed"}

\* Connections are made in order, and a new one only after the one before was let go of,
\* at most twice, by its error and by its close: they never run out.
ConnectionsLeft(s, failed) ==
    /\ Cardinality(InState(s, Failed)) = failed /\ failed <= MaxFailures
    /\ \E made \in Nat :
         /\ InState(s, Used) = 1 .. made
         /\ made + (IF s.current = 0 THEN 1 ELSE 0)
              <= 1 + Cardinality(InState(s, {"errored", "closed"})) + Cardinality(InState(s, {"closed"}))

SyslogKeeps(s, taken) == s \in Syslogs /\ Split(s.sent, s.queue, taken)

LoggerInv ==
    /\ TakenInOrder
    /\ stdout \in Stdouts /\ StdoutKeeps(stdout, accepted.stdout)
    /\ SyslogKeeps(syslog, accepted.syslog)
    /\ failures \in Nat /\ ConnectionsLeft(syslog, failures)

-----------------------------------------------------------------------------
(***************************************************************************)
(* stdout-transport.ts.                                                    *)
(***************************************************************************)

LEMMA OneLine ==
    ASSUME NEW x \in Nat
    PROVE  /\ <<x>> \in Seq(Nat) /\ Len(<<x>>) = 1 /\ <<x>> = Append(<<>>, x)
           /\ \A r \in Seq(Nat) : (Len(r) > 0 /\ r[1] = x) => SubSeq(r, 1, 1) = <<x>>
  <1>1. <<x>> \in Seq(Nat) /\ Len(<<x>>) = 1 /\ <<x>>[1] = x /\ <<x>> = Append(<<>>, x)
    OBVIOUS
  <1>2. ASSUME NEW r \in Seq(Nat), Len(r) > 0, r[1] = x PROVE SubSeq(r, 1, 1) = <<x>>
    <2> DEFINE p == SubSeq(r, 1, 1)
    <2>1. \A i \in 1 .. 1 : r[i] \in Nat
      BY <1>2
    <2>2. /\ p \in Seq(Nat) /\ Len(p) = (IF 1 <= 1 THEN 1 - 1 + 1 ELSE 0)
          /\ \A i \in 1 .. 1 - 1 + 1 : p[i] = r[1 + i - 1]
      BY <2>1, SubSeqProperties
    <2> HIDE DEF p
    <2>3. Len(p) = 1 /\ p[1] = r[1]
      BY <2>2
    <2>4. \A i \in 1 .. Len(p) : p[i] = <<x>>[i]
      BY <1>1, <1>2, <2>3
    <2>5. p = <<x>>
      BY <1>1, <2>2, <2>3, <2>4, SeqEqual
    <2> QED BY <2>5 DEF p
  <1> QED BY <1>1, <1>2

\* A line that is written at once.
LEMMA SplitWrite ==
    ASSUME NEW o \in Seq(Nat), NEW t \in Seq(Nat), NEW x \in Nat, Split(o, <<>>, t),
           Ascending(Append(t, x))
    PROVE  Joined(o, <<x>>) \in Seq(Nat) /\ Split(Joined(o, <<x>>), <<>>, Append(t, x))
  <1> DEFINE q == Append(<<>>, x)
  <1>1. q = <<x>> /\ q \in Seq(Nat) /\ Len(q) = 1 /\ q[1] = x
    OBVIOUS
  <1>2. Append(t, x) \in Seq(Nat) /\ Split(o, q, Append(t, x))
    <2>1. <<>> \in Seq(Nat)
      BY EmptySeq
    <2>2. Split(o, q, Append(t, x))
      BY <2>1, SplitAppend
    <2> QED BY <2>2, AppendProperties
  <1> HIDE DEF q
  <1>3. SubSeq(q, 1, 1) = <<x>> /\ SubSeq(q, 1 + 1, Len(q)) = <<>>
    <2>1. SubSeq(q, 1, 1) = <<x>>
      <3>1. q \in Seq(Nat) /\ Len(q) > 0 /\ q[1] = x
        BY <1>1
      <3> QED BY <3>1, OneLine
    <2>2. 1 + 1 \in Int /\ Len(q) \in Int /\ Len(q) < 1 + 1
      BY <1>1
    <2> QED BY <2>1, <2>2, SubSeqEmpty
  <1>4. /\ Joined(o, SubSeq(q, 1, 1)) \in Seq(Nat)
        /\ Split(Joined(o, SubSeq(q, 1, 1)), SubSeq(q, 1 + 1, Len(q)), Append(t, x))
    <2> DEFINE u == Append(t, x)
    <2>1. u \in Seq(Nat) /\ Ascending(u) /\ Split(o, q, u)
      BY <1>2
    <2>2. 1 \in 0 .. Len(q) /\ 1 \in 0 .. 1 /\ 1 <= 1 + 1
      BY <1>1
    <2> HIDE DEF u
    <2>3. /\ Joined(o, SubSeq(q, 1, 1)) \in Seq(Nat)
          /\ Split(Joined(o, SubSeq(q, 1, 1)), SubSeq(q, 1 + 1, Len(q)), u)
      BY <1>1, <2>1, <2>2, SplitTake
    <2> QED BY <2>3 DEF u
  <1> QED BY <1>3, <1>4

\* publish(): a line it takes is written or queued, one it refuses changes nothing, but
\* for the stream that throws.
LEMMA StdoutPublishes ==
    ASSUME NEW s \in Stdouts, NEW t \in Seq(Nat), NEW x \in Nat, Ascending(t),
           Ascending(Append(t, x)), StdoutKeeps(s, t), NEW answer \in {"more", "full", "throw"}
    PROVE  LET p == stdoutPublish(s, x, answer)
           IN  /\ p.state \in Stdouts
               /\ p.result = "ok" => StdoutKeeps(p.state, Append(t, x))
               /\ p.result # "ok" => StdoutKeeps(p.state, t)
  <1> DEFINE p == stdoutPublish(s, x, answer)
  <1>1. CASE s.waitingForDrain /\ Len(s.queue) >= MaxQueueSize
    BY <1>1 DEF stdoutPublish
  <1>2. CASE s.waitingForDrain /\ ~(Len(s.queue) >= MaxQueueSize)
    <2>1. p = [result |-> "ok", state |-> [s EXCEPT !.queue = Append(s.queue, x)]]
      BY <1>2 DEF stdoutPublish
    <2>2. Append(s.queue, x) \in Seq(Nat) /\ s.queue \in Seq(Nat) /\ s.out \in Seq(Nat)
      BY AppendProperties DEF Stdouts
    <2> DEFINE n == p.state
               qx == Append(s.queue, x)
    <2> HIDE DEF p, qx
    <2>3. n = [s EXCEPT !.queue = qx] /\ qx \in Seq(Nat)
      BY <2>1, <2>2 DEF qx
    <2>4. n \in Stdouts
      BY <2>3 DEF Stdouts
    <2>5. /\ n.queue = Append(s.queue, x) /\ n.out = s.out /\ n.threw = s.threw
          /\ n.waitingForDrain
      BY <1>2, <2>3 DEF Stdouts, qx
    <2>6. p.result = "ok"
      BY <2>1
    <2>7. ~s.threw => Split(s.out, Append(s.queue, x), Append(t, x))
      BY <2>2, SplitAppend DEF StdoutKeeps
    <2> QED BY <2>4, <2>5, <2>6, <2>7 DEF p, StdoutKeeps
  <1>3. CASE ~s.waitingForDrain /\ answer = "throw"
    <2>1. p = [result |-> "error", state |-> [s EXCEPT !.threw = TRUE]]
      BY <1>3 DEF stdoutPublish, writePayloadToStream
    <2> HIDE DEF p
    <2>2. p.state = [s EXCEPT !.threw = TRUE] /\ p.result # "ok"
      BY <2>1
    <2>3. p.state \in Stdouts /\ p.state.threw
      BY <2>2 DEF Stdouts
    <2> QED BY <2>2, <2>3 DEF p, StdoutKeeps
  <1>4. CASE ~s.waitingForDrain /\ answer # "throw"
    <2> DEFINE w == Joined(s.out, <<x>>)
               n == p.state
    <2>1. /\ p.result = "ok"
          /\ \/ n = [s EXCEPT !.out = w]
             \/ n = [[s EXCEPT !.out = w] EXCEPT !.waitingForDrain = TRUE, !.drainListener = TRUE]
      BY <1>4 DEF stdoutPublish, writePayloadToStream, attachDrainListener
    <2>2. w \in Seq(Nat)
      <3>1. s.out \in Seq(Nat) /\ <<x>> \in Seq(Nat)
        BY DEF Stdouts
      <3> QED BY <3>1, JoinedLines
    <2> HIDE DEF w, p
    <2>3. [s EXCEPT !.out = w] \in Stdouts
      BY <2>2 DEF Stdouts
    <2>4. n \in Stdouts
      BY <2>1, <2>3 DEF Stdouts
    <2>5. n.out = w /\ n.queue = s.queue /\ n.threw = s.threw
      BY <2>1 DEF Stdouts
    <2>6. ~s.threw => s.queue = <<>> /\ Split(w, <<>>, Append(t, x))
      <3>1. s.out \in Seq(Nat)
        BY DEF Stdouts
      <3> QED BY <1>4, <3>1, SplitWrite DEF StdoutKeeps, w
    <2> QED BY <2>1, <2>4, <2>5, <2>6 DEF p, StdoutKeeps
  <1> QED BY <1>1, <1>2, <1>3, <1>4

\* flush() after a drain.
LEMMA StdoutDrains ==
    ASSUME NEW s \in Stdouts, NEW t \in Seq(Nat), Ascending(t), StdoutKeeps(s, t),
           NEW n \in 0 .. Len(s.queue), NEW answer \in {"more", "full", "throw"},
           (n = Len(s.queue)) <=> (answer = "more")
    PROVE  handleDrain(s, n, answer) \in Stdouts /\ StdoutKeeps(handleDrain(s, n, answer), t)
  <1> DEFINE b == Len(s.queue)
             w == Joined(s.out, SubSeq(s.queue, 1, n))
             r == SubSeq(s.queue, n + 1, b)
             written == [s EXCEPT !.out = w, !.queue = r, !.drainListener = FALSE]
             h == handleDrain(s, n, answer)
  <1>1. s.out \in Seq(Nat) /\ s.queue \in Seq(Nat) /\ b \in Nat
    BY DEF Stdouts
  <1>2. w \in Seq(Nat) /\ r \in Seq(Nat) /\ Len(r) = b - n
    <2>1. \A i \in 1 .. b : s.queue[i] \in Nat
      BY <1>1, ElementOfSeq
    <2>2. SubSeq(s.queue, 1, n) \in Seq(Nat) /\ r \in Seq(Nat) /\ Len(r) = b - n
      BY <1>1, <2>1, SubSeqProperties
    <2> QED BY <1>1, <2>2, JoinedLines
  <1>3. ~s.threw => Split(w, r, t)
    BY <1>1, SplitTake DEF StdoutKeeps
  <1>4. n < b => s.queue[n + 1] \in Nat /\ r[1] = s.queue[n + 1]
    BY <1>1, ElementOfSeq
  <1>5. /\ n = b => h = [written EXCEPT !.waitingForDrain = FALSE]
        /\ (n # b /\ answer = "throw") => h = [written EXCEPT !.waitingForDrain = FALSE, !.threw = TRUE]
        /\ (n # b /\ answer = "full") =>
              h = [[written EXCEPT !.out = Joined(w, <<s.queue[n + 1]>>)]
                      EXCEPT !.waitingForDrain = TRUE, !.drainListener = TRUE]
    BY DEF handleDrain, writePayloadToStream, attachDrainListener, Stdouts
  <1> HIDE DEF w, r, b, h
  <1>6. /\ written \in Stdouts /\ written.out = w /\ written.queue = r /\ written.threw = s.threw
    BY <1>2 DEF Stdouts
  <1> HIDE DEF written
  <1>7. CASE n = b
    <2>1. h = [written EXCEPT !.waitingForDrain = FALSE]
      BY <1>5, <1>7
    <2>2. h \in Stdouts /\ h.out = w /\ h.queue = r /\ h.threw = s.threw
      BY <1>6, <2>1 DEF Stdouts
    <2>3. r = <<>>
      BY <1>1, <1>2, <1>7, EmptySeq
    <2> QED BY <1>3, <2>2, <2>3 DEF StdoutKeeps, h
  <1>8. CASE n # b /\ answer = "throw"
    <2>1. h = [written EXCEPT !.waitingForDrain = FALSE, !.threw = TRUE]
      BY <1>5, <1>8
    <2> QED BY <1>6, <2>1 DEF Stdouts, StdoutKeeps, h
  <1>9. CASE n # b /\ answer = "full"
    <2> DEFINE x == s.queue[n + 1]
               v == Joined(w, <<x>>)
    <2>1. x \in Nat /\ r[1] = x /\ Len(r) > 0 /\ n < b
      BY <1>1, <1>2, <1>4, <1>9 DEF b
    <2> HIDE DEF x
    <2>2. SubSeq(r, 1, 1) = <<x>> /\ <<x>> \in Seq(Nat)
      BY <1>2, <2>1, OneLine
    <2>3. SubSeq(r, 0 + 1, Len(r)) = r
      BY <1>2, SubSeqFull
    <2>4. 1 \in 0 .. Len(r) /\ 0 \in 0 .. 1 /\ 1 <= 0 + 1
      BY <1>2, <2>1
    <2>5. ~s.threw => Split(v, r, t)
      <3> SUFFICES ASSUME ~s.threw PROVE Split(v, r, t)
        OBVIOUS
      <3>1. Split(Joined(w, SubSeq(r, 1, 1)), SubSeq(r, 0 + 1, Len(r)), t)
        BY <1>2, <1>3, <2>4, SplitTake
      <3> QED BY <2>2, <2>3, <3>1
    <2>6. v \in Seq(Nat)
      BY <1>2, <2>2, JoinedLines
    <2> HIDE DEF v
    <2>7. h = [[written EXCEPT !.out = v] EXCEPT !.waitingForDrain = TRUE, !.drainListener = TRUE]
      BY <1>5, <1>9 DEF v, x
    <2>8. h \in Stdouts /\ h.out = v /\ h.queue = r /\ h.threw = s.threw /\ h.waitingForDrain
      BY <1>6, <2>6, <2>7 DEF Stdouts
    <2> QED BY <2>5, <2>8 DEF StdoutKeeps, h
  <1>10. answer = "more" => n = b
    BY DEF b
  <1> QED BY <1>7, <1>8, <1>9, <1>10

-----------------------------------------------------------------------------
(***************************************************************************)
(* syslog-transport.ts.                                                    *)
(***************************************************************************)
LEMMA StatesFinite ==
    ASSUME NEW s, NEW states
    PROVE  IsFiniteSet(InState(s, states)) /\ Cardinality(InState(s, states)) \in Nat
  <1>1. IsFiniteSet(ConnIds)
    BY FS_Interval DEF ConnIds
  <1> QED BY <1>1, FS_Subset, FS_CardinalityType DEF InState

\* What one connection's change of state does to the counts.
LEMMA MoveConnection ==
    ASSUME NEW s \in Syslogs, NEW u, NEW c \in ConnIds, NEW k \in Connections,
           u.conns = [s.conns EXCEPT ![c] = k], NEW states
    PROVE  Cardinality(InState(u, states)) = Cardinality(InState(s, states))
             + (IF k.st \in states THEN 1 ELSE 0) - (IF s.conns[c].st \in states THEN 1 ELSE 0)
  <1>1. s.conns \in [ConnIds -> Connections]
    BY DEF Syslogs
  <1>2. InState(u, states) = IF k.st \in states THEN InState(s, states) \cup {c}
                             ELSE InState(s, states) \ {c}
    BY <1>1 DEF InState
  <1>3. c \in InState(s, states) <=> s.conns[c].st \in states
    BY DEF InState
  <1>4. IsFiniteSet(InState(s, states)) /\ Cardinality(InState(s, states)) \in Nat
    BY StatesFinite
  <1> DEFINE a == InState(s, states)
  <1>5. /\ Cardinality(a \cup {c}) = IF c \in a THEN Cardinality(a) ELSE Cardinality(a) + 1
        /\ Cardinality(a \ {c}) = IF c \in a THEN Cardinality(a) - 1 ELSE Cardinality(a)
    BY <1>4, FS_AddElement, FS_RemoveElement
  <1> HIDE DEF a
  <1>6. CASE k.st \in states
    <2>1. Cardinality(InState(u, states)) = Cardinality(a \cup {c})
      BY <1>2, <1>6 DEF a
    <2> QED BY <1>3, <1>4, <1>5, <1>6, <2>1 DEF a
  <1>7. CASE k.st \notin states
    <2>1. Cardinality(InState(u, states)) = Cardinality(a \ {c})
      BY <1>2, <1>7 DEF a
    <2> QED BY <1>3, <1>4, <1>5, <1>7, <2>1 DEF a
  <1> QED BY <1>6, <1>7

\* Only the states of the connections and the one that is held are counted.
LEMMA SameStates ==
    ASSUME NEW s, NEW u, u.current = s.current,
           \A c \in ConnIds : u.conns[c].st = s.conns[c].st, NEW f, ConnectionsLeft(s, f)
    PROVE  ConnectionsLeft(u, f)
  <1>1. \A states : InState(u, states) = InState(s, states)
    BY DEF InState
  <1> QED BY <1>1 DEF ConnectionsLeft

\* A transport without a connection always finds a fresh one.
LEMMA FreshConnection ==
    ASSUME NEW s \in Syslogs, NEW f, ConnectionsLeft(s, f), s.current = 0
    PROVE  \E made \in Nat :
             /\ InState(s, Used) = 1 .. made /\ made + 1 \in ConnIds
             /\ s.conns[made + 1].st = "new"
             /\ (CHOOSE c \in ConnIds :
                    /\ s.conns[c].st = "new"
                    /\ \A d \in ConnIds : s.conns[d].st = "new" => c <= d) = made + 1
  <1>1. PICK made \in Nat :
            /\ InState(s, Used) = 1 .. made
            /\ made + 1 <= 1 + Cardinality(InState(s, {"errored", "closed"}))
                             + Cardinality(InState(s, {"closed"}))
    BY DEF ConnectionsLeft
  <1> DEFINE x == Cardinality(InState(s, {"errored", "closed"}))
             y == Cardinality(InState(s, {"closed"}))
             z == Cardinality(InState(s, Failed))
  <1>2. x <= z /\ y <= z
    <2>1. /\ InState(s, {"errored", "closed"}) \in SUBSET InState(s, Failed)
          /\ InState(s, {"closed"}) \in SUBSET InState(s, Failed)
      BY DEF InState, Failed
    <2> QED BY <2>1, StatesFinite, FS_Subset
  <1>3. x \in Nat /\ y \in Nat /\ z \in Nat /\ z <= MaxFailures
    BY StatesFinite DEF ConnectionsLeft
  <1>4. made + 1 <= 1 + x + y
    BY <1>1
  <1> HIDE DEF x, y, z
  <1>5. made <= 2 * MaxFailures
    BY <1>2, <1>3, <1>4
  <1>6. made + 1 \in ConnIds
    BY <1>5 DEF ConnIds
  <1>7. \A c \in ConnIds : c \in Nat /\ (s.conns[c].st = "new" <=> c > made)
    <2> TAKE c \in ConnIds
    <2>1. c \in Nat /\ c >= 1
      BY DEF ConnIds
    <2>2. s.conns[c].st \in Used \cup {"new"}
      BY DEF Syslogs, Connections, Used
    <2>3. c \in InState(s, Used) <=> s.conns[c].st \in Used
      BY DEF InState
    <2>4. "new" \notin Used
      BY DEF Used
    <2> QED BY <1>1, <2>1, <2>2, <2>3, <2>4
  <1> DEFINE Least(c) == /\ s.conns[c].st = "new"
                         /\ \A d \in ConnIds : s.conns[d].st = "new" => c <= d
  <1>8. Least(made + 1)
    BY <1>6, <1>7
  <1>9. \A c \in ConnIds : Least(c) => c = made + 1
    <2> TAKE c \in ConnIds
    <2> HAVE Least(c)
    <2>1. c > made /\ c <= made + 1
      BY <1>6, <1>7
    <2> QED BY <1>7, <2>1
  <1>10. (CHOOSE c \in ConnIds : Least(c)) = made + 1
    <2> HIDE DEF Least
    <2> QED BY <1>6, <1>8, <1>9
  <1> QED BY <1>1, <1>6, <1>8, <1>10

LEMMA EnsureConnects ==
    ASSUME NEW s \in Syslogs, NEW f, ConnectionsLeft(s, f)
    PROVE  /\ ensureConnection(s) \in Syslogs /\ ConnectionsLeft(ensureConnection(s), f)
           /\ ensureConnection(s).queue = s.queue /\ ensureConnection(s).sent = s.sent
  <1>1. CASE s.current # 0 \/ s.connecting
    <2>1. ensureConnection(s) = s
      BY <1>1 DEF ensureConnection
    <2> QED BY <2>1
  <1>2. CASE ~(s.current # 0 \/ s.connecting)
    <2>1. PICK made \in Nat :
             /\ InState(s, Used) = 1 .. made /\ made + 1 \in ConnIds
             /\ s.conns[made + 1].st = "new"
             /\ (CHOOSE c \in ConnIds :
                    /\ s.conns[c].st = "new"
                    /\ \A d \in ConnIds : s.conns[d].st = "new" => c <= d) = made + 1
      BY <1>2, FreshConnection
    <2> DEFINE fresh == made + 1
               k == [s.conns[fresh] EXCEPT !.st = "connecting"]
               conns == [s.conns EXCEPT ![fresh] = k]
               u == ensureConnection(s)
    <2>2. u = [s EXCEPT !.connecting = TRUE, !.current = fresh, !.conns = conns]
      BY <1>2, <2>1 DEF ensureConnection
    <2>3. k \in Connections /\ k.st = "connecting"
      BY <2>1 DEF Syslogs, Connections
    <2> HIDE DEF k, u, fresh
    <2>4. conns \in [ConnIds -> Connections]
      BY <2>3 DEF Syslogs
    <2>5. fresh \in ConnIds /\ fresh # 0
      BY <2>1 DEF fresh, ConnIds
    <2> HIDE DEF conns
    <2>6. u \in Syslogs
      BY <2>2, <2>4, <2>5 DEF Syslogs
    <2>7. u.queue = s.queue /\ u.sent = s.sent /\ u.current = fresh /\ u.conns = conns
      BY <2>2 DEF Syslogs
    <2>8. \A states : Cardinality(InState(u, states)) = Cardinality(InState(s, states))
             + (IF k.st \in states THEN 1 ELSE 0)
             - (IF s.conns[fresh].st \in states THEN 1 ELSE 0)
      BY <2>3, <2>5, <2>7, MoveConnection DEF conns
    <2>9. /\ Cardinality(InState(u, Failed)) = Cardinality(InState(s, Failed))
          /\ Cardinality(InState(u, {"errored", "closed"}))
               = Cardinality(InState(s, {"errored", "closed"}))
          /\ Cardinality(InState(u, {"closed"})) = Cardinality(InState(s, {"closed"}))
      <3>1. s.conns[fresh].st = "new"
        BY <2>1 DEF fresh
      <3>2. ASSUME NEW states \in {Failed, {"errored", "closed"}, {"closed"}}
            PROVE  Cardinality(InState(u, states)) = Cardinality(InState(s, states))
        <4>1. k.st \notin states /\ s.conns[fresh].st \notin states
          BY <2>3, <3>1 DEF Failed
        <4>2. Cardinality(InState(u, states)) = Cardinality(InState(s, states)) + 0 - 0
          BY <2>8, <4>1
        <4> QED BY <4>2, StatesFinite
      <3> QED BY <3>2
    <2>10. InState(u, Used) = 1 .. made + 1
      <3>1. InState(u, Used) = InState(s, Used) \cup {fresh}
        BY <2>3, <2>5, <2>7 DEF InState, Used, conns, Syslogs
      <3> QED BY <2>1, <3>1 DEF fresh
    <2>11. made + 1 <= 1 + Cardinality(InState(s, {"errored", "closed"}))
                         + Cardinality(InState(s, {"closed"}))
      <3>1. PICK m \in Nat :
              /\ InState(s, Used) = 1 .. m
              /\ m + 1 <= 1 + Cardinality(InState(s, {"errored", "closed"}))
                            + Cardinality(InState(s, {"closed"}))
        BY <1>2 DEF ConnectionsLeft
      <3>2. m = made
        <4>1. 1 .. m = 1 .. made
          BY <2>1, <3>1
        <4>2. m = Cardinality(1 .. m) /\ made = Cardinality(1 .. made)
          BY FS_Interval
        <4> QED BY <4>1, <4>2
      <3> QED BY <3>1, <3>2
    <2>12. ConnectionsLeft(u, f)
      <3>1. Cardinality(InState(u, Failed)) = f /\ f <= MaxFailures
        BY <2>9 DEF ConnectionsLeft
      <3>2. made + 1 \in Nat /\ made + 1 + 0 <=
               1 + Cardinality(InState(u, {"errored", "closed"})) + Cardinality(InState(u, {"closed"}))
        BY <2>9, <2>11, StatesFinite
      <3>3. (IF u.current = 0 THEN 1 ELSE 0) = 0
        BY <2>5, <2>7
      <3> QED BY <2>10, <3>1, <3>2, <3>3 DEF ConnectionsLeft
    <2> QED BY <2>6, <2>7, <2>12 DEF u
  <1> QED BY <1>1, <1>2

SyslogOk(s, taken, failed) == SyslogKeeps(s, taken) /\ ConnectionsLeft(s, failed)

LEMMA EnsureKeeps ==
    ASSUME NEW s, NEW t, NEW f, SyslogOk(s, t, f)
    PROVE  SyslogOk(ensureConnection(s), t, f)
  BY EnsureConnects DEF SyslogOk, SyslogKeeps

\* Lines that the connection takes leave the queue, and at most one stays that it took.
LEMMA FlushKeeps ==
    ASSUME NEW s, NEW t \in Seq(Nat), NEW f, SyslogOk(s, t, f), Ascending(t)
    PROVE  SyslogOk(flushQueue(s), t, f)
  <1>0. /\ s \in Syslogs /\ Split(s.sent, s.queue, t) /\ ConnectionsLeft(s, f)
        /\ s.sent \in Seq(Nat) /\ s.queue \in Seq(Nat)
        /\ s.conns \in [ConnIds -> Connections]
    BY DEF SyslogOk, SyslogKeeps, Syslogs
  <1>1. CASE s.current = 0
    BY <1>1, EnsureKeeps DEF flushQueue
  <1>2. CASE s.current # 0
    <2> DEFINE c == s.current
               conn == s.conns[c]
               alive == conn.st \in {"connecting", "open"}
               b == Len(s.queue)
               n == Taking(conn, s.queue)
               m == IF n < b THEN n + 1 ELSE n
               lines == IF alive THEN SubSeq(s.queue, 1, m) ELSE <<>>
               held == conn.buf \o lines
               kept == IF Len(held) > MaxHeld THEN SubSeq(held, 1, MaxHeld) ELSE held
               k == [conn EXCEPT !.buf = kept, !.needDrain = @ \/ (alive /\ m > n)]
               w == Joined(s.sent, lines)
               r == SubSeq(s.queue, n + 1, b)
               conns == [s.conns EXCEPT ![c] = k]
               u == flushQueue(s)
    <2>1. u = [s EXCEPT !.queue = r, !.sent = w, !.conns = conns]
      BY <1>2 DEF flushQueue
    <2>2. c \in ConnIds /\ conn \in Connections /\ b \in Nat
      BY <1>0, <1>2 DEF Syslogs
    <2>3. n \in 0 .. b /\ (~alive => n = 0)
      <3>1. conn.buf \in Seq(Nat) /\ Len(conn.buf) \in Nat
        BY <2>2 DEF Connections
      <3> DEFINE room == HighWaterMark - 1 - Len(conn.buf)
      <3>2. room \in Int
        BY <3>1
      <3>3. n = IF conn.st \notin {"connecting", "open"} \/ room <= 0 THEN 0
                ELSE IF room < b THEN room ELSE b
        BY DEF Taking
      <3> HIDE DEF room, n, b, conn
      <3>4. CASE ~alive
        BY <2>2, <3>3, <3>4
      <3>5. CASE alive
        BY <2>2, <3>2, <3>3, <3>5
      <3> QED BY <3>4, <3>5
    <2>4. conn.buf \in Seq(Nat) /\ conn.needDrain \in BOOLEAN
      BY <2>2 DEF Connections
    <2> HIDE DEF n, alive, conn, c, u
    <2>5. m \in 0 .. b /\ n \in 0 .. m /\ m <= n + 1
      BY <2>2, <2>3
    <2> HIDE DEF m
    <2>6. /\ SubSeq(s.queue, 1, m) \in Seq(Nat) /\ r \in Seq(Nat)
          /\ Joined(s.sent, SubSeq(s.queue, 1, m)) \in Seq(Nat)
          /\ Split(Joined(s.sent, SubSeq(s.queue, 1, m)), r, t)
      BY <1>0, <2>5, SplitTake
    <2>7. lines \in Seq(Nat) /\ w \in Seq(Nat) /\ Split(w, r, t)
      <3>1. CASE alive
        BY <2>6, <3>1
      <3>2. CASE ~alive
        <4>1. lines = <<>> /\ lines \in Seq(Nat)
          BY <3>2, EmptySeq
        <4>2. w = s.sent
          BY <1>0, <4>1, JoinedLines
        <4>3. r = s.queue
          <5>1. n = 0 /\ 0 + 1 = 1
            BY <2>3, <3>2
          <5> QED BY <1>0, <5>1, SubSeqFull
        <4> QED BY <1>0, <4>1, <4>2, <4>3
      <3> QED BY <3>1, <3>2
    <2>8. kept \in Seq(Nat)
      <3> HIDE DEF lines
      <3>1. held \in Seq(Nat) /\ Len(held) \in Nat
        BY <2>4, <2>7, ConcatProperties
      <3> HIDE DEF held
      <3>2. CASE Len(held) > MaxHeld
        <4>1. \A i \in 1 .. MaxHeld : held[i] \in Nat
          BY <3>1, <3>2, ElementOfSeq
        <4> QED BY <3>2, <4>1, SubSeqProperties
      <3> QED BY <3>1, <3>2
    <2> HIDE DEF kept, w, r, lines, b
    <2>9. k \in Connections /\ k.st = conn.st
      BY <2>2, <2>8 DEF Connections
    <2> HIDE DEF k
    <2>10. /\ conns \in [ConnIds -> Connections]
           /\ \A d \in ConnIds : conns[d].st = s.conns[d].st
      BY <1>0, <2>2, <2>9 DEF conn
    <2> HIDE DEF conns
    <2>11. u \in Syslogs
      BY <1>0, <2>1, <2>6, <2>7, <2>10 DEF Syslogs
    <2>12. u.queue = r /\ u.sent = w /\ u.conns = conns /\ u.current = s.current
      BY <1>0, <2>1 DEF Syslogs
    <2>13. ConnectionsLeft(u, f)
      BY <1>0, <2>10, <2>12, SameStates
    <2> QED BY <2>7, <2>11, <2>12, <2>13 DEF SyslogOk, SyslogKeeps, u
  <1> QED BY <1>1, <1>2

\* Setting the timers changes none of it.
LEMMA TimersKeep ==
    ASSUME NEW s, NEW t, NEW f, SyslogOk(s, t, f), NEW on \in BOOLEAN
    PROVE  /\ SyslogOk([s EXCEPT !.flushTimer = on], t, f)
           /\ SyslogOk([s EXCEPT !.reconnectTimer = on], t, f)
           /\ SyslogOk([s EXCEPT !.connecting = on], t, f)
  <1>0. s \in Syslogs /\ Split(s.sent, s.queue, t) /\ ConnectionsLeft(s, f)
    BY DEF SyslogOk, SyslogKeeps
  <1>1. ASSUME NEW u \in {[s EXCEPT !.flushTimer = on], [s EXCEPT !.reconnectTimer = on],
                          [s EXCEPT !.connecting = on]}
        PROVE  SyslogOk(u, t, f)
    <2>1. u \in Syslogs
      BY <1>0 DEF Syslogs
    <2>2. u.sent = s.sent /\ u.queue = s.queue /\ u.conns = s.conns /\ u.current = s.current
      BY <1>0 DEF Syslogs
    <2>3. ConnectionsLeft(u, f)
      BY <1>0, <2>2, SameStates
    <2> QED BY <1>0, <2>1, <2>2, <2>3 DEF SyslogOk, SyslogKeeps
  <1> QED BY <1>1

\* publish(): a line it takes is queued behind the others, and flushed as far as it goes.
LEMMA SyslogPublishes ==
    ASSUME NEW s, NEW t \in Seq(Nat), NEW x \in Nat, NEW f, SyslogOk(s, t, f), Ascending(t),
           Ascending(Append(t, x))
    PROVE  LET p == syslogPublish(s, x)
           IN  /\ p.result = "ok" => SyslogOk(p.state, Append(t, x), f)
               /\ p.result # "ok" => SyslogOk(p.state, t, f)
  <1> DEFINE p == syslogPublish(s, x)
  <1>0. /\ s \in Syslogs /\ Split(s.sent, s.queue, t) /\ ConnectionsLeft(s, f)
        /\ s.sent \in Seq(Nat) /\ s.queue \in Seq(Nat)
    BY DEF SyslogOk, SyslogKeeps, Syslogs
  <1>1. CASE Len(s.queue) >= BufferSize
    <2>1. p = [result |-> "backpressure", state |-> s]
      BY <1>1 DEF syslogPublish
    <2> HIDE DEF p
    <2>2. p.result = "backpressure" /\ p.state = s
      BY <2>1
    <2> QED BY <2>2 DEF p
  <1>2. CASE ~(Len(s.queue) >= BufferSize)
    <2> DEFINE qx == Append(s.queue, x)
               tx == Append(t, x)
               q1 == [s EXCEPT !.queue = qx]
               flushed == flushQueue(ensureConnection(q1))
    <2>1. /\ p.result = "ok"
          /\ p.state = flushed \/ p.state = [flushed EXCEPT !.flushTimer = TRUE]
      BY <1>2 DEF syslogPublish, scheduleFlush
    <2>2. qx \in Seq(Nat) /\ tx \in Seq(Nat) /\ Ascending(tx) /\ Split(s.sent, qx, tx)
      BY <1>0, SplitAppend, AppendProperties
    <2> HIDE DEF qx, tx, p
    <2>3. q1 \in Syslogs
      BY <1>0, <2>2 DEF Syslogs
    <2>4. q1.queue = qx /\ q1.sent = s.sent /\ q1.conns = s.conns /\ q1.current = s.current
      BY <1>0 DEF Syslogs
    <2> HIDE DEF q1
    <2>5. SyslogOk(q1, tx, f)
      BY <1>0, <2>2, <2>3, <2>4, SameStates DEF SyslogOk, SyslogKeeps
    <2>6. SyslogOk(flushed, tx, f)
      BY <2>2, <2>5, EnsureKeeps, FlushKeeps
    <2> HIDE DEF flushed
    <2>7. SyslogOk([flushed EXCEPT !.flushTimer = TRUE], tx, f)
      BY <2>6, TimersKeep
    <2>8. SyslogOk(p.state, tx, f)
      BY <2>1, <2>6, <2>7
    <2> QED BY <2>1, <2>8 DEF p, tx
  <1> QED BY <1>1, <1>2

\* What happens to a connection c that was made: it opens, fails, or one of its events
\* arrives, which may let go of the connection that is held.
LEMMA ConnectionEvent ==
    ASSUME NEW s, NEW t, NEW f \in Nat, SyslogOk(s, t, f), NEW c \in ConnIds, NEW k \in Connections,
           NEW u \in Syslogs, u.queue = s.queue, u.sent = s.sent,
           u.conns = [s.conns EXCEPT ![c] = k], NEW g \in Nat,
           \/ /\ s.conns[c].st \in {"connecting", "open"} /\ k.st \in {"connecting", "open"}
              /\ u.current = s.current /\ g = f
           \/ /\ s.conns[c].st \in {"connecting", "open"} /\ k.st \in {"destroyed", "ended"}
              /\ u.current = s.current /\ f < MaxFailures /\ g = f + 1
           \/ s.conns[c].st = "destroyed" /\ k.st = "errored" /\ g = f
           \/ s.conns[c].st \in {"ended", "errored"} /\ k.st = "closed" /\ g = f
    PROVE  SyslogOk(u, t, g)
  <1>1. /\ s \in Syslogs /\ Split(s.sent, s.queue, t) /\ ConnectionsLeft(s, f)
        /\ s.conns \in [ConnIds -> Connections]
    BY DEF SyslogOk, SyslogKeeps, Syslogs
  <1>2. InState(u, Used) = InState(s, Used)
    BY <1>1 DEF InState, Used
  <1> DEFINE EC == {"errored", "closed"}
             C == {"closed"}
  <1>3. ASSUME NEW states
        PROVE  Cardinality(InState(u, states)) = Cardinality(InState(s, states))
                 + (IF k.st \in states THEN 1 ELSE 0)
                 - (IF s.conns[c].st \in states THEN 1 ELSE 0)
    BY <1>1, MoveConnection
  <1> DEFINE x(v) == Cardinality(InState(v, EC))
             y(v) == Cardinality(InState(v, C))
             z(v) == Cardinality(InState(v, Failed))
  <1>4. /\ x(s) \in Nat /\ y(s) \in Nat /\ z(s) \in Nat
        /\ x(u) \in Nat /\ y(u) \in Nat /\ z(u) \in Nat
    BY StatesFinite
  <1>5. /\ x(u) = x(s) + (IF k.st \in EC THEN 1 ELSE 0) - (IF s.conns[c].st \in EC THEN 1 ELSE 0)
        /\ y(u) = y(s) + (IF k.st \in C THEN 1 ELSE 0) - (IF s.conns[c].st \in C THEN 1 ELSE 0)
        /\ z(u) = z(s) + (IF k.st \in Failed THEN 1 ELSE 0)
                       - (IF s.conns[c].st \in Failed THEN 1 ELSE 0)
    BY <1>3
  <1>6. /\ z(s) = f /\ f <= MaxFailures
        /\ \E made \in Nat : /\ InState(s, Used) = 1 .. made
                             /\ made + (IF s.current = 0 THEN 1 ELSE 0) <= 1 + x(s) + y(s)
    BY <1>1 DEF ConnectionsLeft
  <1> HIDE DEF x, y, z
  <1>7. z(u) = g /\ g <= MaxFailures
    <2> DEFINE i == IF k.st \in Failed THEN 1 ELSE 0
               j == IF s.conns[c].st \in Failed THEN 1 ELSE 0
    <2>1. \/ i = j /\ g = f
          \/ i = 1 /\ j = 0 /\ g = f + 1 /\ f < MaxFailures
      BY DEF Failed
    <2>2. z(u) = z(s) + i - j
      BY <1>5
    <2>3. i \in Int /\ j \in Int /\ MaxFailures \in Nat
      BY TransportsAssumption
    <2> HIDE DEF i, j
    <2> QED BY <1>4, <1>6, <2>1, <2>2, <2>3
  <1>8. \/ u.current = s.current /\ x(u) + y(u) >= x(s) + y(s)
        \/ x(u) + y(u) >= x(s) + y(s) + 1
    BY <1>4, <1>5
  <1>9. PICK made \in Nat :
            /\ InState(s, Used) = 1 .. made
            /\ made + (IF s.current = 0 THEN 1 ELSE 0) <= 1 + x(s) + y(s)
    BY <1>6
  <1>10. made + (IF u.current = 0 THEN 1 ELSE 0) <= 1 + x(u) + y(u)
    BY <1>4, <1>8, <1>9
  <1>11. ConnectionsLeft(u, g)
    <2>1. z(u) = Cardinality(InState(u, Failed))
      BY DEF z
    <2>2. x(u) = Cardinality(InState(u, EC)) /\ y(u) = Cardinality(InState(u, C))
      BY DEF x, y
    <2> QED BY <1>2, <1>7, <1>9, <1>10, <2>1, <2>2 DEF ConnectionsLeft
  <1> QED BY <1>1, <1>11 DEF SyslogOk, SyslogKeeps

-----------------------------------------------------------------------------
(***************************************************************************)
(* The steps.                                                              *)
(***************************************************************************)
SyslogInv == SyslogOk(syslog, accepted.syslog, failures)

LEMMA InvParts ==
    /\ LoggerInv <=> /\ TakenInOrder
                     /\ stdout \in Stdouts /\ StdoutKeeps(stdout, accepted.stdout)
                     /\ failures \in Nat /\ SyslogInv
    /\ LoggerInv' <=> /\ TakenInOrder'
                      /\ stdout' \in Stdouts /\ StdoutKeeps(stdout', accepted'.stdout)
                      /\ failures' \in Nat /\ SyslogOk(syslog', accepted'.syslog, failures')
  BY DEF LoggerInv, SyslogInv, SyslogOk

\* A new line comes after all that were taken.
LEMMA NextLine ==
    ASSUME NEW s \in Seq(Nat), Ascending(s), NEW n \in Nat, \A i \in 1 .. Len(s) : s[i] <= n
    PROVE  /\ Append(s, n + 1) \in Seq(Nat) /\ Ascending(Append(s, n + 1))
           /\ \A i \in 1 .. Len(Append(s, n + 1)) : Append(s, n + 1)[i] <= n + 1
           /\ \A i \in 1 .. Len(s) : s[i] <= n + 1
  <1> DEFINE u == Append(s, n + 1)
             b == Len(s)
  <1>1. /\ u \in Seq(Nat) /\ Len(u) = b + 1 /\ u[b + 1] = n + 1
        /\ \A i \in 1 .. b : u[i] = s[i]
    BY AppendProperties
  <1>2. b \in Nat /\ \A i \in 1 .. b : s[i] \in Nat /\ s[i] <= n
    BY ElementOfSeq
  <1>3. \A i, j \in 1 .. b : i < j => s[i] < s[j]
    BY DEF Ascending
  <1>4. (\A i, j \in 1 .. Len(u) : i < j => u[i] < u[j]) => Ascending(u)
    BY DEF Ascending
  <1> HIDE DEF u, b
  <1>5. \A i \in 1 .. b + 1 : u[i] \in Nat /\ u[i] <= n + 1
    <2> TAKE i \in 1 .. b + 1
    <2>1. CASE i \in 1 .. b
      <3>1. u[i] = s[i] /\ s[i] \in Nat /\ s[i] <= n
        BY <1>1, <1>2, <2>1
      <3> QED BY <3>1
    <2>2. CASE i = b + 1
      BY <1>1, <2>2
    <2> QED BY <1>2, <2>1, <2>2
  <1>6. \A i, j \in 1 .. b + 1 : i < j => u[i] < u[j]
    <2> TAKE i, j \in 1 .. b + 1
    <2> HAVE i < j
    <2>1. i \in 1 .. b
      BY <1>2
    <2>2. u[i] = s[i] /\ s[i] \in Nat /\ s[i] <= n
      BY <1>1, <1>2, <2>1
    <2>3. CASE j \in 1 .. b
      BY <1>1, <1>3, <2>1, <2>3
    <2>4. CASE j = b + 1
      BY <1>1, <2>2, <2>4
    <2> QED BY <1>2, <2>3, <2>4
  <1>7. Ascending(u)
    BY <1>1, <1>4, <1>6
  <1>8. \A i \in 1 .. b : s[i] <= n + 1
    BY <1>2
  <1> QED BY <1>1, <1>5, <1>7, <1>8 DEF u, b

\* allowed is a sequence of whatever lines there were, and grows by one.
LEMMA NextAllowed ==
    ASSUME NEW s, s \in Seq(Items(s)), NEW x
    PROVE  /\ Len(s) \in Nat /\ Len(Append(s, x)) = Len(s) + 1
           /\ Append(s, x) \in Seq(Items(Append(s, x)))
  <1> DEFINE S == Items(s)
             T == S \cup {x}
             u == Append(s, x)
             U == Items(u)
  <1>1. s \in Seq(T)
    <2> HIDE DEF S
    <2>1. s \in Seq(S) /\ S \subseteq T
      BY DEF S
    <2> HIDE DEF T
    <2> QED BY <2>1, SeqMonotonic
  <1> HIDE DEF S
  <1>2. Len(s) \in Nat /\ u \in Seq(T) /\ Len(u) = Len(s) + 1
    <2>1. x \in T
      OBVIOUS
    <2> HIDE DEF T
    <2> QED BY <1>1, <2>1, AppendProperties, LenProperties
  <1> HIDE DEF u, T
  <1>3. u \in Seq(U)
    <2>1. u \in [1 .. Len(u) -> T] /\ Len(u) \in Nat
      BY <1>2, LenProperties
    <2>2. u \in [1 .. Len(u) -> U]
      BY <2>1 DEF Items
    <2> HIDE DEF U
    <2> QED BY <2>1, <2>2, SeqDef
  <1> QED BY <1>2, <1>3 DEF u

\* A new logger has taken no line, and made one connection.
LEMMA InitKeeps == LoggerInit => LoggerInv
  <1> SUFFICES ASSUME LoggerInit PROVE LoggerInv
    OBVIOUS
  <1> DEFINE z == [queue |-> <<>>, current |-> 0, connecting |-> FALSE, flushTimer |-> FALSE,
                   reconnectTimer |-> FALSE, conns |-> [c \in ConnIds |-> NewConn], sent |-> <<>>]
  <1>1. /\ accepted = [stdout |-> <<>>, syslog |-> <<>>] /\ allowed = <<>> /\ stdout = stdoutInit
        /\ syslog = ensureConnection(z) /\ failures = 0
    BY DEF LoggerInit, syslogInit
  <1>2. <<>> \in Seq(Nat) /\ Len(<<>>) = 0
    BY EmptySeq
  <1>3. Split(<<>>, <<>>, <<>>)
    <2>1. SplitBy(0, <<>>, <<>>, <<>>)
      BY <1>2 DEF SplitBy
    <2> QED BY <2>1 DEF Split
  <1>4. TakenInOrder
    <2>1. Ascending(<<>>)
      BY <1>2 DEF Ascending
    <2>2. allowed \in Seq(Items(allowed))
      BY <1>1, EmptySeq
    <2> QED BY <1>1, <1>2, <2>1, <2>2 DEF TakenInOrder
  <1>5. stdout \in Stdouts /\ StdoutKeeps(stdout, accepted.stdout)
    BY <1>1, <1>2, <1>3 DEF stdoutInit, Stdouts, StdoutKeeps
  <1>6. SyslogOk(z, <<>>, 0)
    <2>1. NewConn \in Connections /\ NewConn.st = "new"
      BY <1>2 DEF NewConn, Connections
    <2>2. z.conns \in [ConnIds -> Connections]
      BY <2>1
    <2>3. z \in Syslogs
      BY <1>2, <2>2 DEF Syslogs
    <2>4. \A c \in ConnIds : z.conns[c].st = "new"
      BY <2>1
    <2>5. z.queue = <<>> /\ z.sent = <<>> /\ z.current = 0
      OBVIOUS
    <2> HIDE DEF z
    <2>6. /\ InState(z, Failed) = {} /\ InState(z, Used) = {} /\ InState(z, {"closed"}) = {}
          /\ InState(z, {"errored", "closed"}) = {}
      BY <2>4 DEF InState, Failed, Used
    <2>7. Cardinality({}) = 0 /\ {} = 1 .. 0
      BY FS_EmptySet
    <2>8. 0 + (IF z.current = 0 THEN 1 ELSE 0) <= 1 + 0 + 0 /\ 0 <= MaxFailures
      BY TransportsAssumption
    <2>9. ConnectionsLeft(z, 0)
      BY <2>6, <2>7, <2>8 DEF ConnectionsLeft
    <2> QED BY <1>3, <2>3, <2>5, <2>9 DEF SyslogOk, SyslogKeeps
  <1>7. SyslogInv /\ failures \in Nat
    <2> HIDE DEF z
    <2>1. SyslogOk(ensureConnection(z), <<>>, 0)
      BY <1>6, EnsureKeeps
    <2> QED BY <1>1, <2>1 DEF SyslogInv
  <1> QED BY <1>4, <1>5, <1>7, InvParts

\* Only log() takes lines.
LEMMA SyslogStepKeeps ==
    ASSUME LoggerInv, UNCHANGED <<accepted, allowed, stdout>>, failures' \in Nat,
           SyslogOk(syslog', accepted.syslog, failures')
    PROVE  LoggerInv'
  <1>1. TakenInOrder'
    BY InvParts DEF TakenInOrder
  <1> QED BY <1>1, InvParts

\* log() gives both transports the next line, which each takes or refuses.
LEMMA LogKeeps == LoggerInv /\ log => LoggerInv'
  <1> SUFFICES ASSUME LoggerInv, log PROVE LoggerInv'
    OBVIOUS
  <1>1. PICK entry \in config.entries, draw \in Draws, answer \in Answers :
          LET decision == evaluateLoggingControls(entry.event, now, config.controls, controlState, draw)
              line     == Len(allowed) + 1
              publish  == publishToAll(entry, line, answer)
          IN  /\ IF ~decision.allow
                 THEN UNCHANGED <<stdout, syslog, accepted, allowed>>
                 ELSE /\ allowed' = Append(allowed, <<entry.event, now>>)
                      /\ stdout' = publish.stdout /\ syslog' = publish.syslog
                      /\ accepted' = Taken(publish, line)
              /\ failures' = failures
    BY DEF log
  <1> DEFINE line == Len(allowed) + 1
             publish == publishToAll(entry, line, answer)
             first == filteredPublish(entry, line, answer)
             second == syslogPublish(syslog, line)
             one == stdoutPublish(stdout, line, answer)
  <1>2. /\ TakenInOrder /\ stdout \in Stdouts /\ StdoutKeeps(stdout, accepted.stdout)
        /\ failures \in Nat /\ SyslogOk(syslog, accepted.syslog, failures)
    BY InvParts DEF SyslogInv
  <1>3. CASE UNCHANGED <<stdout, syslog, accepted, allowed>>
    BY <1>1, <1>2, <1>3, SyslogStepKeeps
  <1>4. CASE /\ allowed' = Append(allowed, <<entry.event, now>>)
             /\ stdout' = publish.stdout /\ syslog' = publish.syslog
             /\ accepted' = Taken(publish, line)
    <2>1. answer \in {"more", "full", "throw"}
      BY DEF Answers
    <2>2. /\ Len(allowed) \in Nat /\ Len(allowed') = Len(allowed) + 1
          /\ allowed' \in Seq(Items(allowed'))
      <3> DEFINE x == <<entry.event, now>>
                 u == Append(allowed, x)
      <3>1. allowed \in Seq(Items(allowed))
        BY <1>2 DEF TakenInOrder
      <3>2. allowed' = u
        BY <1>4
      <3> HIDE DEF x
      <3>3. /\ Len(allowed) \in Nat /\ Len(u) = Len(allowed) + 1
            /\ u \in Seq(Items(u))
        BY ONLY <3>1, NextAllowed
      <3> HIDE DEF u
      <3> QED BY <3>2, <3>3
    <2> DEFINE n == Len(allowed)
               so == accepted.stdout
               sy == accepted.syslog
    <2>3. /\ so \in Seq(Nat) /\ Ascending(so) /\ \A i \in 1 .. Len(so) : so[i] <= n
          /\ sy \in Seq(Nat) /\ Ascending(sy) /\ \A i \in 1 .. Len(sy) : sy[i] <= n
      BY <1>2 DEF TakenInOrder
    <2>4. /\ stdout' = first.state /\ syslog' = second.state
          /\ accepted' = [stdout |-> IF stdoutTakes(entry) /\ first.result = "ok"
                                     THEN Append(so, line) ELSE so,
                          syslog |-> IF second.result = "ok" THEN Append(sy, line) ELSE sy]
      BY <1>4 DEF publishToAll, Taken
    <2>5. line = n + 1 /\ line \in Nat /\ n \in Nat
      BY <2>2
    <2> HIDE DEF n, so, sy, line, second
    <2>6. /\ Append(so, line) \in Seq(Nat) /\ Ascending(Append(so, line))
          /\ \A i \in 1 .. Len(Append(so, line)) : Append(so, line)[i] <= n + 1
          /\ \A i \in 1 .. Len(so) : so[i] <= n + 1
      BY <2>3, <2>5, NextLine
    <2>7. /\ Append(sy, line) \in Seq(Nat) /\ Ascending(Append(sy, line))
          /\ \A i \in 1 .. Len(Append(sy, line)) : Append(sy, line)[i] <= n + 1
          /\ \A i \in 1 .. Len(sy) : sy[i] <= n + 1
      BY <2>3, <2>5, NextLine
    <2>8. accepted'.stdout \in {so, Append(so, line)} /\ accepted'.syslog \in {sy, Append(sy, line)}
      BY <2>4
    <2>9. TakenInOrder'
      <3>1. accepted' \in [stdout : Seq(Nat), syslog : Seq(Nat)]
        BY <2>3, <2>4, <2>6, <2>7
      <3>2. /\ Ascending(accepted'.stdout)
            /\ \A i \in 1 .. Len(accepted'.stdout) : accepted'.stdout[i] <= n + 1
        BY <2>3, <2>6, <2>8
      <3>3. /\ Ascending(accepted'.syslog)
            /\ \A i \in 1 .. Len(accepted'.syslog) : accepted'.syslog[i] <= n + 1
        BY <2>3, <2>7, <2>8
      <3>4. Len(allowed') = n + 1
        BY <2>2 DEF n
      <3> QED BY <2>2, <3>1, <3>2, <3>3, <3>4 DEF TakenInOrder
    <2>10. stdout' \in Stdouts /\ StdoutKeeps(stdout', accepted'.stdout)
      <3>1. CASE stdoutTakes(entry)
        <4>1. first = one
          BY <3>1 DEF filteredPublish
        <4> HIDE DEF one
        <4>2. /\ one.state \in Stdouts
              /\ one.result = "ok" => StdoutKeeps(one.state, Append(so, line))
              /\ one.result # "ok" => StdoutKeeps(one.state, so)
          BY <1>2, <2>1, <2>3, <2>5, <2>6, StdoutPublishes DEF one, so
        <4>3. accepted'.stdout = IF one.result = "ok" THEN Append(so, line) ELSE so
          BY <2>4, <3>1, <4>1
        <4>4. stdout' = one.state
          BY <2>4, <4>1
        <4> QED BY <4>2, <4>3, <4>4
      <3>2. CASE ~stdoutTakes(entry)
        <4>1. first = [result |-> "ok", state |-> stdout]
          BY <3>2 DEF filteredPublish
        <4>2. stdout' = stdout
          BY <2>4, <4>1
        <4>3. accepted'.stdout = so
          BY <2>4, <3>2
        <4> QED BY <1>2, <4>2, <4>3 DEF so
      <3> QED BY <3>1, <3>2
    <2>11. failures' \in Nat /\ SyslogOk(syslog', accepted'.syslog, failures')
      <3>1. /\ second.result = "ok" => SyslogOk(second.state, Append(sy, line), failures)
            /\ second.result # "ok" => SyslogOk(second.state, sy, failures)
        BY <1>2, <2>3, <2>5, <2>7, SyslogPublishes DEF second, sy
      <3>2. accepted'.syslog = IF second.result = "ok" THEN Append(sy, line) ELSE sy
        BY <2>4
      <3> QED BY <1>1, <1>2, <2>4, <3>1, <3>2
    <2> QED BY <2>9, <2>10, <2>11, InvParts
  <1> QED BY <1>1, <1>3, <1>4

\* A drain moves lines from the queue to the stream.
LEMMA StreamDrainsKeeps == LoggerInv /\ StreamDrains => LoggerInv'
  <1> SUFFICES ASSUME LoggerInv, StreamDrains PROVE LoggerInv'
    OBVIOUS
  <1>1. /\ TakenInOrder /\ stdout \in Stdouts /\ StdoutKeeps(stdout, accepted.stdout)
        /\ failures \in Nat /\ SyslogOk(syslog, accepted.syslog, failures)
    BY InvParts DEF SyslogInv
  <1>2. PICK n \in 0 .. Len(stdout.queue), answer \in Answers :
          /\ (n = Len(stdout.queue)) <=> (answer = "more")
          /\ stdout' = handleDrain(stdout, n, answer)
    BY DEF StreamDrains
  <1>3. UNCHANGED <<accepted, allowed, syslog, failures>>
    BY DEF StreamDrains, Quiet
  <1>4. accepted.stdout \in Seq(Nat) /\ Ascending(accepted.stdout)
    BY <1>1 DEF TakenInOrder
  <1>5. stdout' \in Stdouts /\ StdoutKeeps(stdout', accepted.stdout)
    <2>1. answer \in {"more", "full", "throw"}
      BY DEF Answers
    <2> QED BY <1>1, <1>2, <1>4, <2>1, StdoutDrains
  <1>6. TakenInOrder'
    BY <1>1, <1>3 DEF TakenInOrder
  <1> QED BY <1>1, <1>3, <1>5, <1>6, InvParts

\* The two timers of the collector, and the clock.
LEMMA TimersKeepInv ==
    LoggerInv /\ (FlushTimer \/ ReconnectTimer \/ Tick) => LoggerInv'
  <1> SUFFICES ASSUME LoggerInv, FlushTimer \/ ReconnectTimer \/ Tick PROVE LoggerInv'
    OBVIOUS
  <1>1. /\ SyslogOk(syslog, accepted.syslog, failures) /\ failures \in Nat
        /\ accepted.syslog \in Seq(Nat) /\ Ascending(accepted.syslog)
    BY InvParts DEF SyslogInv, TakenInOrder
  <1>2. UNCHANGED <<accepted, allowed, stdout, failures>>
    BY DEF FlushTimer, ReconnectTimer, Tick, SyslogStep, Quiet
  <1>3. SyslogOk(syslog', accepted.syslog, failures)
    <2>1. CASE FlushTimer
      <3>1. \/ syslog' = [syslog EXCEPT !.flushTimer = FALSE]
            \/ syslog' = flushQueue(syslog)
        BY <2>1 DEF FlushTimer, SyslogStep, flushTick
      <3>2. /\ SyslogOk([syslog EXCEPT !.flushTimer = FALSE], accepted.syslog, failures)
            /\ SyslogOk(flushQueue(syslog), accepted.syslog, failures)
        BY <1>1, TimersKeep, FlushKeeps
      <3> QED BY <3>1, <3>2
    <2>2. CASE ReconnectTimer
      <3>1. syslog' = ensureConnection([syslog EXCEPT !.reconnectTimer = FALSE])
        BY <2>2 DEF ReconnectTimer, SyslogStep, reconnectNow
      <3>2. SyslogOk([syslog EXCEPT !.reconnectTimer = FALSE], accepted.syslog, failures)
        BY <1>1, TimersKeep
      <3> QED BY <3>1, <3>2, EnsureKeeps
    <2>3. CASE Tick
      BY <1>1, <2>3 DEF Tick
    <2> QED BY <2>1, <2>2, <2>3
  <1> QED BY <1>1, <1>2, <1>3, SyslogStepKeeps

\* The events of a connection.
LEMMA ConnectionKeeps ==
    ASSUME LoggerInv, NEW c \in ConnIds,
           Connects(c) \/ Delivers(c) \/ Dies(c) \/ Errors(c) \/ Closes(c)
    PROVE  LoggerInv'
  <1> DEFINE sy == accepted.syslog
             k == syslog.conns[c]
  <1>1. /\ SyslogOk(syslog, sy, failures) /\ failures \in Nat
        /\ sy \in Seq(Nat) /\ Ascending(sy)
        /\ syslog \in Syslogs
    BY InvParts DEF SyslogInv, TakenInOrder, SyslogOk, SyslogKeeps
  <1>2. UNCHANGED <<accepted, allowed, stdout>>
    BY DEF Connects, Delivers, Dies, Errors, Closes, SyslogStep, Quiet
  <1>3. syslog.conns \in [ConnIds -> Connections] /\ k \in Connections
    BY <1>1 DEF Syslogs
  \* A change of the one connection, all else left as it is.
  <1> DEFINE Changed(to) == [syslog EXCEPT !.conns = [syslog.conns EXCEPT ![c] = to]]
  <1>4. ASSUME NEW to \in Connections
        PROVE  /\ Changed(to) \in Syslogs /\ Changed(to).queue = syslog.queue
               /\ Changed(to).sent = syslog.sent /\ Changed(to).current = syslog.current
               /\ Changed(to).conns = [syslog.conns EXCEPT ![c] = to]
    <2> DEFINE conns == [syslog.conns EXCEPT ![c] = to]
    <2>1. conns \in [ConnIds -> Connections]
      BY <1>3
    <2> HIDE DEF conns
    <2>2. Changed(to) = [syslog EXCEPT !.conns = conns]
      BY DEF conns
    <2>3. Changed(to) \in Syslogs
      BY <1>1, <2>1, <2>2 DEF Syslogs
    <2>4. /\ Changed(to).queue = syslog.queue /\ Changed(to).sent = syslog.sent
          /\ Changed(to).current = syslog.current /\ Changed(to).conns = conns
      BY <1>1, <2>2 DEF Syslogs
    <2> QED BY <2>3, <2>4 DEF conns
  <1> HIDE DEF Changed
  <1>5. SyslogOk(syslog', sy, failures') /\ failures' \in Nat
    <2>1. CASE Connects(c)
      <3> DEFINE to == [k EXCEPT !.st = "open"]
      <3>1. k.st = "connecting" /\ failures' = failures
        BY <2>1 DEF Connects
      <3>2. to \in Connections /\ to.st = "open"
        BY <1>3 DEF Connections
      <3>3. syslog' = handleConnected(Changed(to), c)
        BY <2>1 DEF Connects, SyslogStep, Changed
      <3> HIDE DEF to
      <3>4. SyslogOk(Changed(to), sy, failures)
        <4> DEFINE u == Changed(to)
        <4>1. /\ u \in Syslogs /\ u.queue = syslog.queue /\ u.sent = syslog.sent
              /\ u.conns = [syslog.conns EXCEPT ![c] = to] /\ u.current = syslog.current
          BY <1>4, <3>2
        <4> HIDE DEF u
        <4>2. SyslogOk(u, sy, failures)
          BY <1>1, <3>1, <3>2, <4>1, ConnectionEvent
        <4> QED BY <4>2 DEF u
      <3>5. SyslogOk(flushQueue([Changed(to) EXCEPT !.connecting = FALSE]), sy, failures)
        <4>1. SyslogOk([Changed(to) EXCEPT !.connecting = FALSE], sy, failures)
          BY <3>4, TimersKeep
        <4> QED BY <1>1, <4>1, FlushKeeps
      <3> QED BY <1>1, <3>1, <3>3, <3>4, <3>5 DEF handleConnected
    <2>2. CASE Delivers(c)
      <3> DEFINE emptied == [k EXCEPT !.buf = <<>>]
                 to == [emptied EXCEPT !.needDrain = FALSE]
      <3>1. k.st = "open" /\ failures' = failures
        BY <2>2 DEF Delivers
      <3>2. to \in Connections /\ to.st = k.st
        <4>1. emptied \in Connections /\ emptied.st = k.st
          BY <1>3, EmptySeq DEF Connections
        <4> HIDE DEF emptied
        <4> QED BY <4>1 DEF Connections
      <3>3. syslog' = Changed(to) \/ syslog' = flushQueue(Changed(to))
        BY <1>1, <1>3, <2>2 DEF Delivers, SyslogStep, Changed, Syslogs
      <3> HIDE DEF to
      <3>4. SyslogOk(Changed(to), sy, failures)
        <4> DEFINE u == Changed(to)
        <4>1. /\ u \in Syslogs /\ u.queue = syslog.queue /\ u.sent = syslog.sent
              /\ u.conns = [syslog.conns EXCEPT ![c] = to] /\ u.current = syslog.current
          BY <1>4, <3>2
        <4> HIDE DEF u
        <4>2. SyslogOk(u, sy, failures)
          BY <1>1, <3>1, <3>2, <4>1, ConnectionEvent
        <4> QED BY <4>2 DEF u
      <3> QED BY <1>1, <3>1, <3>3, <3>4, FlushKeeps
    <2>3. CASE Dies(c)
      <3>1. PICK how \in {"destroyed", "ended"} :
              syslog' = [syslog EXCEPT !.conns[c] = [NewConn EXCEPT !.st = how]]
        BY <2>3 DEF Dies, SyslogStep
      <3> DEFINE to == [NewConn EXCEPT !.st = how]
      <3>2. to \in Connections /\ to.st = how
        BY EmptySeq DEF NewConn, Connections
      <3>3. syslog' = Changed(to)
        BY <3>1 DEF Changed
      <3>4. /\ k.st \in {"connecting", "open"} /\ failures < MaxFailures
            /\ failures' = failures + 1 /\ failures' \in Nat
        BY <1>1, <2>3 DEF Dies
      <3> HIDE DEF to
      <3> DEFINE u == Changed(to)
                 g == failures'
      <3>5. /\ u \in Syslogs /\ u.queue = syslog.queue /\ u.sent = syslog.sent
            /\ u.conns = [syslog.conns EXCEPT ![c] = to] /\ u.current = syslog.current
        BY <1>4, <3>2
      <3>6. g \in Nat /\ g = failures + 1
        BY <3>4
      <3> HIDE DEF u, g
      <3>7. SyslogOk(u, sy, g)
        BY <1>1, <3>2, <3>4, <3>5, <3>6, ConnectionEvent
      <3> QED BY <3>3, <3>4, <3>7 DEF u, g
    <2>4. ASSUME NEW to \in Connections, NEW u,
                 u = scheduleReconnect([[Changed(to) EXCEPT !.connecting = FALSE]
                                          EXCEPT !.current = 0]),
                 \/ k.st = "destroyed" /\ to.st = "errored"
                 \/ k.st \in {"ended", "errored"} /\ to.st = "closed"
          PROVE  SyslogOk(u, sy, failures)
      <3> DEFINE v == Changed(to)
      <3>1. /\ v \in Syslogs /\ v.queue = syslog.queue /\ v.sent = syslog.sent
            /\ v.conns = [syslog.conns EXCEPT ![c] = to]
        BY <1>4, <2>4
      <3> HIDE DEF v
      <3>2. u = [[[v EXCEPT !.connecting = FALSE] EXCEPT !.current = 0]
                    EXCEPT !.reconnectTimer = TRUE]
        BY <2>4 DEF scheduleReconnect, v
      <3>3. u \in Syslogs
        BY <3>1, <3>2 DEF Syslogs
      <3>4. u.queue = v.queue /\ u.sent = v.sent /\ u.conns = v.conns
        BY <3>1, <3>2 DEF Syslogs
      <3> QED BY <1>1, <2>4, <3>1, <3>3, <3>4, ConnectionEvent
    <2>5. CASE Errors(c)
      <3> DEFINE to == [k EXCEPT !.st = "errored"]
      <3>1. to \in Connections /\ to.st = "errored"
        BY <1>3 DEF Connections
      <3>2. /\ k.st = "destroyed" /\ failures' = failures
            /\ syslog' = scheduleReconnect([[Changed(to) EXCEPT !.connecting = FALSE]
                                              EXCEPT !.current = 0])
        BY <2>5 DEF Errors, SyslogStep, handleSocketError, Changed
      <3> HIDE DEF to
      <3> QED BY <1>1, <2>4, <3>1, <3>2
    <2>6. CASE Closes(c)
      <3>1. ClosedConn \in Connections /\ ClosedConn.st = "closed"
        BY EmptySeq DEF ClosedConn, NewConn, Connections
      <3>2. /\ k.st \in {"ended", "errored"} /\ failures' = failures
            /\ syslog' = scheduleReconnect([[Changed(ClosedConn) EXCEPT !.connecting = FALSE]
                                              EXCEPT !.current = 0])
        BY <2>6 DEF Closes, SyslogStep, handleSocketClose, Changed
      <3> QED BY <1>1, <2>4, <3>1, <3>2
    <2> QED BY <2>1, <2>2, <2>3, <2>5, <2>6
  <1> QED BY <1>1, <1>2, <1>5, SyslogStepKeeps

\* Whatever the stream answers, the connections do and the timers interleave, each
\* transport has the lines it took in what it wrote and what it queues, and there is
\* always a connection left to make (LoggerInv).
THEOREM LoggerInvariant == LoggerSpec => []LoggerInv
  <1>1. LoggerInv /\ UNCHANGED loggerVars => LoggerInv'
    BY DEF loggerVars, LoggerInv, TakenInOrder
  <1>2. LoggerInv /\ LoggerNext => LoggerInv'
    BY LogKeeps, StreamDrainsKeeps, TimersKeepInv, ConnectionKeeps DEF LoggerNext
  <1> QED BY <1>1, <1>2, InitKeeps, PTL DEF LoggerSpec

\* As long as the stream never throws, no line that its transport took is lost or
\* overtaken by a later one, however often the stream was full (publish(), flush(),
\* handleDrain()).  A line may come twice in a row: with a line that fills the stream
\* again during a drain the queue begins at the next drain.
THEOREM StdoutOrdered == LoggerSpec => []StdoutInOrder
  <1>1. LoggerInv => StdoutInOrder
    BY SplitIsJoined DEF LoggerInv, TakenInOrder, Stdouts, StdoutKeeps, StdoutInOrder
  <1> QED BY <1>1, LoggerInvariant, PTL

\* What a split of the lines taken says about the two parts.
LEMMA SplitParts ==
    ASSUME NEW o \in Seq(Nat), NEW q \in Seq(Nat), NEW t \in Seq(Nat), Split(o, q, t)
    PROVE  /\ o = SubSeq(t, 1, Len(o))
           /\ \E k \in 0 .. Len(t) :
                 q = SubSeq(t, k + 1, Len(t)) /\ k <= Len(o) /\ Len(o) <= k + 1
  <1> DEFINE a == Len(o)
             b == Len(q)
             c == Len(t)
  <1>1. PICK d \in {0, 1} :
            /\ c = a + b - d /\ (d = 1 => a > 0 /\ b > 0)
            /\ \A i \in 1 .. a : t[i] = o[i]
            /\ \A j \in 1 .. b : q[j] = t[a - d + j]
    BY DEF Split, SplitBy
  <1> DEFINE k == a - d
             p == SubSeq(t, 1, a)
             r == SubSeq(t, k + 1, c)
  <1>2. a \in Nat /\ b \in Nat /\ c \in Nat
    OBVIOUS
  <1>3. \A i \in 1 .. c : t[i] \in Nat
    BY ElementOfSeq
  <1> HIDE DEF a, b, c
  <1>4. /\ a <= c /\ k \in 0 .. c /\ k <= a /\ a <= k + 1
        /\ c - (k + 1) + 1 = b
    BY <1>1, <1>2
  <1>5. p = o
    <2>1. \A i \in 1 .. a : t[i] \in Nat
      BY <1>2, <1>3, <1>4
    <2>2. /\ p \in Seq(Nat) /\ Len(p) = (IF 1 <= a THEN a - 1 + 1 ELSE 0)
          /\ \A i \in 1 .. a - 1 + 1 : p[i] = t[1 + i - 1]
      BY <1>2, <2>1, SubSeqProperties
    <2> HIDE DEF p
    <2>3. Len(p) = a
      BY <1>2, <2>2
    <2>4. \A i \in 1 .. a : p[i] = o[i]
      <3> TAKE i \in 1 .. a
      <3>1. i \in 1 .. a - 1 + 1 /\ 1 + i - 1 = i
        BY <1>2
      <3> QED BY <1>1, <2>2, <3>1
    <2> QED BY <2>2, <2>3, <2>4, SeqEqual DEF a
  <1>6. r = q
    <2> HIDE DEF k
    <2>1. \A i \in k + 1 .. c : t[i] \in Nat
      BY <1>2, <1>3, <1>4
    <2>2. /\ r \in Seq(Nat) /\ Len(r) = (IF k + 1 <= c THEN c - (k + 1) + 1 ELSE 0)
          /\ \A i \in 1 .. c - (k + 1) + 1 : r[i] = t[k + 1 + i - 1]
      BY <1>2, <1>4, <2>1, SubSeqProperties
    <2> HIDE DEF r
    <2>3. Len(r) = b
      BY <1>2, <1>4, <2>2
    <2>4. \A i \in 1 .. b : r[i] = q[i]
      <3> TAKE i \in 1 .. b
      <3>1. i \in 1 .. c - (k + 1) + 1 /\ k + 1 + i - 1 = k + i
        BY <1>2, <1>4
      <3>2. q[i] = t[k + i]
        BY <1>1 DEF k
      <3> QED BY <2>2, <3>1, <3>2
    <2> QED BY <2>2, <2>3, <2>4, SeqEqual DEF b
  <1> QED BY <1>4, <1>5, <1>6 DEF a, c

\* What the collector's transport took, it hands to connections in that order and
\* without a gap, whatever fails on the way: a line leaves the queue only when a live
\* connection has it (flushQueue(), the handlers of the connection's events).
THEOREM AcceptedWritten == LoggerSpec => []AcceptedIsWritten
  <1>1. LoggerInv => AcceptedIsWritten
    <2> SUFFICES ASSUME LoggerInv PROVE AcceptedIsWritten
      OBVIOUS
    <2> DEFINE o == syslog.sent
               q == syslog.queue
               t == accepted.syslog
    <2>1. o \in Seq(Nat) /\ q \in Seq(Nat) /\ t \in Seq(Nat) /\ Split(o, q, t)
      BY DEF LoggerInv, TakenInOrder, SyslogKeeps, Syslogs
    <2> HIDE DEF o, q, t
    <2>2. /\ o = SubSeq(t, 1, Len(o))
          /\ \E k \in 0 .. Len(t) :
                q = SubSeq(t, k + 1, Len(t)) /\ k <= Len(o) /\ Len(o) <= k + 1
      BY <2>1, SplitParts
    <2> QED BY <2>2 DEF AcceptedIsWritten, o, q, t
  <1> QED BY <1>1, LoggerInvariant, PTL

-----------------------------------------------------------------------------
(***************************************************************************)
(* controls.ts: the rule of an event and the refill of its bucket.         *)
(***************************************************************************)

RateRule == [target : STRING, limit : Nat, burst : Nat, interval : Nat \ {0}]

Bucket == [tokens : Nat, lastRefill : Nat]

Targets(rules) == {rules[i].target : i \in DOMAIN rules}

\* The bucket an event is counted in.
KeyOf(rules, event) == IF event \in Targets(rules) THEN event ELSE "*"

RuleOf(rules, key) == rules[FirstRule(rules, key)]

Capacity(rule) == rule.limit + rule.burst

\* Induction over the naturals, for a set instead of a predicate.
LEMMA SetInduction ==
    ASSUME NEW S, 0 \in S, \A n \in Nat : n \in S => n + 1 \in S
    PROVE  Nat \subseteq S
  <1> SUFFICES ASSUME NEW n \in Nat, n \notin S PROVE FALSE
    OBVIOUS
  <1> DEFINE A == S \cap (0 .. n)
             B == A \ {0}
             f == [a \in A |-> a + 1]
  <1>1. IsFiniteSet(A)
    <2>1. IsFiniteSet(0 .. n)
      BY FS_Interval
    <2>2. A \in SUBSET (0 .. n)
      OBVIOUS
    <2> HIDE DEF A
    <2> QED BY <2>1, <2>2, FS_Subset
  <1>2. 0 \in A /\ \A a \in A : a \in 0 .. n /\ a + 1 \in B
    OBVIOUS
  <1> HIDE DEF A
  <1>3. IsFiniteSet(B) /\ Cardinality(B) = Cardinality(A) - 1 /\ Cardinality(A) \in Nat
    BY <1>1, <1>2, FS_RemoveElement, FS_CardinalityType
  <1>4. f \in [A -> B] /\ \A x, y \in A : f[x] = f[y] => x = y
    BY <1>2
  <1>5. Cardinality(B) < Cardinality(A)
    BY <1>3
  <1> HIDE DEF B, f
  <1>6. \E x, y \in A : x # y /\ f[x] = f[y]
    BY <1>1, <1>3, <1>4, <1>5, FS_PigeonHole
  <1> QED BY <1>4, <1>6

LEMMA LeastNatural ==
    ASSUME NEW T, T \subseteq Nat, NEW t \in T
    PROVE  \E m \in T : \A n \in T : m <= n
  <1> SUFFICES ASSUME \A m \in T : \E n \in T : ~(m <= n) PROVE FALSE
    OBVIOUS
  <1> DEFINE S == {n \in Nat : \A m \in T : m > n}
  <1>1. 0 \in S
    OBVIOUS
  <1>2. ASSUME NEW n \in Nat, n \in S PROVE n + 1 \in S
    BY <1>2
  <1>3. t \in S
    <2> HIDE DEF S
    <2> QED BY <1>1, <1>2, SetInduction
  <1> QED BY <1>3

\* The first rule with a target is one of the rules and has that target.
LEMMA FirstRuleFound ==
    ASSUME NEW rules \in Seq(RateRule), NEW key \in Targets(rules)
    PROVE  RuleOf(rules, key) \in RateRule /\ RuleOf(rules, key).target = key
  <1> DEFINE T == {i \in DOMAIN rules : rules[i].target = key}
             first == FirstRule(rules, key)
  <1>1. DOMAIN rules \subseteq Nat /\ \A i \in DOMAIN rules : rules[i] \in RateRule
    <2>1. DOMAIN rules = 1 .. Len(rules) /\ Len(rules) \in Nat
      BY LenProperties
    <2>2. \A i \in 1 .. Len(rules) : rules[i] \in RateRule
      BY ElementOfSeq
    <2> QED BY <2>1, <2>2
  <1>2. PICK i \in DOMAIN rules : rules[i].target = key
    BY DEF Targets
  <1>3. T \subseteq Nat /\ i \in T
    BY <1>1, <1>2
  <1>4. \E m \in T : \A n \in T : m <= n
    <2> HIDE DEF T
    <2> QED BY <1>3, LeastNatural
  <1>5. \E m \in DOMAIN rules :
           rules[m].target = key /\ \A j \in DOMAIN rules : rules[j].target = key => m <= j
    BY <1>4
  <1>6. first \in DOMAIN rules /\ rules[first].target = key
    BY <1>5 DEF FirstRule
  <1> QED BY <1>1, <1>6 DEF RuleOf

\* The rule of an event is that of its bucket.
LEMMA RuleSelected ==
    ASSUME NEW rules, NEW event
    PROVE  /\ KeyOf(rules, event) \in Targets(rules) =>
                selectRateLimitRule(rules, event) = <<RuleOf(rules, KeyOf(rules, event))>>
           /\ KeyOf(rules, event) \notin Targets(rules) =>
                selectRateLimitRule(rules, event) = <<>>
  BY DEF KeyOf, selectRateLimitRule, RuleFor, Targets, RuleOf

LEMMA Divided ==
    ASSUME NEW a \in Nat, NEW d \in Nat \ {0}
    PROVE  /\ a \div d \in Nat /\ (a \div d) * d \in Nat
           /\ (a \div d) * d <= a /\ a < (a \div d) * d + d
  OBVIOUS

LEMMA FewerMultiples ==
    ASSUME NEW n \in Nat, NEW c \in Nat, NEW d \in Nat \ {0}, n * d < c * d + d
    PROVE  n <= c
  <1> SUFFICES ASSUME n > c PROVE FALSE
    OBVIOUS
  <1> DEFINE k == n - c - 1
  <1>1. k \in Nat /\ n = c + 1 + k
    OBVIOUS
  <1> HIDE DEF k
  <1>2. n * d = c * d + d + k * d /\ k * d \in Nat /\ c * d \in Nat /\ d \in Nat
    BY <1>1
  <1> QED BY <1>2

\* A refill adds the limit for every interval it moves on, and leaves less than an
\* interval for the next one.
LEMMA RefillAdds ==
    ASSUME NEW rule \in RateRule, NEW b \in Bucket, NEW time \in Nat,
           b.tokens <= Capacity(rule), b.lastRefill <= time
    PROVE  LET r == refillBucket(b, rule, time, Capacity(rule))
           IN  /\ r \in Bucket /\ r.tokens <= Capacity(rule)
               /\ r.lastRefill <= time /\ time < r.lastRefill + rule.interval
               /\ \E n \in Nat : /\ r.lastRefill = b.lastRefill + n * rule.interval
                                 /\ r.tokens <= b.tokens + n * rule.limit
  <1> DEFINE d == rule.interval
             m == rule.limit
             cap == Capacity(rule)
             old == b.lastRefill
             had == b.tokens
             n == (time - old) \div d
             r == refillBucket(b, rule, time, cap)
  <1>1. d \in Nat \ {0} /\ m \in Nat /\ cap \in Nat /\ old \in Nat /\ had \in Nat
    BY DEF RateRule, Bucket, Capacity
  <1>2. time - old \in Nat /\ had <= cap
    BY <1>1
  <1>3. b # Absent
    BY ControlsAssumption DEF Bucket
  <1>4. r = IF time <= old \/ n <= 0 THEN b
            ELSE [tokens |-> IF had + n * m < cap THEN had + n * m ELSE cap,
                  lastRefill |-> old + n * d]
    BY <1>3 DEF refillBucket
  <1> DEFINE z == time - old
  <1>5. /\ n \in Nat /\ n * d \in Nat /\ n * d <= z /\ z < n * d + d
    <2> HIDE DEF d, z
    <2> QED BY <1>1, <1>2, Divided DEF z
  <1>6. z = time - old
    OBVIOUS
  <1>7. n * m \in Nat
    <2> HIDE DEF n, m
    <2> QED BY <1>1, <1>5
  <1>8. CASE time <= old \/ n <= 0
    <2>1. r = b
      BY <1>4, <1>8
    <2>2. old + 0 * d = old /\ had + 0 * m = had
      BY <1>1
    <2>3. time < old + d
      <3> HIDE DEF d, old, n
      <3>1. CASE time <= old
        BY <1>1, <3>1
      <3>2. CASE n <= 0
        <4>1. n = 0 /\ 0 * d = 0
          BY <1>1, <1>5, <3>2
        <4>2. z < d
          BY <1>1, <1>5, <4>1
        <4> HIDE DEF z
        <4> QED BY <1>1, <1>6, <4>2
      <3> QED BY <1>8, <3>1, <3>2
    <2>4. r \in Bucket /\ r.tokens <= cap /\ r.lastRefill <= time /\ time < r.lastRefill + d
      BY <1>2, <2>1, <2>3
    <2>5. r.lastRefill = old + 0 * d /\ r.tokens <= had + 0 * m
      BY <1>1, <2>1, <2>2
    <2> HIDE DEF r, d, m, cap, old, had
    <2>6. \E k \in Nat : r.lastRefill = old + k * d /\ r.tokens <= had + k * m
      BY <2>5
    <2> QED BY <2>4, <2>6 DEF r, d, m, cap, old, had
  <1>9. CASE ~(time <= old \/ n <= 0)
    <2>1. r = [tokens |-> IF had + n * m < cap THEN had + n * m ELSE cap,
               lastRefill |-> old + n * d]
      BY <1>4, <1>9
    <2>2. r.lastRefill = old + n * d
      BY <2>1
    <2>3. r.tokens = IF had + n * m < cap THEN had + n * m ELSE cap
      BY <2>1
    <2> DEFINE p == n * m
               q == n * d
    <2>4. p \in Nat /\ q \in Nat /\ q <= z /\ z < q + d
      BY <1>5, <1>7
    <2>5. r = [tokens |-> IF had + p < cap THEN had + p ELSE cap, lastRefill |-> old + q]
      BY <2>1
    <2> HIDE DEF p, q, d, m, cap, old, had, n, z
    <2>6. /\ (IF had + p < cap THEN had + p ELSE cap) \in Nat /\ old + q \in Nat
          /\ old + q <= time /\ time < old + q + d
      BY <1>1, <1>2, <1>6, <2>4
    <2>7. r \in Bucket
      BY <2>5, <2>6 DEF Bucket
    <2>8. r.tokens <= cap /\ r.tokens <= had + p
      BY <1>1, <2>3, <2>4 DEF p
    <2>9. r.lastRefill = old + q
      BY <2>2 DEF q
    <2> HIDE DEF r
    <2>10. \E k \in Nat : r.lastRefill = old + k * d /\ r.tokens <= had + k * m
      BY <1>5, <2>8, <2>9 DEF p, q
    <2> QED BY <2>6, <2>7, <2>8, <2>9, <2>10 DEF r, d, m, cap, old, had
  <1> QED BY <1>8, <1>9

-----------------------------------------------------------------------------
(***************************************************************************)
(* The lines of a bucket: those that passed since a moment, and those of a *)
(* window, which are the first ones until a moment.                        *)
(***************************************************************************)

Since(rules, q, key, from) ==
    {n \in 1 .. Len(q) : KeyOf(rules, q[n][1]) = key /\ from <= q[n][2]}

Within(rules, q, key, from, to) ==
    {n \in 1 .. Len(q) : KeyOf(rules, q[n][1]) = key /\ from <= q[n][2] /\ q[n][2] <= to}

\* The lines past the limits, none of them later than now.
Passed(q, time) ==
    /\ q \in Seq(Items(q))
    /\ \A n \in 1 .. Len(q) : q[n][2] \in Nat /\ q[n][2] <= time

LEMMA LinesCounted ==
    ASSUME NEW rules, NEW q, q \in Seq(Items(q)), NEW key, NEW from, NEW to
    PROVE  /\ IsFiniteSet(Since(rules, q, key, from))
           /\ Cardinality(Since(rules, q, key, from)) \in Nat
           /\ IsFiniteSet(Within(rules, q, key, from, to))
           /\ Cardinality(Within(rules, q, key, from, to)) \in Nat
           /\ Cardinality(Within(rules, q, key, from, to)) <= Cardinality(Since(rules, q, key, from))
  <1> DEFINE all == 1 .. Len(q)
             s == Since(rules, q, key, from)
             w == Within(rules, q, key, from, to)
  <1>1. IsFiniteSet(all)
    <2>1. Len(q) \in Int
      BY LenProperties
    <2> QED BY <2>1, FS_Interval
  <1>2. s \in SUBSET all /\ w \in SUBSET s
    BY DEF Since, Within
  <1> HIDE DEF all, s, w
  <1>3. IsFiniteSet(s)
    BY <1>1, <1>2, FS_Subset
  <1>4. IsFiniteSet(w) /\ Cardinality(w) <= Cardinality(s)
    BY <1>2, <1>3, FS_Subset
  <1>5. Cardinality(s) \in Nat /\ Cardinality(w) \in Nat
    BY <1>3, <1>4, FS_CardinalityType
  <1> QED BY <1>3, <1>4, <1>5 DEF s, w

\* A line that passes is the last one.
LEMMA LinePasses ==
    ASSUME NEW q, NEW time \in Nat, Passed(q, time), NEW event
    PROVE  LET u == Append(q, <<event, time>>)
           IN  /\ Passed(u, time) /\ Len(q) \in Nat /\ Len(u) = Len(q) + 1
               /\ \A n \in 1 .. Len(q) : u[n] = q[n]
               /\ u[Len(q) + 1] = <<event, time>>
  <1> DEFINE x == <<event, time>>
             S == Items(q) \cup {x}
             u == Append(q, x)
             len == Len(q)
  <1>1. q \in Seq(S)
    <2> DEFINE T == Items(q)
    <2>1. q \in Seq(T) /\ T \subseteq S
      BY DEF Passed
    <2> HIDE DEF T, S
    <2> QED BY <2>1, SeqMonotonic
  <1>2. x \in S
    OBVIOUS
  <1> HIDE DEF S
  <1>3. x[2] = time
    OBVIOUS
  <1> HIDE DEF x
  <1>4. /\ len \in Nat /\ Len(u) = len + 1 /\ \A n \in 1 .. len : u[n] = q[n]
        /\ u[len + 1] = x
    BY <1>1, <1>2, AppendProperties, LenProperties
  <1>5. q \in Seq(Items(q))
    BY DEF Passed
  <1>6. u \in Seq(Items(u))
    BY <1>5, NextAllowed
  <1>7. \A n \in 1 .. len : q[n][2] \in Nat /\ q[n][2] <= time
    BY DEF Passed
  <1> HIDE DEF u, len
  <1>8. \A n \in 1 .. Len(u) : u[n][2] \in Nat /\ u[n][2] <= time
    <2> TAKE n \in 1 .. Len(u)
    <2>1. CASE n \in 1 .. len
      BY <1>4, <1>7, <2>1
    <2>2. CASE n = len + 1
      BY <1>3, <1>4, <2>2
    <2> QED BY <1>4, <2>1, <2>2
  <1>9. Passed(u, time)
    BY <1>6, <1>8 DEF Passed
  <1> QED BY <1>4, <1>9 DEF u, len, x

\* It is counted in its own bucket only, and in the windows that are open.
LEMMA LineCounted ==
    ASSUME NEW rules, NEW q, NEW time \in Nat, Passed(q, time), NEW event, NEW key
    PROVE  LET u == Append(q, <<event, time>>)
           IN  /\ \A from \in Nat :
                     IF KeyOf(rules, event) = key /\ from <= time
                     THEN Cardinality(Since(rules, u, key, from))
                            = Cardinality(Since(rules, q, key, from)) + 1
                     ELSE Since(rules, u, key, from) = Since(rules, q, key, from)
               /\ \A from, to \in Nat :
                     KeyOf(rules, event) # key \/ to < time =>
                        Within(rules, u, key, from, to) = Within(rules, q, key, from, to)
  <1> DEFINE x == <<event, time>>
             u == Append(q, x)
             len == Len(q)
  <1>1. /\ q \in Seq(Items(q)) /\ len \in Nat /\ Len(u) = len + 1
        /\ \A n \in 1 .. len : u[n] = q[n]
        /\ u[len + 1] = x
    BY LinePasses DEF Passed
  <1>2. x[1] = event /\ x[2] = time
    OBVIOUS
  <1>3. u[len + 1][1] = event /\ u[len + 1][2] = time
    BY <1>1, <1>2
  <1>4. /\ \A n \in 1 .. len : u[n][1] = q[n][1] /\ u[n][2] = q[n][2]
        /\ 1 .. Len(u) = (1 .. len) \cup {len + 1} /\ len + 1 \notin 1 .. len
    BY <1>1
  <1> HIDE DEF x, u
  <1>5. ASSUME NEW from \in Nat
        PROVE  IF KeyOf(rules, event) = key /\ from <= time
               THEN Cardinality(Since(rules, u, key, from))
                      = Cardinality(Since(rules, q, key, from)) + 1
               ELSE Since(rules, u, key, from) = Since(rules, q, key, from)
    <2> DEFINE s == Since(rules, q, key, from)
               t == Since(rules, u, key, from)
    <2>1. /\ s = {n \in 1 .. len : KeyOf(rules, q[n][1]) = key /\ from <= q[n][2]}
          /\ t = {n \in 1 .. Len(u) : KeyOf(rules, u[n][1]) = key /\ from <= u[n][2]}
      BY DEF Since
    <2> HIDE DEF s, t, len
    <2>2. CASE KeyOf(rules, event) = key /\ from <= time
      <3>1. t = s \cup {len + 1} /\ len + 1 \notin s
        BY <1>3, <1>4, <2>1, <2>2
      <3>2. IsFiniteSet(s)
        BY <1>1, LinesCounted DEF s
      <3>3. Cardinality(t) = Cardinality(s) + 1
        BY <3>1, <3>2, FS_AddElement
      <3> QED BY <2>2, <3>3 DEF s, t
    <2>3. CASE ~(KeyOf(rules, event) = key /\ from <= time)
      <3>1. t = s
        BY <1>3, <1>4, <2>1, <2>3
      <3> QED BY <2>3, <3>1 DEF s, t
    <2> QED BY <2>2, <2>3
  <1>6. ASSUME NEW from \in Nat, NEW to \in Nat, KeyOf(rules, event) # key \/ to < time
        PROVE  Within(rules, u, key, from, to) = Within(rules, q, key, from, to)
    <2> DEFINE s == Within(rules, q, key, from, to)
               t == Within(rules, u, key, from, to)
    <2>1. /\ s = {n \in 1 .. len : KeyOf(rules, q[n][1]) = key /\ from <= q[n][2] /\ q[n][2] <= to}
          /\ t = {n \in 1 .. Len(u) : KeyOf(rules, u[n][1]) = key /\ from <= u[n][2] /\ u[n][2] <= to}
      BY DEF Within
    <2> HIDE DEF s, t, len
    <2>2. ~(KeyOf(rules, event) = key /\ time <= to)
      BY <1>6
    <2>3. t = s
      BY <1>3, <1>4, <2>1, <2>2
    <2> QED BY <2>3 DEF s, t
  <1> QED BY <1>5, <1>6 DEF u, x

-----------------------------------------------------------------------------
(***************************************************************************)
(* The limit.  What passed since a moment and what is left in the bucket   *)
(* together are no more than the capacity and a limit for every interval   *)
(* the bucket has moved on since; a closed window keeps the bound it had.  *)
(***************************************************************************)

WindowBound(rules, q, key) ==
    \A from, to, c \in Nat :
       to <= from + c * RuleOf(rules, key).interval =>
          Cardinality(Within(rules, q, key, from, to))
            <= Capacity(RuleOf(rules, key)) + c * RuleOf(rules, key).limit

\* No line is an interval younger than the last refill: one that passes then refills.
BucketBound(rules, q, key, b, time) ==
    IF b = Absent THEN Since(rules, q, key, 0) = {}
    ELSE /\ b \in Bucket /\ b.tokens <= Capacity(RuleOf(rules, key)) /\ b.lastRefill <= time
         /\ \A n \in Since(rules, q, key, 0) :
               q[n][2] < b.lastRefill + RuleOf(rules, key).interval
         /\ \A from, c \in Nat :
               b.lastRefill <= from + c * RuleOf(rules, key).interval =>
                  Cardinality(Since(rules, q, key, from)) + b.tokens
                    <= Capacity(RuleOf(rules, key)) + c * RuleOf(rules, key).limit

Refilled(rule, b, time) ==
    IF Capacity(rule) <= 0 THEN [tokens |-> 0, lastRefill |-> time]
    ELSE refillBucket(b, rule, time, Capacity(rule))

LEMMA NoneSince ==
    ASSUME NEW rules, NEW q, NEW time \in Nat, Passed(q, time), NEW key, NEW from \in Nat
    PROVE  /\ Since(rules, q, key, from) \subseteq Since(rules, q, key, 0)
           /\ Since(rules, q, key, from) = {} => Cardinality(Since(rules, q, key, from)) = 0
           /\ Cardinality(Since(rules, q, key, from)) = 0 => Since(rules, q, key, from) = {}
           /\ \A n \in Since(rules, q, key, from) :
                 q[n][2] \in Nat /\ from <= q[n][2] /\ q[n][2] <= time
  <1>1. \A n \in 1 .. Len(q) : q[n][2] \in Nat /\ q[n][2] <= time
    BY DEF Passed
  <1> DEFINE s == Since(rules, q, key, from)
  <1>2. IsFiniteSet(s)
    BY LinesCounted DEF Passed
  <1>3. (s = {} => Cardinality(s) = 0) /\ (Cardinality(s) = 0 => s = {})
    <2> HIDE DEF s
    <2> QED BY <1>2, FS_EmptySet
  <1>4. \A n \in s : n \in 1 .. Len(q) /\ KeyOf(rules, q[n][1]) = key /\ from <= q[n][2]
    BY DEF Since
  <1>5. \A n \in s : q[n][2] \in Nat /\ from <= q[n][2] /\ q[n][2] <= time
    <2> HIDE DEF s
    <2> QED BY <1>1, <1>4
  <1>6. s \subseteq Since(rules, q, key, 0)
    <2>1. \A n \in s : 0 <= q[n][2]
      <3> HIDE DEF s
      <3> QED BY <1>5
    <2> QED BY <1>4, <2>1 DEF Since
  <1> QED BY <1>3, <1>5, <1>6

\* The bound of a bucket, in the numbers of its rule.
LEMMA RefillBounded ==
    ASSUME NEW rules \in Seq(RateRule), NEW key \in Targets(rules), NEW q, NEW time \in Nat,
           Passed(q, time), NEW b, BucketBound(rules, q, key, b, time)
    PROVE  LET r == Refilled(RuleOf(rules, key), b, time)
           IN  /\ r \in Bucket /\ BucketBound(rules, q, key, r, time)
               /\ time < r.lastRefill + RuleOf(rules, key).interval
  <1> DEFINE rule == RuleOf(rules, key)
             d == rule.interval
             m == rule.limit
             cap == Capacity(rule)
             r == Refilled(rule, b, time)
             lines(from) == Cardinality(Since(rules, q, key, from))
  <1>1. rule \in RateRule
    BY FirstRuleFound
  <1>2. d \in Nat \ {0} /\ m \in Nat /\ cap \in Nat /\ (cap = 0 => m = 0)
    BY <1>1 DEF RateRule, Capacity
  <1>3. \A from \in Nat : lines(from) \in Nat
    BY LinesCounted DEF Passed
  <1>4. r \in Bucket => r # Absent
    BY ControlsAssumption DEF Bucket
  <1>5. ASSUME r \in Bucket, r.tokens <= cap, r.lastRefill <= time, time < r.lastRefill + d,
               \A n \in Since(rules, q, key, 0) : q[n][2] < r.lastRefill + d,
               \A from, c \in Nat : r.lastRefill <= from + c * d =>
                  lines(from) + r.tokens <= cap + c * m
        PROVE  r \in Bucket /\ BucketBound(rules, q, key, r, time) /\ time < r.lastRefill + d
    BY <1>4, <1>5 DEF BucketBound
  <1>6. ASSUME Since(rules, q, key, 0) = {}
        PROVE  \A from \in Nat : lines(from) = 0
    <2> TAKE from \in Nat
    <2>1. Since(rules, q, key, from) \subseteq Since(rules, q, key, 0)
      BY NoneSince
    <2>2. Since(rules, q, key, from) = {}
      BY <1>6, <2>1
    <2> QED BY <2>2, FS_EmptySet
  <1>7. \A c \in Nat : c * m \in Nat /\ c * d \in Nat
    <2> HIDE DEF m, d
    <2> QED BY <1>2
  <1>8. CASE cap = 0
    <2>1. r = [tokens |-> 0, lastRefill |-> time]
      BY <1>8 DEF Refilled
    <2>2. Since(rules, q, key, 0) = {}
      <3>1. CASE b = Absent
        BY <3>1 DEF BucketBound
      <3>2. CASE b # Absent
        <4>1. /\ b \in Bucket
              /\ \A c \in Nat : b.lastRefill <= 0 + c * d => lines(0) + b.tokens <= cap + c * m
          BY <3>2 DEF BucketBound
        <4>2. b.lastRefill \in Nat /\ b.tokens \in Nat
          BY <4>1 DEF Bucket
        <4> DEFINE l == b.lastRefill
        <4>3. l <= 0 + l * d /\ l * m = 0
          <5> HIDE DEF l, d, m
          <5>1. l \in Nat
            BY <4>2 DEF l
          <5> DEFINE e == d - 1
          <5>2. e \in Nat /\ d = e + 1
            BY <1>2
          <5> HIDE DEF e
          <5>3. l * d = l * e + l /\ l * e \in Nat
            BY <5>1, <5>2
          <5>4. m = 0
            BY <1>2, <1>8
          <5> QED BY <5>1, <5>3, <5>4
        <4>4. lines(0) + b.tokens <= cap + l * m
          BY <4>1, <4>2, <4>3
        <4>5. lines(0) = 0
          <5> DEFINE x == lines(0)
                     y == b.tokens
          <5>1. x \in Nat /\ y \in Nat
            BY <1>3, <4>2
          <5> HIDE DEF x, y, m, l, cap
          <5>2. x + y <= 0
            BY <1>8, <4>3, <4>4 DEF x, y
          <5>3. x = 0
            BY <5>1, <5>2
          <5> QED BY <5>3 DEF x
        <4> QED BY <4>5, NoneSince
      <3> QED BY <3>1, <3>2
    <2>3. r.tokens = 0 /\ r.lastRefill = time
      BY <2>1
    <2>4. r \in Bucket /\ r.tokens <= cap /\ r.lastRefill <= time /\ time < r.lastRefill + d
      BY <1>2, <2>1, <2>3 DEF Bucket
    <2>5. \A n \in Since(rules, q, key, 0) : q[n][2] < r.lastRefill + d
      BY <2>2
    <2>6. \A from, c \in Nat : lines(from) + r.tokens <= cap + c * m
      <3>1. \A from \in Nat : lines(from) = 0
        BY <1>6, <2>2
      <3> HIDE DEF lines, r, m, cap
      <3> TAKE from, c \in Nat
      <3>2. lines(from) + r.tokens = 0 /\ c * m \in Nat
        BY <1>7, <2>3, <3>1
      <3> DEFINE p == c * m
      <3> HIDE DEF p
      <3>3. lines(from) + r.tokens <= cap + p
        BY <1>2, <3>2 DEF p
      <3> QED BY <3>3 DEF p
    <2> QED BY <1>5, <2>4, <2>5, <2>6
  <1>9. CASE cap # 0
    <2>1. r = refillBucket(b, rule, time, cap)
      BY <1>2, <1>9 DEF Refilled
    <2>2. CASE b = Absent
      <3>1. r = [tokens |-> cap, lastRefill |-> time]
        BY <2>1, <2>2 DEF refillBucket
      <3>2. Since(rules, q, key, 0) = {}
        BY <2>2 DEF BucketBound
      <3>3. r.tokens = cap /\ r.lastRefill = time
        BY <3>1
      <3>4. r \in Bucket /\ r.tokens <= cap /\ r.lastRefill <= time /\ time < r.lastRefill + d
        BY <1>2, <3>1, <3>3 DEF Bucket
      <3>5. \A n \in Since(rules, q, key, 0) : q[n][2] < r.lastRefill + d
        BY <3>2
      <3>6. \A from, c \in Nat : lines(from) + r.tokens <= cap + c * m
        <4>1. \A from \in Nat : lines(from) = 0
          BY <1>6, <3>2
        <4> HIDE DEF lines, r, m, cap
        <4> TAKE from, c \in Nat
        <4> DEFINE p == c * m
        <4>2. lines(from) + r.tokens = cap /\ p \in Nat
          BY <1>2, <1>7, <3>3, <4>1
        <4> HIDE DEF p
        <4>3. lines(from) + r.tokens <= cap + p
          BY <1>2, <4>2
        <4> QED BY <4>3 DEF p
      <3> QED BY <1>5, <3>4, <3>5, <3>6
    <2>3. CASE b # Absent
      <3> DEFINE old == b.lastRefill
                 had == b.tokens
      <3>1. /\ b \in Bucket /\ had <= cap /\ old <= time
            /\ \A n \in Since(rules, q, key, 0) : q[n][2] < old + d
            /\ \A from, c \in Nat : old <= from + c * d => lines(from) + had <= cap + c * m
        BY <2>3 DEF BucketBound
      <3>2. old \in Nat /\ had \in Nat
        BY <3>1 DEF Bucket
      <3>3. /\ r \in Bucket /\ r.tokens <= cap
            /\ r.lastRefill <= time /\ time < r.lastRefill + d
            /\ \E n \in Nat : r.lastRefill = old + n * d /\ r.tokens <= had + n * m
        BY <1>1, <2>1, <3>1, RefillAdds
      <3>4. PICK n \in Nat : r.lastRefill = old + n * d /\ r.tokens <= had + n * m
        BY <3>3
      <3>5. r.lastRefill \in Nat /\ r.tokens \in Nat
        BY <3>3 DEF Bucket
      <3> HIDE DEF r, old, had, d, m, cap, lines
      <3>6. \A i \in Since(rules, q, key, 0) : q[i][2] < r.lastRefill + d
        <4> TAKE i \in Since(rules, q, key, 0)
        <4>1. q[i][2] \in Nat /\ q[i][2] < old + d
          BY <3>1, NoneSince
        <4> QED BY <1>2, <1>7, <3>2, <3>4, <4>1
      <3>7. ASSUME NEW from \in Nat, NEW c \in Nat, r.lastRefill <= from + c * d
            PROVE  lines(from) + r.tokens <= cap + c * m
        <4>1. CASE lines(from) = 0
          BY <1>2, <1>7, <3>3, <3>5, <4>1
        <4>2. CASE lines(from) # 0
          <5>15. Since(rules, q, key, from) = {} => lines(from) = 0
            BY FS_EmptySet DEF lines
          <5>0. Since(rules, q, key, from) # {}
            BY <4>2, <5>15
          <5>1. PICK i \in Since(rules, q, key, from) : TRUE
            BY <5>0
          <5>2. q[i][2] \in Nat /\ from <= q[i][2] /\ q[i][2] < old + d
            BY <3>1, NoneSince
          <5> DEFINE cd == c * d
                     nd == n * d
          <5>14. cd \in Nat /\ nd \in Nat /\ r.lastRefill = old + nd /\ r.lastRefill <= from + cd
            BY <1>7, <3>4, <3>7
          <5>3. n * d < c * d + d
            <6> HIDE DEF cd, nd
            <6>1. nd < cd + d
              BY <1>2, <3>2, <5>2, <5>14
            <6> QED BY <6>1 DEF cd, nd
          <5>4. n <= c
            BY <1>2, <5>3, FewerMultiples
          <5> DEFINE k == c - n
          <5>5. k \in Nat /\ c = k + n
            BY <5>4
          <5> HIDE DEF k
          <5>6. c * d = k * d + n * d /\ c * m = k * m + n * m
            BY <1>2, <5>5
          <5> DEFINE kd == k * d
                     km == k * m
                     nm == n * m
                     cm == c * m
          <5>7. /\ kd \in Nat /\ km \in Nat /\ nm \in Nat /\ cm \in Nat
                /\ cd = kd + nd /\ cm = km + nm /\ r.tokens <= had + nm
            BY <1>7, <3>4, <5>5, <5>6
          <5>8. old <= from + kd
            <6> HIDE DEF cd, nd, kd, km, nm, cm
            <6> QED BY <3>2, <5>7, <5>14
          <5>9. lines(from) + had <= cap + km
            BY <3>1, <5>5, <5>8
          <5>10. lines(from) \in Nat
            BY <1>3
          <5>11. lines(from) + r.tokens <= cap + cm
            <6> HIDE DEF cd, nd, kd, km, nm, cm
            <6> QED BY <1>2, <3>2, <3>5, <5>7, <5>9, <5>10
          <5> QED BY <5>11
        <4> QED BY <4>1, <4>2
      <3> QED BY <1>5, <3>3, <3>6, <3>7 DEF r, d, m, cap, lines
    <2> QED BY <2>2, <2>3
  <1> QED BY <1>2, <1>8, <1>9

\* A line that passes takes a token.
LEMMA TokenTaken ==
    ASSUME NEW rules \in Seq(RateRule), NEW q, NEW time \in Nat, Passed(q, time), NEW event,
           NEW key \in Targets(rules), KeyOf(rules, event) = key,
           NEW r \in Bucket, BucketBound(rules, q, key, r, time), r.tokens > 0,
           time < r.lastRefill + RuleOf(rules, key).interval, WindowBound(rules, q, key)
    PROVE  LET u == Append(q, <<event, time>>)
               s == [r EXCEPT !.tokens = @ - 1]
           IN  s \in Bucket /\ BucketBound(rules, u, key, s, time) /\ WindowBound(rules, u, key)
  <1> DEFINE rule == RuleOf(rules, key)
             d == rule.interval
             m == rule.limit
             cap == Capacity(rule)
             u == Append(q, <<event, time>>)
             s == [r EXCEPT !.tokens = @ - 1]
             lines(v, from) == Cardinality(Since(rules, v, key, from))
             window(v, from, to) == Cardinality(Within(rules, v, key, from, to))
  <1>1. rule \in RateRule
    BY FirstRuleFound
  <1>2. d \in Nat \ {0} /\ m \in Nat /\ cap \in Nat
    BY <1>1 DEF RateRule, Capacity
  <1>3. /\ r # Absent /\ r.tokens \in Nat /\ r.lastRefill \in Nat
        /\ s \in Bucket /\ s # Absent /\ s.tokens = r.tokens - 1 /\ s.lastRefill = r.lastRefill
    BY ControlsAssumption DEF Bucket
  <1>4. /\ Passed(u, time) /\ Len(q) \in Nat /\ Len(u) = Len(q) + 1
        /\ \A n \in 1 .. Len(q) : u[n] = q[n]
    BY LinePasses
  <1>5. /\ r.tokens <= cap /\ r.lastRefill <= time
        /\ \A from, c \in Nat : r.lastRefill <= from + c * d => lines(q, from) + r.tokens <= cap + c * m
    BY <1>3 DEF BucketBound
  <1>6. \A from \in Nat : lines(q, from) \in Nat /\ lines(u, from) \in Nat
    BY <1>4, LinesCounted DEF Passed
  <1>7. \A from, to \in Nat : window(u, from, to) \in Nat /\ window(u, from, to) <= lines(u, from)
    BY <1>4, LinesCounted DEF Passed
  <1>8. \A from \in Nat :
           lines(u, from) = IF from <= time THEN lines(q, from) + 1 ELSE lines(q, from)
    BY LineCounted
  <1>9. \A from \in Nat : time < from => lines(u, from) = 0
    <2> TAKE from \in Nat
    <2> HAVE time < from
    <2>1. \A n \in Since(rules, u, key, from) :
             u[n][2] \in Nat /\ from <= u[n][2] /\ u[n][2] <= time
      BY <1>4, NoneSince
    <2>2. Since(rules, u, key, from) = {}
      <3> DEFINE t == Since(rules, u, key, from)
      <3>1. \A n \in t : u[n][2] \in Nat /\ from <= u[n][2] /\ u[n][2] <= time
        BY <2>1
      <3> HIDE DEF t, u
      <3>2. t = {}
        BY <3>1
      <3> QED BY <3>2 DEF t
    <2> QED BY <1>4, <2>2, NoneSince
  <1>10. \A n \in Since(rules, u, key, 0) : u[n][2] < s.lastRefill + d
    <2> TAKE n \in Since(rules, u, key, 0)
    <2>1. u[n][2] \in Nat /\ u[n][2] <= time
      BY <1>4, NoneSince
    <2>2. time < s.lastRefill + d
      BY <1>3
    <2> HIDE DEF d, s, u
    <2> QED BY <1>2, <1>3, <2>1, <2>2
  <1>11. ASSUME NEW from \in Nat, NEW c \in Nat, s.lastRefill <= from + c * d
         PROVE  lines(u, from) + s.tokens <= cap + c * m
    <2>1. c * m \in Nat
      BY <1>2
    <2>2. lines(q, from) + r.tokens <= cap + c * m
      BY <1>3, <1>5, <1>11
    <2> DEFINE p == c * m
               a == lines(q, from)
               z == lines(u, from)
    <2>3. /\ p \in Nat /\ a \in Nat /\ z \in Nat /\ a + r.tokens <= cap + p
          /\ z = IF from <= time THEN a + 1 ELSE a
          /\ time < from => z = 0
      BY <1>6, <1>8, <1>9, <2>1, <2>2
    <2> HIDE DEF p, a, z, cap, m, d, s, u
    <2>4. CASE from <= time
      <3>1. z = a + 1
        BY <2>3, <2>4
      <3>2. z + s.tokens <= cap + p
        BY <1>2, <1>3, <2>3, <3>1
      <3> QED BY <3>2 DEF z, p
    <2>5. CASE time < from
      <3>1. z = 0
        BY <2>3, <2>5
      <3>2. z + s.tokens <= cap + p
        BY <1>2, <1>3, <1>5, <2>3, <3>1
      <3> QED BY <3>2 DEF z, p
    <2> QED BY <2>4, <2>5
  <1>12. s.tokens <= cap /\ s.lastRefill <= time
    <2> HIDE DEF cap, s
    <2> QED BY <1>2, <1>3, <1>5
  <1>13. BucketBound(rules, u, key, s, time)
    <2> HIDE DEF s, u
    <2> QED BY <1>3, <1>10, <1>11, <1>12 DEF BucketBound
  <1>14. ASSUME NEW from \in Nat, NEW to \in Nat, NEW c \in Nat, to <= from + c * d
         PROVE  window(u, from, to) <= cap + c * m
    <2>1. CASE to < time
      <3>1. window(u, from, to) = window(q, from, to)
        BY <2>1, LineCounted
      <3>2. window(q, from, to) <= cap + c * m
        BY <1>14 DEF WindowBound
      <3> QED BY <3>1, <3>2
    <2>2. CASE time <= to
      <3>1. c * m \in Nat /\ c * d \in Nat
        BY <1>2
      <3>2. s.lastRefill <= from + c * d
        <4> HIDE DEF d, s
        <4> QED BY <1>2, <1>3, <1>5, <1>14, <2>2, <3>1
      <3>3. lines(u, from) + s.tokens <= cap + c * m
        BY <1>11, <3>2
      <3>4. s.tokens \in Nat
        BY <1>3 DEF Bucket
      <3> DEFINE p == c * m
                 z == lines(u, from)
                 w == window(u, from, to)
      <3>5. p \in Nat /\ z \in Nat /\ w \in Nat /\ w <= z /\ z + s.tokens <= cap + p
        BY <1>6, <1>7, <3>1, <3>3
      <3> HIDE DEF p, z, w, cap, s
      <3>6. w <= cap + p
        BY <1>2, <3>4, <3>5
      <3> QED BY <3>6 DEF w, p
    <2> QED BY <2>1, <2>2
  <1>15. WindowBound(rules, u, key)
    <2> HIDE DEF u
    <2> QED BY <1>14 DEF WindowBound
  <1> QED BY <1>3, <1>13, <1>15

\* It is no business of the other buckets.
LEMMA OtherBucket ==
    ASSUME NEW rules, NEW q, NEW time \in Nat, Passed(q, time), NEW event,
           NEW key, KeyOf(rules, event) # key,
           NEW b, BucketBound(rules, q, key, b, time), WindowBound(rules, q, key)
    PROVE  LET u == Append(q, <<event, time>>)
           IN  BucketBound(rules, u, key, b, time) /\ WindowBound(rules, u, key)
  <1> DEFINE u == Append(q, <<event, time>>)
  <1>1. \A from \in Nat : Since(rules, u, key, from) = Since(rules, q, key, from)
    BY LineCounted
  <1>2. \A from, to \in Nat : Within(rules, u, key, from, to) = Within(rules, q, key, from, to)
    BY LineCounted
  <1>3. \A n \in Since(rules, q, key, 0) : u[n] = q[n]
    BY LinePasses DEF Since
  <1> HIDE DEF u
  <1>4. BucketBound(rules, u, key, b, time)
    <2>1. Since(rules, u, key, 0) = Since(rules, q, key, 0)
      BY <1>1
    <2>2. CASE b = Absent
      BY <2>1, <2>2 DEF BucketBound
    <2>3. CASE b # Absent
      BY <1>1, <1>3, <2>1, <2>3 DEF BucketBound
    <2> QED BY <2>2, <2>3
  <1>5. WindowBound(rules, u, key)
    BY <1>2 DEF WindowBound
  <1> QED BY <1>4, <1>5 DEF u

Limited(rules, q, buckets, time) ==
    \A key \in Targets(rules) :
       BucketBound(rules, q, key, buckets[key], time) /\ WindowBound(rules, q, key)

Buckets(rules) == [Targets(rules) -> Bucket \cup {Absent}]

\* An event without a rule passes and changes nothing.
LEMMA RateUnlimited ==
    ASSUME NEW rules, NEW event, NEW time, NEW buckets, KeyOf(rules, event) \notin Targets(rules)
    PROVE  evaluateRateLimit(event, time, rules, buckets) = [allow |-> TRUE, buckets |-> buckets]
  <1>1. selectRateLimitRule(rules, event) = <<>>
    BY RuleSelected
  <1> QED BY <1>1 DEF evaluateRateLimit

\* A token decides, and is taken.
Verdict(buckets, key, r) ==
    [allow |-> r.tokens > 0,
     buckets |-> [buckets EXCEPT ![key] = IF r.tokens > 0 THEN [r EXCEPT !.tokens = @ - 1] ELSE r]]

\* The verdict on an event is that of its bucket, and no other bucket changes.
LEMMA RateDecided ==
    ASSUME NEW rules \in Seq(RateRule), NEW event, NEW time, NEW buckets,
           KeyOf(rules, event) \in Targets(rules)
    PROVE  LET k == KeyOf(rules, event)
           IN  evaluateRateLimit(event, time, rules, buckets)
                 = Verdict(buckets, k, Refilled(RuleOf(rules, k), buckets[k], time))
  <1> DEFINE d == evaluateRateLimit(event, time, rules, buckets)
             k == KeyOf(rules, event)
             rule == RuleOf(rules, k)
             r == Refilled(rule, buckets[k], time)
             sel == selectRateLimitRule(rules, event)
  <1>1. sel = <<rule>> /\ sel # <<>> /\ Head(sel) = rule
    BY RuleSelected
  <1>2. rule.target = k
    BY FirstRuleFound
  <1>3. (IF rule.target = "*" THEN "*" ELSE event) = k
    BY <1>2 DEF KeyOf
  <1>4. r = IF rule.limit + rule.burst <= 0 THEN [tokens |-> 0, lastRefill |-> time]
            ELSE refillBucket(buckets[k], rule, time, rule.limit + rule.burst)
    BY DEF Refilled, Capacity
  <1> DEFINE Key(x) == IF x.target = "*" THEN "*" ELSE event
             Fill(x) == IF x.limit + x.burst <= 0 THEN [tokens |-> 0, lastRefill |-> time]
                        ELSE refillBucket(buckets[Key(x)], x, time, x.limit + x.burst)
  <1>5. d = IF sel = <<>> THEN [allow |-> TRUE, buckets |-> buckets]
            ELSE Verdict(buckets, Key(Head(sel)), Fill(Head(sel)))
    BY DEF evaluateRateLimit, Verdict
  <1>6. Key(rule) = k
    BY <1>3
  <1>7. Fill(rule) = r
    BY <1>4, <1>6
  <1> HIDE DEF d, sel, r, rule, k, Fill, Key
  <1>8. d = Verdict(buckets, k, r)
    BY <1>1, <1>5, <1>6, <1>7
  <1> QED BY <1>8 DEF d, k, r, rule

\* What the limits decide keeps to them, whether the line passes or not.
LEMMA DecisionLimited ==
    ASSUME NEW rules \in Seq(RateRule), NEW q, NEW time \in Nat, Passed(q, time), NEW event,
           NEW buckets \in Buckets(rules), Limited(rules, q, buckets, time)
    PROVE  LET d == evaluateRateLimit(event, time, rules, buckets)
               u == Append(q, <<event, time>>)
           IN  /\ d.buckets \in Buckets(rules)
               /\ ~d.allow => Limited(rules, q, d.buckets, time)
               /\ d.allow => Limited(rules, u, d.buckets, time)
  <1> DEFINE d == evaluateRateLimit(event, time, rules, buckets)
             u == Append(q, <<event, time>>)
             k == KeyOf(rules, event)
             r == Refilled(RuleOf(rules, k), buckets[k], time)
             s == [r EXCEPT !.tokens = @ - 1]
  <1>1. \A key \in Targets(rules) :
           BucketBound(rules, q, key, buckets[key], time) /\ WindowBound(rules, q, key)
    BY DEF Limited
  <1>2. \A key \in Targets(rules) : key # k =>
           BucketBound(rules, u, key, buckets[key], time) /\ WindowBound(rules, u, key)
    BY <1>1, OtherBucket
  <1>3. CASE k \notin Targets(rules)
    <2>0. d = [allow |-> TRUE, buckets |-> buckets]
      BY <1>3, RateUnlimited
    <2>1. d.allow = TRUE /\ d.buckets = buckets
      <3> HIDE DEF d
      <3> QED BY <2>0
    <2>2. \A key \in Targets(rules) : key # k
      BY <1>3
    <2> HIDE DEF d, u, k
    <2>3. Limited(rules, u, buckets, time)
      BY <1>2, <2>2 DEF Limited
    <2> QED BY <2>1, <2>3 DEF d, u
  <1>4. CASE k \in Targets(rules)
    <2>1. /\ d.allow = (r.tokens > 0)
          /\ d.buckets = [buckets EXCEPT ![k] = IF r.tokens > 0 THEN s ELSE r]
      <3>1. d = Verdict(buckets, k, r)
        BY <1>4, RateDecided
      <3> HIDE DEF d, k, r
      <3> QED BY <3>1 DEF Verdict
    <2>2. /\ r \in Bucket /\ BucketBound(rules, q, k, r, time)
          /\ time < r.lastRefill + RuleOf(rules, k).interval
      BY <1>1, <1>4, RefillBounded
    <2>3. r.tokens > 0 =>
             s \in Bucket /\ BucketBound(rules, u, k, s, time) /\ WindowBound(rules, u, k)
      BY <1>1, <1>4, <2>2, TokenTaken
    <2> DEFINE new == d.buckets
    <2>4. new = [buckets EXCEPT ![k] = IF r.tokens > 0 THEN s ELSE r]
      BY <2>1
    <2> HIDE DEF d, u, k, r, s, new
    <2>5. /\ new \in Buckets(rules) /\ new[k] = IF r.tokens > 0 THEN s ELSE r
          /\ \A key \in Targets(rules) : key # k => new[key] = buckets[key]
      BY <1>4, <2>2, <2>3, <2>4 DEF Buckets
    <2>6. CASE r.tokens > 0
      <3>1. Limited(rules, u, new, time)
        <4> SUFFICES ASSUME NEW key \in Targets(rules)
                     PROVE  BucketBound(rules, u, key, new[key], time) /\ WindowBound(rules, u, key)
          BY DEF Limited
        <4>1. CASE key = k
          BY <2>3, <2>5, <2>6, <4>1
        <4>2. CASE key # k
          BY <1>2, <2>5, <4>2
        <4> QED BY <4>1, <4>2
      <3>2. d.allow
        <4>1. d.allow = (r.tokens > 0)
          BY <2>1
        <4> QED BY <2>6, <4>1, Zenon
      <3> QED BY <2>5, <3>1, <3>2 DEF new, d, u
    <2>7. CASE ~(r.tokens > 0)
      <3>1. Limited(rules, q, new, time)
        <4> SUFFICES ASSUME NEW key \in Targets(rules)
                     PROVE  BucketBound(rules, q, key, new[key], time) /\ WindowBound(rules, q, key)
          BY DEF Limited
        <4>1. CASE key = k
          BY <1>1, <2>2, <2>5, <2>7, <4>1
        <4>2. CASE key # k
          BY <1>1, <2>5, <4>2
        <4> QED BY <4>1, <4>2
      <3>2. ~d.allow
        <4>1. d.allow = (r.tokens > 0)
          BY <2>1
        <4> QED BY <2>7, <4>1, Zenon
      <3> QED BY <2>5, <3>1, <3>2 DEF new, d, u
    <2> QED BY <2>6, <2>7
  <1> QED BY <1>3, <1>4

-----------------------------------------------------------------------------
(***************************************************************************)
(* The limits of a logger.                                                 *)
(***************************************************************************)

ControlStates(rules) ==
    [buckets : Buckets(rules), published : Nat, droppedBySampling : Nat, droppedByRateLimit : Nat]

RateInv ==
    /\ config \in LogConfigs /\ now \in Nat /\ Passed(allowed, now)
    /\ controlState \in ControlStates(config.controls.rateLimit)
    /\ Limited(config.controls.rateLimit, allowed, controlState.buckets, now)

\* Sampling takes no token, and a line that is dropped changes its own bucket only.
LEMMA ControlsLimited ==
    ASSUME NEW event, NEW draw, RateInv
    PROVE  LET d == evaluateLoggingControls(event, now, config.controls, controlState, draw)
               rules == config.controls.rateLimit
               u == Append(allowed, <<event, now>>)
           IN  /\ d.state \in ControlStates(rules)
               /\ ~d.allow => Limited(rules, allowed, d.state.buckets, now)
               /\ d.allow => Limited(rules, u, d.state.buckets, now)
  <1> DEFINE d == evaluateLoggingControls(event, now, config.controls, controlState, draw)
             rules == config.controls.rateLimit
             u == Append(allowed, <<event, now>>)
             buckets == controlState.buckets
             rate == evaluateRateLimit(event, now, rules, buckets)
             sampled == evaluateSampling(event, config.controls.sampling, draw)
  <1>1. rules \in Seq(RateRule)
    BY RulesAssumption DEF RateInv, RateRule
  <1>2. /\ buckets \in Buckets(rules) /\ Limited(rules, allowed, buckets, now)
        /\ now \in Nat /\ Passed(allowed, now)
        /\ controlState \in ControlStates(rules)
    BY DEF RateInv, ControlStates
  <1>3. /\ rate.buckets \in Buckets(rules)
        /\ ~rate.allow => Limited(rules, allowed, rate.buckets, now)
        /\ rate.allow => Limited(rules, u, rate.buckets, now)
    <2> HIDE DEF rules, buckets
    <2> QED BY <1>1, <1>2, DecisionLimited
  <1> DEFINE s1 == [controlState EXCEPT !.droppedBySampling = @ + 1]
             s2 == [controlState EXCEPT !.buckets = rate.buckets, !.droppedByRateLimit = @ + 1]
             s3 == [controlState EXCEPT !.buckets = rate.buckets, !.published = @ + 1]
  <1>4. d = IF ~sampled THEN [allow |-> FALSE, state |-> s1]
            ELSE IF ~rate.allow THEN [allow |-> FALSE, state |-> s2]
            ELSE [allow |-> TRUE, state |-> s3]
    BY DEF evaluateLoggingControls
  <1> HIDE DEF d, rules, u, rate, sampled
  <1>5. s1 \in ControlStates(rules) /\ s1.buckets = buckets
    BY <1>2 DEF ControlStates
  <1> DEFINE new == rate.buckets
             t == [controlState EXCEPT !.buckets = new]
  <1>11. new \in Buckets(rules)
    BY <1>3
  <1> HIDE DEF new
  <1>12. t \in ControlStates(rules) /\ t.buckets = new
    BY <1>2, <1>11 DEF ControlStates
  <1>6. s2 \in ControlStates(rules) /\ s2.buckets = rate.buckets
    <2>1. s2 = [t EXCEPT !.droppedByRateLimit = @ + 1]
      BY <1>2 DEF ControlStates, new
    <2> HIDE DEF t, s2
    <2>2. s2 \in ControlStates(rules) /\ s2.buckets = new
      BY <1>12, <2>1 DEF ControlStates
    <2> QED BY <2>2 DEF new
  <1>7. s3 \in ControlStates(rules) /\ s3.buckets = rate.buckets
    <2>1. s3 = [t EXCEPT !.published = @ + 1]
      BY <1>2 DEF ControlStates, new
    <2> HIDE DEF t, s3
    <2>2. s3 \in ControlStates(rules) /\ s3.buckets = new
      BY <1>12, <2>1 DEF ControlStates
    <2> QED BY <2>2 DEF new
  <1> HIDE DEF s1, s2, s3, buckets
  <1>8. CASE ~sampled
    <2>1. d.allow = FALSE /\ d.state = s1
      BY <1>4, <1>8
    <2> QED BY <1>2, <1>5, <2>1 DEF d, rules, u
  <1>9. CASE sampled /\ ~rate.allow
    <2>1. d.allow = FALSE /\ d.state = s2
      BY <1>4, <1>9
    <2> QED BY <1>3, <1>6, <1>9, <2>1 DEF d, rules, u
  <1>10. CASE sampled /\ rate.allow
    <2>1. d.allow = TRUE /\ d.state = s3
      BY <1>4, <1>10
    <2> QED BY <1>3, <1>7, <1>10, <2>1 DEF d, rules, u
  <1> QED BY <1>8, <1>9, <1>10

\* What a rollback leaves out is the count of what was published, no token.
LEMMA RollbackKeeps ==
    ASSUME NEW rules, NEW s \in ControlStates(rules)
    PROVE  /\ rollbackPublished(s) \in ControlStates(rules)
           /\ rollbackPublished(s).buckets = s.buckets
  <1> DEFINE n == IF s.published > 0 THEN s.published - 1 ELSE 0
  <1>1. rollbackPublished(s) = [s EXCEPT !.published = n]
    BY DEF rollbackPublished
  <1>2. n \in Nat
    BY DEF ControlStates
  <1> HIDE DEF n
  <1> QED BY <1>1, <1>2 DEF ControlStates

LEMMA RateInit == LoggerInit => RateInv
  <1> SUFFICES ASSUME LoggerInit PROVE RateInv
    OBVIOUS
  <1> DEFINE rules == config.controls.rateLimit
             keys == Targets(rules)
             none == [k \in keys |-> Absent]
  <1>1. config \in LogConfigs /\ now = 0 /\ allowed = <<>>
    BY DEF LoggerInit
  <1>2. controlState = [buckets |-> none, published |-> 0, droppedBySampling |-> 0,
                        droppedByRateLimit |-> 0]
    BY DEF LoggerInit, createLoggingControlState, RuleKeys, Targets
  <1>3. rules \in Seq(RateRule)
    BY <1>1, RulesAssumption DEF RateRule
  <1>4. Passed(allowed, now)
    <2>1. allowed \in Seq(Items(allowed)) /\ Len(allowed) = 0
      BY <1>1
    <2> QED BY <2>1 DEF Passed
  <1>5. \A key, from : Since(rules, allowed, key, from) = {}
    BY <1>1 DEF Since
  <1>6. \A key, from, to : Within(rules, allowed, key, from, to) = {}
    BY <1>1 DEF Within
  <1>7. controlState.buckets = none
    BY <1>2
  <1> HIDE DEF rules
  <1>8. none \in Buckets(rules) /\ \A k \in keys : none[k] = Absent
    BY DEF Buckets
  <1> HIDE DEF none
  <1>9. controlState \in ControlStates(rules)
    BY <1>2, <1>8 DEF ControlStates
  <1>10. ASSUME NEW key \in keys PROVE BucketBound(rules, allowed, key, none[key], now)
    BY <1>5, <1>8 DEF BucketBound
  <1>11. ASSUME NEW key \in keys PROVE WindowBound(rules, allowed, key)
    <2> DEFINE rule == RuleOf(rules, key)
               m == rule.limit
               cap == Capacity(rule)
    <2>1. rule \in RateRule
      BY <1>3, FirstRuleFound
    <2>2. m \in Nat /\ cap \in Nat
      BY <2>1 DEF RateRule, Capacity
    <2>3. \A from, to : Cardinality(Within(rules, allowed, key, from, to)) = 0
      BY <1>6, FS_EmptySet
    <2> HIDE DEF m, cap
    <2>4. \A c \in Nat : 0 <= cap + c * m
      <3> TAKE c \in Nat
      <3> DEFINE p == c * m
      <3>1. p \in Nat
        BY <2>2
      <3> HIDE DEF p
      <3>2. 0 <= cap + p
        BY <2>2, <3>1
      <3> QED BY <3>2 DEF p
    <2> QED BY <2>3, <2>4 DEF WindowBound, m, cap
  <1>12. Limited(rules, allowed, controlState.buckets, now)
    <2> HIDE DEF keys
    <2> QED BY <1>7, <1>10, <1>11 DEF Limited, keys
  <1> QED BY <1>1, <1>4, <1>9, <1>12 DEF RateInv, rules

LEMMA RateLog == RateInv /\ log => RateInv'
  <1> SUFFICES ASSUME RateInv, log PROVE RateInv'
    OBVIOUS
  <1>1. PICK entry \in config.entries, draw \in Draws, answer \in Answers :
          LET decision == evaluateLoggingControls(entry.event, now, config.controls, controlState, draw)
              line     == Len(allowed) + 1
              publish  == publishToAll(entry, line, answer)
          IN  /\ IF ~decision.allow
                 THEN controlState' = decision.state /\ allowed' = allowed
                 ELSE /\ allowed' = Append(allowed, <<entry.event, now>>)
                      /\ IF publish.result = "backpressure"
                         THEN controlState' = rollbackPublished(decision.state)
                         ELSE controlState' = decision.state
              /\ config' = config /\ now' = now
    BY DEF log
  <1> DEFINE event == entry.event
             d == evaluateLoggingControls(event, now, config.controls, controlState, draw)
             rules == config.controls.rateLimit
             u == Append(allowed, <<event, now>>)
  <1>2. /\ d.state \in ControlStates(rules)
        /\ ~d.allow => Limited(rules, allowed, d.state.buckets, now)
        /\ d.allow => Limited(rules, u, d.state.buckets, now)
    <2> HIDE DEF event
    <2> QED BY ControlsLimited
  <1>3. now \in Nat /\ Passed(allowed, now) /\ Passed(u, now)
    <2>1. now \in Nat /\ Passed(allowed, now)
      BY DEF RateInv
    <2> HIDE DEF event
    <2> QED BY <2>1, LinePasses
  <1>4. /\ IF ~d.allow THEN controlState' = d.state /\ allowed' = allowed
           ELSE allowed' = u /\ controlState' \in {rollbackPublished(d.state), d.state}
        /\ config' = config /\ now' = now
    BY <1>1
  <1>5. config' \in LogConfigs /\ config'.controls.rateLimit = rules
    BY <1>4 DEF RateInv
  <1> HIDE DEF d, u, rules
  <1>6. /\ rollbackPublished(d.state) \in ControlStates(rules)
        /\ rollbackPublished(d.state).buckets = d.state.buckets
    BY <1>2, RollbackKeeps
  <1>7. controlState' \in ControlStates(rules) /\ controlState'.buckets = d.state.buckets
    BY <1>2, <1>4, <1>6
  <1>8. Passed(allowed', now')
    BY <1>3, <1>4
  <1>9. Limited(rules, allowed', controlState'.buckets, now')
    BY <1>2, <1>4, <1>7
  <1> QED BY <1>3, <1>4, <1>5, <1>7, <1>8, <1>9 DEF RateInv

\* Time only opens windows.
LEMMA RateTick == RateInv /\ Tick => RateInv'
  <1> SUFFICES ASSUME RateInv, Tick PROVE RateInv'
    OBVIOUS
  <1> DEFINE rules == config.controls.rateLimit
             buckets == controlState.buckets
  <1>1. now' = now + 1 /\ config' = config /\ controlState' = controlState /\ allowed' = allowed
    BY DEF Tick, Quiet
  <1>2. /\ config \in LogConfigs /\ now \in Nat /\ Passed(allowed, now)
        /\ controlState \in ControlStates(rules)
        /\ Limited(rules, allowed, buckets, now)
    BY DEF RateInv
  <1> HIDE DEF rules, buckets
  <1>3. Passed(allowed, now + 1)
    <2> DEFINE len == Len(allowed)
    <2>1. allowed \in Seq(Items(allowed)) /\ \A n \in 1 .. len : allowed[n][2] \in Nat /\ allowed[n][2] <= now
      BY <1>2 DEF Passed
    <2> HIDE DEF len
    <2>2. \A n \in 1 .. len : allowed[n][2] \in Nat /\ allowed[n][2] <= now + 1
      BY <1>2, <2>1
    <2> QED BY <2>1, <2>2 DEF Passed, len
  <1>4. Limited(rules, allowed, buckets, now + 1)
    <2> SUFFICES ASSUME NEW key \in Targets(rules)
                 PROVE  /\ BucketBound(rules, allowed, key, buckets[key], now + 1)
                        /\ WindowBound(rules, allowed, key)
      BY DEF Limited
    <2> DEFINE b == buckets[key]
    <2>1. BucketBound(rules, allowed, key, b, now) /\ WindowBound(rules, allowed, key)
      BY <1>2 DEF Limited
    <2> HIDE DEF b
    <2>2. b # Absent => b \in Bucket /\ b.lastRefill <= now
      BY <2>1 DEF BucketBound
    <2>3. b # Absent => b.lastRefill <= now + 1
      BY <1>2, <2>2 DEF Bucket
    <2>4. BucketBound(rules, allowed, key, b, now + 1)
      BY <2>1, <2>3 DEF BucketBound
    <2> QED BY <2>1, <2>4 DEF b
  <1> QED BY <1>1, <1>2, <1>3, <1>4 DEF RateInv, rules, buckets

\* Every other step leaves the limits, the clock and what passed alone.
LEMMA RateIdle ==
    RateInv /\ UNCHANGED <<config, controlState, now, allowed>> => RateInv'
  BY DEF RateInv

\* The bucket and the windows stay within the limit (RateInv), whatever rules are
\* configured and however the clock and the entries fall.
THEOREM RateInvariant == LoggerSpec => []RateInv
  <1>1. RateInv /\ UNCHANGED loggerVars => RateInv'
    BY RateIdle DEF loggerVars
  <1>2. RateInv /\ LoggerNext => RateInv'
    <2>1. RateInv /\ (StreamDrains \/ FlushTimer \/ ReconnectTimer) => RateInv'
      BY RateIdle DEF StreamDrains, FlushTimer, ReconnectTimer, SyslogStep, Quiet
    <2>2. ASSUME NEW c \in ConnIds
          PROVE  RateInv /\ (Connects(c) \/ Delivers(c) \/ Dies(c) \/ Errors(c) \/ Closes(c)) => RateInv'
      BY RateIdle DEF Connects, Delivers, Dies, Errors, Closes, SyslogStep, Quiet
    <2> QED BY <2>1, <2>2, RateLog, RateTick DEF LoggerNext
  <1> QED BY <1>1, <1>2, RateInit, PTL DEF LoggerSpec

\* However the refills fall, a window of d lets through no more than the capacity and
\* one limit for every interval begun in it (refillBucket(), evaluateRateLimit()).
THEOREM RateStaysBounded == LoggerSpec => []RateBounded
  <1>1. RateInv => RateBounded
    <2> SUFFICES ASSUME RateInv,
                        NEW i \in DOMAIN config.controls.rateLimit,
                        NEW from \in 0 .. MaxTime, NEW to \in 0 .. MaxTime, from <= to
                 PROVE  LET rule   == config.controls.rateLimit[i]
                            events == {e \in {x.event : x \in config.entries} :
                                          selectRateLimitRule(config.controls.rateLimit, e) = <<rule>>}
                            passed == {n \in DOMAIN allowed :
                                          allowed[n][1] \in events /\ allowed[n][2] \in from .. to}
                            begun  == (to - from + rule.interval - 1) \div rule.interval
                        IN  Cardinality(passed) <= rule.limit + rule.burst + begun * rule.limit
      BY DEF RateBounded
    <2> DEFINE rules == config.controls.rateLimit
               rule == rules[i]
               events == {e \in {x.event : x \in config.entries} :
                             selectRateLimitRule(rules, e) = <<rule>>}
               passed == {n \in DOMAIN allowed :
                             allowed[n][1] \in events /\ allowed[n][2] \in from .. to}
               d == rule.interval
               m == rule.limit
               cap == Capacity(rule)
               key == rule.target
               span == to - from + d - 1
               begun == span \div d
               within == Within(rules, allowed, key, from, to)
    <2>1. rules \in Seq(RateRule)
      BY RulesAssumption DEF RateInv, RateRule
    <2>2. rule \in RateRule /\ key \in Targets(rules)
      <3>1. DOMAIN rules = 1 .. Len(rules)
        BY <2>1
      <3>2. rule \in RateRule
        BY <2>1, <3>1, ElementOfSeq
      <3> QED BY <3>2 DEF Targets
    <2>3. d \in Nat \ {0} /\ m \in Nat /\ cap \in Nat /\ from \in Nat /\ to \in Nat
      BY <2>2, LoggerAssumption DEF RateRule, Capacity
    <2>4. Passed(allowed, now) /\ WindowBound(rules, allowed, key)
      BY <2>2 DEF RateInv, Limited
    <2> DEFINE p == begun * m
               q == begun * d
    <2>5. begun \in Nat /\ p \in Nat /\ q \in Nat /\ to <= from + q
      <3>1. span \in Nat
        <4> HIDE DEF d
        <4> QED BY <2>3
      <3> DEFINE z == span
      <3>2. /\ z \div d \in Nat /\ (z \div d) * d \in Nat
            /\ z < (z \div d) * d + d
        <4> HIDE DEF z, d
        <4> QED BY <2>3, <3>1, Divided DEF z
      <3>3. z = to - from + d - 1 /\ begun = z \div d
        OBVIOUS
      <3>4. begun \in Nat /\ q \in Nat /\ z < q + d
        BY <3>2, <3>3
      <3>5. p \in Nat
        <4> HIDE DEF begun, m
        <4> QED BY <2>3, <3>4
      <3> HIDE DEF z, d, q, begun
      <3>6. to <= from + q
        BY <2>3, <3>3, <3>4
      <3> QED BY <3>4, <3>5, <3>6
    <2>6. \A e \in events : KeyOf(rules, e) = key /\ RuleOf(rules, key) = rule
      <3> SUFFICES ASSUME NEW e \in events PROVE KeyOf(rules, e) = key /\ RuleOf(rules, key) = rule
        OBVIOUS
      <3> DEFINE k == KeyOf(rules, e)
      <3>1. selectRateLimitRule(rules, e) = <<rule>> /\ <<rule>> # <<>>
        OBVIOUS
      <3> HIDE DEF rules, rule
      <3>2. k \in Targets(rules)
        BY <3>1, RuleSelected
      <3>3. <<RuleOf(rules, k)>> = <<rule>>
        BY <3>1, <3>2, RuleSelected
      <3>4. RuleOf(rules, k) = rule
        BY <3>3
      <3>5. RuleOf(rules, k).target = k
        BY <2>1, <3>2, FirstRuleFound
      <3> QED BY <3>4, <3>5
    <2>7. passed \subseteq within
      <3> HIDE DEF events, rules, key
      <3>1. DOMAIN allowed = 1 .. Len(allowed) /\ \A n \in 1 .. Len(allowed) : allowed[n][2] \in Nat
        BY <2>4, LenProperties DEF Passed
      <3> QED BY <2>3, <2>6, <3>1 DEF Within
    <2>8. IsFiniteSet(within) /\ Cardinality(within) \in Nat
      BY <2>4, LinesCounted DEF Passed
    <2>9. /\ Cardinality(passed) \in Nat /\ Cardinality(passed) <= Cardinality(within)
      <3> HIDE DEF passed, within
      <3> QED BY <2>7, <2>8, FS_Subset, FS_CardinalityType
    <2>10. CASE passed = {}
      <3>1. Cardinality(passed) = 0
        BY <2>10, FS_EmptySet
      <3> HIDE DEF passed, p, begun, d, m, cap
      <3>2. Cardinality(passed) <= cap + p
        BY <2>3, <2>5, <3>1
      <3> QED BY <3>2 DEF p, cap, Capacity, passed, begun, d, m
    <2>11. CASE passed # {}
      <3>1. RuleOf(rules, key) = rule
        BY <2>6, <2>11
      <3>2. Cardinality(within) <= cap + begun * m
        <4> HIDE DEF begun, within, rule, rules, key
        <4> QED BY <2>3, <2>4, <2>5, <3>1 DEF WindowBound, within
      <3> HIDE DEF passed, within, begun, d, m, cap
      <3>3. Cardinality(within) <= cap + p
        BY <3>2
      <3> HIDE DEF p
      <3>4. Cardinality(passed) <= cap + p
        BY <2>3, <2>5, <2>8, <2>9, <3>3
      <3> QED BY <3>4 DEF p, cap, Capacity, passed, begun, d, m
    <2> QED BY <2>10, <2>11
  <1> QED BY <1>1, RateInvariant, PTL
=============================================================================
