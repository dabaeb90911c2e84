----------------------------- MODULE TelnetProofs -----------------------------
(***************************************************************************)
(* Proofs about TelnetService, for everything the host can write, however  *)
(* it is split, every pattern of the login and every order of its timers,  *)
(* pauses and ends: a shell that is over is quiet, and what the host wrote *)
(* reaches the browser whole and in its order.                             *)
(*                                                                         *)
(* The second rests on the parser of TelnetNegotiation: the recursion over *)
(* a packet has its defining equation (by an induction over sets of        *)
(* naturals), and cutting the bytes anywhere does not change what is data. *)
(***************************************************************************)
EXTENDS TelnetService, FiniteSetTheorems, SequenceTheorems, TLAPS

AuthStates == {"pass-through", "waiting-login", "waiting-password", "waiting-result",
               "authenticated", "failed"}

\* An authenticator, whatever its buffer holds.
Authenticator(a) ==
    \E b : a \in [state : AuthStates, buffer : {b}, timeout : BOOLEAN, settle : BOOLEAN]

\* A pattern that is there is a Boolean of the options.
OptionsTyped ==
    config \in [login : BOOLEAN, passwordPrompt : BOOLEAN, failure : BOOLEAN, password : BOOLEAN]

\* Only an open shell listens or has a timer running; one that is over is not opened
\* again.
OnlyOpenIsBusy ==
    stream # "open" => ~listening /\ ~auth.timeout /\ ~auth.settle

QuietInv ==
    /\ OptionsTyped /\ stream \in {"none", "open", "destroyed"}
    /\ Authenticator(auth) /\ OnlyOpenIsBusy

-----------------------------------------------------------------------------
(***************************************************************************)
(* telnet-auth.ts.                                                         *)
(***************************************************************************)

\* Another buffer makes another authenticator.
LEMMA SetBuffer ==
    ASSUME NEW a, Authenticator(a), NEW b
    PROVE  Authenticator([a EXCEPT !.buffer = b])
  <1>1. [a EXCEPT !.buffer = b]
          \in [state : AuthStates, buffer : {b}, timeout : BOOLEAN, settle : BOOLEAN]
    BY DEF Authenticator
  <1> QED BY <1>1 DEF Authenticator

\* destroy() clears both timers and nothing else.
LEMMA Destroyed ==
    ASSUME NEW a, Authenticator(a)
    PROVE  Authenticator(destroy(a)) /\ ~destroy(a).timeout /\ ~destroy(a).settle
  <1>1. PICK b : a \in [state : AuthStates, buffer : {b}, timeout : BOOLEAN, settle : BOOLEAN]
    BY DEF Authenticator
  <1>2. destroy(a) \in [state : AuthStates, buffer : {b}, timeout : {FALSE}, settle : {FALSE}]
    BY <1>1 DEF destroy
  <1> QED BY <1>2 DEF Authenticator

\* Whatever the data, processData() leaves an authenticator.
LEMMA ProcessKeeps ==
    ASSUME NEW a, Authenticator(a), NEW data, OptionsTyped
    PROVE  Authenticator(processData(a, data).auth)
  <1> DEFINE b == [a EXCEPT !.buffer = a.buffer \o data]
  <1>1. Authenticator(b)
    BY SetBuffer
  <1>2. ASSUME NEW x, Authenticator(x)
        PROVE  /\ Authenticator(transitionToPassThrough(x).auth)
               /\ Authenticator(handleWaitingLogin(x).auth)
               /\ Authenticator(handleWaitingPassword(x).auth)
               /\ Authenticator(handleWaitingResult(x, data).auth)
    <2>1. PICK c : x \in [state : AuthStates, buffer : {c}, timeout : BOOLEAN, settle : BOOLEAN]
      BY <1>2 DEF Authenticator
    <2>2. Authenticator(transitionToPassThrough(x).auth)
      <3>1. transitionToPassThrough(x).auth \in
              [state : AuthStates, buffer : {<< >>}, timeout : BOOLEAN, settle : BOOLEAN]
        BY <2>1 DEF transitionToPassThrough, Result, AuthStates
      <3> QED BY <3>1 DEF Authenticator
    <2>3. Authenticator(handleWaitingLogin(x).auth)
      <3>1. \/ handleWaitingLogin(x).auth \in
                 [state : AuthStates, buffer : {<< >>}, timeout : BOOLEAN, settle : BOOLEAN]
            \/ handleWaitingLogin(x).auth = x
        BY <2>1 DEF handleWaitingLogin, Result, noAction, AuthStates
      <3> QED BY <1>2, <3>1 DEF Authenticator
    <2>4. Authenticator(handleWaitingPassword(x).auth)
      <3>1. \/ handleWaitingPassword(x).auth \in
                 [state : AuthStates, buffer : {<< >>}, timeout : BOOLEAN, settle : BOOLEAN]
            \/ handleWaitingPassword(x).auth = x
        BY <2>1 DEF handleWaitingPassword, Result, noAction, AuthStates
      <3> QED BY <1>2, <3>1 DEF Authenticator
    <2>5. Authenticator(handleWaitingResult(x, data).auth)
      <3>1. \/ handleWaitingResult(x, data).auth \in
                 [state : AuthStates, buffer : {<< >>}, timeout : BOOLEAN, settle : BOOLEAN]
            \/ handleWaitingResult(x, data).auth \in
                 [state : AuthStates, buffer : {c}, timeout : BOOLEAN, settle : BOOLEAN]
        BY <2>1 DEF handleWaitingResult, Result, noAction, AuthStates
      <3> QED BY <3>1 DEF Authenticator
    <2> QED BY <2>2, <2>3, <2>4, <2>5
  <1>3. \/ processData(a, data).auth = a
        \/ processData(a, data).auth = transitionToPassThrough(b).auth
        \/ processData(a, data).auth = handleWaitingLogin(b).auth
        \/ processData(a, data).auth = handleWaitingPassword(b).auth
        \/ processData(a, data).auth = handleWaitingResult(b, data).auth
    <2> HIDE DEF b
    <2>1. processData(a, data) =
            CASE a.state \notin Waiting -> Result(a, << >>, data)
              [] a.state \in Waiting /\ Len(b.buffer) > MAX_AUTH_BUFFER_BYTES
                   -> transitionToPassThrough(b)
              [] a.state = "waiting-login" /\ Len(b.buffer) <= MAX_AUTH_BUFFER_BYTES
                   -> handleWaitingLogin(b)
              [] a.state = "waiting-password" /\ Len(b.buffer) <= MAX_AUTH_BUFFER_BYTES
                   -> handleWaitingPassword(b)
              [] OTHER -> handleWaitingResult(b, data)
      BY DEF processData, b
    <2> QED BY <2>1 DEF Result
  <1> HIDE DEF b
  <1> QED BY <1>1, <1>2, <1>3

-----------------------------------------------------------------------------
(***************************************************************************)
(* The steps.                                                              *)
(***************************************************************************)

LEMMA QuietInit == TelnetInit => QuietInv
  <1> SUFFICES ASSUME TelnetInit PROVE QuietInv
    OBVIOUS
  <1>1. OptionsTyped
    <2>1. PICK s \in AuthSettings : config = connectTelnet(s)
      BY DEF TelnetInit
    <2>2. \A pattern : buildOptionalRegex(pattern) \in BOOLEAN
      BY Zenon DEF buildOptionalRegex
    <2>3. (s.password \notin {"absent", ""}) \in BOOLEAN
      BY Zenon
    <2> QED BY <2>1, <2>2, <2>3, Zenon DEF OptionsTyped, connectTelnet
  <1>2. auth \in [state : AuthStates, buffer : {<< >>}, timeout : {FALSE}, settle : {FALSE}]
    BY <1>1 DEF TelnetInit, OptionsTyped, buildAuthenticator, resolveInitialState, AuthStates
  <1>3. stream = "none" /\ listening = FALSE
    BY DEF TelnetInit
  <1> QED BY <1>1, <1>2, <1>3 DEF QuietInv, Authenticator, OnlyOpenIsBusy

\* The end of a shell, by whichever side: cleanup() takes the listener and the timers.
LEMMA EndQuiets ==
    ASSUME QuietInv, EndShell, UNCHANGED config
    PROVE  QuietInv'
  <1>1. Authenticator(auth') /\ ~auth'.timeout /\ ~auth'.settle /\ listening' = FALSE
    BY Destroyed DEF QuietInv, EndShell
  <1>2. stream' \in {"none", "open", "destroyed"} /\ OptionsTyped'
    BY DEF QuietInv, EndShell, OptionsTyped
  <1> QED BY <1>1, <1>2 DEF QuietInv, OnlyOpenIsBusy

LEMMA QuietStep == QuietInv /\ [TelnetNext]_telnetVars => QuietInv'
  <1> SUFFICES ASSUME QuietInv, [TelnetNext]_telnetVars PROVE QuietInv'
    OBVIOUS
  <1>0. OptionsTyped /\ Authenticator(auth) /\ OnlyOpenIsBusy
    BY DEF QuietInv
  <1>1. CASE UNCHANGED <<config, stream, listening, auth>>
    BY <1>1 DEF QuietInv, OptionsTyped, OnlyOpenIsBusy
  \* A timer of the login, or data, change the authenticator of an open shell.
  <1>2. ASSUME stream = "open", UNCHANGED <<config, stream>>, Authenticator(auth')
        PROVE  QuietInv'
    BY <1>2 DEF QuietInv, OptionsTyped, OnlyOpenIsBusy
  <1>3. CASE Shell
    <2>1. auth' \in [state : AuthStates, buffer : {<< >>}, timeout : BOOLEAN, settle : BOOLEAN]
      BY <1>0, <1>3 DEF Shell, OptionsTyped, buildAuthenticator, resolveInitialState, AuthStates
    <2>2. Authenticator(auth')
      BY <2>1 DEF Authenticator
    <2>3. stream' = "open" /\ config' = config
      BY <1>3 DEF Shell
    <2> QED BY <1>0, <2>2, <2>3 DEF QuietInv, OptionsTyped, OnlyOpenIsBusy
  <1>4. CASE SocketData
    <2>1. stream = "open" /\ UNCHANGED <<config, stream>>
      BY <1>0, <1>4 DEF SocketData, OnlyOpenIsBusy, QuietInv
    <2>2. PICK n \in 1 .. Len(wire) :
            LET out == processInbound(neg, SubSeq(wire, 1, n))
            IN  auth' = auth \/ auth' = processData(auth, out.clean).auth
      BY <1>4 DEF SocketData
    <2>3. Authenticator(auth')
      BY <1>0, <2>2, ProcessKeeps
    <2> QED BY <1>2, <2>1, <2>3
  <1>5. CASE AuthTimeout
    <2>1. stream = "open" /\ UNCHANGED <<config, stream>>
      BY <1>0, <1>5 DEF AuthTimeout, OnlyOpenIsBusy
    <2>2. \/ auth' = [[[auth EXCEPT !.timeout = FALSE] EXCEPT !.state = "pass-through"]
                          EXCEPT !.buffer = << >>]
          \/ auth' = [auth EXCEPT !.timeout = FALSE]
      BY <1>5 DEF AuthTimeout
    <2>3. Authenticator(auth')
      <3>1. PICK b : auth \in [state : AuthStates, buffer : {b}, timeout : BOOLEAN, settle : BOOLEAN]
        BY <1>0 DEF Authenticator
      <3>2. \/ auth' \in [state : AuthStates, buffer : {b}, timeout : BOOLEAN, settle : BOOLEAN]
            \/ auth' \in [state : AuthStates, buffer : {<< >>}, timeout : BOOLEAN, settle : BOOLEAN]
        BY <2>2, <3>1 DEF AuthStates
      <3> QED BY <3>2 DEF Authenticator
    <2> QED BY <1>2, <2>1, <2>3
  <1>6. CASE AuthSettle
    <2>1. stream = "open" /\ UNCHANGED <<config, stream>>
      BY <1>0, <1>6 DEF AuthSettle, OnlyOpenIsBusy
    <2>2. Authenticator(auth')
      <3>1. PICK b : auth \in [state : AuthStates, buffer : {b}, timeout : BOOLEAN, settle : BOOLEAN]
        BY <1>0 DEF Authenticator
      <3>2. \/ auth' \in [state : AuthStates, buffer : {b}, timeout : BOOLEAN, settle : BOOLEAN]
            \/ auth' \in [state : AuthStates, buffer : {<< >>}, timeout : BOOLEAN, settle : BOOLEAN]
        BY <1>6, <3>1 DEF AuthSettle, AuthStates
      <3> QED BY <3>2 DEF Authenticator
    <2> QED BY <1>2, <2>1, <2>2
  <1>7. CASE StreamClose \/ SocketEnds
    BY <1>7, EndQuiets DEF StreamClose, SocketEnds
  <1>8. CASE Disconnect
    <2>1. config' = config
      BY <1>8 DEF Disconnect
    <2>2. EndShell \/ UNCHANGED <<config, stream, listening, auth>>
      BY <1>8 DEF Disconnect
    <2> QED BY <1>1, <2>1, <2>2, EndQuiets
  <1>9. CASE Connect \/ ConnectFails \/ Connected \/ SocketDataUnread \/ StreamRead \/ resizeTelnet
             \/ HostWrites \/ UNCHANGED telnetVars
    BY <1>1, <1>9 DEF Connect, ConnectFails, Connected, SocketDataUnread, StreamRead, resizeTelnet,
                      HostWrites, shellUnchanged, telnetVars
  <1> QED BY <1>3, <1>4, <1>5, <1>6, <1>7, <1>8, <1>9 DEF TelnetNext

\* Nothing but an open shell listens to the socket or has a timer of the login running.
THEOREM OnlyOpenShellIsBusy == TelnetSpec => []QuietInv
  BY QuietInit, QuietStep, PTL DEF TelnetSpec

\* Once the shell is over no timer of the login is left to push into the destroyed
\* stream and nothing listens to the socket (cleanup(), disconnect()).
THEOREM ShellEndsQuietly == TelnetSpec => []EndedShellIsQuiet
  <1>1. QuietInv => EndedShellIsQuiet
    BY DEF QuietInv, OnlyOpenIsBusy, EndedShellIsQuiet
  <1> QED BY <1>1, OnlyOpenShellIsBusy, PTL
-----------------------------------------------------------------------------
(***************************************************************************)
(* Induction, and the loop of processInbound().                            *)
(***************************************************************************)

\* Induction over the naturals, for a set instead of a predicate.
LEMMA SetInduction ==
    ASSUME NEW S, 0 \in S, \A n \in Nat : n \in S => n + 1 \in S
    PROVE  Nat \subseteq S
  <1> SUFFICES ASSUME NEW n \in Nat, n \notin S PROVE FALSE
    OBVIOUS
  <1> DEFINE A == S \cap (0 .. n)
  <1> DEFINE B == A \ {0}
  <1> DEFINE f == [a \in A |-> a + 1]
  <1>1. IsFiniteSet(A)
    <2>1. IsFiniteSet(0 .. n)
      BY FS_Interval
    <2>2. A \in SUBSET (0 .. n)
      OBVIOUS
    <2> HIDE DEF A
    <2> QED BY <2>1, <2>2, FS_Subset
  <1>2. 0 \in A /\ \A a \in A : a \in 0 .. n /\ a + 1 \in B
    OBVIOUS
  <1> HIDE DEF A
  <1>3. IsFiniteSet(B) /\ Cardinality(B) = Cardinality(A) - 1 /\ Cardinality(A) \in Nat
    BY <1>1, <1>2, FS_RemoveElement, FS_CardinalityType
  <1>4. f \in [A -> B] /\ \A x, y \in A : f[x] = f[y] => x = y
    BY <1>2
  <1>5. Cardinality(B) < Cardinality(A)
    BY <1>3
  <1> HIDE DEF B, f
  <1>6. \E x, y \in A : x # y /\ f[x] = f[y]
    BY <1>1, <1>3, <1>4, <1>5, FS_PigeonHole
  <1> QED BY <1>4, <1>6

\* The loop of processInbound() has its defining equation.
LEMMA InboundEquation ==
    ASSUME NEW n, NEW data, NEW len \in Nat, len = Len(data)
    PROVE  /\ Inbound(n, data)[0] = Outcome(n, << >>, << >>)
           /\ \A i \in 1 .. len : Inbound(n, data)[i] = processOneByte(Inbound(n, data)[i - 1], data[i])
  <1> DEFINE Upto(m, g) == g = [i \in 0 .. m |-> IF i = 0 THEN Outcome(n, << >>, << >>)
                                                 ELSE processOneByte(g[i - 1], data[i])]
  <1> DEFINE S == {m \in Nat : \E g : Upto(m, g)}
  <1>1. 0 \in S
    <2> DEFINE g == [i \in 0 .. 0 |-> Outcome(n, << >>, << >>)]
    <2>1. Upto(0, g)
      OBVIOUS
    <2> QED BY <2>1
  <1>2. ASSUME NEW m \in Nat, m \in S PROVE m + 1 \in S
    <2>1. PICK g : Upto(m, g)
      BY <1>2
    <2> DEFINE h == [i \in 0 .. m + 1 |-> IF i = m + 1 THEN processOneByte(g[m], data[m + 1]) ELSE g[i]]
    <2>2. \A i \in 0 .. m : h[i] = g[i]
      OBVIOUS
    <2>3. \A i \in 0 .. m + 1 : h[i] = IF i = 0 THEN Outcome(n, << >>, << >>)
                                       ELSE processOneByte(h[i - 1], data[i])
      <3> TAKE i \in 0 .. m + 1
      <3>1. CASE i = m + 1
        <4>1. h[i] = processOneByte(g[m], data[m + 1]) /\ h[i - 1] = g[m] /\ i # 0
          BY <3>1
        <4> HIDE DEF h
        <4> QED BY <3>1, <4>1
      <3>2. CASE i = 0
        BY <2>1, <2>2, <3>2
      <3>3. CASE i \in 1 .. m
        <4>1. h[i] = g[i] /\ h[i - 1] = g[i - 1] /\ i # 0 /\ i \in 0 .. m
          BY <2>2, <3>3
        <4>2. g[i] = processOneByte(g[i - 1], data[i])
          BY <2>1, <4>1
        <4> HIDE DEF h
        <4> QED BY <4>1, <4>2
      <3> QED BY <3>1, <3>2, <3>3
    <2>4. h = [i \in 0 .. m + 1 |-> h[i]]
      OBVIOUS
    <2> HIDE DEF h
    <2>5. Upto(m + 1, h)
      BY <2>3, <2>4
    <2> HIDE DEF Upto
    <2> QED BY <2>5
  <1> HIDE DEF S
  <1>3. len \in S
    BY <1>1, <1>2, SetInduction
  <1>4. \E g : Upto(len, g)
    BY <1>3 DEF S
  <1>5. Inbound(n, data) = CHOOSE g : Upto(len, g)
    BY DEF Inbound
  <1>6. Upto(len, Inbound(n, data))
    <2> HIDE DEF Upto
    <2> QED BY <1>4, <1>5
  <1>7. ASSUME NEW i \in 0 .. len
        PROVE  Inbound(n, data)[i] = IF i = 0 THEN Outcome(n, << >>, << >>)
                                     ELSE processOneByte(Inbound(n, data)[i - 1], data[i])
    BY <1>6
  <1> QED BY <1>7

-----------------------------------------------------------------------------
(***************************************************************************)
(* One byte (processOneByte).                                              *)
(***************************************************************************)

ParserStates == {"Data", "GotIAC", "GotCommand", "InSubnegotiation", "SubnegotiationGotIAC"}

\* A negotiator, whatever its options and the body it collects; a command that waits
\* for its option is one of the four.
Negotiator(n) ==
    /\ \E v, w, c, r : n \in [state : ParserStates, currentCommand : {0} \union OptionCommands,
                              subnegBuffer : {v}, optionStates : {w}, cols : {c}, rows : {r}]
    /\ n.state = "GotCommand" => n.currentCommand \in OptionCommands

\* The parser without what it answers: its next state and the data of a byte.
stateAfter(s, b) ==
    CASE s = "Data" -> IF b = IAC THEN "GotIAC" ELSE "Data"
      [] s = "GotIAC" -> IF b = SB THEN "InSubnegotiation"
                         ELSE IF b \in OptionCommands THEN "GotCommand" ELSE "Data"
      [] s = "GotCommand" -> "Data"
      [] s = "InSubnegotiation" -> IF b = IAC THEN "SubnegotiationGotIAC" ELSE "InSubnegotiation"
      [] s = "SubnegotiationGotIAC" -> IF b = IAC THEN "InSubnegotiation" ELSE "Data"

dataOf(s, b) ==
    IF (s = "Data" /\ b # IAC) \/ (s = "GotIAC" /\ b = IAC) THEN <<b>> ELSE << >>

Parsed(out, n, c, b) ==
    Negotiator(out.neg) /\ out.neg.state = stateAfter(n.state, b) /\ out.clean = c \o dataOf(n.state, b)

\* Whatever the parser answers, one byte does to its state and to the data what the
\* byte and the state alone say.
LEMMA OneByte ==
    ASSUME NEW out, Negotiator(out.neg), NEW b \in Byte, out.clean \in Seq(Byte)
    PROVE  Parsed(processOneByte(out, b), out.neg, out.clean, b)
  <1> DEFINE n == out.neg
  <1> DEFINE c == out.clean
  <1> DEFINE r == out.responses
  <1> DEFINE R == processOneByte(out, b)
  <1>0. PICK v, w, co, ro : n \in [state : ParserStates, currentCommand : {0} \union OptionCommands,
                                   subnegBuffer : {v}, optionStates : {w}, cols : {co}, rows : {ro}]
    BY DEF Negotiator
  <1>k. n.state = "GotCommand" => n.currentCommand \in OptionCommands
    BY DEF Negotiator
  <1>s. /\ Append(c, b) = c \o <<b>> /\ c \o << >> = c
    BY ConcatEmptySeq
  <1>i. IAC \in Byte /\ IAC \notin OptionCommands /\ SB \notin OptionCommands /\ IAC # SB /\ 255 = IAC
    BY DEF Byte, OptionCommands, IAC, SB, DO, DONT, WILL, WONT
  \* A negotiator in another state.
  <1>a. ASSUME NEW x, NEW s \in ParserStates, s # "GotCommand",
               \E v1, w1 : x \in [state : {s}, currentCommand : {0} \union OptionCommands,
                                  subnegBuffer : {v1}, optionStates : {w1}, cols : {co}, rows : {ro}]
        PROVE  Negotiator(x) /\ x.state = s
    <2>1. PICK v1, w1 : x \in [state : {s}, currentCommand : {0} \union OptionCommands,
                               subnegBuffer : {v1}, optionStates : {w1}, cols : {co}, rows : {ro}]
      BY <1>a
    <2>2. x \in [state : ParserStates, currentCommand : {0} \union OptionCommands,
                 subnegBuffer : {v1}, optionStates : {w1}, cols : {co}, rows : {ro}] /\ x.state = s
      BY <2>1
    <2> QED BY <1>a, <2>2 DEF Negotiator
  <1>p. n.state \in ParserStates
    BY <1>0
  <1>q. ASSUME Negotiator(R.neg), R.neg.state = stateAfter(n.state, b), R.clean = c \o dataOf(n.state, b)
        PROVE  Parsed(processOneByte(out, b), out.neg, out.clean, b)
    BY <1>q DEF Parsed
  <1> HIDE DEF n, c, r, R
  <1>1. CASE n.state = "Data"
    <2>1. R = handleDataByte(n, b, c, r)
      BY <1>1 DEF processOneByte, n, c, r, R
    <2>2. CASE b = IAC
      <3>1. R = Outcome([n EXCEPT !.state = "GotIAC"], c, r)
        BY <2>1, <2>2 DEF handleDataByte
      <3>2. [n EXCEPT !.state = "GotIAC"] \in [state : {"GotIAC"}, currentCommand : {0} \union OptionCommands,
                   subnegBuffer : {v}, optionStates : {w}, cols : {co}, rows : {ro}]
        BY <1>0
      <3>3. Negotiator([n EXCEPT !.state = "GotIAC"]) /\ [n EXCEPT !.state = "GotIAC"].state = "GotIAC"
        BY <1>a, <3>2 DEF ParserStates
      <3>4. stateAfter(n.state, b) = "GotIAC" /\ dataOf(n.state, b) = << >>
        BY <1>1, <2>2 DEF stateAfter, dataOf
      <3> QED BY <1>q, <1>s, <3>1, <3>3, <3>4 DEF Outcome
    <2>3. CASE b # IAC
      <3>1. R = Outcome(n, Append(c, b), r)
        BY <2>1, <2>3 DEF handleDataByte
      <3>4. stateAfter(n.state, b) = "Data" /\ dataOf(n.state, b) = <<b>>
        BY <1>1, <2>3, Zenon DEF stateAfter, dataOf
      <3>5. Negotiator(n)
        BY DEF n
      <3> QED BY <1>1, <1>q, <1>s, <3>1, <3>4, <3>5 DEF Outcome
    <2> QED BY <2>2, <2>3
  <1>2. CASE n.state = "GotIAC"
    <2>1. R = handleAfterIAC(n, b, c, r)
      BY <1>2 DEF processOneByte, n, c, r, R
    <2>2. CASE b = IAC
      <3>1. R = Outcome([n EXCEPT !.state = "Data"], Append(c, b), r)
        BY <2>1, <2>2 DEF handleAfterIAC, IAC, SB, DO, DONT, WILL, WONT
      <3>2. [n EXCEPT !.state = "Data"] \in [state : {"Data"}, currentCommand : {0} \union OptionCommands,
                   subnegBuffer : {v}, optionStates : {w}, cols : {co}, rows : {ro}]
        BY <1>0
      <3>3. Negotiator([n EXCEPT !.state = "Data"]) /\ [n EXCEPT !.state = "Data"].state = "Data"
        BY <1>a, <3>2 DEF ParserStates
      <3>4. stateAfter(n.state, b) = "Data" /\ dataOf(n.state, b) = <<b>>
        BY <1>2, <1>i, <2>2 DEF stateAfter, dataOf
      <3> QED BY <1>q, <1>s, <3>1, <3>3, <3>4 DEF Outcome
    <2>3. CASE b = SB
      <3> DEFINE m == [n EXCEPT !.subnegBuffer = << >>, !.state = "InSubnegotiation"]
      <3>1. R = Outcome(m, c, r)
        BY <2>1, <2>3, <1>i DEF handleAfterIAC, OptionCommands
      <3>2. m \in [state : {"InSubnegotiation"}, currentCommand : {0} \union OptionCommands,
                   subnegBuffer : {<< >>}, optionStates : {w}, cols : {co}, rows : {ro}]
        BY <1>0
      <3> HIDE DEF m
      <3>3. Negotiator(m) /\ m.state = "InSubnegotiation"
        BY <1>a, <3>2 DEF ParserStates
      <3>4. stateAfter(n.state, b) = "InSubnegotiation" /\ dataOf(n.state, b) = << >>
        BY <1>2, <1>i, <2>3 DEF stateAfter, dataOf
      <3> QED BY <1>q, <1>s, <3>1, <3>3, <3>4 DEF Outcome
    <2>4. CASE b \in OptionCommands
      <3> DEFINE m == [n EXCEPT !.currentCommand = b, !.state = "GotCommand"]
      <3>1. R = Outcome(m, c, r)
        BY <2>1, <2>4, <1>i DEF handleAfterIAC, OptionCommands
      <3>2. m \in [state : {"GotCommand"}, currentCommand : OptionCommands,
                   subnegBuffer : {v}, optionStates : {w}, cols : {co}, rows : {ro}]
        BY <1>0, <2>4
      <3> HIDE DEF m
      <3>3. Negotiator(m) /\ m.state = "GotCommand"
        <4>1. m \in [state : ParserStates, currentCommand : {0} \union OptionCommands,
                   subnegBuffer : {v}, optionStates : {w}, cols : {co}, rows : {ro}]
          BY <3>2 DEF ParserStates
        <4>2. m.state = "GotCommand" /\ m.currentCommand \in OptionCommands
          BY <3>2
        <4> QED BY <4>1, <4>2 DEF Negotiator
      <3>4. stateAfter(n.state, b) = "GotCommand" /\ dataOf(n.state, b) = << >>
        BY <1>2, <1>i, <2>4 DEF stateAfter, dataOf
      <3> QED BY <1>q, <1>s, <3>1, <3>3, <3>4 DEF Outcome
    <2>5. CASE b \notin OptionCommands \union {IAC, SB}
      <3>1. R = Outcome([n EXCEPT !.state = "Data"], c, r)
        BY <2>1, <2>5, <1>i DEF handleAfterIAC, OptionCommands
      <3>2. [n EXCEPT !.state = "Data"] \in [state : {"Data"}, currentCommand : {0} \union OptionCommands,
                   subnegBuffer : {v}, optionStates : {w}, cols : {co}, rows : {ro}]
        BY <1>0
      <3>3. Negotiator([n EXCEPT !.state = "Data"]) /\ [n EXCEPT !.state = "Data"].state = "Data"
        BY <1>a, <3>2 DEF ParserStates
      <3>4. stateAfter(n.state, b) = "Data" /\ dataOf(n.state, b) = << >>
        BY <1>2, <2>5 DEF stateAfter, dataOf
      <3> QED BY <1>q, <1>s, <3>1, <3>3, <3>4 DEF Outcome
    <2> QED BY <2>2, <2>3, <2>4, <2>5
  <1>3. CASE n.state = "GotCommand"
    <2>1. R = handleOptionByte(n, b, c, r)
      BY <1>3 DEF processOneByte, n, c, r, R
    <2> DEFINE m == [n EXCEPT !.state = "Data"]
    <2>2. m \in [state : {"Data"}, currentCommand : {0} \union OptionCommands,
                 subnegBuffer : {v}, optionStates : {w}, cols : {co}, rows : {ro}]
        /\ m.currentCommand = n.currentCommand
      BY <1>0
    <2> HIDE DEF m
    <2>3. \/ R.neg = m /\ R.clean = c
          \/ R.neg = [m EXCEPT !.optionStates = [m.optionStates EXCEPT ![b] = "active"]] /\ R.clean = c
      <3>1. \/ R = handleDo(m, b, c, r)
            \/ R = Outcome(m, c, r \o <<IAC, WONT, b>>)
            \/ R = handleWill(m, b, c, r)
            \/ R = Outcome(m, c, r \o <<IAC, DONT, b>>)
        BY <1>3, <1>k, <2>1 DEF handleOptionByte, m, OptionCommands
      <3>2. CASE R = handleDo(m, b, c, r)
        BY <3>2 DEF handleDo, Outcome
      <3> QED BY <3>1, <3>2 DEF handleWill, Outcome
    <2>4. \E w1 : R.neg \in [state : {"Data"}, currentCommand : {0} \union OptionCommands,
                   subnegBuffer : {v}, optionStates : {w1}, cols : {co}, rows : {ro}]
      <3> DEFINE w1 == [m.optionStates EXCEPT ![b] = "active"]
      <3> HIDE DEF w1
      <3>1. [m EXCEPT !.optionStates = w1] \in [state : {"Data"}, currentCommand : {0} \union OptionCommands,
                   subnegBuffer : {v}, optionStates : {w1}, cols : {co}, rows : {ro}]
        BY <2>2
      <3>2. R.neg = m \/ R.neg = [m EXCEPT !.optionStates = w1]
        BY <2>3 DEF w1
      <3> QED BY <2>2, <3>1, <3>2
    <2>5. Negotiator(R.neg) /\ R.neg.state = "Data"
      BY <1>a, <2>4 DEF ParserStates
    <2>6. stateAfter(n.state, b) = "Data" /\ dataOf(n.state, b) = << >>
      BY <1>3 DEF stateAfter, dataOf
    <2> QED BY <1>q, <1>s, <2>3, <2>5, <2>6
  <1>4. CASE n.state = "InSubnegotiation"
    <2>1. R = handleSubnegByte(n, b, c, r)
      BY <1>4 DEF processOneByte, n, c, r, R
    <2>2. CASE b = IAC
      <3> DEFINE m == [n EXCEPT !.state = "SubnegotiationGotIAC"]
      <3>1. R = Outcome(m, c, r)
        BY <2>1, <2>2 DEF handleSubnegByte
      <3>2. m \in [state : {"SubnegotiationGotIAC"}, currentCommand : {0} \union OptionCommands,
                   subnegBuffer : {v}, optionStates : {w}, cols : {co}, rows : {ro}]
        BY <1>0
      <3> HIDE DEF m
      <3>3. Negotiator(m) /\ m.state = "SubnegotiationGotIAC"
        BY <1>a, <3>2 DEF ParserStates
      <3>4. stateAfter(n.state, b) = "SubnegotiationGotIAC" /\ dataOf(n.state, b) = << >>
        BY <1>4, <2>2 DEF stateAfter, dataOf
      <3> QED BY <1>q, <1>s, <3>1, <3>3, <3>4 DEF Outcome
    <2>3. CASE b # IAC
      <3> DEFINE m == [n EXCEPT !.subnegBuffer = Append(n.subnegBuffer, b)]
      <3>1. R = Outcome(m, c, r)
        BY <2>1, <2>3 DEF handleSubnegByte
      <3>2. m \in [state : {"InSubnegotiation"}, currentCommand : {0} \union OptionCommands,
                   subnegBuffer : {Append(n.subnegBuffer, b)}, optionStates : {w}, cols : {co}, rows : {ro}]
        BY <1>0, <1>4
      <3> HIDE DEF m
      <3>3. Negotiator(m) /\ m.state = "InSubnegotiation"
        BY <1>a, <3>2 DEF ParserStates
      <3>4. stateAfter(n.state, b) = "InSubnegotiation" /\ dataOf(n.state, b) = << >>
        BY <1>4, <2>3 DEF stateAfter, dataOf
      <3> QED BY <1>q, <1>s, <3>1, <3>3, <3>4 DEF Outcome
    <2> QED BY <2>2, <2>3
  <1>5. CASE n.state = "SubnegotiationGotIAC"
    <2>1. R = handleSubnegIACByte(n, b, c, r)
      BY <1>5 DEF processOneByte, n, c, r, R
    <2>2. CASE b = IAC
      <3> DEFINE m == [n EXCEPT !.subnegBuffer = Append(n.subnegBuffer, 255), !.state = "InSubnegotiation"]
      <3>1. R = Outcome(m, c, r)
        BY <2>1, <2>2 DEF handleSubnegIACByte, SE, IAC
      <3>2. m \in [state : {"InSubnegotiation"}, currentCommand : {0} \union OptionCommands,
                   subnegBuffer : {Append(n.subnegBuffer, 255)}, optionStates : {w}, cols : {co}, rows : {ro}]
        BY <1>0
      <3> HIDE DEF m
      <3>3. Negotiator(m) /\ m.state = "InSubnegotiation"
        BY <1>a, <3>2 DEF ParserStates
      <3>4. stateAfter(n.state, b) = "InSubnegotiation" /\ dataOf(n.state, b) = << >>
        BY <1>5, <2>2 DEF stateAfter, dataOf
      <3> QED BY <1>q, <1>s, <3>1, <3>3, <3>4 DEF Outcome
    <2>3. CASE b # IAC
      <3> DEFINE k == processSubnegotiation(n, r).neg
      <3>1. R.clean = c /\ (R.neg = [k EXCEPT !.state = "Data"] \/ R.neg = [n EXCEPT !.state = "Data"])
        BY <2>1, <2>3 DEF handleSubnegIACByte, Outcome
      <3>2. k = n \/ k = [n EXCEPT !.subnegBuffer = << >>]
        BY DEF processSubnegotiation
      <3> HIDE DEF k
      <3>3. k = n \/ k \in [state : ParserStates, currentCommand : {0} \union OptionCommands,
                   subnegBuffer : {<< >>}, optionStates : {w}, cols : {co}, rows : {ro}]
        BY <1>0, <3>2
      <3>4. \E v1 : R.neg \in [state : {"Data"}, currentCommand : {0} \union OptionCommands,
                   subnegBuffer : {v1}, optionStates : {w}, cols : {co}, rows : {ro}]
        <4>1. CASE R.neg = [n EXCEPT !.state = "Data"] \/ k = n
          <5>1. R.neg \in [state : {"Data"}, currentCommand : {0} \union OptionCommands,
                   subnegBuffer : {v}, optionStates : {w}, cols : {co}, rows : {ro}]
            BY <1>0, <3>1, <4>1
          <5> QED BY <5>1
        <4>2. CASE R.neg = [k EXCEPT !.state = "Data"] /\ k # n
          <5>1. R.neg \in [state : {"Data"}, currentCommand : {0} \union OptionCommands,
                   subnegBuffer : {<< >>}, optionStates : {w}, cols : {co}, rows : {ro}]
            BY <3>3, <4>2
          <5> QED BY <5>1
        <4> QED BY <3>1, <4>1, <4>2
      <3>5. Negotiator(R.neg) /\ R.neg.state = "Data"
        BY <1>a, <3>4 DEF ParserStates
      <3>6. stateAfter(n.state, b) = "Data" /\ dataOf(n.state, b) = << >>
        BY <1>5, <2>3 DEF stateAfter, dataOf
      <3> QED BY <1>q, <1>s, <3>1, <3>5, <3>6
    <2> QED BY <2>2, <2>3
  <1> QED BY <1>p, <1>1, <1>2, <1>3, <1>4, <1>5 DEF ParserStates

-----------------------------------------------------------------------------
(***************************************************************************)
(* A packet: its bytes may be cut anywhere.                                *)
(***************************************************************************)

\* The same up to a bound.
LEMMA IntervalInduction ==
    ASSUME NEW S, NEW len \in Nat, 0 \in S, \A i \in 1 .. len : i - 1 \in S => i \in S
    PROVE  0 .. len \subseteq S
  <1> DEFINE T == S \union {n \in Nat : n > len}
  <1>1. 0 \in T
    OBVIOUS
  <1>2. ASSUME NEW n \in Nat, n \in T PROVE n + 1 \in T
    <2>1. CASE n + 1 > len
      BY <2>1
    <2>2. CASE n + 1 <= len
      <3>1. n \in S /\ n + 1 \in 1 .. len /\ (n + 1) - 1 = n
        BY <1>2, <2>2
      <3> QED BY <3>1
    <2> QED BY <2>1, <2>2
  <1> HIDE DEF T
  <1>3. Nat \subseteq T
    BY <1>1, <1>2, SetInduction
  <1> QED BY <1>3 DEF T

LEMMA DataTyped == ASSUME NEW s, NEW b \in Byte PROVE dataOf(s, b) \in Seq(Byte)
  BY DEF dataOf

LEMMA BytesAssociate ==
    ASSUME NEW a \in Seq(Byte), NEW b \in Seq(Byte), NEW c \in Seq(Byte)
    PROVE  (a \o b) \o c = a \o (b \o c)
  BY ConcatAssociative

\* The parser stays a parser.
LEMMA InboundTyped ==
    ASSUME NEW n, Negotiator(n), NEW data \in Seq(Byte), NEW len \in Nat, len = Len(data)
    PROVE  \A i \in 0 .. len : /\ Negotiator(Inbound(n, data)[i].neg)
                               /\ Inbound(n, data)[i].clean \in Seq(Byte)
  <1> DEFINE o(i) == Inbound(n, data)[i]
  <1> DEFINE Good(i) == Negotiator(o(i).neg) /\ o(i).clean \in Seq(Byte)
  <1> DEFINE S == {i \in 0 .. len : Good(i)}
  <1>1. o(0) = Outcome(n, << >>, << >>) /\ \A i \in 1 .. len : o(i) = processOneByte(o(i - 1), data[i])
    BY InboundEquation
  <1> HIDE DEF o
  <1>2. 0 \in S
    <2>1. o(0).neg = n /\ o(0).clean = << >>
      BY <1>1 DEF Outcome
    <2>2. << >> \in Seq(Byte)
      OBVIOUS
    <2>3. Negotiator(o(0).neg)
      BY <2>1, Zenon
    <2>4. o(0).clean \in Seq(Byte)
      BY <2>1, <2>2, Zenon
    <2>5. 0 \in 0 .. len
      OBVIOUS
    <2>6. Good(0)
      BY <2>3, <2>4, Zenon
    <2> HIDE DEF Good
    <2> QED BY <2>5, <2>6
  <1>3. ASSUME NEW i \in 1 .. len, i - 1 \in S PROVE i \in S
    <2>1. data[i] \in Byte
      OBVIOUS
    <2>2. Negotiator(o(i - 1).neg) /\ o(i - 1).clean \in Seq(Byte)
      BY <1>3
    <2>3. Parsed(processOneByte(o(i - 1), data[i]), o(i - 1).neg, o(i - 1).clean, data[i])
      BY <2>1, <2>2, OneByte
    <2>4. Parsed(o(i), o(i - 1).neg, o(i - 1).clean, data[i])
      BY <1>1, <2>3
    <2>5. dataOf(o(i - 1).neg.state, data[i]) \in Seq(Byte)
      BY <2>1, DataTyped
    <2>6. Negotiator(o(i).neg) /\ o(i).clean = o(i - 1).clean \o dataOf(o(i - 1).neg.state, data[i])
      BY <2>4 DEF Parsed
    <2>7. o(i).clean \in Seq(Byte)
      <3> DEFINE x == o(i - 1).clean
      <3> DEFINE y == dataOf(o(i - 1).neg.state, data[i])
      <3>1. x \in Seq(Byte) /\ y \in Seq(Byte) /\ o(i).clean = x \o y
        BY <2>2, <2>5, <2>6
      <3> HIDE DEF x, y
      <3>2. x \o y \in Seq(Byte)
        BY <3>1
      <3> QED BY <3>1, <3>2
    <2>8. Good(i) /\ i \in 0 .. len
      BY <2>6, <2>7
    <2> HIDE DEF Good
    <2> QED BY <2>8
  <1> HIDE DEF S
  <1>4. 0 .. len \subseteq S
    BY <1>2, <1>3, IntervalInduction
  <1> QED BY <1>4 DEF S, o

Splits(n, m, d, e) ==
    /\ processInbound(n, d \o e).clean = processInbound(n, d).clean \o processInbound(m, e).clean
    /\ processInbound(n, d \o e).neg.state = processInbound(m, e).neg.state

\* A packet may end anywhere: the next one goes on where the parser stands, and no
\* other part of the negotiator has a say in what are data.
LEMMA InboundSplit ==
    ASSUME NEW n, Negotiator(n), NEW m, Negotiator(m), NEW d \in Seq(Byte), NEW e \in Seq(Byte),
           processInbound(n, d).neg.state = m.state
    PROVE  Splits(n, m, d, e)
  <1> DEFINE k == Len(d)
  <1> DEFINE l == Len(e)
  <1> DEFINE w == d \o e
  <1> DEFINE o(i) == Inbound(n, w)[i]
  <1> DEFINE p(i) == Inbound(n, d)[i]
  <1> DEFINE q(i) == Inbound(m, e)[i]
  <1>0. /\ k \in Nat /\ l \in Nat /\ k + l \in Nat /\ w \in Seq(Byte) /\ Len(w) = k + l
        /\ \A i \in 1 .. k : w[i] = d[i] /\ i \in 1 .. k + l
        /\ \A i \in 1 .. l : w[k + i] = e[i] /\ k + i \in 1 .. k + l /\ e[i] \in Byte
    OBVIOUS
  <1> HIDE DEF k, l, w
  <1>1. /\ o(0) = Outcome(n, << >>, << >>)
        /\ \A i \in 1 .. k + l : o(i) = processOneByte(o(i - 1), w[i])
    <2>1. k + l \in Nat /\ k + l = Len(w)
      BY <1>0
    <2> HIDE DEF o
    <2>2. /\ Inbound(n, w)[0] = Outcome(n, << >>, << >>)
          /\ \A i \in 1 .. k + l : Inbound(n, w)[i] = processOneByte(Inbound(n, w)[i - 1], w[i])
      BY <2>1, InboundEquation
    <2> QED BY <2>2 DEF o
  <1>2. /\ p(0) = Outcome(n, << >>, << >>)
        /\ \A i \in 1 .. k : p(i) = processOneByte(p(i - 1), d[i])
    BY <1>0, InboundEquation DEF k
  <1>3. /\ q(0) = Outcome(m, << >>, << >>)
        /\ \A i \in 1 .. l : q(i) = processOneByte(q(i - 1), e[i])
    BY <1>0, InboundEquation DEF l
  <1>4. \A i \in 0 .. k + l : Negotiator(o(i).neg) /\ o(i).clean \in Seq(Byte)
    <2>1. k + l \in Nat /\ k + l = Len(w) /\ w \in Seq(Byte)
      BY <1>0
    <2> HIDE DEF o
    <2>2. \A i \in 0 .. k + l : Negotiator(Inbound(n, w)[i].neg) /\ Inbound(n, w)[i].clean \in Seq(Byte)
      BY <2>1, InboundTyped
    <2> QED BY <2>2 DEF o
  <1>5. \A i \in 0 .. l : Negotiator(q(i).neg) /\ q(i).clean \in Seq(Byte)
    BY <1>0, InboundTyped DEF l
  <1>6. processInbound(n, w) = o(k + l) /\ processInbound(n, d) = p(k) /\ processInbound(m, e) = q(l)
    BY <1>0 DEF processInbound, k, l
  <1> HIDE DEF k, l, w, o, p, q
  <1>7. o(k) = p(k)
    <2> DEFINE S == {i \in 0 .. k : o(i) = p(i)}
    <2>1. 0 \in S
      BY <1>0, <1>1, <1>2
    <2>2. ASSUME NEW i \in 1 .. k, i - 1 \in S PROVE i \in S
      <3>1. o(i) = processOneByte(o(i - 1), w[i]) /\ w[i] = d[i]
        BY <1>0, <1>1
      <3>2. p(i) = processOneByte(p(i - 1), d[i]) /\ o(i - 1) = p(i - 1)
        BY <1>2, <2>2
      <3> QED BY <3>1, <3>2
    <2> HIDE DEF S
    <2>3. 0 .. k \subseteq S
      BY <1>0, <2>1, <2>2, IntervalInduction
    <2> QED BY <1>0, <2>3 DEF S
  <1> DEFINE c == o(k).clean
  <1>8. c \in Seq(Byte)
    BY <1>0, <1>4
  <1> HIDE DEF c
  <1> DEFINE Same(i) == o(k + i).neg.state = q(i).neg.state /\ o(k + i).clean = c \o q(i).clean
  <1> DEFINE S == {i \in 0 .. l : Same(i)}
  <1>9. 0 \in S
    <2>1. o(k).neg.state = q(0).neg.state
      BY <1>3, <1>6, <1>7 DEF Outcome, w
    <2>2. q(0).clean = << >> /\ c \o << >> = c
      BY <1>3, <1>8 DEF Outcome
    <2>3. k + 0 = k
      BY <1>0
    <2>4. o(k + 0).neg.state = q(0).neg.state /\ o(k + 0).clean = c \o q(0).clean
      BY <2>1, <2>2, <2>3 DEF c
    <2> QED BY <1>0, <2>4
  <1>10. ASSUME NEW i \in 1 .. l, i - 1 \in S PROVE i \in S
    <2> DEFINE x == o(k + (i - 1))
    <2> DEFINE y == q(i - 1)
    <2>1. o(k + i) = processOneByte(x, e[i])
      <3>1. k + i \in 1 .. k + l /\ (k + i) - 1 = k + (i - 1) /\ w[k + i] = e[i]
        BY <1>0
      <3>2. o(k + i) = processOneByte(o((k + i) - 1), w[k + i])
        BY <1>1, <3>1
      <3> QED BY <3>1, <3>2
    <2>2. q(i) = processOneByte(y, e[i])
      BY <1>3
    <2>3. x.neg.state = y.neg.state /\ x.clean = c \o y.clean
      BY <1>10
    <2>4. Negotiator(x.neg) /\ x.clean \in Seq(Byte) /\ e[i] \in Byte
      <3>1. k + (i - 1) \in 0 .. k + l
        BY <1>0
      <3> QED BY <1>0, <1>4, <3>1
    <2>5. Negotiator(y.neg) /\ y.clean \in Seq(Byte)
      <3>1. i - 1 \in 0 .. l
        BY <1>0
      <3> QED BY <1>5, <3>1
    <2> HIDE DEF x, y
    <2>6. Parsed(o(k + i), x.neg, x.clean, e[i]) /\ Parsed(q(i), y.neg, y.clean, e[i])
      BY <2>1, <2>2, <2>4, <2>5, OneByte
    <2> DEFINE t == dataOf(y.neg.state, e[i])
    <2>7. t \in Seq(Byte)
      BY <2>4, DataTyped
    <2>8. o(k + i).neg.state = q(i).neg.state /\ o(k + i).clean = x.clean \o t /\ q(i).clean = y.clean \o t
      BY <2>3, <2>6 DEF Parsed
    <2> HIDE DEF t
    <2>9. (c \o y.clean) \o t = c \o (y.clean \o t)
      <3> DEFINE u == y.clean
      <3>1. u \in Seq(Byte)
        BY <2>5
      <3> HIDE DEF u
      <3>2. (c \o u) \o t = c \o (u \o t)
        BY <1>8, <2>7, <3>1, BytesAssociate
      <3> QED BY <3>2 DEF u
    <2>10. Same(i)
      <3>1. o(k + i).clean = (c \o y.clean) \o t
        BY <2>3, <2>8
      <3>2. o(k + i).clean = c \o q(i).clean
        BY <2>8, <2>9, <3>1
      <3> QED BY <2>8, <3>2
    <2> QED BY <1>0, <2>10
  <1> HIDE DEF S
  <1>11. 0 .. l \subseteq S
    BY <1>0, <1>9, <1>10, IntervalInduction
  <1>12. Same(l)
    BY <1>0, <1>11 DEF S
  <1> QED BY <1>6, <1>7, <1>12 DEF w, c, Splits

-----------------------------------------------------------------------------
(***************************************************************************)
(* The parser as a function of its state, and what a host means.           *)
(***************************************************************************)

\* A parser in a state, with nothing else to say.
Reader(s) ==
    [state |-> s, currentCommand |-> DO, subnegBuffer |-> << >>,
     optionStates |-> [o \in SUPPORTED_OPTIONS |-> "inactive"], cols |-> 80, rows |-> 24]

\* The data in bytes that arrive while the parser is in a state, and where they leave it.
Decoded(s, bytes) == processInbound(Reader(s), bytes).clean

Reached(s, bytes) == processInbound(Reader(s), bytes).neg.state

LEMMA ReaderIs ==
    ASSUME NEW s \in ParserStates
    PROVE  Negotiator(Reader(s)) /\ Reader(s).state = s
  <1>1. Reader(s) \in [state : ParserStates, currentCommand : {0} \union OptionCommands,
                       subnegBuffer : {<< >>}, cols : {80}, rows : {24},
                       optionStates : {[o \in SUPPORTED_OPTIONS |-> "inactive"]}]
    BY DEF Reader, OptionCommands
  <1>2. Reader(s).currentCommand \in OptionCommands /\ Reader(s).state = s
    BY DEF Reader, OptionCommands
  <1> QED BY <1>1, <1>2 DEF Negotiator

LEMMA InboundEmpty ==
    ASSUME NEW n PROVE processInbound(n, << >>) = Outcome(n, << >>, << >>)
  <1>1. 0 \in Nat /\ 0 = Len(<< >>)
    OBVIOUS
  <1>2. Inbound(n, << >>)[0] = Outcome(n, << >>, << >>)
    BY <1>1, InboundEquation
  <1> QED BY <1>1, <1>2, Zenon DEF processInbound

\* Only the state of the parser counts.
LEMMA InboundDecodes ==
    ASSUME NEW n, Negotiator(n), NEW d \in Seq(Byte)
    PROVE  /\ processInbound(n, d).clean = Decoded(n.state, d) /\ Decoded(n.state, d) \in Seq(Byte)
           /\ processInbound(n, d).neg.state = Reached(n.state, d) /\ Reached(n.state, d) \in ParserStates
           /\ Negotiator(processInbound(n, d).neg)
  <1> DEFINE s == n.state
  <1>1. s \in ParserStates
    BY DEF Negotiator
  <1> HIDE DEF s
  <1>2. Negotiator(Reader(s)) /\ Reader(s).state = s
    BY <1>1, ReaderIs
  <1>3. processInbound(n, << >>).neg.state = Reader(s).state /\ processInbound(n, << >>).clean = << >>
    BY <1>2, InboundEmpty DEF Outcome, s
  <1>4. << >> \in Seq(Byte) /\ << >> \o d = d
    BY ConcatEmptySeq
  <1>5. /\ processInbound(n, << >> \o d).clean = processInbound(n, << >>).clean \o processInbound(Reader(s), d).clean
        /\ processInbound(n, << >> \o d).neg.state = processInbound(Reader(s), d).neg.state
    <2> DEFINE m == Reader(s)
    <2> DEFINE e == << >>
    <2>1. Negotiator(m) /\ processInbound(n, e).neg.state = m.state /\ e \in Seq(Byte)
      BY <1>2, <1>3, <1>4
    <2> HIDE DEF m, e
    <2>2. Splits(n, m, e, d)
      BY <2>1, InboundSplit, Zenon
    <2> QED BY <2>2 DEF m, e, Splits
  <1> DEFINE k == Len(d)
  <1>6. k \in Nat /\ k = Len(d) /\ k \in 0 .. k
    OBVIOUS
  <1> HIDE DEF k
  <1>7. Negotiator(Inbound(n, d)[k].neg) /\ Inbound(n, d)[k].clean \in Seq(Byte)
    BY <1>6, InboundTyped
  <1>8. Negotiator(Inbound(Reader(s), d)[k].neg) /\ Inbound(Reader(s), d)[k].clean \in Seq(Byte)
    BY <1>2, <1>6, InboundTyped
  <1>9. Negotiator(processInbound(n, d).neg) /\ Negotiator(processInbound(Reader(s), d).neg)
        /\ processInbound(Reader(s), d).clean \in Seq(Byte)
    BY <1>6, <1>7, <1>8, Zenon DEF processInbound
  <1>10. processInbound(Reader(s), d).neg.state \in ParserStates
    BY <1>9 DEF Negotiator
  <1>11. << >> \o processInbound(Reader(s), d).clean = processInbound(Reader(s), d).clean
    BY <1>9, ConcatEmptySeq
  <1>12. processInbound(n, d).clean = Decoded(s, d) /\ processInbound(n, d).neg.state = Reached(s, d)
    BY <1>3, <1>4, <1>5, <1>11 DEF Decoded, Reached
  <1>13. Decoded(s, d) \in Seq(Byte) /\ Reached(s, d) \in ParserStates
    BY <1>9, <1>10, Zenon DEF Decoded, Reached
  <1> QED BY <1>9, <1>12, <1>13 DEF s

LEMMA DecodedTyped ==
    ASSUME NEW s \in ParserStates, NEW d \in Seq(Byte)
    PROVE  Decoded(s, d) \in Seq(Byte) /\ Reached(s, d) \in ParserStates
  <1>1. Negotiator(Reader(s)) /\ Reader(s).state = s
    BY ReaderIs
  <1> QED BY <1>1, InboundDecodes

LEMMA DecodedEmpty ==
    ASSUME NEW s \in ParserStates
    PROVE  Decoded(s, << >>) = << >> /\ Reached(s, << >>) = s
  BY ReaderIs, InboundEmpty DEF Decoded, Reached, Outcome

\* Data are decoded in pieces.
LEMMA DecodedConcat ==
    ASSUME NEW s \in ParserStates, NEW d \in Seq(Byte), NEW e \in Seq(Byte)
    PROVE  /\ Decoded(s, d \o e) = Decoded(s, d) \o Decoded(Reached(s, d), e)
           /\ Reached(s, d \o e) = Reached(Reached(s, d), e)
  <1> DEFINE t == Reached(s, d)
  <1>1. Negotiator(Reader(s)) /\ t \in ParserStates
    BY ReaderIs, DecodedTyped
  <1>2. Negotiator(Reader(t)) /\ Reader(t).state = t
    BY <1>1, ReaderIs
  <1>3. processInbound(Reader(s), d).neg.state = Reader(t).state
    BY <1>2 DEF Reached
  <1> HIDE DEF t
  <1>4. /\ processInbound(Reader(s), d \o e).clean
             = processInbound(Reader(s), d).clean \o processInbound(Reader(t), e).clean
        /\ processInbound(Reader(s), d \o e).neg.state = processInbound(Reader(t), e).neg.state
    <2> DEFINE n == Reader(s)
    <2> DEFINE m == Reader(t)
    <2>1. Negotiator(n) /\ Negotiator(m) /\ processInbound(n, d).neg.state = m.state
      BY <1>1, <1>2, <1>3
    <2> HIDE DEF n, m
    <2>2. Splits(n, m, d, e)
      BY <2>1, InboundSplit, Zenon
    <2> QED BY <2>2 DEF n, m, Splits
  <1> QED BY <1>4 DEF Decoded, Reached, t

\* One byte of a packet.
LEMMA InboundStep ==
    ASSUME NEW n, Negotiator(n), NEW data \in Seq(Byte), NEW i \in 1 .. Len(data)
    PROVE  /\ Inbound(n, data)[i].neg.state = stateAfter(Inbound(n, data)[i - 1].neg.state, data[i])
           /\ Inbound(n, data)[i].clean
                = Inbound(n, data)[i - 1].clean \o dataOf(Inbound(n, data)[i - 1].neg.state, data[i])
  <1> DEFINE k == Len(data)
  <1>1. k \in Nat /\ k = Len(data) /\ i - 1 \in 0 .. k /\ i \in 1 .. k /\ data[i] \in Byte
    OBVIOUS
  <1> HIDE DEF k
  <1> DEFINE o == Inbound(n, data)[i - 1]
  <1>2. Negotiator(o.neg) /\ o.clean \in Seq(Byte)
    BY <1>1, InboundTyped
  <1>3. Inbound(n, data)[i] = processOneByte(o, data[i])
    BY <1>1, InboundEquation
  <1> HIDE DEF o
  <1>4. Parsed(Inbound(n, data)[i], o.neg, o.clean, data[i])
    BY <1>1, <1>2, <1>3, OneByte
  <1> QED BY <1>4 DEF Parsed, o

LEMMA DecodedByte ==
    ASSUME NEW s \in ParserStates, NEW b \in Byte
    PROVE  Decoded(s, <<b>>) = dataOf(s, b) /\ Reached(s, <<b>>) = stateAfter(s, b)
  <1> DEFINE n == Reader(s)
  <1>1. Negotiator(n) /\ n.state = s
    BY ReaderIs
  <1>2. <<b>> \in Seq(Byte) /\ Len(<<b>>) = 1 /\ 1 \in 1 .. Len(<<b>>) /\ <<b>>[1] = b /\ 1 - 1 = 0 /\ 1 \in Nat
    OBVIOUS
  <1>4. Inbound(n, <<b>>)[0] = Outcome(n, << >>, << >>)
    BY <1>2, InboundEquation
  <1> HIDE DEF n
  <1>3. /\ Inbound(n, <<b>>)[1].neg.state = stateAfter(Inbound(n, <<b>>)[0].neg.state, b)
        /\ Inbound(n, <<b>>)[1].clean = Inbound(n, <<b>>)[0].clean \o dataOf(Inbound(n, <<b>>)[0].neg.state, b)
    BY <1>1, <1>2, InboundStep
  <1>5. processInbound(n, <<b>>) = Inbound(n, <<b>>)[1]
    BY <1>2, Zenon DEF processInbound
  <1>6. << >> \o dataOf(s, b) = dataOf(s, b)
    BY DataTyped, ConcatEmptySeq
  <1>7. Inbound(n, <<b>>)[0].neg.state = s /\ Inbound(n, <<b>>)[0].clean = << >>
    BY <1>1, <1>4 DEF Outcome
  <1> QED BY <1>3, <1>5, <1>6, <1>7 DEF Decoded, Reached, n

\* The states of the parser behind the first bytes of a subnegotiation.
LEMMA SubnegotiationDecoded ==
    ASSUME NEW w, Subnegotiation(w)
    PROVE  w \in Seq(Byte) /\ Decoded("Data", w) = << >> /\ Reached("Data", w) = "Data"
  <1> DEFINE n == Reader("Data")
  <1> DEFINE o(i) == Inbound(n, w)[i]
  <1> DEFINE l == Len(w)
  <1>0. /\ w \in Seq(Byte) /\ l \in Nat /\ l > 3
        /\ w[1] = IAC /\ w[2] = SB /\ w[l - 1] = IAC /\ w[l] = SE
    BY DEF Subnegotiation
  <1>1. PICK firsts \in SUBSET (3 .. l - 3) :
          /\ \A i \in firsts : i + 1 \notin firsts
          /\ \A i \in 3 .. l - 2 : w[i] = IAC <=> i \in firsts \/ i - 1 \in firsts
    BY DEF Subnegotiation
  <1>2. Negotiator(n) /\ n.state = "Data"
    <2>1. "Data" \in ParserStates
      BY DEF ParserStates
    <2> QED BY <2>1, ReaderIs
  <1>3. o(0) = Outcome(n, << >>, << >>)
    BY <1>0, InboundEquation
  <1>4. ASSUME NEW i \in 1 .. l
        PROVE  /\ o(i).neg.state = stateAfter(o(i - 1).neg.state, w[i])
               /\ o(i).clean = o(i - 1).clean \o dataOf(o(i - 1).neg.state, w[i])
    <2>1. i \in 1 .. Len(w)
      OBVIOUS
    <2> HIDE DEF n, l
    <2> QED BY <1>0, <1>2, <2>1, InboundStep
  <1>5. processInbound(n, w) = o(l)
    BY DEF processInbound
  <1> HIDE DEF n, o, l
  <1>k. IAC # SB /\ SE # IAC /\ IAC \notin OptionCommands /\ << >> \o << >> = << >>
    BY DEF IAC, SB, SE, OptionCommands, DO, DONT, WILL, WONT
  \* A byte that the parser takes without a trace among the data.
  <1>6. ASSUME NEW i \in 1 .. l, NEW s, o(i - 1).neg.state = s, o(i - 1).clean = << >>,
               dataOf(s, w[i]) = << >>
        PROVE  o(i).neg.state = stateAfter(s, w[i]) /\ o(i).clean = << >>
    BY <1>4, <1>6, <1>k
  <1>7. o(0).neg.state = "Data" /\ o(0).clean = << >>
    BY <1>2, <1>3 DEF Outcome
  <1>8. o(1).neg.state = "GotIAC" /\ o(1).clean = << >>
    <2>1. dataOf("Data", w[1]) = << >> /\ stateAfter("Data", w[1]) = "GotIAC"
      BY <1>0 DEF dataOf, stateAfter
    <2>2. 1 \in 1 .. l /\ 1 - 1 = 0
      BY <1>0
    <2> QED BY <1>6, <1>7, <2>1, <2>2
  <1>9. o(2).neg.state = "InSubnegotiation" /\ o(2).clean = << >>
    <2>1. dataOf("GotIAC", w[2]) = << >> /\ stateAfter("GotIAC", w[2]) = "InSubnegotiation"
      BY <1>0, <1>k DEF dataOf, stateAfter
    <2>2. 2 \in 1 .. l /\ 2 - 1 = 1
      BY <1>0
    <2> QED BY <1>6, <1>8, <2>1, <2>2
  <1> DEFINE Body(i) == /\ o(i).clean = << >>
                        /\ o(i).neg.state = IF i \in firsts THEN "SubnegotiationGotIAC"
                                            ELSE "InSubnegotiation"
  <1> DEFINE S == {j \in 0 .. l - 4 : Body(j + 2)}
  <1>10. 0 \in S
    BY <1>0, <1>1, <1>9
  <1>11. ASSUME NEW j \in 1 .. l - 4, j - 1 \in S PROVE j \in S
    <2> DEFINE i == j + 2
    <2> DEFINE s == IF i - 1 \in firsts THEN "SubnegotiationGotIAC" ELSE "InSubnegotiation"
    <2>1. i \in 3 .. l - 2 /\ i \in 1 .. l /\ (j - 1) + 2 = i - 1 /\ (i - 1) + 1 = i
      BY <1>0
    <2>2. o(i - 1).clean = << >> /\ o(i - 1).neg.state = s
      BY <1>11, <2>1
    <2>3. dataOf(s, w[i]) = << >>
      BY DEF dataOf
    <2> HIDE DEF i
    <2>4. stateAfter(s, w[i]) = IF i \in firsts THEN "SubnegotiationGotIAC" ELSE "InSubnegotiation"
      <3>1. CASE i - 1 \in firsts
        <4>1. w[i] = IAC /\ i \notin firsts
          BY <1>1, <2>1, <3>1
        <4> QED BY <3>1, <4>1 DEF stateAfter
      <3>2. CASE i - 1 \notin firsts
        <4>1. w[i] = IAC <=> i \in firsts
          BY <1>1, <2>1, <3>2
        <4> QED BY <3>2, <4>1 DEF stateAfter
      <3> QED BY <3>1, <3>2
    <2> HIDE DEF s
    <2>5. Body(i)
      BY <1>6, <2>1, <2>2, <2>3, <2>4
    <2> HIDE DEF Body
    <2>6. j \in 0 .. l - 4
      BY <1>0
    <2> QED BY <2>5, <2>6 DEF i
  <1> HIDE DEF S
  <1>12. l - 4 \in Nat
    BY <1>0
  <1> DEFINE k == l - 4
  <1>13. k \in Nat /\ k = l - 4
    BY <1>12
  <1> HIDE DEF k
  <1>14. 0 .. k \subseteq S
    BY <1>10, <1>11, <1>13, IntervalInduction
  <1>15. Body(l - 2)
    <2>1. k \in S /\ k + 2 = l - 2
      BY <1>0, <1>13, <1>14
    <2> HIDE DEF Body
    <2> QED BY <2>1 DEF S
  <1>16. o(l - 2).neg.state = "InSubnegotiation" /\ o(l - 2).clean = << >>
    BY <1>0, <1>1, <1>15
  <1>17. o(l - 1).neg.state = "SubnegotiationGotIAC" /\ o(l - 1).clean = << >>
    <2>1. dataOf("InSubnegotiation", w[l - 1]) = << >>
          /\ stateAfter("InSubnegotiation", w[l - 1]) = "SubnegotiationGotIAC"
      BY <1>0 DEF dataOf, stateAfter
    <2>2. l - 1 \in 1 .. l /\ (l - 1) - 1 = l - 2
      BY <1>0
    <2> QED BY <1>6, <1>16, <2>1, <2>2
  <1>18. o(l).neg.state = "Data" /\ o(l).clean = << >>
    <2>1. dataOf("SubnegotiationGotIAC", w[l]) = << >>
          /\ stateAfter("SubnegotiationGotIAC", w[l]) = "Data"
      BY <1>0, <1>k DEF dataOf, stateAfter
    <2>2. l \in 1 .. l
      BY <1>0
    <2> QED BY <1>6, <1>17, <2>1, <2>2
  <1> QED BY <1>0, <1>5, <1>18 DEF Decoded, Reached, n

Means(bytes, data) ==
    /\ bytes \in Seq(Byte) /\ data \in Seq(Byte)
    /\ Decoded("Data", bytes) = data /\ Reached("Data", bytes) = "Data"

\* A sequence and one byte more.
LEMMA Joined ==
    ASSUME NEW b \in Byte, NEW c \in Byte, NEW o \in Byte
    PROVE  /\ <<b>> \in Seq(Byte) /\ <<c>> \in Seq(Byte) /\ <<o>> \in Seq(Byte)
           /\ <<b, c>> \in Seq(Byte) /\ <<b>> \o <<c>> = <<b, c>>
           /\ <<b, c, o>> \in Seq(Byte) /\ <<b, c>> \o <<o>> = <<b, c, o>>
  <1> DEFINE p == <<b>>
  <1> DEFINE q == <<c>>
  <1> DEFINE r == <<o>>
  <1> DEFINE u == <<b, c>>
  <1> DEFINE v == <<b, c, o>>
  <1>1. /\ p \in Seq(Byte) /\ q \in Seq(Byte) /\ r \in Seq(Byte)
        /\ Len(p) = 1 /\ Len(q) = 1 /\ Len(r) = 1 /\ p[1] = b /\ q[1] = c /\ r[1] = o
    OBVIOUS
  <1>2. u \in Seq(Byte) /\ Len(u) = 2 /\ u[1] = b /\ u[2] = c
    OBVIOUS
  <1>3. v \in Seq(Byte) /\ Len(v) = 3 /\ v[1] = b /\ v[2] = c /\ v[3] = o
    OBVIOUS
  <1> HIDE DEF p, q, r, u, v
  <1>4. p \o q = u
    <2> DEFINE x == p \o q
    <2>1. x \in Seq(Byte) /\ Len(x) = 2 /\ \A i \in 1 .. 2 : x[i] = IF i <= 1 THEN p[i] ELSE q[i - 1]
      BY <1>1, ConcatProperties
    <2> HIDE DEF x
    <2>2. \A i \in 1 .. Len(x) : x[i] = u[i]
      BY <1>1, <1>2, <2>1
    <2>3. x = u
      BY <1>2, <2>1, <2>2, SeqEqual
    <2> QED BY <2>3 DEF x
  <1>5. u \o r = v
    <2> DEFINE x == u \o r
    <2>0. x \in Seq(Byte) /\ Len(x) = Len(u) + Len(r)
          /\ \A i \in 1 .. Len(u) + Len(r) : x[i] = IF i <= Len(u) THEN u[i] ELSE r[i - Len(u)]
      BY <1>1, <1>2, ConcatProperties
    <2>1. x \in Seq(Byte) /\ Len(x) = 3 /\ \A i \in 1 .. 3 : x[i] = IF i <= 2 THEN u[i] ELSE r[i - 2]
      BY <1>1, <1>2, <2>0
    <2> HIDE DEF x
    <2>2. x[1] = b /\ x[2] = c /\ x[3] = o
      BY <1>1, <1>2, <2>1
    <2>3. \A i \in 1 .. Len(x) : x[i] = v[i]
      BY <1>3, <2>1, <2>2
    <2>4. x = v
      BY <1>3, <2>1, <2>3, SeqEqual
    <2> QED BY <2>4 DEF x
  <1> QED BY <1>1, <1>2, <1>3, <1>4, <1>5 DEF p, q, r, u, v

DecodesTo(bytes, data, t) == Decoded("Data", bytes) = data /\ Reached("Data", bytes) = t

\* Two bytes, and three.
LEMMA DecodedBytes ==
    ASSUME NEW b \in Byte, NEW c \in Byte, NEW s, s = stateAfter("Data", b), s \in ParserStates,
           NEW t, t = stateAfter(s, c), t \in ParserStates
    PROVE  /\ Decoded("Data", <<b, c>>) = dataOf("Data", b) \o dataOf(s, c)
           /\ Reached("Data", <<b, c>>) = t
           /\ \A o \in Byte :
                 DecodesTo(<<b, c, o>>, (dataOf("Data", b) \o dataOf(s, c)) \o dataOf(t, o), stateAfter(t, o))
  <1>1. "Data" \in ParserStates
    BY DEF ParserStates
  <1>2. <<b>> \in Seq(Byte) /\ <<c>> \in Seq(Byte) /\ <<b, c>> \in Seq(Byte) /\ <<b>> \o <<c>> = <<b, c>>
    BY Joined
  <1>3. Decoded("Data", <<b>>) = dataOf("Data", b) /\ Reached("Data", <<b>>) = s
    BY <1>1, DecodedByte
  <1>4. Decoded(s, <<c>>) = dataOf(s, c) /\ Reached(s, <<c>>) = t
    BY DecodedByte
  <1>5. /\ Decoded("Data", <<b>> \o <<c>>) = Decoded("Data", <<b>>) \o Decoded(Reached("Data", <<b>>), <<c>>)
        /\ Reached("Data", <<b>> \o <<c>>) = Reached(Reached("Data", <<b>>), <<c>>)
    BY <1>1, <1>2, DecodedConcat
  <1>6. Decoded("Data", <<b, c>>) = dataOf("Data", b) \o dataOf(s, c) /\ Reached("Data", <<b, c>>) = t
    BY <1>2, <1>3, <1>4, <1>5
  <1>7. ASSUME NEW o \in Byte
        PROVE  /\ Decoded("Data", <<b, c, o>>) = (dataOf("Data", b) \o dataOf(s, c)) \o dataOf(t, o)
               /\ Reached("Data", <<b, c, o>>) = stateAfter(t, o)
    <2>1. <<o>> \in Seq(Byte) /\ <<b, c>> \o <<o>> = <<b, c, o>>
      BY Joined
    <2>2. Decoded(t, <<o>>) = dataOf(t, o) /\ Reached(t, <<o>>) = stateAfter(t, o)
      BY DecodedByte
    <2>3. /\ Decoded("Data", <<b, c>> \o <<o>>)
                = Decoded("Data", <<b, c>>) \o Decoded(Reached("Data", <<b, c>>), <<o>>)
          /\ Reached("Data", <<b, c>> \o <<o>>) = Reached(Reached("Data", <<b, c>>), <<o>>)
      BY <1>1, <1>2, <2>1, DecodedConcat
    <2> QED BY <1>6, <2>1, <2>2, <2>3
  <1> QED BY <1>6, <1>7 DEF DecodesTo

\* What a host means is what the parser makes of it.
LEMMA HostDecoded ==
    ASSUME NEW h \in HostOutput
    PROVE  Means(h.wire, h.data)
  <1>1. HostUnit(h)
    BY HostAssumption
  <1>2. /\ "Data" \in ParserStates /\ "GotIAC" \in ParserStates /\ "GotCommand" \in ParserStates
        /\ << >> \in Seq(Byte) /\ << >> \o << >> = << >>
        /\ IAC \in Byte /\ IAC \notin OptionCommands /\ SB \notin OptionCommands /\ IAC # SB
        /\ OptionCommands \subseteq Byte
    BY DEF ParserStates, Byte, OptionCommands, IAC, SB, DO, DONT, WILL, WONT
  <1>g. stateAfter("Data", IAC) = "GotIAC" /\ dataOf("Data", IAC) = << >>
    BY DEF stateAfter, dataOf
  <1>3. ASSUME NEW b \in Byte \ {IAC}, h = [data |-> <<b>>, wire |-> <<b>>] PROVE Means(h.wire, h.data)
    <2>1. dataOf("Data", b) = <<b>> /\ stateAfter("Data", b) = "Data"
      BY Zenon DEF dataOf, stateAfter
    <2>2. Decoded("Data", <<b>>) = <<b>> /\ Reached("Data", <<b>>) = "Data"
      BY <1>2, <2>1, DecodedByte
    <2>3. <<b>> \in Seq(Byte) /\ h.wire = <<b>> /\ h.data = <<b>>
      BY <1>3
    <2> QED BY <2>2, <2>3 DEF Means
  <1>4. ASSUME h = [data |-> <<IAC>>, wire |-> <<IAC, IAC>>] PROVE Means(h.wire, h.data)
    <2>1. dataOf("GotIAC", IAC) = <<IAC>> /\ stateAfter("GotIAC", IAC) = "Data"
      BY <1>2, Zenon DEF dataOf, stateAfter
    <2>2. Decoded("Data", <<IAC, IAC>>) = << >> \o <<IAC>> /\ Reached("Data", <<IAC, IAC>>) = "Data"
      BY <1>2, <1>g, <2>1, DecodedBytes
    <2>3. /\ <<IAC>> \in Seq(Byte) /\ <<IAC, IAC>> \in Seq(Byte) /\ << >> \o <<IAC>> = <<IAC>>
          /\ h.wire = <<IAC, IAC>> /\ h.data = <<IAC>>
      BY <1>2, <1>4
    <2> QED BY <2>2, <2>3 DEF Means
  <1>5. ASSUME NEW c \in Byte \ (OptionCommands \union {IAC, SB}), h = [data |-> << >>, wire |-> <<IAC, c>>]
        PROVE  Means(h.wire, h.data)
    <2>1. dataOf("GotIAC", c) = << >> /\ stateAfter("GotIAC", c) = "Data"
      BY <1>2 DEF dataOf, stateAfter
    <2>2. Decoded("Data", <<IAC, c>>) = << >> \o << >> /\ Reached("Data", <<IAC, c>>) = "Data"
      BY <1>2, <1>g, <2>1, DecodedBytes
    <2>3. <<IAC, c>> \in Seq(Byte) /\ h.wire = <<IAC, c>> /\ h.data = << >>
      BY <1>2, <1>5
    <2> QED BY <1>2, <2>2, <2>3 DEF Means
  <1>6. ASSUME NEW c \in OptionCommands, NEW o \in Byte, h = [data |-> << >>, wire |-> <<IAC, c, o>>]
        PROVE  Means(h.wire, h.data)
    <2>1. /\ dataOf("GotIAC", c) = << >> /\ stateAfter("GotIAC", c) = "GotCommand"
          /\ dataOf("GotCommand", o) = << >> /\ stateAfter("GotCommand", o) = "Data"
      BY <1>2 DEF dataOf, stateAfter
    <2>2. /\ Decoded("Data", <<IAC, c, o>>) = (<< >> \o << >>) \o << >>
          /\ Reached("Data", <<IAC, c, o>>) = "Data"
      <3>1. c \in Byte /\ IAC \in Byte
        BY <1>2
      <3>2. "GotIAC" = stateAfter("Data", IAC) /\ "GotCommand" = stateAfter("GotIAC", c)
        BY <1>g, <2>1
      <3>3. /\ Decoded("Data", <<IAC, c, o>>)
                 = (dataOf("Data", IAC) \o dataOf("GotIAC", c)) \o dataOf("GotCommand", o)
            /\ Reached("Data", <<IAC, c, o>>) = stateAfter("GotCommand", o)
        <4> DEFINE s == "GotIAC"
        <4> DEFINE t == "GotCommand"
        <4>1. s = stateAfter("Data", IAC) /\ s \in ParserStates /\ t = stateAfter(s, c) /\ t \in ParserStates
          BY <1>2, <3>2
        <4> HIDE DEF s, t
        <4>2. DecodesTo(<<IAC, c, o>>, (dataOf("Data", IAC) \o dataOf(s, c)) \o dataOf(t, o),
                        stateAfter(t, o))
          BY <3>1, <4>1, DecodedBytes, Zenon
        <4> QED BY <4>2 DEF s, t, DecodesTo
      <3> QED BY <1>g, <2>1, <3>3
    <2>3. <<IAC, c, o>> \in Seq(Byte) /\ h.wire = <<IAC, c, o>> /\ h.data = << >>
      BY <1>2, <1>6
    <2> QED BY <1>2, <2>2, <2>3 DEF Means
  <1>7. ASSUME h = [data |-> << >>, wire |-> h.wire], Subnegotiation(h.wire) PROVE Means(h.wire, h.data)
    <2>1. h.data = << >>
      BY <1>7
    <2> QED BY <1>2, <1>7, <2>1, SubnegotiationDecoded DEF Means
  <1> QED BY <1>1, <1>3, <1>4, <1>5, <1>6, <1>7 DEF HostUnit

-----------------------------------------------------------------------------
(***************************************************************************)
(* The inductive invariant.                                                *)
(***************************************************************************)

\* A connection that is not there yet has carried nothing.
NotConnected ==
    /\ tcp \in {"idle", "connecting", "open", "destroyed"}
    /\ tcp \in {"idle", "connecting"} => ~pooled /\ stream = "none" /\ wire = << >> /\ sent = << >>

\* Until the shell is opened everything waits in the paused socket.
BeforeShell ==
    stream = "none" =>
        /\ pushed = << >> /\ eaten = 0 /\ auth.buffer = << >> /\ auth.state = "pass-through"
        /\ tcp = "open" => paused /\ Reached("Data", wire) = "Data" /\ Decoded("Data", wire) = sent

\* A login that waits has shown nothing, one that does not holds nothing back.
Withheld ==
    /\ auth.state \in Waiting => pushed = << >>
    /\ auth.state \notin Waiting => auth.buffer = << >>

Whole(taken, shown, held, rest) == taken \o (shown \o (held \o rest))

\* What the host wrote is what the login took, what the browser has been shown, what the
\* login holds back and the data in what TCP has not delivered.
Accounted ==
    listening /\ tcp = "open" =>
        /\ Reached(neg.state, wire) = "Data"
        /\ \E taken \in Seq(Byte) :
             /\ auth.state # "failed" => Len(taken) = eaten
             /\ sent = Whole(taken, pushed, auth.buffer, Decoded(neg.state, wire))

FlowTyped ==
    /\ Negotiator(neg) /\ eaten \in Nat
    /\ wire \in Seq(Byte) /\ sent \in Seq(Byte) /\ pushed \in Seq(Byte) /\ auth.buffer \in Seq(Byte)

FlowInv == QuietInv /\ FlowTyped /\ NotConnected /\ BeforeShell /\ Withheld /\ Accounted

-----------------------------------------------------------------------------
(***************************************************************************)
(* What data do to the login (processData).                                *)
(***************************************************************************)

\* telnet-auth.ts: what becomes of data.
Forwarded(a, data, r) ==
    a.state \notin Waiting /\ r.auth = a /\ r.write = << >> /\ r.forward = data

PassedThrough(a, data, r) ==
    /\ r.auth.state = "pass-through" /\ r.auth.buffer = << >>
    /\ r.write = << >> /\ r.forward = a.buffer \o data

Taken(a, data, r) ==
    /\ r.auth.state \in Waiting /\ r.auth.buffer = << >>
    /\ r.write # << >> /\ r.forward = << >>

Kept(a, data, r) ==
    /\ r.auth.state = a.state /\ r.auth.buffer = a.buffer \o data
    /\ r.write = << >> /\ r.forward = << >>

LoginFailed(a, data, r) ==
    /\ r.auth.state = "failed" /\ r.auth.buffer = << >>
    /\ r.write = << >> /\ r.forward = data

LEMMA ProcessEffect ==
    ASSUME NEW a, Authenticator(a), NEW data, OptionsTyped
    PROVE  \/ Forwarded(a, data, processData(a, data))
           \/ /\ a.state \in Waiting
              /\ \/ PassedThrough(a, data, processData(a, data))
                 \/ Taken(a, data, processData(a, data))
                 \/ Kept(a, data, processData(a, data))
                 \/ LoginFailed(a, data, processData(a, data))
  <1> DEFINE full == a.buffer \o data
  <1> DEFINE b == [a EXCEPT !.buffer = full]
  <1> DEFINE r == processData(a, data)
  <1>1. PICK c : a \in [state : AuthStates, buffer : {c}, timeout : BOOLEAN, settle : BOOLEAN]
    BY DEF Authenticator
  <1> HIDE DEF full
  <1>2. b \in [state : AuthStates, buffer : {full}, timeout : BOOLEAN, settle : BOOLEAN]
        /\ b.state = a.state /\ b.buffer = full
    BY <1>1
  <1>3. \/ a.state \notin Waiting /\ r = Result(a, << >>, data)
        \/ a.state \in Waiting /\ r = transitionToPassThrough(b)
        \/ a.state = "waiting-login" /\ r = handleWaitingLogin(b)
        \/ a.state = "waiting-password" /\ r = handleWaitingPassword(b)
        \/ a.state \in Waiting /\ r = handleWaitingResult(b, data)
    <2> HIDE DEF b
    <2>1. r = CASE a.state \notin Waiting -> Result(a, << >>, data)
              [] a.state \in Waiting /\ Len(b.buffer) > MAX_AUTH_BUFFER_BYTES
                   -> transitionToPassThrough(b)
              [] a.state = "waiting-login" /\ Len(b.buffer) <= MAX_AUTH_BUFFER_BYTES
                   -> handleWaitingLogin(b)
              [] a.state = "waiting-password" /\ Len(b.buffer) <= MAX_AUTH_BUFFER_BYTES
                   -> handleWaitingPassword(b)
              [] OTHER -> handleWaitingResult(b, data)
      BY DEF processData, b, full
    <2> HIDE DEF r
    <2> QED BY <2>1
  <1> HIDE DEF b, r
  <1>w. "waiting-login" \in Waiting /\ "waiting-password" \in Waiting /\ "waiting-result" \in Waiting
    BY DEF Waiting
  <1>4. ASSUME r = Result(a, << >>, data), a.state \notin Waiting PROVE Forwarded(a, data, r)
    BY <1>4 DEF Result, Forwarded
  <1>5. ASSUME r = transitionToPassThrough(b) PROVE PassedThrough(a, data, r)
    <2>1. r.auth \in [state : {"pass-through"}, buffer : {<< >>}, timeout : BOOLEAN, settle : BOOLEAN]
      BY <1>2, <1>5 DEF transitionToPassThrough, Result
    <2>2. r.write = << >> /\ r.forward = full
      BY <1>2, <1>5 DEF transitionToPassThrough, Result
    <2> QED BY <2>1, <2>2 DEF PassedThrough, full
  <1>6. ASSUME a.state \in Waiting, r = noAction(b) PROVE Kept(a, data, r)
    BY <1>2, <1>6 DEF noAction, Result, Kept, full
  <1>7. ASSUME NEW x, x \in [state : Waiting, buffer : {<< >>}, timeout : BOOLEAN, settle : BOOLEAN],
               NEW text, r = Result(x, <<text>>, << >>)
        PROVE  Taken(a, data, r)
    BY <1>7 DEF Result, Taken
  <1>8. ASSUME r = handleWaitingLogin(b), a.state = "waiting-login" PROVE Taken(a, data, r) \/ Kept(a, data, r)
    <2>1. CASE test(loginPrompt, b.buffer)
      <3> DEFINE x == [b EXCEPT !.buffer = << >>,
                                !.state = IF config.password THEN "waiting-password" ELSE "waiting-result"]
      <3>1. r = Result(x, <<"username">>, << >>)
        BY <1>8, <2>1 DEF handleWaitingLogin
      <3>2. x \in [state : Waiting, buffer : {<< >>}, timeout : BOOLEAN, settle : BOOLEAN]
        BY <1>2 DEF Waiting
      <3> HIDE DEF x
      <3> QED BY <1>7, <3>1, <3>2
    <2>2. CASE ~test(loginPrompt, b.buffer)
      BY <1>6, <1>8, <1>w, <2>2 DEF handleWaitingLogin
    <2> QED BY <2>1, <2>2
  <1>9. ASSUME r = handleWaitingPassword(b), a.state = "waiting-password"
        PROVE  Taken(a, data, r) \/ Kept(a, data, r)
    <2>1. CASE config.passwordPrompt /\ test(passwordPrompt, b.buffer)
      <3> DEFINE x == [b EXCEPT !.buffer = << >>, !.state = "waiting-result", !.settle = FALSE]
      <3>1. r = Result(x, <<"password">>, << >>)
        BY <1>9, <2>1 DEF handleWaitingPassword
      <3>2. x \in [state : Waiting, buffer : {<< >>}, timeout : BOOLEAN, settle : BOOLEAN]
        BY <1>2 DEF Waiting
      <3> HIDE DEF x
      <3> QED BY <1>7, <3>1, <3>2
    <2>2. CASE ~(config.passwordPrompt /\ test(passwordPrompt, b.buffer))
      BY <1>6, <1>9, <1>w, <2>2 DEF handleWaitingPassword
    <2> QED BY <2>1, <2>2
  <1>10. ASSUME r = handleWaitingResult(b, data), a.state \in Waiting
         PROVE  LoginFailed(a, data, r) \/ Kept(a, data, r)
    <2>1. CASE config.failure /\ test(failurePattern, b.buffer)
      <3> DEFINE x == [b EXCEPT !.state = "failed", !.buffer = << >>, !.timeout = FALSE, !.settle = FALSE]
      <3>1. r = Result(x, << >>, data)
        BY <1>10, <2>1 DEF handleWaitingResult
      <3>2. x \in [state : {"failed"}, buffer : {<< >>}, timeout : BOOLEAN, settle : BOOLEAN]
        BY <1>2
      <3> HIDE DEF x
      <3> QED BY <3>1, <3>2 DEF Result, LoginFailed
    <2>2. CASE ~(config.failure /\ test(failurePattern, b.buffer))
      <3> DEFINE x == [b EXCEPT !.settle = TRUE]
      <3>1. r = noAction(x)
        BY <1>10, <2>2 DEF handleWaitingResult
      <3>2. x.state = a.state /\ x.buffer = full
        BY <1>2
      <3> HIDE DEF x
      <3> QED BY <3>1, <3>2 DEF noAction, Result, Kept, full
    <2> QED BY <2>1, <2>2
  <1>11. Forwarded(a, data, r) \/ (a.state \in Waiting /\ (PassedThrough(a, data, r) \/ Taken(a, data, r)
                                     \/ Kept(a, data, r) \/ LoginFailed(a, data, r)))
    BY <1>3, <1>4, <1>5, <1>8, <1>9, <1>10, <1>w
  <1> QED BY <1>11 DEF r

\* The five ways in which data move on.
Regrouped(all, t, p, b, c, r) ==
    /\ b = << >> => all = Whole(t, p \o c, << >>, r)
    /\ p = << >> => all = Whole(t, p \o (b \o c), << >>, r)
    /\ p = << >> => all = Whole(t \o (b \o c), p \o << >>, << >>, r)
    /\ all = Whole(t, p \o << >>, b \o c, r)
    /\ p = << >> => all = Whole(t \o b, p \o c, << >>, r)

LEMMA Regroup ==
    ASSUME NEW t \in Seq(Byte), NEW p \in Seq(Byte), NEW b \in Seq(Byte), NEW c \in Seq(Byte),
           NEW r \in Seq(Byte)
    PROVE  Regrouped(Whole(t, p, b, c \o r), t, p, b, c, r)
  <1> DEFINE x == t \o (p \o (b \o (c \o r)))
  <1>1. \A s \in Seq(Byte) : << >> \o s = s /\ s \o << >> = s
    BY ConcatEmptySeq
  <1>2. \A s, u \in Seq(Byte) : s \o u \in Seq(Byte)
    OBVIOUS
  <1>3. \A s, u, v \in Seq(Byte) : (s \o u) \o v = s \o (u \o v)
    BY BytesAssociate
  <1>4. b = << >> => x = t \o ((p \o c) \o (<< >> \o r))
    <2> SUFFICES ASSUME b = << >> PROVE x = t \o ((p \o c) \o (<< >> \o r))
      OBVIOUS
    <2>1. c \o r \in Seq(Byte)
      BY <1>2
    <2>2. b \o (c \o r) = c \o r /\ << >> \o r = r
      BY <1>1, <2>1
    <2>3. (p \o c) \o r = p \o (c \o r)
      BY BytesAssociate
    <2> QED BY <2>2, <2>3, Zenon
  <1>5. p = << >> => x = t \o (b \o (c \o r))
    <2>1. c \o r \in Seq(Byte)
      BY <1>2
    <2>2. b \o (c \o r) \in Seq(Byte)
      BY <1>2, <2>1
    <2>3. << >> \o (b \o (c \o r)) = b \o (c \o r)
      BY <1>1, <2>2
    <2> QED BY <2>3, Zenon
  <1>6. << >> \o r = r /\ p \o << >> = p /\ (b \o c) \o r = b \o (c \o r) /\ b \o c \in Seq(Byte)
        /\ << >> \o (b \o c) = b \o c /\ << >> \o c = c
    <2>1. b \o c \in Seq(Byte)
      BY <1>2
    <2>2. << >> \o (b \o c) = b \o c
      BY <1>1, <2>1
    <2>3. (b \o c) \o r = b \o (c \o r)
      BY <1>3
    <2> QED BY <1>1, <2>1, <2>2, <2>3
  <1>7. p = << >> => x = t \o ((p \o (b \o c)) \o (<< >> \o r))
    BY <1>5, <1>6, Zenon
  <1>8. p = << >> => x = (t \o (b \o c)) \o ((p \o << >>) \o (<< >> \o r))
    <2>1. (t \o (b \o c)) \o r = t \o ((b \o c) \o r)
      BY <1>3, <1>6
    <2>2. p = << >> => (p \o << >>) \o (<< >> \o r) = r
      BY <1>1, <1>6, Zenon
    <2> QED BY <1>5, <1>6, <2>1, <2>2, Zenon
  <1>9. x = t \o ((p \o << >>) \o ((b \o c) \o r))
    BY <1>6, Zenon
  <1>10. p = << >> => x = (t \o b) \o ((p \o c) \o (<< >> \o r))
    <2>1. c \o r \in Seq(Byte)
      BY <1>2
    <2>2. (t \o b) \o (c \o r) = t \o (b \o (c \o r))
      <3>1. \A y \in Seq(Byte) : (t \o b) \o y = t \o (b \o y)
        BY BytesAssociate
      <3> QED BY <2>1, <3>1
    <2> QED BY <1>5, <1>6, <2>2, Zenon
  <1> QED BY <1>4, <1>7, <1>8, <1>9, <1>10, Zenon DEF Whole, Regrouped

LEMMA SuffixOf ==
    ASSUME NEW t \in Seq(Byte), NEW x \in Seq(Byte)
    PROVE  IsSuffix(x, t \o x) /\ x = SubSeq(t \o x, Len(t) + 1, Len(t \o x))
  <1> DEFINE a == Len(t)
  <1> DEFINE b == Len(x)
  <1> DEFINE u == t \o x
  <1>1. /\ a \in Nat /\ b \in Nat /\ u \in Seq(Byte) /\ Len(u) = a + b /\ Len(x) = b /\ Len(t) = a
        /\ \A i \in 1 .. b : a + i \in 1 .. a + b /\ u[a + i] = x[i]
    OBVIOUS
  <1> HIDE DEF a, b, u
  <1>2. x = SubSeq(u, a + 1, a + b)
    <2> DEFINE v == SubSeq(u, a + 1, a + b)
    <2>1. \A i \in a + 1 .. a + b : u[i] \in Byte
      BY <1>1
    <2>2. a + 1 \in Int /\ a + b \in Int
      BY <1>1
    <2>3. /\ v \in Seq(Byte) /\ Len(v) = IF a + 1 <= a + b THEN (a + b) - (a + 1) + 1 ELSE 0
          /\ \A i \in 1 .. (a + b) - (a + 1) + 1 : v[i] = u[(a + 1) + i - 1]
      BY <2>1, <2>2, SubSeqProperties
    <2> HIDE DEF v
    <2>4. Len(v) = b /\ (a + b) - (a + 1) + 1 = b
      BY <1>1, <2>3
    <2>5. \A i \in 1 .. b : v[i] = x[i]
      <3> TAKE i \in 1 .. b
      <3>1. (a + 1) + i - 1 = a + i
        BY <1>1
      <3> QED BY <1>1, <2>3, <2>4, <3>1
    <2>6. v = x
      BY <1>1, <2>3, <2>4, <2>5, SeqEqual
    <2> QED BY <2>6 DEF v
  <1>3. IsSuffix(x, u)
    <2> DEFINE p == Reverse(x)
    <2> DEFINE q == Reverse(u)
    <2>1. /\ p \in Seq(Byte) /\ Len(p) = b
          /\ \A i \in 1 .. b : b - i + 1 \in 1 .. b /\ p[i] = x[b - i + 1]
      BY <1>1 DEF Reverse
    <2>2. /\ q \in Seq(Byte) /\ Len(q) = a + b
          /\ \A i \in 1 .. a + b : q[i] = u[(a + b) - i + 1]
      BY <1>1 DEF Reverse
    <2> HIDE DEF p, q
    <2>3. \A i \in 1 .. b : p[i] = q[i]
      <3> TAKE i \in 1 .. b
      <3>1. (a + b) - i + 1 = a + (b - i + 1) /\ i \in 1 .. a + b
        BY <1>1
      <3> QED BY <1>1, <2>1, <2>2, <3>1
    <2>4. Len(p) <= Len(q) /\ SubSeq(p, 1, Len(p)) = SubSeq(q, 1, Len(p))
      <3> DEFINE v == SubSeq(q, 1, b)
      <3>1. \A i \in 1 .. b : q[i] \in Byte
        BY <1>1, <2>2
      <3>2. 1 \in Int /\ b \in Int
        BY <1>1
      <3>3. /\ v \in Seq(Byte) /\ Len(v) = IF 1 <= b THEN b - 1 + 1 ELSE 0
            /\ \A i \in 1 .. b - 1 + 1 : v[i] = q[1 + i - 1]
        BY <3>1, <3>2, SubSeqProperties
      <3> HIDE DEF v
      <3>4. Len(v) = b /\ \A i \in 1 .. b : v[i] = q[i]
        BY <1>1, <3>3
      <3>5. v = p
        BY <2>1, <2>3, <3>3, <3>4, SeqEqual
      <3>6. SubSeq(p, 1, Len(p)) = p
        BY <2>1, SubSeqFull
      <3> QED BY <1>1, <2>1, <2>2, <3>5, <3>6 DEF v
    <2> QED BY <2>4 DEF IsSuffix, IsPrefix, p, q
  <1> QED BY <1>1, <1>2, <1>3 DEF u

-----------------------------------------------------------------------------
(***************************************************************************)
(* The steps.                                                              *)
(***************************************************************************)

LEMMA NewNegotiatorIs ==
    ASSUME NEW c, NEW r
    PROVE  /\ Negotiator(NewNegotiator(c, r)) /\ NewNegotiator(c, r).state = "Data"
           /\ Negotiator(buildProactiveOffers(NewNegotiator(c, r)).neg)
           /\ buildProactiveOffers(NewNegotiator(c, r)).neg.state = "Data"
  <1> DEFINE n == NewNegotiator(c, r)
  <1> DEFINE w == [o \in SUPPORTED_OPTIONS |-> "inactive"]
  <1>1. n \in [state : {"Data"}, currentCommand : {0} \union OptionCommands, subnegBuffer : {<< >>},
               optionStates : {w}, cols : {c}, rows : {r}]
    BY DEF NewNegotiator
  <1> DEFINE v == [o \in SUPPORTED_OPTIONS |->
                     IF o \in ToSet(ProactiveOptions(n)) THEN "offered" ELSE n.optionStates[o]]
  <1> DEFINE m == [n EXCEPT !.optionStates = v]
  <1>2. buildProactiveOffers(n).neg = m
    BY DEF buildProactiveOffers
  <1> HIDE DEF n, v, w
  <1>3. m \in [state : {"Data"}, currentCommand : {0} \union OptionCommands, subnegBuffer : {<< >>},
               optionStates : {v}, cols : {c}, rows : {r}]
    BY <1>1
  <1> HIDE DEF m
  <1>4. ASSUME NEW x, NEW y, x \in [state : {"Data"}, currentCommand : {0} \union OptionCommands,
                                    subnegBuffer : {<< >>}, optionStates : {y}, cols : {c}, rows : {r}]
        PROVE  Negotiator(x) /\ x.state = "Data"
    <2>1. x \in [state : ParserStates, currentCommand : {0} \union OptionCommands,
                 subnegBuffer : {<< >>}, optionStates : {y}, cols : {c}, rows : {r}] /\ x.state = "Data"
      BY <1>4 DEF ParserStates
    <2> QED BY <2>1 DEF Negotiator
  <1>5. Negotiator(n) /\ n.state = "Data" /\ Negotiator(m) /\ m.state = "Data"
    BY <1>1, <1>3, <1>4
  <1> QED BY <1>2, <1>5 DEF n

LEMMA FlowInit == TelnetInit => FlowInv
  <1> SUFFICES ASSUME TelnetInit PROVE FlowInv
    OBVIOUS
  <1>1. QuietInv
    BY QuietInit
  <1>2. Negotiator(neg) /\ neg.state = "Data"
    BY NewNegotiatorIs DEF TelnetInit
  <1>3. auth.buffer = << >> /\ auth.state = "pass-through"
    <2>1. OptionsTyped
      BY <1>1 DEF QuietInv
    <2>2. [config EXCEPT !.login = FALSE].login = FALSE
      BY <2>1 DEF OptionsTyped
    <2> QED BY <2>2 DEF TelnetInit, buildAuthenticator, resolveInitialState
  <1>4. FlowTyped
    <2>1. << >> \in Seq(Byte) /\ 0 \in Nat
      OBVIOUS
    <2>2. eaten = 0 /\ wire = << >> /\ sent = << >> /\ pushed = << >>
      BY DEF TelnetInit
    <2> QED BY <1>2, <1>3, <2>1, <2>2, Zenon DEF FlowTyped
  <1>5. NotConnected /\ BeforeShell /\ Withheld /\ Accounted
    BY <1>3 DEF TelnetInit, NotConnected, BeforeShell, Withheld, Accounted, Waiting
  <1> QED BY <1>1, <1>4, <1>5 DEF FlowInv

\* Data that reach the browser's side keep their place.
LEMMA DataMoves ==
    ASSUME FlowInv, SocketData, QuietInv'
    PROVE  FlowInv'
  <1>0. /\ QuietInv /\ FlowTyped /\ NotConnected /\ BeforeShell /\ Withheld /\ Accounted
        /\ tcp = "open" /\ listening /\ stream = "open" /\ OptionsTyped /\ Authenticator(auth)
    BY DEF FlowInv, SocketData, QuietInv, OnlyOpenIsBusy
  <1> DEFINE l == Len(wire)
  <1>1. PICK n \in 1 .. l :
          LET out == processInbound(neg, SubSeq(wire, 1, n))
              res == processData(auth, out.clean)
          IN  /\ wire' = SubSeq(wire, n + 1, l)
              /\ neg' = out.neg
              /\ IF out.clean = << >>
                 THEN UNCHANGED <<auth, eaten, pushed>>
                 ELSE /\ auth' = res.auth
                      /\ eaten' = IF res.write = << >> THEN eaten
                                  ELSE eaten + Len(auth.buffer) + Len(out.clean)
                      /\ pushed' = pushed \o res.forward
    BY DEF SocketData, PushData
  <1> DEFINE d == SubSeq(wire, 1, n)
  <1> DEFINE e == SubSeq(wire, n + 1, l)
  <1> DEFINE c == processInbound(neg, d).clean
  <1> DEFINE res == processData(auth, c)
  <1>2. l \in Nat /\ wire \in Seq(Byte) /\ n \in 1 .. l
    BY <1>0 DEF FlowTyped
  <1>3. d \in Seq(Byte) /\ e \in Seq(Byte) /\ d \o e = wire
    <2>1. \A i \in 1 .. l : wire[i] \in Byte
      BY <1>2
    <2>2. (\A i \in 1 .. n : wire[i] \in Byte) /\ (\A i \in n + 1 .. l : wire[i] \in Byte)
      BY <1>2, <2>1
    <2>3. 1 \in Int /\ n \in Int /\ n + 1 \in Int /\ l \in Int
      BY <1>2
    <2> DEFINE k == n + 1
    <2>4. k \in Int /\ \A i \in k .. l : wire[i] \in Byte
      BY <2>2, <2>3
    <2> HIDE DEF k, l
    <2>5. SubSeq(wire, 1, n) \in Seq(Byte) /\ SubSeq(wire, k, l) \in Seq(Byte)
      BY <2>2, <2>3, <2>4, SubSeqProperties
    <2>6. SubSeq(wire, 1, n) \o SubSeq(wire, n + 1, l) = SubSeq(wire, 1, l)
      <3>1. 1 \in 1 .. Len(wire) + 1 /\ n \in 1 - 1 .. Len(wire) /\ l \in n .. Len(wire)
        BY <1>2 DEF l
      <3> QED BY <1>2, <3>1, ConcatAdjacentSubSeq
    <2>7. SubSeq(wire, 1, l) = wire
      BY <1>2, SubSeqFull DEF l
    <2> QED BY <2>5, <2>6, <2>7 DEF k
  <1>4. /\ wire' = e /\ neg' = processInbound(neg, d).neg
        /\ c = << >> => UNCHANGED <<auth, eaten, pushed>>
        /\ c # << >> => /\ auth' = res.auth
                        /\ eaten' = IF res.write = << >> THEN eaten ELSE eaten + Len(auth.buffer) + Len(c)
                        /\ pushed' = pushed \o res.forward
    BY <1>1
  <1> HIDE DEF l, d, e
  <1> DEFINE s == neg.state
  <1> DEFINE t == Reached(s, d)
  <1> DEFINE r == Decoded(t, e)
  <1>5. /\ Negotiator(neg) /\ s \in ParserStates
        /\ c = Decoded(s, d) /\ c \in Seq(Byte) /\ neg'.state = t /\ t \in ParserStates /\ Negotiator(neg')
    <2>1. Negotiator(neg) /\ s \in ParserStates
      BY <1>0 DEF FlowTyped, Negotiator
    <2>2. /\ processInbound(neg, d).clean = Decoded(s, d) /\ Decoded(s, d) \in Seq(Byte)
          /\ processInbound(neg, d).neg.state = Reached(s, d) /\ Reached(s, d) \in ParserStates
          /\ Negotiator(processInbound(neg, d).neg)
      BY <1>3, <2>1, InboundDecodes
    <2>3. neg'.state = t /\ Negotiator(neg')
      BY <1>4, <2>2, Zenon
    <2> QED BY <2>1, <2>2, <2>3
  <1>6. r \in Seq(Byte)
    BY <1>3, <1>5, DecodedTyped
  <1>7. Decoded(s, wire) = c \o r /\ Reached(s, wire) = Reached(t, e)
    <2>1. /\ Decoded(s, d \o e) = Decoded(s, d) \o Decoded(Reached(s, d), e)
          /\ Reached(s, d \o e) = Reached(Reached(s, d), e)
      BY <1>3, <1>5, DecodedConcat
    <2> QED BY <1>3, <1>5, <2>1
  <1>8. /\ Decoded(neg'.state, wire') = r /\ Reached(neg'.state, wire') = Reached(s, wire)
        /\ wire' \in Seq(Byte)
    BY <1>3, <1>4, <1>5, <1>7
  <1>9. PICK taken \in Seq(Byte) : /\ auth.state # "failed" => Len(taken) = eaten
                                   /\ sent = Whole(taken, pushed, auth.buffer, c \o r)
    BY <1>0, <1>7 DEF Accounted
  <1>10. Reached(s, wire) = "Data"
    BY <1>0 DEF Accounted
  <1> DEFINE p == pushed
  <1> DEFINE b == auth.buffer
  <1>11. p \in Seq(Byte) /\ b \in Seq(Byte) /\ eaten \in Nat /\ sent \in Seq(Byte)
    BY <1>0 DEF FlowTyped
  <1>12. UNCHANGED <<sent, tcp, listening, stream, pooled>>
    BY DEF SocketData
  <1> HIDE DEF c, s, t, r, res
  <1>13. /\ b = << >> => sent = Whole(taken, p \o c, << >>, r)
         /\ p = << >> => sent = Whole(taken, p \o (b \o c), << >>, r)
         /\ p = << >> => sent = Whole(taken \o (b \o c), p \o << >>, << >>, r)
         /\ sent = Whole(taken, p \o << >>, b \o c, r)
         /\ p = << >> => sent = Whole(taken \o b, p \o c, << >>, r)
    <2>1. c \in Seq(Byte) /\ sent = Whole(taken, p, b, c \o r)
      BY <1>5, <1>9
    <2> HIDE DEF p, b
    <2>2. Regrouped(Whole(taken, p, b, c \o r), taken, p, b, c, r)
      BY <1>6, <1>11, <2>1, Regroup, Zenon
    <2> QED BY <2>1, <2>2 DEF Regrouped
  \* What each way has to show.
  <1>14. ASSUME pushed' \in Seq(Byte), auth'.buffer \in Seq(Byte), eaten' \in Nat, Withheld',
                NEW took \in Seq(Byte), auth'.state # "failed" => Len(took) = eaten',
                sent = Whole(took, pushed', auth'.buffer, r)
         PROVE  FlowInv'
    <2>1. FlowTyped'
      BY <1>5, <1>8, <1>11, <1>12, <1>14 DEF FlowTyped
    <2>2. NotConnected' /\ BeforeShell'
      BY <1>0, <1>12 DEF NotConnected, BeforeShell
    <2>3. Accounted'
      <3>1. sent' = Whole(took, pushed', auth'.buffer, Decoded(neg'.state, wire'))
        BY <1>8, <1>12, <1>14
      <3>2. Reached(neg'.state, wire') = "Data"
        BY <1>8, <1>10
      <3> QED BY <1>14, <3>1, <3>2 DEF Accounted
    <2> QED BY <1>14, <2>1, <2>2, <2>3 DEF FlowInv
  <1>15. CASE c = << >>
    <2>1. UNCHANGED <<auth, eaten, pushed>> /\ c \o r = r
      BY <1>4, <1>6, <1>15, ConcatEmptySeq
    <2>2. Withheld'
      BY <1>0, <2>1 DEF Withheld
    <2>3. sent = Whole(taken, pushed', auth'.buffer, r)
      BY <1>9, <2>1
    <2> QED BY <1>9, <1>11, <1>14, <2>1, <2>2, <2>3
  <1>16. CASE c # << >>
    <2>1. /\ auth' = res.auth /\ pushed' = p \o res.forward
          /\ eaten' = IF res.write = << >> THEN eaten ELSE eaten + Len(b) + Len(c)
      BY <1>4, <1>16
    <2>2. \/ Forwarded(auth, c, res)
          \/ auth.state \in Waiting /\ (PassedThrough(auth, c, res) \/ Taken(auth, c, res)
                                          \/ Kept(auth, c, res) \/ LoginFailed(auth, c, res))
      BY <1>0, ProcessEffect DEF res
    <2>3. auth.state \in Waiting => p = << >>
      BY <1>0 DEF Withheld
    <2>w. "failed" \notin Waiting /\ "pass-through" \notin Waiting /\ << >> \in Seq(Byte)
          /\ \A u \in Seq(Byte) : u \o << >> = u /\ << >> \o u = u
      BY ConcatEmptySeq DEF Waiting
    <2>c. p \o c \in Seq(Byte) /\ b \o c \in Seq(Byte) /\ taken \o b \in Seq(Byte)
      BY <1>5, <1>11
    <2>4. CASE Forwarded(auth, c, res)
      <3>1. auth.state \notin Waiting /\ auth' = auth /\ pushed' = p \o c /\ eaten' = eaten
        BY <2>1, <2>4 DEF Forwarded
      <3>2. b = << >>
        BY <1>0, <3>1 DEF Withheld
      <3>3. Withheld'
        BY <3>1, <3>2 DEF Withheld
      <3>4. sent = Whole(taken, pushed', auth'.buffer, r)
        BY <1>13, <3>1, <3>2
      <3>5. pushed' \in Seq(Byte) /\ auth'.buffer \in Seq(Byte) /\ eaten' \in Nat
        BY <1>11, <2>c, <3>1
      <3> QED BY <1>9, <1>14, <3>1, <3>3, <3>4, <3>5
    <2>5. CASE auth.state \in Waiting /\ PassedThrough(auth, c, res)
      <3>1. auth'.state = "pass-through" /\ auth'.buffer = << >> /\ pushed' = p \o (b \o c) /\ eaten' = eaten
        BY <2>1, <2>5 DEF PassedThrough
      <3>3. Withheld'
        BY <2>w, <3>1 DEF Withheld
      <3>4. sent = Whole(taken, pushed', auth'.buffer, r)
        BY <1>13, <2>3, <2>5, <3>1
      <3>5. pushed' \in Seq(Byte) /\ auth'.buffer \in Seq(Byte) /\ eaten' \in Nat
        BY <1>11, <2>3, <2>5, <2>c, <2>w, <3>1
      <3>6. Len(taken) = eaten'
        BY <1>9, <2>5, <2>w, <3>1
      <3> QED BY <1>14, <3>3, <3>4, <3>5, <3>6
    <2>6. CASE auth.state \in Waiting /\ Taken(auth, c, res)
      <3>1. auth'.state \in Waiting /\ auth'.buffer = << >> /\ pushed' = p \o << >>
            /\ eaten' = eaten + Len(b) + Len(c)
        BY <2>1, <2>6 DEF Taken
      <3>2. pushed' = << >>
        BY <2>3, <2>6, <2>w, <3>1
      <3>3. Withheld'
        BY <3>1, <3>2 DEF Withheld
      <3>4. sent = Whole(taken \o (b \o c), pushed', auth'.buffer, r)
        BY <1>13, <2>3, <2>6, <3>1
      <3>5. pushed' \in Seq(Byte) /\ auth'.buffer \in Seq(Byte)
        BY <2>w, <3>1, <3>2
      <3>6. taken \o (b \o c) \in Seq(Byte) /\ Len(taken \o (b \o c)) = Len(taken) + (Len(b) + Len(c))
        <4> DEFINE u == b \o c
        <4>1. u \in Seq(Byte) /\ Len(u) = Len(b) + Len(c)
          BY <1>5, <1>11
        <4> HIDE DEF u
        <4>2. taken \o u \in Seq(Byte) /\ Len(taken \o u) = Len(taken) + Len(u)
          BY <4>1
        <4> QED BY <4>1, <4>2 DEF u
      <3>7. Len(b) \in Nat /\ Len(c) \in Nat
        BY <1>5, <1>11
      <3>8. Len(taken) = eaten
        BY <1>9, <2>6, <2>w
      <3>9. eaten' \in Nat /\ Len(taken \o (b \o c)) = eaten'
        BY <1>11, <3>1, <3>6, <3>7, <3>8
      <3> QED BY <1>14, <3>3, <3>4, <3>5, <3>6, <3>9
    <2>7. CASE auth.state \in Waiting /\ Kept(auth, c, res)
      <3>1. auth'.state = auth.state /\ auth'.buffer = b \o c /\ pushed' = p \o << >> /\ eaten' = eaten
        BY <2>1, <2>7 DEF Kept
      <3>2. pushed' = << >>
        BY <2>3, <2>7, <2>w, <3>1
      <3>3. Withheld'
        BY <2>7, <3>1, <3>2 DEF Withheld
      <3>4. sent = Whole(taken, pushed', auth'.buffer, r)
        BY <1>13, <3>1
      <3>5. pushed' \in Seq(Byte) /\ auth'.buffer \in Seq(Byte) /\ eaten' \in Nat
        BY <1>11, <2>c, <2>w, <3>1, <3>2
      <3>6. Len(taken) = eaten'
        BY <1>9, <2>7, <2>w, <3>1
      <3> QED BY <1>14, <3>3, <3>4, <3>5, <3>6
    <2>8. CASE auth.state \in Waiting /\ LoginFailed(auth, c, res)
      <3>1. auth'.state = "failed" /\ auth'.buffer = << >> /\ pushed' = p \o c /\ eaten' = eaten
        BY <2>1, <2>8 DEF LoginFailed
      <3>3. Withheld'
        BY <2>w, <3>1 DEF Withheld
      <3>4. sent = Whole(taken \o b, pushed', auth'.buffer, r)
        BY <1>13, <2>3, <2>8, <3>1
      <3>5. pushed' \in Seq(Byte) /\ auth'.buffer \in Seq(Byte) /\ eaten' \in Nat
        BY <1>11, <2>c, <2>w, <3>1
      <3> QED BY <1>14, <2>c, <3>1, <3>3, <3>4, <3>5
    <2> QED BY <2>2, <2>4, <2>5, <2>6, <2>7, <2>8
  <1> QED BY <1>15, <1>16

\* What the login held back goes to the browser, by a timer.
LEMMA TimerForwards ==
    ASSUME FlowInv, QuietInv', stream = "open", auth'.buffer = << >>, auth'.state \notin Waiting,
           auth.state \in Waiting, auth'.state # "failed", pushed' = pushed \o auth.buffer,
           UNCHANGED <<tcp, pooled, stream, listening, neg, wire, sent, eaten>>
    PROVE  FlowInv'
  <1>0. FlowTyped /\ NotConnected /\ BeforeShell /\ Withheld /\ Accounted
    BY DEF FlowInv
  <1> DEFINE p == pushed
  <1> DEFINE b == auth.buffer
  <1> DEFINE d == Decoded(neg.state, wire)
  <1>1. p \in Seq(Byte) /\ b \in Seq(Byte) /\ p \o b \in Seq(Byte) /\ << >> \in Seq(Byte)
    BY <1>0 DEF FlowTyped
  <1>2. FlowTyped'
    BY <1>0, <1>1 DEF FlowTyped
  <1>3. NotConnected' /\ BeforeShell' /\ Withheld'
    BY <1>0 DEF NotConnected, BeforeShell, Withheld
  <1>4. Accounted'
    <2>1. CASE ~(listening /\ tcp = "open")
      BY <2>1 DEF Accounted
    <2>2. CASE listening /\ tcp = "open"
      <3>1. PICK taken \in Seq(Byte) : /\ auth.state # "failed" => Len(taken) = eaten
                                       /\ sent = Whole(taken, p, b, d)
        BY <1>0, <2>2 DEF Accounted
      <3>2. d \in Seq(Byte)
        <4>1. neg.state \in ParserStates /\ wire \in Seq(Byte)
          BY <1>0 DEF FlowTyped, Negotiator
        <4> QED BY <4>1, DecodedTyped
      <3>3. p = << >> /\ Len(taken) = eaten
        BY <1>0, <3>1 DEF Withheld, Waiting
      <3> HIDE DEF p, b, d
      <3>4. Whole(taken, p, b, d) = Whole(taken, p \o b, << >>, d)
        <4>1. << >> \o (b \o d) = b \o d /\ << >> \o b = b /\ << >> \o d = d
          <5>1. b \o d \in Seq(Byte)
            BY <1>1, <3>2
          <5> QED BY <1>1, <3>2, <5>1, ConcatEmptySeq
        <4> QED BY <3>3, <4>1, Zenon DEF Whole
      <3>5. sent' = Whole(taken, pushed', auth'.buffer, Decoded(neg'.state, wire'))
        BY <3>1, <3>4 DEF p, b, d
      <3>6. Reached(neg'.state, wire') = "Data"
        BY <1>0, <2>2 DEF Accounted
      <3> QED BY <3>1, <3>3, <3>5, <3>6 DEF Accounted
    <2> QED BY <2>1, <2>2
  <1> QED BY <1>2, <1>3, <1>4 DEF FlowInv

\* The host writes at the end of what TCP has not delivered.
LEMMA HostAppends ==
    ASSUME FlowInv, HostWrites, QuietInv'
    PROVE  FlowInv'
  <1>0. /\ FlowTyped /\ NotConnected /\ BeforeShell /\ Withheld /\ Accounted
        /\ tcp = "open" /\ UNCHANGED <<tcp, pooled, paused, stream, listening, neg, auth, pushed, eaten>>
    BY DEF FlowInv, HostWrites, shellUnchanged
  <1>1. PICK h \in HostOutput : wire' = wire \o h.wire /\ sent' = sent \o h.data
    BY DEF HostWrites
  <1> DEFINE w == h.wire
  <1> DEFINE x == h.data
  <1>2. w \in Seq(Byte) /\ x \in Seq(Byte) /\ Decoded("Data", w) = x /\ Reached("Data", w) = "Data"
    BY HostDecoded DEF Means
  <1> HIDE DEF w, x
  <1>3. /\ wire \in Seq(Byte) /\ sent \in Seq(Byte) /\ neg.state \in ParserStates
        /\ wire' = wire \o w /\ sent' = sent \o x /\ wire' \in Seq(Byte) /\ sent' \in Seq(Byte)
    BY <1>0, <1>1, <1>2 DEF FlowTyped, Negotiator, w, x
  <1>4. FlowTyped'
    BY <1>0, <1>3 DEF FlowTyped
  <1>5. NotConnected' /\ Withheld'
    BY <1>0 DEF NotConnected, Withheld
  <1>6. ASSUME NEW s \in ParserStates, Reached(s, wire) = "Data"
        PROVE  Decoded(s, wire') = Decoded(s, wire) \o x /\ Reached(s, wire') = "Data"
    <2>1. /\ Decoded(s, wire \o w) = Decoded(s, wire) \o Decoded(Reached(s, wire), w)
          /\ Reached(s, wire \o w) = Reached(Reached(s, wire), w)
      BY <1>2, <1>3, DecodedConcat
    <2> QED BY <1>2, <1>3, <1>6, <2>1
  <1>7. BeforeShell'
    <2>1. "Data" \in ParserStates
      BY DEF ParserStates
    <2>2. Reached("Data", wire) = "Data" /\ Decoded("Data", wire) = sent =>
            Reached("Data", wire') = "Data" /\ Decoded("Data", wire') = sent'
      BY <1>3, <1>6, <2>1
    <2> QED BY <1>0, <2>2 DEF BeforeShell
  <1>8. Accounted'
    <2>1. CASE ~listening
      BY <1>0, <2>1 DEF Accounted
    <2>2. CASE listening
      <3> DEFINE d == Decoded(neg.state, wire)
      <3> DEFINE p == pushed
      <3> DEFINE b == auth.buffer
      <3>1. PICK taken \in Seq(Byte) : /\ auth.state # "failed" => Len(taken) = eaten
                                       /\ sent = Whole(taken, p, b, d)
        BY <1>0, <2>2 DEF Accounted
      <3>2. Reached(neg.state, wire) = "Data"
        BY <1>0, <2>2 DEF Accounted
      <3>3. Decoded(neg.state, wire') = d \o x /\ Reached(neg.state, wire') = "Data"
        BY <1>3, <1>6, <3>2
      <3>4. d \in Seq(Byte)
        BY <1>3, DecodedTyped
      <3>5. p \in Seq(Byte) /\ b \in Seq(Byte)
        BY <1>0 DEF FlowTyped
      <3> HIDE DEF d, p, b
      <3>6. Whole(taken, p, b, d) \o x = Whole(taken, p, b, d \o x)
        <4> DEFINE bd == b \o d
        <4> DEFINE pbd == p \o bd
        <4>1. bd \in Seq(Byte)
          BY <3>4, <3>5
        <4>2. pbd \in Seq(Byte)
          <5> HIDE DEF bd
          <5> QED BY <3>5, <4>1
        <4>3. bd \o x = b \o (d \o x)
          <5>1. \A y \in Seq(Byte) : (b \o d) \o y = b \o (d \o y)
            BY <3>4, <3>5, BytesAssociate
          <5> QED BY <1>2, <5>1
        <4> HIDE DEF bd
        <4>4. pbd \o x = p \o (bd \o x)
          BY <1>2, <3>5, <4>1, BytesAssociate
        <4> HIDE DEF pbd
        <4>5. (taken \o pbd) \o x = taken \o (pbd \o x)
          BY <1>2, <4>2, BytesAssociate
        <4> QED BY <4>3, <4>4, <4>5, Zenon DEF Whole, bd, pbd
      <3>7. sent' = Whole(taken, pushed', auth'.buffer, Decoded(neg'.state, wire'))
        BY <1>0, <1>3, <3>1, <3>3, <3>6 DEF p, b
      <3>8. Reached(neg'.state, wire') = "Data"
        BY <1>0, <3>3
      <3> QED BY <1>0, <3>1, <3>7, <3>8 DEF Accounted
    <2> QED BY <2>1, <2>2
  <1> QED BY <1>4, <1>5, <1>7, <1>8 DEF FlowInv

\* The shell opens on what has waited in the paused socket.
LEMMA ShellOpens ==
    ASSUME FlowInv, Shell, QuietInv'
    PROVE  FlowInv'
  <1>0. /\ QuietInv /\ FlowTyped /\ NotConnected /\ BeforeShell /\ stream = "none" /\ pooled
        /\ pushed = << >> /\ eaten = 0 /\ stream' = "open"
        /\ UNCHANGED <<tcp, pooled, wire, sent, pushed, eaten, config>>
    BY DEF FlowInv, Shell, BeforeShell
  <1>1. Negotiator(neg') /\ neg'.state = "Data"
    <2>1. PICK size \in WindowSizes :
            neg' = buildProactiveOffers(NewNegotiator(size[1], size[2])).neg
      BY DEF Shell
    <2> QED BY <2>1, NewNegotiatorIs, Zenon
  <1>2. auth'.buffer = << >> /\ auth'.state \in {"waiting-login", "pass-through"}
    <2>1. auth' = buildAuthenticator(config)
      BY DEF Shell
    <2> QED BY <2>1 DEF buildAuthenticator, resolveInitialState
  <1>e. << >> \in Seq(Byte) /\ Len(<< >>) = 0
    OBVIOUS
  <1>3. FlowTyped'
    BY <1>0, <1>1, <1>2, <1>e DEF FlowTyped
  <1>4. NotConnected' /\ BeforeShell' /\ Withheld'
    <2>1. tcp \notin {"idle", "connecting"}
      BY <1>0 DEF NotConnected
    <2> QED BY <1>0, <1>2, <2>1 DEF NotConnected, BeforeShell, Withheld
  <1>5. Accounted'
    <2>1. CASE tcp # "open"
      BY <1>0, <2>1 DEF Accounted
    <2>2. CASE tcp = "open"
      <3>1. Reached("Data", wire) = "Data" /\ Decoded("Data", wire) = sent /\ sent \in Seq(Byte)
        BY <1>0, <2>2 DEF BeforeShell, FlowTyped
      <3>2. << >> \o sent = sent
        BY <3>1, ConcatEmptySeq
      <3>3. Whole(<< >>, << >>, << >>, sent) = sent
        BY <3>2, Zenon DEF Whole
      <3>4. sent' = Whole(<< >>, pushed', auth'.buffer, Decoded(neg'.state, wire'))
        BY <1>0, <1>1, <1>2, <3>1, <3>3
      <3>5. Reached(neg'.state, wire') = "Data" /\ Len(<< >>) = eaten'
        BY <1>0, <1>1, <1>e, <3>1
      <3> QED BY <1>e, <3>4, <3>5 DEF Accounted
    <2> QED BY <2>1, <2>2
  <1> QED BY <1>3, <1>4, <1>5 DEF FlowInv

\* The end of a shell: nobody listens.
LEMMA EndKeepsFlow ==
    ASSUME FlowInv, EndShell, QuietInv', UNCHANGED <<neg, sent, pushed, eaten, paused>>, wire' \in Seq(Byte),
           \/ UNCHANGED <<tcp, pooled, wire>> /\ stream = "open"
           \/ tcp' = "destroyed"
    PROVE  FlowInv'
  <1>0. QuietInv /\ FlowTyped /\ NotConnected /\ BeforeShell /\ Withheld
    BY DEF FlowInv
  <1>1. auth'.buffer = auth.buffer /\ auth'.state = auth.state /\ listening' = FALSE
    <2>1. PICK b : auth \in [state : AuthStates, buffer : {b}, timeout : BOOLEAN, settle : BOOLEAN]
      BY <1>0 DEF QuietInv, Authenticator
    <2>2. auth' = [auth EXCEPT !.timeout = FALSE, !.settle = FALSE] /\ listening' = FALSE
      BY DEF EndShell, destroy
    <2> QED BY <2>1, <2>2
  <1>2. stream' = "none" <=> stream = "none"
    BY DEF EndShell
  <1>3. FlowTyped'
    BY <1>0, <1>1 DEF FlowTyped
  <1>4. NotConnected' /\ Withheld' /\ Accounted'
    BY <1>0, <1>1, <1>2 DEF NotConnected, Withheld, Accounted
  <1>5. BeforeShell'
    BY <1>0, <1>1, <1>2 DEF BeforeShell
  <1> QED BY <1>3, <1>4, <1>5 DEF FlowInv

LEMMA FlowStep == FlowInv /\ [TelnetNext]_telnetVars => FlowInv'
  <1> SUFFICES ASSUME FlowInv, [TelnetNext]_telnetVars PROVE FlowInv'
    OBVIOUS
  <1>0. QuietInv /\ FlowTyped /\ NotConnected /\ BeforeShell /\ Withheld /\ Accounted
    BY DEF FlowInv
  <1>q. QuietInv'
    BY <1>0, QuietStep
  <1>b. stream # "open" => ~listening /\ ~auth.timeout /\ ~auth.settle
    BY <1>0 DEF QuietInv, OnlyOpenIsBusy
  <1>1. ASSUME UNCHANGED <<tcp, pooled, stream, listening, neg, auth, wire, sent, pushed, eaten>>,
               stream = "none" /\ tcp = "open" => UNCHANGED paused
        PROVE  FlowInv'
    BY <1>0, <1>q, <1>1 DEF FlowInv, FlowTyped, NotConnected, BeforeShell, Withheld, Accounted
  <1>2. CASE Connect
    <2>1. tcp = "idle" /\ tcp' \in {"idle", "connecting"}
          /\ UNCHANGED <<pooled, paused, stream, listening, neg, auth, wire, sent, pushed, eaten>>
      BY <1>2 DEF Connect, shellUnchanged
    <2> QED BY <1>0, <1>q, <2>1
            DEF FlowInv, FlowTyped, NotConnected, BeforeShell, Withheld, Accounted
  <1>3. CASE ConnectFails
    <2>1. tcp' = "destroyed"
          /\ UNCHANGED <<pooled, paused, stream, listening, neg, auth, wire, sent, pushed, eaten>>
      BY <1>3 DEF ConnectFails, shellUnchanged
    <2> QED BY <1>0, <1>q, <2>1
            DEF FlowInv, FlowTyped, NotConnected, BeforeShell, Withheld, Accounted
  <1>4. CASE Connected
    <2>1. /\ tcp = "connecting" /\ tcp' = "open" /\ paused' = TRUE /\ pooled' = TRUE
          /\ UNCHANGED <<stream, listening, neg, auth, wire, sent, pushed, eaten>>
      BY <1>4 DEF Connected, shellUnchanged
    <2>2. stream = "none" /\ wire = << >> /\ sent = << >> /\ ~listening
      BY <1>0, <1>b, <2>1 DEF NotConnected
    <2>3. Decoded("Data", << >>) = << >> /\ Reached("Data", << >>) = "Data"
      <3>1. "Data" \in ParserStates
        BY DEF ParserStates
      <3> QED BY <3>1, DecodedEmpty
    <2>4. FlowTyped' /\ NotConnected' /\ Withheld' /\ Accounted'
      BY <1>0, <2>1, <2>2 DEF FlowTyped, NotConnected, Withheld, Accounted
    <2>5. BeforeShell'
      BY <1>0, <2>1, <2>2, <2>3 DEF BeforeShell
    <2> QED BY <1>q, <2>4, <2>5 DEF FlowInv
  <1>5. CASE Shell
    BY <1>q, <1>5, ShellOpens
  <1>6. CASE SocketData
    BY <1>q, <1>6, DataMoves
  <1>7. CASE SocketDataUnread
    <2>1. /\ tcp = "open" /\ ~paused /\ ~listening /\ wire' = << >>
          /\ UNCHANGED <<tcp, pooled, paused, stream, listening, neg, auth, sent, pushed, eaten>>
      BY <1>7 DEF SocketDataUnread, shellUnchanged
    <2>2. stream # "none" /\ << >> \in Seq(Byte)
      BY <1>0, <2>1 DEF BeforeShell
    <2> QED BY <1>0, <1>q, <2>1, <2>2
            DEF FlowInv, FlowTyped, NotConnected, BeforeShell, Withheld, Accounted
  <1>8. CASE StreamRead \/ UNCHANGED telnetVars
    BY <1>1, <1>8 DEF StreamRead, telnetVars
  <1>a. PICK b : auth \in [state : AuthStates, buffer : {b}, timeout : BOOLEAN, settle : BOOLEAN]
    BY <1>0 DEF QuietInv, Authenticator
  \* A timer that has nothing to do.
  <1>9. ASSUME auth'.buffer = auth.buffer, auth'.state = auth.state,
               UNCHANGED <<tcp, pooled, stream, listening, neg, wire, sent, pushed, eaten, paused>>
        PROVE  FlowInv'
    BY <1>0, <1>q, <1>9 DEF FlowInv, FlowTyped, NotConnected, BeforeShell, Withheld, Accounted
  <1>w. "pass-through" \notin Waiting /\ "authenticated" \notin Waiting /\ "waiting-result" \in Waiting
    BY DEF Waiting
  <1>10. CASE AuthTimeout
    <2>1. stream = "open" /\ UNCHANGED <<tcp, pooled, stream, listening, neg, wire, sent, eaten>>
      BY <1>b, <1>10 DEF AuthTimeout
    <2>2. CASE auth.state \in Waiting
      <3>1. /\ auth' = [auth EXCEPT !.timeout = FALSE, !.state = "pass-through", !.buffer = << >>]
            /\ pushed' = pushed \o auth.buffer
        BY <1>10, <2>2 DEF AuthTimeout, PushData
      <3>2. auth'.buffer = << >> /\ auth'.state = "pass-through"
        BY <1>a, <3>1
      <3> QED BY <1>q, <1>w, <2>1, <2>2, <3>1, <3>2, TimerForwards
    <2>3. CASE auth.state \notin Waiting
      <3>1. auth' = [auth EXCEPT !.timeout = FALSE] /\ UNCHANGED <<pushed, paused>>
        BY <1>10, <2>3 DEF AuthTimeout
      <3>2. auth'.buffer = auth.buffer /\ auth'.state = auth.state
        BY <1>a, <3>1
      <3> QED BY <1>9, <2>1, <3>1, <3>2
    <2> QED BY <2>2, <2>3
  <1>11. CASE AuthSettle
    <2>1. stream = "open" /\ UNCHANGED <<tcp, pooled, stream, listening, neg, wire, sent, eaten>>
      BY <1>b, <1>11 DEF AuthSettle
    <2>2. CASE auth.state = "waiting-result"
      <3>1. /\ auth' = [auth EXCEPT !.state = "authenticated", !.buffer = << >>, !.timeout = FALSE,
                                    !.settle = FALSE]
            /\ pushed' = pushed \o auth.buffer
        BY <1>11, <2>2 DEF AuthSettle, PushData
      <3>2. auth'.buffer = << >> /\ auth'.state = "authenticated"
        BY <1>a, <3>1
      <3> QED BY <1>q, <1>w, <2>1, <2>2, <3>1, <3>2, TimerForwards
    <2>3. CASE auth.state # "waiting-result"
      <3>1. auth' = [auth EXCEPT !.settle = FALSE] /\ UNCHANGED <<pushed, paused>>
        BY <1>11, <2>3 DEF AuthSettle
      <3>2. auth'.buffer = auth.buffer /\ auth'.state = auth.state
        BY <1>a, <3>1
      <3> QED BY <1>9, <2>1, <3>1, <3>2
    <2> QED BY <2>2, <2>3
  <1>12. CASE StreamClose
    <2>1. /\ EndShell /\ stream = "open" /\ UNCHANGED <<neg, sent, pushed, eaten, paused>>
          /\ UNCHANGED <<tcp, pooled, wire>>
      BY <1>12 DEF StreamClose
    <2>2. wire' \in Seq(Byte)
      BY <1>0, <2>1 DEF FlowTyped
    <2> QED BY <1>q, <2>1, <2>2, EndKeepsFlow
  <1>13. CASE SocketEnds
    <2>1. /\ EndShell /\ UNCHANGED <<neg, sent, pushed, eaten, paused>> /\ tcp' = "destroyed"
          /\ wire' \in Seq(Byte)
      BY <1>13 DEF SocketEnds
    <2> QED BY <1>q, <2>1, EndKeepsFlow
  <1>14. CASE Disconnect
    <2>1. CASE pooled
      <3>1. /\ EndShell /\ UNCHANGED <<neg, sent, pushed, eaten, paused>> /\ tcp' = "destroyed"
            /\ wire' \in Seq(Byte)
        BY <1>14, <2>1 DEF Disconnect
      <3> QED BY <1>q, <3>1, EndKeepsFlow
    <2>2. CASE ~pooled
      BY <1>1, <1>14, <2>2 DEF Disconnect
    <2> QED BY <2>1, <2>2
  <1>15. CASE resizeTelnet
    <2>1. /\ stream # "none"
          /\ UNCHANGED <<tcp, pooled, paused, stream, listening, auth, wire, sent, pushed, eaten>>
      BY <1>15 DEF resizeTelnet, resize
    <2>2. PICK c, r : neg' = [neg EXCEPT !.cols = c, !.rows = r]
      BY <1>15 DEF resizeTelnet, resize
    <2>3. PICK v, w, co, ro : neg \in [state : ParserStates, currentCommand : {0} \union OptionCommands,
                                       subnegBuffer : {v}, optionStates : {w}, cols : {co}, rows : {ro}]
      BY <1>0 DEF FlowTyped, Negotiator
    <2>4. neg' \in [state : ParserStates, currentCommand : {0} \union OptionCommands,
                    subnegBuffer : {v}, optionStates : {w}, cols : {c}, rows : {r}]
          /\ neg'.state = neg.state /\ neg'.currentCommand = neg.currentCommand
      BY <2>2, <2>3
    <2>5. neg.state = "GotCommand" => neg.currentCommand \in OptionCommands
      BY <1>0 DEF FlowTyped, Negotiator
    <2>6. Negotiator(neg')
      BY <2>4, <2>5 DEF Negotiator
    <2>7. FlowTyped'
      BY <1>0, <2>1, <2>6 DEF FlowTyped
    <2>8. NotConnected' /\ BeforeShell' /\ Withheld' /\ Accounted'
      BY <1>0, <2>1, <2>4 DEF NotConnected, BeforeShell, Withheld, Accounted
    <2> QED BY <1>q, <2>7, <2>8 DEF FlowInv
  <1>16. CASE HostWrites
    BY <1>q, <1>16, HostAppends
  <1> QED BY <1>2, <1>3, <1>4, <1>5, <1>6, <1>7, <1>8, <1>10, <1>11, <1>12, <1>13, <1>14, <1>15, <1>16
          DEF TelnetNext

\* However the bytes are split, whatever the login takes, holds back or lets through and
\* in whichever order its timers, the pauses and the window come: everything the host
\* wrote is accounted for, in its order.
THEOREM HostOutputAccounted == TelnetSpec => []FlowInv
  BY FlowInit, FlowStep, PTL DEF TelnetSpec

\* What the browser has been shown, followed by what the login still holds back, is
\* all the host wrote after the prompts that the login took; after a failure message it
\* is an end of it (createSocketDataHandler, processData).
THEOREM NothingLostOnTheWay == TelnetSpec => []OutputReachesBrowser
  <1>1. FlowInv => OutputReachesBrowser
    <2> SUFFICES ASSUME FlowInv, listening, tcp = "open", wire = << >>
                 PROVE  IF auth.state = "failed" THEN IsSuffix(pushed, sent)
                        ELSE pushed \o auth.buffer = SubSeq(sent, eaten + 1, Len(sent))
      BY DEF OutputReachesBrowser
    <2> DEFINE p == pushed
    <2> DEFINE b == auth.buffer
    <2> DEFINE x == p \o b
    <2>1. p \in Seq(Byte) /\ b \in Seq(Byte) /\ neg.state \in ParserStates
      BY DEF FlowInv, FlowTyped, Negotiator
    <2>2. Decoded(neg.state, wire) = << >>
      BY <2>1, DecodedEmpty
    <2>3. PICK t \in Seq(Byte) : /\ auth.state # "failed" => Len(t) = eaten
                                 /\ sent = Whole(t, p, b, << >>)
      BY <2>2 DEF FlowInv, Accounted
    <2>4. auth.state = "failed" => b = << >>
      BY DEF FlowInv, Withheld, Waiting
    <2>5. x \in Seq(Byte) /\ b \o << >> = b /\ p \o << >> = p
      BY <2>1, ConcatEmptySeq
    <2>6. sent = t \o x
      BY <2>3, <2>5, Zenon DEF Whole
    <2> HIDE DEF x
    <2>7. IsSuffix(x, t \o x) /\ x = SubSeq(t \o x, Len(t) + 1, Len(t \o x))
      BY <2>5, SuffixOf
    <2>8. CASE auth.state = "failed"
      <3>1. x = p
        BY <2>4, <2>5, <2>8 DEF x
      <3> QED BY <2>6, <2>7, <2>8, <3>1
    <2>9. CASE auth.state # "failed"
      BY <2>3, <2>6, <2>7, <2>9 DEF x
    <2> QED BY <2>8, <2>9
  <1> QED BY <1>1, HostOutputAccounted, PTL
=============================================================================
