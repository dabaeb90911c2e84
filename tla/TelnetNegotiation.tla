-------------------------- MODULE TelnetNegotiation --------------------------
(***************************************************************************)
(* The telnet option negotiation of one connection: class TelnetNegotiator *)
(* (app/services/telnet/telnet-negotiation.ts) as functions on a record.   *)
(* Bytes are integers.  A terminal type is one byte, and what the parser   *)
(* logs is left out.                                                       *)
(***************************************************************************)
EXTENDS Integers, Sequences, SequencesExt

IAC  == 255
DONT == 254
DO   == 253
WONT == 252
WILL == 251
SB   == 250
SE   == 240
ECHO == 1
SGA  == 3
TERMINAL_TYPE == 24
NAWS == 31
IS   == 0
SEND == 1

SUPPORTED_OPTIONS == {ECHO, SGA, TERMINAL_TYPE, NAWS}

TermByte == 118   \* the terminal type

\* The negotiator as its constructor and setWindowSize() leave it.
NewNegotiator(cols, rows) ==
    [state |-> "Data", currentCommand |-> 0, subnegBuffer |-> << >>,
     optionStates |-> [o \in SUPPORTED_OPTIONS |-> "inactive"],
     cols |-> cols, rows |-> rows]

appendEscaped(bytes, value) == bytes \o (IF value = IAC THEN <<IAC, IAC>> ELSE <<value>>)

high(n) == (n \div 256) % 256

low(n) == n % 256

\* IAC SB NAWS width height IAC SE, each byte of the sizes escaped.
encodeNaws(cols, rows) ==
    FoldLeft(appendEscaped, <<IAC, SB, NAWS>>, <<high(cols), low(cols), high(rows), low(rows)>>)
        \o <<IAC, SE>>

encodeTerminalType == <<IAC, SB, TERMINAL_TYPE, IS, TermByte, IAC, SE>>

\* WILL TERMINAL-TYPE and WILL NAWS, unless they were offered before.
ProactiveOptions(neg) ==
    SelectSeq(<<TERMINAL_TYPE, NAWS>>, LAMBDA o : neg.optionStates[o] = "inactive")

buildProactiveOffers(neg) ==
    [neg |-> [neg EXCEPT !.optionStates =
                 [o \in SUPPORTED_OPTIONS |->
                     IF o \in ToSet(ProactiveOptions(neg)) THEN "offered" ELSE @[o]]],
     responses |-> FoldLeft(LAMBDA acc, o : acc \o <<IAC, WILL, o>>, << >>, ProactiveOptions(neg))]

(* One byte: the parser state, with the clean bytes and responses so far. *)

Outcome(neg, clean, responses) == [neg |-> neg, clean |-> clean, responses |-> responses]

\* DO an option: WILL only if it was not offered, WONT if it is not supported;
\* NAWS is always followed by the window size.
handleDo(neg, option, clean, responses) ==
    IF option \notin SUPPORTED_OPTIONS THEN Outcome(neg, clean, responses \o <<IAC, WONT, option>>)
    ELSE Outcome([neg EXCEPT !.optionStates[option] = "active"], clean,
                 responses
                   \o (IF neg.optionStates[option] = "inactive" THEN <<IAC, WILL, option>> ELSE << >>)
                   \o (IF option = NAWS THEN encodeNaws(neg.cols, neg.rows) ELSE << >>))

handleWill(neg, option, clean, responses) ==
    Outcome(neg, clean,
            responses \o <<IAC, IF option \in SUPPORTED_OPTIONS THEN DO ELSE DONT, option>>)

handleOptionByte(n, byte, clean, responses) ==
    LET neg == [n EXCEPT !.state = "Data"]
    IN  CASE n.currentCommand = DO   -> handleDo(neg, byte, clean, responses)
          [] n.currentCommand = DONT -> Outcome(neg, clean, responses \o <<IAC, WONT, byte>>)
          [] n.currentCommand = WILL -> handleWill(neg, byte, clean, responses)
          [] n.currentCommand = WONT -> Outcome(neg, clean, responses \o <<IAC, DONT, byte>>)

handleDataByte(neg, byte, clean, responses) ==
    IF byte = IAC THEN Outcome([neg EXCEPT !.state = "GotIAC"], clean, responses)
    ELSE Outcome(neg, Append(clean, byte), responses)

handleAfterIAC(neg, byte, clean, responses) ==
    CASE byte = IAC -> Outcome([neg EXCEPT !.state = "Data"], Append(clean, 255), responses)
      [] byte = SB -> Outcome([neg EXCEPT !.subnegBuffer = << >>, !.state = "InSubnegotiation"],
                              clean, responses)
      [] byte \in {DO, DONT, WILL, WONT} ->
             Outcome([neg EXCEPT !.currentCommand = byte, !.state = "GotCommand"], clean, responses)
      [] OTHER -> Outcome([neg EXCEPT !.state = "Data"], clean, responses)

handleSubnegByte(neg, byte, clean, responses) ==
    IF byte = IAC THEN Outcome([neg EXCEPT !.state = "SubnegotiationGotIAC"], clean, responses)
    ELSE Outcome([neg EXCEPT !.subnegBuffer = Append(@, byte)], clean, responses)

\* A subnegotiation of fewer than two bytes is left in the buffer.
processSubnegotiation(neg, responses) ==
    IF Len(neg.subnegBuffer) < 2 THEN [neg |-> neg, responses |-> responses]
    ELSE [neg |-> [neg EXCEPT !.subnegBuffer = << >>],
          responses |-> IF neg.subnegBuffer[1] = TERMINAL_TYPE /\ neg.subnegBuffer[2] = SEND
                        THEN responses \o encodeTerminalType ELSE responses]

handleSubnegIACByte(neg, byte, clean, responses) ==
    CASE byte = SE ->
             LET done == processSubnegotiation(neg, responses)
             IN  Outcome([done.neg EXCEPT !.state = "Data"], clean, done.responses)
      [] byte = IAC -> Outcome([neg EXCEPT !.subnegBuffer = Append(@, 255),
                                           !.state = "InSubnegotiation"], clean, responses)
      [] OTHER -> Outcome([neg EXCEPT !.state = "Data"], clean, responses)

processOneByte(out, byte) ==
    CASE out.neg.state = "Data" -> handleDataByte(out.neg, byte, out.clean, out.responses)
      [] out.neg.state = "GotIAC" -> handleAfterIAC(out.neg, byte, out.clean, out.responses)
      [] out.neg.state = "GotCommand" -> handleOptionByte(out.neg, byte, out.clean, out.responses)
      [] out.neg.state = "InSubnegotiation" ->
             handleSubnegByte(out.neg, byte, out.clean, out.responses)
      [] out.neg.state = "SubnegotiationGotIAC" ->
             handleSubnegIACByte(out.neg, byte, out.clean, out.responses)

\* What the loop over the bytes of a packet has made of the first i of them.
Inbound(neg, data) ==
    LET out[i \in 0 .. Len(data)] ==
            IF i = 0 THEN Outcome(neg, << >>, << >>) ELSE processOneByte(out[i - 1], data[i])
    IN  out

processInbound(neg, data) == Inbound(neg, data)[Len(data)]
=============================================================================
