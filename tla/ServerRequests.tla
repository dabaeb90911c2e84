---------------------------- MODULE ServerRequests ----------------------------
(* A started server and what it lets in: hosts against the allowed ranges,   *)
(* file messages and chunks against their checks.                            *)
EXTENDS Configuration, Subnets, SftpMessages

CONSTANTS
    RangeOf,       \* the range an entry of allowedSubnets spells; others spell nothing
    Lookups,       \* what a name lookup answers: sets of addresses
    Messages       \* pairs of a request and a message

ASSUME QuestionsAssumption ==
    /\ \A part \in DOMAIN RangeOf: RangeOf[part] \in RangeShapes
    /\ Lookups \subseteq SUBSET Addresses
    /\ \A m \in Messages: m[1] \in FileRequestNames

VARIABLE asked    \* the last question a client asked and its answer

serverVars == <<configVars, asked>>

ServerInit == ConfigInit /\ asked = <<"none">>

Start == ConfigNext /\ UNCHANGED asked

Ranges ==
    {IF part \in DOMAIN RangeOf THEN RangeOf[part] ELSE [range |-> "nothing"]:
        part \in ToSet(config[<<"ssh", "allowedSubnets">>][2])}

maxFileSize == config[<<"ssh", "sftp", "maxFileSize">>][2]

(* Without ranges the host is not looked up. *)
validateHost ==
    /\ phase = "listening"
    /\ asked = <<"none">>
    /\ \E addresses \in IF Ranges = {} THEN {{}} ELSE Lookups:
          asked' = <<"host", addresses, validateConnectionWithDns(addresses, Ranges)>>
    /\ UNCHANGED configVars

receiveMessage ==
    /\ phase = "listening"
    /\ asked = <<"none">>
    /\ \E m \in Messages: asked' = <<"message", m[1], m[2], validate(m[1], m[2], maxFileSize)>>
    /\ UNCHANGED configVars

(* A whole chunk of the size upload-ready announced; the last may be short. *)
receiveChunk ==
    /\ phase = "listening"
    /\ asked = <<"none">>
    /\ LET size == config[<<"ssh", "sftp", "chunkSize">>][2]
       IN \E n \in {0, 1, size - 1, size}:
            LET message == <<"object", [transferId |-> Text(36), chunkIndex |-> Whole(0),
                                        data |-> Text(EncodedLength(n)), isLast |-> Flag(TRUE)]>>
            IN asked' = <<"chunk", n, validate("upload-chunk", message, maxFileSize)>>
    /\ UNCHANGED configVars

ServerNext == Start \/ validateHost \/ receiveMessage \/ receiveChunk

ServerSpec == ServerInit /\ [][ServerNext]_serverVars

-----------------------------------------------------------------------------
(* A host is let in exactly when one of its addresses shares the leading     *)
(* bits of a range (hostname-resolver.ts isIpv4InCidr, ipv6MatchesMask),     *)
(* whatever the boundaries of octets, segments and words the mask crosses.   *)
(* An IPv4 range with the mask 0 is left out: the shift by a whole word      *)
(* leaves the mask of a single address.                                      *)
RangesAdmitMembers ==
    LET plain == \A r \in Ranges: r.range \in {"v6", "nothing"} \/ (r.range = "v4" /\ r.mask # 0)
        member == \E a \in asked[2], r \in Ranges: InRange(a[1], a[2], r)
    IN asked[1] = "host" /\ asked[2] # {} /\ plain
         => (asked[3] = "allowed" <=> member)

(* What the checks of a file message let through has every field the         *)
(* contract asks for, of its type, and no other (validation/socket/sftp.ts,  *)
(* types/contracts/v1/sftp.ts).                                              *)
AcceptedMeetsContract ==
    asked[1] = "message" /\ asked[4] # Refused => MeetsContract(asked[2], asked[4][2])

(* The limit of a chunk is that of the default size, whatever chunkSize is   *)
(* configured and announced (sftp.ts:493).  Base64 makes four characters of  *)
(* three bytes and the limit has a factor of 1.34 and a margin: a chunk of   *)
(* up to the default size is let through, one that is larger by half a       *)
(* percent and 76 bytes is refused, also where upload-ready asked for it.    *)
ChunkLimitIsDefault ==
    asked[1] = "chunk" =>
        /\ asked[2] \in 0..DEFAULT_CHUNK_SIZE => asked[3] # Refused
        /\ asked[2] \in Nat /\ 200 * asked[2] >= 201 * DEFAULT_CHUNK_SIZE + 15150
             => asked[3] = Refused

(* The checks of a file message let through nothing its contract forbids,    *)
(* and chunks up to the default size, not up to the one announced.           *)
ChecksKeepContract == AcceptedMeetsContract /\ ChunkLimitIsDefault
=============================================================================
