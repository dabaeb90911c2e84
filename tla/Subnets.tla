------------------------------- MODULE Subnets -------------------------------
(* The check of an address against the allowed ranges, with the widths as    *)
(* parameters.  An IPv4 address is the word of its bits from the highest, as *)
(* ipToInt makes it; an IPv6 address is the sequence of its segments, as     *)
(* normalizeIpv6Address leaves it.                                           *)
EXTENDS Integers, Sequences

CONSTANTS
    WordBits,      \* bits of an IPv4 address and of the words of << and &
    OctetBits,     \* bits of one octet
    SegmentBits,   \* bits of an IPv6 segment; words are wider
    Segments       \* segments of an IPv6 address

ASSUME WidthAssumption ==
    /\ WordBits \in Nat \ {0} /\ OctetBits \in Nat \ {0} /\ WordBits % OctetBits = 0
    /\ SegmentBits \in Nat \ {0} /\ Segments \in Nat \ {0}

Bits(width) == [1..width -> {0, 1}]

V4 == Bits(WordBits)

V6 == [1..Segments -> Bits(SegmentBits)]

Addresses == ({"v4"} \X V4) \cup ({"v6"} \X V6)

Octets == WordBits \div OctetBits

OctetOf(ip, i) == [j \in 1..OctetBits |-> ip[(i - 1) * OctetBits + j]]

And(x, y) == [i \in DOMAIN x |-> x[i] * y[i]]

(* As many ones as the word is wide, moved up n places and cut off. *)
Ones(width, n) == [i \in 1..width |-> IF i + n <= width THEN 1 ELSE 0]

(* The shift of a word counts modulo its width. *)
isIpv4InCidr(ip, base, mask) ==
    LET maskBits == Ones(WordBits, (WordBits - mask) % WordBits)
    IN And(ip, maskBits) = And(base, maskBits)

\* Seeded fault: a segment the mask covers in part is not compared.
ipv6MatchesMaskWhole(ip, base, mask) ==
    \A i \in 1..Segments: i * SegmentBits <= mask => ip[i] = base[i]

ipv6MatchesMask(ip, base, mask) ==
    \A i \in 1..Segments:
        LET checked == (i - 1) * SegmentBits
            bits == IF mask - checked < SegmentBits THEN mask - checked ELSE SegmentBits
            bitMask == Ones(SegmentBits, SegmentBits - bits)
        IN checked < mask => And(ip[i], bitMask) = And(base[i], bitMask)

(* A wildcard range gives an octet or a star for each place. *)
Star == <<>>

matchesIpv4Wildcard(ip, octets) ==
    \A i \in 1..Octets: octets[i] = Star \/ octets[i] = OctetOf(ip, i)

(* What an entry of the list may spell: a range, a wildcard, one address or  *)
(* nothing an address could match.                                           *)
RangeShapes ==
    [range : {"v4"}, base : V4, mask : 0..WordBits]
    \cup [range : {"v6"}, base : V6, mask : 0..(Segments * SegmentBits)]
    \cup [range : {"wild"}, octets : [1..Octets -> {Star} \cup Bits(OctetBits)]]
    \cup [range : {"exact"}, address : Addresses]
    \cup [range : {"nothing"}]

Matches(version, ip, r) ==
    CASE r.range = "exact" -> r.address = <<version, ip>>
      [] r.range = "v4" -> version = "v4" /\ isIpv4InCidr(ip, r.base, r.mask)
      [] r.range = "v6" -> version = "v6" /\ ipv6MatchesMask(ip, r.base, r.mask)
      [] r.range = "wild" -> version = "v4" /\ matchesIpv4Wildcard(ip, r.octets)
      [] r.range = "nothing" -> FALSE

isIpInSubnets(version, ip, ranges) ==
    ranges = {} \/ \E r \in ranges: Matches(version, ip, r)

(* The answer for a host: the addresses the lookup gives, none when it       *)
(* fails; without ranges the host is not looked up.                          *)
validateConnectionWithDns(addresses, ranges) ==
    IF ranges = {} THEN "allowed"
    ELSE IF addresses = {} THEN "unresolved"
    ELSE IF \E a \in addresses: isIpInSubnets(a[1], a[2], ranges) THEN "allowed"
    ELSE "refused"

-----------------------------------------------------------------------------
(* A range holds the addresses that share its first mask bits. *)
InRange(version, ip, r) ==
    /\ r.range = version
    /\ IF version = "v4"
       THEN \A i \in 1..r.mask: ip[i] = r.base[i]
       ELSE \A i \in 1..Segments, j \in 1..SegmentBits:
              (i - 1) * SegmentBits + j <= r.mask => ip[i][j] = r.base[i][j]
=============================================================================
