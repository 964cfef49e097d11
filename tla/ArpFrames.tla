----------------------------- MODULE ArpFrames -----------------------------
(***************************************************************************)
(* The layout of an ARP request and of the frames the parser accepts, as   *)
(* src/ethernet_frame.rs, src/address_resolution_protocol.rs and           *)
(* src/application_command.rs have it: tag stack, Ethernet II or RFC 1042  *)
(* SNAP framing, and the fixed fields of ARP.                              *)
(*                                                                         *)
(* A frame is its length in octets with the 16-bit fields from octet 12    *)
(* on; fields that are not listed are zero.  The addresses before octet 12 *)
(* and inside ARP are not told apart.                                      *)
(***************************************************************************)
EXTENDS Integers, Sequences

None == -1  \* Option::None, for identifiers

\* Length/type values and the halfwords of LLC/SNAP.
ARP   == \h0806
IPv4  == \h0800
CTag  == \h8100
STag  == \h88A8
UnofficialTags == {\h9100, \h9200, \h9300}
AnyTag == {CTag, STag} \cup UnofficialTags
MaximumLength == 1500
MinimumEtherType == 1536
SnapPrefix == <<\hAAAA, \h0300, 0>>

Reply == 2
Reserved == {0, 65535}
ArpOctets == 28
SnapOctets == 8
MinimumFrame == 60

\* Tag control information, as a halfword and as its three parts.
Tci(tag) == tag.pcp * 2 ^ 13 + (IF tag.dei THEN 2 ^ 12 ELSE 0) + tag.vid

TagOf(tci) ==
    [pcp |-> tci \div 2 ^ 13, dei |-> (tci \div 2 ^ 12) % 2 = 1, vid |-> tci % 2 ^ 12]
-----------------------------------------------------------------------------
(* Encoding *)

\* Mutant of TagStack: the customer tag is written first.
TagStackReversed(w) ==
    IF w.vlan.vid = None THEN <<>>
    ELSE IF w.svlan.vid = None THEN <<w.vlan>> ELSE <<w.vlan, w.svlan>>

\* ieee_8021q_tag_stack: outermost tag first; a service tag alone is dropped.
TagStack(w) ==
    IF w.vlan.vid = None THEN <<>>
    ELSE IF w.svlan.vid = None THEN <<w.vlan>> ELSE <<w.svlan, w.vlan>>

OuterTag(tags) == IF Len(tags) = 1 THEN CTag ELSE STag

TagFields(tags) ==
    IF tags = <<>> THEN <<>>
    ELSE <<OuterTag(tags), Tci(tags[1])>>
            \o (IF Len(tags) = 2 THEN <<CTag, Tci(tags[2])>> ELSE <<>>)

\* MAC client data: what follows the length/type field, minimum padding apart.
ClientOctets(w) == ArpOctets + w.padding + IF w.llc THEN SnapOctets ELSE 0

\* validate_ieee_8021q_tag_stack and validate_ieee_8023_mac_client_data
Encodable(w) ==
    /\ w.svlan.vid # None => w.vlan.vid # None
    /\ ClientOctets(w) <= MaximumLength

LengthField(w) == IF ClientOctets(w) < 2 ^ 16 THEN ClientOctets(w) ELSE MaximumLength

TypeFields(w) ==
    IF w.llc THEN <<LengthField(w)>> \o SnapPrefix \o <<ARP>> ELSE <<ARP>>

\* The length is that of header and client data, zero-padded to the minimum.
EncodedRequest(w) ==
    LET header == TagFields(TagStack(w))
        octets == 14 + 2 * Len(header) + ClientOctets(w)
    IN [fields |-> header \o TypeFields(w) \o <<w.hrd, w.pro, w.lengths, w.op>>,
        octets |-> IF octets < MinimumFrame THEN MinimumFrame ELSE octets]
-----------------------------------------------------------------------------
(* Parsing *)

Halfword(frame, offset) ==
    LET k == (offset - 12) \div 2 + 1
    IN IF k \in DOMAIN frame.fields THEN frame.fields[k] ELSE 0

\* The length/type field behind n tags, where the frame is long enough.
TypeOffset(n) == 12 + 4 * n
Type(frame, n) == Halfword(frame, TypeOffset(n))
HasType(frame, n) == TypeOffset(n) + 2 <= frame.octets

\* Mutant of TagsAccepted: a lone service tag is read like a customer tag.
TagsAcceptedLoosely(frame, n) ==
    /\ HasType(frame, n)
    /\ n = 1 => Type(frame, 0) \in {CTag, STag}
    /\ n = 2 => Type(frame, 0) = STag /\ Type(frame, 1) = CTag
    /\ Type(frame, n) \notin AnyTag

\* The frame carries exactly n tags in an arrangement that is accepted: none, a
\* customer tag, or a service tag around a customer tag.
TagsAccepted(frame, n) ==
    /\ HasType(frame, n)
    /\ n = 1 => Type(frame, 0) = CTag
    /\ n = 2 => Type(frame, 0) = STag /\ Type(frame, 1) = CTag
    /\ Type(frame, n) \notin AnyTag

IsEthernetII(frame, n) == Type(frame, n) >= MinimumEtherType

IsSnap(frame, n) ==
    /\ Type(frame, n) <= MaximumLength
    /\ TypeOffset(n) + 2 + SnapOctets <= frame.octets
    /\ \A k \in 1 .. 3 : Halfword(frame, TypeOffset(n) + 2 * k) = SnapPrefix[k]

\* try_parse_ethernet_frame: the one result, or none.
Parsed(frame) ==
    {[tags |-> [i \in 1 .. n |-> TagOf(Halfword(frame, 10 + 4 * i))],
      snap |-> FALSE, etherType |-> Type(frame, n), payload |-> TypeOffset(n) + 2]
        : n \in {k \in 0 .. 2 : TagsAccepted(frame, k) /\ IsEthernetII(frame, k)}}
    \cup
    {[tags |-> [i \in 1 .. n |-> TagOf(Halfword(frame, 10 + 4 * i))],
      snap |-> TRUE, etherType |-> Halfword(frame, TypeOffset(n) + SnapOctets),
      payload |-> TypeOffset(n) + 2 + SnapOctets]
        : n \in {k \in 0 .. 2 : TagsAccepted(frame, k) /\ IsSnap(frame, k)}}

\* ethernet_frame_is_not_address_resolution_protocol, negated
IsArp(frame) == \E p \in Parsed(frame) : p.etherType = ARP

Opcode(frame, p) == Halfword(frame, p.payload + 6)

\* try_parse_address_resolution_ipv4_over_ethernet succeeds.
WellFormed(frame, p) ==
    /\ frame.octets - p.payload >= ArpOctets
    /\ Halfword(frame, p.payload) = 1
    /\ Halfword(frame, p.payload + 2) = IPv4
    /\ Halfword(frame, p.payload + 4) = \h0604
    /\ Opcode(frame, p) \notin Reserved

\* What the frame is to the scan engine and, but for opcodes, to the monitor:
\* the frame kinds of modules ScanEngine and PassiveMonitor.
Kind(frame) ==
    IF ~IsArp(frame) THEN "notArp"
    ELSE LET p == CHOOSE q \in Parsed(frame) : TRUE
         IN IF ~WellFormed(frame, p) THEN "malformed"
            ELSE IF Opcode(frame, p) = Reply THEN "reply" ELSE "request"
=============================================================================
