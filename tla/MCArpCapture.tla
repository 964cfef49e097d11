---------------------------- MODULE MCArpCapture ----------------------------
(***************************************************************************)
(* Instances of ArpCapture for TLC: options of every tag arrangement and   *)
(* framing at the limits of the client data, and frames around every       *)
(* accepted shape.                                                         *)
(***************************************************************************)
EXTENDS ArpCapture

NoTag == [vid |-> None, pcp |-> 0, dei |-> FALSE]
Customer == {NoTag, [vid |-> 5, pcp |-> 7, dei |-> TRUE], [vid |-> 4095, pcp |-> 0, dei |-> FALSE]}
Service == {NoTag, [vid |-> 100, pcp |-> 5, dei |-> TRUE]}

Wire(vlan, svlan, llc, padding, op) ==
    [vlan |-> vlan, svlan |-> svlan, llc |-> llc, padding |-> padding,
     hrd |-> 1, pro |-> IPv4, lengths |-> \h0604, op |-> op]

\* Padding at the minimum frame (14 + 28 + 18 octets) and around the largest
\* client data with and without SNAP.
WiresAtLimits ==
    {Wire(c, s, llc, padding, 1) :
        c \in Customer, s \in Service, llc \in BOOLEAN,
        padding \in {0, 1, 1464, 1465, 1472, 1473}}

\* The accepted shapes of an ARP reply.
Shapes ==
    {MirroredReply(Wire(c, s, llc, 0, 1)) :
        c \in {NoTag, [vid |-> 5, pcp |-> 7, dei |-> TRUE]}, s \in Service, llc \in BOOLEAN}

Values ==
    {0, 1, 36, MaximumLength, MaximumLength + 1, MinimumEtherType - 1, MinimumEtherType,
     ARP, IPv4, CTag, STag, \h9100, \hAAAA, \h0300, 65535}

\* One field of a shape replaced, and every shape cut to every length.
ChangedShapes ==
    UNION {{[f EXCEPT !.fields[k] = v] : k \in DOMAIN f.fields, v \in Values} : f \in Shapes}
CutShapes == {[f EXCEPT !.octets = n] : f \in Shapes, n \in 0 .. 60}

\* Any three length/type values in the places of two tags and of what follows.
AnyTags ==
    {[fields |-> <<t[1], 5, t[2], 6, t[3]>> \o tail, octets |-> n] :
        t \in [1 .. 3 -> {36, ARP, IPv4, CTag, STag, \h9200}],
        tail \in {<<1, IPv4, \h0604, 2>>, SnapPrefix \o <<ARP, 1, IPv4, \h0604, 2>>},
        n \in {20, 60}}

FramesAround == ChangedShapes \cup CutShapes \cup AnyTags
=============================================================================
