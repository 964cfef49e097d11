---------------------------- MODULE MCScanCommand ----------------------------
(***************************************************************************)
(* ScanCommand for TLC, with addresses of four bits, in three slices:      *)
(* every address with every mask and every target; interfaces of every     *)
(* kind, that change; and command lines with every combination of options  *)
(* near the bounds of their values.                                        *)
(***************************************************************************)
EXTENDS ScanCommand

eth == "eth0"
wlan == "wlan0"
MCName == {eth, wlan, "lo"}
MCInvalidName == {"a/b"}

Interface(index, flags, ipv4, type, hardware) ==
    [index |-> index, flags |-> flags, ipv4 |-> ipv4, type |-> type, hardware |-> hardware,
     linkPlace |-> 1]
Ip(address, netmask) == [address |-> address, netmask |-> netmask]

Up == {"UP"}
Usual(index, ipv4, hardware) == Interface(index, Up, ipv4, "ethernet", hardware)
Loopback == Interface(1, {"UP", "LOOPBACK"}, <<Ip(2, 15)>>, "loopback", Zero)

Host(first, second) == [n \in MCName |-> CASE n = eth -> first [] n = wlan -> second [] OTHER -> Loopback]

Line == [kind |-> "scan", interface |-> None, host |-> None, fits |-> TRUE,
         vlan |-> None, pcp |-> None, dei |-> FALSE, svlan |-> None, spcp |-> None, sdei |-> FALSE,
         llc |-> FALSE, padding |-> None, bandwidth |-> None, interval |-> None, attempts |-> 1,
         backoff |-> None]

\* Every address, mask and target.
Plans == {[line |-> [Line EXCEPT !.interface = eth, !.host = target],
           table |-> Host(Usual(2, <<Ip(address, mask)>>, "mac1"), Absent)] :
            address \in Address, mask \in Address, target \in Address \cup {None}}

\* Interfaces that change: two usable ones, the same with exchanged names, with a new
\* address, one alone, and one that went down and came back with a new index.
First == Usual(2, <<Ip(5, 12), Ip(9, 12)>>, "mac1")
Second == [Usual(3, <<Ip(10, 12)>>, "mac2") EXCEPT !.linkPlace = 2]
MCChanged ==
    {Host(First, Absent), Host(First, Second), Host(Second, First),
     Host([First EXCEPT !.ipv4 = <<Ip(10, 8)>>], Absent),
     Host([First EXCEPT !.flags = {}], Second),
     Host([First EXCEPT !.index = 4], Absent)}

\* Interfaces of which one is not usable, or not quite like the other.
Odd ==
    {Interface(2, flags, <<Ip(5, 12)>>, "ethernet", "mac1") :
        flags \in SUBSET {"UP", "LOOPBACK", "NOARP"}}
    \cup {Interface(2, Up, ipv4, type, hardware) :
            ipv4 \in {<<>>, <<Ip(5, 12)>>, <<Ip(5, Absent), Ip(6, 12)>>},
            type \in {"ethernet", "tunnel"},
            hardware \in {"mac1", Zero}}
    \cup {Interface(2, Up, <<Ip(5, 12)>>, "tunnel", Absent)}
    \cup {[Interface(2, Up, <<Ip(9, 12), Ip(5, 8), Ip(5, 8)>>, type, hardware)
              EXCEPT !.linkPlace = place] :
            type \in {"ethernet", "tunnel"}, hardware \in {"mac1", Zero}, place \in 1 .. 4}

Commands ==
    {[Line EXCEPT !.kind = kind, !.interface = interface] :
        kind \in {"scan", "monitor"}, interface \in {None, eth, wlan, "lo", "a/b"}}
    \cup {[Line EXCEPT !.kind = "list"], [Line EXCEPT !.kind = "monitor", !.fits = FALSE]}

Discoveries ==
    {[line |-> c, table |-> table] :
        c \in Commands,
        table \in MCChanged \cup {Host(odd, Absent) : odd \in Odd} \cup {Host(odd, Second) : odd \in Odd}}

\* Options that tag and pad the frame.
Padding(octets) == [digits |-> 2 * octets, hexadecimal |-> TRUE]
Paddings ==
    {None, [digits |-> 0, hexadecimal |-> TRUE], [digits |-> 3, hexadecimal |-> TRUE],
     [digits |-> 2, hexadecimal |-> FALSE], Padding(1)}
    \cup {Padding(ClientLimit - ArpOctets - n) : n \in {-1, 0, SnapOctets - 1, SnapOctets}}

Framings ==
    {[Line EXCEPT !.vlan = vlan, !.pcp = pcp, !.dei = dei, !.svlan = svlan, !.spcp = spcp,
                  !.sdei = sdei] :
        vlan \in {None, 0, ParsedVid, MaxVid, ParsedVid + 1},
        pcp \in {None, ParsedPcp, MaxPcp, ParsedPcp + 1}, dei \in BOOLEAN, svlan \in {None, 0, ParsedVid + 1}, spcp \in {None, ParsedPcp + 1},
        sdei \in BOOLEAN}
    \cup {[Line EXCEPT !.llc = llc, !.padding = padding, !.vlan = vlan, !.svlan = vlan] :
            llc \in BOOLEAN, padding \in Paddings, vlan \in {None, 1}}

\* Options of the schedule.
Rates ==
    {[Line EXCEPT !.bandwidth = bandwidth, !.interval = interval, !.attempts = attempts,
                  !.backoff = backoff, !.fits = fits] :
        bandwidth \in {None} \cup [magnitude : {0, 1, 2, 3}, factor : {1, 1000, 1000000}]
                     \cup [magnitude : {MaxRate, MaxRate + 1}, factor : {1}],
        interval \in {None, 0, 1}, attempts \in {0, 2},
        backoff \in {None, [finite |-> FALSE, tenths |-> 10], [finite |-> TRUE, tenths |-> 9],
                     [finite |-> TRUE, tenths |-> 10]},
        fits \in BOOLEAN}

Lines == {[line |-> l, table |-> Host(First, Absent)] : l \in Framings \cup Rates}
MCStart == Plans \cup Discoveries \cup Lines
=============================================================================
