-------------------------- MODULE MCPassiveMonitor --------------------------
(***************************************************************************)
(* An instance of PassiveMonitor for TLC: the interface has address l and  *)
(* hardware address me; f is a foreign address, z is 0.0.0.0; m1 is        *)
(* another station.                                                        *)
(***************************************************************************)
EXTENDS PassiveMonitor

CONSTANTS l, f, z, me, m1, t1

Packet(op, mac, ip, target) ==
    [op |-> op, mac |-> mac, ip |-> ip, target |-> target]

\* A conflict, the interface's own packet, and claims of f by two stations, one
\* of them the interface itself: one packet more than the list holds.
CrowdingPackets ==
    {Packet("request", m1, l, t1), Packet("request", me, l, t1),
     Packet("request", m1, f, t1), Packet("reply", me, f, t1)}
=============================================================================
