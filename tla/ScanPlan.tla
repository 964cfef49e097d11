------------------------------ MODULE ScanPlan ------------------------------
(***************************************************************************)
(* From the address and netmask of an interface to the targets of a scan   *)
(* and the senders whose replies are recorded: src/ipv4_subnet.rs, the     *)
(* host iterator of src/ipv4_cidr.rs and the plan in src/scanner.rs.       *)
(* Addresses and masks are numbers of Width bits (32 in the code).         *)
(***************************************************************************)
EXTENDS Integers, Sequences, FiniteSetsExt

CONSTANTS Width

ASSUME WidthAssumption == Width \in Nat \ {0}

Bits == 0 .. Width - 1
Address == 0 .. 2 ^ Width - 1

Bit(a, i) == (a \div 2 ^ i) % 2

\* a & b, added up from the low bits, !a and a.wrapping_add(1).
And(a, b) ==
    LET low[n \in 0 .. Width] ==
            IF n = 0 THEN 0 ELSE low[n - 1] + 2 ^ (n - 1) * (Bit(a, n - 1) * Bit(b, n - 1))
    IN  low[Width]
Not(a) == 2 ^ Width - 1 - a
WrappingNext(a) == (a + 1) % 2 ^ Width

\* leading_ones
LeadingOnes(mask) ==
    Max({n \in 0 .. Width : \A i \in Bits : i >= Width - n => Bit(mask, i) = 1})
-----------------------------------------------------------------------------
(* The subnet *)

\* prefix_length_from_contiguous_netmask accepts the mask.
Contiguous(mask) == Not(mask) = 0 \/ And(Not(mask), WrappingNext(Not(mask))) = 0

PrefixLength(mask) == IF Not(mask) = 0 THEN Width ELSE LeadingOnes(mask)

Network(address, mask) == And(address, mask)
Broadcast(address, mask) == Network(address, mask) + Not(mask)

\* inclusive_host_address_range_excluding_edges: the two additions cannot overflow
\* and the range cannot be empty once the prefix is short enough.
SubnetAccepted(address, mask) ==
    /\ Contiguous(mask)
    /\ PrefixLength(mask) < Width - 1
    /\ Network(address, mask) + 1 <= Broadcast(address, mask) - 1

FirstHost(address, mask) == Network(address, mask) + 1
LastHost(address, mask) == Broadcast(address, mask) - 1

\* validate_strict_interior_scan_target_ipv4_address
TargetAccepted(target, address, mask) ==
    /\ SubnetAccepted(address, mask)
    /\ FirstHost(address, mask) <= target
    /\ target <= LastHost(address, mask)
-----------------------------------------------------------------------------
(* The plan *)

\* What an Ipv4HostAddressIterator at `next` still yields.
Hosts(next, last) == [i \in 1 .. last - next + 1 |-> next + i - 1]

StrictlyInside(a, network, broadcast) == a > network /\ a < broadcast

\* Mutant of Targets: the interface's own address is always appended.
TargetsWithOwn(source, network, broadcast) ==
    Append(Hosts(network + 1, broadcast - 1), source)

\* ipv4_scan_target_address_sequence
Targets(source, network, broadcast) ==
    IF StrictlyInside(source, network, broadcast)
    THEN Hosts(network + 1, broadcast - 1)
    ELSE Append(Hosts(network + 1, broadcast - 1), source)

\* ArpReplyAcceptance::accepts_sender_ipv4_address
SubnetScope(source, network, broadcast) ==
    [scope |-> "subnet", source |-> source, network |-> network, broadcast |-> broadcast]

ExactTarget(target) == [scope |-> "target", target |-> target]

Accepts(acceptance, sender) ==
    \/ /\ acceptance.scope = "subnet"
       /\ \/ sender = acceptance.source
          \/ StrictlyInside(sender, acceptance.network, acceptance.broadcast)
    \/ /\ acceptance.scope = "target"
       /\ sender = acceptance.target

\* full_subnet_scan_plan
FullPlan(address, mask) ==
    LET network == Network(address, mask)
        broadcast == Broadcast(address, mask)
    IN  [targets |-> Targets(address, network, broadcast),
         acceptance |-> SubnetScope(address, network, broadcast)]

\* perform_arp_probe
ProbePlan(target) == [targets |-> <<target>>, acceptance |-> ExactTarget(target)]
=============================================================================
