----------------------------- MODULE CommandLine -----------------------------
(***************************************************************************)
(* The command line of a scan: what the parser accepts (the attributes of  *)
(* ScanArguments in src/cli.rs and the value parsers of                    *)
(* src/application_command.rs), and the command that main makes of it.     *)
(* A line is a record of its options, None when one is not given; tokens   *)
(* are abstracted to what the value parsers look at.                       *)
(***************************************************************************)
EXTENDS Integers

CONSTANTS
    ParsedVid,     \* largest VLAN identifier of the parser (the ranges of --vlan, --svlan)
    ParsedPcp,     \* its largest priority (the ranges of --pcp, --spcp)
    MaxVid,        \* Ieee8021qVlanIdentifier::MAXIMUM
    MaxPcp,        \* Ieee8021qPriorityCodePoint::MAXIMUM
    MaxRate,       \* largest bit rate that fits (u64::MAX)
    ClientLimit,   \* IEEE_8023_MAXIMUM_LENGTH
    ArpOctets,     \* ADDRESS_RESOLUTION_PROTOCOL_IPV4_PAYLOAD_LENGTH
    SnapOctets,    \* IEEE_8023_LLC_SNAP_HEADER_LENGTH
    None           \* an option that is not given

ASSUME CommandLineAssumption ==
    /\ {ParsedVid, ParsedPcp, MaxVid, MaxPcp, MaxRate, ArpOctets, SnapOctets} \subseteq Nat
    /\ ClientLimit \in Nat /\ ClientLimit >= ArpOctets + SnapOctets
    /\ None \notin Nat

\* The literals of the parser are within the limits of the types that main builds.
ASSUME ParserAssumption == ParsedVid <= MaxVid /\ ParsedPcp <= MaxPcp

\* Tenths of a backoff factor: RetryBackoffFactor::DEFAULT is 1.5.
FactorOne == 10
DefaultFactor == 15

Given(option) == option # None
-----------------------------------------------------------------------------
(* The parser *)

VidParses(vid) == Given(vid) => vid <= ParsedVid
PcpParses(pcp) == Given(pcp) => pcp <= ParsedPcp

\* parse_ethernet_padding_hex, with the limit of a frame without SNAP header.
PaddingParses(padding) ==
    Given(padding) =>
        /\ padding.digits > 0 /\ padding.digits % 2 = 0
        /\ padding.hexadecimal
        /\ padding.digits \div 2 <= ClientLimit - ArpOctets

\* parse_bandwidth_bits_per_second: a number with the factor of its suffix.
BandwidthParses(bandwidth) ==
    Given(bandwidth) =>
        /\ bandwidth.magnitude \in 1 .. MaxRate
        /\ bandwidth.factor \in {1, 1000, 1000000}
        /\ bandwidth.magnitude * bandwidth.factor <= MaxRate

\* parse_retry_backoff_factor
BackoffParses(backoff) == Given(backoff) => backoff.finite /\ backoff.tenths >= FactorOne

ValuesParse(line) ==
    /\ VidParses(line.vlan) /\ VidParses(line.svlan)
    /\ PcpParses(line.pcp) /\ PcpParses(line.spcp)
    /\ PaddingParses(line.padding)
    /\ BandwidthParses(line.bandwidth)
    /\ Given(line.interval) => line.interval >= 1
    /\ line.attempts >= 1
    /\ BackoffParses(line.backoff)

\* Mutant of OptionsAgree: a service tag does not require a customer tag.
OptionsAgreeLoosely(line) ==
    /\ Given(line.pcp) \/ line.dei => Given(line.vlan)
    /\ Given(line.spcp) \/ line.sdei => Given(line.svlan)
    /\ ~ (Given(line.bandwidth) /\ Given(line.interval))
    /\ Given(line.backoff) => Given(line.bandwidth) \/ Given(line.interval)

\* requires and group: options that need others, and options that exclude others.
OptionsAgree(line) ==
    /\ Given(line.pcp) \/ line.dei \/ Given(line.svlan) => Given(line.vlan)
    /\ Given(line.spcp) \/ line.sdei => Given(line.svlan)
    /\ ~ (Given(line.bandwidth) /\ Given(line.interval))
    /\ Given(line.backoff) => Given(line.bandwidth) \/ Given(line.interval)

LineAccepted(line) == ValuesParse(line) /\ OptionsAgree(line)
-----------------------------------------------------------------------------
(* The conversion *)

\* The `expect`s of scan_wire_options_from_arguments, rate_limit_from_scan_arguments
\* and main hold: nothing panics.
Converts(line) ==
    /\ \A vid \in {line.vlan, line.svlan} : Given(vid) => vid <= MaxVid
    /\ \A pcp \in {line.pcp, line.spcp} : Given(pcp) => pcp <= MaxPcp
    /\ ~Given(line.bandwidth) /\ Given(line.interval) => line.interval # 0
    /\ line.attempts # 0

\* scan_wire_options_from_arguments
WireOptions(line) ==
    [vlan |-> line.vlan,
     pcp |-> IF Given(line.pcp) THEN line.pcp ELSE 0,
     dei |-> line.dei,
     svlan |-> line.svlan,
     spcp |-> IF Given(line.spcp) THEN line.spcp ELSE 0,
     sdei |-> line.sdei,
     llc |-> line.llc,
     padding |-> IF Given(line.padding) THEN line.padding.digits \div 2 ELSE 0]

\* rate_limit_from_scan_arguments
RateLimit(line) ==
    LET factor == IF Given(line.backoff) THEN line.backoff.tenths ELSE DefaultFactor
    IN  IF Given(line.bandwidth)
        THEN [bits |-> line.bandwidth.magnitude * line.bandwidth.factor,
              interval |-> None, factor |-> factor]
        ELSE IF Given(line.interval)
        THEN [bits |-> None, interval |-> line.interval, factor |-> factor]
        ELSE None
-----------------------------------------------------------------------------
(* What the library checks again *)

\* validate_ieee_8021q_tag_stack
TagStackValid(wire) == Given(wire.svlan) => Given(wire.vlan)

\* validate_ieee_8023_mac_client_data
ClientDataValid(wire) ==
    (IF wire.llc THEN SnapOctets ELSE 0) + ArpOctets + wire.padding <= ClientLimit
=============================================================================
