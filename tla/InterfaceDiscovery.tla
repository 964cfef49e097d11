------------------------- MODULE InterfaceDiscovery -------------------------
(***************************************************************************)
(* The interfaces of the host and how each platform reads them: system     *)
(* calls that each ask one thing about one name on Linux                   *)
(* (src/linux_interface_discovery.rs, src/linux_socket.rs), one list of    *)
(* address records on macOS (src/macos_interface_discovery.rs).  A table   *)
(* gives each name its interface, or Absent:                               *)
(*   [index, flags, ipv4, type, hardware, linkPlace], ipv4 a sequence of   *)
(* addresses with their masks, hardware Absent when it does not have six   *)
(* octets, linkPlace the place of its link-layer record among its records  *)
(* where a list of them is given.                                          *)
(***************************************************************************)
EXTENDS Integers, Sequences, SequencesExt, FiniteSetsExt

CONSTANTS
    Name,          \* names an interface may have
    InvalidName,   \* names that are empty, too long, or hold a slash or a NUL
    Zero,          \* the hardware address of zeroes
    Absent         \* no interface of a name, no value, the error of a system call

ASSUME DiscoveryAssumption ==
    /\ Name \cap InvalidName = {}
    /\ Absent \notin Name \cup InvalidName \cup Nat
    /\ Zero # Absent
    /\ IsFiniteSet(Name)

\* interface_flags_allow_arp_scanning, validate_interface_flags_for_arp_scanning
FlagsAllow(flags) ==
    "LOOPBACK" \notin flags /\ "NOARP" \notin flags /\ "UP" \in flags

\* validate_interface_name_for_linux_packet_socket
NameFits(name) == name \notin InvalidName

Present(table) == {n \in Name : table[n] # Absent}
-----------------------------------------------------------------------------
(* Linux: one question at a time *)

\* read_hardware_address_from_sockaddr
LinuxHardware(interface) ==
    IF interface.type = "ethernet" /\ interface.hardware # Zero
    THEN interface.hardware ELSE Absent

\* What a system call answers about a name, Absent for an error.  getifaddrs does not
\* fail for a name that is gone, it has no address of it.
Answer(table, name, question) ==
    LET interface == IF name \in Name THEN table[name] ELSE Absent
    IN  IF question = "addresses"
        THEN IF interface = Absent THEN {} ELSE {a.address : a \in Range(interface.ipv4)}
        ELSE IF interface = Absent THEN Absent
        ELSE CASE question = "index" -> interface.index
               [] question = "flags" -> interface.flags
               [] question = "address" ->
                    IF interface.ipv4 = <<>> THEN Absent ELSE interface.ipv4[1].address
               [] question = "netmask" ->
                    IF interface.ipv4 = <<>> THEN Absent ELSE interface.ipv4[1].netmask
               [] question = "hardware" -> LinuxHardware(interface)
-----------------------------------------------------------------------------
(* macOS: one list of records *)

\* collect_interface_address_records: for each name one record for each IPv4 address
\* and, before, between or behind them, that of the link layer, all with the flags of
\* the interface.
RecordsOf(name, interface) ==
    InsertAt([i \in DOMAIN interface.ipv4 |->
                [name |-> name, flags |-> interface.flags, family |-> "ipv4",
                 address |-> interface.ipv4[i].address,
                 netmask |-> interface.ipv4[i].netmask]],
             interface.linkPlace,
             [name |-> name, flags |-> interface.flags, family |-> "link",
              type |-> interface.type, hardware |-> interface.hardware])

Records(table) ==
    LET names == SetToSeq(Present(table))
    IN  FlattenSeq([i \in DOMAIN names |-> RecordsOf(names[i], table[names[i]])])

\* accumulate_interface_records, for one name: its records, by their places in the list,
\* of them those of its IPv4 addresses, and its link-layer records with six octets.
Accumulated(records, name) ==
    LET mine == {i \in DOMAIN records : records[i].name = name}
    IN  [all |-> mine,
         ipv4 |-> {i \in mine : records[i].family = "ipv4"},
         links |-> {i \in mine : records[i].family = "link" /\ records[i].hardware # Absent}]

\* Mutant of Classified: the link layer counts only when its record comes first.
ClassifiedLinkFirst(records, name) ==
    LET interface == Accumulated(records, name)
        first == records[Min(interface.ipv4)]
        link == records[Min(interface.all)]
    IN  IF \/ interface.all = {}
           \/ ~FlagsAllow(records[Max(interface.all)].flags)
           \/ interface.ipv4 = {} \/ first.netmask = Absent
           \/ interface.links = {} \/ Min(interface.all) \notin interface.links
           \/ link.type # "ethernet"
           \/ link.hardware = Zero
        THEN Absent
        ELSE [address |-> first.address, netmask |-> first.netmask,
              hardware |-> link.hardware,
              locals |-> {records[i].address : i \in interface.ipv4}]

\* classify_accumulator, Absent when the interface is refused or not there: the flags of
\* the last record count, the first IPv4 address and the last link-layer address; with
\* all the addresses, which monitor_identity_from_records keeps.
Classified(records, name) ==
    LET interface == Accumulated(records, name)
        first == records[Min(interface.ipv4)]
        link == records[Max(interface.links)]
    IN  IF \/ interface.all = {}
           \/ ~FlagsAllow(records[Max(interface.all)].flags)
           \/ interface.ipv4 = {} \/ first.netmask = Absent
           \/ interface.links = {}
           \/ link.type # "ethernet"
           \/ link.hardware = Zero
        THEN Absent
        ELSE [address |-> first.address, netmask |-> first.netmask,
              hardware |-> link.hardware,
              locals |-> {records[i].address : i \in interface.ipv4}]
-----------------------------------------------------------------------------
(* What is usable, as README.md:17 has it for both platforms *)

Usable(table, name) ==
    /\ name \in Present(table)
    /\ LET interface == table[name]
       IN  /\ interface.type = "ethernet"
           /\ "UP" \in interface.flags
           /\ interface.flags \cap {"LOOPBACK", "NOARP"} = {}
           /\ interface.ipv4 # <<>> /\ interface.ipv4[1].netmask # Absent
           /\ interface.hardware \notin {Absent, Zero}

UsableNames(table) == {n \in Name : Usable(table, n)}

\* The addresses of an interface, and what a run goes by of a usable one.
Addresses(interface) == {a.address : a \in Range(interface.ipv4)}
Identity(interface) ==
    [address |-> interface.ipv4[1].address, netmask |-> interface.ipv4[1].netmask,
     hardware |-> interface.hardware, locals |-> Addresses(interface)]
=============================================================================
