----------------------------- MODULE ScanCommand -----------------------------
(***************************************************************************)
(* One run of the program, from its command line to the open endpoint or   *)
(* the error it ends with: main.rs, run of lib.rs, the entry points of     *)
(* linux_scanner.rs, linux_monitor.rs, macos_scanner.rs, macos_monitor.rs  *)
(* and the calls they make into discovery and sockets.  Every system call  *)
(* is a step, may fail, and the interfaces of the host may change between  *)
(* any two of them.  What then runs over the endpoint is in ScanEngine and *)
(* PassiveMonitor.                                                         *)
(***************************************************************************)
EXTENDS ScanPlan, CommandLine, InterfaceDiscovery

CONSTANTS
    Platform,     \* of "linux", "macos", "other"
    Start,        \* the command lines with the interfaces they meet: [line, table]
    Changed,      \* interfaces that the host may come to have, from each other
    MaxChanges,   \* bound on changes of the interfaces
    MaxFaults     \* bound on system calls that fail although they could answer

\* How a run may end: with its endpoint open, with a list, or with an error.
Verdict == {"opened", "listed", "usage", "vendors", "panic", "tags", "clientData", "timing",
            "name", "unsupported", "interface", "noneFound", "ambiguous", "plan"}

\* What the model needs to know of a line and of a table.
LineTyped(l) ==
    /\ l.kind \in {"scan", "monitor", "list"}
    /\ l.kind = "list" => ~Given(l.interface)
    /\ l.interface \in Name \cup InvalidName \cup {None}
    /\ l.host \in Address \cup {None}
    /\ {l.vlan, l.pcp, l.svlan, l.spcp} \subseteq Nat \cup {None}
    /\ Given(l.padding) => l.padding.digits \in Nat

TableTyped(table) ==
    \A n \in Name : table[n] # Absent =>
        /\ table[n].index \in Nat
        /\ table[n].ipv4 \in Seq([address : Address, netmask : Address \cup {Absent}])
        /\ table[n].linkPlace \in 1 .. Len(table[n].ipv4) + 1
        /\ Absent \notin {table[n].flags, Addresses(table[n])}
        /\ table[n].ipv4 # <<>> => Absent # Identity(table[n])
        /\ \A m \in Name \ {n} : table[m] # Absent => table[m].index # table[n].index

\* What main makes of a line.
CommandOf(l) ==
    [kind |-> l.kind, interface |-> l.interface, host |-> l.host, fits |-> l.fits,
     wire |-> IF l.kind = "scan" THEN WireOptions(l) ELSE None,
     rate |-> IF l.kind = "scan" THEN RateLimit(l) ELSE None]

ASSUME CommandAssumption ==
    /\ Platform \subseteq {"linux", "macos", "other"}
    /\ MaxChanges \in Nat
    /\ MaxFaults \in Nat
    /\ None \notin Verdict \cup Name \cup InvalidName
    /\ Absent \notin {"socket", "device", "configure"}
    /\ \A a, m \in Address : None \notin {ProbePlan(a), FullPlan(a, m)}
    /\ \A start \in Start :
        LineTyped(start.line) /\ CommandOf(start.line) # None /\ TableTyped(start.table)
    /\ \A table \in Changed : TableTyped(table)

VARIABLES
    platform, line,
    stage,        \* where the run is
    command,      \* the ApplicationCommand, or None
    agenda,       \* system calls that the present call of the library still makes
    row,          \* what it has learnt of one interface
    pending,      \* interfaces still to be looked at in an enumeration
    candidates,   \* interfaces found usable in it
    found,        \* the addresses that the scan or the monitor goes by, or None
    plan,         \* targets and acceptance of a scan, or None
    endpoint,     \* index of the interface that the endpoint is bound to, or None
    result,       \* how the run ends, or None
    past,         \* the interfaces of the host, from the start until now
    faults        \* system calls that failed

input == <<platform, line>>
reading == <<agenda, row, pending, candidates>>
outcome == <<plan, endpoint, result>>
host == <<past, faults>>
vars == <<input, stage, command, reading, found, outcome, host>>

Table == Last(past)

NoRow(name) == [name |-> name, index |-> Absent, flags |-> Absent, address |-> Absent,
                netmask |-> Absent, hardware |-> Absent, locals |-> {}]

Init ==
    /\ platform \in Platform
    /\ \E start \in Start : line = start.line /\ past = <<start.table>>
    /\ stage = "parse"
    /\ command = None
    /\ agenda = <<>> /\ row = NoRow(None) /\ pending = <<>> /\ candidates = <<>>
    /\ found = None
    /\ plan = None /\ endpoint = None /\ result = None
    /\ faults = 0

\* Mutant of EndsWith: the error is dropped.
EndsSilently(verdict) ==
    /\ stage' = "done"
    /\ UNCHANGED outcome

EndsWith(verdict) ==
    /\ stage' = "done"
    /\ result' = verdict
    /\ UNCHANGED <<plan, endpoint>>

\* A call of the library begins that asks `questions` of the interface `about`.
Asks(next, about, questions) == stage' = next /\ row' = about /\ agenda' = questions
-----------------------------------------------------------------------------
(* From the command line to the command *)

ParseLine ==
    /\ stage = "parse"
    /\ IF line.kind = "scan" => LineAccepted(line)
       THEN stage' = "convert" /\ UNCHANGED outcome
       ELSE EndsWith("usage")
    /\ UNCHANGED <<input, command, reading, found, host>>

\* load_mac_vendor_registry, before a scan; without a file the scan goes on.
VendorsRefused ==
    /\ stage = "convert"
    /\ line.kind = "scan"
    /\ faults < MaxFaults
    /\ faults' = faults + 1
    /\ EndsWith("vendors")
    /\ UNCHANGED <<input, command, reading, found, past>>

\* main, and the match of run on the command.
MakeCommand ==
    /\ stage = "convert"
    /\ IF line.kind = "scan" => Converts(line)
       THEN /\ command' = CommandOf(line)
            /\ stage' = "check"
            /\ UNCHANGED outcome
       ELSE EndsWith("panic") /\ UNCHANGED command
    /\ UNCHANGED <<input, reading, found, host>>

\* The first check of run_address_resolution_scan or run_passive_arp_monitor that
\* fails; fits says whether the schedule or the timeout can be represented.
Refusal ==
    IF command.kind = "scan" /\ ~TagStackValid(command.wire) THEN "tags"
    ELSE IF command.kind = "scan" /\ ~ClientDataValid(command.wire) THEN "clientData"
    ELSE IF (command.kind = "monitor" \/ command.rate # None) /\ ~command.fits THEN "timing"
    ELSE IF Given(command.interface) /\ ~NameFits(command.interface) THEN "name"
    ELSE IF platform = "other" THEN "unsupported"
    ELSE None

CheckRefuses ==
    /\ stage = "check"
    /\ Refusal # None
    /\ EndsWith(Refusal)
    /\ UNCHANGED <<input, command, reading, found, host>>
-----------------------------------------------------------------------------
(* What the library asks the system *)

\* resolve_scan_interface_name, with a name
ResolveQuestions ==
    IF platform = "linux" THEN <<"index", "flags", "address", "netmask", "hardware">>
    ELSE <<"records">>

\* try_build_arp_scan_interface_candidate; on macOS the records are there already
CandidateQuestions ==
    IF platform = "linux" THEN <<"flags", "address", "netmask", "hardware">> ELSE <<"index">>

\* perform_arp_scan, perform_arp_probe and perform_passive_arp_monitor, before the plan
PerformQuestions ==
    IF platform # "linux" THEN <<"records">>
    ELSE IF command.kind = "scan" THEN <<"index", "flags", "address", "netmask", "hardware">>
    ELSE <<"index", "flags", "address", "netmask", "hardware", "addresses">>

\* open_linux_link_layer_endpoint, open_linux_monitor_link_layer_endpoint,
\* open_macos_link_layer_endpoint
OpenQuestions ==
    IF platform = "linux" THEN <<"index", "flags", "socket", "bind">>
    ELSE <<"device", "attach", "configure">>

\* What the system answers now; Absent is an error, or an answer that is refused.
Reply(question) ==
    CASE question = "records" -> Classified(Records(Table), row.name)
      [] question \in {"socket", "device", "configure"} -> question
      [] question = "bind" ->
            IF \E n \in Present(Table) : Table[n].index = row.index THEN row.index ELSE Absent
      [] question = "attach" -> Answer(Table, row.name, "index")
      [] question = "flags" ->
            LET flags == Answer(Table, row.name, "flags")
            IN  IF flags # Absent /\ FlagsAllow(flags) THEN flags ELSE Absent
      [] OTHER -> Answer(Table, row.name, question)

\* A row with what the records of its interface say.
Identified(about, identity) ==
    [about EXCEPT !.address = identity.address, !.netmask = identity.netmask,
                  !.hardware = identity.hardware, !.locals = identity.locals]

\* The row with what was answered in it.
Learnt(question, reply) ==
    CASE question = "records" -> Identified(row, reply)
      [] question \in {"socket", "bind", "device", "configure"} -> row
      [] question = "attach" -> [row EXCEPT !.index = reply]
      [] question = "addresses" -> [row EXCEPT !.locals = reply \cup {row.address}]
      [] OTHER -> [row EXCEPT ![question] = reply]

\* Mutant of CallAnswered: the index found first is kept when it is asked again.
CallAnsweredOnce ==
    LET question == Head(agenda)
        reply == Reply(question)
    IN  /\ agenda # <<>>
        /\ reply # Absent
        /\ row' = IF question = "index" /\ found # None
                  THEN [row EXCEPT !.index = found.index] ELSE Learnt(question, reply)
        /\ agenda' = Tail(agenda)
        /\ UNCHANGED <<input, stage, command, pending, candidates, found, outcome, host>>

CallAnswered ==
    LET question == Head(agenda)
        reply == Reply(question)
    IN  /\ agenda # <<>>
        /\ reply # Absent
        /\ row' = Learnt(question, reply)
        /\ agenda' = Tail(agenda)
        /\ UNCHANGED <<input, stage, command, pending, candidates, found, outcome, host>>

\* Mutant of CallRefused: an interface that is refused ends the enumeration.
CallRefusedForAll ==
    /\ agenda # <<>>
    /\ \/ Reply(Head(agenda)) = Absent /\ UNCHANGED faults
       \/ faults < MaxFaults /\ faults' = faults + 1
    /\ agenda' = <<>>
    /\ IF stage = "candidate"
       THEN stage' = "enumerate" /\ pending' = <<>> /\ UNCHANGED outcome
       ELSE EndsWith("interface") /\ UNCHANGED pending
    /\ UNCHANGED <<input, command, row, candidates, found, past>>

\* An error ends the run, or, in an enumeration, only the look at this interface.
CallRefused ==
    /\ agenda # <<>>
    /\ \/ Reply(Head(agenda)) = Absent /\ UNCHANGED faults
       \/ faults < MaxFaults /\ faults' = faults + 1
    /\ agenda' = <<>>
    /\ IF stage = "candidate"
       THEN stage' = "enumerate" /\ UNCHANGED outcome
       ELSE EndsWith("interface")
    /\ UNCHANGED <<input, command, row, pending, candidates, found, past>>

Complete(here) == stage = here /\ agenda = <<>>
-----------------------------------------------------------------------------
(* Which interface *)

ResolveExplicit ==
    /\ stage = "check" /\ Refusal = None
    /\ command.kind # "list" /\ Given(command.interface)
    /\ Asks("resolve", NoRow(command.interface), ResolveQuestions)
    /\ UNCHANGED <<input, command, pending, candidates, found, outcome, host>>

\* if_nameindex on Linux, getifaddrs with its classification on macOS.
Listed ==
    LET names == IF platform = "linux" THEN Present(Table)
                 ELSE {n \in Name : Classified(Records(Table), n) # Absent}
        rowOf(n) == IF platform = "linux" THEN [NoRow(n) EXCEPT !.index = Table[n].index]
                    ELSE Identified(NoRow(n), Classified(Records(Table), n))
        sequence == SetToSeq(names)
    IN  [i \in DOMAIN sequence |-> rowOf(sequence[i])]

\* enumerate_usable_arp_scan_interface_candidates begins.
Enumerate ==
    /\ stage = "check" /\ Refusal = None
    /\ command.kind = "list" \/ ~Given(command.interface)
    /\ \/ /\ stage' = "enumerate"
          /\ pending' = Listed
          /\ UNCHANGED <<outcome, faults>>
       \/ /\ faults < MaxFaults
          /\ faults' = faults + 1
          /\ EndsWith("interface")
          /\ UNCHANGED pending
    /\ UNCHANGED <<input, command, agenda, row, candidates, found, past>>

LookAtNext ==
    /\ stage = "enumerate"
    /\ pending # <<>>
    /\ Asks("candidate", Head(pending), CandidateQuestions)
    /\ pending' = Tail(pending)
    /\ UNCHANGED <<input, command, candidates, found, outcome, host>>

\* The candidates are sorted by their indexes.
KeepCandidate ==
    /\ Complete("candidate")
    /\ LET before == {i \in DOMAIN candidates : candidates[i].index <= row.index}
       IN  candidates' = InsertAt(candidates, Cardinality(before) + 1, row)
    /\ stage' = "enumerate"
    /\ UNCHANGED <<input, command, agenda, row, pending, found, outcome, host>>

\* The list is the outcome, or the choice fails.
EnumerationEnds ==
    /\ stage = "enumerate"
    /\ pending = <<>>
    /\ command.kind = "list" \/ Len(candidates) # 1
    /\ EndsWith(IF command.kind = "list" THEN "listed"
                ELSE IF candidates = <<>> THEN "noneFound" ELSE "ambiguous")
    /\ UNCHANGED <<input, command, reading, found, host>>

\* The interface is chosen, by name: the given one or the only candidate.
Chosen ==
    /\ \/ Complete("resolve")
       \/ /\ stage = "enumerate" /\ pending = <<>>
          /\ command.kind # "list" /\ Len(candidates) = 1
    /\ LET name == IF Given(command.interface) THEN command.interface ELSE candidates[1].name
       IN  Asks("perform", NoRow(name), PerformQuestions)
    /\ UNCHANGED <<input, command, pending, candidates, found, outcome, host>>
-----------------------------------------------------------------------------
(* The plan and the endpoint *)

PlanAccepted(address, netmask) ==
    \/ command.kind = "monitor"
    \/ IF Given(command.host) THEN TargetAccepted(command.host, address, netmask)
       ELSE SubnetAccepted(address, netmask)

MakePlan ==
    /\ Complete("perform")
    /\ IF PlanAccepted(row.address, row.netmask)
       THEN /\ plan' = IF command.kind = "monitor" THEN None
                       ELSE IF Given(command.host) THEN ProbePlan(command.host)
                       ELSE FullPlan(row.address, row.netmask)
            /\ Asks("open", NoRow(row.name), OpenQuestions)
            /\ UNCHANGED <<endpoint, result>>
       ELSE EndsWith("plan") /\ UNCHANGED <<agenda, row>>
    /\ found' = row
    /\ UNCHANGED <<input, command, pending, candidates, host>>

Opened ==
    /\ Complete("open")
    /\ endpoint' = row.index
    /\ result' = "opened"
    /\ stage' = "done"
    /\ UNCHANGED <<input, command, reading, found, plan, host>>

\* Someone configures the interfaces of the host while the program runs.
HostChanges ==
    /\ stage # "done"
    /\ Table \in Changed
    /\ Len(past) <= MaxChanges
    /\ \E table \in Changed \ {Table} : past' = Append(past, table)
    /\ UNCHANGED <<input, stage, command, reading, found, outcome, faults>>

Next ==
    \/ ParseLine \/ VendorsRefused \/ MakeCommand \/ CheckRefuses
    \/ CallAnswered \/ CallRefused
    \/ ResolveExplicit \/ Enumerate \/ LookAtNext \/ KeepCandidate
    \/ EnumerationEnds \/ Chosen
    \/ MakePlan \/ Opened
    \/ HostChanges

Spec == Init /\ [][Next]_vars
-----------------------------------------------------------------------------
(* Properties *)

Run == command # None /\ command.kind # "list"
Scanning == command # None /\ command.kind = "scan"

\* Type invariant.
TypeOK ==
    /\ platform \in Platform
    /\ stage \in {"parse", "convert", "check", "resolve", "enumerate", "candidate",
                  "perform", "open", "done"}
    /\ command # None => command.kind = line.kind
    /\ row.name \in Name \cup InvalidName \cup {None}
    /\ \A i \in DOMAIN candidates : candidates[i].name \in Name
    /\ found # None => found.name \in Name /\ {found.address, found.netmask} \subseteq Address
    /\ plan # None => Range(plan.targets) \subseteq Address
    /\ endpoint \in Nat \cup {None}
    /\ result \in Verdict \cup {None}
    /\ (result # None) <=> (stage = "done")
    /\ Len(past) <= MaxChanges + 1
    /\ faults \in 0 .. MaxFaults

\* The reference for a subnet: the addresses that agree with the interface's in the
\* first p bits, without the first and the last of them.
PrefixMask(p) == 2 ^ Width - 2 ^ (Width - p)
Interior(address, p) ==
    LET block == {a \in Address : a \div 2 ^ (Width - p) = address \div 2 ^ (Width - p)}
    IN  block \ {Min(block), Max(block)}

\* A scan is planned for exactly the masks that are a prefix and leave two hosts, and a
\* probe for exactly the targets that the full scan probes inside the subnet
\* (DECISIONS.md:105); what is probed is what is accepted as a sender, each once
\* (README.md:19).  About ipv4_subnet.rs, ipv4_cidr.rs and scanner.rs:38.
ProbesWhatItAccepts ==
    Scanning /\ found # None =>
        LET prefixes == {p \in 0 .. Width - 2 : found.netmask = PrefixMask(p)}
            interior == UNION {Interior(found.address, p) : p \in prefixes}
            probed == IF Given(command.host) THEN {command.host}
                      ELSE interior \cup {found.address}
        IN  /\ plan # None <=> prefixes # {} /\ (Given(command.host) => command.host \in interior)
            /\ plan # None =>
                /\ Range(plan.targets) = probed
                /\ {a \in Address : Accepts(plan.acceptance, a)} = probed
                /\ IsInjective(plan.targets)

\* When no call fails and the interfaces stay as they are, the listing is the usable
\* interfaces in the order of their indexes, and a scan or a monitor goes by the
\* addresses of the given interface, or of the only usable one, and listens there; it
\* opens nothing otherwise.  The same on both platforms (README.md:17, README.md:23).
\* About the discovery of linux_interface_discovery.rs and macos_interface_discovery.rs.
EndsAsFound ==
    stage = "done" /\ faults = 0 /\ Len(past) = 1 =>
        LET usable == UsableNames(Table)
            wanted == IF Run /\ Given(command.interface) THEN {command.interface} ELSE usable
            served == Run /\ Refusal = None /\ wanted \subseteq usable /\ Cardinality(wanted) = 1
        IN  /\ endpoint # None => served
            /\ served =>
                LET name == CHOOSE n \in wanted : TRUE
                    interface == Table[name]
                    first == interface.ipv4[1]
                IN  /\ endpoint # None <=> PlanAccepted(first.address, first.netmask)
                    /\ endpoint # None =>
                        /\ found.name = name
                        /\ endpoint = interface.index
                        /\ <<found.address, found.netmask>> = <<first.address, first.netmask>>
                        /\ found.hardware = interface.hardware
                        /\ command.kind = "monitor" =>
                            found.locals = Addresses(interface)
            /\ command # None /\ ~Run /\ platform # "other" =>
                /\ Len(candidates) = Cardinality(usable)
                /\ {c.name : c \in Range(candidates)} = usable
                /\ \A i, j \in DOMAIN candidates :
                    i < j => candidates[i].index < candidates[j].index

\* A call that fails hides one interface and misleads about no other: as long as the
\* interfaces stay as they are, an endpoint is open on a usable interface, which is the
\* given one or was taken for the only one by no more failures than there are others; a
\* listing has only usable interfaces and lacks no more than calls failed; and nothing is
\* called ambiguous that is not.  About the loops of linux_interface_discovery.rs:224 and
\* macos_interface_discovery.rs, which go on past an interface that is refused.
FailuresOnlyHide ==
    stage = "done" /\ Len(past) = 1 =>
        LET usable == UsableNames(Table)
            wanted == IF Run /\ Given(command.interface) THEN {command.interface} ELSE usable
        IN  /\ endpoint # None =>
                found.name \in wanted \cap usable /\ Cardinality(wanted) <= faults + 1
            /\ result = "noneFound" => Cardinality(usable) <= faults
            /\ result = "ambiguous" => Cardinality(usable) > 1
            /\ result = "listed" =>
                /\ {c.name : c \in Range(candidates)} \subseteq usable
                /\ Cardinality(usable) <= Len(candidates) + faults

\* However the interfaces change meanwhile, what the endpoint listens on is what had the
\* chosen name after its addresses were read, each of them was true of that name at a
\* moment of its own, in the order in which they are asked, on macOS all at one moment,
\* and the interface could be scanned when it was opened (Linux) or read (macOS).
\* About linux_scanner.rs:57 and linux_socket.rs:228.
OneInterface ==
    endpoint # None =>
        LET moments == {i \in DOMAIN past : past[i][found.name] # Absent}
            at(i) == past[i][found.name]
        IN  \E i, j, k, l, m \in moments :
                /\ i <= j /\ j <= k /\ k <= l
                /\ platform = "macos" => i = k /\ m = k
                /\ platform = "linux" => l <= m
                /\ found.address = at(i).ipv4[1].address
                /\ found.netmask = at(j).ipv4[1].netmask
                /\ found.hardware = at(k).hardware
                /\ endpoint = at(l).index
                /\ FlagsAllow(at(m).flags)

\* A line that the parser accepts is never refused later for its tags, for its padding
\* only with --llc (whose header the parser does not count), for its timing only when a
\* rate was asked for, and nothing panics on it (DECISIONS.md:134, the `expect`s of
\* main.rs:54 and main.rs:141).  About cli.rs:100 against application_command.rs:234.
ParsedLinesConvert ==
    line.kind = "scan" =>
        /\ result \notin {"panic", "tags"}
        /\ result = "clientData" => line.llc
        /\ result = "timing" => Given(line.bandwidth) \/ Given(line.interval)
=============================================================================
