----------------------------- MODULE ArpCapture -----------------------------
(***************************************************************************)
(* A request on its way out and frames on their way in: the options are    *)
(* validated, an endpoint is opened for them, the request is encoded and   *)
(* sent, and frames of the network pass what the platform puts before the  *)
(* parser.  On Linux the kernel takes the outermost tag off and matches    *)
(* the capture protocol the endpoint bound; on macOS the program           *)
(* ARP_CAPTURE_FILTER runs over the frame, instruction by instruction.     *)
(***************************************************************************)
EXTENDS ArpFrames

CONSTANTS
    Platforms,     \* a subset of {"linux", "macos"}
    Wires,         \* wire options a scan may be asked for
    ForeignFrames  \* frames other stations may put on the network

\* Identifiers, priorities and 16-bit fields keep their widths.
Tag == [vid : {None} \cup 0 .. 2 ^ 12 - 1, pcp : 0 .. 7, dei : BOOLEAN]
Halfwords == 0 .. 2 ^ 16 - 1
WireOptions == [vlan : Tag, svlan : Tag, llc : BOOLEAN, padding : Nat, hrd : Halfwords,
                pro : Halfwords, lengths : Halfwords, op : Halfwords]
Frame == [fields : Seq(Halfwords), octets : Nat]

ASSUME PlatformAssumption ==
    /\ Platforms \subseteq {"linux", "macos"}
    /\ \A w \in Wires : w \in WireOptions
    /\ \A f \in ForeignFrames : f \in Frame

VARIABLES
    platform, \* the platform the scan runs on
    wire,     \* the options of the scan
    stage,    \* "asked", "rejected", "opened", "listening", "filtering",
              \* "captured" or "dropped"
    capture,  \* Linux: the protocol bound to the socket, or AllProtocols
    sendAs,   \* Linux: the protocol of the send destination
    request,  \* the request as encoded
    onWire,   \* the frame that arrived
    frame,    \* the frame as the parser gets it
    at,       \* macOS: the next instruction of the filter
    acc       \* macOS: the accumulator of the filter

filter == <<at, acc>>
vars == <<platform, wire, stage, capture, sendAs, request, onWire, frame, filter>>

AllProtocols == 3
Ieee8022 == 4
NoFrame == [fields |-> <<>>, octets |-> 0]
-----------------------------------------------------------------------------
(* The endpoint *)

\* Mutant of CaptureProtocol: SNAP replies are not thought of.
CaptureProtocolTagsOnly(w) ==
    IF {w.vlan.vid, w.svlan.vid} # {None} THEN AllProtocols ELSE ARP

CaptureProtocol(w) ==
    IF {w.vlan.vid, w.svlan.vid} # {None} \/ w.llc THEN AllProtocols ELSE ARP

\* Mutant of SendProtocol: every tagged frame is announced as 802.1Q.
SendProtocolCustomer(w) ==
    IF TagStack(w) # <<>> THEN CTag ELSE IF w.llc THEN Ieee8022 ELSE ARP

SendProtocol(w) ==
    IF TagStack(w) # <<>> THEN OuterTag(TagStack(w))
    ELSE IF w.llc THEN Ieee8022 ELSE ARP

\* The frame a packet socket gets: the outermost tag has been taken off.
Untagged(f) ==
    IF Type(f, 0) \in {CTag, STag}
    THEN [fields |-> SubSeq(f.fields, 3, Len(f.fields)), octets |-> f.octets - 4]
    ELSE f

\* The protocol a frame is delivered under.
Delivered(f) == IF IsEthernetII(f, 0) THEN Type(f, 0) ELSE Ieee8022

\* ARP_CAPTURE_FILTER, instruction k at place k + 1.
Load2(offset) == [op |-> "load", width |-> 2, offset |-> offset]
Load4(offset) == [op |-> "load", width |-> 4, offset |-> offset]
IfEqual(k, t, f) == [op |-> "equal", k |-> k, t |-> t, f |-> f]
IfAbove(k, t, f) == [op |-> "above", k |-> k, t |-> t, f |-> f]
Return(k) == [op |-> "return", k |-> k]

LLC == <<\hAAAA, \h0300>>
SnapArp == <<0, ARP>>

ArpCaptureFilter ==
    <<Load2(TypeOffset(0)),
      IfEqual(<<ARP>>, 24, 0), IfEqual(<<CTag>>, 6, 0), IfEqual(<<STag>>, 12, 0),
      IfAbove(MaximumLength, 20, 0),
      Load4(TypeOffset(0) + 2), IfEqual(LLC, 0, 18),
      Load4(TypeOffset(0) + 6), IfEqual(SnapArp, 17, 16),
      Load2(TypeOffset(1)),
      IfEqual(<<ARP>>, 15, 0), IfAbove(MaximumLength, 13, 0),
      Load4(TypeOffset(1) + 2), IfEqual(LLC, 0, 11),
      Load4(TypeOffset(1) + 6), IfEqual(SnapArp, 10, 9),
      Load2(TypeOffset(1)), IfEqual(<<CTag>>, 0, 7),
      Load2(TypeOffset(2)),
      IfEqual(<<ARP>>, 6, 0), IfAbove(MaximumLength, 4, 0),
      Load4(TypeOffset(2) + 2), IfEqual(LLC, 0, 2),
      Load4(TypeOffset(2) + 6), IfEqual(SnapArp, 1, 0),
      Return("drop"), Return("accept")>>
-----------------------------------------------------------------------------
Init ==
    /\ platform \in Platforms
    /\ wire \in Wires
    /\ stage = "asked"
    /\ capture = 0
    /\ sendAs = 0
    /\ request = NoFrame
    /\ onWire = NoFrame
    /\ frame = NoFrame
    /\ at = 0
    /\ acc = <<0>>

\* The options cannot be encoded: nothing is opened.
Reject ==
    /\ stage = "asked"
    /\ ~Encodable(wire)
    /\ stage' = "rejected"
    /\ UNCHANGED <<platform, wire, capture, sendAs, request, onWire, frame, filter>>

\* open_linux_link_layer_endpoint: the protocols are chosen from the options.
\* The BPF device has one filter for all of them.
Open ==
    /\ stage = "asked"
    /\ Encodable(wire)
    /\ stage' = "opened"
    /\ IF platform = "linux"
       THEN capture' = CaptureProtocol(wire) /\ sendAs' = SendProtocol(wire)
       ELSE UNCHANGED <<capture, sendAs>>
    /\ UNCHANGED <<platform, wire, request, onWire, frame, filter>>

Send ==
    /\ stage = "opened"
    /\ request' = EncodedRequest(wire)
    /\ stage' = "listening"
    /\ UNCHANGED <<platform, wire, capture, sendAs, onWire, frame, filter>>
-----------------------------------------------------------------------------
(* The network, and what the platform does before the parser *)

\* The answer of a station that keeps to the framing it was asked in.
MirroredReply(w) ==
    EncodedRequest([w EXCEPT !.op = Reply, !.hrd = 1, !.pro = IPv4,
                             !.lengths = \h0604, !.padding = 0])

FrameArrives ==
    /\ stage = "listening"
    /\ onWire' \in {MirroredReply(wire)} \cup ForeignFrames
    /\ at' = 0
    /\ acc' = <<0>>
    /\ \/ /\ platform = "macos"
          /\ frame' = onWire'
          /\ stage' = "filtering"
       \/ /\ platform = "linux"
          /\ frame' = Untagged(onWire')
          /\ stage' = IF capture \in {AllProtocols, Delivered(frame')}
                      THEN "captured" ELSE "dropped"
    /\ UNCHANGED <<platform, wire, capture, sendAs, request>>

Instruction == ArpCaptureFilter[at + 1]

\* A load past the end of the frame ends the filter, dropping the frame.
FilterLoad ==
    /\ stage = "filtering"
    /\ Instruction.op = "load"
    /\ LET offset == Instruction.offset
           width  == Instruction.width
       IN IF offset + width <= frame.octets
          THEN /\ acc' = [k \in 1 .. width \div 2 |-> Halfword(frame, offset + 2 * (k - 1))]
               /\ at' = at + 1
               /\ UNCHANGED stage
          ELSE /\ stage' = "dropped"
               /\ UNCHANGED filter
    /\ UNCHANGED <<platform, wire, capture, sendAs, request, onWire, frame>>

FilterJump ==
    /\ stage = "filtering"
    /\ \/ /\ Instruction.op = "equal"
          /\ at' = at + 1 + IF acc = Instruction.k THEN Instruction.t ELSE Instruction.f
       \/ /\ Instruction.op = "above"
          /\ at' = at + 1 + IF acc[1] > Instruction.k THEN Instruction.t ELSE Instruction.f
    /\ UNCHANGED <<platform, wire, stage, capture, sendAs, request, onWire, frame, acc>>

FilterReturn ==
    /\ stage = "filtering"
    /\ Instruction.op = "return"
    /\ stage' = IF Instruction.k = "accept" THEN "captured" ELSE "dropped"
    /\ UNCHANGED <<platform, wire, capture, sendAs, request, onWire, frame, filter>>

\* The frame is read, or was dropped, and the endpoint waits for the next.
Continue ==
    /\ stage \in {"captured", "dropped"}
    /\ stage' = "listening"
    /\ onWire' = NoFrame
    /\ frame' = NoFrame
    /\ at' = 0
    /\ acc' = <<0>>
    /\ UNCHANGED <<platform, wire, capture, sendAs, request>>

Rejected ==
    /\ stage = "rejected"
    /\ UNCHANGED vars

Next ==
    \/ Reject \/ Open \/ Send
    \/ FrameArrives \/ FilterLoad \/ FilterJump \/ FilterReturn
    \/ Continue \/ Rejected

Spec == Init /\ [][Next]_vars
-----------------------------------------------------------------------------
(* Properties *)

Sent == stage \in {"listening", "filtering", "captured", "dropped"}

\* The filter admits exactly the frames in which the parser finds ARP: all
\* framings and tag arrangements, at every length the frame may be cut to
\* (docs/macos-platform.md:16).
FilterAdmitsExactlyArp ==
    platform = "macos" =>
        /\ stage = "captured" => IsArp(frame)
        /\ stage = "dropped" => ~IsArp(frame)

\* A reply in the framing of the request reaches the parser and is a reply to
\* it, whatever options were accepted: capture protocol, the tag the kernel
\* takes off, filter and parser together leave no framing deaf.
MirroredReplyRead ==
    onWire = MirroredReply(wire) =>
        /\ stage # "dropped"
        /\ stage = "captured" => Kind(frame) = "reply"

\* What was sent reads back as what was asked for: the tags in their places with
\* all bits, the framing, the operation, and a length field that covers the
\* client data and nothing of the minimum padding.
RequestReadsBack ==
    Sent =>
        \E p \in Parsed(request) :
            /\ p.etherType = ARP
            /\ p.snap = wire.llc
            /\ Len(p.tags) = Len(TagStack(wire))
            /\ p.tags # <<>> => p.tags[Len(p.tags)] = wire.vlan
            /\ Len(p.tags) = 2 => p.tags[1] = wire.svlan
            /\ Opcode(request, p) = wire.op
            /\ p.snap => LET type == TypeOffset(Len(p.tags))
                         IN type + 2 + Halfword(request, type)
                                = p.payload + ArpOctets + wire.padding
            /\ p.payload + ArpOctets + wire.padding <= request.octets

\* Linux: the protocol of the send destination is the outermost length/type
\* value on the wire, where that is a type (linux_socket.rs:120).
SendProtocolOnWire ==
    Sent /\ platform = "linux" => sendAs = Delivered(request)
=============================================================================
