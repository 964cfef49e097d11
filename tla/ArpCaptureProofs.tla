-------------------------- MODULE ArpCaptureProofs --------------------------
(***************************************************************************)
(* For all options of a scan and all frames of the network: the filter     *)
(* program of macOS admits exactly the frames in which the parser finds    *)
(* ARP, a reply in the framing of the request reaches the parser and reads *)
(* as a reply on both platforms, what is sent reads back as what was asked *)
(* for, and the protocol a request is sent under is the one on the wire.   *)
(* The filter is followed instruction by instruction: with each goes what  *)
(* the way to it says of the frame.                                        *)
(***************************************************************************)
EXTENDS ArpCapture, TLAPS

(* Numbers of fixed width *)

\* The powers of two that fields are put together with.
LEMMA Powers == 2 ^ 12 = 4096 /\ 2 ^ 13 = 8192 /\ 2 ^ 16 = 65536
OBVIOUS

\* The numbers of sixteen bits, without the power.
LEMMA HalfwordRange == \A x : x \in Halfwords <=> x \in Nat /\ x <= 65535
BY Powers DEF Halfwords

(* What the parser finds *)

\* A field of a frame is a halfword; those that are not listed are zero.
LEMMA FieldsAreHalfwords ==
    ASSUME NEW f \in Frame, NEW offset
    PROVE  Halfword(f, offset) \in Halfwords
<1> DEFINE k == (offset - 12) \div 2 + 1
<1>1. f.fields \in Seq(Halfwords)
  BY DEF Frame
<1>2. \A i \in DOMAIN f.fields : f.fields[i] \in Halfwords
  BY <1>1
<1>3. 0 \in Halfwords
  BY HalfwordRange
<1>4. Halfword(f, offset) = IF k \in DOMAIN f.fields THEN f.fields[k] ELSE 0
  BY DEF Halfword
<1> HIDE DEF k
<1>5. CASE k \in DOMAIN f.fields
  BY <1>2, <1>4, <1>5, Zenon
<1>6. CASE k \notin DOMAIN f.fields
  BY <1>3, <1>4, <1>6, Zenon
<1> QED
  BY <1>5, <1>6

\* ARP in one of its two framings, with the length/type field at octet o.
ArpAt(f, o) ==
    /\ o + 2 <= f.octets
    /\ \/ Halfword(f, o) = ARP
       \/ /\ Halfword(f, o) <= MaximumLength
          /\ o + 10 <= f.octets
          /\ Halfword(f, o + 2) = \hAAAA
          /\ Halfword(f, o + 4) = \h0300
          /\ Halfword(f, o + 6) = 0
          /\ Halfword(f, o + 8) = ARP

\* Where the length/type field is behind no, one and two tags.
LEMMA Offsets == TypeOffset(0) = 12 /\ TypeOffset(1) = 16 /\ TypeOffset(2) = 20
BY DEF TypeOffset

\* What the parser takes for ARP behind n tags is ARP at that place, since no
\* type of a tag is a length or ARP.
LEMMA ArpBehindTags ==
    ASSUME NEW f \in Frame, NEW n, NEW o \in Nat, TypeOffset(n) = o
    PROVE  /\ HasType(f, n)
           /\ Type(f, n) \notin AnyTag
           /\ \/ IsEthernetII(f, n) /\ Type(f, n) = ARP
              \/ IsSnap(f, n) /\ Halfword(f, TypeOffset(n) + SnapOctets) = ARP
           <=> ArpAt(f, o)
<1> DEFINE t == Halfword(f, o)
           snap == /\ Halfword(f, o + 2) = \hAAAA
                   /\ Halfword(f, o + 4) = \h0300
                   /\ Halfword(f, o + 6) = 0
<1>0. TypeOffset(n) = o
  OBVIOUS
<1>1. t \in Halfwords
  BY FieldsAreHalfwords
<1>2. Type(f, n) = t
  BY <1>0, Zenon DEF Type
<1>3. ArpAt(f, o) <=>
        /\ o + 2 <= f.octets
        /\ \/ t = ARP
           \/ /\ t <= MaximumLength
              /\ o + 10 <= f.octets
              /\ snap
              /\ Halfword(f, o + 8) = ARP
  BY DEF ArpAt
<1>4. (\A k \in 1 .. 3 : Halfword(f, o + 2 * k) = SnapPrefix[k]) <=> snap
  <2> DEFINE Field(k) == Halfword(f, o + 2 * k) = SnapPrefix[k]
  <2>1. \A k : k \in 1 .. 3 <=> k = 1 \/ k = 2 \/ k = 3
    OBVIOUS
  <2>2. SnapPrefix[1] = \hAAAA /\ SnapPrefix[2] = \h0300 /\ SnapPrefix[3] = 0
    BY DEF SnapPrefix
  <2>3. 2 * 1 = 2 /\ 2 * 2 = 4 /\ 2 * 3 = 6
    OBVIOUS
  <2>4. Field(1) /\ Field(2) /\ Field(3) <=> snap
    BY <2>2, <2>3
  <2>5. (\A k \in 1 .. 3 : Field(k)) <=> Field(1) /\ Field(2) /\ Field(3)
    <3> HIDE DEF Field
    <3> QED
      BY <2>1, Zenon
  <2> HIDE DEF snap
  <2> QED
    BY <2>4, <2>5
<1> HIDE DEF t, snap
<1>5. t = ARP \/ t <= MaximumLength => t \notin AnyTag
  BY <1>1, HalfwordRange DEF ARP, MaximumLength, AnyTag, UnofficialTags, CTag, STag
<1>6. HasType(f, n) <=> o + 2 <= f.octets
  BY <1>0, Zenon DEF HasType
<1>7. t = ARP => IsEthernetII(f, n)
  BY <1>2 DEF IsEthernetII, MinimumEtherType, ARP
<1>8. o + 2 + SnapOctets = o + 10 /\ o + SnapOctets = o + 8
  BY DEF SnapOctets
<1>9. IsSnap(f, n) <=> t <= MaximumLength /\ o + 10 <= f.octets /\ snap
  <2>1. IsSnap(f, n) <=>
           /\ t <= MaximumLength
           /\ o + 2 + SnapOctets <= f.octets
           /\ \A k \in 1 .. 3 : Halfword(f, o + 2 * k) = SnapPrefix[k]
    BY <1>0, <1>2, SMT DEF IsSnap
  <2> QED
    BY <2>1, <1>4, <1>8, Zenon
<1>10. Halfword(f, TypeOffset(n) + SnapOctets) = Halfword(f, o + 8)
  BY <1>0, <1>8, Zenon
<1> QED
  BY <1>2, <1>3, <1>5, <1>6, <1>7, <1>9, <1>10, Zenon

\* Where IsArp looks: the two sets that Parsed is made of.
LEMMA ArpParsed ==
    ASSUME NEW f
    PROVE  IsArp(f) <=> \E n \in 0 .. 2 :
                /\ TagsAccepted(f, n)
                /\ \/ IsEthernetII(f, n) /\ Type(f, n) = ARP
                   \/ IsSnap(f, n) /\ Halfword(f, TypeOffset(n) + SnapOctets) = ARP
<1> DEFINE Tags(n) == [i \in 1 .. n |-> TagOf(Halfword(f, 10 + 4 * i))]
           Plain(n) == [tags |-> Tags(n), snap |-> FALSE, etherType |-> Type(f, n),
                        payload |-> TypeOffset(n) + 2]
           Snap(n) == [tags |-> Tags(n), snap |-> TRUE,
                       etherType |-> Halfword(f, TypeOffset(n) + SnapOctets),
                       payload |-> TypeOffset(n) + 2 + SnapOctets]
           Plains == {n \in 0 .. 2 : TagsAccepted(f, n) /\ IsEthernetII(f, n)}
           Snaps == {n \in 0 .. 2 : TagsAccepted(f, n) /\ IsSnap(f, n)}
<1>1. Parsed(f) = {Plain(n) : n \in Plains} \cup {Snap(n) : n \in Snaps}
  BY DEF Parsed
<1>2. \A n : Plain(n).etherType = Type(f, n)
  BY Zenon
<1>3. \A n : Snap(n).etherType = Halfword(f, TypeOffset(n) + SnapOctets)
  BY Zenon
<1>4. \A n : n \in Plains <=> n \in 0 .. 2 /\ TagsAccepted(f, n) /\ IsEthernetII(f, n)
  BY Zenon
<1>5. \A n : n \in Snaps <=> n \in 0 .. 2 /\ TagsAccepted(f, n) /\ IsSnap(f, n)
  BY Zenon
<1> HIDE DEF Plain, Snap, Plains, Snaps
<1>6. IsArp(f) <=> (\E n \in Plains : Plain(n).etherType = ARP) \/ (\E n \in Snaps : Snap(n).etherType = ARP)
  BY <1>1, Zenon DEF IsArp
<1> QED
  BY <1>2, <1>3, <1>4, <1>5, <1>6, Zenon

\* ARP is found behind no tag, a customer tag, or a service and a customer tag.
LEMMA ArpFound ==
    ASSUME NEW f \in Frame
    PROVE  IsArp(f) <=>
             \/ ArpAt(f, 12)
             \/ Halfword(f, 12) = CTag /\ ArpAt(f, 16)
             \/ Halfword(f, 12) = STag /\ Halfword(f, 16) = CTag /\ ArpAt(f, 20)
<1> DEFINE Found(n) == \/ IsEthernetII(f, n) /\ Type(f, n) = ARP
                       \/ IsSnap(f, n) /\ Halfword(f, TypeOffset(n) + SnapOctets) = ARP
<1>1. \A n : n \in 0 .. 2 <=> n = 0 \/ n = 1 \/ n = 2
  OBVIOUS
<1>2. Type(f, 0) = Halfword(f, 12) /\ Type(f, 1) = Halfword(f, 16)
  BY Offsets DEF Type
<1>3. /\ HasType(f, 0) /\ Type(f, 0) \notin AnyTag /\ Found(0) <=> ArpAt(f, 12)
      /\ HasType(f, 1) /\ Type(f, 1) \notin AnyTag /\ Found(1) <=> ArpAt(f, 16)
      /\ HasType(f, 2) /\ Type(f, 2) \notin AnyTag /\ Found(2) <=> ArpAt(f, 20)
  <2>1. 12 \in Nat /\ 16 \in Nat /\ 20 \in Nat
    OBVIOUS
  <2> QED
    BY <2>1, ArpBehindTags, Offsets, Zenon
<1>4. 0 # 1 /\ 0 # 2 /\ 1 # 2
  OBVIOUS
<1>5. IsArp(f) <=> \E n \in 0 .. 2 : TagsAccepted(f, n) /\ Found(n)
  BY ArpParsed, Zenon
<1> HIDE DEF Found
<1>6. IsArp(f) <=> \/ TagsAccepted(f, 0) /\ Found(0)
                   \/ TagsAccepted(f, 1) /\ Found(1)
                   \/ TagsAccepted(f, 2) /\ Found(2)
  BY <1>1, <1>5, Zenon
<1>7. TagsAccepted(f, 0) <=> HasType(f, 0) /\ Type(f, 0) \notin AnyTag
  BY <1>4, Zenon DEF TagsAccepted
<1>8. TagsAccepted(f, 1) <=> HasType(f, 1) /\ Type(f, 0) = CTag /\ Type(f, 1) \notin AnyTag
  BY <1>4, Zenon DEF TagsAccepted
<1>9. TagsAccepted(f, 2) <=> /\ HasType(f, 2) /\ Type(f, 0) = STag /\ Type(f, 1) = CTag
                             /\ Type(f, 2) \notin AnyTag
  BY <1>4, Zenon DEF TagsAccepted
<1> QED
  BY <1>2, <1>3, <1>6, <1>7, <1>8, <1>9, Zenon
-----------------------------------------------------------------------------
(* The filter *)

\* What the filter knows when it has read, or seen, the parts of a framing with
\* its length/type field at octet o.
TypeRead(f, a, o) == o + 2 <= f.octets /\ a = <<Halfword(f, o)>>
LengthSeen(f, o) == o + 2 <= f.octets /\ Halfword(f, o) <= MaximumLength
LlcRead(f, a, o) == o + 6 <= f.octets /\ a = <<Halfword(f, o + 2), Halfword(f, o + 4)>>
LlcSeen(f, o) == Halfword(f, o + 2) = \hAAAA /\ Halfword(f, o + 4) = \h0300
SnapRead(f, a, o) == o + 10 <= f.octets /\ a = <<Halfword(f, o + 6), Halfword(f, o + 8)>>

\* What the way to instruction k says of frame f, with a in the accumulator.
Way(f, k, a) ==
    /\ k \in 1 .. 4   => TypeRead(f, a, 12)
    /\ k \in 2 .. 4   => Halfword(f, 12) # ARP
    /\ k \in 3 .. 4   => Halfword(f, 12) # CTag
    /\ k = 4          => Halfword(f, 12) # STag
    /\ k \in 5 .. 8   => LengthSeen(f, 12)
    /\ k = 6          => LlcRead(f, a, 12)
    /\ k \in 7 .. 8   => LlcSeen(f, 12)
    /\ k = 8          => SnapRead(f, a, 12)
    /\ k \in 9 .. 15  => Halfword(f, 12) = CTag
    /\ k \in 10 .. 11 => TypeRead(f, a, 16)
    /\ k = 11         => Halfword(f, 16) # ARP
    /\ k \in 12 .. 15 => LengthSeen(f, 16)
    /\ k = 13         => LlcRead(f, a, 16)
    /\ k \in 14 .. 15 => LlcSeen(f, 16)
    /\ k = 15         => SnapRead(f, a, 16)
    /\ k \in 16 .. 24 => Halfword(f, 12) = STag
    /\ k = 17         => TypeRead(f, a, 16)
    /\ k \in 18 .. 24 => Halfword(f, 16) = CTag
    /\ k \in 19 .. 20 => TypeRead(f, a, 20)
    /\ k = 20         => Halfword(f, 20) # ARP
    /\ k \in 21 .. 24 => LengthSeen(f, 20)
    /\ k = 22         => LlcRead(f, a, 20)
    /\ k \in 23 .. 24 => LlcSeen(f, 20)
    /\ k = 24         => SnapRead(f, a, 20)
    /\ k = 25         => ~IsArp(f)
    /\ k = 26         => IsArp(f)

\* The program, with its offsets worked out.
LEMMA FilterText ==
    /\ ArpCaptureFilter[1] = Load2(12) /\ ArpCaptureFilter[10] = Load2(16)
    /\ ArpCaptureFilter[17] = Load2(16) /\ ArpCaptureFilter[19] = Load2(20)
    /\ ArpCaptureFilter[6] = Load4(14) /\ ArpCaptureFilter[8] = Load4(18)
    /\ ArpCaptureFilter[13] = Load4(18) /\ ArpCaptureFilter[15] = Load4(22)
    /\ ArpCaptureFilter[22] = Load4(22) /\ ArpCaptureFilter[24] = Load4(26)
    /\ ArpCaptureFilter[2] = IfEqual(<<ARP>>, 24, 0)
    /\ ArpCaptureFilter[3] = IfEqual(<<CTag>>, 6, 0)
    /\ ArpCaptureFilter[4] = IfEqual(<<STag>>, 12, 0)
    /\ ArpCaptureFilter[5] = IfAbove(MaximumLength, 20, 0)
    /\ ArpCaptureFilter[7] = IfEqual(LLC, 0, 18)
    /\ ArpCaptureFilter[9] = IfEqual(SnapArp, 17, 16)
    /\ ArpCaptureFilter[11] = IfEqual(<<ARP>>, 15, 0)
    /\ ArpCaptureFilter[12] = IfAbove(MaximumLength, 13, 0)
    /\ ArpCaptureFilter[14] = IfEqual(LLC, 0, 11)
    /\ ArpCaptureFilter[16] = IfEqual(SnapArp, 10, 9)
    /\ ArpCaptureFilter[18] = IfEqual(<<CTag>>, 0, 7)
    /\ ArpCaptureFilter[20] = IfEqual(<<ARP>>, 6, 0)
    /\ ArpCaptureFilter[21] = IfAbove(MaximumLength, 4, 0)
    /\ ArpCaptureFilter[23] = IfEqual(LLC, 0, 2)
    /\ ArpCaptureFilter[25] = IfEqual(SnapArp, 1, 0)
    /\ ArpCaptureFilter[26] = Return("drop") /\ ArpCaptureFilter[27] = Return("accept")
<1>1. TypeOffset(0) + 2 = 14 /\ TypeOffset(0) + 6 = 18 /\ TypeOffset(1) + 2 = 18
      /\ TypeOffset(1) + 6 = 22 /\ TypeOffset(2) + 2 = 22 /\ TypeOffset(2) + 6 = 26
  BY Offsets
<1> QED
  BY <1>1, Offsets DEF ArpCaptureFilter

\* What a load leaves in the accumulator, one halfword or two.
Loaded(f, offset, width) ==
    [k \in 1 .. width \div 2 |-> Halfword(f, offset + 2 * (k - 1))]

\* A load of the filter program of two or four octets is of one or two halfwords.
LEMMA LoadedHalfwords ==
    ASSUME NEW f, NEW offset \in Nat
    PROVE  /\ Loaded(f, offset, 2) = <<Halfword(f, offset)>>
           /\ Loaded(f, offset, 4) = <<Halfword(f, offset), Halfword(f, offset + 2)>>
<1> DEFINE h(o) == Halfword(f, o)
<1>1. 2 \div 2 = 1 /\ 4 \div 2 = 2 /\ 1 .. 1 = {1} /\ 1 .. 2 = {1, 2}
  OBVIOUS
<1>2. offset + 2 * (1 - 1) = offset /\ offset + 2 * (2 - 1) = offset + 2
  OBVIOUS
<1>3. Loaded(f, offset, 2) = [k \in {1} |-> h(offset + 2 * (k - 1))]
  BY <1>1 DEF Loaded
<1>4. Loaded(f, offset, 4) = [k \in {1, 2} |-> h(offset + 2 * (k - 1))]
  BY <1>1 DEF Loaded
<1> HIDE DEF h
<1>5. Loaded(f, offset, 2) = <<h(offset)>>
  BY <1>1, <1>2, <1>3
<1>6. Loaded(f, offset, 4) = <<h(offset), h(offset + 2)>>
  BY <1>1, <1>2, <1>4
<1> QED
  BY <1>5, <1>6 DEF h

\* The place of an instruction, and the instruction, one by one.
LEMMA LoadsAt ==
    ASSUME NEW k \in 0 .. 26, ArpCaptureFilter[k + 1].op = "load"
    PROVE  LET i == ArpCaptureFilter[k + 1]
           IN \/ k = 0 /\ i.offset = 12 /\ i.width = 2
              \/ k = 5 /\ i.offset = 14 /\ i.width = 4
              \/ k = 7 /\ i.offset = 18 /\ i.width = 4
              \/ k = 9 /\ i.offset = 16 /\ i.width = 2
              \/ k = 12 /\ i.offset = 18 /\ i.width = 4
              \/ k = 14 /\ i.offset = 22 /\ i.width = 4
              \/ k = 16 /\ i.offset = 16 /\ i.width = 2
              \/ k = 18 /\ i.offset = 20 /\ i.width = 2
              \/ k = 21 /\ i.offset = 22 /\ i.width = 4
              \/ k = 23 /\ i.offset = 26 /\ i.width = 4
<1>1. k \in {1, 2, 3, 4, 6, 8, 10, 11, 13, 15, 17, 19, 20, 22, 24, 25, 26}
        => ArpCaptureFilter[k + 1].op # "load"
  BY FilterText DEF IfEqual, IfAbove, Return
<1>2. /\ ArpCaptureFilter[1].offset = 12 /\ ArpCaptureFilter[1].width = 2
      /\ ArpCaptureFilter[6].offset = 14 /\ ArpCaptureFilter[6].width = 4
      /\ ArpCaptureFilter[8].offset = 18 /\ ArpCaptureFilter[8].width = 4
      /\ ArpCaptureFilter[10].offset = 16 /\ ArpCaptureFilter[10].width = 2
      /\ ArpCaptureFilter[13].offset = 18 /\ ArpCaptureFilter[13].width = 4
      /\ ArpCaptureFilter[15].offset = 22 /\ ArpCaptureFilter[15].width = 4
      /\ ArpCaptureFilter[17].offset = 16 /\ ArpCaptureFilter[17].width = 2
      /\ ArpCaptureFilter[19].offset = 20 /\ ArpCaptureFilter[19].width = 2
      /\ ArpCaptureFilter[22].offset = 22 /\ ArpCaptureFilter[22].width = 4
      /\ ArpCaptureFilter[24].offset = 26 /\ ArpCaptureFilter[24].width = 4
  BY FilterText DEF Load2, Load4
<1> QED
  BY <1>1, <1>2

\* A load keeps to the way; a frame that is too short for it is not ARP.
LEMMA LoadKeepsWay ==
    ASSUME NEW f \in Frame, NEW k \in 0 .. 26, NEW a, Way(f, k, a),
           NEW i, i = ArpCaptureFilter[k + 1], i.op = "load"
    PROVE  /\ k + 1 \in 0 .. 26
           /\ i.offset + i.width <= f.octets => Way(f, k + 1, Loaded(f, i.offset, i.width))
           /\ ~(i.offset + i.width <= f.octets) => ~IsArp(f)
<1> USE DEF ARP, CTag, STag, MaximumLength
<1>1. \A o : Halfword(f, o) \in Nat
  <2>1. \A o : Halfword(f, o) \in Halfwords
    BY FieldsAreHalfwords
  <2>2. Halfwords \subseteq Nat
    BY HalfwordRange
  <2> QED
    BY <2>1, <2>2, Zenon
<1>2. f.octets \in Nat
  BY DEF Frame
<1>3. CASE k = 0 /\ i.offset = 12 /\ i.width = 2
  <2>1. Loaded(f, 12, 2) = <<Halfword(f, 12)>>
    BY LoadedHalfwords
  <2>2. 12 + 2 <= f.octets => Way(f, 1, Loaded(f, 12, 2))
    BY <1>1, <1>2, <1>3, <2>1 DEF Way, TypeRead, LengthSeen, LlcRead, LlcSeen, SnapRead
  <2>3. ~(12 + 2 <= f.octets) => ~IsArp(f)
    BY <1>1, <1>2, <1>3, ArpFound DEF Way, LengthSeen, ArpAt
  <2> QED
    BY <1>3, <2>2, <2>3
<1>4. CASE k = 5 /\ i.offset = 14 /\ i.width = 4
  <2>1. Loaded(f, 14, 4) = <<Halfword(f, 14), Halfword(f, 16)>>
    BY LoadedHalfwords
  <2>2. 14 + 4 <= f.octets => Way(f, 6, Loaded(f, 14, 4))
    BY <1>1, <1>2, <1>4, <2>1 DEF Way, TypeRead, LengthSeen, LlcRead, LlcSeen, SnapRead
  <2>3. ~(14 + 4 <= f.octets) => ~IsArp(f)
    BY <1>1, <1>2, <1>4, ArpFound DEF Way, LengthSeen, ArpAt
  <2> QED
    BY <1>4, <2>2, <2>3
<1>5. CASE k = 7 /\ i.offset = 18 /\ i.width = 4
  <2>1. Loaded(f, 18, 4) = <<Halfword(f, 18), Halfword(f, 20)>>
    BY LoadedHalfwords
  <2>2. 18 + 4 <= f.octets => Way(f, 8, Loaded(f, 18, 4))
    BY <1>1, <1>2, <1>5, <2>1 DEF Way, TypeRead, LengthSeen, LlcRead, LlcSeen, SnapRead
  <2>3. ~(18 + 4 <= f.octets) => ~IsArp(f)
    BY <1>1, <1>2, <1>5, ArpFound DEF Way, LengthSeen, ArpAt
  <2> QED
    BY <1>5, <2>2, <2>3
<1>6. CASE k = 9 /\ i.offset = 16 /\ i.width = 2
  <2>1. Loaded(f, 16, 2) = <<Halfword(f, 16)>>
    BY LoadedHalfwords
  <2>2. 16 + 2 <= f.octets => Way(f, 10, Loaded(f, 16, 2))
    BY <1>1, <1>2, <1>6, <2>1 DEF Way, TypeRead, LengthSeen, LlcRead, LlcSeen, SnapRead
  <2>3. ~(16 + 2 <= f.octets) => ~IsArp(f)
    BY <1>1, <1>2, <1>6, ArpFound DEF Way, LengthSeen, ArpAt
  <2> QED
    BY <1>6, <2>2, <2>3
<1>7. CASE k = 12 /\ i.offset = 18 /\ i.width = 4
  <2>1. Loaded(f, 18, 4) = <<Halfword(f, 18), Halfword(f, 20)>>
    BY LoadedHalfwords
  <2>2. 18 + 4 <= f.octets => Way(f, 13, Loaded(f, 18, 4))
    BY <1>1, <1>2, <1>7, <2>1 DEF Way, TypeRead, LengthSeen, LlcRead, LlcSeen, SnapRead
  <2>3. ~(18 + 4 <= f.octets) => ~IsArp(f)
    BY <1>1, <1>2, <1>7, ArpFound DEF Way, LengthSeen, ArpAt
  <2> QED
    BY <1>7, <2>2, <2>3
<1>8. CASE k = 14 /\ i.offset = 22 /\ i.width = 4
  <2>1. Loaded(f, 22, 4) = <<Halfword(f, 22), Halfword(f, 24)>>
    BY LoadedHalfwords
  <2>2. 22 + 4 <= f.octets => Way(f, 15, Loaded(f, 22, 4))
    BY <1>1, <1>2, <1>8, <2>1 DEF Way, TypeRead, LengthSeen, LlcRead, LlcSeen, SnapRead
  <2>3. ~(22 + 4 <= f.octets) => ~IsArp(f)
    BY <1>1, <1>2, <1>8, ArpFound DEF Way, LengthSeen, ArpAt
  <2> QED
    BY <1>8, <2>2, <2>3
<1>9. CASE k = 16 /\ i.offset = 16 /\ i.width = 2
  <2>1. Loaded(f, 16, 2) = <<Halfword(f, 16)>>
    BY LoadedHalfwords
  <2>2. 16 + 2 <= f.octets => Way(f, 17, Loaded(f, 16, 2))
    BY <1>1, <1>2, <1>9, <2>1 DEF Way, TypeRead, LengthSeen, LlcRead, LlcSeen, SnapRead
  <2>3. ~(16 + 2 <= f.octets) => ~IsArp(f)
    BY <1>1, <1>2, <1>9, ArpFound DEF Way, LengthSeen, ArpAt
  <2> QED
    BY <1>9, <2>2, <2>3
<1>10. CASE k = 18 /\ i.offset = 20 /\ i.width = 2
  <2>1. Loaded(f, 20, 2) = <<Halfword(f, 20)>>
    BY LoadedHalfwords
  <2>2. 20 + 2 <= f.octets => Way(f, 19, Loaded(f, 20, 2))
    BY <1>1, <1>2, <1>10, <2>1 DEF Way, TypeRead, LengthSeen, LlcRead, LlcSeen, SnapRead
  <2>3. ~(20 + 2 <= f.octets) => ~IsArp(f)
    BY <1>1, <1>2, <1>10, ArpFound DEF Way, LengthSeen, ArpAt
  <2> QED
    BY <1>10, <2>2, <2>3
<1>11. CASE k = 21 /\ i.offset = 22 /\ i.width = 4
  <2>1. Loaded(f, 22, 4) = <<Halfword(f, 22), Halfword(f, 24)>>
    BY LoadedHalfwords
  <2>2. 22 + 4 <= f.octets => Way(f, 22, Loaded(f, 22, 4))
    BY <1>1, <1>2, <1>11, <2>1 DEF Way, TypeRead, LengthSeen, LlcRead, LlcSeen, SnapRead
  <2>3. ~(22 + 4 <= f.octets) => ~IsArp(f)
    BY <1>1, <1>2, <1>11, ArpFound DEF Way, LengthSeen, ArpAt
  <2> QED
    BY <1>11, <2>2, <2>3
<1>12. CASE k = 23 /\ i.offset = 26 /\ i.width = 4
  <2>1. Loaded(f, 26, 4) = <<Halfword(f, 26), Halfword(f, 28)>>
    BY LoadedHalfwords
  <2>2. 26 + 4 <= f.octets => Way(f, 24, Loaded(f, 26, 4))
    BY <1>1, <1>2, <1>12, <2>1 DEF Way, TypeRead, LengthSeen, LlcRead, LlcSeen, SnapRead
  <2>3. ~(26 + 4 <= f.octets) => ~IsArp(f)
    BY <1>1, <1>2, <1>12, ArpFound DEF Way, LengthSeen, ArpAt
  <2> QED
    BY <1>12, <2>2, <2>3
<1> QED
  BY LoadsAt, <1>3, <1>4, <1>5, <1>6, <1>7, <1>8, <1>9, <1>10, <1>11, <1>12

\* Where the comparisons of the program lead.
LEMMA ComparisonsAt ==
    ASSUME NEW k \in 0 .. 26, ArpCaptureFilter[k + 1].op \in {"equal", "above"}
    PROVE  LET i == ArpCaptureFilter[k + 1]
           IN \/ k = 1 /\ i = IfEqual(<<ARP>>, 24, 0)
              \/ k = 2 /\ i = IfEqual(<<CTag>>, 6, 0)
              \/ k = 3 /\ i = IfEqual(<<STag>>, 12, 0)
              \/ k = 6 /\ i = IfEqual(LLC, 0, 18)
              \/ k = 8 /\ i = IfEqual(SnapArp, 17, 16)
              \/ k = 10 /\ i = IfEqual(<<ARP>>, 15, 0)
              \/ k = 13 /\ i = IfEqual(LLC, 0, 11)
              \/ k = 15 /\ i = IfEqual(SnapArp, 10, 9)
              \/ k = 17 /\ i = IfEqual(<<CTag>>, 0, 7)
              \/ k = 19 /\ i = IfEqual(<<ARP>>, 6, 0)
              \/ k = 22 /\ i = IfEqual(LLC, 0, 2)
              \/ k = 24 /\ i = IfEqual(SnapArp, 1, 0)
              \/ k = 4 /\ i = IfAbove(MaximumLength, 20, 0)
              \/ k = 11 /\ i = IfAbove(MaximumLength, 13, 0)
              \/ k = 20 /\ i = IfAbove(MaximumLength, 4, 0)
<1>1. k \in {0, 5, 7, 9, 12, 14, 16, 18, 21, 23, 25, 26}
        => ArpCaptureFilter[k + 1].op \notin {"equal", "above"}
  BY FilterText DEF Load2, Load4, Return
<1> QED
  BY <1>1, FilterText

\* Halfwords side by side are equal one by one.
LEMMA Tuples ==
    \A x, y, u, v : /\ <<x>> = <<y>> <=> x = y
                    /\ <<x, y>> = <<u, v>> <=> x = u /\ y = v
                    /\ <<x>>[1] = x
OBVIOUS

\* A comparison keeps to the way, whichever branch it takes.
LEMMA JumpKeepsWay ==
    ASSUME NEW f \in Frame, NEW k \in 0 .. 26, NEW a, Way(f, k, a),
           NEW i, i = ArpCaptureFilter[k + 1]
    PROVE  /\ i.op = "equal" => LET next == k + 1 + IF a = i.k THEN i.t ELSE i.f
                                IN next \in 0 .. 26 /\ Way(f, next, a)
           /\ i.op = "above" => LET next == k + 1 + IF a[1] > i.k THEN i.t ELSE i.f
                                IN next \in 0 .. 26 /\ Way(f, next, a)
<1> DEFINE Kept ==
      /\ i.op = "equal" => LET next == k + 1 + IF a = i.k THEN i.t ELSE i.f
                           IN next \in 0 .. 26 /\ Way(f, next, a)
      /\ i.op = "above" => LET next == k + 1 + IF a[1] > i.k THEN i.t ELSE i.f
                           IN next \in 0 .. 26 /\ Way(f, next, a)
<1> SUFFICES Kept
  OBVIOUS
<1> USE DEF ARP, CTag, STag, MaximumLength
<1>1. \A o : Halfword(f, o) \in Nat
  <2>1. \A o : Halfword(f, o) \in Halfwords
    BY FieldsAreHalfwords
  <2>2. Halfwords \subseteq Nat
    BY HalfwordRange
  <2> QED
    BY <2>1, <2>2, Zenon
<1>2. f.octets \in Nat
  BY DEF Frame
<1>3. CASE k = 1 /\ i = IfEqual(<<ARP>>, 24, 0)
  <2>1. i.op = "equal" /\ i.k = <<ARP>> /\ i.t = 24 /\ i.f = 0
    BY <1>3 DEF IfEqual
  <2>2. a = <<ARP>> => Way(f, 26, a)
    BY <1>1, <1>2, <1>3, Tuples, ArpFound DEF Way, TypeRead, LengthSeen, LlcRead, LlcSeen, SnapRead, ArpAt, LLC, SnapArp
  <2>3. a # <<ARP>> => Way(f, 2, a)
    BY <1>1, <1>2, <1>3, Tuples, ArpFound DEF Way, TypeRead, LengthSeen, LlcRead, LlcSeen, SnapRead, ArpAt, LLC, SnapArp
  <2> QED
    BY <1>3, <2>1, <2>2, <2>3
<1>4. CASE k = 2 /\ i = IfEqual(<<CTag>>, 6, 0)
  <2>1. i.op = "equal" /\ i.k = <<CTag>> /\ i.t = 6 /\ i.f = 0
    BY <1>4 DEF IfEqual
  <2>2. a = <<CTag>> => Way(f, 9, a)
    BY <1>1, <1>2, <1>4, Tuples, ArpFound DEF Way, TypeRead, LengthSeen, LlcRead, LlcSeen, SnapRead, ArpAt, LLC, SnapArp
  <2>3. a # <<CTag>> => Way(f, 3, a)
    BY <1>1, <1>2, <1>4, Tuples, ArpFound DEF Way, TypeRead, LengthSeen, LlcRead, LlcSeen, SnapRead, ArpAt, LLC, SnapArp
  <2> QED
    BY <1>4, <2>1, <2>2, <2>3
<1>5. CASE k = 3 /\ i = IfEqual(<<STag>>, 12, 0)
  <2>1. i.op = "equal" /\ i.k = <<STag>> /\ i.t = 12 /\ i.f = 0
    BY <1>5 DEF IfEqual
  <2>2. a = <<STag>> => Way(f, 16, a)
    BY <1>1, <1>2, <1>5, Tuples, ArpFound DEF Way, TypeRead, LengthSeen, LlcRead, LlcSeen, SnapRead, ArpAt, LLC, SnapArp
  <2>3. a # <<STag>> => Way(f, 4, a)
    BY <1>1, <1>2, <1>5, Tuples, ArpFound DEF Way, TypeRead, LengthSeen, LlcRead, LlcSeen, SnapRead, ArpAt, LLC, SnapArp
  <2> QED
    BY <1>5, <2>1, <2>2, <2>3
<1>6. CASE k = 6 /\ i = IfEqual(LLC, 0, 18)
  <2>1. i.op = "equal" /\ i.k = LLC /\ i.t = 0 /\ i.f = 18
    BY <1>6 DEF IfEqual
  <2>2. a = LLC => Way(f, 7, a)
    BY <1>1, <1>2, <1>6, Tuples, ArpFound DEF Way, TypeRead, LengthSeen, LlcRead, LlcSeen, SnapRead, ArpAt, LLC, SnapArp
  <2>3. a # LLC => Way(f, 25, a)
    BY <1>1, <1>2, <1>6, Tuples, ArpFound DEF Way, TypeRead, LengthSeen, LlcRead, LlcSeen, SnapRead, ArpAt, LLC, SnapArp
  <2> QED
    BY <1>6, <2>1, <2>2, <2>3
<1>7. CASE k = 8 /\ i = IfEqual(SnapArp, 17, 16)
  <2>1. i.op = "equal" /\ i.k = SnapArp /\ i.t = 17 /\ i.f = 16
    BY <1>7 DEF IfEqual
  <2>2. a = SnapArp => Way(f, 26, a)
    BY <1>1, <1>2, <1>7, Tuples, ArpFound DEF Way, TypeRead, LengthSeen, LlcRead, LlcSeen, SnapRead, ArpAt, LLC, SnapArp
  <2>3. a # SnapArp => Way(f, 25, a)
    BY <1>1, <1>2, <1>7, Tuples, ArpFound DEF Way, TypeRead, LengthSeen, LlcRead, LlcSeen, SnapRead, ArpAt, LLC, SnapArp
  <2> QED
    BY <1>7, <2>1, <2>2, <2>3
<1>8. CASE k = 10 /\ i = IfEqual(<<ARP>>, 15, 0)
  <2>1. i.op = "equal" /\ i.k = <<ARP>> /\ i.t = 15 /\ i.f = 0
    BY <1>8 DEF IfEqual
  <2>2. a = <<ARP>> => Way(f, 26, a)
    BY <1>1, <1>2, <1>8, Tuples, ArpFound DEF Way, TypeRead, LengthSeen, LlcRead, LlcSeen, SnapRead, ArpAt, LLC, SnapArp
  <2>3. a # <<ARP>> => Way(f, 11, a)
    BY <1>1, <1>2, <1>8, Tuples, ArpFound DEF Way, TypeRead, LengthSeen, LlcRead, LlcSeen, SnapRead, ArpAt, LLC, SnapArp
  <2> QED
    BY <1>8, <2>1, <2>2, <2>3
<1>9. CASE k = 13 /\ i = IfEqual(LLC, 0, 11)
  <2>1. i.op = "equal" /\ i.k = LLC /\ i.t = 0 /\ i.f = 11
    BY <1>9 DEF IfEqual
  <2>2. a = LLC => Way(f, 14, a)
    BY <1>1, <1>2, <1>9, Tuples, ArpFound DEF Way, TypeRead, LengthSeen, LlcRead, LlcSeen, SnapRead, ArpAt, LLC, SnapArp
  <2>3. a # LLC => Way(f, 25, a)
    BY <1>1, <1>2, <1>9, Tuples, ArpFound DEF Way, TypeRead, LengthSeen, LlcRead, LlcSeen, SnapRead, ArpAt, LLC, SnapArp
  <2> QED
    BY <1>9, <2>1, <2>2, <2>3
<1>10. CASE k = 15 /\ i = IfEqual(SnapArp, 10, 9)
  <2>1. i.op = "equal" /\ i.k = SnapArp /\ i.t = 10 /\ i.f = 9
    BY <1>10 DEF IfEqual
  <2>2. a = SnapArp => Way(f, 26, a)
    BY <1>1, <1>2, <1>10, Tuples, ArpFound DEF Way, TypeRead, LengthSeen, LlcRead, LlcSeen, SnapRead, ArpAt, LLC, SnapArp
  <2>3. a # SnapArp => Way(f, 25, a)
    BY <1>1, <1>2, <1>10, Tuples, ArpFound DEF Way, TypeRead, LengthSeen, LlcRead, LlcSeen, SnapRead, ArpAt, LLC, SnapArp
  <2> QED
    BY <1>10, <2>1, <2>2, <2>3
<1>11. CASE k = 17 /\ i = IfEqual(<<CTag>>, 0, 7)
  <2>1. i.op = "equal" /\ i.k = <<CTag>> /\ i.t = 0 /\ i.f = 7
    BY <1>11 DEF IfEqual
  <2>2. a = <<CTag>> => Way(f, 18, a)
    BY <1>1, <1>2, <1>11, Tuples, ArpFound DEF Way, TypeRead, LengthSeen, LlcRead, LlcSeen, SnapRead, ArpAt, LLC, SnapArp
  <2>3. a # <<CTag>> => Way(f, 25, a)
    BY <1>1, <1>2, <1>11, Tuples, ArpFound DEF Way, TypeRead, LengthSeen, LlcRead, LlcSeen, SnapRead, ArpAt, LLC, SnapArp
  <2> QED
    BY <1>11, <2>1, <2>2, <2>3
<1>12. CASE k = 19 /\ i = IfEqual(<<ARP>>, 6, 0)
  <2>1. i.op = "equal" /\ i.k = <<ARP>> /\ i.t = 6 /\ i.f = 0
    BY <1>12 DEF IfEqual
  <2>2. a = <<ARP>> => Way(f, 26, a)
    BY <1>1, <1>2, <1>12, Tuples, ArpFound DEF Way, TypeRead, LengthSeen, LlcRead, LlcSeen, SnapRead, ArpAt, LLC, SnapArp
  <2>3. a # <<ARP>> => Way(f, 20, a)
    BY <1>1, <1>2, <1>12, Tuples, ArpFound DEF Way, TypeRead, LengthSeen, LlcRead, LlcSeen, SnapRead, ArpAt, LLC, SnapArp
  <2> QED
    BY <1>12, <2>1, <2>2, <2>3
<1>13. CASE k = 22 /\ i = IfEqual(LLC, 0, 2)
  <2>1. i.op = "equal" /\ i.k = LLC /\ i.t = 0 /\ i.f = 2
    BY <1>13 DEF IfEqual
  <2>2. a = LLC => Way(f, 23, a)
    BY <1>1, <1>2, <1>13, Tuples, ArpFound DEF Way, TypeRead, LengthSeen, LlcRead, LlcSeen, SnapRead, ArpAt, LLC, SnapArp
  <2>3. a # LLC => Way(f, 25, a)
    BY <1>1, <1>2, <1>13, Tuples, ArpFound DEF Way, TypeRead, LengthSeen, LlcRead, LlcSeen, SnapRead, ArpAt, LLC, SnapArp
  <2> QED
    BY <1>13, <2>1, <2>2, <2>3
<1>14. CASE k = 24 /\ i = IfEqual(SnapArp, 1, 0)
  <2>1. i.op = "equal" /\ i.k = SnapArp /\ i.t = 1 /\ i.f = 0
    BY <1>14 DEF IfEqual
  <2>2. a = SnapArp => Way(f, 26, a)
    BY <1>1, <1>2, <1>14, Tuples, ArpFound DEF Way, TypeRead, LengthSeen, LlcRead, LlcSeen, SnapRead, ArpAt, LLC, SnapArp
  <2>3. a # SnapArp => Way(f, 25, a)
    BY <1>1, <1>2, <1>14, Tuples, ArpFound DEF Way, TypeRead, LengthSeen, LlcRead, LlcSeen, SnapRead, ArpAt, LLC, SnapArp
  <2> QED
    BY <1>14, <2>1, <2>2, <2>3
<1>15. CASE k = 4 /\ i = IfAbove(MaximumLength, 20, 0)
  <2>1. i.op = "above" /\ i.k = MaximumLength /\ i.t = 20 /\ i.f = 0
    BY <1>15 DEF IfAbove
  <2>2. a[1] > MaximumLength => Way(f, 25, a)
    BY <1>1, <1>2, <1>15, Tuples, ArpFound DEF Way, TypeRead, ArpAt
  <2>3. ~(a[1] > MaximumLength) => Way(f, 5, a)
    BY <1>1, <1>2, <1>15, Tuples, ArpFound DEF Way, TypeRead, LengthSeen
  <2> QED
    BY <1>15, <2>1, <2>2, <2>3
<1>16. CASE k = 11 /\ i = IfAbove(MaximumLength, 13, 0)
  <2>1. i.op = "above" /\ i.k = MaximumLength /\ i.t = 13 /\ i.f = 0
    BY <1>16 DEF IfAbove
  <2>2. a[1] > MaximumLength => Way(f, 25, a)
    BY <1>1, <1>2, <1>16, Tuples, ArpFound DEF Way, TypeRead, ArpAt
  <2>3. ~(a[1] > MaximumLength) => Way(f, 12, a)
    BY <1>1, <1>2, <1>16, Tuples, ArpFound DEF Way, TypeRead, LengthSeen
  <2> QED
    BY <1>16, <2>1, <2>2, <2>3
<1>17. CASE k = 20 /\ i = IfAbove(MaximumLength, 4, 0)
  <2>1. i.op = "above" /\ i.k = MaximumLength /\ i.t = 4 /\ i.f = 0
    BY <1>17 DEF IfAbove
  <2>2. a[1] > MaximumLength => Way(f, 25, a)
    BY <1>1, <1>2, <1>17, Tuples, ArpFound DEF Way, TypeRead, ArpAt
  <2>3. ~(a[1] > MaximumLength) => Way(f, 21, a)
    BY <1>1, <1>2, <1>17, Tuples, ArpFound DEF Way, TypeRead, LengthSeen
  <2> QED
    BY <1>17, <2>1, <2>2, <2>3
<1>18. i.op \in {"equal", "above"} =>
         \/ k = 1 /\ i = IfEqual(<<ARP>>, 24, 0)
         \/ k = 2 /\ i = IfEqual(<<CTag>>, 6, 0)
         \/ k = 3 /\ i = IfEqual(<<STag>>, 12, 0)
         \/ k = 6 /\ i = IfEqual(LLC, 0, 18)
         \/ k = 8 /\ i = IfEqual(SnapArp, 17, 16)
         \/ k = 10 /\ i = IfEqual(<<ARP>>, 15, 0)
         \/ k = 13 /\ i = IfEqual(LLC, 0, 11)
         \/ k = 15 /\ i = IfEqual(SnapArp, 10, 9)
         \/ k = 17 /\ i = IfEqual(<<CTag>>, 0, 7)
         \/ k = 19 /\ i = IfEqual(<<ARP>>, 6, 0)
         \/ k = 22 /\ i = IfEqual(LLC, 0, 2)
         \/ k = 24 /\ i = IfEqual(SnapArp, 1, 0)
         \/ k = 4 /\ i = IfAbove(MaximumLength, 20, 0)
         \/ k = 11 /\ i = IfAbove(MaximumLength, 13, 0)
         \/ k = 20 /\ i = IfAbove(MaximumLength, 4, 0)
  BY ComparisonsAt
<1>19. i.op \notin {"equal", "above"} => Kept
  OBVIOUS
<1> HIDE DEF Kept, ARP, CTag, STag, MaximumLength
<1> QED
  BY <1>3, <1>4, <1>5, <1>6, <1>7, <1>8, <1>9, <1>10, <1>11, <1>12, <1>13, <1>14, <1>15, <1>16,
     <1>17, <1>18, <1>19
-----------------------------------------------------------------------------
(* What is sent *)

\* Sequences of given fields, end to end.
LEMMA TwoAndTwo ==
    ASSUME NEW S, NEW a \in S, NEW b \in S, NEW c \in S, NEW d \in S
    PROVE  LET all == <<a, b>> \o <<c, d>>
           IN /\ all \in Seq(S)
              /\ Len(all) = 4
              /\ all[1] = a /\ all[2] = b /\ all[3] = c /\ all[4] = d
OBVIOUS

\* Five items out of one, three and one.
LEMMA OneThreeOne ==
    ASSUME NEW S, NEW a \in S, NEW b \in S, NEW c \in S, NEW d \in S, NEW e \in S
    PROVE  LET all == <<a>> \o <<b, c, d>> \o <<e>>
           IN /\ all \in Seq(S)
              /\ Len(all) = 5
              /\ all[1] = a /\ all[2] = b /\ all[3] = c /\ all[4] = d /\ all[5] = e
OBVIOUS

\* Three sequences end to end.
LEMMA ThreeJoined ==
    ASSUME NEW S, NEW s \in Seq(S), NEW t \in Seq(S), NEW u \in Seq(S)
    PROVE  /\ s \o t \o u \in Seq(S)
           /\ Len(s \o t \o u) = Len(s) + Len(t) + Len(u)
           /\ \A i \in 1 .. Len(s) : (s \o t \o u)[i] = s[i]
           /\ \A i \in 1 .. Len(t) : (s \o t \o u)[Len(s) + i] = t[i]
           /\ \A i \in 1 .. Len(u) : (s \o t \o u)[Len(s) + Len(t) + i] = u[i]
OBVIOUS

\* Priority, drop eligibility and identifier share a halfword and come apart again.
LEMMA TagReadsBack ==
    ASSUME NEW tag \in Tag, tag.vid # None
    PROVE  Tci(tag) \in Halfwords /\ TagOf(Tci(tag)) = tag
<1>1. tag.pcp \in 0 .. 7
  BY DEF Tag
<1>2. tag.vid \in Nat /\ tag.vid < 4096
  <2>1. tag.vid \in {None} \cup 0 .. 2 ^ 12 - 1
    BY DEF Tag
  <2>2. tag.vid \in 0 .. 2 ^ 12 - 1
    BY <2>1, Zenon
  <2> QED
    BY <2>2, Powers
<1>3. tag.dei \in BOOLEAN
  BY DEF Tag
<1>4. tag = [vid |-> tag.vid, pcp |-> tag.pcp, dei |-> tag.dei]
  BY DEF Tag
<1> DEFINE p == tag.pcp
           v == tag.vid
           d == IF tag.dei THEN 1 ELSE 0
           t == Tci(tag)
<1>5. d \in 0 .. 1 /\ (d = 1 <=> tag.dei)
  OBVIOUS
<1>6. t = p * 8192 + d * 4096 + v
  <2>1. (IF tag.dei THEN 2 ^ 12 ELSE 0) = d * 4096
    BY Powers
  <2> QED
    BY <2>1, Powers DEF Tci
<1>7. p \in 0 .. 7 /\ v \in Nat /\ v < 4096
  BY <1>1, <1>2
<1> HIDE DEF p, v, d, t
<1>12. t \in Nat /\ t <= 65535
  BY <1>5, <1>6, <1>7
<1>13. t \div 8192 = p
  BY <1>5, <1>6, <1>7
<1>14. (t \div 4096) % 2 = d
  <2>1. t \div 4096 = 2 * p + d
    BY <1>5, <1>6, <1>7
  <2>2. (2 * p + d) % 2 = d
    BY <1>5, <1>7
  <2> QED
    BY <2>1, <2>2
<1>15. t % 4096 = v
  BY <1>5, <1>6, <1>7
<1>8. TagOf(t).pcp = tag.pcp /\ TagOf(t).vid = tag.vid
  BY <1>13, <1>15, Powers DEF TagOf, p, v
<1>9. TagOf(t).dei = tag.dei
  <2>1. TagOf(t).dei = ((t \div 4096) % 2 = 1)
    BY Powers DEF TagOf
  <2> QED
    BY <1>3, <1>5, <1>14, <2>1
<1>10. TagOf(t) = [vid |-> TagOf(t).vid, pcp |-> TagOf(t).pcp, dei |-> TagOf(t).dei]
  BY DEF TagOf
<1>11. t \in Halfwords
  BY <1>12, HalfwordRange
<1> QED
  BY <1>4, <1>8, <1>9, <1>10, <1>11, Zenon DEF t

\* How many tags are written.
Tags(w) == IF w.vlan.vid = None THEN 0 ELSE IF w.svlan.vid = None THEN 1 ELSE 2

\* The halfwords that the tags of the options come to in a frame.
LEMMA HeaderWritten ==
    ASSUME NEW w \in WireOptions
    PROVE  /\ Len(TagStack(w)) = Tags(w)
           /\ TagFields(TagStack(w)) \in Seq(Halfwords)
           /\ Len(TagFields(TagStack(w))) = 2 * Tags(w)
           /\ Tags(w) = 1 => /\ TagFields(TagStack(w))[1] = CTag
                             /\ TagFields(TagStack(w))[2] = Tci(w.vlan)
           /\ Tags(w) = 2 => /\ TagFields(TagStack(w))[1] = STag
                             /\ TagFields(TagStack(w))[2] = Tci(w.svlan)
                             /\ TagFields(TagStack(w))[3] = CTag
                             /\ TagFields(TagStack(w))[4] = Tci(w.vlan)
<1>1. w.vlan \in Tag /\ w.svlan \in Tag
  BY DEF WireOptions
<1>2. CTag \in Halfwords /\ STag \in Halfwords
  BY HalfwordRange DEF CTag, STag
<1>3. CASE Tags(w) = 0
  <2>1. TagStack(w) = <<>>
    BY <1>3 DEF Tags, TagStack
  <2> QED
    BY <1>3, <2>1 DEF TagFields
<1>4. CASE Tags(w) = 1
  <2>1. TagStack(w) = <<w.vlan>> /\ w.vlan.vid # None
    BY <1>4 DEF Tags, TagStack
  <2>2. Tci(w.vlan) \in Halfwords
    BY <1>1, <2>1, TagReadsBack
  <2>3. TagFields(<<w.vlan>>) = <<CTag, Tci(w.vlan)>> \o <<>>
    BY DEF TagFields, OuterTag
  <2>4. <<CTag, Tci(w.vlan)>> \in Seq(Halfwords) /\ <<>> \in Seq(Halfwords)
    BY <1>2, <2>2
  <2>5. TagFields(<<w.vlan>>) = <<CTag, Tci(w.vlan)>>
    BY <2>3, <2>4
  <2> QED
    BY <1>4, <2>1, <2>4, <2>5
<1>5. CASE Tags(w) = 2
  <2>1. TagStack(w) = <<w.svlan, w.vlan>> /\ w.vlan.vid # None /\ w.svlan.vid # None
    BY <1>5 DEF Tags, TagStack
  <2>2. Tci(w.vlan) \in Halfwords /\ Tci(w.svlan) \in Halfwords
    BY <1>1, <2>1, TagReadsBack
  <2>3. TagFields(<<w.svlan, w.vlan>>) = <<STag, Tci(w.svlan)>> \o <<CTag, Tci(w.vlan)>>
    BY DEF TagFields, OuterTag
  <2> DEFINE service == Tci(w.svlan)
             customer == Tci(w.vlan)
             all == <<STag, service>> \o <<CTag, customer>>
  <2>4. service \in Halfwords /\ customer \in Halfwords
    BY <2>2
  <2>5. TagFields(TagStack(w)) = all
    BY <2>1, <2>3
  <2> HIDE DEF service, customer
  <2>6. /\ all \in Seq(Halfwords)
        /\ Len(all) = 4
        /\ all[1] = STag /\ all[2] = service /\ all[3] = CTag /\ all[4] = customer
    BY <1>2, <2>4, TwoAndTwo
  <2> HIDE DEF all
  <2> QED
    BY <1>5, <2>1, <2>5, <2>6 DEF service, customer
<1> QED
  BY <1>3, <1>4, <1>5 DEF Tags

\* The halfwords between the tags and the body: the EtherType, or a length and SNAP.
LEMMA TypeWritten ==
    ASSUME NEW w \in WireOptions, ClientOctets(w) <= MaximumLength
    PROVE  /\ TypeFields(w) \in Seq(Halfwords)
           /\ ClientOctets(w) \in Nat
           /\ w.llc => /\ Len(TypeFields(w)) = 5
                       /\ TypeFields(w)[1] = ClientOctets(w)
                       /\ TypeFields(w)[2] = \hAAAA
                       /\ TypeFields(w)[3] = \h0300
                       /\ TypeFields(w)[4] = 0
                       /\ TypeFields(w)[5] = ARP
           /\ ~w.llc => Len(TypeFields(w)) = 1 /\ TypeFields(w)[1] = ARP
<1>1. w.padding \in Nat /\ w.llc \in BOOLEAN
  BY DEF WireOptions
<1>2. ClientOctets(w) \in Nat
  BY <1>1 DEF ClientOctets, ArpOctets, SnapOctets
<1>3. LengthField(w) = ClientOctets(w)
  BY <1>2, Powers DEF LengthField, MaximumLength
<1>7. ClientOctets(w) \in Halfwords
  BY <1>2, HalfwordRange DEF MaximumLength
<1>4. ARP \in Halfwords /\ \hAAAA \in Halfwords /\ \h0300 \in Halfwords /\ 0 \in Halfwords
  BY HalfwordRange DEF ARP
<1>5. CASE w.llc
  <2> DEFINE length == ClientOctets(w)
             all == <<length>> \o <<\hAAAA, \h0300, 0>> \o <<ARP>>
  <2>1. TypeFields(w) = all
    BY <1>3, <1>5 DEF TypeFields, SnapPrefix
  <2>2. length \in Halfwords
    BY <1>7
  <2> HIDE DEF length
  <2>3. /\ all \in Seq(Halfwords)
        /\ Len(all) = 5
        /\ all[1] = length /\ all[2] = \hAAAA /\ all[3] = \h0300 /\ all[4] = 0 /\ all[5] = ARP
    BY <1>4, <2>2, OneThreeOne
  <2> HIDE DEF all
  <2> QED
    BY <1>2, <1>5, <2>1, <2>3 DEF length
<1>6. CASE ~w.llc
  <2>1. TypeFields(w) = <<ARP>>
    BY <1>6 DEF TypeFields
  <2>2. <<ARP>> \in Seq(Halfwords) /\ Len(<<ARP>>) = 1 /\ <<ARP>>[1] = ARP
    BY <1>4
  <2> QED
    BY <1>2, <1>6, <2>1, <2>2
<1> QED
  BY <1>1, <1>5, <1>6

\* The i-th field of a frame is the halfword two octets a field behind octet 12.
LEMMA FieldRead ==
    ASSUME NEW f, f.fields \in Seq(Halfwords), NEW i \in 1 .. Len(f.fields), NEW o, o = 10 + 2 * i
    PROVE  Halfword(f, o) = f.fields[i]
<1> DEFINE s == f.fields
<1>1. (o - 12) \div 2 + 1 = i
  OBVIOUS
<1>2. i \in DOMAIN s
  OBVIOUS
<1> HIDE DEF s
<1>3. Halfword(f, o) = IF i \in DOMAIN s THEN s[i] ELSE 0
  BY <1>1, Zenon DEF Halfword, s
<1> QED
  BY <1>2, <1>3, Zenon DEF s

\* The fields of ARP behind the length/type field or the SNAP header.
Body(w) == <<w.hrd, w.pro, w.lengths, w.op>>

\* The three parts of a request, each at its place.
LEMMA RequestParts ==
    ASSUME NEW w \in WireOptions, ClientOctets(w) <= MaximumLength,
           NEW f, f = EncodedRequest(w), NEW m, m = Len(TypeFields(w))
    PROVE  /\ f \in Frame
           /\ 14 + 4 * Tags(w) + ClientOctets(w) <= f.octets
           /\ MinimumFrame <= f.octets
           /\ \A i \in 1 .. 2 * Tags(w) : Halfword(f, 10 + 2 * i) = TagFields(TagStack(w))[i]
           /\ \A i \in 1 .. m : Halfword(f, 10 + 4 * Tags(w) + 2 * i) = TypeFields(w)[i]
           /\ \A i \in 1 .. 4 : Halfword(f, 10 + 4 * Tags(w) + 2 * m + 2 * i) = Body(w)[i]
<1> DEFINE header == TagFields(TagStack(w))
           types == TypeFields(w)
           body == Body(w)
           fields == header \o types \o body
           n == Tags(w)
           client == ClientOctets(w)
           octets == 14 + 2 * Len(header) + client
<1>1. header \in Seq(Halfwords) /\ Len(header) = 2 * n
  BY HeaderWritten
<1>2. types \in Seq(Halfwords) /\ client \in Nat
  BY TypeWritten
<1>3. body \in Seq(Halfwords) /\ Len(body) = 4
  BY DEF Body, WireOptions
<1>4. n \in 0 .. 2
  BY DEF Tags
<1>5. m \in Nat /\ m = Len(types)
  BY <1>2
<1>6. f = [fields |-> fields, octets |-> IF octets < MinimumFrame THEN MinimumFrame ELSE octets]
  BY DEF EncodedRequest, Body
<1> HIDE DEF header, types, body, n, client
<1>7. /\ fields \in Seq(Halfwords)
      /\ Len(fields) = 2 * n + m + 4
      /\ \A i \in 1 .. 2 * n : fields[i] = header[i]
      /\ \A i \in 1 .. m : fields[2 * n + i] = types[i]
      /\ \A i \in 1 .. 4 : fields[2 * n + m + i] = body[i]
  <2>1. PICK s \in Seq(Halfwords), t \in Seq(Halfwords), u \in Seq(Halfwords) :
            s = header /\ t = types /\ u = body
    BY <1>1, <1>2, <1>3, Zenon
  <2>2. Len(s) = 2 * n /\ Len(t) = m /\ Len(u) = 4
    BY <1>1, <1>3, <1>5, <2>1
  <2>3. /\ s \o t \o u \in Seq(Halfwords)
        /\ Len(s \o t \o u) = Len(s) + Len(t) + Len(u)
    OBVIOUS
  <2>4. /\ \A i \in 1 .. Len(s) : (s \o t \o u)[i] = s[i]
        /\ \A i \in 1 .. Len(t) : (s \o t \o u)[Len(s) + i] = t[i]
        /\ \A i \in 1 .. Len(u) : (s \o t \o u)[Len(s) + Len(t) + i] = u[i]
    OBVIOUS
  <2> DEFINE all == s \o t \o u
  <2>5. fields = all
    BY <2>1
  <2>6. /\ all \in Seq(Halfwords)
        /\ Len(all) = 2 * n + m + 4
        /\ \A i \in 1 .. 2 * n : all[i] = header[i]
        /\ \A i \in 1 .. m : all[2 * n + i] = types[i]
        /\ \A i \in 1 .. 4 : all[2 * n + m + i] = body[i]
    <3> HIDE DEF all
    <3> QED
      BY <2>1, <2>2, <2>3, <2>4, Zenon DEF all
  <2> HIDE DEF fields, all
  <2> QED
    BY <2>5, <2>6, Zenon
<1>9. octets \in Nat /\ octets = 14 + 4 * n + client
  BY <1>1, <1>2, <1>4
<1> HIDE DEF fields, octets
<1>10. f.fields = fields /\ f.octets = IF octets < MinimumFrame THEN MinimumFrame ELSE octets
  BY <1>6
<1>11. f.octets \in Nat /\ octets <= f.octets /\ MinimumFrame <= f.octets
  BY <1>9, <1>10 DEF MinimumFrame
<1>12. f \in Frame
  BY <1>6, <1>7, <1>9 DEF Frame, MinimumFrame
<1>13. \A i \in 1 .. 2 * n + m + 4 : Halfword(f, 10 + 2 * i) = fields[i]
  BY <1>7, <1>10, FieldRead
<1>14. \A i \in 1 .. 2 * n : Halfword(f, 10 + 2 * i) = header[i]
  BY <1>4, <1>5, <1>7, <1>13
<1>15. ASSUME NEW i \in 1 .. m
       PROVE  Halfword(f, 10 + 4 * n + 2 * i) = types[i]
  <2>1. 2 * n + i \in 1 .. 2 * n + m + 4 /\ 10 + 2 * (2 * n + i) = 10 + 4 * n + 2 * i
    BY <1>4, <1>5
  <2> QED
    BY <1>7, <1>13, <2>1
<1>16. ASSUME NEW i \in 1 .. 4
       PROVE  Halfword(f, 10 + 4 * n + 2 * m + 2 * i) = body[i]
  <2>1. /\ 2 * n + m + i \in 1 .. 2 * n + m + 4
        /\ 10 + 2 * (2 * n + m + i) = 10 + 4 * n + 2 * m + 2 * i
    BY <1>4, <1>5
  <2> QED
    BY <1>7, <1>13, <2>1
<1> QED
  BY <1>9, <1>11, <1>12, <1>14, <1>15, <1>16 DEF header, types, body, n, client

\* A frame with ARP behind n tags, with or without SNAP.
PayloadAt(n, snap) == 14 + 4 * n + IF snap THEN 8 ELSE 0

Framed(f, n, snap) ==
    /\ n \in 0 .. 2
    /\ n = 1 => Halfword(f, 12) = CTag
    /\ n = 2 => Halfword(f, 12) = STag /\ Halfword(f, 16) = CTag
    /\ PayloadAt(n, snap) + ArpOctets <= f.octets
    /\ LET o == 12 + 4 * n
       IN IF snap
          THEN /\ Halfword(f, o) <= MaximumLength
               /\ Halfword(f, o + 2) = \hAAAA
               /\ Halfword(f, o + 4) = \h0300
               /\ Halfword(f, o + 6) = 0
               /\ Halfword(f, o + 8) = ARP
          ELSE Halfword(f, o) = ARP

\* ARP fields of a payload at octet p.
BodyAt(f, p, w) ==
    /\ Halfword(f, p) = w.hrd /\ Halfword(f, p + 2) = w.pro
    /\ Halfword(f, p + 4) = w.lengths /\ Halfword(f, p + 6) = w.op

\* The fields of a request in the words of the parser.
LEMMA RequestFramed ==
    ASSUME NEW w \in WireOptions, ClientOctets(w) <= MaximumLength, NEW f, f = EncodedRequest(w)
    PROVE  /\ f \in Frame
           /\ Framed(f, Tags(w), w.llc)
           /\ BodyAt(f, PayloadAt(Tags(w), w.llc), w)
           /\ 14 + 4 * Tags(w) + ClientOctets(w) <= f.octets
           /\ w.llc => Halfword(f, 12 + 4 * Tags(w)) = ClientOctets(w)
           /\ Tags(w) = 1 => Halfword(f, 14) = Tci(w.vlan)
           /\ Tags(w) = 2 => Halfword(f, 14) = Tci(w.svlan) /\ Halfword(f, 18) = Tci(w.vlan)
<1> DEFINE n == Tags(w)
           m == Len(TypeFields(w))
           client == ClientOctets(w)
           header == TagFields(TagStack(w))
           types == TypeFields(w)
<1>1. n \in 0 .. 2 /\ w.llc \in BOOLEAN /\ w.padding \in Nat
  BY DEF Tags, WireOptions
<1>2. client \in Nat /\ client = ArpOctets + w.padding + IF w.llc THEN SnapOctets ELSE 0
  BY <1>1, TypeWritten DEF ClientOctets
<1>3. f \in Frame /\ 14 + 4 * n + client <= f.octets
  BY RequestParts
<1>4. /\ \A i \in 1 .. 2 * n : Halfword(f, 10 + 2 * i) = header[i]
      /\ \A i \in 1 .. m : Halfword(f, 10 + 4 * n + 2 * i) = types[i]
      /\ \A i \in 1 .. 4 : Halfword(f, 10 + 4 * n + 2 * m + 2 * i) = Body(w)[i]
  BY SMTT(60), RequestParts
<1>5. /\ n = 1 => header[1] = CTag /\ header[2] = Tci(w.vlan)
      /\ n = 2 => /\ header[1] = STag /\ header[2] = Tci(w.svlan)
                  /\ header[3] = CTag /\ header[4] = Tci(w.vlan)
  BY HeaderWritten
<1>6. /\ w.llc => /\ m = 5 /\ types[1] = client /\ types[2] = \hAAAA /\ types[3] = \h0300
                  /\ types[4] = 0 /\ types[5] = ARP
      /\ ~w.llc => m = 1 /\ types[1] = ARP
  BY TypeWritten
<1>7. client <= MaximumLength
  OBVIOUS
<1> HIDE DEF n, m, client, header, types
<1>8. f.octets \in Nat
  BY <1>3 DEF Frame
<1>9. /\ n = 1 => Halfword(f, 12) = CTag /\ Halfword(f, 14) = Tci(w.vlan)
      /\ n = 2 => /\ Halfword(f, 12) = STag /\ Halfword(f, 14) = Tci(w.svlan)
                  /\ Halfword(f, 16) = CTag /\ Halfword(f, 18) = Tci(w.vlan)
  <2>1. n = 1 => 1 \in 1 .. 2 * n /\ 2 \in 1 .. 2 * n
    OBVIOUS
  <2>2. n = 2 => 1 \in 1 .. 2 * n /\ 2 \in 1 .. 2 * n /\ 3 \in 1 .. 2 * n /\ 4 \in 1 .. 2 * n
    OBVIOUS
  <2>3. 10 + 2 * 1 = 12 /\ 10 + 2 * 2 = 14 /\ 10 + 2 * 3 = 16 /\ 10 + 2 * 4 = 18
    OBVIOUS
  <2> QED
    BY <1>4, <1>5, <2>1, <2>2, <2>3
<1>10. PayloadAt(n, w.llc) = 12 + 4 * n + 2 * m
  BY <1>1, <1>6 DEF PayloadAt
<1>11. BodyAt(f, 12 + 4 * n + 2 * m, w)
  <2>1. m \in Nat
    BY <1>1, <1>6
  <2>2. ASSUME NEW i \in 1 .. 4
        PROVE  Halfword(f, 12 + 4 * n + 2 * m + 2 * (i - 1)) = Body(w)[i]
    <3>1. 12 + 4 * n + 2 * m + 2 * (i - 1) = 10 + 4 * n + 2 * m + 2 * i
      BY <1>1, <2>1
    <3> QED
      BY <1>4, <3>1
  <2> DEFINE p == 12 + 4 * n + 2 * m
  <2>3. p + 2 * (1 - 1) = p /\ p + 2 * (2 - 1) = p + 2 /\ p + 2 * (3 - 1) = p + 4 /\ p + 2 * (4 - 1) = p + 6
    BY <1>1, <2>1
  <2>4. Body(w)[1] = w.hrd /\ Body(w)[2] = w.pro /\ Body(w)[3] = w.lengths /\ Body(w)[4] = w.op
    BY DEF Body
  <2> HIDE DEF p
  <2>5. \A i \in 1 .. 4 : Halfword(f, p + 2 * (i - 1)) = Body(w)[i]
    BY <2>2 DEF p
  <2>6. BodyAt(f, p, w)
    BY <2>3, <2>4, <2>5 DEF BodyAt
  <2> QED
    BY <2>6 DEF p
<1>12. /\ Halfword(f, 12 + 4 * n) = types[1]
       /\ w.llc => /\ Halfword(f, 12 + 4 * n + 2) = \hAAAA /\ Halfword(f, 12 + 4 * n + 4) = \h0300
                   /\ Halfword(f, 12 + 4 * n + 6) = 0 /\ Halfword(f, 12 + 4 * n + 8) = ARP
  <2> DEFINE o == 12 + 4 * n
  <2>1. /\ 10 + 4 * n + 2 * 1 = o /\ 10 + 4 * n + 2 * 2 = o + 2 /\ 10 + 4 * n + 2 * 3 = o + 4
        /\ 10 + 4 * n + 2 * 4 = o + 6 /\ 10 + 4 * n + 2 * 5 = o + 8
    BY <1>1
  <2>2. 1 \in 1 .. m /\ (w.llc => 2 \in 1 .. m /\ 3 \in 1 .. m /\ 4 \in 1 .. m /\ 5 \in 1 .. m)
    BY <1>1, <1>6
  <2> HIDE DEF o
  <2> QED
    BY <1>4, <1>6, <2>1, <2>2 DEF o
<1>13. PayloadAt(n, w.llc) + ArpOctets <= f.octets
  BY <1>1, <1>2, <1>3, <1>8 DEF PayloadAt, ArpOctets, SnapOctets
<1>14. Framed(f, n, w.llc)
  BY <1>1, <1>6, <1>7, <1>9, <1>12, <1>13 DEF Framed
<1> QED
  BY <1>3, <1>6, <1>9, <1>10, <1>11, <1>12, <1>14 DEF n, client

-----------------------------------------------------------------------------
(* What the parser makes of it *)

\* What the parser returns for a frame with ARP behind n tags.
ParsedAs(f, n, snap) ==
    [tags |-> [i \in 1 .. n |-> TagOf(Halfword(f, 10 + 4 * i))],
     snap |-> snap, etherType |-> ARP, payload |-> PayloadAt(n, snap)]

\* Types of tags, ARP and lengths exclude each other, so one arrangement of tags
\* and one framing is accepted and no other.
LEMMA FramedAccepted ==
    ASSUME NEW f \in Frame, NEW n, NEW snap \in BOOLEAN, Framed(f, n, snap), NEW k \in 0 .. 2
    PROVE  /\ TagsAccepted(f, k) <=> k = n
           /\ k = n => /\ TypeOffset(k) + 2 + (IF snap THEN SnapOctets ELSE 0) = PayloadAt(n, snap)
                       /\ IsEthernetII(f, k) <=> ~snap
                       /\ IsSnap(f, k) <=> snap
                       /\ ~snap => Type(f, k) = ARP
                       /\ snap => Halfword(f, TypeOffset(k) + SnapOctets) = ARP
<1> USE DEF ARP, CTag, STag, MaximumLength, SnapOctets
<1>1. n \in 0 .. 2 /\ f.octets \in Nat /\ \A o : Halfword(f, o) \in Nat
  <2>1. n \in 0 .. 2
    BY DEF Framed
  <2>2. f.octets \in Nat
    BY DEF Frame
  <2>3. \A o : Halfword(f, o) \in Halfwords
    BY FieldsAreHalfwords
  <2>4. Halfwords \subseteq Nat
    BY HalfwordRange
  <2> QED
    BY <2>1, <2>2, <2>3, <2>4, Zenon
<1>2. Type(f, 0) = Halfword(f, 12) /\ Type(f, 1) = Halfword(f, 16) /\ Type(f, 2) = Halfword(f, 20)
  BY Offsets DEF Type
<1>3. PayloadAt(n, snap) + 28 <= f.octets
  BY DEF Framed, ArpOctets
<1> DEFINE o == 12 + 4 * n
<1>4. TypeOffset(n) = o /\ o \in Nat /\ Type(f, n) = Halfword(f, o)
  BY <1>1 DEF TypeOffset, Type
<1>5. /\ snap => /\ Halfword(f, o) <= 1500 /\ Halfword(f, o + 2) = \hAAAA /\ Halfword(f, o + 4) = \h0300
                 /\ Halfword(f, o + 6) = 0 /\ Halfword(f, o + 8) = 2054
      /\ ~snap => Halfword(f, o) = 2054
  BY DEF Framed
<1>6. PayloadAt(n, snap) = o + 2 + (IF snap THEN 8 ELSE 0)
  BY <1>1 DEF PayloadAt
<1> HIDE DEF o
<1>7. Halfword(f, o) = 2054 \/ Halfword(f, o) <= 1500
  BY <1>5
<1>8. HasType(f, n)
  BY <1>1, <1>3, <1>4, <1>6 DEF HasType
<1>9. TagsAccepted(f, k) <=> k = n
  <2>1. CASE n = 0
    BY <1>1, <1>2, <1>4, <1>7, <1>8, <2>1 DEF TagsAccepted, AnyTag, UnofficialTags
  <2>2. CASE n = 1
    <3>1. Halfword(f, 12) = CTag
      BY <2>2 DEF Framed
    <3> QED
      BY <1>1, <1>2, <1>4, <1>7, <1>8, <2>2, <3>1 DEF TagsAccepted, AnyTag, UnofficialTags
  <2>3. CASE n = 2
    <3>1. Halfword(f, 12) = STag /\ Halfword(f, 16) = CTag
      BY <2>3 DEF Framed
    <3> QED
      BY <1>1, <1>2, <1>4, <1>7, <1>8, <2>3, <3>1 DEF TagsAccepted, AnyTag, UnofficialTags
  <2> QED
    BY <1>1, <2>1, <2>2, <2>3
<1>10. IsEthernetII(f, n) <=> ~snap
  BY <1>1, <1>4, <1>5 DEF IsEthernetII, MinimumEtherType
<1>11. IsSnap(f, n) <=> snap
  <2>1. CASE snap
    <3>1. o + 10 <= f.octets
      BY <1>1, <1>3, <1>4, <1>6, <2>1
    <3>2. ASSUME NEW j \in 1 .. 3 PROVE Halfword(f, o + 2 * j) = SnapPrefix[j]
      <4>1. SnapPrefix[1] = \hAAAA /\ SnapPrefix[2] = \h0300 /\ SnapPrefix[3] = 0
        BY DEF SnapPrefix
      <4>2. \/ j = 1 /\ o + 2 * j = o + 2
            \/ j = 2 /\ o + 2 * j = o + 4
            \/ j = 3 /\ o + 2 * j = o + 6
        BY <1>4
      <4> QED
        BY <1>5, <2>1, <4>1, <4>2
    <3>3. Halfword(f, o) <= MaximumLength
      BY <1>5, <2>1
    <3>4. o + 2 + SnapOctets <= f.octets
      BY <1>1, <1>4, <3>1
    <3> QED
      BY <1>4, <2>1, <3>2, <3>3, <3>4 DEF IsSnap
  <2>2. CASE ~snap
    BY <1>4, <1>5, <2>2 DEF IsSnap
  <2> QED
    BY <2>1, <2>2
<1>12. snap => Halfword(f, TypeOffset(n) + SnapOctets) = ARP
  BY <1>4, <1>5
<1> QED
  BY <1>4, <1>5, <1>6, <1>9, <1>10, <1>11, <1>12

\* The parser reads a frame laid out as the program lays it out in one way only.
LEMMA FramedParsed ==
    ASSUME NEW f \in Frame, NEW n, NEW snap \in BOOLEAN, Framed(f, n, snap)
    PROVE  Parsed(f) = {ParsedAs(f, n, snap)}
<1> DEFINE Tag_(k) == [i \in 1 .. k |-> TagOf(Halfword(f, 10 + 4 * i))]
           Plain(k) == [tags |-> Tag_(k), snap |-> FALSE, etherType |-> Type(f, k),
                        payload |-> TypeOffset(k) + 2]
           Snap(k) == [tags |-> Tag_(k), snap |-> TRUE,
                       etherType |-> Halfword(f, TypeOffset(k) + SnapOctets),
                       payload |-> TypeOffset(k) + 2 + SnapOctets]
           Plains == {k \in 0 .. 2 : TagsAccepted(f, k) /\ IsEthernetII(f, k)}
           Snaps == {k \in 0 .. 2 : TagsAccepted(f, k) /\ IsSnap(f, k)}
<1>1. Parsed(f) = {Plain(k) : k \in Plains} \cup {Snap(k) : k \in Snaps}
  BY DEF Parsed
<1>2. n \in 0 .. 2
  BY DEF Framed
<1>3. CASE snap
  <2>1. Plains = {} /\ Snaps = {n}
    BY <1>2, <1>3, FramedAccepted, Zenon
  <2>2. TypeOffset(n) + 2 + SnapOctets = PayloadAt(n, snap) /\ Halfword(f, TypeOffset(n) + SnapOctets) = ARP
    BY <1>2, <1>3, FramedAccepted, Zenon
  <2>3. snap = TRUE
    BY <1>3, Zenon
  <2>4. Snap(n) = ParsedAs(f, n, snap)
    BY <2>2, <2>3, Zenon DEF ParsedAs
  <2> HIDE DEF Plains, Snaps, Plain, Snap
  <2> QED
    BY <1>1, <2>1, <2>4, Zenon
<1>4. CASE ~snap
  <2>1. Plains = {n} /\ Snaps = {}
    BY <1>2, <1>4, FramedAccepted, Zenon
  <2>2. TypeOffset(n) + 2 + 0 = PayloadAt(n, snap) /\ Type(f, n) = ARP
    BY <1>2, <1>4, FramedAccepted, Zenon
  <2>3. TypeOffset(n) + 2 = PayloadAt(n, snap)
    BY <1>2, <2>2 DEF TypeOffset
  <2>4. snap = FALSE
    BY <1>4, Zenon
  <2>5. Plain(n) = ParsedAs(f, n, snap)
    BY <2>2, <2>3, <2>4, Zenon DEF ParsedAs
  <2> HIDE DEF Plains, Snaps, Plain, Snap
  <2> QED
    BY <1>1, <2>1, <2>5, Zenon
<1> QED
  BY <1>3, <1>4

\* The answer a station gives in the framing it was asked in, and any frame with
\* the same fields: a reply.
Answer(w) == [w EXCEPT !.op = Reply, !.hrd = 1, !.pro = IPv4, !.lengths = \h0604, !.padding = 0]

\* A reply in the framing of the request is parsed as a reply.
LEMMA FramedReply ==
    ASSUME NEW f \in Frame, NEW n, NEW snap \in BOOLEAN, Framed(f, n, snap),
           NEW w \in WireOptions, BodyAt(f, PayloadAt(n, snap), Answer(w))
    PROVE  IsArp(f) /\ Kind(f) = "reply"
<1> DEFINE p == ParsedAs(f, n, snap)
           o == PayloadAt(n, snap)
<1>1. Parsed(f) = {p}
  BY FramedParsed
<1>2. p.etherType = ARP /\ p.payload = o
  BY DEF ParsedAs
<1> HIDE DEF p
<1>3. IsArp(f)
  BY <1>1, <1>2 DEF IsArp
<1>4. (CHOOSE q \in Parsed(f) : TRUE) = p
  BY <1>1
<1>5. o + 28 <= f.octets
  BY DEF Framed, ArpOctets
<1>6. o \in Nat /\ f.octets \in Nat
  BY DEF PayloadAt, Framed, Frame
<1>7. /\ Halfword(f, o) = 1 /\ Halfword(f, o + 2) = IPv4
      /\ Halfword(f, o + 4) = \h0604 /\ Halfword(f, o + 6) = 2
  BY DEF BodyAt, Answer, Reply, WireOptions
<1> HIDE DEF o
<1>8. Opcode(f, p) = 2
  BY <1>2, <1>7 DEF Opcode
<1>9. WellFormed(f, p)
  BY <1>2, <1>5, <1>6, <1>7, <1>8 DEF WellFormed, ArpOctets, Reserved
<1> QED
  BY <1>3, <1>4, <1>8, <1>9 DEF Kind, Reply

\* What a station mirrors is framed as it was asked.
LEMMA ReplyFramed ==
    ASSUME NEW w \in WireOptions, NEW f, f = MirroredReply(w)
    PROVE  /\ f \in Frame
           /\ Framed(f, Tags(w), w.llc)
           /\ BodyAt(f, PayloadAt(Tags(w), w.llc), Answer(w))
<1> DEFINE a == Answer(w)
<1>1. a \in WireOptions
  <2>1. /\ Reply \in Halfwords /\ 1 \in Halfwords /\ IPv4 \in Halfwords
        /\ \h0604 \in Halfwords /\ 0 \in Nat
    BY HalfwordRange DEF Reply, IPv4
  <2>2. PICK op \in Halfwords, hrd \in Halfwords, pro \in Halfwords, lengths \in Halfwords, padding \in Nat :
            op = Reply /\ hrd = 1 /\ pro = IPv4 /\ lengths = \h0604 /\ padding = 0
    BY <2>1
  <2>3. [w EXCEPT !.op = op, !.hrd = hrd, !.pro = pro, !.lengths = lengths, !.padding = padding] \in WireOptions
    BY DEF WireOptions
  <2>4. a = [w EXCEPT !.op = op, !.hrd = hrd, !.pro = pro, !.lengths = lengths, !.padding = padding]
    BY <2>2 DEF Answer
  <2> QED
    BY <2>3, <2>4, Zenon
<1>2. a.vlan = w.vlan /\ a.svlan = w.svlan /\ a.llc = w.llc /\ a.padding = 0
  BY DEF Answer, WireOptions
<1>3. f = EncodedRequest(a)
  BY DEF MirroredReply, Answer
<1> HIDE DEF a
<1>4. ClientOctets(a) <= MaximumLength
  <2>1. ClientOctets(a) = 28 + 0 + IF w.llc THEN 8 ELSE 0
    BY <1>2 DEF ClientOctets, ArpOctets, SnapOctets
  <2> QED
    BY <2>1 DEF MaximumLength
<1>5. Tags(a) = Tags(w)
  BY <1>2 DEF Tags
<1>6. f \in Frame /\ Framed(f, Tags(a), a.llc) /\ BodyAt(f, PayloadAt(Tags(a), a.llc), a)
  BY <1>1, <1>3, <1>4, RequestFramed, Zenon
<1> QED
  BY <1>2, <1>5, <1>6, Zenon DEF a

-----------------------------------------------------------------------------
(* What the kernel of Linux does with it *)

\* Without its outermost tag, a frame has the fields that lay four octets on.
LEMMA UntaggedFields ==
    ASSUME NEW f \in Frame, 4 <= f.octets,
           NEW g, g = [fields |-> SubSeq(f.fields, 3, Len(f.fields)), octets |-> f.octets - 4]
    PROVE  /\ g \in Frame
           /\ \A o \in Nat : 12 <= o => Halfword(g, o) = Halfword(f, o + 4)
<1>1. PICK s \in Seq(Halfwords) : s = f.fields
  BY DEF Frame
<1>2. f.octets \in Nat /\ f.octets - 4 \in Nat
  BY DEF Frame
<1>3. PICK t : t = SubSeq(s, 3, Len(s))
  OBVIOUS
<1>4. t \in Seq(Halfwords)
  BY <1>3
<1>5. g = [fields |-> t, octets |-> f.octets - 4]
  BY <1>1, <1>3
<1>6. g \in Frame
  BY <1>2, <1>4, <1>5 DEF Frame
<1>7. ASSUME NEW o \in Nat, 12 <= o
      PROVE  Halfword(g, o) = Halfword(f, o + 4)
  <2> DEFINE k == (o - 12) \div 2 + 1
  <2>1. k \in Nat /\ 1 <= k /\ (o + 4 - 12) \div 2 + 1 = k + 2
    BY <1>7
  <2>2. Halfword(g, o) = IF k \in DOMAIN t THEN t[k] ELSE 0
    BY <1>5 DEF Halfword
  <2>3. Halfword(f, o + 4) = IF k + 2 \in DOMAIN s THEN s[k + 2] ELSE 0
    BY <1>1, <2>1 DEF Halfword
  <2> HIDE DEF k
  <2>4. k \in DOMAIN t <=> k + 2 \in DOMAIN s
    BY <1>3, <2>1
  <2>5. k \in DOMAIN t => t[k] = s[k + 2]
    BY <1>3, <2>1
  <2> QED
    BY <2>2, <2>3, <2>4, <2>5, Zenon
<1> QED
  BY <1>6, <1>7

\* The kernel takes off the outermost tag, and nothing of an untagged frame.
LEMMA FramedUntagged ==
    ASSUME NEW f \in Frame, NEW n, NEW snap \in BOOLEAN, Framed(f, n, snap),
           NEW w, BodyAt(f, PayloadAt(n, snap), w),
           NEW m, m = IF n = 0 THEN 0 ELSE n - 1
    PROVE  /\ Untagged(f) \in Frame
           /\ Framed(Untagged(f), m, snap)
           /\ BodyAt(Untagged(f), PayloadAt(m, snap), w)
<1>1. n \in 0 .. 2 /\ f.octets \in Nat /\ Type(f, 0) = Halfword(f, 12)
  BY Offsets DEF Framed, Frame, Type
<1>2. CASE n = 0
  <2>1. Halfword(f, 12) = ARP \/ Halfword(f, 12) <= MaximumLength
    BY <1>2 DEF Framed
  <2>2. Halfword(f, 12) \notin {CTag, STag}
    <3>1. Halfword(f, 12) \in Nat
      BY FieldsAreHalfwords, HalfwordRange
    <3> QED
      BY <2>1, <3>1 DEF ARP, MaximumLength, CTag, STag
  <2>3. Untagged(f) = f
    BY <1>1, <2>2 DEF Untagged
  <2> QED
    BY <1>2, <2>3
<1>3. CASE n \in 1 .. 2
  <2>1. PICK g : g = [fields |-> SubSeq(f.fields, 3, Len(f.fields)), octets |-> f.octets - 4]
    OBVIOUS
  <2>2. Halfword(f, 12) \in {CTag, STag}
    BY <1>3 DEF Framed
  <2>3. Untagged(f) = g
    BY <1>1, <2>1, <2>2 DEF Untagged
  <2>4. PayloadAt(n, snap) = PayloadAt(m, snap) + 4 /\ PayloadAt(m, snap) \in Nat /\ m = n - 1
        /\ 14 <= PayloadAt(m, snap)
    BY <1>3 DEF PayloadAt
  <2>5. PayloadAt(n, snap) + 28 <= f.octets
    BY DEF Framed, ArpOctets
  <2>6. g \in Frame /\ \A o \in Nat : 12 <= o => Halfword(g, o) = Halfword(f, o + 4)
    <3>1. 4 <= f.octets
      BY <1>1, <2>4, <2>5
    <3> QED
      BY <2>1, <3>1, UntaggedFields
  <2>7. PayloadAt(m, snap) + ArpOctets <= g.octets
    BY <1>1, <2>1, <2>4, <2>5 DEF ArpOctets
  <2> DEFINE o == 12 + 4 * m
  <2>8. 12 + 4 * n = o + 4 /\ o \in Nat /\ 12 <= o
    BY <1>3, <2>4
  <2> HIDE DEF o
  <2>9. /\ Halfword(g, o) = Halfword(f, o + 4)
        /\ Halfword(g, o + 2) = Halfword(f, (o + 4) + 2)
        /\ Halfword(g, o + 4) = Halfword(f, (o + 4) + 4)
        /\ Halfword(g, o + 6) = Halfword(f, (o + 4) + 6)
        /\ Halfword(g, o + 8) = Halfword(f, (o + 4) + 8)
    <3>1. /\ o + 2 + 4 = (o + 4) + 2 /\ o + 4 + 4 = (o + 4) + 4 /\ o + 6 + 4 = (o + 4) + 6
          /\ o + 8 + 4 = (o + 4) + 8
      BY <2>8
    <3>2. /\ o + 2 \in Nat /\ 12 <= o + 2 /\ o + 4 \in Nat /\ 12 <= o + 4
          /\ o + 6 \in Nat /\ 12 <= o + 6 /\ o + 8 \in Nat /\ 12 <= o + 8
      BY <2>8
    <3> QED
      BY <2>6, <2>8, <3>1, <3>2
  <2>10. m = 1 => Halfword(g, 12) = CTag
    <3>1. Halfword(g, 12) = Halfword(f, 16)
      BY <2>6
    <3> QED
      BY <1>3, <2>4, <3>1 DEF Framed
  <2>11. Framed(g, m, snap)
    <3>1. IF snap
          THEN /\ Halfword(f, o + 4) <= MaximumLength
               /\ Halfword(f, (o + 4) + 2) = \hAAAA
               /\ Halfword(f, (o + 4) + 4) = \h0300
               /\ Halfword(f, (o + 4) + 6) = 0
               /\ Halfword(f, (o + 4) + 8) = ARP
          ELSE Halfword(f, o + 4) = ARP
      BY <2>8 DEF Framed
    <3>2. m \in 0 .. 2 /\ m # 2
      BY <1>3, <2>4
    <3> QED
      BY <2>7, <2>9, <2>10, <3>1, <3>2 DEF Framed, o
  <2>12. BodyAt(g, PayloadAt(m, snap), w)
    <3> DEFINE p == PayloadAt(m, snap)
    <3>1. p \in Nat /\ 12 <= p /\ PayloadAt(n, snap) = p + 4
      BY <2>4
    <3> HIDE DEF p
    <3>2. /\ Halfword(g, p) = Halfword(f, p + 4)
          /\ Halfword(g, p + 2) = Halfword(f, (p + 4) + 2)
          /\ Halfword(g, p + 4) = Halfword(f, (p + 4) + 4)
          /\ Halfword(g, p + 6) = Halfword(f, (p + 4) + 6)
      <4>1. p + 2 + 4 = (p + 4) + 2 /\ p + 4 + 4 = (p + 4) + 4 /\ p + 6 + 4 = (p + 4) + 6
        BY <3>1
      <4>2. /\ p + 2 \in Nat /\ 12 <= p + 2 /\ p + 4 \in Nat /\ 12 <= p + 4
            /\ p + 6 \in Nat /\ 12 <= p + 6
        BY <3>1
      <4> QED
        BY <2>6, <3>1, <4>1, <4>2
    <3>3. BodyAt(g, p, w)
      BY <3>1, <3>2 DEF BodyAt
    <3> QED
      BY <3>3 DEF p
  <2> QED
    BY <2>3, <2>6, <2>11, <2>12
<1> QED
  BY <1>1, <1>2, <1>3

\* The type a frame is delivered under: the one of its outermost tag, ARP, or
\* that of IEEE 802.2 for SNAP.
LEMMA FramedDelivered ==
    ASSUME NEW f \in Frame, NEW n, NEW snap \in BOOLEAN, Framed(f, n, snap)
    PROVE  Delivered(f) = IF n = 1 THEN CTag ELSE IF n = 2 THEN STag
                          ELSE IF snap THEN Ieee8022 ELSE ARP
<1>1. n \in 0 .. 2 /\ Type(f, 0) = Halfword(f, 12)
  BY Offsets DEF Framed, Type
<1>2. Halfword(f, 12) \in Nat
  BY FieldsAreHalfwords, HalfwordRange
<1>3. Delivered(f) = IF Halfword(f, 12) >= 1536 THEN Halfword(f, 12) ELSE Ieee8022
  BY <1>1 DEF Delivered, IsEthernetII, MinimumEtherType
<1>4. CASE n = 0
  <2>1. snap => Halfword(f, 12) <= 1500
    BY <1>4 DEF Framed, MaximumLength
  <2>2. ~snap => Halfword(f, 12) = ARP
    BY <1>4 DEF Framed
  <2> QED
    BY <1>2, <1>3, <1>4, <2>1, <2>2 DEF ARP
<1>5. CASE n = 1
  <2>1. Halfword(f, 12) = CTag
    BY <1>5 DEF Framed
  <2> QED
    BY <1>3, <1>5, <2>1 DEF CTag
<1>6. CASE n = 2
  <2>1. Halfword(f, 12) = STag
    BY <1>6 DEF Framed
  <2> QED
    BY <1>3, <1>6, <2>1 DEF STag
<1> QED
  BY <1>1, <1>4, <1>5, <1>6

-----------------------------------------------------------------------------
(* The runs *)

Opened == stage \notin {"asked", "rejected"}
Seen == stage \in {"captured", "dropped"}

\* The endpoint and the request follow the options; on macOS the filter is where
\* its way has led it, and its verdict is the parser's; on Linux the verdict is
\* the kernel's on the frame without its outermost tag.
CaptureInv ==
    /\ platform \in {"linux", "macos"}
    /\ wire \in Wires
    /\ Opened => Encodable(wire)
    /\ Opened /\ platform = "linux" =>
         capture = CaptureProtocol(wire) /\ sendAs = SendProtocol(wire)
    /\ Sent => request = EncodedRequest(wire)
    /\ stage = "filtering" =>
         /\ platform = "macos" /\ frame = onWire /\ frame \in Frame
         /\ at \in 0 .. 26 /\ Way(frame, at, acc)
    /\ Seen /\ platform = "macos" =>
         /\ frame = onWire /\ frame \in Frame
         /\ stage = "captured" <=> IsArp(frame)
    /\ Seen /\ platform = "linux" =>
         /\ frame = Untagged(onWire)
         /\ stage = "captured" <=> capture \in {AllProtocols, Delivered(frame)}

\* The options that are sent with are of the type of all options.
LEMMA OptionsTyped ==
    ASSUME wire \in Wires
    PROVE  wire \in WireOptions /\ wire.llc \in BOOLEAN
<1>1. wire \in WireOptions
  BY PlatformAssumption, Zenon
<1> QED
  BY <1>1 DEF WireOptions

\* The frames that arrive are frames.
LEMMA ArrivalsTyped ==
    ASSUME wire \in Wires, NEW f \in {MirroredReply(wire)} \cup ForeignFrames
    PROVE  f \in Frame
<1>1. MirroredReply(wire) \in Frame
  BY OptionsTyped, ReplyFramed, Zenon
<1>2. \A g \in ForeignFrames : g \in Frame
  BY PlatformAssumption, Zenon
<1> QED
  BY <1>1, <1>2, Zenon

\* Nothing is built or captured yet.
LEMMA CaptureInvStarts == Init => CaptureInv
<1> SUFFICES ASSUME Init PROVE CaptureInv
  OBVIOUS
<1>1. platform \in {"linux", "macos"}
  BY PlatformAssumption, Zenon DEF Init
<1> QED
  BY <1>1 DEF Init, CaptureInv, Opened, Seen, Sent

\* An instruction of the filter keeps to the way.
LEMMA FilterStep ==
    ASSUME CaptureInv, FilterLoad \/ FilterJump \/ FilterReturn
    PROVE  CaptureInv'
<1>1. /\ platform = "macos" /\ stage = "filtering" /\ frame = onWire /\ frame \in Frame
      /\ at \in 0 .. 26 /\ Way(frame, at, acc)
  BY DEF CaptureInv, FilterLoad, FilterJump, FilterReturn
<1>2. /\ wire \in Wires /\ Encodable(wire) /\ request = EncodedRequest(wire)
  BY <1>1 DEF CaptureInv, Opened, Sent
<1>3. UNCHANGED <<platform, wire, capture, sendAs, request, onWire, frame>>
  BY DEF FilterLoad, FilterJump, FilterReturn
<1>4. ASSUME stage' = "filtering", at' \in 0 .. 26, Way(frame, at', acc')
      PROVE  CaptureInv'
  BY <1>1, <1>2, <1>3, <1>4 DEF CaptureInv, Opened, Seen, Sent
<1>5. ASSUME stage' \in {"captured", "dropped"}, stage' = "captured" <=> IsArp(frame)
      PROVE  CaptureInv'
  BY <1>1, <1>2, <1>3, <1>5 DEF CaptureInv, Opened, Seen, Sent
<1>6. CASE FilterLoad
  <2> DEFINE i == ArpCaptureFilter[at + 1]
  <2>1. i.op = "load"
    BY <1>6 DEF FilterLoad, Instruction
  <2>2. /\ at + 1 \in 0 .. 26
        /\ i.offset + i.width <= frame.octets => Way(frame, at + 1, Loaded(frame, i.offset, i.width))
        /\ ~(i.offset + i.width <= frame.octets) => ~IsArp(frame)
    BY <1>1, <2>1, LoadKeepsWay
  <2>3. IF i.offset + i.width <= frame.octets
        THEN /\ acc' = Loaded(frame, i.offset, i.width)
             /\ at' = at + 1
             /\ stage' = stage
        ELSE stage' = "dropped"
    BY <1>6 DEF FilterLoad, Instruction, Loaded
  <2> HIDE DEF i
  <2> QED
    BY <1>1, <1>4, <1>5, <2>2, <2>3
<1>7. CASE FilterJump
  <2> DEFINE i == ArpCaptureFilter[at + 1]
  <2>1. /\ i.op = "equal" => LET next == at + 1 + IF acc = i.k THEN i.t ELSE i.f
                             IN next \in 0 .. 26 /\ Way(frame, next, acc)
        /\ i.op = "above" => LET next == at + 1 + IF acc[1] > i.k THEN i.t ELSE i.f
                             IN next \in 0 .. 26 /\ Way(frame, next, acc)
    BY <1>1, JumpKeepsWay
  <2>2. /\ \/ i.op = "equal" /\ at' = at + 1 + IF acc = i.k THEN i.t ELSE i.f
           \/ i.op = "above" /\ at' = at + 1 + IF acc[1] > i.k THEN i.t ELSE i.f
        /\ acc' = acc /\ stage' = stage
    BY <1>7 DEF FilterJump, Instruction
  <2> HIDE DEF i
  <2>3. at' \in 0 .. 26 /\ Way(frame, at', acc)
    BY <2>1, <2>2
  <2> QED
    BY <1>1, <1>4, <2>2, <2>3
<1>8. CASE FilterReturn
  <2>1. at \in {25, 26} /\ (Instruction.k = "accept" <=> at = 26)
    <3>1. at \notin {25, 26} => ArpCaptureFilter[at + 1].op # "return"
      BY <1>1, FilterText DEF Load2, Load4, IfEqual, IfAbove
    <3>2. ArpCaptureFilter[26].k = "drop" /\ ArpCaptureFilter[27].k = "accept"
      BY FilterText DEF Return
    <3> QED
      BY <1>8, <3>1, <3>2 DEF FilterReturn, Instruction
  <2>2. /\ at = 25 => ~IsArp(frame)
        /\ at = 26 => IsArp(frame)
    BY <1>1 DEF Way
  <2>3. stage' = IF Instruction.k = "accept" THEN "captured" ELSE "dropped"
    BY <1>8 DEF FilterReturn
  <2> QED
    BY <1>5, <2>1, <2>2, <2>3
<1> QED
  BY <1>6, <1>7, <1>8

\* Building, sending, answering and capturing keep the frame to what was built.
LEMMA CaptureInvKept == CaptureInv /\ [Next]_vars => CaptureInv'
<1> SUFFICES ASSUME CaptureInv, [Next]_vars PROVE CaptureInv'
  OBVIOUS
<1>1. CASE Reject
  BY <1>1 DEF Reject, CaptureInv, Opened, Seen, Sent
<1>2. CASE Open
  BY <1>2 DEF Open, CaptureInv, Opened, Seen, Sent
<1>3. CASE Send
  BY <1>3 DEF Send, CaptureInv, Opened, Seen, Sent
<1>4. CASE FrameArrives
  <2>1. stage = "listening" /\ UNCHANGED <<platform, wire, capture, sendAs, request>>
    BY <1>4 DEF FrameArrives
  <2>2. onWire' \in Frame
    BY <1>4, <2>1, ArrivalsTyped DEF FrameArrives, CaptureInv
  <2>3. CASE platform = "macos"
    <3>1. /\ frame' = onWire' /\ stage' = "filtering" /\ at' = 0
      BY <1>4, <2>3 DEF FrameArrives
    <3>2. Way(frame', 0, acc')
      BY DEF Way
    <3> QED
      BY <2>1, <2>2, <2>3, <3>1, <3>2 DEF CaptureInv, Opened, Seen, Sent
  <2>4. CASE platform = "linux"
    <3>1. /\ frame' = Untagged(onWire')
          /\ stage' = IF capture \in {AllProtocols, Delivered(frame')} THEN "captured" ELSE "dropped"
      BY <1>4, <2>4 DEF FrameArrives
    <3> QED
      BY <2>1, <2>4, <3>1 DEF CaptureInv, Opened, Seen, Sent
  <2> QED
    BY <2>3, <2>4 DEF CaptureInv
<1>5. CASE FilterLoad \/ FilterJump \/ FilterReturn
  BY <1>5, FilterStep
<1>6. CASE Continue
  BY <1>6 DEF Continue, CaptureInv, Opened, Seen, Sent
<1>7. CASE Rejected \/ UNCHANGED vars
  BY <1>7 DEF Rejected, vars, filter, CaptureInv, Opened, Seen, Sent
<1> QED
  BY <1>1, <1>2, <1>3, <1>4, <1>5, <1>6, <1>7 DEF Next

\* So every reachable state has it.
LEMMA CaptureInvHolds == Spec => []CaptureInv
BY CaptureInvStarts, CaptureInvKept, PTL DEF Spec

\* On macOS the filter admits exactly the frames in which the parser finds ARP,
\* for any frame of any length.
THEOREM FilterAgreesWithParser == Spec => []FilterAdmitsExactlyArp
<1>1. CaptureInv => FilterAdmitsExactlyArp
  BY DEF CaptureInv, Seen, FilterAdmitsExactlyArp
<1> QED
  BY <1>1, CaptureInvHolds, PTL

\* A reply in the framing of the request reaches the parser as a reply, for all
\* options that are accepted, on both platforms.
THEOREM RepliesAreHeard == Spec => []MirroredReplyRead
<1>1. ASSUME CaptureInv, onWire = MirroredReply(wire)
      PROVE  stage # "dropped" /\ (stage = "captured" => Kind(frame) = "reply")
  <2> DEFINE n == Tags(wire)
             snap == wire.llc
  <2>1. wire \in WireOptions /\ snap \in BOOLEAN /\ n \in 0 .. 2
    BY <1>1, OptionsTyped DEF CaptureInv, Tags
  <2>2. /\ onWire \in Frame /\ Framed(onWire, n, snap)
        /\ BodyAt(onWire, PayloadAt(n, snap), Answer(wire))
    BY <1>1, <2>1, ReplyFramed
  <2>3. CASE Seen /\ platform = "macos"
    <3>1. IsArp(onWire) /\ Kind(onWire) = "reply"
      BY <2>1, <2>2, FramedReply
    <3> QED
      BY <1>1, <2>3, <3>1 DEF CaptureInv, Seen
  <2>4. CASE Seen /\ platform = "linux"
    <3> DEFINE m == IF n = 0 THEN 0 ELSE n - 1
               g == Untagged(onWire)
    <3>1. g \in Frame /\ Framed(g, m, snap) /\ BodyAt(g, PayloadAt(m, snap), Answer(wire))
      BY <2>1, <2>2, FramedUntagged
    <3>2. Kind(g) = "reply"
      BY <2>1, <3>1, FramedReply
    <3>3. Delivered(g) = IF m = 1 THEN CTag ELSE IF m = 2 THEN STag
                         ELSE IF snap THEN Ieee8022 ELSE ARP
      BY <2>1, <3>1, FramedDelivered
    <3>4. capture = CaptureProtocol(wire) /\ Encodable(wire)
      BY <1>1, <2>4 DEF CaptureInv, Opened, Seen
    <3>5. \/ CaptureProtocol(wire) = AllProtocols
          \/ n = 0 /\ ~snap /\ CaptureProtocol(wire) = ARP
      BY <3>4 DEF CaptureProtocol, Encodable, Tags
    <3>6. CaptureProtocol(wire) \in {AllProtocols, Delivered(g)}
      BY <3>3, <3>5
    <3> QED
      BY <1>1, <2>4, <3>2, <3>4, <3>6 DEF CaptureInv, Seen
  <2> QED
    BY <1>1, <2>3, <2>4 DEF CaptureInv, Seen
<1>2. CaptureInv => MirroredReplyRead
  BY <1>1 DEF MirroredReplyRead
<1> QED
  BY <1>2, CaptureInvHolds, PTL

\* What was sent reads back as what was asked for.
THEOREM RequestsReadBack == Spec => []RequestReadsBack
<1>1. ASSUME CaptureInv, Sent
      PROVE  \E p \in Parsed(request) :
               /\ p.etherType = ARP
               /\ p.snap = wire.llc
               /\ Len(p.tags) = Len(TagStack(wire))
               /\ p.tags # <<>> => p.tags[Len(p.tags)] = wire.vlan
               /\ Len(p.tags) = 2 => p.tags[1] = wire.svlan
               /\ Opcode(request, p) = wire.op
               /\ p.snap => LET type == TypeOffset(Len(p.tags))
                            IN type + 2 + Halfword(request, type)
                                   = p.payload + ArpOctets + wire.padding
               /\ p.payload + ArpOctets + wire.padding <= request.octets
  <2> DEFINE n == Tags(wire)
             snap == wire.llc
             client == ClientOctets(wire)
             p == ParsedAs(request, n, snap)
             o == PayloadAt(n, snap)
  <2>1. wire \in WireOptions /\ snap \in BOOLEAN /\ n \in 0 .. 2
    BY <1>1, OptionsTyped DEF CaptureInv, Tags
  <2>2. request = EncodedRequest(wire) /\ client <= MaximumLength
    BY <1>1 DEF CaptureInv, Opened, Sent, Encodable
  <2>3. /\ request \in Frame
        /\ Framed(request, n, snap)
        /\ BodyAt(request, o, wire)
        /\ 14 + 4 * n + client <= request.octets
        /\ snap => Halfword(request, 12 + 4 * n) = client
        /\ n = 1 => Halfword(request, 14) = Tci(wire.vlan)
        /\ n = 2 => Halfword(request, 14) = Tci(wire.svlan) /\ Halfword(request, 18) = Tci(wire.vlan)
    BY <2>1, <2>2, RequestFramed
  <2>4. Parsed(request) = {p}
    BY <2>1, <2>3, FramedParsed
  <2>5. p.etherType = ARP /\ p.payload = o
    BY DEF ParsedAs
  <2>6. p.snap = snap
    BY Zenon DEF ParsedAs
  <2>7. p.tags = [i \in 1 .. n |-> TagOf(Halfword(request, 10 + 4 * i))]
    BY DEF ParsedAs
  <2>8. Len(p.tags) = n /\ Len(TagStack(wire)) = n
    BY <2>1, <2>7, HeaderWritten
  <2>9. wire.vlan \in Tag /\ wire.svlan \in Tag /\ wire.padding \in Nat
    BY <2>1 DEF WireOptions
  <2>10. /\ n # 0 => wire.vlan.vid # None
         /\ n = 2 => wire.svlan.vid # None
    BY DEF Tags
  <2>11. n = 1 => p.tags[1] = wire.vlan
    <3>1. n = 1 => p.tags[1] = TagOf(Halfword(request, 14))
      BY <2>7
    <3> QED
      BY <2>3, <2>9, <2>10, <3>1, TagReadsBack
  <2>12. n = 2 => p.tags[1] = wire.svlan /\ p.tags[2] = wire.vlan
    <3>1. n = 2 => p.tags[1] = TagOf(Halfword(request, 14)) /\ p.tags[2] = TagOf(Halfword(request, 18))
      BY <2>7
    <3> QED
      BY <2>3, <2>9, <2>10, <3>1, TagReadsBack
  <2>13. n = 0 => p.tags = <<>>
    BY <2>7
  <2>14. Opcode(request, p) = wire.op
    BY <2>3, <2>5 DEF Opcode, BodyAt
  <2>15. /\ client = 28 + wire.padding + (IF snap THEN 8 ELSE 0)
         /\ o = 14 + 4 * n + (IF snap THEN 8 ELSE 0)
         /\ request.octets \in Nat
    BY <2>3 DEF ClientOctets, ArpOctets, SnapOctets, PayloadAt, Frame
  <2>16. TypeOffset(n) = 12 + 4 * n
    BY DEF TypeOffset
  <2> HIDE DEF n, snap, client, p, o
  <2>17. o + 28 + wire.padding <= request.octets
    BY <2>1, <2>3, <2>9, <2>15
  <2>18. snap => TypeOffset(n) + 2 + Halfword(request, TypeOffset(n)) = o + 28 + wire.padding
    BY <2>1, <2>3, <2>9, <2>15, <2>16
  <2>19. p.tags # <<>> => p.tags[Len(p.tags)] = wire.vlan
    BY <2>1, <2>8, <2>11, <2>12, <2>13
  <2>20. Len(p.tags) = 2 => p.tags[1] = wire.svlan
    BY <2>8, <2>12
  <2> QED
    BY <2>4, <2>5, <2>6, <2>8, <2>14, <2>17, <2>18, <2>19, <2>20, Zenon DEF ArpOctets, snap
<1>2. CaptureInv => RequestReadsBack
  BY <1>1 DEF RequestReadsBack
<1> QED
  BY <1>2, CaptureInvHolds, PTL

\* On Linux a request is sent under the protocol that is on the wire.
THEOREM SentUnderItsProtocol == Spec => []SendProtocolOnWire
<1>1. ASSUME CaptureInv, Sent, platform = "linux"
      PROVE  sendAs = Delivered(request)
  <2> DEFINE n == Tags(wire)
             snap == wire.llc
  <2>1. wire \in WireOptions /\ snap \in BOOLEAN
    BY <1>1, OptionsTyped DEF CaptureInv
  <2>2. /\ request = EncodedRequest(wire) /\ ClientOctets(wire) <= MaximumLength
        /\ sendAs = SendProtocol(wire)
    BY <1>1 DEF CaptureInv, Opened, Sent, Encodable
  <2>3. request \in Frame /\ Framed(request, n, snap)
    BY <2>1, <2>2, RequestFramed
  <2>4. Delivered(request) = IF n = 1 THEN CTag ELSE IF n = 2 THEN STag
                             ELSE IF snap THEN Ieee8022 ELSE ARP
    BY <2>1, <2>3, FramedDelivered
  <2>5. SendProtocol(wire) = IF n = 1 THEN CTag ELSE IF n = 2 THEN STag
                             ELSE IF snap THEN Ieee8022 ELSE ARP
    <3>1. n = 0 => TagStack(wire) = <<>>
      BY DEF Tags, TagStack
    <3>2. n = 1 => TagStack(wire) = <<wire.vlan>>
      BY DEF Tags, TagStack
    <3>3. n = 2 => TagStack(wire) = <<wire.svlan, wire.vlan>>
      BY DEF Tags, TagStack
    <3>4. n \in {0, 1, 2}
      BY DEF Tags
    <3> HIDE DEF n
    <3> QED
      BY <3>1, <3>2, <3>3, <3>4 DEF SendProtocol, OuterTag
  <2> QED
    BY <2>2, <2>4, <2>5
<1>2. CaptureInv => SendProtocolOnWire
  BY <1>1 DEF SendProtocolOnWire
<1> QED
  BY <1>2, CaptureInvHolds, PTL
=============================================================================
