------------------------ MODULE PassiveMonitorProofs ------------------------
(***************************************************************************)
(* Proofs about PassiveMonitor for every set of packets, every limit and   *)
(* every timeout: types, the faithful list of records, the duplicate       *)
(* claims, and the two ends of the listen window.                          *)
(***************************************************************************)
EXTENDS PassiveMonitor, FiniteSetTheorems, TLAPS

USE DEF Outcomes, control, aggregator, history, vars
-----------------------------------------------------------------------------
(* Types *)

\* The wait handed to poll is a number of ticks.
LEMMA PollTimeoutIsTicks ==
    ASSUME NEW remaining \in Nat
    PROVE  PollTimeout(remaining) \in Nat
  <1>1. remaining \div TicksPerMillisecond \in Nat
    BY ClockAssumption
  <1>2. Smaller(remaining \div TicksPerMillisecond, MaxPollMilliseconds) \in Nat
    BY <1>1, ClockAssumption DEF Smaller
  <1>3. \A k, n \in Nat : k * n \in Nat
    OBVIOUS
  <1> QED
    BY <1>2, <1>3, ClockAssumption DEF PollTimeout

\* A repeat count stays between one and its limit.
LEMMA CountStaysInRange ==
    ASSUME NEW n \in 0 .. MaxCount
    PROVE  /\ SaturatingSuccessor(n) \in 1 .. MaxCount
           /\ Smaller(n + 1, MaxCount) \in 1 .. MaxCount
  BY LimitAssumption DEF SaturatingSuccessor, Smaller

\* NoteSender keeps the types of the claimants and of their order.
LEMMA NoteSenderType ==
    ASSUME TypeOK, NEW p \in Packets, NoteSender(p)
    PROVE  claimants' \in [Ips -> SUBSET Macs] /\ claimOrder' \in Seq(Ips)
  <1>1. p.ip \in Ips /\ p.mac \in Macs
    BY DEF Ips, Macs
  <1>2. claimants \in [Ips -> SUBSET Macs] /\ claimOrder \in Seq(Ips)
    BY DEF TypeOK
  <1>3. claimants' \in [Ips -> SUBSET Macs]
    BY <1>1, <1>2 DEF NoteSender
  <1>4. claimOrder' \in Seq(Ips)
    BY <1>1, <1>2 DEF NoteSender
  <1> QED
    BY <1>3, <1>4

\* Types in the initial state.
LEMMA InitTypeOK == Init => TypeOK
  <1> SUFFICES ASSUME Init PROVE TypeOK
    OBVIOUS
  <1>1. 0 \in 0 .. MaxCount /\ 0 <= RecordLimit
    BY LimitAssumption
  <1>2. records \in Seq(Record) /\ Len(records) <= RecordLimit
    BY <1>1 DEF Init
  <1>3. /\ malformed \in [Reasons -> 0 .. MaxCount]
        /\ tally \in [Packets -> 0 .. MaxCount]
    BY <1>1 DEF Init
  <1>4. claimants \in [Ips -> SUBSET Macs] /\ indexes \in [Packets -> Nat]
    BY DEF Init
  <1>5. /\ claimOrder \in Seq(Ips)
        /\ queue \in Seq(Frames)
        /\ firstRead \in Seq(Packets)
    BY DEF Init
  <1>6. /\ pc = "start" /\ timeout \in Timeouts
        /\ deadline = 0 /\ pollUntil = 0 /\ now = 0 /\ overrun = 0
        /\ duplicates = {}
    BY DEF Init
  <1>7. deadline \in Nat /\ pollUntil \in Nat /\ now \in Nat /\ overrun \in 0 .. 2
    BY <1>6
  <1>8. truncated \in BOOLEAN
    BY Zenon DEF Init
  <1>9. /\ pc \in {"start", "check", "poll", "drain", "read"} \cup Outcomes
        /\ duplicates \subseteq [ip : Ips, macs : SUBSET Macs]
    BY <1>6
  <1> QED
    BY <1>2, <1>3, <1>4, <1>5, <1>6, <1>7, <1>8, <1>9 DEF TypeOK

\* One observed packet keeps the types of everything it touches.
LEMMA ObserveType ==
    ASSUME TypeOK, NEW p \in Packets, Observe(p)
    PROVE  /\ records' \in Seq(Record)
           /\ Len(records') <= RecordLimit
           /\ indexes' \in [Packets -> Nat]
           /\ claimants' \in [Ips -> SUBSET Macs]
           /\ claimOrder' \in Seq(Ips)
           /\ malformed' \in [Reasons -> 0 .. MaxCount]
           /\ truncated' \in BOOLEAN
           /\ tally' \in [Packets -> 0 .. MaxCount]
           /\ firstRead' \in Seq(Packets)
  <1> DEFINE AggregatorTyped ==
        /\ records' \in Seq(Record)
        /\ Len(records') <= RecordLimit
        /\ indexes' \in [Packets -> Nat]
        /\ claimants' \in [Ips -> SUBSET Macs]
        /\ claimOrder' \in Seq(Ips)
        /\ truncated' \in BOOLEAN
  <1>1. tally' \in [Packets -> 0 .. MaxCount]
    <2>1. tally[p] \in 0 .. MaxCount /\ tally \in [Packets -> 0 .. MaxCount]
      BY DEF TypeOK
    <2>2. Smaller(tally[p] + 1, MaxCount) \in 0 .. MaxCount
      BY <2>1, CountStaysInRange
    <2> QED
      BY <2>1, <2>2 DEF Observe
  <1>2. firstRead' \in Seq(Packets)
    BY DEF Observe, TypeOK
  <1>3. malformed' \in [Reasons -> 0 .. MaxCount]
    BY DEF Observe, TypeOK
  <1>4. CASE Suppressed(p)
    <2>1. AggregatorTyped
      BY <1>4 DEF Observe, TypeOK
    <2> QED
      BY <2>1, <1>1, <1>2, <1>3
  <1>5. CASE ~Suppressed(p) /\ Repeat(p)
    <2>1. records' \in Seq(Record) /\ Len(records') <= RecordLimit
      <3>1. CASE indexes[p] \in DOMAIN records
        <4>1. records[indexes[p]] \in Record
          BY <3>1 DEF TypeOK
        <4>2. SaturatingSuccessor(records[indexes[p]].count) \in 1 .. MaxCount
          BY <4>1, CountStaysInRange, LimitAssumption DEF Record
        <4>3. [records[indexes[p]] EXCEPT
                 !.count = SaturatingSuccessor(records[indexes[p]].count)] \in Record
          BY <4>1, <4>2 DEF Record
        <4>4. records' = [records EXCEPT ![indexes[p]] =
                 [records[indexes[p]] EXCEPT
                    !.count = SaturatingSuccessor(records[indexes[p]].count)]]
          BY <1>5 DEF Repeat
        <4> HIDE DEF Record
        <4> QED
          BY <3>1, <4>3, <4>4 DEF TypeOK
      <3>2. CASE indexes[p] \notin DOMAIN records
        <4>1. records' = records
          BY <1>5, <3>2 DEF Repeat, TypeOK
        <4> QED
          BY <4>1 DEF TypeOK
      <3> QED
        BY <3>1, <3>2
    <2>2. claimants' \in [Ips -> SUBSET Macs] /\ claimOrder' \in Seq(Ips)
      BY <1>5, NoteSenderType DEF Repeat
    <2>3. indexes' \in [Packets -> Nat] /\ truncated' \in BOOLEAN
      BY <1>5 DEF Repeat, TypeOK
    <2> QED
      BY <2>1, <2>2, <2>3, <1>1, <1>2, <1>3
  <1>6. CASE ~Suppressed(p) /\ Drop(p)
    <2>1. AggregatorTyped
      BY <1>6 DEF Drop, TypeOK
    <2> QED
      BY <2>1, <1>1, <1>2, <1>3
  <1>7. CASE ~Suppressed(p) /\ Retain(p)
    <2>1. [packet |-> p, class |-> Class(p), count |-> 1] \in Record
      BY LimitAssumption DEF Record, Class
    <2>2. records' = Append(records, [packet |-> p, class |-> Class(p), count |-> 1])
      BY <1>7 DEF Retain
    <2>3. Len(records) < RecordLimit /\ Len(records) \in Nat
      BY <1>7 DEF Retain, RoomForRecord, TypeOK
    <2>4. records' \in Seq(Record) /\ Len(records') = Len(records) + 1
      BY <2>1, <2>2 DEF TypeOK
    <2>5. indexes' \in [Packets -> Nat]
      BY <1>7, <2>3 DEF Retain, TypeOK
    <2>6. claimants' \in [Ips -> SUBSET Macs] /\ claimOrder' \in Seq(Ips)
      BY <1>7, NoteSenderType DEF Retain
    <2>7. truncated' \in BOOLEAN
      BY <1>7 DEF Retain, TypeOK
    <2>8. Len(records') <= RecordLimit
      BY <2>3, <2>4, LimitAssumption
    <2> QED
      BY <2>4, <2>5, <2>6, <2>7, <2>8, <1>1, <1>2, <1>3
  <1> QED
    BY <1>4, <1>5, <1>6, <1>7 DEF Observe

\* One frame read keeps every type.
LEMMA ReadFrameType ==
    ASSUME TypeOK, ReadFrame
    PROVE  TypeOK'
  <1>1. queue \in Seq(Frames) /\ queue # <<>> /\ queue' = Tail(queue)
    BY DEF ReadFrame, TypeOK
  <1>2. Head(queue) \in Frames /\ queue' \in Seq(Frames)
    BY <1>1
  <1>3. overrun' \in 0 .. 2
    BY DEF ReadFrame, TypeOK, Smaller
  <1>4. /\ timeout' \in Timeouts /\ deadline' \in Nat /\ pollUntil' \in Nat
        /\ duplicates' \subseteq [ip : Ips, macs : SUBSET Macs]
        /\ now' \in Nat /\ pc' = "drain"
    BY DEF ReadFrame, TypeOK
  <1>5. CASE Head(queue).kind = "arp" /\ Observe(Head(queue).packet)
    <2>1. Head(queue).packet \in Packets
      BY <1>2, <1>5 DEF Frames
    <2> QED
      BY <1>2, <1>3, <1>4, <1>5, <2>1, ObserveType DEF TypeOK
  <1>6. CASE Head(queue).kind = "malformed" /\ RecordMalformed(Head(queue).reason)
    <2>1. Head(queue).reason \in Reasons
      BY <1>2, <1>6 DEF Frames
    <2>2. /\ malformed \in [Reasons -> 0 .. MaxCount]
          /\ SaturatingSuccessor(malformed[Head(queue).reason]) \in 0 .. MaxCount
      BY <2>1, CountStaysInRange DEF TypeOK
    <2>3. malformed' \in [Reasons -> 0 .. MaxCount]
      BY <1>6, <2>2 DEF RecordMalformed
    <2> QED
      BY <1>2, <1>3, <1>4, <1>6, <2>3 DEF RecordMalformed, TypeOK
  <1>7. CASE Head(queue).kind = "unrelated" /\ Ignore
    BY <1>2, <1>3, <1>4, <1>7 DEF Ignore, TypeOK
  <1> QED
    BY <1>5, <1>6, <1>7 DEF ReadFrame

\* TypeOK is inductive.
LEMMA NextTypeOK == TypeOK /\ [Next]_vars => TypeOK'
  <1> SUFFICES ASSUME TypeOK, [Next]_vars PROVE TypeOK'
    OBVIOUS
  <1> USE ClockAssumption
  <1>1. CASE Start
    <2>1. timeout \in Nat
      BY DEF TypeOK
    <2> QED
      BY <1>1, <2>1 DEF Start, TypeOK
  <1>2. CASE PollRemaining
    <2>1. deadline - now \in Nat /\ now \in Nat
      BY <1>2 DEF PollRemaining, ListenOpen, TypeOK
    <2>2. pollUntil' \in Nat
      BY <1>2, <2>1, PollTimeoutIsTicks DEF PollRemaining
    <2> QED
      BY <1>2, <2>2 DEF PollRemaining, TypeOK
  <1>3. CASE PollReturns
    BY <1>3 DEF PollReturns, TypeOK
  <1>4. CASE CheckBeforeRead
    BY <1>4 DEF CheckBeforeRead, TypeOK
  <1>5. CASE BufferEmpty
    BY <1>5 DEF BufferEmpty, TypeOK
  <1>6. CASE ReadFrame
    BY <1>6, ReadFrameType
  <1>7. CASE Finish
    <2>1. DuplicateClaims \subseteq [ip : Ips, macs : SUBSET Macs]
      BY DEF DuplicateClaims, TypeOK
    <2> QED
      BY <1>7, <2>1 DEF Finish, TypeOK
  <1>8. CASE PollInterrupted
    BY <1>8 DEF PollInterrupted, TypeOK
  <1>9. CASE EndpointFails
    BY <1>9 DEF EndpointFails, TypeOK
  <1>10. CASE FrameArrives
    <2>1. queue' \in Seq(Frames)
      BY <1>10 DEF FrameArrives, TypeOK
    <2> QED
      BY <1>10, <2>1 DEF FrameArrives, TypeOK
  <1>11. CASE Tick
    BY <1>11 DEF Tick, TypeOK
  <1>12. CASE UNCHANGED vars
    BY <1>12 DEF TypeOK
  <1> QED
    BY <1>1, <1>2, <1>3, <1>4, <1>5, <1>6, <1>7, <1>8, <1>9, <1>10, <1>11, <1>12
       DEF Next, Thread, Returned

\* The types of the monitor's state, and the cap on its records, hold always.
THEOREM MonitorTypeCorrect == Spec => []TypeOK
  BY InitTypeOK, NextTypeOK, PTL DEF Spec
-----------------------------------------------------------------------------
(* The list of records *)

\* The index and the list agree.
IndexInv ==
    /\ \A p \in Packets : indexes[p] \in 0 .. Len(records)
    /\ \A p \in Packets : indexes[p] # 0 => records[indexes[p]].packet = p
    /\ \A k \in 1 .. Len(records) : indexes[records[k].packet] = k

\* The list follows what was read; once it has fallen behind it is full.
ListInv ==
    /\ Len(records) <= Len(firstRead)
    /\ Len(records) < Len(firstRead) => truncated /\ Len(records) >= RecordLimit
    /\ truncated => Len(records) < Len(firstRead)
    /\ \A k \in 1 .. Len(records) :
        /\ records[k].packet = firstRead[k]
        /\ records[k].class = Class(firstRead[k])
        /\ records[k].count = tally[firstRead[k]]
    /\ \A k \in 1 .. Len(firstRead) : Foreign(firstRead[k])
    /\ \A p \in Packets : Foreign(p) => \E k \in 1 .. Len(firstRead) : firstRead[k] = p

RecordsInv == TypeOK /\ IndexInv /\ ListInv

\* A packet the interface sent itself leaves the list as it is.
LEMMA SuppressedListInv ==
    ASSUME RecordsInv, NEW p \in Packets, Observe(p), Suppressed(p)
    PROVE  IndexInv' /\ ListInv'
  <1>1. /\ UNCHANGED <<records, indexes, truncated, firstRead>>
        /\ tally' = [tally EXCEPT ![p] = Smaller(@ + 1, MaxCount)]
    BY DEF Observe
  <1>2. \A q \in Packets : q # p => tally'[q] = tally[q]
    BY <1>1 DEF RecordsInv, TypeOK
  <1>3. \A q \in Packets : Foreign(q) <=> Foreign(q)'
    BY <1>1, <1>2 DEF Foreign, Suppressed
  <1>4. \A k \in 1 .. Len(firstRead) : firstRead[k] \in Packets /\ firstRead[k] # p
    BY DEF RecordsInv, TypeOK, ListInv, Foreign
  <1>5. IndexInv'
    BY <1>1 DEF RecordsInv, IndexInv
  <1>6. ListInv'
    BY <1>1, <1>2, <1>3, <1>4 DEF RecordsInv, ListInv
  <1> QED
    BY <1>5, <1>6

\* A repeated packet is counted in its own record.
LEMMA RepeatListInv ==
    ASSUME RecordsInv, NEW p \in Packets, Observe(p), ~Suppressed(p), Repeat(p)
    PROVE  IndexInv' /\ ListInv'
  <1> DEFINE i == indexes[p]
  <1>1. /\ records \in Seq(Record) /\ firstRead \in Seq(Packets)
        /\ tally \in [Packets -> 0 .. MaxCount]
        /\ indexes \in [Packets -> Nat]
    BY DEF RecordsInv, TypeOK
  <1>2. i \in 1 .. Len(records) /\ records[i].packet = p
    BY <1>1 DEF Repeat, RecordsInv, IndexInv
  <1>3. firstRead[i] = p /\ Foreign(p) /\ records[i].count = tally[p]
    BY SMTT(60), <1>1, <1>2 DEF RecordsInv, ListInv
  <1>4. /\ firstRead' = firstRead /\ indexes' = indexes /\ truncated' = truncated
        /\ tally' = [tally EXCEPT ![p] = Smaller(@ + 1, MaxCount)]
    BY <1>1, <1>3 DEF Observe, Repeat, Foreign
  <1>5. /\ Len(records') = Len(records)
        /\ \A k \in 1 .. Len(records) :
             /\ records'[k].packet = records[k].packet
             /\ records'[k].class = records[k].class
             /\ records'[k].count = IF k = i THEN SaturatingSuccessor(records[k].count)
                                             ELSE records[k].count
    BY SMTT(60), <1>1, <1>2 DEF Repeat, Record
  <1>6. \A q \in Packets :
          tally'[q] = IF q = p THEN SaturatingSuccessor(tally[q]) ELSE tally[q]
    BY <1>1, <1>4 DEF SaturatingSuccessor
  <1>7. \A q \in Packets : Foreign(q) => Foreign(q)'
    <2>1. tally[p] \in 0 .. MaxCount
      BY <1>1
    <2>2. SaturatingSuccessor(tally[p]) \in 1 .. MaxCount
      BY <2>1, CountStaysInRange
    <2>3. SaturatingSuccessor(tally[p]) > 0
      BY <2>2, LimitAssumption
    <2> QED
      BY <1>6, <2>3 DEF Foreign, Suppressed
  <1>8. \A q \in Packets : Foreign(q)' => Foreign(q)
    BY <1>3, <1>6 DEF Foreign, Suppressed
  <1>9. IndexInv'
    BY <1>4, <1>5 DEF RecordsInv, IndexInv
  <1>10. \A k \in 1 .. Len(records) : firstRead[k] = p <=> k = i
    BY <1>2, <1>3 DEF RecordsInv, IndexInv, ListInv
  <1>11. \A k \in 1 .. Len(firstRead) : firstRead[k] \in Packets
    BY <1>1
  <1>12. \A k \in 1 .. Len(records) : records'[k].count = tally'[firstRead[k]]
    <2> SUFFICES ASSUME NEW k \in 1 .. Len(records)
                 PROVE  records'[k].count = tally'[firstRead[k]]
      OBVIOUS
    <2>1. records[k].count = tally[firstRead[k]]
      BY DEF RecordsInv, ListInv
    <2>2. Len(records) \in Nat /\ Len(firstRead) \in Nat
      BY <1>1
    <2>3. k \in 1 .. Len(firstRead)
      BY <2>2 DEF RecordsInv, ListInv
    <2>4. firstRead[k] \in Packets
      BY <2>3, <1>11
    <2> QED
      BY <2>1, <2>4, <1>5, <1>6, <1>10
  <1>13. ListInv'
    BY <1>4, <1>5, <1>7, <1>8, <1>11, <1>12 DEF RecordsInv, ListInv
  <1> QED
    BY <1>9, <1>13

\* A packet without a record is not among the packets the list begins with.
LEMMA NotListed ==
    ASSUME RecordsInv, NEW p \in Packets, indexes[p] = 0
    PROVE  /\ \A k \in 1 .. Len(records) : firstRead[k] # p
           /\ Len(records) < RecordLimit => ~Foreign(p)
  <1>1. \A k \in 1 .. Len(records) : firstRead[k] # p
    BY DEF RecordsInv, IndexInv, ListInv
  <1>2. Len(records) \in Nat /\ Len(firstRead) \in Nat
    BY DEF RecordsInv, TypeOK
  <1>3. Len(records) < RecordLimit => Len(records) = Len(firstRead)
    BY <1>2, LimitAssumption DEF RecordsInv, ListInv
  <1> QED
    BY <1>1, <1>3 DEF RecordsInv, ListInv

\* A packet dropped at the limit is admitted by the warning.
LEMMA DropListInv ==
    ASSUME RecordsInv, NEW p \in Packets, Observe(p), ~Suppressed(p), Drop(p)
    PROVE  IndexInv' /\ ListInv'
  <1>1. /\ records \in Seq(Record) /\ firstRead \in Seq(Packets)
        /\ tally \in [Packets -> 0 .. MaxCount]
    BY DEF RecordsInv, TypeOK
  <1>2. /\ records' = records /\ indexes' = indexes /\ truncated'
        /\ Len(records) >= RecordLimit
    BY <1>1, LimitAssumption DEF Drop, RoomForRecord
  <1>3. \A k \in 1 .. Len(records) : firstRead[k] # p
    BY NotListed DEF Drop
  <1>4. \A q \in Packets : q # p => tally'[q] = tally[q]
    BY <1>1 DEF Observe
  <1>5. tally'[p] > 0
    <2>1. tally[p] \in 0 .. MaxCount /\ tally'[p] = Smaller(tally[p] + 1, MaxCount)
      BY <1>1 DEF Observe
    <2>2. tally'[p] \in 1 .. MaxCount
      BY <2>1, CountStaysInRange
    <2> QED
      BY <2>2, LimitAssumption
  <1>6. \A q \in Packets : Foreign(q)' <=> Foreign(q) \/ q = p
    BY <1>4, <1>5 DEF Foreign, Suppressed
  <1>7. IndexInv'
    BY <1>2 DEF RecordsInv, IndexInv
  <1>8. CASE tally[p] = 0
    <2>1. firstRead' = Append(firstRead, p)
      BY <1>8 DEF Observe
    <2>2. /\ Len(firstRead') = Len(firstRead) + 1
          /\ \A k \in 1 .. Len(firstRead) : firstRead'[k] = firstRead[k]
          /\ firstRead'[Len(firstRead) + 1] = p
      BY <1>1, <2>1
    <2>3. /\ Len(records) \in Nat /\ Len(firstRead) \in Nat
          /\ Len(records) <= Len(firstRead)
          /\ \A k \in 1 .. Len(firstRead) : firstRead[k] \in Packets
      BY <1>1 DEF RecordsInv, ListInv
    <2>4. \A k \in 1 .. Len(records') :
            /\ records'[k].packet = firstRead'[k]
            /\ records'[k].class = Class(firstRead'[k])
            /\ records'[k].count = tally'[firstRead'[k]]
      BY <1>2, <1>3, <1>4, <2>2, <2>3 DEF RecordsInv, ListInv
    <2>5. (\A k \in 1 .. Len(firstRead) : Foreign(firstRead[k]))'
      BY <1>6, <2>2, <2>3 DEF RecordsInv, ListInv
    <2>6. \A q \in Packets : Foreign(q)' =>
            \E k \in 1 .. Len(firstRead') : firstRead'[k] = q
      BY <1>6, <2>2, <2>3 DEF RecordsInv, ListInv
    <2>7. Len(records') <= Len(firstRead')
      BY <1>2, <2>2, <2>3
    <2>8. Len(records') < Len(firstRead')
      BY <1>2, <2>2, <2>3
    <2>9. ListInv'
      BY <1>2, <2>4, <2>5, <2>6, <2>7, <2>8 DEF ListInv
    <2> QED
      BY <1>7, <2>9
  <1>9. CASE tally[p] # 0
    <2>1. firstRead' = firstRead /\ Foreign(p)
      BY <1>1, <1>9 DEF Observe, Foreign
    <2>2. \A k \in 1 .. Len(firstRead) : firstRead[k] \in Packets
      BY <1>1
    <2>3. Len(records) \in Nat /\ Len(firstRead) \in Nat /\ Len(records) <= Len(firstRead)
      BY <1>1 DEF RecordsInv, ListInv
    <2>4. Len(records) < Len(firstRead)
      <3>1. PICK k \in 1 .. Len(firstRead) : firstRead[k] = p
        BY <2>1 DEF RecordsInv, ListInv
      <3>2. k \notin 1 .. Len(records)
        BY <1>3, <3>1
      <3> QED
        BY <2>3, <3>2
    <2>5. ListInv'
      BY <1>2, <1>3, <1>4, <1>6, <2>1, <2>2, <2>3, <2>4 DEF RecordsInv, ListInv
    <2> QED
      BY <1>7, <2>5
  <1> QED
    BY <1>8, <1>9

\* A retained packet is the next one first read.
LEMMA RetainListInv ==
    ASSUME RecordsInv, NEW p \in Packets, Observe(p), ~Suppressed(p), Retain(p)
    PROVE  IndexInv' /\ ListInv'
  <1>1. /\ records \in Seq(Record) /\ firstRead \in Seq(Packets)
        /\ tally \in [Packets -> 0 .. MaxCount]
        /\ indexes \in [Packets -> Nat]
        /\ Len(records) \in Nat /\ Len(firstRead) \in Nat
    BY DEF RecordsInv, TypeOK
  <1>2. /\ indexes[p] = 0 /\ Len(records) < RecordLimit
        /\ indexes' = [indexes EXCEPT ![p] = Len(records) + 1]
        /\ records' = Append(records, [packet |-> p, class |-> Class(p), count |-> 1])
        /\ truncated' = truncated
    BY DEF Retain, RoomForRecord
  <1>3. ~Foreign(p) /\ \A k \in 1 .. Len(records) : firstRead[k] # p
    BY <1>2, NotListed
  <1>4. Len(firstRead) = Len(records)
    BY <1>1, <1>2, LimitAssumption DEF RecordsInv, ListInv
  <1>5. tally[p] = 0
    BY <1>1, <1>3 DEF Foreign
  <1>6. /\ firstRead' = Append(firstRead, p)
        /\ tally' = [tally EXCEPT ![p] = Smaller(@ + 1, MaxCount)]
    BY <1>5 DEF Observe
  <1>7. tally'[p] = 1
    BY <1>1, <1>5, <1>6, LimitAssumption DEF Smaller
  <1>8. /\ Len(records') = Len(records) + 1
        /\ \A k \in 1 .. Len(records) : records'[k] = records[k]
        /\ records'[Len(records) + 1] = [packet |-> p, class |-> Class(p), count |-> 1]
    BY <1>1, <1>2
  <1>9. /\ Len(firstRead') = Len(records) + 1
        /\ \A k \in 1 .. Len(records) : firstRead'[k] = firstRead[k]
        /\ firstRead'[Len(records) + 1] = p
    BY <1>1, <1>4, <1>6
  <1>10. \A q \in Packets : q # p => tally'[q] = tally[q] /\ indexes'[q] = indexes[q]
    BY <1>1, <1>2, <1>6
  <1>11. \A q \in Packets : Foreign(q)' <=> Foreign(q) \/ q = p
    BY <1>7, <1>10 DEF Foreign, Suppressed
  <1>12. indexes'[p] = Len(records) + 1
    BY <1>1, <1>2
  <1>13. \A k \in 1 .. Len(records) : firstRead[k] \in Packets
    BY <1>1, <1>4
  <1>14. IndexInv'
    <2>1. \A q \in Packets :
            /\ indexes[q] \in 0 .. Len(records)
            /\ indexes[q] # 0 => records[indexes[q]].packet = q
      BY DEF RecordsInv, IndexInv
    <2>2. ASSUME NEW q \in Packets
          PROVE  /\ indexes'[q] \in 0 .. Len(records')
                 /\ indexes'[q] # 0 => records'[indexes'[q]].packet = q
      <3>1. CASE q = p
        BY <3>1, <1>1, <1>8, <1>12
      <3>2. CASE q # p
        <4>1. indexes'[q] = indexes[q] /\ indexes[q] \in 0 .. Len(records)
          <5>1. indexes'[q] = indexes[q]
            BY <3>2, <1>10
          <5>2. indexes[q] \in 0 .. Len(records)
            BY <3>2, <2>1
          <5> QED
            BY <5>1, <5>2
        <4>2. indexes[q] # 0 =>
                records'[indexes[q]] = records[indexes[q]] /\ records[indexes[q]].packet = q
          <5> SUFFICES ASSUME indexes[q] # 0
                       PROVE  /\ records'[indexes[q]] = records[indexes[q]]
                              /\ records[indexes[q]].packet = q
            OBVIOUS
          <5>1. indexes[q] \in 1 .. Len(records)
            BY <4>1, <1>1
          <5> QED
            BY <3>2, <5>1, <1>8, <2>1
        <4> QED
          BY <4>1, <4>2, <1>1, <1>8
      <3> QED
        BY <3>1, <3>2
    <2>3. ASSUME NEW k \in 1 .. Len(records')
          PROVE  indexes'[records'[k].packet] = k
      <3>1. CASE k = Len(records) + 1
        BY <3>1, <1>8, <1>12
      <3>2. CASE k # Len(records) + 1
        <4>1. k \in 1 .. Len(records)
          BY <3>2, <1>1, <1>8
        <4>2. records'[k] = records[k] /\ records[k].packet = firstRead[k]
              /\ indexes[records[k].packet] = k
          BY <4>1, <1>8 DEF RecordsInv, ListInv, IndexInv
        <4>3. firstRead[k] \in Packets /\ firstRead[k] # p
          BY <4>1, <1>3, <1>13
        <4> QED
          BY <4>2, <4>3, <1>10
      <3> QED
        BY <3>1, <3>2
    <2> QED
      BY <2>2, <2>3 DEF IndexInv
  <1>15. ListInv'
    <2>1. \A k \in 1 .. Len(records) : firstRead[k] \in Packets
      BY <1>1, <1>4
    <2>2. \A k \in 1 .. Len(records') :
            /\ records'[k].packet = firstRead'[k]
            /\ records'[k].class = Class(firstRead'[k])
            /\ records'[k].count = tally'[firstRead'[k]]
      <3> SUFFICES ASSUME NEW k \in 1 .. Len(records')
                   PROVE  /\ records'[k].packet = firstRead'[k]
                          /\ records'[k].class = Class(firstRead'[k])
                          /\ records'[k].count = tally'[firstRead'[k]]
        OBVIOUS
      <3>1. CASE k = Len(records) + 1
        BY <3>1, <1>7, <1>8, <1>9
      <3>2. CASE k # Len(records) + 1
        <4>1. k \in 1 .. Len(records)
          BY <3>2, <1>1, <1>8
        <4>2. /\ records'[k] = records[k] /\ firstRead'[k] = firstRead[k]
              /\ tally'[firstRead[k]] = tally[firstRead[k]]
          BY <4>1, <1>3, <1>8, <1>9, <1>10, <2>1
        <4> QED
          BY <4>1, <4>2 DEF RecordsInv, ListInv
      <3> QED
        BY <3>1, <3>2
    <2>3. (\A k \in 1 .. Len(firstRead) : Foreign(firstRead[k]))'
      <3>1. \A q \in Packets :
              Foreign(q) \/ q = p => tally'[q] > 0 /\ ~Suppressed(q)
        BY <1>11 DEF Foreign, Suppressed
      <3>2. \A k \in 1 .. Len(records) : Foreign(firstRead[k]) /\ firstRead[k] \in Packets
        BY <1>4, <1>13 DEF RecordsInv, ListInv
      <3>3. ASSUME NEW k \in 1 .. Len(firstRead')
            PROVE  tally'[firstRead'[k]] > 0 /\ ~Suppressed(firstRead'[k])
        <4>1. CASE k = Len(records) + 1
          BY <4>1, <3>1, <1>9
        <4>2. CASE k # Len(records) + 1
          <5>1. k \in 1 .. Len(records) /\ firstRead'[k] = firstRead[k]
            BY <4>2, <1>1, <1>9
          <5> QED
            BY <5>1, <3>1, <3>2
        <4> QED
          BY <4>1, <4>2
      <3> QED
        BY <3>3 DEF Foreign, Suppressed
    <2>4. \A q \in Packets : Foreign(q)' =>
            \E k \in 1 .. Len(firstRead') : firstRead'[k] = q
      <3>1. Len(records) + 1 \in 1 .. Len(firstRead')
        BY <1>1, <1>9
      <3>2. \A k \in 1 .. Len(records) : k \in 1 .. Len(firstRead')
        BY <1>1, <1>9
      <3>3. \A q \in Packets : Foreign(q) => \E k \in 1 .. Len(records) : firstRead[k] = q
        BY <1>4 DEF RecordsInv, ListInv
      <3> QED
        BY <1>9, <1>11, <3>1, <3>2, <3>3
    <2>5. Len(records') = Len(firstRead') /\ Len(records') \in Nat
      BY <1>1, <1>8, <1>9
    <2>6. ~truncated'
      BY <1>1, <1>2, <1>4 DEF RecordsInv, ListInv
    <2> QED
      BY <2>2, <2>3, <2>4, <2>5, <2>6 DEF ListInv
  <1> QED
    BY <1>14, <1>15

\* The list's invariant looks at nothing but the list and the history.
LEMMA RecordsInvUnchanged ==
    ASSUME IndexInv, ListInv, UNCHANGED <<records, indexes, truncated, tally, firstRead>>
    PROVE  IndexInv' /\ ListInv'
  BY DEF IndexInv, ListInv, Foreign, Suppressed, Class

\* RecordsInv is inductive.
LEMMA NextRecordsInv == RecordsInv /\ [Next]_vars => RecordsInv'
  <1> SUFFICES ASSUME RecordsInv, [Next]_vars PROVE RecordsInv'
    OBVIOUS
  <1>1. TypeOK'
    BY NextTypeOK DEF RecordsInv
  <1>2. CASE ReadFrame
    <2>1. queue \in Seq(Frames) /\ queue # <<>>
      BY <1>2 DEF ReadFrame, RecordsInv, TypeOK
    <2>2. Head(queue) \in Frames
      BY <2>1
    <2>3. CASE Head(queue).kind = "arp" /\ Observe(Head(queue).packet)
      <3>1. Head(queue).packet \in Packets
        BY <2>2, <2>3 DEF Frames
      <3>2. IndexInv' /\ ListInv'
        BY <2>3, <3>1, SuppressedListInv, RepeatListInv, DropListInv, RetainListInv
           DEF Observe
      <3> QED
        BY <1>1, <3>2 DEF RecordsInv
    <2>4. CASE Head(queue).kind = "malformed" /\ RecordMalformed(Head(queue).reason)
      BY <1>1, <2>4, RecordsInvUnchanged DEF RecordMalformed, RecordsInv
    <2>5. CASE Head(queue).kind = "unrelated" /\ Ignore
      BY <1>1, <2>5, RecordsInvUnchanged DEF Ignore, RecordsInv
    <2> QED
      BY <1>2, <2>3, <2>4, <2>5 DEF ReadFrame
  <1>3. CASE ~ReadFrame
    <2>1. UNCHANGED <<records, indexes, truncated, tally, firstRead>>
      BY <1>3 DEF Next, Thread, Start, PollRemaining, PollReturns, CheckBeforeRead,
                  BufferEmpty, Finish, PollInterrupted, EndpointFails, FrameArrives,
                  Tick, Returned
    <2> QED
      BY <1>1, <2>1, RecordsInvUnchanged DEF RecordsInv
  <1> QED
    BY <1>2, <1>3

\* RecordsInv in the initial state.
LEMMA InitRecordsInv == Init => RecordsInv
  <1> SUFFICES ASSUME Init PROVE RecordsInv
    OBVIOUS
  <1>1. IndexInv /\ ListInv
    BY DEF Init, IndexInv, ListInv, Foreign
  <1> QED
    BY <1>1, InitTypeOK DEF RecordsInv

\* The list holds what was read first, up to its limit.
LEMMA ListIsFull ==
    ASSUME RecordsInv
    PROVE  /\ Len(records) = Smaller(Len(firstRead), RecordLimit)
           /\ truncated <=> Len(firstRead) > RecordLimit
  <1>1. Len(records) \in Nat /\ Len(firstRead) \in Nat /\ Len(records) <= RecordLimit
    BY DEF RecordsInv, TypeOK
  <1>2. /\ Len(records) <= Len(firstRead)
        /\ Len(records) < Len(firstRead) => truncated /\ Len(records) >= RecordLimit
        /\ truncated => Len(records) < Len(firstRead)
    BY DEF RecordsInv, ListInv
  <1> QED
    BY <1>1, <1>2, LimitAssumption DEF Smaller

\* Of what was read first from other stations the list holds, for every limit and any
\* traffic, as much as it has room for: in order, each packet with its class and its
\* count; and the warning says exactly whether there was more.
THEOREM RecordsAlwaysFaithful == Spec => []RecordsFaithful
  <1>1. RecordsInv => RecordsFaithful
    <2> SUFFICES ASSUME RecordsInv PROVE RecordsFaithful
      OBVIOUS
    <2>1. DOMAIN records = 1 .. Len(records)
      BY DEF RecordsInv, TypeOK
    <2>2. ASSUME NEW k \in DOMAIN records
          PROVE  /\ records[k].packet = firstRead[k]
                 /\ records[k].class = Class(firstRead[k])
                 /\ records[k].count = tally[firstRead[k]]
      BY <2>1 DEF RecordsInv, ListInv
    <2>3. \A p : Class(p) = "conflict"
                    <=> p.ip \in LocalIps /\ p.op \in {"request", "reply"}
      BY DEF Class
    <2> QED
      BY <2>2, <2>3, ListIsFull DEF RecordsFaithful
  <1> QED
    BY <1>1, InitRecordsInv, NextRecordsInv, PTL DEF Spec
-----------------------------------------------------------------------------
(* Duplicate claims *)

Claimants(ip) == {p.mac : p \in {q \in Packets : indexes[q] # 0 /\ Claims(q) /\ q.ip = ip}}

\* The claimants are the senders of the retained observations, each claimed
\* address is listed once, and the outcome repeats them.
ClaimInv ==
    /\ \A ip \in Ips : claimants[ip] = Claimants(ip)
    /\ \A ip \in Ips :
        claimants[ip] # {} <=> \E k \in 1 .. Len(claimOrder) : claimOrder[k] = ip
    /\ \A j, k \in 1 .. Len(claimOrder) : j # k => claimOrder[j] # claimOrder[k]
    /\ pc = "done" => duplicates = DuplicateClaims

MonitorInv == RecordsInv /\ ClaimInv

\* Noting the sender of a packet adds it to the claimants of its address.
LEMMA NoteSenderClaims ==
    ASSUME MonitorInv, NEW p \in Packets, NoteSender(p)
    PROVE  /\ \A ip \in Ips : claimants'[ip] = IF Claims(p) /\ ip = p.ip
                                              THEN claimants[ip] \cup {p.mac}
                                              ELSE claimants[ip]
           /\ \A ip \in Ips :
                claimants'[ip] # {} <=> \E k \in 1 .. Len(claimOrder') : claimOrder'[k] = ip
           /\ \A j, k \in 1 .. Len(claimOrder') : j # k => claimOrder'[j] # claimOrder'[k]
  <1>1. /\ claimants \in [Ips -> SUBSET Macs] /\ claimOrder \in Seq(Ips)
        /\ p.ip \in Ips /\ Len(claimOrder) \in Nat
    <2>1. claimants \in [Ips -> SUBSET Macs] /\ claimOrder \in Seq(Ips)
      BY DEF MonitorInv, RecordsInv, TypeOK
    <2>2. p.ip \in Ips
      BY DEF Ips
    <2> QED
      BY <2>1, <2>2
  <1>2. \A ip \in Ips : claimants'[ip] = IF Claims(p) /\ ip = p.ip
                                         THEN claimants[ip] \cup {p.mac}
                                         ELSE claimants[ip]
    BY <1>1 DEF NoteSender
  <1>3. CASE Claims(p) /\ claimants[p.ip] = {}
    <2>1. claimOrder' = Append(claimOrder, p.ip)
      BY <1>3 DEF NoteSender
    <2>2. /\ Len(claimOrder') = Len(claimOrder) + 1
          /\ \A k \in 1 .. Len(claimOrder) : claimOrder'[k] = claimOrder[k]
          /\ claimOrder'[Len(claimOrder) + 1] = p.ip
      BY <1>1, <2>1
    <2>3. \A k \in 1 .. Len(claimOrder) : claimOrder[k] # p.ip
      BY <1>1, <1>3 DEF MonitorInv, ClaimInv
    <2>4. ASSUME NEW j \in 1 .. Len(claimOrder'), NEW k \in 1 .. Len(claimOrder'), j # k
          PROVE  claimOrder'[j] # claimOrder'[k]
      <3>1. CASE j = Len(claimOrder) + 1
        <4>1. k \in 1 .. Len(claimOrder)
          BY <3>1, <2>4, <1>1, <2>2
        <4> QED
          BY <3>1, <4>1, <2>2, <2>3
      <3>2. CASE k = Len(claimOrder) + 1
        <4>1. j \in 1 .. Len(claimOrder)
          BY <3>2, <2>4, <1>1, <2>2
        <4> QED
          BY <3>2, <4>1, <2>2, <2>3
      <3>3. CASE j # Len(claimOrder) + 1 /\ k # Len(claimOrder) + 1
        <4>1. j \in 1 .. Len(claimOrder) /\ k \in 1 .. Len(claimOrder)
          BY <3>3, <1>1, <2>2
        <4> QED
          BY <4>1, <2>2, <2>4 DEF MonitorInv, ClaimInv
      <3> QED
        BY <3>1, <3>2, <3>3
    <2>5. ASSUME NEW ip \in Ips
          PROVE  claimants'[ip] # {} <=> \E k \in 1 .. Len(claimOrder') : claimOrder'[k] = ip
      <3>1. Len(claimOrder) + 1 \in 1 .. Len(claimOrder')
            /\ \A k \in 1 .. Len(claimOrder) : k \in 1 .. Len(claimOrder')
        BY <1>1, <2>2
      <3>2. CASE ip = p.ip
        <4>1. claimants'[ip] # {}
          BY <3>2, <1>2, <1>3
        <4> QED
          BY <3>1, <3>2, <4>1, <2>2
      <3>3. CASE ip # p.ip
        <4>1. claimants'[ip] = claimants[ip]
          BY <3>3, <1>2
        <4>2. \A k \in 1 .. Len(claimOrder') : claimOrder'[k] = ip =>
                k \in 1 .. Len(claimOrder) /\ claimOrder[k] = ip
          BY <3>3, <1>1, <2>2
        <4>3. claimants[ip] # {} <=> \E k \in 1 .. Len(claimOrder) : claimOrder[k] = ip
          BY DEF MonitorInv, ClaimInv
        <4> QED
          BY <3>1, <4>1, <4>2, <4>3, <2>2
      <3> QED
        BY <3>2, <3>3
    <2> QED
      BY <1>2, <2>4, <2>5
  <1>4. CASE ~(Claims(p) /\ claimants[p.ip] = {})
    <2>1. claimOrder' = claimOrder
      BY <1>4 DEF NoteSender
    <2>2. \A ip \in Ips : claimants'[ip] = {} <=> claimants[ip] = {}
      BY <1>2, <1>4
    <2> QED
      BY <1>2, <2>1, <2>2 DEF MonitorInv, ClaimInv
  <1> QED
    BY <1>3, <1>4

\* One observed packet keeps the claimants in step with the list.
LEMMA ObserveClaims ==
    ASSUME MonitorInv, NEW p \in Packets, Observe(p)
    PROVE  /\ \A ip \in Ips : claimants'[ip] = Claimants(ip)'
           /\ \A ip \in Ips :
                claimants'[ip] # {} <=> \E k \in 1 .. Len(claimOrder') : claimOrder'[k] = ip
           /\ \A j, k \in 1 .. Len(claimOrder') : j # k => claimOrder'[j] # claimOrder'[k]
  <1>1. CASE UNCHANGED <<indexes, claimants, claimOrder>>
    BY <1>1 DEF MonitorInv, ClaimInv, Claimants, Claims, Class
  <1>2. CASE Repeat(p)
    <2>1. indexes' = indexes /\ indexes[p] # 0 /\ NoteSender(p)
      BY <1>2 DEF Repeat
    <2>2. Claims(p) => p.mac \in claimants[p.ip]
      BY <2>1 DEF MonitorInv, ClaimInv, Claimants, Ips
    <2>3. \A ip \in Ips : claimants'[ip] = claimants[ip]
      <3>1. \A ip \in Ips : claimants'[ip] = IF Claims(p) /\ ip = p.ip
                                             THEN claimants[ip] \cup {p.mac}
                                             ELSE claimants[ip]
        BY <2>1, NoteSenderClaims
      <3> QED
        BY <2>2, <3>1
    <2>4. \A ip \in Ips : Claimants(ip)' = Claimants(ip)
      BY <2>1 DEF Claimants, Claims, Class
    <2>5. \A ip \in Ips : claimants'[ip] = Claimants(ip)'
      BY <2>3, <2>4 DEF MonitorInv, ClaimInv
    <2> QED
      BY <2>1, <2>5, NoteSenderClaims
  <1>3. CASE Retain(p)
    <2>1. /\ indexes[p] = 0 /\ NoteSender(p)
          /\ indexes' = [indexes EXCEPT ![p] = Len(records) + 1]
      BY <1>3 DEF Retain
    <2>2. indexes \in [Packets -> Nat] /\ Len(records) + 1 # 0
      BY DEF MonitorInv, RecordsInv, TypeOK
    <2>3. \A q \in Packets : indexes'[q] # 0 <=> indexes[q] # 0 \/ q = p
      BY <2>1, <2>2
    <2>4. \A ip \in Ips : Claimants(ip)' = IF Claims(p) /\ ip = p.ip
                                           THEN Claimants(ip) \cup {p.mac}
                                           ELSE Claimants(ip)
      BY <2>3 DEF Claimants, Claims, Class
    <2>5. \A ip \in Ips : claimants'[ip] = Claimants(ip)'
      <3>1. \A ip \in Ips : claimants'[ip] = IF Claims(p) /\ ip = p.ip
                                             THEN claimants[ip] \cup {p.mac}
                                             ELSE claimants[ip]
        BY <2>1, NoteSenderClaims
      <3>2. \A ip \in Ips : claimants[ip] = Claimants(ip)
        BY DEF MonitorInv, ClaimInv
      <3> QED
        BY <2>4, <3>1, <3>2
    <2> QED
      BY <2>1, <2>5, NoteSenderClaims
  <1> QED
    BY <1>1, <1>2, <1>3 DEF Observe, Drop

\* MonitorInv in the initial state.
LEMMA InitMonitorInv == Init => MonitorInv
  <1> SUFFICES ASSUME Init PROVE MonitorInv
    OBVIOUS
  <1>1. \A ip \in Ips : claimants[ip] = {} /\ Claimants(ip) = {}
    BY DEF Init, Claimants
  <1>2. claimOrder = <<>> /\ Len(claimOrder) = 0 /\ pc # "done"
    BY DEF Init
  <1>3. \A k \in 1 .. Len(claimOrder) : FALSE
    BY <1>2
  <1>4. ClaimInv
    BY <1>1, <1>2, <1>3 DEF ClaimInv
  <1> QED
    BY <1>4, InitRecordsInv DEF MonitorInv

\* MonitorInv is inductive.
LEMMA NextMonitorInv == MonitorInv /\ [Next]_vars => MonitorInv'
  <1> SUFFICES ASSUME MonitorInv, [Next]_vars PROVE MonitorInv'
    OBVIOUS
  <1>1. RecordsInv'
    BY NextRecordsInv DEF MonitorInv
  <1>2. CASE ReadFrame
    <2>1. queue \in Seq(Frames) /\ queue # <<>>
      BY <1>2 DEF ReadFrame, MonitorInv, RecordsInv, TypeOK
    <2>2. Head(queue) \in Frames /\ pc' = "drain"
      BY <2>1, <1>2 DEF ReadFrame
    <2>3. CASE Head(queue).kind = "arp" /\ Observe(Head(queue).packet)
      <3>1. Head(queue).packet \in Packets
        BY <2>2, <2>3 DEF Frames
      <3>2. ClaimInv'
        BY <2>2, <2>3, <3>1, ObserveClaims DEF ClaimInv
      <3> QED
        BY <1>1, <3>2 DEF MonitorInv
    <2>4. CASE UNCHANGED <<indexes, claimants, claimOrder>>
      <3>1. ClaimInv'
        BY <2>2, <2>4 DEF MonitorInv, ClaimInv, Claimants, Claims, Class
      <3> QED
        BY <1>1, <3>1 DEF MonitorInv
    <2> QED
      BY <1>2, <2>3, <2>4 DEF ReadFrame, RecordMalformed, Ignore
  <1>3. CASE Finish
    <2>1. /\ UNCHANGED <<indexes, claimants, claimOrder>>
          /\ duplicates' = DuplicateClaims
      BY <1>3 DEF Finish
    <2>2. DuplicateClaims' = DuplicateClaims
      BY <2>1 DEF DuplicateClaims, Shared
    <2>3. ClaimInv'
      BY <2>1, <2>2 DEF MonitorInv, ClaimInv, Claimants, Claims, Class
    <2> QED
      BY <1>1, <2>3 DEF MonitorInv
  <1>4. CASE ~ReadFrame /\ ~Finish
    <2>1. /\ UNCHANGED <<indexes, claimants, claimOrder, duplicates>>
          /\ pc' = "done" => pc = "done"
      BY <1>4 DEF Next, Thread, Start, PollRemaining, PollReturns, CheckBeforeRead,
                  BufferEmpty, PollInterrupted, EndpointFails, FrameArrives, Tick,
                  Returned
    <2>2. DuplicateClaims' = DuplicateClaims
      BY <2>1 DEF DuplicateClaims, Shared
    <2>3. ClaimInv'
      BY <2>1, <2>2 DEF MonitorInv, ClaimInv, Claimants, Claims, Class
    <2> QED
      BY <1>1, <2>3 DEF MonitorInv
  <1> QED
    BY <1>2, <1>3, <1>4

\* What has an index was read; without truncation, what was read has an index.
LEMMA IndexedWasRead ==
    ASSUME RecordsInv, NEW q \in Packets
    PROVE  /\ indexes[q] # 0 => Foreign(q)
           /\ ~truncated => (Foreign(q) <=> indexes[q] # 0)
  <1>1. Len(records) \in Nat /\ Len(firstRead) \in Nat /\ indexes[q] \in Nat
    BY DEF RecordsInv, TypeOK
  <1>2. indexes[q] # 0 => Foreign(q)
    <2> SUFFICES ASSUME indexes[q] # 0 PROVE Foreign(q)
      OBVIOUS
    <2>1. indexes[q] \in 1 .. Len(records) /\ records[indexes[q]].packet = q
      BY <1>1 DEF RecordsInv, IndexInv
    <2>2. firstRead[indexes[q]] = q /\ indexes[q] \in 1 .. Len(firstRead)
      BY <2>1, <1>1 DEF RecordsInv, ListInv
    <2> QED
      BY <2>2 DEF RecordsInv, ListInv
  <1>3. ~truncated /\ Foreign(q) => indexes[q] # 0
    <2> SUFFICES ASSUME ~truncated, Foreign(q) PROVE indexes[q] # 0
      OBVIOUS
    <2>1. Len(records) = Len(firstRead)
      BY <1>1 DEF RecordsInv, ListInv
    <2>2. PICK k \in 1 .. Len(records) : firstRead[k] = q
      BY <2>1 DEF RecordsInv, ListInv
    <2>3. indexes[q] = k
      BY <2>2 DEF RecordsInv, IndexInv, ListInv
    <2> QED
      BY <2>3
  <1> QED
    BY <1>2, <1>3

\* The packets with an index are those that an outcome has room for.
LEMMA IndexedIsKept ==
    ASSUME RecordsInv, NEW q \in Packets
    PROVE  indexes[q] # 0 <=> q \in Kept
  <1>1. Len(records) \in Nat /\ indexes[q] \in Nat
    BY DEF RecordsInv, TypeOK
  <1>2. Kept = {firstRead[k] : k \in 1 .. Len(records)}
    BY ListIsFull DEF Kept
  <1>3. ASSUME indexes[q] # 0 PROVE q \in Kept
    <2>1. indexes[q] \in 1 .. Len(records) /\ records[indexes[q]].packet = q
      BY <1>1, <1>3 DEF RecordsInv, IndexInv
    <2>2. firstRead[indexes[q]] = q
      BY <2>1 DEF RecordsInv, ListInv
    <2> QED
      BY <1>2, <2>1, <2>2
  <1>4. ASSUME q \in Kept PROVE indexes[q] # 0
    <2>1. PICK k \in 1 .. Len(records) : firstRead[k] = q
      BY <1>2, <1>4
    <2>2. indexes[q] = k
      BY <2>1 DEF RecordsInv, IndexInv, ListInv
    <2> QED
      BY <2>2
  <1> QED
    BY <1>3, <1>4

\* The claimants of an address that may be claimed are the stations that claimed it in
\* the packets kept; the other addresses have none.
LEMMA ClaimantsAreKept ==
    ASSUME MonitorInv, NEW ip \in Ips
    PROVE  claimants[ip] = IF ip \in LocalIps \cup {ZeroIp} THEN {} ELSE Claimed(ip)
  <1>1. claimants[ip] = {p.mac : p \in {q \in Packets : indexes[q] # 0 /\ Claims(q) /\ q.ip = ip}}
    BY DEF MonitorInv, ClaimInv, Claimants
  <1>2. \A q \in Packets : indexes[q] # 0 <=> q \in Kept
    BY IndexedIsKept DEF MonitorInv
  <1>3. \A q : q.ip = ip => (Claims(q) <=> ip \notin LocalIps \cup {ZeroIp})
    BY DEF Claims, Class
  <1>4. Kept \subseteq Packets
    <2>1. firstRead \in Seq(Packets) /\ Len(firstRead) \in Nat
      BY DEF MonitorInv, RecordsInv, TypeOK
    <2>2. \A k \in 1 .. Smaller(Len(firstRead), RecordLimit) : k \in 1 .. Len(firstRead)
      BY <2>1, LimitAssumption DEF Smaller
    <2> QED
      BY <2>1, <2>2 DEF Kept
  <1>5. CASE ip \in LocalIps \cup {ZeroIp}
    BY <1>1, <1>3, <1>5
  <1>6. CASE ip \notin LocalIps \cup {ZeroIp}
    <2>1. {q \in Packets : indexes[q] # 0 /\ Claims(q) /\ q.ip = ip} = {q \in Kept : q.ip = ip}
      BY <1>2, <1>3, <1>4, <1>6
    <2> QED
      BY <1>1, <1>6, <2>1 DEF Claimed
  <1> QED
    BY <1>5, <1>6

\* The duplicate claims of an outcome are, for every set of packets and every limit, also
\* when packets were dropped, exactly the addresses that two or more stations claimed in
\* the packets kept, with exactly those stations, each once.
THEOREM DuplicatesAlwaysReported == Spec => []DuplicatesReported
  <1>1. MonitorInv => DuplicatesReported
    <2> SUFFICES ASSUME MonitorInv, pc = "done" PROVE DuplicatesReported
      BY DEF DuplicatesReported
    <2> DEFINE foreign == Ips \ (LocalIps \cup {ZeroIp})
               shared == {j \in foreign : Cardinality(Claimed(j)) >= 2}
    <2>1. duplicates = DuplicateClaims
      BY DEF MonitorInv, ClaimInv
    <2>2. DOMAIN claimOrder = 1 .. Len(claimOrder)
          /\ \A k \in DOMAIN claimOrder : claimOrder[k] \in Ips
      BY DEF MonitorInv, RecordsInv, TypeOK
    <2>3. \A j, k \in DOMAIN claimOrder : j # k => claimOrder[j] # claimOrder[k]
      BY <2>2 DEF MonitorInv, ClaimInv
    <2>4. \A ip \in Ips : Shared(ip) <=> ip \in shared
      <3>1. ~ (0 >= 2) /\ Cardinality({}) = 0
        BY FS_EmptySet
      <3> QED
        BY <3>1, ClaimantsAreKept DEF Shared
    <2>5. \A ip \in Ips : Shared(ip) => \E k \in DOMAIN claimOrder : claimOrder[k] = ip
      <3>1. \A ip \in Ips : Shared(ip) => claimants[ip] # {}
        BY FS_EmptySet DEF Shared
      <3> QED
        BY <2>2, <3>1 DEF MonitorInv, ClaimInv
    <2>6. \A ip \in shared : claimants[ip] = Claimed(ip)
      BY ClaimantsAreKept
    <2>7. DuplicateClaims = {[ip |-> i, macs |-> Claimed(i)] : i \in shared}
      <3> HIDE DEF shared
      <3>1. shared \subseteq Ips
        BY DEF shared
      <3>2. DuplicateClaims = {[ip |-> i, macs |-> claimants[i]] : i \in shared}
        BY <2>2, <2>4, <2>5, <3>1 DEF DuplicateClaims
      <3> QED
        BY <2>6, <3>2
    <2> QED
      BY <2>1, <2>3, <2>7 DEF DuplicatesReported
  <1> QED
    BY <1>1, InitMonitorInv, NextMonitorInv, PTL DEF Spec

\* A quiet outcome is quiet for a reason, for every set of packets and limit.
THEOREM QuietIsQuiet == Spec => []QuietOnlyWithoutConflict
  <1>1. RecordsInv => QuietOnlyWithoutConflict
    <2> SUFFICES ASSUME RecordsInv, ~truncated,
                        \A k \in DOMAIN records : records[k].class # "conflict",
                        NEW p \in Packets, tally[p] > 0, p.mac # LocalMac, p.ip \in LocalIps
                 PROVE  p.op \notin {"request", "reply"}
      BY DEF QuietOnlyWithoutConflict
    <2>1. indexes[p] # 0
      BY IndexedWasRead DEF Foreign, Suppressed
    <2>2. indexes[p] \in 1 .. Len(records) /\ DOMAIN records = 1 .. Len(records)
      BY <2>1 DEF RecordsInv, IndexInv, TypeOK
    <2>3. records[indexes[p]].packet = p
      BY <2>1 DEF RecordsInv, IndexInv
    <2>4. records[indexes[p]].class = Class(p)
      BY <2>2, <2>3 DEF RecordsInv, ListInv
    <2> QED
      BY <2>2, <2>4 DEF Class
  <1> QED
    BY <1>1, InitRecordsInv, NextRecordsInv, PTL DEF Spec
-----------------------------------------------------------------------------
(* The two ends of the window *)

\* A read that ended past the deadline was the last: what follows looks at the
\* clock first; and the deadline, once set, leaves the whole timeout.
WindowInv ==
    /\ overrun <= 1
    /\ overrun # 0 => now >= deadline /\ pc \notin {"start", "poll", "read"}
    /\ pc \notin {"start", "timeoutRejected", "timingError"} => deadline >= timeout
    /\ pc = "done" => now >= deadline

\* WindowInv is inductive on top of the types.
LEMMA NextWindowInv == TypeOK /\ WindowInv /\ [Next]_vars => WindowInv'
  <1> SUFFICES ASSUME TypeOK, WindowInv, [Next]_vars PROVE WindowInv'
    OBVIOUS
  <1>0. now \in Nat /\ deadline \in Nat /\ timeout \in Nat /\ overrun \in 0 .. 2
    BY ClockAssumption DEF TypeOK
  <1>1. CASE Start
    BY <1>0, <1>1 DEF Start, WindowInv
  <1>2. CASE PollRemaining
    BY <1>0, <1>2 DEF PollRemaining, ListenOpen, WindowInv
  <1>3. CASE PollReturns \/ PollInterrupted
    BY <1>3 DEF PollReturns, PollInterrupted, WindowInv
  <1>4. CASE CheckBeforeRead
    BY <1>0, <1>4 DEF CheckBeforeRead, ReadAllowed, WindowInv
  <1>5. CASE ReadFrame
    BY <1>0, <1>5 DEF ReadFrame, Smaller, WindowInv
  <1>6. CASE Finish
    BY <1>0, <1>6 DEF Finish, ListenOpen, WindowInv
  <1>7. CASE BufferEmpty \/ EndpointFails
    BY <1>7 DEF BufferEmpty, EndpointFails, WindowInv
  <1>8. CASE FrameArrives
    BY <1>8 DEF FrameArrives, WindowInv
  <1>9. CASE Tick
    BY <1>0, <1>9 DEF Tick, WindowInv
  <1>10. CASE UNCHANGED vars
    BY <1>10 DEF WindowInv
  <1> QED
    BY <1>1, <1>2, <1>3, <1>4, <1>5, <1>6, <1>7, <1>8, <1>9, <1>10
       DEF Next, Thread, Returned

\* WindowInv in the initial state.
LEMMA InitWindowInv == Init => WindowInv
  BY DEF Init, WindowInv

\* However the buffer is filled, at most one read ends after the deadline.
THEOREM OverrunIsBounded == Spec => []OverrunBounded
  <1>1. WindowInv => OverrunBounded
    BY DEF WindowInv, OverrunBounded
  <1> QED
    BY <1>1, InitTypeOK, NextTypeOK, InitWindowInv, NextWindowInv, PTL DEF Spec

\* However polls are rounded and interrupted, a listen lasts its whole timeout.
THEOREM ListenIsWhole == Spec => []ListenNotCutShort
  <1>1. TypeOK /\ WindowInv => ListenNotCutShort
    <2>1. TypeOK => now \in Nat /\ deadline \in Nat /\ timeout \in Nat
      BY ClockAssumption DEF TypeOK
    <2> QED
      BY <2>1 DEF WindowInv, ListenNotCutShort
  <1> QED
    BY <1>1, InitTypeOK, NextTypeOK, InitWindowInv, NextWindowInv, PTL DEF Spec
=============================================================================
