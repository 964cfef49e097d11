----------------------- MODULE CaptureEndpointProofs -----------------------
(***************************************************************************)
(* For every platform, client and buffer: a poll never waits while frames  *)
(* lie in the read buffer (DrainInv), the records of a read are returned   *)
(* each once and in order (RecordsInv), and what the two buffers hold is   *)
(* the queue of CaptureQueue, from which nothing is lost in between.       *)
(***************************************************************************)
EXTENDS CaptureEndpoint, FiniteSetTheorems, SequenceTheorems, LibraryLemmas

\* Outside a drain the read buffer is used up: a scan leaves a drain only when
\* there is nothing to read, and a monitor that leaves one earlier has no other
\* window, since it began its only one.
DrainInv ==
    /\ windows \in Nat
    /\ pc \in {"closed", "unbound", "away", "polling"} => ~Unread
    /\ pc \in {"polling"} \cup Receiving => windows >= 1

\* Nothing is buffered before the endpoint is open.
LEMMA InitDrainInv == Init => DrainInv
  BY DEF Init, DrainInv, Unread, Receiving

\* DrainInv is inductive, one step per action.
LEMMA NextDrainInv == DrainInv /\ [Next]_vars => DrainInv'
  <1> SUFFICES ASSUME DrainInv, [Next]_vars PROVE DrainInv'
    OBVIOUS
  <1> USE DEF DrainInv, Unread, Receiving, reader, vars
  <1>1. CASE OpenDevice \/ OpenSocket \/ Bind \/ OpenFails
    BY <1>1 DEF OpenDevice, OpenSocket, Bind, OpenFails
  <1>2. CASE BeginWindow
    BY <1>2 DEF BeginWindow
  <1>3. CASE PollReadable \/ PollErrorCondition
    BY <1>3 DEF PollReadable, PollErrorCondition
  <1>4. CASE WindowEnds
    <2>1. CASE pc = "polling"
      BY <1>4, <2>1 DEF WindowEnds
    <2>2. CASE pc = "reading"
      <3>1. client = "monitor"
        BY <1>4, <2>2 DEF WindowEnds
      <3>2. ~MoreWindows
        BY <2>2, <3>1 DEF MoreWindows
      <3> QED
        BY <1>4, <3>2 DEF WindowEnds
    <2> QED
      BY <1>4, <2>1, <2>2 DEF WindowEnds
  <1>5. CASE ReceiveFrame
    BY <1>5 DEF ReceiveFrame, AfterFrame
  <1>6. CASE TakeRecord
    BY <1>6 DEF TakeRecord, AfterFrame
  <1>7. CASE SkipPartialRecord \/ ReadRecords
    BY <1>7 DEF SkipPartialRecord, ReadRecords
  <1>8. CASE NothingToRead
    BY <1>8 DEF NothingToRead
  <1>9. CASE EndpointFails
    BY <1>9 DEF EndpointFails
  <1>10. CASE FrameArrives
    BY <1>10 DEF FrameArrives
  <1>11. CASE Closed \/ UNCHANGED vars
    BY <1>11 DEF Closed
  <1> QED
    BY <1>1, <1>2, <1>3, <1>4, <1>5, <1>6, <1>7, <1>8, <1>9, <1>10, <1>11
       DEF Next, Thread

\* Whatever records a read brought, in whole or in part, and however the drain
\* ended: while poll is waited for, the endpoint holds nothing back.
THEOREM PollNeverBlind == Spec => []PollSeesEverything
  <1>1. DrainInv => PollSeesEverything
    BY DEF DrainInv, PollSeesEverything
  <1> QED
    BY <1>1, InitDrainInv, NextDrainInv, PTL DEF Spec
-----------------------------------------------------------------------------
\* Aligned positions.
Aligned(n) == n \in Nat /\ \E q \in Nat : n = Alignment * q

\* Rounding up reaches the next aligned position, and commutes with adding one.
LEMMA RoundedUpFacts ==
    ASSUME NEW n \in Nat
    PROVE  /\ Aligned(RoundedUp(n)) /\ RoundedUp(n) \in Nat /\ RoundedUp(n) >= n
           /\ \A m : Aligned(m) => RoundedUp(m + n) = m + RoundedUp(n)
  <1>1. (n + 3) \div 4 \in Nat
    OBVIOUS
  <1>2. RoundedUp(n) = 4 * ((n + 3) \div 4)
    BY <1>1 DEF RoundedUp, Alignment
  <1>3. ASSUME NEW m, Aligned(m) PROVE RoundedUp(m + n) = m + RoundedUp(n)
    <2>1. PICK q \in Nat : m = 4 * q
      BY <1>3 DEF Aligned, Alignment
    <2>2. (m + n + 3) \div 4 = q + ((n + 3) \div 4)
      BY <2>1
    <2> QED
      BY <2>1, <2>2, <1>1, <1>2 DEF RoundedUp, Alignment
  <1> QED
    BY <1>1, <1>2, <1>3 DEF Aligned, Alignment

\* The positions of the first n records.
ArePositions(starts, frames, n) ==
    /\ starts \in [1 .. n -> Nat]
    /\ \A k \in 1 .. n :
         starts[k] = IF k = 1 THEN 0
                     ELSE RoundedUp(starts[k - 1] + HeaderOctets + frames[k - 1].size)

\* A captured frame has octets.
LEMMA FrameSize == \A f \in Frame : f.size \in Nat /\ f.size > 0
  <1>1. \A f \in Frame : f.size \in Sizes
    BY DEF Frame
  <1>2. \A n \in Sizes : n \in Nat /\ n > 0
    BY EndpointAssumption
  <1> QED
    BY <1>1, <1>2

\* The positions of any number of records can be computed.
LEMMA PositionsExist ==
    ASSUME NEW frames \in Seq(Frame)
    PROVE  \A n \in 0 .. Len(frames) : \E starts : ArePositions(starts, frames, n)
  <1> DEFINE S == {n \in Nat : n <= Len(frames) => \E starts : ArePositions(starts, frames, n)}
  <1>1. 0 \in S
    <2>1. ArePositions([k \in 1 .. 0 |-> 0], frames, 0)
      BY DEF ArePositions
    <2> QED
      BY <2>1
  <1>2. ASSUME NEW n \in Nat, n \in S PROVE n + 1 \in S
    <2> SUFFICES ASSUME n + 1 <= Len(frames)
                 PROVE  \E starts : ArePositions(starts, frames, n + 1)
      OBVIOUS
    <2>1. PICK starts : ArePositions(starts, frames, n)
      BY <1>2
    <2> DEFINE next == IF n = 0 THEN 0
                       ELSE RoundedUp(starts[n] + HeaderOctets + frames[n].size)
               longer == [k \in 1 .. n + 1 |-> IF k = n + 1 THEN next ELSE starts[k]]
    <2>2. next \in Nat
      <3>1. n # 0 => starts[n] \in Nat /\ frames[n] \in Frame /\ frames[n].size \in Nat
        BY <1>2, <2>1, FrameSize DEF ArePositions
      <3>2. n # 0 => starts[n] + HeaderOctets + frames[n].size \in Nat
        BY <3>1 DEF HeaderOctets
      <3> QED
        BY <3>2, RoundedUpFacts
    <2> HIDE DEF next
    <2>3. longer \in [1 .. n + 1 -> Nat]
      BY <2>1, <2>2 DEF ArePositions
    <2>4. ASSUME NEW k \in 1 .. n + 1
          PROVE  longer[k] = IF k = 1 THEN 0
                     ELSE RoundedUp(longer[k - 1] + HeaderOctets + frames[k - 1].size)
      <3>1. CASE k = n + 1
        BY <2>1, <3>1 DEF next
      <3>2. CASE k # n + 1
        BY <2>1, <3>2 DEF ArePositions
      <3> QED
        BY <3>1, <3>2
    <2> QED
      BY <2>3, <2>4 DEF ArePositions
  <1> HIDE DEF S
  <1>3. Nat \subseteq S
    BY <1>1, <1>2, Inductive
  <1> QED
    BY <1>3 DEF S

\* Starts satisfies the equations it is defined by.
LEMMA StartsEquations ==
    ASSUME NEW frames \in Seq(Frame)
    PROVE  Starts(frames) = [k \in DOMAIN frames |->
             IF k = 1 THEN 0
             ELSE RoundedUp(Starts(frames)[k - 1] + HeaderOctets + frames[k - 1].size)]
  <1>1. PICK starts : ArePositions(starts, frames, Len(frames))
    BY PositionsExist
  <1>2. starts = [k \in DOMAIN frames |->
             IF k = 1 THEN 0
             ELSE RoundedUp(starts[k - 1] + HeaderOctets + frames[k - 1].size)]
    BY <1>1 DEF ArePositions
  <1> QED
    BY <1>2 DEF Starts

\* The k-th record ends before the next one begins, on an aligned position.
LEMMA StartsFacts ==
    ASSUME NEW frames \in Seq(Frame)
    PROVE  /\ frames # <<>> => Starts(frames)[1] = 0
           /\ \A k \in DOMAIN frames :
                /\ Starts(frames)[k] \in Nat
                /\ k + 1 \in DOMAIN frames =>
                     Starts(frames)[k + 1]
                       = Starts(frames)[k] + RoundedUp(HeaderOctets + frames[k].size)
                /\ \A j \in 1 .. k - 1 :
                     Starts(frames)[j] + HeaderOctets + frames[j].size <= Starts(frames)[k]
  <1> DEFINE at == Starts(frames)
             size(k) == HeaderOctets + frames[k].size
  <1>1. \A k \in DOMAIN frames :
           at[k] = IF k = 1 THEN 0 ELSE RoundedUp(at[k - 1] + HeaderOctets + frames[k - 1].size)
    BY StartsEquations
  <1>2. \A k \in DOMAIN frames : size(k) \in Nat /\ size(k) > 0 /\ frames[k].size \in Nat
    BY FrameSize DEF HeaderOctets
  <1>0. Len(frames) \in Nat /\ DOMAIN frames = 1 .. Len(frames)
    OBVIOUS
  <1> HIDE DEF at
  <1> DEFINE InPlace(k) ==
               /\ Aligned(at[k])
               /\ k > 1 => at[k] = at[k - 1] + RoundedUp(size(k - 1))
               /\ \A j \in 1 .. k - 1 : at[j] + size(j) <= at[k]
             S == {n \in Nat : n <= Len(frames) => \A k \in 1 .. n : InPlace(k)}
  <1>3. 0 \in S
    OBVIOUS
  <1>4. ASSUME NEW n \in Nat, n \in S PROVE n + 1 \in S
    <2> SUFFICES ASSUME n + 1 <= Len(frames)
                 PROVE  InPlace(n + 1)
      <3>1. n + 1 <= Len(frames) => \A k \in 1 .. n : InPlace(k)
        BY <1>0, <1>4
      <3> HIDE DEF InPlace
      <3>2. ASSUME n + 1 <= Len(frames) => InPlace(n + 1), n + 1 <= Len(frames)
            PROVE  \A k \in 1 .. n + 1 : InPlace(k)
        <4>1. \A k \in 1 .. n + 1 : k \in 1 .. n \/ k = n + 1
          OBVIOUS
        <4> QED
          BY <3>1, <3>2, <4>1
      <3> QED
        BY <3>2
    <2>0. (n + 1) - 1 = n
      OBVIOUS
    <2>1. CASE n = 0
      <3>1. at[1] = 0
        BY <1>0, <1>1, <2>1
      <3>2. Aligned(0)
        BY DEF Aligned, Alignment
      <3> QED
        BY <2>1, <3>1, <3>2
    <2>2. CASE n # 0
      <3>1. n \in DOMAIN frames /\ n + 1 \in DOMAIN frames /\ n \in 1 .. n
        BY <1>0, <2>2
      <3>2. Aligned(at[n]) /\ at[n] \in Nat /\ \A j \in 1 .. n - 1 : at[j] + size(j) <= at[n]
        BY <1>4, <3>1 DEF Aligned
      <3>3. size(n) \in Nat
        BY <1>2, <3>1
      <3>4. at[n + 1] = RoundedUp(at[n] + size(n))
        <4>1. \A m, o \in Nat : m + HeaderOctets + o = m + (HeaderOctets + o)
          BY DEF HeaderOctets
        <4>2. at[n] + HeaderOctets + frames[n].size = at[n] + size(n)
          BY <1>2, <3>1, <3>2, <4>1
        <4>3. n + 1 # 1 /\ (n + 1) - 1 = n
          BY <2>2
        <4> HIDE DEF size
        <4>4. at[n + 1] = RoundedUp(at[(n + 1) - 1] + HeaderOctets + frames[(n + 1) - 1].size)
          BY <1>1, <3>1, <4>3
        <4> QED
          BY <4>2, <4>3, <4>4
      <3>5. at[n + 1] = at[n] + RoundedUp(size(n))
        BY <3>2, <3>3, <3>4, RoundedUpFacts
      <3>6. Aligned(at[n + 1]) /\ RoundedUp(size(n)) >= size(n) /\ RoundedUp(size(n)) \in Nat
        <4>1. at[n] + size(n) \in Nat
          BY <3>2, <3>3
        <4> QED
          BY <3>3, <3>4, <4>1, RoundedUpFacts
      <3>7. \A j \in 1 .. n : at[j] + size(j) <= at[n + 1]
        <4> TAKE j \in 1 .. n
        <4>1. CASE j = n
          BY <3>2, <3>3, <3>5, <3>6, <4>1
        <4>2. CASE j # n
          <5>1. at[j] + size(j) <= at[n]
            BY <3>2, <4>2
          <5>2. j \in DOMAIN frames /\ at[j] \in Nat /\ size(j) \in Nat
            BY <1>2, <1>4, <4>2 DEF Aligned
          <5> HIDE DEF size
          <5> QED
            BY <3>2, <3>5, <3>6, <5>1, <5>2
        <4> QED
          BY <4>1, <4>2
      <3> HIDE DEF size
      <3> QED
        BY <2>0, <3>5, <3>6, <3>7
    <2> QED
      BY <2>1, <2>2
  <1> HIDE DEF S
  <1>5. Nat \subseteq S
    BY <1>3, <1>4, Inductive
  <1>6. Len(frames) \in S
    BY <1>5
  <1>7. \A k \in 1 .. Len(frames) :
           /\ at[k] \in Nat
           /\ k > 1 => at[k] = at[k - 1] + RoundedUp(size(k - 1))
           /\ \A j \in 1 .. k - 1 : at[j] + size(j) <= at[k]
    BY <1>0, <1>6 DEF S, Aligned
  <1>8. ASSUME NEW k \in DOMAIN frames
        PROVE  /\ at[k] \in Nat
               /\ k + 1 \in DOMAIN frames => at[k + 1] = at[k] + RoundedUp(size(k))
               /\ \A j \in 1 .. k - 1 : at[j] + HeaderOctets + frames[j].size <= at[k]
    <2>1. k + 1 \in DOMAIN frames => at[k + 1] = at[k] + RoundedUp(size(k))
      BY <1>7
    <2>2. ASSUME NEW j \in 1 .. k - 1
          PROVE  at[j] + HeaderOctets + frames[j].size = at[j] + size(j)
      <3>1. \A m, o \in Nat : m + HeaderOctets + o = m + (HeaderOctets + o)
        BY DEF HeaderOctets
      <3>2. j \in DOMAIN frames
        BY <1>0
      <3> QED
        BY <1>0, <1>2, <1>7, <3>1, <3>2
    <2> QED
      BY <1>7, <2>1, <2>2
  <1>9. frames # <<>> => at[1] = 0
    BY <1>1
  <1> QED
    BY <1>8, <1>9 DEF at

-----------------------------------------------------------------------------
(* The read buffer *)

\* What a read left in the buffer: whole records up to the last one, of which at
\* least an octet is there; the cursor is on a record or at the end.  The packet
\* socket never uses the buffer.
RecordsInv ==
    /\ kernel \in Seq(Frame) /\ readBuffer \in Seq(Frame)
    /\ filled \in Nat /\ cursor \in Nat /\ cursor <= filled
    /\ readBuffer = <<>> => filled = 0
    /\ readBuffer # <<>> => /\ Starts(readBuffer)[Len(readBuffer)] < filled
                            /\ filled <= Octets(readBuffer)
    /\ Unread => \E k \in DOMAIN readBuffer : Starts(readBuffer)[k] = cursor
    /\ platform = "linux" => readBuffer = <<>>

\* Nor is there a record.
LEMMA InitRecordsInv == Init => RecordsInv
  BY DEF Init, RecordsInv, Unread

\* A record with a lower number is at a lower position.
LEMMA StartsIncrease ==
    ASSUME NEW frames \in Seq(Frame)
    PROVE  /\ \A i \in DOMAIN frames : Starts(frames)[i] \in Nat
           /\ \A h, i \in DOMAIN frames : h < i => Starts(frames)[h] < Starts(frames)[i]
  <1>1. \A i \in DOMAIN frames : Starts(frames)[i] \in Nat /\ frames[i].size \in Nat
    BY StartsFacts, FrameSize
  <1>2. ASSUME NEW h \in DOMAIN frames, NEW i \in DOMAIN frames, h < i
        PROVE  Starts(frames)[h] < Starts(frames)[i]
    <2>1. h \in 1 .. i - 1
      BY <1>2
    <2>2. Starts(frames)[h] + HeaderOctets + frames[h].size <= Starts(frames)[i]
      BY <2>1, StartsFacts
    <2> QED
      BY <1>1, <2>2 DEF HeaderOctets
  <1> QED
    BY <1>1, <1>2

\* At most one record is at a position.
LEMMA RecordAt ==
    ASSUME NEW frames \in Seq(Frame), NEW k \in DOMAIN frames, NEW j \in DOMAIN frames,
           Starts(frames)[j] = Starts(frames)[k]
    PROVE  j = k
  <1>1. \A i \in DOMAIN frames : Starts(frames)[i] \in Nat
    BY StartsIncrease
  <1>2. \A h, i \in DOMAIN frames : h < i => Starts(frames)[h] < Starts(frames)[i]
    BY StartsIncrease
  <1>3. k \in Nat /\ j \in Nat
    OBVIOUS
  <1>4. j < k => FALSE
    BY <1>1, <1>2
  <1>5. k < j => FALSE
    BY <1>1, <1>2
  <1> QED
    BY <1>3, <1>4, <1>5

\* The record at the cursor: its frame is the one found there, it is whole unless a
\* read cut it, which only happens to the last one, and the cursor moves on to the
\* next record or to the end.
LEMMA AtCursor ==
    ASSUME RecordsInv, Unread, NEW k \in DOMAIN readBuffer, Starts(readBuffer)[k] = cursor
    PROVE  /\ FrameAtCursor = readBuffer[k] /\ readBuffer[k] \in Frame
           /\ WholeRecord <=> Whole(k)
           /\ k < Len(readBuffer) => Whole(k)
           /\ WholeRecord =>
                NextCursor = IF k < Len(readBuffer) THEN Starts(readBuffer)[k + 1] ELSE filled
           /\ k < Len(readBuffer) => Starts(readBuffer)[k + 1] < filled
  <1> DEFINE last == Len(readBuffer)
             at == Starts(readBuffer)
  <1>1. /\ readBuffer \in Seq(Frame) /\ filled \in Nat /\ cursor \in Nat /\ readBuffer # <<>>
        /\ at[last] < filled /\ filled <= Octets(readBuffer)
    BY DEF RecordsInv
  <1>2. /\ last \in Nat /\ DOMAIN readBuffer = 1 .. last /\ last \in DOMAIN readBuffer
        /\ k \in 1 .. last
    BY <1>1
  <1>3. FrameAtCursor = readBuffer[k] /\ readBuffer[k] \in Frame
    <2>1. \A j \in DOMAIN readBuffer : at[j] = cursor => j = k
      BY <1>1, RecordAt
    <2>2. (CHOOSE j \in DOMAIN readBuffer : at[j] = cursor) = k
      BY <2>1
    <2>3. FrameAtCursor = readBuffer[CHOOSE j \in DOMAIN readBuffer : at[j] = cursor]
      BY DEF FrameAtCursor
    <2>4. readBuffer[k] \in Frame
      BY <1>1
    <2> QED
      BY <2>2, <2>3, <2>4
  <1>4. readBuffer[k].size \in Nat
    BY <1>3, FrameSize
  <1>5. WholeRecord <=> Whole(k)
    BY <1>1, <1>3, <1>4 DEF WholeRecord, Whole, HeaderOctets
  <1>6. ASSUME k < last
        PROVE  at[k + 1] < filled /\ at[k] + HeaderOctets + readBuffer[k].size <= at[k + 1]
               /\ at[k + 1] \in Nat
    <2>1. k + 1 \in DOMAIN readBuffer /\ k \in 1 .. (k + 1) - 1
      BY <1>2, <1>6
    <2>2. at[k + 1] \in Nat /\ at[k] + HeaderOctets + readBuffer[k].size <= at[k + 1]
      BY <1>1, <2>1, StartsFacts
    <2>3. k + 1 # last => at[k + 1] <= at[last]
      <3>1. k + 1 # last => k + 1 \in 1 .. last - 1
        BY <1>2, <1>6
      <3>2. k + 1 # last => at[k + 1] + HeaderOctets + readBuffer[k + 1].size <= at[last]
        BY <1>1, <1>2, <3>1, StartsFacts
      <3>3. readBuffer[k + 1].size \in Nat /\ at[last] \in Nat
        BY <1>1, <1>2, <2>1, FrameSize, StartsFacts
      <3> QED
        BY <2>2, <3>2, <3>3 DEF HeaderOctets
    <2>4. at[last] \in Nat
      BY <1>1, <1>2, StartsFacts
    <2> QED
      BY <1>1, <2>2, <2>3, <2>4
  <1>7. k < last => Whole(k)
    BY <1>1, <1>4, <1>6 DEF Whole, HeaderOctets
  <1>8. NextCursor = Smaller(cursor + RoundedUp(HeaderOctets + readBuffer[k].size), filled)
    BY <1>3 DEF NextCursor, WordAlign
  <1>9. CASE k < last
    <2>1. k + 1 \in DOMAIN readBuffer
      BY <1>2, <1>9
    <2>2. at[k + 1] = cursor + RoundedUp(HeaderOctets + readBuffer[k].size)
      BY <1>1, <2>1, StartsFacts
    <2> QED
      BY <1>1, <1>3, <1>5, <1>6, <1>7, <1>8, <1>9, <2>2 DEF Smaller
  <1>10. CASE k = last
    <2>1. HeaderOctets + readBuffer[k].size \in Nat
      BY <1>4 DEF HeaderOctets
    <2>2. /\ RoundedUp(HeaderOctets + readBuffer[k].size) >= HeaderOctets + readBuffer[k].size
          /\ RoundedUp(HeaderOctets + readBuffer[k].size) \in Nat
      BY <2>1, RoundedUpFacts
    <2>3. filled <= cursor + HeaderOctets + readBuffer[k].size
      BY <1>1, <1>10 DEF Octets
    <2>4. cursor + RoundedUp(HeaderOctets + readBuffer[k].size) >= filled
      BY <1>1, <1>4, <2>2, <2>3 DEF HeaderOctets
    <2>5. NextCursor = filled
      BY <1>1, <1>8, <2>2, <2>4 DEF Smaller
    <2> QED
      BY <1>3, <1>5, <1>7, <1>10, <2>5
  <1> QED
    BY <1>2, <1>9, <1>10

\* RecordsInv is inductive, one step per action.
LEMMA NextRecordsInv == RecordsInv /\ [Next]_vars => RecordsInv'
  <1> SUFFICES ASSUME RecordsInv, [Next]_vars PROVE RecordsInv'
    OBVIOUS
  <1> USE DEF reader, vars
  <1>1. CASE ReceiveFrame
    BY <1>1 DEF ReceiveFrame, RecordsInv, Unread
  <1>2. CASE TakeRecord
    <2>1. PICK k \in DOMAIN readBuffer : Starts(readBuffer)[k] = cursor
      BY <1>2 DEF TakeRecord, RecordsInv
    <2>2. /\ cursor' = IF k < Len(readBuffer) THEN Starts(readBuffer)[k + 1] ELSE filled
          /\ k < Len(readBuffer) => Starts(readBuffer)[k + 1] < filled
      BY <1>2, <2>1, AtCursor DEF TakeRecord
    <2>3. k < Len(readBuffer) => k + 1 \in DOMAIN readBuffer /\ Starts(readBuffer)[k + 1] \in Nat
      <3>1. k < Len(readBuffer) => k + 1 \in DOMAIN readBuffer
        BY DEF RecordsInv
      <3> QED
        BY <3>1, StartsFacts DEF RecordsInv
    <2> QED
      BY <1>2, <2>2, <2>3 DEF TakeRecord, RecordsInv, Unread
  <1>3. CASE SkipPartialRecord
    BY <1>3 DEF SkipPartialRecord, RecordsInv, Unread
  <1>4. CASE ReadRecords
    <2>1. PICK n \in DOMAIN kernel, cut \in Cuts :
            /\ readBuffer' = SubSeq(kernel, 1, n)
            /\ cut < HeaderOctets + SubSeq(kernel, 1, n)[n].size
            /\ kernel' = SubSeq(kernel, n + 1, Len(kernel))
            /\ filled' = Octets(SubSeq(kernel, 1, n)) - cut
      BY <1>4 DEF ReadRecords
    <2> DEFINE frames == SubSeq(kernel, 1, n)
    <2>2. frames \in Seq(Frame) /\ Len(frames) = n /\ n \in Nat /\ n >= 1 /\ cut \in Nat
          /\ kernel' \in Seq(Frame)
      BY SMTT(60), <2>1, EndpointAssumption DEF RecordsInv
    <2>3. cut < HeaderOctets + frames[n].size /\ readBuffer' = frames
          /\ filled' = Octets(frames) - cut
      BY <2>1
    <2> HIDE DEF frames
    <2>4. /\ 1 \in DOMAIN frames /\ n \in DOMAIN frames /\ Starts(frames)[1] = 0
          /\ Starts(frames)[n] \in Nat /\ frames[n].size \in Nat
      <3>1. 1 \in DOMAIN frames /\ n \in DOMAIN frames /\ frames # <<>>
        BY <2>2
      <3> QED
        BY <2>2, <3>1, StartsFacts, FrameSize
    <2>5. /\ filled' \in Nat /\ Starts(frames)[n] < filled' /\ filled' <= Octets(frames)
          /\ 0 < filled'
      BY <2>2, <2>3, <2>4 DEF Octets, HeaderOctets
    <2>6. cursor' = 0 /\ platform' = "macos"
      BY <1>4 DEF ReadRecords
    <2>7. frames # <<>>
      BY <2>2
    <2> QED
      BY <2>2, <2>3, <2>4, <2>5, <2>6, <2>7 DEF RecordsInv, Unread
  <1>5. CASE FrameArrives
    <2>1. kernel' \in Seq(Frame)
      BY <1>5 DEF FrameArrives, RecordsInv
    <2> QED
      BY <1>5, <2>1 DEF FrameArrives, RecordsInv, Unread
  <1>6. CASE OpenDevice \/ OpenSocket \/ Bind \/ OpenFails \/ BeginWindow \/ PollReadable
             \/ PollErrorCondition \/ WindowEnds \/ NothingToRead \/ EndpointFails \/ Closed
             \/ UNCHANGED vars
    <2>1. UNCHANGED <<platform, kernel, readBuffer, filled, cursor>>
      BY <1>6 DEF OpenDevice, OpenSocket, Bind, OpenFails, BeginWindow, PollReadable,
           PollErrorCondition, WindowEnds, NothingToRead, EndpointFails, Closed
    <2> QED
      BY <2>1 DEF RecordsInv, Unread
  <1> QED
    BY <1>1, <1>2, <1>3, <1>4, <1>5, <1>6 DEF Next, Thread

\* In every run the cursor is on a record or at the end of what was read.
THEOREM RecordsKept == Spec => []RecordsInv
  BY InitRecordsInv, NextRecordsInv, PTL DEF Spec
-----------------------------------------------------------------------------
(* The endpoint implements CaptureQueue *)

Items == [frame : Frame, whole : BOOLEAN]

\* The queue of an endpoint that has done with d of the records it read.
RecordItem(frames, end, k) ==
    [frame |-> frames[k], whole |-> Starts(frames)[k] + HeaderOctets + frames[k].size <= end]

QueueOf(frames, end, d, buffered) ==
    [k \in 1 .. Len(frames) - d |-> RecordItem(frames, end, d + k)]
        \o [k \in DOMAIN buffered |-> [frame |-> buffered[k], whole |-> TRUE]]

\* The queue that the buffers stand for: first the records not yet read, then the frames
\* the kernel holds.
LEMMA QueueFacts ==
    ASSUME NEW frames \in Seq(Frame), NEW buffered \in Seq(Frame), NEW end \in Nat,
           NEW d \in 0 .. Len(frames)
    PROVE  /\ QueueOf(frames, end, d, buffered) \in Seq(Items)
           /\ Len(QueueOf(frames, end, d, buffered)) = Len(frames) - d + Len(buffered)
           /\ \A i \in 1 .. Len(frames) - d + Len(buffered) :
                QueueOf(frames, end, d, buffered)[i] =
                   IF i <= Len(frames) - d THEN RecordItem(frames, end, d + i)
                   ELSE [frame |-> buffered[i - (Len(frames) - d)], whole |-> TRUE]
  <1> DEFINE records == [k \in 1 .. Len(frames) - d |-> RecordItem(frames, end, d + k)]
             others == [k \in DOMAIN buffered |-> [frame |-> buffered[k], whole |-> TRUE]]
  <1>1. \A k \in DOMAIN frames : RecordItem(frames, end, k) \in Items
    <2> TAKE k \in DOMAIN frames
    <2> DEFINE whole == Starts(frames)[k] + HeaderOctets + frames[k].size <= end
    <2>1. frames[k] \in Frame /\ whole \in BOOLEAN
      OBVIOUS
    <2>2. RecordItem(frames, end, k) = [frame |-> frames[k], whole |-> whole]
      BY DEF RecordItem
    <2> HIDE DEF whole
    <2> QED
      BY <2>1, <2>2 DEF Items
  <1>2. Len(frames) - d \in Nat /\ \A k \in 1 .. Len(frames) - d : d + k \in DOMAIN frames
    OBVIOUS
  <1> HIDE DEF Items
  <1>3. records \in Seq(Items) /\ Len(records) = Len(frames) - d
    BY <1>1, <1>2
  <1>4. others \in Seq(Items) /\ Len(others) = Len(buffered)
    <2>1. \A k \in DOMAIN buffered : [frame |-> buffered[k], whole |-> TRUE] \in Items
      BY DEF Items
    <2> QED
      BY <2>1
  <1>5. \A i \in 1 .. Len(frames) - d : records[i] = RecordItem(frames, end, d + i)
    OBVIOUS
  <1>6. \A i \in DOMAIN buffered : others[i] = [frame |-> buffered[i], whole |-> TRUE]
    OBVIOUS
  <1>7. QueueOf(frames, end, d, buffered) = records \o others
    BY DEF QueueOf
  <1> HIDE DEF records, others
  <1>8. /\ records \o others \in Seq(Items)
        /\ Len(records \o others) = Len(records) + Len(others)
        /\ \A i \in 1 .. Len(records) + Len(others) : (records \o others)[i] =
              IF i <= Len(records) THEN records[i] ELSE others[i - Len(records)]
    BY ZenonT(60), <1>3, <1>4, ConcatProperties
  <1>9. ASSUME NEW i \in 1 .. Len(frames) - d + Len(buffered), ~(i <= Len(frames) - d)
        PROVE  i - (Len(frames) - d) \in DOMAIN buffered
    BY <1>2, <1>9
  <1> QED
    BY <1>3, <1>4, <1>5, <1>6, <1>7, <1>8, <1>9

\* The records before the cursor's are those with a lower number.
LEMMA RecordsBefore ==
    ASSUME NEW frames \in Seq(Frame), NEW k \in DOMAIN frames
    PROVE  Cardinality({j \in DOMAIN frames : Starts(frames)[j] < Starts(frames)[k]}) = k - 1
  <1>1. \A i \in DOMAIN frames : Starts(frames)[i] \in Nat
    BY StartsIncrease
  <1>2. \A h, i \in DOMAIN frames : h < i => Starts(frames)[h] < Starts(frames)[i]
    BY StartsIncrease
  <1> DEFINE before == {j \in DOMAIN frames : Starts(frames)[j] < Starts(frames)[k]}
  <1>3. before = 1 .. k - 1
    <2>1. ASSUME NEW j \in before PROVE j \in 1 .. k - 1
      <3>1. j \in DOMAIN frames /\ j # k /\ ~(k < j)
        BY <1>1, <1>2, <2>1
      <3> QED
        BY <3>1
    <2>2. ASSUME NEW j \in 1 .. k - 1 PROVE j \in before
      <3>1. j \in DOMAIN frames /\ j < k
        OBVIOUS
      <3> QED
        BY <1>2, <3>1
    <2> QED
      BY <2>1, <2>2
  <1>4. Cardinality(1 .. k - 1) = k - 1
    <2>1. 1 \in Int /\ k - 1 \in Int /\ (1 > k - 1 <=> k = 1)
      OBVIOUS
    <2> QED
      BY <2>1, FS_Interval
  <1> QED
    BY <1>3, <1>4

\* What the endpoint still has to hand out, before and after a step.
LEMMA PendingIsQueue ==
    /\ Pending = QueueOf(readBuffer, filled, Done, kernel)
    /\ Pending' = QueueOf(readBuffer', filled', Done', kernel')
  BY DEF Pending, Unfinished, Whole, QueueOf, RecordItem

\* All records are done with when the cursor is at the end, those before it else.
LEMMA DoneRecords ==
    ASSUME RecordsInv
    PROVE  /\ Done \in 0 .. Len(readBuffer)
           /\ ~Unread => Done = Len(readBuffer)
           /\ Unread => \A k \in DOMAIN readBuffer :
                          Starts(readBuffer)[k] = cursor => Done = k - 1
  <1>1. readBuffer \in Seq(Frame)
    BY DEF RecordsInv
  <1>2. ASSUME Unread, NEW k \in DOMAIN readBuffer, Starts(readBuffer)[k] = cursor
        PROVE  Done = k - 1
    BY <1>1, <1>2, RecordsBefore DEF Done
  <1>3. ~Unread => Done = Len(readBuffer)
    BY DEF Done
  <1>4. Unread => \E k \in DOMAIN readBuffer : Done = k - 1
    BY <1>2 DEF RecordsInv
  <1> QED
    BY <1>1, <1>2, <1>3, <1>4

\* The endpoint starts with nothing to hand out.
LEMMA AbstractInit == Init => Promise!Init
  <1> SUFFICES ASSUME Init PROVE Promise!Init
    OBVIOUS
  <1>1. readBuffer = <<>> /\ filled = 0 /\ kernel = <<>> /\ answer = NoFrame /\ ~Unread
    BY DEF Init, Unread
  <1>2. Done = 0
    BY <1>1 DEF Done
  <1>3. Pending = QueueOf(<<>>, 0, 0, <<>>)
    BY <1>1, <1>2, PendingIsQueue
  <1>4. Pending \in Seq(Items) /\ Len(Pending) = 0
    <2>1. <<>> \in Seq(Frame) /\ Len(<<>>) = 0 /\ 0 \in 0 .. Len(<<>>) /\ 0 \in Nat
      OBVIOUS
    <2> HIDE DEF Items
    <2>2. /\ QueueOf(<<>>, 0, 0, <<>>) \in Seq(Items)
          /\ Len(QueueOf(<<>>, 0, 0, <<>>)) = Len(<<>>) - 0 + Len(<<>>)
      BY <2>1, QueueFacts
    <2> QED
      BY <1>3, <2>1, <2>2
  <1>5. Pending = <<>>
    BY <1>4
  <1> QED
    BY <1>1, <1>5 DEF Promise!Init

\* Steps that touch neither frames nor answer stutter.
LEMMA StutterStep ==
    ASSUME UNCHANGED <<kernel, readBuffer, filled, cursor, answer>>
    PROVE  UNCHANGED Promise!vars
  BY DEF Promise!vars, Pending, Unfinished, Done, Whole, Unread

\* The cursor leaves a record: the queue loses its head, which is that record.
LEMMA PassRecord ==
    ASSUME RecordsInv, NEW k \in DOMAIN readBuffer, Done = k - 1, Done' = k,
           UNCHANGED <<readBuffer, filled, kernel>>
    PROVE  /\ Pending # <<>> /\ Pending' = Tail(Pending)
           /\ Head(Pending) = RecordItem(readBuffer, filled, k)
  <1>1. readBuffer \in Seq(Frame) /\ kernel \in Seq(Frame) /\ filled \in Nat
    BY DEF RecordsInv
  <1> DEFINE q == QueueOf(readBuffer, filled, k - 1, kernel)
             p == QueueOf(readBuffer, filled, k, kernel)
             n == Len(readBuffer) - k
             m == Len(kernel)
  <1>2. Pending = q /\ Pending' = p
    BY PendingIsQueue
  <1>3. /\ k \in 0 .. Len(readBuffer) /\ k - 1 \in 0 .. Len(readBuffer) /\ m \in Nat
        /\ k \in Nat /\ n \in Nat /\ Len(readBuffer) - (k - 1) = n + 1
    BY <1>1
  <1> DEFINE r == Len(readBuffer) - (k - 1)
  <1> HIDE DEF n
  <1>4. /\ q \in Seq(Items) /\ Len(q) = r + m
        /\ \A i \in 1 .. r + m :
             q[i] = IF i <= r THEN RecordItem(readBuffer, filled, (k - 1) + i)
                    ELSE [frame |-> kernel[i - r], whole |-> TRUE]
    BY <1>1, <1>3, QueueFacts
  <1>5. /\ q \in Seq(Items) /\ Len(q) = n + 1 + m
        /\ \A i \in 1 .. n + 1 + m :
             q[i] = IF i <= n + 1 THEN RecordItem(readBuffer, filled, (k - 1) + i)
                    ELSE [frame |-> kernel[i - (n + 1)], whole |-> TRUE]
    BY <1>3, <1>4
  <1>6. /\ p \in Seq(Items) /\ Len(p) = n + m
        /\ \A i \in 1 .. n + m :
             p[i] = IF i <= n THEN RecordItem(readBuffer, filled, k + i)
                    ELSE [frame |-> kernel[i - n], whole |-> TRUE]
    BY <1>1, <1>3, QueueFacts DEF n
  <1> HIDE DEF q, p, n, m
  <1>7. q # <<>> /\ q[1] = RecordItem(readBuffer, filled, k)
    <2>1. (k - 1) + 1 = k /\ 1 \in 1 .. n + 1 + m /\ 1 <= n + 1
      BY <1>3
    <2> QED
      BY <1>3, <1>5, <2>1
  <1>8. Head(q) = q[1]
    BY <1>7
  <1>9. /\ Tail(q) \in Seq(Items) /\ Len(Tail(q)) = Len(q) - 1
        /\ \A i \in 1 .. Len(Tail(q)) : Tail(q)[i] = q[i + 1]
    BY <1>5, <1>7, HeadTailProperties
  <1>10. Len(p) = Len(Tail(q)) /\ Len(p) = n + m
    BY <1>3, <1>5, <1>6, <1>9
  <1>11. ASSUME NEW i \in 1 .. Len(p) PROVE p[i] = Tail(q)[i]
    <2>0. i \in Nat /\ i >= 1 /\ i <= n + m
      BY <1>3, <1>10
    <2>1. /\ i + 1 \in 1 .. n + 1 + m /\ i \in 1 .. n + m
          /\ (i <= n) <=> (i + 1 <= n + 1)
          /\ (k - 1) + (i + 1) = k + i
          /\ (i + 1) - (n + 1) = i - n
      BY <1>3, <2>0
    <2>2. Tail(q)[i] = q[i + 1]
      BY <1>9, <1>10
    <2> QED
      BY <1>5, <1>6, <2>1, <2>2
  <1>12. p = Tail(q)
    BY <1>6, <1>9, <1>10, <1>11, SeqEqual
  <1> QED
    BY <1>2, <1>7, <1>8, <1>12

\* A whole record is handed out; one in part is discarded.
LEMMA RecordLeaves ==
    ASSUME RecordsInv, TakeRecord \/ SkipPartialRecord
    PROVE  Promise!Hand \/ Promise!Discard
  <1>1. /\ readBuffer \in Seq(Frame) /\ Unread
        /\ UNCHANGED <<readBuffer, filled, kernel>>
    BY DEF RecordsInv, TakeRecord, SkipPartialRecord
  <1>2. PICK k \in DOMAIN readBuffer : Starts(readBuffer)[k] = cursor
    BY <1>1 DEF RecordsInv
  <1>3. /\ k \in Nat /\ k <= Len(readBuffer) /\ Len(readBuffer) \in Nat
        /\ k < Len(readBuffer) => k + 1 \in DOMAIN readBuffer
    BY <1>1
  <1>4. Done = k - 1
    BY <1>1, <1>2, DoneRecords
  <1>5. Done' = k
    <2>1. CASE ~Unread'
      <3>1. Done' = Len(readBuffer)
        BY <1>1, <2>1 DEF Done
      <3>2. ~(k < Len(readBuffer))
        BY <1>1, <1>2, <2>1, AtCursor DEF TakeRecord, SkipPartialRecord, Unread
      <3> QED
        BY <1>3, <3>1, <3>2
    <2>2. CASE Unread'
      <3>1. TakeRecord
        BY <2>2 DEF SkipPartialRecord, Unread, RecordsInv
      <3>2. k < Len(readBuffer) /\ cursor' = Starts(readBuffer)[k + 1]
        BY <1>1, <1>2, <2>2, <3>1, AtCursor DEF TakeRecord, Unread, RecordsInv
      <3>3. Cardinality({j \in DOMAIN readBuffer :
                          Starts(readBuffer)[j] < Starts(readBuffer)[k + 1]}) = (k + 1) - 1
        BY <1>1, <1>3, <3>2, RecordsBefore
      <3>4. Done' = (k + 1) - 1
        BY <1>1, <2>2, <3>2, <3>3 DEF Done
      <3> QED
        BY <1>3, <3>4
    <2> QED
      BY <2>1, <2>2
  <1>6. /\ Pending # <<>> /\ Pending' = Tail(Pending)
        /\ Head(Pending) = RecordItem(readBuffer, filled, k)
    BY <1>1, <1>4, <1>5, PassRecord
  <1>7. /\ Head(Pending).frame = readBuffer[k]
        /\ Head(Pending).whole <=> WholeRecord
    <2>1. RecordItem(readBuffer, filled, k) = [frame |-> readBuffer[k], whole |-> Whole(k)]
      BY DEF RecordItem, Whole
    <2>2. WholeRecord <=> Whole(k)
      BY <1>1, <1>2, AtCursor
    <2> QED
      BY <1>6, <2>1, <2>2
  <1>8. CASE TakeRecord
    <2>1. WholeRecord /\ answer' = readBuffer[k]
      BY <1>1, <1>2, <1>8, AtCursor DEF TakeRecord
    <2> QED
      BY <1>6, <1>7, <2>1 DEF Promise!Hand
  <1>9. CASE SkipPartialRecord
    <2>1. ~WholeRecord /\ answer' = answer
      BY <1>9 DEF SkipPartialRecord
    <2> QED
      BY <1>6, <1>7, <2>1 DEF Promise!Discard
  <1> QED
    BY <1>8, <1>9

\* With no record left the queue is what the kernel buffers.
LEMMA BufferedOnly ==
    ASSUME NEW frames \in Seq(Frame), NEW buffered \in Seq(Frame), NEW end \in Nat
    PROVE  /\ QueueOf(frames, end, Len(frames), buffered) \in Seq(Items)
           /\ Len(QueueOf(frames, end, Len(frames), buffered)) = Len(buffered)
           /\ \A i \in DOMAIN buffered :
                QueueOf(frames, end, Len(frames), buffered)[i]
                   = [frame |-> buffered[i], whole |-> TRUE]
  <1> DEFINE q == QueueOf(frames, end, Len(frames), buffered)
             n == Len(frames)
             m == Len(buffered)
  <1>1. n \in 0 .. n /\ n \in Nat /\ m \in Nat /\ DOMAIN buffered = 1 .. m
    OBVIOUS
  <1>2. /\ q \in Seq(Items) /\ Len(q) = n - n + m
        /\ \A i \in 1 .. n - n + m :
             q[i] = IF i <= n - n THEN RecordItem(frames, end, n + i)
                    ELSE [frame |-> buffered[i - (n - n)], whole |-> TRUE]
    BY <1>1, QueueFacts
  <1> HIDE DEF q, n, m
  <1>3. n - n = 0 /\ n - n + m = m /\ \A i \in 1 .. m : ~(i <= 0) /\ i - 0 = i
    BY <1>1
  <1>4. q \in Seq(Items) /\ Len(q) = m
    BY <1>2, <1>3
  <1>5. \A i \in 1 .. m : q[i] = [frame |-> buffered[i], whole |-> TRUE]
    BY <1>2, <1>3
  <1> QED
    BY <1>1, <1>4, <1>5 DEF q, n, m

\* The packet socket hands out the kernel's oldest frame.
LEMMA ReceiveFrameHands ==
    ASSUME RecordsInv, ReceiveFrame
    PROVE  Promise!Hand
  <1>1. /\ readBuffer = <<>> /\ filled = 0 /\ cursor = 0 /\ kernel \in Seq(Frame)
        /\ kernel # <<>> /\ UNCHANGED <<readBuffer, filled, cursor>>
        /\ kernel' = Tail(kernel) /\ answer' = Head(kernel)
    BY DEF RecordsInv, ReceiveFrame, reader
  <1>2. Done = Len(<<>>) /\ Done' = Len(<<>>)
    BY <1>1 DEF Done, Unread
  <1> DEFINE q == QueueOf(<<>>, 0, Len(<<>>), kernel)
             p == QueueOf(<<>>, 0, Len(<<>>), Tail(kernel))
  <1>3. Pending = q /\ Pending' = p
    BY <1>1, <1>2, PendingIsQueue
  <1>4. <<>> \in Seq(Frame) /\ 0 \in Nat
    OBVIOUS
  <1>5. /\ Tail(kernel) \in Seq(Frame) /\ Len(Tail(kernel)) = Len(kernel) - 1
        /\ \A i \in 1 .. Len(Tail(kernel)) : Tail(kernel)[i] = kernel[i + 1]
    BY <1>1, HeadTailProperties
  <1>6. /\ q \in Seq(Items) /\ Len(q) = Len(kernel)
        /\ \A i \in DOMAIN kernel : q[i] = [frame |-> kernel[i], whole |-> TRUE]
    BY <1>1, <1>4, BufferedOnly
  <1>7. /\ p \in Seq(Items) /\ Len(p) = Len(Tail(kernel))
        /\ \A i \in DOMAIN Tail(kernel) : p[i] = [frame |-> Tail(kernel)[i], whole |-> TRUE]
    BY <1>4, <1>5, BufferedOnly
  <1> HIDE DEF q, p
  <1>8. q # <<>> /\ Head(q) = [frame |-> Head(kernel), whole |-> TRUE]
    <2>1. 1 \in DOMAIN kernel /\ Len(kernel) # 0 /\ Head(kernel) = kernel[1]
      BY <1>1
    <2>2. q[1] = [frame |-> Head(kernel), whole |-> TRUE]
      BY <1>6, <2>1
    <2>3. q # <<>>
      BY <1>6, <2>1
    <2> QED
      BY <2>2, <2>3
  <1>9. /\ Tail(q) \in Seq(Items) /\ Len(Tail(q)) = Len(q) - 1
        /\ \A i \in 1 .. Len(Tail(q)) : Tail(q)[i] = q[i + 1]
    BY <1>6, <1>8, HeadTailProperties
  <1>10. ASSUME NEW i \in 1 .. Len(p) PROVE p[i] = Tail(q)[i]
    <2>1. i \in DOMAIN Tail(kernel) /\ i + 1 \in DOMAIN kernel /\ i \in 1 .. Len(Tail(q))
      BY <1>1, <1>5, <1>6, <1>7, <1>9
    <2> QED
      BY <1>5, <1>6, <1>7, <1>9, <2>1
  <1>11. Len(p) = Len(Tail(q))
    BY <1>5, <1>6, <1>7, <1>9
  <1>12. p = Tail(q)
    BY <1>7, <1>9, <1>10, <1>11, SeqEqual
  <1> QED
    BY <1>1, <1>3, <1>8, <1>12 DEF Promise!Hand

\* A captured frame goes to the end of the queue, unless the kernel drops it.
LEMMA FrameArrivesCaptures ==
    ASSUME RecordsInv, FrameArrives
    PROVE  Promise!Capture \/ UNCHANGED Promise!vars
  <1>1. UNCHANGED <<readBuffer, filled, cursor, answer>>
    BY DEF FrameArrives, reader
  <1>2. CASE UNCHANGED kernel
    BY <1>1, <1>2, StutterStep
  <1>3. ASSUME NEW frame \in Frame, kernel' = Append(kernel, frame)
        PROVE  Promise!Capture
    <2> DEFINE d == Done
               q == QueueOf(readBuffer, filled, d, kernel)
               p == QueueOf(readBuffer, filled, d, Append(kernel, frame))
               n == Len(readBuffer) - d
               m == Len(kernel)
               item == [frame |-> frame, whole |-> TRUE]
    <2>1. Done' = Done
      BY <1>1 DEF Done, Unread
    <2>2. Pending = q /\ Pending' = p
      BY <1>1, <1>3, <2>1, PendingIsQueue
    <2>3. /\ readBuffer \in Seq(Frame) /\ kernel \in Seq(Frame) /\ filled \in Nat
          /\ d \in 0 .. Len(readBuffer) /\ n \in Nat /\ m \in Nat
      <3>1. readBuffer \in Seq(Frame) /\ kernel \in Seq(Frame) /\ filled \in Nat
        BY DEF RecordsInv
      <3>2. d \in 0 .. Len(readBuffer)
        BY DoneRecords
      <3> QED
        BY <3>1, <3>2
    <2>4. /\ Append(kernel, frame) \in Seq(Frame) /\ Len(Append(kernel, frame)) = m + 1
          /\ \A i \in 1 .. m : Append(kernel, frame)[i] = kernel[i]
          /\ Append(kernel, frame)[m + 1] = frame
      BY <2>3
    <2> HIDE DEF d, m
    <2>5. /\ q \in Seq(Items) /\ Len(q) = n + m
          /\ \A i \in 1 .. n + m :
               q[i] = IF i <= n THEN RecordItem(readBuffer, filled, d + i)
                      ELSE [frame |-> kernel[i - n], whole |-> TRUE]
      BY <2>3, QueueFacts DEF m
    <2> DEFINE longer == Append(kernel, frame)
    <2> HIDE DEF longer
    <2>6. /\ p \in Seq(Items) /\ Len(p) = n + Len(longer)
          /\ \A i \in 1 .. n + Len(longer) :
               p[i] = IF i <= n THEN RecordItem(readBuffer, filled, d + i)
                      ELSE [frame |-> longer[i - n], whole |-> TRUE]
      <3>1. longer \in Seq(Frame) /\ p = QueueOf(readBuffer, filled, d, longer)
        BY <2>4 DEF longer
      <3> HIDE DEF p
      <3> QED
        BY <2>3, <3>1, QueueFacts
    <2>7. /\ Len(longer) = m + 1 /\ \A i \in 1 .. m : longer[i] = kernel[i]
          /\ longer[m + 1] = frame
      BY <2>4 DEF longer
    <2> HIDE DEF n, p, q
    <2>8. item \in Items
      BY DEF Items
    <2> HIDE DEF item, Items
    <2>9. /\ Append(q, item) \in Seq(Items) /\ Len(Append(q, item)) = n + m + 1
          /\ \A i \in 1 .. n + m : Append(q, item)[i] = q[i]
          /\ Append(q, item)[n + m + 1] = item
      BY <2>3, <2>5, <2>8
    <2>10. ASSUME NEW i \in 1 .. Len(p) PROVE p[i] = Append(q, item)[i]
      <3>1. i \in Nat /\ i >= 1 /\ i <= n + m + 1 /\ i \in 1 .. n + Len(longer)
        BY <2>3, <2>6, <2>7
      <3>2. CASE i <= n
        BY <2>3, <2>5, <2>6, <2>9, <3>1, <3>2
      <3>3. CASE ~(i <= n) /\ i # n + m + 1
        <4>1. i - n \in 1 .. m /\ i \in 1 .. n + m
          BY <2>3, <3>1, <3>3
        <4> QED
          BY <2>5, <2>6, <2>7, <2>9, <3>1, <3>3, <4>1
      <3>4. CASE i = n + m + 1
        <4>1. i - n = m + 1 /\ ~(i <= n)
          BY <2>3, <3>4
        <4>2. p[i] = item
          BY <2>6, <2>7, <3>1, <4>1 DEF item
        <4> QED
          BY <2>9, <3>4, <4>2
      <3> QED
        BY <3>2, <3>3, <3>4
    <2>11. Len(p) = Len(Append(q, item))
      BY <2>3, <2>6, <2>7, <2>9
    <2>12. p = Append(q, item)
      BY <2>6, <2>9, <2>10, <2>11, SeqEqual
    <2> QED
      BY <1>1, <2>2, <2>12 DEF Promise!Capture, item
  <1> QED
    BY <1>2, <1>3 DEF FrameArrives

\* An item of the queue with its mark replaced.
LEMMA TornItem ==
    ASSUME NEW f, NEW a, NEW b
    PROVE  [[frame |-> f, whole |-> a] EXCEPT !.whole = b] = [frame |-> f, whole |-> b]
  <1> DEFINE r == [frame |-> f, whole |-> a]
             s == [frame |-> f, whole |-> b]
             t == [r EXCEPT !.whole = b]
  <1>1. DOMAIN r = {"frame", "whole"} /\ r.frame = f
    OBVIOUS
  <1>2. s.frame = f /\ s.whole = b /\ s = [x \in {"frame", "whole"} |-> s[x]]
    OBVIOUS
  <1>3. t = [x \in DOMAIN r |-> IF x = "whole" THEN b ELSE r[x]]
    BY Zenon
  <1>4. t = [x \in {"frame", "whole"} |-> IF x = "whole" THEN b ELSE r[x]]
    BY <1>1, <1>3
  <1> HIDE DEF r, s, t
  <1>5. t = [x \in {"frame", "whole"} |-> s[x]]
    BY <1>1, <1>2, <1>4
  <1> QED
    BY <1>2, <1>5 DEF r, s, t

\* A read moves frames from the kernel to the read buffer: the queue stays, or its
\* last moved frame is torn.
LEMMA ReadRecordsTears ==
    ASSUME RecordsInv, RecordsInv', ReadRecords
    PROVE  Promise!Tear \/ UNCHANGED Promise!vars
  <1>1. PICK n \in DOMAIN kernel, cut \in Cuts :
          /\ readBuffer' = SubSeq(kernel, 1, n)
          /\ cut < HeaderOctets + SubSeq(kernel, 1, n)[n].size
          /\ kernel' = SubSeq(kernel, n + 1, Len(kernel))
          /\ filled' = Octets(SubSeq(kernel, 1, n)) - cut
    BY DEF ReadRecords
  <1>2. ~Unread /\ cursor' = 0 /\ answer' = answer
    BY DEF ReadRecords
  <1> DEFINE frames == SubSeq(kernel, 1, n)
             rest == SubSeq(kernel, n + 1, Len(kernel))
             m == Len(kernel) - n
  <1>3. kernel \in Seq(Frame) /\ n \in Nat /\ n >= 1 /\ n <= Len(kernel) /\ cut \in Nat /\ m \in Nat
        /\ Len(kernel) = n + m
    <2>1. kernel \in Seq(Frame) /\ cut \in Nat
      BY EndpointAssumption DEF RecordsInv
    <2>2. Len(kernel) \in Nat /\ n \in 1 .. Len(kernel)
      BY <2>1
    <2> QED
      BY <2>1, <2>2
  <1>4. /\ frames \in Seq(Frame) /\ Len(frames) = n
        /\ \A i \in 1 .. n : frames[i] = kernel[i]
        /\ rest \in Seq(Frame) /\ Len(rest) = m
        /\ \A i \in 1 .. m : rest[i] = kernel[n + i]
    <2>1. /\ 1 \in Int /\ n \in Int /\ n + 1 \in Int /\ Len(kernel) \in Int
          /\ \A i \in 1 .. n : kernel[i] \in Frame
          /\ \A i \in n + 1 .. Len(kernel) : kernel[i] \in Frame
      BY <1>3
    <2>2. /\ frames \in Seq(Frame) /\ Len(frames) = (IF 1 <= n THEN n - 1 + 1 ELSE 0)
          /\ \A i \in 1 .. n - 1 + 1 : frames[i] = kernel[1 + i - 1]
      BY <2>1, SubSeqProperties
    <2>3. /\ rest \in Seq(Frame)
          /\ Len(rest) = IF n + 1 <= Len(kernel) THEN Len(kernel) - (n + 1) + 1 ELSE 0
          /\ \A i \in 1 .. Len(kernel) - (n + 1) + 1 : rest[i] = kernel[(n + 1) + i - 1]
      BY <2>1, SubSeqProperties
    <2>4. n - 1 + 1 = n /\ Len(kernel) - (n + 1) + 1 = m /\ Len(rest) = m
      BY <1>3, <2>3
    <2>5. ASSUME NEW i \in Nat PROVE 1 + i - 1 = i /\ (n + 1) + i - 1 = n + i
      BY <1>3
    <2> HIDE DEF frames, rest, m
    <2>6. Len(frames) = n /\ \A i \in 1 .. n : frames[i] = kernel[i]
      <3>1. \A i \in 1 .. n : frames[i] = kernel[1 + i - 1]
        BY <2>2, <2>4
      <3>2. \A i \in 1 .. n : 1 + i - 1 = i
        BY <2>5
      <3> QED
        BY <1>3, <2>2, <2>4, <3>1, <3>2
    <2>7. \A i \in 1 .. m : rest[i] = kernel[n + i]
      <3>1. \A i \in 1 .. m : rest[i] = kernel[(n + 1) + i - 1]
        BY <2>3, <2>4
      <3>2. \A i \in 1 .. m : (n + 1) + i - 1 = n + i
        BY <2>5
      <3> QED
        BY <3>1, <3>2
    <2> QED
      BY <2>2, <2>3, <2>4, <2>6, <2>7
  <1>5. readBuffer' = frames /\ kernel' = rest /\ filled' = Octets(frames) - cut
        /\ cut < HeaderOctets + frames[n].size
    BY <1>1
  <1> HIDE DEF frames, rest, m
  <1>6. /\ Starts(frames)[1] = 0 /\ 1 \in DOMAIN frames /\ n \in DOMAIN frames
        /\ \A k \in 1 .. n : Starts(frames)[k] \in Nat /\ frames[k].size \in Nat
        /\ \A j \in 1 .. n - 1 : Starts(frames)[j] + HeaderOctets + frames[j].size <= Starts(frames)[n]
        /\ DOMAIN frames = 1 .. n
    <2>1. 1 \in DOMAIN frames /\ n \in DOMAIN frames /\ frames # <<>> /\ DOMAIN frames = 1 .. n
      BY <1>3, <1>4
    <2>2. \A k \in 1 .. n : Starts(frames)[k] \in Nat /\ frames[k].size \in Nat
      <3>1. \A k \in DOMAIN frames : frames[k] \in Frame
        BY <1>4
      <3> QED
        BY <1>4, <2>1, <3>1, StartsIncrease, FrameSize
    <2>3. Starts(frames)[1] = 0
          /\ \A j \in 1 .. n - 1 : Starts(frames)[j] + HeaderOctets + frames[j].size <= Starts(frames)[n]
      BY <1>4, <2>1, StartsFacts
    <2> QED
      BY <2>1, <2>2, <2>3
  <1>7. /\ filled' \in Nat /\ 0 < filled' /\ Starts(frames)[n] < filled'
        /\ filled' = (Starts(frames)[n] + HeaderOctets + frames[n].size) - cut
    <2>1. Starts(frames)[n] \in Nat /\ frames[n].size \in Nat
      BY <1>3, <1>6
    <2>2. filled' = (Starts(frames)[n] + HeaderOctets + frames[n].size) - cut
      <3>1. Len(frames) = n
        BY <1>4
      <3>2. Octets(frames) = Starts(frames)[n] + HeaderOctets + frames[n].size
        BY <3>1 DEF Octets
      <3> QED
        BY <1>5, <3>2
    <2> DEFINE start == Starts(frames)[n]
               size == frames[n].size
               end == filled'
    <2>3. /\ end = (start + 18 + size) - cut /\ start \in Nat /\ size \in Nat
          /\ cut \in Nat /\ cut < 18 + size
      BY <1>3, <1>5, <2>1, <2>2 DEF HeaderOctets
    <2> HIDE DEF start, size, end
    <2>4. end \in Nat /\ 0 < end /\ start < end
      BY <2>3
    <2> QED
      BY <2>2, <2>4 DEF start, size, end
  <1>8. Done' = 0
    <2>1. Cardinality({j \in DOMAIN frames : Starts(frames)[j] < Starts(frames)[1]}) = 1 - 1
      BY <1>4, <1>6, RecordsBefore
    <2>2. Unread'
      BY <1>2, <1>7 DEF Unread
    <2>3. Done' = Cardinality({j \in DOMAIN frames : Starts(frames)[j] < 0})
      BY <1>2, <1>5, <2>2 DEF Done
    <2> QED
      BY <1>6, <2>1, <2>3
  <1>9. Done = Len(readBuffer) /\ readBuffer \in Seq(Frame) /\ filled \in Nat
    BY <1>2, DoneRecords DEF RecordsInv
  <1>10. /\ Pending \in Seq(Items) /\ Len(Pending) = Len(kernel)
         /\ \A i \in 1 .. n + m : Pending[i] = [frame |-> kernel[i], whole |-> TRUE]
    BY <1>3, <1>9, PendingIsQueue, BufferedOnly
  <1>11. /\ Pending' \in Seq(Items) /\ Len(Pending') = n + m
         /\ \A i \in 1 .. n + m :
              Pending'[i] = IF i <= n THEN RecordItem(frames, filled', i)
                            ELSE [frame |-> rest[i - n], whole |-> TRUE]
    <2> DEFINE q == QueueOf(frames, filled', 0, rest)
               end == filled'
    <2>1. Pending' = q
      BY <1>5, <1>8, PendingIsQueue
    <2>2. 0 \in 0 .. Len(frames) /\ n - 0 = n /\ \A i \in Nat : 0 + i = i
      BY <1>3, <1>4
    <2>3. /\ QueueOf(frames, end, 0, rest) \in Seq(Items)
          /\ Len(QueueOf(frames, end, 0, rest)) = Len(frames) - 0 + Len(rest)
          /\ \A i \in 1 .. Len(frames) - 0 + Len(rest) :
               QueueOf(frames, end, 0, rest)[i]
                 = IF i <= Len(frames) - 0 THEN RecordItem(frames, end, 0 + i)
                   ELSE [frame |-> rest[i - (Len(frames) - 0)], whole |-> TRUE]
      <3>1. end \in Nat
        BY <1>7
      <3> HIDE DEF end
      <3> QED
        BY <1>4, <2>2, <3>1, QueueFacts
    <2> HIDE DEF q, end
    <2>4. q = QueueOf(frames, end, 0, rest)
      BY DEF q, end
    <2>5. /\ q \in Seq(Items) /\ Len(q) = n + m
          /\ \A i \in 1 .. n + m :
               q[i] = IF i <= n THEN RecordItem(frames, end, i)
                      ELSE [frame |-> rest[i - n], whole |-> TRUE]
      BY <1>3, <1>4, <2>2, <2>3, <2>4
    <2> QED
      BY <2>1, <2>5 DEF end
  <1>12. ASSUME NEW i \in 1 .. n, i # n
         PROVE  RecordItem(frames, filled', i) = [frame |-> kernel[i], whole |-> TRUE]
    <2>1. i \in 1 .. n - 1
      BY <1>3, <1>12
    <2>2. Starts(frames)[i] + HeaderOctets + frames[i].size <= filled'
      <3>1. Starts(frames)[i] + HeaderOctets + frames[i].size \in Nat
        BY <1>6 DEF HeaderOctets
      <3>2. Starts(frames)[i] + HeaderOctets + frames[i].size <= Starts(frames)[n]
        BY <1>6, <2>1
      <3>3. Starts(frames)[n] \in Nat
        BY <1>3, <1>6
      <3> QED
        BY <1>7, <3>1, <3>2, <3>3
    <2> QED
      BY <1>4, <2>2 DEF RecordItem
  <1> DEFINE whole == cut = 0
  <1>13. RecordItem(frames, filled', n) = [frame |-> kernel[n], whole |-> whole]
    <2>1. Starts(frames)[n] + HeaderOctets + frames[n].size <= filled' <=> cut = 0
      <3>1. filled' = (Starts(frames)[n] + HeaderOctets + frames[n].size) - cut
        BY <1>7
      <3>2. Starts(frames)[n] \in Nat /\ frames[n].size \in Nat /\ cut \in Nat
        BY <1>3, <1>6
      <3> DEFINE start == Starts(frames)[n]
                 size == frames[n].size
                 end == filled'
      <3>3. end = (start + 18 + size) - cut /\ start \in Nat /\ size \in Nat
        BY <3>1, <3>2 DEF HeaderOctets
      <3> HIDE DEF start, size, end
      <3>4. start + 18 + size <= end <=> cut = 0
        BY <3>2, <3>3
      <3> QED
        BY <3>4 DEF start, size, end, HeaderOctets
    <2>2. frames[n] = kernel[n]
      BY <1>3, <1>4
    <2>3. (Starts(frames)[n] + HeaderOctets + frames[n].size <= filled') = whole
      BY <2>1
    <2> QED
      BY <2>2, <2>3 DEF RecordItem
  <1>14. ASSUME NEW i \in 1 .. n + m
         PROVE  Pending'[i] = IF i = n THEN [frame |-> kernel[n], whole |-> whole] ELSE Pending[i]
    <2>1. CASE i <= n /\ i # n
      <3>1. i \in 1 .. n
        BY <1>3, <2>1
      <3> QED
        BY <1>10, <1>11, <1>12, <2>1, <3>1
    <2>2. CASE i = n
      BY <1>3, <1>11, <1>13, <2>2
    <2>3. CASE ~(i <= n)
      <3>1. i - n \in 1 .. m /\ n + (i - n) = i /\ i # n
        BY <1>3, <2>3
      <3>2. rest[i - n] = kernel[i]
        BY <1>4, <3>1
      <3> QED
        BY <1>10, <1>11, <2>3, <3>1, <3>2
    <2> QED
      BY <2>1, <2>2, <2>3
  <1>15. n \in 1 .. n + m /\ Pending[n] = [frame |-> kernel[n], whole |-> TRUE]
    BY <1>3, <1>10
  <1>16. Len(Pending) = n + m
    BY <1>3, <1>10
  <1>17. CASE whole
    <2>1. \A i \in 1 .. Len(Pending) : Pending[i] = Pending'[i]
      BY <1>14, <1>15, <1>16, <1>17
    <2>2. Len(Pending) = Len(Pending')
      BY <1>11, <1>16
    <2>3. Pending' = Pending
      <3> DEFINE p == Pending'
      <3>1. p \in Seq(Items) /\ Len(p) = Len(Pending) /\ \A i \in 1 .. Len(Pending) : Pending[i] = p[i]
        BY <1>11, <2>1, <2>2
      <3> HIDE DEF p
      <3>2. p = Pending
        BY <1>10, <3>1, SeqEqual
      <3> QED
        BY <3>2 DEF p
    <2> QED
      BY <1>2, <2>3 DEF Promise!vars
  <1>18. CASE ~whole
    <2> DEFINE torn == [Pending EXCEPT ![n].whole = FALSE]
               p == Pending'
    <2>1. DOMAIN Pending = 1 .. n + m /\ n \in DOMAIN Pending
      BY <1>10, <1>15, <1>16
    <2>2. torn = [i \in 1 .. n + m |->
                    IF i = n THEN [frame |-> kernel[n], whole |-> FALSE] ELSE Pending[i]]
      <3>1. Pending[n] = [frame |-> kernel[n], whole |-> TRUE]
        BY <1>15
      <3>2. torn = [i \in DOMAIN Pending |->
                     IF i = n THEN [frame |-> kernel[n], whole |-> FALSE] ELSE Pending[i]]
        <4> DEFINE q == Pending
                   f == kernel[n]
        <4>1. q[n] = [frame |-> f, whole |-> TRUE]
          BY <3>1
        <4> HIDE DEF q, f
        <4>2. [q EXCEPT ![n].whole = FALSE] =
                 [i \in DOMAIN q |-> IF i = n THEN [frame |-> f, whole |-> FALSE] ELSE q[i]]
          <5> DEFINE left == [q EXCEPT ![n].whole = FALSE]
                     item == [q[n] EXCEPT !.whole = FALSE]
                     other == [frame |-> f, whole |-> FALSE]
          <5>1. left = [i \in DOMAIN q |-> IF i = n THEN item ELSE q[i]]
            BY Zenon
          <5>2. item = [[frame |-> f, whole |-> TRUE] EXCEPT !.whole = FALSE]
            BY <4>1, Zenon
          <5>3. [[frame |-> f, whole |-> TRUE] EXCEPT !.whole = FALSE] = other
            BY TornItem, Zenon
          <5>4. item = other
            BY <5>2, <5>3, Zenon
          <5> HIDE DEF left, item, other
          <5>5. left = [i \in DOMAIN q |-> IF i = n THEN other ELSE q[i]]
            BY <5>1, <5>4, Zenon
          <5> QED
            BY <5>5, Zenon DEF left, other
        <4> QED
          BY <4>2, Zenon DEF q, f
      <3> HIDE DEF torn
      <3> QED
        BY <2>1, <3>2
    <2>3. p = [i \in 1 .. n + m |-> p[i]]
      BY <1>11
    <2>4. \A i \in 1 .. n + m :
             p[i] = IF i = n THEN [frame |-> kernel[n], whole |-> FALSE] ELSE Pending[i]
      <3>1. whole = FALSE
        BY <1>18
      <3> QED
        BY <1>14, <3>1
    <2> HIDE DEF p
    <2>5. p = torn
      BY <2>2, <2>3, <2>4
    <2> QED
      BY <1>2, <2>1, <2>5 DEF Promise!Tear, p
  <1> QED
    BY <1>17, <1>18

\* Every step of an endpoint is a step of the queue or a stutter.
LEMMA NextImplements ==
    ASSUME RecordsInv, RecordsInv', [Next]_vars
    PROVE  [Promise!Next]_(Promise!vars)
  <1>1. CASE NothingToRead
    <2>1. /\ ~Unread /\ kernel = <<>> /\ answer' = NoFrame
          /\ UNCHANGED <<readBuffer, filled, cursor, kernel>>
      BY <1>1 DEF NothingToRead, reader
    <2>2. Done = Len(readBuffer) /\ readBuffer \in Seq(Frame) /\ filled \in Nat
          /\ kernel \in Seq(Frame)
      BY <2>1, DoneRecords DEF RecordsInv
    <2>3. Pending \in Seq(Items) /\ Len(Pending) = Len(kernel)
      BY <2>2, PendingIsQueue, BufferedOnly
    <2>4. Pending = <<>>
      BY <2>1, <2>3
    <2>5. Pending' = Pending
      BY <2>1 DEF Pending, Unfinished, Done, Whole, Unread
    <2> QED
      BY <2>1, <2>4, <2>5 DEF Promise!Next, Promise!AnswerNothing
  <1>2. CASE OpenDevice \/ OpenSocket \/ Bind \/ OpenFails \/ BeginWindow \/ PollReadable
             \/ PollErrorCondition \/ WindowEnds \/ EndpointFails \/ Closed \/ UNCHANGED vars
    <2>1. UNCHANGED <<kernel, readBuffer, filled, cursor, answer>>
      BY <1>2 DEF OpenDevice, OpenSocket, Bind, OpenFails, BeginWindow, PollReadable,
           PollErrorCondition, WindowEnds, EndpointFails, Closed, reader, vars
    <2> QED
      BY <2>1, StutterStep
  <1> QED
    BY <1>1, <1>2, RecordLeaves, ReceiveFrameHands, FrameArrivesCaptures, ReadRecordsTears
       DEF Next, Thread, Promise!Next

\* Read buffer, cursor and kernel buffer behave as one queue, on both platforms, for
\* every buffer size, wherever reads are cut and drains end.
THEOREM EndpointImplementsQueue == Spec => ImplementsCaptureQueue
  BY AbstractInit, NextImplements, RecordsKept, PTL
     DEF Spec, ImplementsCaptureQueue, Promise!Spec
=============================================================================
