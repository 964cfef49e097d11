--------------------------- MODULE PassiveMonitor ---------------------------
(***************************************************************************)
(* The passive listener of src/monitor.rs: the loop that reads the capture *)
(* socket until a deadline and the aggregator it feeds, which keeps a      *)
(* capped list of distinct ARP packets with repeat counts, an index into   *)
(* it, and the hardware addresses that claimed each foreign IPv4 address.  *)
(* The network may keep the capture buffer filled for ever; time passes    *)
(* whatever the thread does, also between a look at the clock and the read *)
(* that follows it.                                                        *)
(***************************************************************************)
EXTENDS Integers, Sequences, FiniteSets

CONSTANTS
    Packets,      \* ARP packets (PacketIdentity) that may be captured
    Reasons,      \* reasons a frame is malformed for
    LocalIps,     \* IPv4 addresses of the monitored interface
    LocalMac,     \* its hardware address
    ZeroIp,       \* 0.0.0.0
    RecordLimit,  \* MONITOR_DISTINCT_RECORD_LIMIT
    MaxCount,     \* u64::MAX, where counts saturate
    Timeouts,     \* values --timeout-ms may have
    TicksPerMillisecond, \* clock resolution below the milliseconds of poll
    MaxPollMilliseconds, \* largest timeout poll takes (c_int::MAX)
    MaxTimestamp,        \* largest timestamp checked_add can produce
    BufferCapacity       \* bound on the frames buffered at a time

\* A packet: its opcode, its sender, and a target (hardware address and IPv4
\* address in one) that only tells packets apart.
Ips  == {p.ip : p \in Packets}
Macs == {p.mac : p \in Packets}

Frames ==
    [kind : {"arp"}, packet : Packets]
        \cup [kind : {"malformed"}, reason : Reasons]
        \cup [kind : {"unrelated"}]

ASSUME PacketAssumption ==
    \A p \in Packets :
        p = [op |-> p.op, mac |-> p.mac, ip |-> p.ip, target |-> p.target]

ASSUME LimitAssumption ==
    /\ RecordLimit \in Nat
    /\ MaxCount \in Nat \ {0}
    /\ BufferCapacity \in Nat

ASSUME ClockAssumption ==
    /\ Timeouts \subseteq Nat
    /\ TicksPerMillisecond \in Nat \ {0}
    /\ MaxPollMilliseconds \in Nat
    /\ MaxTimestamp \in Nat

VARIABLES
    pc,         \* where the thread is; the last values are outcomes
    timeout,    \* the requested listen window
    deadline,   \* the checked deadline
    pollUntil,  \* when the current poll times out
    records,    \* retained packets with class and count, first seen first
    indexes,    \* indexes[p]: the place of p in records, 0 if it has none
    claimants,  \* claimants[ip]: hardware addresses that claimed ip
    claimOrder, \* the claimed addresses, first claimed first
    malformed,  \* malformed[r]: how often reason r was met
    truncated,  \* a distinct packet was dropped
    duplicates, \* the duplicate claims of the returned outcome
    queue,      \* frames buffered for the endpoint, oldest first
    now,        \* the monotonic clock
    tally,      \* history: how often each packet was read, up to MaxCount
    firstRead,  \* history: the distinct foreign packets read, in order
    overrun     \* history: reads that ended past the deadline, up to 2

control    == <<pc, timeout, deadline, pollUntil>>
aggregator == <<records, indexes, claimants, claimOrder, malformed, truncated>>
history    == <<tally, firstRead, overrun>>
vars       == <<control, aggregator, duplicates, queue, now, history>>

Outcomes == {"done", "failed", "timeoutRejected", "timingError"}
Smaller(a, b) == IF a <= b THEN a ELSE b
-----------------------------------------------------------------------------
(* Pure parts *)

\* classify_passive_arp: nothing for the interface's own packets.
Suppressed(p) == p.mac = LocalMac /\ p.ip \in LocalIps

\* Mutant of Class: only replies conflict.
ClassByReply(p) ==
    IF p.ip \in LocalIps /\ p.op = "reply" THEN "conflict" ELSE "observed"

Class(p) ==
    IF p.ip \in LocalIps /\ p.op \in {"request", "reply"}
    THEN "conflict" ELSE "observed"

\* The senders note_third_party_sender enters.
Claims(p) == Class(p) = "observed" /\ p.ip # ZeroIp /\ p.ip \notin LocalIps

\* Mutant of SaturatingSuccessor: a wrapping increment.
WrappingSuccessor(n) == (n + 1) % (MaxCount + 1)

SaturatingSuccessor(n) == Smaller(n + 1, MaxCount)

\* Mutant of PollTimeout: a cast that turns a long wait negative, that is endless.
PollTimeoutWrapped(remaining) ==
    IF remaining \div TicksPerMillisecond > MaxPollMilliseconds
    THEN (MaxTimestamp + 2) * TicksPerMillisecond
    ELSE (remaining \div TicksPerMillisecond) * TicksPerMillisecond

\* poll takes whole milliseconds, up to a largest value.
PollTimeout(remaining) ==
    Smaller(remaining \div TicksPerMillisecond, MaxPollMilliseconds)
        * TicksPerMillisecond

\* Mutant of ListenOpen: a poll timeout of zero milliseconds ends the listen.
ListenOpenForWholeMilliseconds ==
    now < deadline /\ PollTimeout(deadline - now) > 0

ListenOpen == now < deadline

\* Mutant of ReadAllowed: the drain does not look at the clock.
ReadAlways == TRUE

\* The check before every read.
ReadAllowed == now < deadline

\* Mutant of RoomForRecord: one record too many.
RoomForOneMore == Len(records) <= RecordLimit

RoomForRecord == Len(records) < RecordLimit

Shared(ip) == Cardinality(claimants[ip]) >= 2

\* The duplicate claims finish() reports, in the order of claimOrder.
DuplicateClaims ==
    {[ip |-> claimOrder[k], macs |-> claimants[claimOrder[k]]] :
        k \in {i \in DOMAIN claimOrder : Shared(claimOrder[i])}}
-----------------------------------------------------------------------------
Init ==
    /\ pc = "start"
    /\ timeout \in Timeouts
    /\ deadline = 0
    /\ pollUntil = 0
    /\ records = <<>>
    /\ indexes = [p \in Packets |-> 0]
    /\ claimants = [ip \in Ips |-> {}]
    /\ claimOrder = <<>>
    /\ malformed = [r \in Reasons |-> 0]
    /\ truncated = FALSE
    /\ duplicates = {}
    /\ queue = <<>>
    /\ now = 0
    /\ tally = [p \in Packets |-> 0]
    /\ firstRead = <<>>
    /\ overrun = 0
-----------------------------------------------------------------------------
(* The listen loop *)

\* monitor_deadline: a zero timeout and one past the clock's end are rejected
\* before the endpoint is used.
Start ==
    /\ pc = "start"
    /\ \/ /\ timeout = 0
          /\ pc' = "timeoutRejected"
          /\ UNCHANGED deadline
       \/ /\ timeout > 0
          /\ now + timeout > MaxTimestamp
          /\ pc' = "timingError"
          /\ UNCHANGED deadline
       \/ /\ timeout > 0
          /\ now + timeout <= MaxTimestamp
          /\ deadline' = now + timeout
          /\ pc' = "check"
    /\ UNCHANGED <<timeout, pollUntil, aggregator, duplicates, queue, now, history>>

PollRemaining ==
    /\ pc = "check"
    /\ ListenOpen
    /\ pollUntil' = now + PollTimeout(deadline - now)
    /\ pc' = "poll"
    /\ UNCHANGED <<timeout, deadline, aggregator, duplicates, queue, now, history>>

PollReturns ==
    /\ pc = "poll"
    /\ \/ queue # <<>> /\ pc' = "drain"
       \/ queue = <<>> /\ now >= pollUntil /\ pc' = "check"
    /\ UNCHANGED <<timeout, deadline, pollUntil, aggregator, duplicates, queue,
                   now, history>>

\* A signal interrupts poll, reported as not readable; or poll reports an error
\* condition of the device as readable, although nothing is buffered.
PollInterrupted ==
    /\ pc = "poll"
    /\ queue = <<>>
    /\ pc' \in {"check", "drain"}
    /\ UNCHANGED <<timeout, deadline, pollUntil, aggregator, duplicates, queue,
                   now, history>>

\* drain_until_deadline looks at the clock before every read.
CheckBeforeRead ==
    /\ pc = "drain"
    /\ pc' = IF ReadAllowed THEN "read" ELSE "check"
    /\ UNCHANGED <<timeout, deadline, pollUntil, aggregator, duplicates, queue,
                   now, history>>

BufferEmpty ==
    /\ pc = "read"
    /\ queue = <<>>
    /\ pc' = "check"
    /\ UNCHANGED <<timeout, deadline, pollUntil, aggregator, duplicates, queue,
                   now, history>>

\* A poll or a read fails: the error is returned, the aggregator dropped.
EndpointFails ==
    /\ pc \in {"poll", "read"}
    /\ pc' = "failed"
    /\ UNCHANGED <<timeout, deadline, pollUntil, aggregator, duplicates, queue,
                   now, history>>

\* The window is over: finish() makes the outcome.
Finish ==
    /\ pc = "check"
    /\ ~ListenOpen
    /\ duplicates' = DuplicateClaims
    /\ pc' = "done"
    /\ UNCHANGED <<timeout, deadline, pollUntil, aggregator, queue, now, history>>
-----------------------------------------------------------------------------
(* The aggregator *)

\* note_third_party_sender, where the packet is an observation.
NoteSender(p) ==
    /\ claimants' = IF Claims(p)
                    THEN [claimants EXCEPT ![p.ip] = @ \cup {p.mac}] ELSE claimants
    /\ claimOrder' = IF Claims(p) /\ claimants[p.ip] = {}
                     THEN Append(claimOrder, p.ip) ELSE claimOrder

Repeat(p) ==
    /\ indexes[p] # 0
    /\ records' = [records EXCEPT ![indexes[p]].count = SaturatingSuccessor(@)]
    /\ NoteSender(p)
    /\ UNCHANGED <<indexes, truncated>>

\* Mutant of Drop: the sender of a dropped packet claims its address.
DropButNote(p) ==
    /\ indexes[p] = 0
    /\ ~RoomForRecord
    /\ truncated' = TRUE
    /\ NoteSender(p)
    /\ UNCHANGED <<records, indexes>>

Drop(p) ==
    /\ indexes[p] = 0
    /\ ~RoomForRecord
    /\ truncated' = TRUE
    /\ UNCHANGED <<records, indexes, claimants, claimOrder>>

Retain(p) ==
    /\ indexes[p] = 0
    /\ RoomForRecord
    /\ indexes' = [indexes EXCEPT ![p] = Len(records) + 1]
    /\ records' = Append(records, [packet |-> p, class |-> Class(p), count |-> 1])
    /\ NoteSender(p)
    /\ UNCHANGED truncated

Observe(p) ==
    /\ IF Suppressed(p)
       THEN UNCHANGED <<records, indexes, claimants, claimOrder, truncated>>
       ELSE Repeat(p) \/ Drop(p) \/ Retain(p)
    /\ tally' = [tally EXCEPT ![p] = Smaller(@ + 1, MaxCount)]
    /\ firstRead' = IF tally[p] = 0 /\ ~Suppressed(p)
                    THEN Append(firstRead, p) ELSE firstRead
    /\ UNCHANGED malformed

RecordMalformed(reason) ==
    /\ malformed' = [malformed EXCEPT ![reason] = SaturatingSuccessor(@)]
    /\ UNCHANGED <<records, indexes, claimants, claimOrder, truncated, tally,
                   firstRead>>

Ignore == UNCHANGED <<aggregator, tally, firstRead>>

\* One frame is read and observed.
ReadFrame ==
    /\ pc = "read"
    /\ queue # <<>>
    /\ LET frame == Head(queue)
       IN \/ frame.kind = "arp" /\ Observe(frame.packet)
          \/ frame.kind = "malformed" /\ RecordMalformed(frame.reason)
          \/ frame.kind = "unrelated" /\ Ignore
    /\ queue' = Tail(queue)
    /\ overrun' = IF now >= deadline THEN Smaller(overrun + 1, 2) ELSE overrun
    /\ pc' = "drain"
    /\ UNCHANGED <<timeout, deadline, pollUntil, duplicates, now>>
-----------------------------------------------------------------------------
(* The network and the clock *)

FrameArrives ==
    /\ pc \notin Outcomes
    /\ Len(queue) < BufferCapacity
    /\ \E frame \in Frames : queue' = Append(queue, frame)
    /\ UNCHANGED <<control, aggregator, duplicates, now, history>>

\* Time passes; times past the deadline are all alike, so one of them is enough.
Tick ==
    /\ pc \notin Outcomes
    /\ now <= deadline
    /\ now' = now + 1
    /\ UNCHANGED <<control, aggregator, duplicates, queue, history>>

\* The listen has returned.
Returned ==
    /\ pc \in Outcomes
    /\ UNCHANGED vars
-----------------------------------------------------------------------------
\* The steps the thread takes by itself.
Thread ==
    \/ Start \/ PollRemaining \/ PollReturns \/ CheckBeforeRead \/ BufferEmpty
    \/ ReadFrame \/ Finish

Next ==
    \/ Thread
    \/ PollInterrupted \/ EndpointFails
    \/ FrameArrives \/ Tick
    \/ Returned

Spec == Init /\ [][Next]_vars

\* The thread is scheduled and time passes, also under a flood of frames.
FairSpec == Spec /\ WF_vars(Thread) /\ WF_vars(Tick)
-----------------------------------------------------------------------------
(* Properties *)

Record == [packet : Packets, class : {"conflict", "observed"}, count : 1 .. MaxCount]

\* Every variable keeps its type, and the list of records its limit.
TypeOK ==
    /\ pc \in {"start", "check", "poll", "drain", "read"} \cup Outcomes
    /\ timeout \in Timeouts
    /\ deadline \in Nat
    /\ pollUntil \in Nat
    /\ records \in Seq(Record)
    /\ Len(records) <= RecordLimit
    /\ indexes \in [Packets -> Nat]
    /\ claimants \in [Ips -> SUBSET Macs]
    /\ claimOrder \in Seq(Ips)
    /\ malformed \in [Reasons -> 0 .. MaxCount]
    /\ truncated \in BOOLEAN
    /\ duplicates \subseteq [ip : Ips, macs : SUBSET Macs]
    /\ queue \in Seq(Frames)
    /\ now \in Nat
    /\ tally \in [Packets -> 0 .. MaxCount]
    /\ firstRead \in Seq(Packets)
    /\ overrun \in 0 .. 2

Foreign(p) == tally[p] > 0 /\ ~Suppressed(p)

\* The packets that an outcome has room for: the distinct ones of other stations, the
\* first read first, up to the limit.
Kept == {firstRead[k] : k \in 1 .. Smaller(Len(firstRead), RecordLimit)}

\* The list of records is the beginning of what was read, in the order of the
\* first reading, filled up to its limit before anything is dropped, each packet
\* with the number of times it was read (up to saturation): repeats find their own
\* record through the index also when the list is full.  A record is a conflict
\* exactly when another station asked or answered in the name of a local address,
\* and the truncation warning is given exactly when there was more than the list holds.
\* About PassiveArpAggregator::observe_parsed and classify_passive_arp.
RecordsFaithful ==
    /\ Len(records) = Smaller(Len(firstRead), RecordLimit)
    /\ truncated <=> Len(firstRead) > RecordLimit
    /\ \A k \in DOMAIN records :
        LET p == firstRead[k]
        IN  /\ records[k].packet = p
            /\ records[k].class = "conflict"
                    <=> p.ip \in LocalIps /\ p.op \in {"request", "reply"}
            /\ records[k].count = tally[p]

\* The stations that claimed ip in the packets kept.
Claimed(ip) == {p.mac : p \in {q \in Kept : q.ip = ip}}

\* The duplicate claims of an outcome are exactly the addresses, other than 0.0.0.0 and
\* those of the interface, that two or more stations claimed in the packets kept, each
\* reported once and with exactly those stations: in whatever order and however often
\* they spoke, nothing kept is forgotten, and nothing that was dropped claims an address.
\* About note_third_party_sender and finish.
DuplicatesReported ==
    pc = "done" =>
        /\ duplicates = {[ip |-> i, macs |-> Claimed(i)] :
                            i \in {j \in Ips \ (LocalIps \cup {ZeroIp}) :
                                        Cardinality(Claimed(j)) >= 2}}
        /\ \A j, k \in DOMAIN claimOrder : j # k => claimOrder[j] # claimOrder[k]

\* "no conflicts observed" is printed only when no request or reply of another
\* station used a local address, or when the truncation warning is given.
QuietOnlyWithoutConflict ==
    pc = "done" /\ (\A k \in DOMAIN records : records[k].class # "conflict") =>
        \/ truncated
        \/ \A p \in Packets :
            tally[p] > 0 /\ p.mac # LocalMac /\ p.ip \in LocalIps
                => p.op \notin {"request", "reply"}

\* A busy capture cannot run past the timeout: whatever is buffered, at most one
\* read ends after the deadline, the one begun before it.
OverrunBounded == overrun <= 1

\* The listen is never cut short: it returns an outcome only when the whole
\* timeout has passed, whatever interruptions and rounded poll timeouts came.
ListenNotCutShort == pc = "done" => now >= timeout

\* The listen comes to an end, even if the capture buffer never runs empty.
Terminates == <>(pc \in Outcomes)
=============================================================================
