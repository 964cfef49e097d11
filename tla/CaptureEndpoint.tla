-------------------------- MODULE CaptureEndpoint --------------------------
(***************************************************************************)
(* The receiving side of both link-layer endpoints, from opening to        *)
(* closing, under the two loops that read from them.  On Linux each frame  *)
(* is received by a system call of its own (src/linux_socket.rs).  On      *)
(* macOS a read fills a buffer with aligned records of several frames,     *)
(* and a cursor walks over them between reads (src/macos_bpf_socket.rs).   *)
(* A scan drains the endpoint whenever poll says it is readable, in one or *)
(* more windows; a passive monitor has one window and may stop in the      *)
(* middle of a drain.                                                      *)
(***************************************************************************)
EXTENDS Integers, Sequences, FiniteSets

CONSTANTS
    Platforms,     \* a subset of {"linux", "macos"}
    Clients,       \* a subset of {"scan", "monitor"}
    Sizes,         \* octets a captured frame may have
    BufferOctets,  \* size of the BPF read buffer
    Cuts,          \* octets that may be missing at the end of a read
    KernelFrames,  \* frames the kernel buffers before it drops
    MaxFrames,     \* bound on the frames that arrive
    MaxWindows     \* bound on the receive windows of a scan

ASSUME EndpointAssumption ==
    /\ Platforms \subseteq {"linux", "macos"}
    /\ Clients \subseteq {"scan", "monitor"}
    /\ Sizes \subseteq Nat \ {0}
    /\ Cuts \subseteq Nat
    /\ {BufferOctets, KernelFrames, MaxFrames, MaxWindows} \subseteq Nat

VARIABLES
    platform,
    client,
    pc,         \* "closed", "unbound", "away", "polling", "reading",
                \* "refilled", "stopped" or "failed"
    windows,    \* receive windows begun
    kernel,     \* frames in the kernel's buffer, oldest first
    readBuffer, \* macOS: the frames of the records in read_buffer
    filled,     \* macOS: filled_length
    cursor,     \* macOS: parse_cursor
    answer,     \* what the last try_receive_ethernet_frame returned
    arrived     \* frames that arrived so far

reader == <<readBuffer, filled, cursor>>
vars == <<platform, client, pc, windows, kernel, reader, answer, arrived>>

Frame == [id : 1 .. MaxFrames, via : {"selected", "other"}, size : Sizes]
NoFrame == [id |-> 0, via |-> "none", size |-> 0]
Garbage == [id |-> 0, via |-> "garbage", size |-> 0]
Ended == {"stopped", "failed"}

\* About to call try_receive_ethernet_frame, or further round its loop.
Receiving == {"reading", "refilled"}
HeaderOctets == 18
Smaller(a, b) == IF a <= b THEN a ELSE b
-----------------------------------------------------------------------------
(* The records of the read buffer *)

Alignment == 4
RoundedUp(n) == ((n + Alignment - 1) \div Alignment) * Alignment

\* Where the kernel put the k-th of the records.
Starts(frames) ==
    LET start[k \in DOMAIN frames] ==
            IF k = 1 THEN 0 ELSE RoundedUp(start[k - 1] + HeaderOctets + frames[k - 1].size)
    IN start

\* What a read of these frames fills: the last record is not padded.
Octets(frames) ==
    Starts(frames)[Len(frames)] + HeaderOctets + frames[Len(frames)].size

\* Mutant of WordAlign: records are taken to follow each other closely.
NotAligned(n) == n

WordAlign(n) == RoundedUp(n)

\* The frame whose record header is at the cursor.
FrameAtCursor ==
    IF \E k \in DOMAIN readBuffer : Starts(readBuffer)[k] = cursor
    THEN readBuffer[CHOOSE k \in DOMAIN readBuffer : Starts(readBuffer)[k] = cursor]
    ELSE Garbage

Unread == cursor < filled

\* next_bpf_record finds a whole record.
WholeRecord ==
    /\ cursor + HeaderOctets <= filled
    /\ cursor + HeaderOctets + FrameAtCursor.size <= filled

NextCursor == Smaller(cursor + WordAlign(HeaderOctets + FrameAtCursor.size), filled)

\* Mutant of AfterFrame: one frame is read, then the endpoint is polled again.
PollAfterFrame == "polling"

\* Where a drain goes on after a frame.
AfterFrame == "reading"
-----------------------------------------------------------------------------
Init ==
    /\ platform \in Platforms
    /\ client \in Clients
    /\ pc = "closed"
    /\ windows = 0
    /\ kernel = <<>>
    /\ readBuffer = <<>>
    /\ filled = 0
    /\ cursor = 0
    /\ answer = NoFrame
    /\ arrived = 0
-----------------------------------------------------------------------------
(* Opening *)

\* The BPF device: attaching it and setting the filter empty its buffers.
OpenDevice ==
    /\ pc = "closed"
    /\ platform = "macos"
    /\ pc' = "away"
    /\ UNCHANGED <<platform, client, windows, kernel, reader, answer, arrived>>

\* The packet socket captures from now on, from every interface.
OpenSocket ==
    /\ pc = "closed"
    /\ platform = "linux"
    /\ pc' = "unbound"
    /\ UNCHANGED <<platform, client, windows, kernel, reader, answer, arrived>>

\* From now on it captures from one interface; what it has is kept.
Bind ==
    /\ pc = "unbound"
    /\ pc' = "away"
    /\ UNCHANGED <<platform, client, windows, kernel, reader, answer, arrived>>

OpenFails ==
    /\ pc \in {"closed", "unbound"}
    /\ pc' = "failed"
    /\ UNCHANGED <<platform, client, windows, kernel, reader, answer, arrived>>
-----------------------------------------------------------------------------
(* The receive windows of the client *)

MoreWindows == windows < IF client = "scan" THEN MaxWindows ELSE 1

BeginWindow ==
    /\ pc = "away"
    /\ MoreWindows
    /\ windows' = windows + 1
    /\ pc' = "polling"
    /\ UNCHANGED <<platform, client, kernel, reader, answer, arrived>>

\* poll looks at the kernel's buffer.
PollReadable ==
    /\ pc = "polling"
    /\ kernel # <<>>
    /\ pc' = "reading"
    /\ UNCHANGED <<platform, client, windows, kernel, reader, answer, arrived>>

\* poll reports an error condition as readable.
PollErrorCondition ==
    /\ pc = "polling"
    /\ kernel = <<>>
    /\ pc' = "reading"
    /\ UNCHANGED <<platform, client, windows, kernel, reader, answer, arrived>>

\* The deadline has passed: another window, or the end.  The monitor looks at it
\* before every read, the scan only between two drains.
WindowEnds ==
    /\ pc \in IF client = "monitor" THEN {"polling", "reading"} ELSE {"polling"}
    /\ pc' \in IF MoreWindows THEN {"away", "stopped"} ELSE {"stopped"}
    /\ UNCHANGED <<platform, client, windows, kernel, reader, answer, arrived>>
-----------------------------------------------------------------------------
(* try_receive_ethernet_frame *)

ReceiveFrame ==
    /\ pc = "reading"
    /\ platform = "linux"
    /\ kernel # <<>>
    /\ answer' = Head(kernel)
    /\ kernel' = Tail(kernel)
    /\ pc' = AfterFrame
    /\ UNCHANGED <<platform, client, windows, reader, arrived>>

TakeRecord ==
    /\ pc \in Receiving
    /\ Unread
    /\ WholeRecord
    /\ answer' = FrameAtCursor
    /\ cursor' = NextCursor
    /\ pc' = AfterFrame
    /\ UNCHANGED <<platform, client, windows, kernel, readBuffer, filled, arrived>>

\* A record in part ends the buffer.
SkipPartialRecord ==
    /\ pc \in Receiving
    /\ Unread
    /\ ~WholeRecord
    /\ cursor' = filled
    /\ pc' = "refilled"
    /\ UNCHANGED <<platform, client, windows, kernel, readBuffer, filled, answer,
                   arrived>>

\* The kernel hands over the oldest frames that fit the buffer, the last one
\* possibly in part.
ReadRecords ==
    /\ pc \in Receiving
    /\ platform = "macos"
    /\ ~Unread
    /\ \E n \in DOMAIN kernel, cut \in Cuts :
        LET frames == SubSeq(kernel, 1, n)
        IN /\ Octets(frames) <= BufferOctets
           /\ cut < HeaderOctets + frames[n].size
           /\ readBuffer' = frames
           /\ kernel' = SubSeq(kernel, n + 1, Len(kernel))
           /\ filled' = Octets(frames) - cut
    /\ cursor' = 0
    /\ pc' = "refilled"
    /\ UNCHANGED <<platform, client, windows, answer, arrived>>

NothingToRead ==
    /\ pc \in Receiving
    /\ ~Unread
    /\ kernel = <<>>
    /\ answer' = NoFrame
    /\ pc' = "polling"
    /\ UNCHANGED <<platform, client, windows, kernel, reader, arrived>>

\* A poll or a system call that receives fails; taking a record makes none.
EndpointFails ==
    /\ pc \in {"polling"} \cup Receiving
    /\ ~Unread
    /\ pc' = "failed"
    /\ UNCHANGED <<platform, client, windows, kernel, reader, answer, arrived>>
-----------------------------------------------------------------------------
(* The network *)

Captured(via) == pc = "unbound" \/ via = "selected"

\* A frame arrives that the endpoint captures; a full kernel buffer drops it.
FrameArrives ==
    /\ pc \notin {"closed"} \cup Ended
    /\ arrived < MaxFrames
    /\ arrived' = arrived + 1
    /\ \E frame \in Frame :
        /\ frame.id = arrived'
        /\ Captured(frame.via)
        /\ \/ /\ Len(kernel) < KernelFrames
              /\ kernel' = Append(kernel, frame)
           \/ /\ Len(kernel) = KernelFrames
              /\ UNCHANGED kernel
    /\ UNCHANGED <<platform, client, pc, windows, reader, answer>>

Closed ==
    /\ pc \in Ended
    /\ UNCHANGED vars
-----------------------------------------------------------------------------
Thread ==
    \/ OpenDevice \/ OpenSocket \/ Bind \/ BeginWindow \/ PollReadable
    \/ ReceiveFrame \/ TakeRecord \/ SkipPartialRecord \/ ReadRecords
    \/ NothingToRead

Next ==
    \/ Thread
    \/ OpenFails \/ PollErrorCondition \/ WindowEnds \/ EndpointFails
    \/ FrameArrives \/ Closed

Spec == Init /\ [][Next]_vars

\* The thread is scheduled; windows need not end.
FairSpec == Spec /\ WF_vars(Thread)
-----------------------------------------------------------------------------
(* Properties *)

\* The records of the last read that are done with.
Done ==
    IF Unread THEN Cardinality({k \in DOMAIN readBuffer : Starts(readBuffer)[k] < cursor})
    ELSE Len(readBuffer)

Whole(k) == Starts(readBuffer)[k] + HeaderOctets + readBuffer[k].size <= filled

Unfinished ==
    [k \in 1 .. Len(readBuffer) - Done |->
        [frame |-> readBuffer[Done + k], whole |-> Whole(Done + k)]]

Pending ==
    Unfinished \o [k \in DOMAIN kernel |-> [frame |-> kernel[k], whole |-> TRUE]]

Promise == INSTANCE CaptureQueue WITH
    Frames <- Frame, NoFrame <- NoFrame, queue <- Pending, answer <- answer

\* Read buffer, cursor and kernel buffer together behave as one queue of frames:
\* none is handed out twice, skipped, taken from the wrong place or held back
\* when the endpoint says that there is nothing to read.
ImplementsCaptureQueue == Promise!Spec

\* Nothing lies in the read buffer while poll, which does not see it, is waited
\* for.
PollSeesEverything == pc = "polling" => ~Unread

\* As long as the client listens, frames that were captured get read: it never
\* stays with some for ever.
NothingLeftBehind == []<>(Pending = <<>> \/ pc \in Ended)

\* Claimed by README.md:18 ("listens on the selected interface") and
\* DECISIONS.md:116 ("a handle attached to one interface"): no frame of another
\* interface is handed out.
OnlySelectedInterface == answer.via # "other"
=============================================================================
