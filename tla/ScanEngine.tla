----------------------------- MODULE ScanEngine -----------------------------
(***************************************************************************)
(* The scan engine of src/scanner.rs: the send rounds, the receive windows *)
(* and the merging of replies, on the burst path (RateLimited = FALSE) and *)
(* on the rate-limited path.  The program is one thread; what runs beside  *)
(* it is the local network, which queues frames on the capture socket at   *)
(* any time, and the clock, which advances while the program waits and     *)
(* also, for a bounded number of ticks, while it does not (a preempted     *)
(* thread, a slow send).  The endpoint may refuse a send, may interrupt a  *)
(* poll, and may fail a poll or a read for good.                           *)
(***************************************************************************)
EXTENDS Integers, Sequences, FiniteSets

CONSTANTS
    Ip,                \* sender IPv4 addresses seen on the network
    Mac,               \* hardware addresses seen on the network
    None,              \* absence of an entry (BTreeMap) or a value (Option)
    Targets,           \* the plan's targets, in send order
    AcceptedSenders,   \* the addresses ArpReplyAcceptance accepts
    RateLimited,       \* whether a rate limit is scheduled
    Rounds,            \* scan_round_count
    ReceiveWindow,     \* ReceiveWindow[r]: the window of zero-based round r
    Interval,          \* minimum gap after a send completes (rate-limited)
    Pacing,            \* pacing_between_scan_rounds
    TicksPerMillisecond, \* clock resolution below the milliseconds of poll
    MaxPollMilliseconds, \* largest timeout poll takes (c_int::MAX)
    MaxTimestamp,      \* largest timestamp checked_add can produce
    Frames,            \* frames the network may deliver
    MaxFrames,         \* bound on the frames delivered during one scan
    MaxLate            \* bound on the ticks lost while the program could run

Noise == {"notArp", "request", "malformed"}
Frame == [kind : {"reply"}, ip : Ip, mac : Mac] \cup [kind : Noise]

ASSUME PlanAssumption ==
    /\ Targets \in Seq(Ip)
    /\ AcceptedSenders \subseteq Ip
    /\ None \notin Mac \cup Nat
    /\ Frames \subseteq Frame

ASSUME ScheduleAssumption ==
    /\ RateLimited \in BOOLEAN
    /\ Rounds \in Nat \ {0}
    /\ ReceiveWindow \in [0 .. Rounds - 1 -> Nat]
    /\ Interval \in Nat
    /\ Pacing \in Nat
    /\ TicksPerMillisecond \in Nat \ {0}
    /\ MaxPollMilliseconds \in Nat
    /\ MaxTimestamp \in Nat

ASSUME BoundAssumption == MaxFrames \in Nat /\ MaxLate \in Nat

VARIABLES
    pc,          \* where the thread is; the three last values are outcomes
    round,       \* round_index
    pending,     \* indexes of Targets still to be sent in this round
    wakeAt,      \* end of the current sleep
    lastSend,    \* last_send
    deadline,    \* end of the current, or of the last, receive window
    pollUntil,   \* when the current poll times out
    hosts,       \* the table the scan returns
    roundHosts,  \* the table the current receive window fills
    conflicts,   \* warnings: conflicting replies
    failedSends, \* warnings: refused sends, counted by target
    malformed,   \* warnings: malformed frames, counted
    queue,       \* frames buffered for the endpoint, oldest first
    now,         \* the monotonic clock
    arrived,     \* frames delivered so far
    late,        \* ticks lost so far
    heard,       \* history: claims <<ip, mac>> of accepted replies read
    probes,      \* history: requests that left, counted by target
    probeAt      \* history: when the latest send was started

program == <<pc, round, pending, wakeAt, lastSend, deadline, pollUntil>>
results == <<hosts, roundHosts, conflicts, failedSends, malformed>>
world   == <<queue, now, arrived, late>>
history == <<heard, probes, probeAt>>
vars    == <<program, results, world, history>>

Outcomes == {"done", "failed", "timingError"}
AllTargets == DOMAIN Targets
NoHosts == [ip \in Ip |-> None]
Larger(a, b) == IF a >= b THEN a ELSE b
Smaller(a, b) == IF a <= b THEN a ELSE b
-----------------------------------------------------------------------------
(* Pure parts *)

\* Mutant of Merged: a later address replaces the stored one.
MergedLastWins(table, other) ==
    [ip \in Ip |-> IF other[ip] = None THEN table[ip] ELSE other[ip]]

\* The table after `other` is merged into `table`: a stored address stays.
Merged(table, other) ==
    [ip \in Ip |-> IF table[ip] = None THEN other[ip] ELSE table[ip]]

\* The warning pushed when `ignored` arrives for an address stored as `kept`.
Conflict(ip, kept, ignored) == [ip |-> ip, kept |-> kept, ignored |-> ignored]

\* The warnings pushed while `other` is merged into `table`.
MergeConflicts(table, other) ==
    {Conflict(ip, table[ip], other[ip]) :
        ip \in {i \in Ip : None \notin {table[i], other[i]} /\ table[i] # other[i]}}

OneEntry(ip, mac) == [NoHosts EXCEPT ![ip] = mac]

\* Mutant of StillUnanswered: answered targets are not dropped.
NothingAnswered(table) == {i \in AllTargets : Targets[i] \in DOMAIN table}

StillUnanswered(table) == {i \in AllTargets : table[Targets[i]] = None}

\* Mutant of PollTimeout: a cast that turns a long wait negative, that is endless.
PollTimeoutWrapped(remaining) ==
    IF remaining \div TicksPerMillisecond > MaxPollMilliseconds
    THEN (MaxTimestamp + MaxLate + 1) * TicksPerMillisecond
    ELSE (remaining \div TicksPerMillisecond) * TicksPerMillisecond

\* poll takes whole milliseconds, up to a largest value: the remaining time is
\* rounded down and clamped.
PollTimeout(remaining) ==
    Smaller(remaining \div TicksPerMillisecond, MaxPollMilliseconds)
        * TicksPerMillisecond

\* Mutants of MoreRounds: one round too many, one too few.
MoreRoundsInclusive == round < Rounds
MoreRoundsButLast == round + 2 < Rounds

MoreRounds == round + 1 < Rounds

\* Mutant of PacingApplies: the last pacing is skipped.
PacingSkipsLastGap == Pacing > 0 /\ round + 2 < Rounds

PacingApplies == Pacing > 0 /\ MoreRounds

\* Mutant of NextRoundBaseline: only the last send counts, not the window's end.
BaselineIgnoresWindow == lastSend + Interval

\* Mutant of NextRoundBaseline: the interval counts from the window's end.
BaselineAfterWindow == now + Interval

\* The time the pacing before the next rate-limited round is added to.
NextRoundBaseline == Larger(lastSend + Interval, now)

WindowLength == IF RateLimited THEN ReceiveWindow[round] ELSE ReceiveWindow[0]

\* The timestamp the thread computes next with checked_add, where it does.
TimestampNeeded ==
    CASE pc = "sent" /\ pending # {} -> now + Interval
      [] pc = "between" -> NextRoundBaseline + Pacing
      [] pc = "open" -> now + WindowLength
      [] OTHER -> 0

TimestampFits == TimestampNeeded <= MaxTimestamp

\* Mutant of WindowOpen: a poll timeout of zero milliseconds ends the window.
WindowOpenForWholeMilliseconds ==
    now < deadline /\ PollTimeout(deadline - now) > 0

WindowOpen == now < deadline
-----------------------------------------------------------------------------
Init ==
    /\ pc = IF Targets # <<>> THEN "send"
            ELSE IF RateLimited THEN "open" ELSE "roundSent"
    /\ round = 0
    /\ pending = AllTargets
    /\ wakeAt = 0
    /\ lastSend = None
    /\ deadline = 0
    /\ pollUntil = 0
    /\ hosts = NoHosts
    /\ roundHosts = NoHosts
    /\ conflicts = {}
    /\ failedSends = [i \in AllTargets |-> 0]
    /\ malformed = 0
    /\ queue = <<>>
    /\ now = 0
    /\ arrived = 0
    /\ late = 0
    /\ heard = {}
    /\ probes = [i \in AllTargets |-> 0]
    /\ probeAt = 0
-----------------------------------------------------------------------------
(* Sending *)

\* send_one_address_resolution_request for the first pending target: a refused
\* send is only a warning and uses up its place in the schedule.
SendRequest ==
    /\ pc = "send"
    /\ now >= wakeAt
    /\ \E i \in pending :
        /\ \A j \in pending : i <= j
        /\ pending' = pending \ {i}
        /\ \/ probes' = [probes EXCEPT ![i] = @ + 1] /\ UNCHANGED failedSends
           \/ failedSends' = [failedSends EXCEPT ![i] = @ + 1] /\ UNCHANGED probes
    /\ probeAt' = now
    /\ pc' = IF RateLimited THEN "sent"
             ELSE IF pending' = {} THEN "roundSent" ELSE "send"
    /\ UNCHANGED <<round, wakeAt, lastSend, deadline, pollUntil, hosts,
                   roundHosts, conflicts, malformed, world, heard>>

\* Rate-limited: the completion time is read after the send returned, and the
\* next send of the round waits for it plus the interval.
StampSend ==
    /\ pc = "sent"
    /\ TimestampFits
    /\ lastSend' = now
    /\ \/ /\ pending = {}
          /\ pc' = "open"
          /\ UNCHANGED wakeAt
       \/ /\ pending # {}
          /\ wakeAt' = TimestampNeeded
          /\ pc' = "send"
    /\ UNCHANGED <<round, pending, deadline, pollUntil, results, world, history>>

\* Burst: after a full round, sleep for the pacing and start the next one, or
\* go on to the single receive window.
EndBurstRound ==
    /\ pc = "roundSent"
    /\ now >= wakeAt
    /\ \/ /\ MoreRounds
          /\ round' = round + 1
          /\ wakeAt' = IF PacingApplies THEN now + Pacing ELSE wakeAt
          /\ pending' = AllTargets
          /\ pc' = IF AllTargets = {} THEN "roundSent" ELSE "send"
       \/ /\ ~MoreRounds
          /\ pc' = "open"
          /\ UNCHANGED <<round, wakeAt, pending>>
    /\ UNCHANGED <<lastSend, deadline, pollUntil, results, world, history>>

\* Rate-limited: the next round starts no earlier than the interval after the
\* last send and the end of the window, plus the pacing.
StartNextRound ==
    /\ pc = "between"
    /\ TimestampFits
    /\ wakeAt' = TimestampNeeded
    /\ round' = round + 1
    /\ pending' = StillUnanswered(hosts)
    /\ pc' = "send"
    /\ UNCHANGED <<lastSend, deadline, pollUntil, results, world, history>>
-----------------------------------------------------------------------------
(* Receiving *)

\* The deadline of the window, and a fresh table for it.
OpenWindow ==
    /\ pc = "open"
    /\ TimestampFits
    /\ deadline' = TimestampNeeded
    /\ roundHosts' = NoHosts
    /\ pc' = "check"
    /\ UNCHANGED <<round, pending, wakeAt, lastSend, pollUntil, hosts, conflicts,
                   failedSends, malformed, world, history>>

\* Time is left: poll for it.
PollRemaining ==
    /\ pc = "check"
    /\ WindowOpen
    /\ pollUntil' = now + PollTimeout(deadline - now)
    /\ pc' = "poll"
    /\ UNCHANGED <<round, pending, wakeAt, lastSend, deadline, results, world,
                   history>>

\* The window is over.  Its table is merged into the scan's: on the burst path,
\* and with no targets, that one is empty and the merge returns the window's.
CloseWindow ==
    /\ pc = "check"
    /\ ~WindowOpen
    /\ hosts' = Merged(hosts, roundHosts)
    /\ conflicts' = conflicts \cup MergeConflicts(hosts, roundHosts)
    /\ roundHosts' = NoHosts
    /\ pc' = IF /\ RateLimited
                /\ StillUnanswered(hosts') # {}
                /\ MoreRounds
             THEN "between" ELSE "done"
    /\ UNCHANGED <<round, pending, wakeAt, lastSend, deadline, pollUntil,
                   failedSends, malformed, world, history>>

PollReturns ==
    /\ pc = "poll"
    /\ \/ queue # <<>> /\ pc' = "drain"
       \/ queue = <<>> /\ now >= pollUntil /\ pc' = "check"
    /\ UNCHANGED <<round, pending, wakeAt, lastSend, deadline, pollUntil, results,
                   world, history>>

\* A signal interrupts poll, reported as not readable; or poll reports an error
\* condition of the device as readable, although nothing is buffered.
PollInterrupted ==
    /\ pc = "poll"
    /\ queue = <<>>
    /\ pc' \in {"check", "drain"}
    /\ UNCHANGED <<round, pending, wakeAt, lastSend, deadline, pollUntil, results,
                   world, history>>

\* The reply's sender is offered to the window's table: the first one wins.
RecordReply(frame) ==
    IF frame.ip \in AcceptedSenders
    THEN LET entry == OneEntry(frame.ip, frame.mac)
         IN /\ roundHosts' = Merged(roundHosts, entry)
            /\ conflicts' = conflicts \cup MergeConflicts(roundHosts, entry)
            /\ heard' = heard \cup {<<frame.ip, frame.mac>>}
    ELSE UNCHANGED <<roundHosts, conflicts, heard>>

\* One turn of drain_buffered_reply_frames: it does not look at the clock.
ReceiveFrame ==
    /\ pc = "drain"
    /\ queue # <<>>
    /\ LET frame == Head(queue)
       IN /\ IF frame.kind = "reply" THEN RecordReply(frame)
             ELSE UNCHANGED <<roundHosts, conflicts, heard>>
          /\ malformed' = IF frame.kind = "malformed" THEN malformed + 1 ELSE malformed
    /\ queue' = Tail(queue)
    /\ UNCHANGED <<program, hosts, failedSends, now, arrived, late, probes, probeAt>>

BufferEmpty ==
    /\ pc = "drain"
    /\ queue = <<>>
    /\ pc' = "check"
    /\ UNCHANGED <<round, pending, wakeAt, lastSend, deadline, pollUntil, results,
                   world, history>>

\* A poll or a read fails: the scan returns the error and drops what it found.
EndpointFails ==
    /\ pc \in {"poll", "drain"}
    /\ pc' = "failed"
    /\ UNCHANGED <<round, pending, wakeAt, lastSend, deadline, pollUntil, results,
                   world, history>>
\* checked_add has no result: the scan returns ScanTimingExceedsLimit, and with
\* it drops what it found.
TimingOverflows ==
    /\ ~TimestampFits
    /\ pc' = "timingError"
    /\ UNCHANGED <<round, pending, wakeAt, lastSend, deadline, pollUntil, results,
                   world, history>>
-----------------------------------------------------------------------------
(* The network and the clock *)

FrameArrives ==
    /\ pc \notin Outcomes
    /\ arrived < MaxFrames
    /\ \E frame \in Frames : queue' = Append(queue, frame)
    /\ arrived' = arrived + 1
    /\ UNCHANGED <<program, results, now, late, history>>

Sleeping == pc \in {"send", "roundSent"} /\ now < wakeAt
Polling  == pc = "poll" /\ queue = <<>> /\ now < deadline

\* A sleep or a poll takes its time.
WaitPasses ==
    /\ Sleeping \/ Polling
    /\ now' = now + 1
    /\ UNCHANGED <<program, results, queue, arrived, late, history>>

\* Time is lost where the program could have gone on.
ProgramIsLate ==
    /\ pc \notin Outcomes
    /\ ~(Sleeping \/ Polling)
    /\ late < MaxLate
    /\ late' = late + 1
    /\ now' = now + 1
    /\ UNCHANGED <<program, results, queue, arrived, history>>

\* The scan has returned.
Returned ==
    /\ pc \in Outcomes
    /\ UNCHANGED vars
-----------------------------------------------------------------------------
\* The steps the thread takes by itself.
Thread ==
    \/ SendRequest \/ StampSend \/ EndBurstRound \/ StartNextRound
    \/ OpenWindow \/ PollRemaining \/ CloseWindow \/ PollReturns
    \/ ReceiveFrame \/ BufferEmpty \/ TimingOverflows

Next ==
    \/ Thread
    \/ PollInterrupted \/ EndpointFails
    \/ FrameArrives \/ WaitPasses \/ ProgramIsLate
    \/ Returned

Spec == Init /\ [][Next]_vars

\* The thread is scheduled, and time does not stand still: a loop of polls that
\* return at once still takes time, hence strong fairness of the clock.
FairSpec == Spec /\ WF_vars(Thread) /\ SF_vars(WaitPasses)
-----------------------------------------------------------------------------
(* Properties *)

\* Every variable keeps its type (the maps, counters and timestamps of the scan).
TypeOK ==
    /\ pc \in {"send", "sent", "roundSent", "open", "check", "poll", "drain",
               "between"} \cup Outcomes
    /\ round \in 0 .. Rounds - 1
    /\ pending \subseteq AllTargets
    /\ wakeAt \in Nat
    /\ lastSend \in Nat \cup {None}
    /\ deadline \in Nat
    /\ pollUntil \in Nat
    /\ hosts \in [Ip -> Mac \cup {None}]
    /\ roundHosts \in [Ip -> Mac \cup {None}]
    /\ conflicts \subseteq [ip : Ip, kept : Mac, ignored : Mac]
    /\ failedSends \in [AllTargets -> Nat]
    /\ malformed \in Nat
    /\ queue \in Seq(Frames)
    /\ now \in Nat
    /\ arrived \in Nat
    /\ late \in Nat
    /\ heard \subseteq Ip \X Mac
    /\ probes \in [AllTargets -> Nat]
    /\ probeAt \in Nat

NamedIgnored == {<<w.ip, w.ignored>> : w \in conflicts}

\* No rival claim is lost: when the scan reports, every address heard for an
\* IPv4 address other than the reported one has been named in a conflict
\* warning, although the rate-limited path detects some conflicts inside a
\* window (against the window's own table) and others only when windows merge.
RivalsReported ==
    pc = "done" =>
        \A claim \in heard :
            hosts[claim[1]] = claim[2] \/ claim \in NamedIgnored

\* Every probe the schedule owes a target left or is accounted for by a send
\* warning: all rounds of it on the burst path, and on the rate-limited path
\* for the targets that never answered.
ProbesAccounted ==
    pc = "done" =>
        \A i \in AllTargets :
            (RateLimited => hosts[Targets[i]] = None) =>
                probes[i] + failedSends[i] = Rounds

\* Rate-limited: a target whose reply was read is not probed again, however
\* late in an earlier window the reply came.
AnsweredNotProbedAgain ==
    [][\A i \in pending \ pending' : \A mac \in Mac : <<Targets[i], mac>> \notin heard]_vars

Sends == pc = "send" /\ pending' # pending

\* Rate-limited: a send starts at least the interval after the previous one
\* completed, also across rounds and after a late or refused send, and in a
\* later round at least the pacing after the previous window ended.
SendSpacing ==
    [][Sends => /\ lastSend # None => now >= lastSend + Interval
                /\ round > 0 => now >= deadline + Pacing]_vars

\* Burst: a round starts at least the pacing after the last send of the one before.
RoundPacing ==
    [][Sends /\ round > 0 /\ pending = AllTargets => now >= probeAt + Pacing]_vars

\* A window is never cut short: when it closes, its full length has passed since
\* the last request was sent, whatever interruptions, early poll timeouts and
\* millisecond rounding came before.
WindowNotCutShort ==
    [][pc = "check" /\ pc' \in {"between", "done"}
        => now >= probeAt + WindowLength]_vars

\* The refinement mapping: the scan's table with the open window's entries
\* behind it, and the thread's position as an outcome.
EffectiveTable == Merged(hosts, roundHosts)

Outcome ==
    IF pc = "done" THEN "reported" ELSE IF pc \in Outcomes THEN "failed" ELSE "running"

Promise == INSTANCE HostTable WITH
    table <- EffectiveTable, claims <- heard, named <- NamedIgnored, outcome <- Outcome

\* Both paths, with their two levels of tables, behave as one table in which
\* the first reply heard wins.
ImplementsHostTable == Promise!Spec

\* The scan comes to an end: with an answer or an error, whatever the network
\* does within the bounds.
Terminates == <>(pc \in Outcomes)

\* Claimed by README.md:19 ("After the last round it collects replies until
\* --timeout-ms elapses") and scanner.rs:349: no frame is read once the window
\* is over.
ReceiveStopsAtDeadline ==
    [][pc = "drain" /\ queue' # queue /\ Len(queue') < Len(queue) => now < deadline]_vars

\* Claimed by scanner.rs:88: the first address wins and later ones are ignored,
\* so the address a warning says is kept is the address reported.
WarningNamesReportedHost ==
    pc = "done" => \A w \in conflicts : w.kept = hosts[w.ip]

\* When the rounds begin, and the scan ends, if requests and polls take no time: each
\* round sends to all its targets, and the next one starts after window and interval,
\* plus the pacing.
SendTime == IF Targets = <<>> THEN 0 ELSE (Len(Targets) - 1) * Interval
RoundBegins[r \in 0 .. Rounds - 1] ==
    IF r = 0 THEN 0
    ELSE RoundBegins[r - 1] + SendTime + Larger(Interval, ReceiveWindow[r - 1]) + Pacing
ScheduleEnd == RoundBegins[Rounds - 1] + SendTime + ReceiveWindow[Rounds - 1]

\* A rate-limited schedule that fits the monotonic clock when the thread is on time
\* overflows only for time the thread lost: no interval, pacing or window is counted
\* twice, and no interruption or early poll timeout adds to it.  About the deadlines
\* that are first computed in the middle of a scan (scanner.rs:562, scanner.rs:613).
OverflowsOnlyWhenLate == pc = "timingError" => ScheduleEnd + late > MaxTimestamp
=============================================================================
