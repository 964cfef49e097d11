-------------------------- MODULE ScanEngineProofs --------------------------
(***************************************************************************)
(* Proofs about ScanEngine for every plan, schedule and network: its types *)
(* and counts, what it probes and records, and, however late the thread    *)
(* runs, the gaps, the receive windows and the timestamps of its schedule. *)
(***************************************************************************)
EXTENDS ScanEngine, LibraryLemmas

\* Where the thread stands tells what it knows: another round follows only
\* while one is left, a send was stamped before its round's window, and only the
\* burst path ends its rounds without a window.
ThreadInv ==
    /\ pc = "roundSent" => ~RateLimited
    /\ pc = "between" => RateLimited /\ MoreRounds /\ AllTargets # {}
    /\ RateLimited /\ AllTargets # {}
         /\ pc \in {"open", "check", "poll", "drain", "between"} => lastSend \in Nat

\* The inductive strengthening of TypeOK: StartNextRound needs another round
\* and a stamped send to produce a round index and a timestamp.
TypeInv == TypeOK /\ ThreadInv

USE DEF Outcomes, AllTargets, program, results, world, history, vars

\* The wait handed to poll is a number of ticks.
LEMMA PollTimeoutIsNat ==
    ASSUME NEW remaining \in Nat
    PROVE  PollTimeout(remaining) \in Nat
  <1>1. remaining \div TicksPerMillisecond \in Nat
    BY ScheduleAssumption
  <1>2. Smaller(remaining \div TicksPerMillisecond, MaxPollMilliseconds) \in Nat
    BY <1>1, ScheduleAssumption DEF Smaller
  <1>3. \A k, n \in Nat : k * n \in Nat
    OBVIOUS
  <1> QED
    BY <1>2, <1>3, ScheduleAssumption DEF PollTimeout

\* The timestamp that checked_add is asked for is a timestamp, in every position
\* of the thread: where a round or a gap is computed, a send was stamped before.
LEMMA TimestampNeededIsNat ==
    ASSUME TypeInv
    PROVE  TimestampNeeded \in Nat
  <1>1. WindowLength \in Nat
    BY ScheduleAssumption DEF WindowLength, TypeInv, TypeOK
  <1>2. pc = "between" => NextRoundBaseline \in Nat
    <2>1. SUFFICES ASSUME pc = "between" PROVE NextRoundBaseline \in Nat
      OBVIOUS
    <2>2. lastSend \in Nat
      BY <2>1 DEF TypeInv, ThreadInv, TypeOK
    <2> QED
      BY <2>2, ScheduleAssumption DEF TypeInv, TypeOK, NextRoundBaseline, Larger
  <1>3. now \in Nat
    BY DEF TypeInv, TypeOK
  <1>4. CASE pc = "sent" /\ pending # {}
    <2>1. TimestampNeeded = now + Interval
      BY <1>4 DEF TimestampNeeded
    <2> QED
      BY <2>1, <1>3, ScheduleAssumption
  <1>5. CASE pc = "between"
    <2>1. TimestampNeeded = NextRoundBaseline + Pacing
      BY <1>5 DEF TimestampNeeded
    <2> QED
      BY <2>1, <1>2, <1>5, ScheduleAssumption
  <1>6. CASE pc = "open"
    <2>1. TimestampNeeded = now + WindowLength
      BY <1>6 DEF TimestampNeeded
    <2> QED
      BY <2>1, <1>1, <1>3
  <1>7. CASE ~(pc = "sent" /\ pending # {}) /\ pc # "between" /\ pc # "open"
    BY <1>7 DEF TimestampNeeded
  <1> QED
    BY <1>4, <1>5, <1>6, <1>7

\* The merge of two tables is a table, and its warnings are warnings.
LEMMA MergedIsTable ==
    ASSUME NEW s \in [Ip -> Mac \cup {None}], NEW t \in [Ip -> Mac \cup {None}]
    PROVE  /\ Merged(s, t) \in [Ip -> Mac \cup {None}]
           /\ MergeConflicts(s, t) \subseteq [ip : Ip, kept : Mac, ignored : Mac]
  <1>1. Merged(s, t) \in [Ip -> Mac \cup {None}]
    BY DEF Merged
  <1>2. MergeConflicts(s, t) \subseteq [ip : Ip, kept : Mac, ignored : Mac]
    BY DEF MergeConflicts, Conflict
  <1> QED
    BY <1>1, <1>2

\* A single reply is a table with one entry.
LEMMA EntryIsTable ==
    ASSUME NEW ip \in Ip, NEW mac \in Mac
    PROVE  OneEntry(ip, mac) \in [Ip -> Mac \cup {None}]
  BY DEF OneEntry, NoHosts

\* A counter of a target goes up by one and stays a counter.
LEMMA CountUp ==
    ASSUME NEW S, NEW f \in [S -> Nat], NEW i \in S
    PROVE  [f EXCEPT ![i] = @ + 1] \in [S -> Nat]
  OBVIOUS

\* TypeInv in the initial state.
LEMMA InitTypeInv == Init => TypeInv
  BY PlanAssumption, ScheduleAssumption
     DEF Init, TypeInv, TypeOK, ThreadInv, NoHosts

\* TypeInv is inductive, one step per action.
LEMMA NextTypeInv == TypeInv /\ [Next]_vars => TypeInv'
  <1> SUFFICES ASSUME TypeInv, [Next]_vars PROVE TypeInv'
    OBVIOUS
  <1> USE PlanAssumption, ScheduleAssumption
  <1>1. CASE SendRequest
    <2>1. PICK i \in pending :
            /\ pending' = pending \ {i}
            /\ \/ probes' = [probes EXCEPT ![i] = @ + 1] /\ UNCHANGED failedSends
               \/ failedSends' = [failedSends EXCEPT ![i] = @ + 1] /\ UNCHANGED probes
      BY <1>1 DEF SendRequest
    <2>2. probes' \in [AllTargets -> Nat] /\ failedSends' \in [AllTargets -> Nat]
      <3>1. /\ i \in AllTargets
            /\ probes \in [AllTargets -> Nat]
            /\ failedSends \in [AllTargets -> Nat]
        BY DEF TypeInv, TypeOK
      <3> HIDE DEF AllTargets
      <3>2. /\ [probes EXCEPT ![i] = @ + 1] \in [AllTargets -> Nat]
            /\ [failedSends EXCEPT ![i] = @ + 1] \in [AllTargets -> Nat]
        BY <3>1, CountUp
      <3> QED
        BY <2>1, <3>1, <3>2
    <2>3. pc' \in {"sent", "roundSent", "send"}
      BY <1>1 DEF SendRequest
    <2>4. pending' \subseteq AllTargets /\ probeAt' \in Nat
      BY <1>1, <2>1 DEF SendRequest, TypeInv, TypeOK
    <2> QED
      BY <1>1, <2>2, <2>3, <2>4 DEF SendRequest, TypeInv, TypeOK, ThreadInv
  <1>2. CASE StampSend
    BY <1>2, TimestampNeededIsNat DEF StampSend, TypeInv, TypeOK, ThreadInv, MoreRounds
  <1>3. CASE EndBurstRound
    <2>1. wakeAt' \in Nat
      BY <1>3 DEF EndBurstRound, TypeInv, TypeOK
    <2>2. pc' \in {"send", "roundSent", "open"}
      BY <1>3 DEF EndBurstRound
    <2>3. round' \in 0 .. Rounds - 1 /\ pending' \subseteq AllTargets
      BY <1>3 DEF EndBurstRound, TypeInv, TypeOK, MoreRounds
    <2>4. ~RateLimited
      BY <1>3 DEF EndBurstRound, TypeInv, ThreadInv
    <2> QED
      BY <1>3, <2>1, <2>2, <2>3, <2>4 DEF EndBurstRound, TypeInv, TypeOK, ThreadInv
  <1>4. CASE StartNextRound
    BY SMTT(60), <1>4, TimestampNeededIsNat
       DEF StartNextRound, TypeInv, TypeOK, ThreadInv, MoreRounds, StillUnanswered
  <1>5. CASE OpenWindow
    BY <1>5, TimestampNeededIsNat
       DEF OpenWindow, TypeInv, TypeOK, ThreadInv, MoreRounds, NoHosts
  <1>6. CASE PollRemaining
    <2>1. deadline - now \in Nat
      BY <1>6 DEF PollRemaining, WindowOpen, TypeInv, TypeOK
    <2>2. PollTimeout(deadline - now) \in Nat
      BY <2>1, PollTimeoutIsNat
    <2>3. now + PollTimeout(deadline - now) \in Nat
      BY <2>2 DEF TypeInv, TypeOK
    <2> QED
      BY <1>6, <2>3 DEF PollRemaining, TypeInv, TypeOK, ThreadInv, MoreRounds
  <1>7. CASE CloseWindow
    BY <1>7, MergedIsTable
       DEF CloseWindow, TypeInv, TypeOK, ThreadInv, MoreRounds, NoHosts, StillUnanswered
  <1>8. CASE PollReturns \/ PollInterrupted \/ BufferEmpty \/ EndpointFails
             \/ TimingOverflows
    BY <1>8 DEF PollReturns, PollInterrupted, BufferEmpty, EndpointFails,
                TimingOverflows, TypeInv, TypeOK, ThreadInv, MoreRounds
  <1>9. CASE ReceiveFrame
    <2>1. Head(queue) \in Frame /\ Tail(queue) \in Seq(Frames)
      BY <1>9 DEF ReceiveFrame, TypeInv, TypeOK
    <2>2. /\ roundHosts' \in [Ip -> Mac \cup {None}]
          /\ conflicts' \subseteq [ip : Ip, kept : Mac, ignored : Mac]
          /\ heard' \subseteq Ip \X Mac
      <3>1. CASE UNCHANGED <<roundHosts, conflicts, heard>>
        BY <3>1 DEF TypeInv, TypeOK
      <3>2. CASE Head(queue).kind = "reply" /\ RecordReply(Head(queue))
        <4>1. Head(queue).ip \in Ip /\ Head(queue).mac \in Mac
          BY <2>1, <3>2 DEF Frame, Noise
        <4> DEFINE entry == OneEntry(Head(queue).ip, Head(queue).mac)
        <4>2. CASE Head(queue).ip \in AcceptedSenders
          <5>1. /\ roundHosts' = Merged(roundHosts, entry)
                /\ conflicts' = conflicts \cup MergeConflicts(roundHosts, entry)
                /\ heard' = heard \cup {<<Head(queue).ip, Head(queue).mac>>}
            BY <3>2, <4>2 DEF RecordReply
          <5>2. entry \in [Ip -> Mac \cup {None}]
            BY <4>1, EntryIsTable
          <5>3. /\ Merged(roundHosts, entry) \in [Ip -> Mac \cup {None}]
                /\ MergeConflicts(roundHosts, entry)
                     \subseteq [ip : Ip, kept : Mac, ignored : Mac]
            BY <5>2, MergedIsTable DEF TypeInv, TypeOK
          <5> HIDE DEF entry
          <5> QED
            BY <4>1, <5>1, <5>3 DEF TypeInv, TypeOK
        <4>3. CASE Head(queue).ip \notin AcceptedSenders
          BY <3>1, <3>2, <4>3 DEF RecordReply
        <4> QED
          BY <4>2, <4>3
      <3> QED
        BY <1>9, <3>1, <3>2 DEF ReceiveFrame
    <2> QED
      BY <1>9, <2>1, <2>2
         DEF ReceiveFrame, TypeInv, TypeOK, ThreadInv, MoreRounds
  <1>10. CASE FrameArrives
    BY <1>10 DEF FrameArrives, TypeInv, TypeOK, ThreadInv, MoreRounds
  <1>11. CASE WaitPasses \/ ProgramIsLate
    <2>1. now' \in Nat /\ late' \in Nat
      <3>1. now' = now + 1 /\ (late' = late \/ late' = late + 1)
        BY <1>11 DEF WaitPasses, ProgramIsLate
      <3> QED
        BY <3>1 DEF TypeInv, TypeOK
    <2>2. UNCHANGED <<program, results, queue, arrived, history>>
      BY <1>11 DEF WaitPasses, ProgramIsLate
    <2> QED
      BY <2>1, <2>2 DEF TypeInv, TypeOK, ThreadInv, MoreRounds
  <1>12. CASE Returned \/ UNCHANGED vars
    BY <1>12 DEF Returned, TypeInv, TypeOK, ThreadInv, MoreRounds
  <1> QED
    BY <1>1, <1>2, <1>3, <1>4, <1>5, <1>6, <1>7, <1>8, <1>9, <1>10, <1>11, <1>12
       DEF Next, Thread

\* Every reachable state of every scan is well typed.
THEOREM TypeCorrect == Spec => []TypeOK
  <1>1. TypeInv => TypeOK
    BY DEF TypeInv
  <1> QED
    BY <1>1, InitTypeInv, NextTypeInv, PTL DEF Spec
-----------------------------------------------------------------------------
(* No rival claim is lost *)

\* Outside a receive window, and until an error ends the scan, there is no
\* window table.
WindowTableInv ==
    pc \notin {"check", "poll", "drain", "failed", "timingError"} =>
        roundHosts = NoHosts

\* Every claim heard is kept in one of the two tables or named in a warning.
\* This is inductive where RivalsReported is not: inside a window a claim may
\* rest in the window's table only, with a different address in the scan's, and
\* the warning about it comes when the window closes.
ClaimsInv ==
    \A claim \in heard :
        \/ hosts[claim[1]] = claim[2]
        \/ roundHosts[claim[1]] = claim[2]
        \/ claim \in NamedIgnored

\* Tables and warnings hold only what was heard.
HeardInv ==
    /\ NamedIgnored \subseteq heard
    /\ \A ip \in Ip : roundHosts[ip] # None => <<ip, roundHosts[ip]>> \in heard

RivalInv == TypeInv /\ WindowTableInv /\ ClaimsInv /\ HeardInv

\* RivalInv in the initial state: nothing was heard.
LEMMA InitRivalInv == Init => RivalInv
  BY InitTypeInv DEF RivalInv, Init, WindowTableInv, ClaimsInv, HeardInv, NamedIgnored, NoHosts

\* Named values of a grown set of warnings.
LEMMA NamedGrow ==
    ASSUME NEW c, conflicts' = conflicts \cup c
    PROVE  NamedIgnored' = NamedIgnored \cup {<<w.ip, w.ignored>> : w \in c}
  BY DEF NamedIgnored

\* What the merge warnings name: the entries of `t` that `s` rejects.
LEMMA MergeNames ==
    ASSUME NEW s, NEW t
    PROVE  {<<w.ip, w.ignored>> : w \in MergeConflicts(s, t)}
             = {<<ip, t[ip]>> : ip \in {i \in Ip : None \notin {s[i], t[i]} /\ s[i] # t[i]}}
  <1> DEFINE rejected == {i \in Ip : None \notin {s[i], t[i]} /\ s[i] # t[i]}
             pairs == {<<ip, t[ip]>> : ip \in rejected}
             names == {<<w.ip, w.ignored>> : w \in MergeConflicts(s, t)}
  <1>1. ASSUME NEW i PROVE /\ Conflict(i, s[i], t[i]).ip = i
                           /\ Conflict(i, s[i], t[i]).ignored = t[i]
    BY DEF Conflict
  <1>2. ASSUME NEW p \in names PROVE p \in pairs
    <2>1. PICK w \in MergeConflicts(s, t) : p = <<w.ip, w.ignored>>
      OBVIOUS
    <2>2. PICK i \in rejected : w = Conflict(i, s[i], t[i])
      BY <2>1 DEF MergeConflicts
    <2> QED
      BY <1>1, <2>1, <2>2
  <1>3. ASSUME NEW p \in pairs PROVE p \in names
    <2>1. PICK i \in rejected : p = <<i, t[i]>>
      OBVIOUS
    <2>2. Conflict(i, s[i], t[i]) \in MergeConflicts(s, t)
      BY DEF MergeConflicts
    <2> QED
      BY <1>1, <2>1, <2>2
  <1> QED
    BY <1>2, <1>3

\* One accepted reply: its table entry and its warning, in plain terms.
LEMMA AcceptedReply ==
    ASSUME RivalInv, NEW ip \in Ip, NEW mac \in Mac,
           roundHosts' = Merged(roundHosts, OneEntry(ip, mac)),
           conflicts' = conflicts \cup MergeConflicts(roundHosts, OneEntry(ip, mac))
    PROVE  /\ roundHosts' = IF roundHosts[ip] = None
                            THEN [roundHosts EXCEPT ![ip] = mac] ELSE roundHosts
           /\ NamedIgnored' = IF roundHosts[ip] \in {None, mac} THEN NamedIgnored
                              ELSE NamedIgnored \cup {<<ip, mac>>}
  <1>1. mac # None
    BY PlanAssumption
  <1>2. roundHosts \in [Ip -> Mac \cup {None}]
    BY DEF RivalInv, TypeInv, TypeOK
  <1> DEFINE entry == OneEntry(ip, mac)
  <1>3. /\ entry[ip] = mac
        /\ \A j \in Ip \ {ip} : entry[j] = None
    BY DEF OneEntry, NoHosts
  <1>4. Merged(roundHosts, entry)
          = [j \in Ip |-> IF roundHosts[j] = None THEN entry[j] ELSE roundHosts[j]]
    BY DEF Merged
  <1>5. roundHosts' = IF roundHosts[ip] = None
                      THEN [roundHosts EXCEPT ![ip] = mac] ELSE roundHosts
    <2> HIDE DEF entry
    <2> QED
      BY <1>2, <1>3, <1>4 DEF entry
  <1>6. {<<j, entry[j]>> : j \in {i \in Ip : None \notin {roundHosts[i], entry[i]}
                                           /\ roundHosts[i] # entry[i]}}
          = IF roundHosts[ip] \in {None, mac} THEN {} ELSE {<<ip, mac>>}
    <2> HIDE DEF entry
    <2> QED
      BY <1>1, <1>3
  <1>7. NamedIgnored' = NamedIgnored \cup
          {<<w.ip, w.ignored>> : w \in MergeConflicts(roundHosts, entry)}
    BY NamedGrow
  <1>8. NamedIgnored' = IF roundHosts[ip] \in {None, mac} THEN NamedIgnored
                        ELSE NamedIgnored \cup {<<ip, mac>>}
    BY <1>6, <1>7, MergeNames
  <1> QED
    BY <1>5, <1>8

\* Steps that touch neither tables nor claims, and only move the thread.
LEMMA RivalInvUnchanged ==
    ASSUME RivalInv, TypeInv', UNCHANGED <<hosts, roundHosts, conflicts, heard>>,
           WindowTableInv'
    PROVE  RivalInv'
  BY DEF RivalInv, ClaimsInv, HeardInv, NamedIgnored

\* A frame read during a drain keeps every rival named: an accepted reply either
\* enters the table of the window, agrees with it, or is named at once.
LEMMA ReceiveFrameRivalInv ==
    ASSUME RivalInv, TypeInv', ReceiveFrame
    PROVE  RivalInv'
  <1>1. WindowTableInv'
    BY DEF ReceiveFrame, WindowTableInv
  <1>2. CASE UNCHANGED <<roundHosts, conflicts, heard>>
    BY <1>1, <1>2, RivalInvUnchanged DEF ReceiveFrame
  <1>3. CASE /\ Head(queue).kind = "reply"
             /\ Head(queue).ip \in AcceptedSenders
             /\ RecordReply(Head(queue))
    <2> DEFINE ip == Head(queue).ip
               mac == Head(queue).mac
    <2>1. ip \in Ip /\ mac \in Mac
      <3>1. Head(queue) \in Frame
        BY PlanAssumption DEF ReceiveFrame, RivalInv, TypeInv, TypeOK
      <3> QED
        BY <1>3, <3>1 DEF Frame, Noise
    <2>2. heard' = heard \cup {<<ip, mac>>} /\ hosts' = hosts
      BY <1>3 DEF RecordReply, ReceiveFrame
    <2>3. /\ roundHosts' = IF roundHosts[ip] = None
                          THEN [roundHosts EXCEPT ![ip] = mac] ELSE roundHosts
          /\ NamedIgnored' = IF roundHosts[ip] \in {None, mac} THEN NamedIgnored
                            ELSE NamedIgnored \cup {<<ip, mac>>}
      <3>1. /\ roundHosts' = Merged(roundHosts, OneEntry(ip, mac))
            /\ conflicts' = conflicts \cup MergeConflicts(roundHosts, OneEntry(ip, mac))
        BY <1>3 DEF RecordReply
      <3> HIDE DEF ip, mac
      <3> QED
        BY <2>1, <3>1, AcceptedReply
    <2>4. roundHosts \in [Ip -> Mac \cup {None}] /\ heard \subseteq Ip \X Mac
      BY DEF RivalInv, TypeInv, TypeOK
    <2>5. mac # None
      BY <2>1, PlanAssumption
    <2> HIDE DEF ip, mac
    <2>6. ClaimsInv'
      <3> SUFFICES ASSUME NEW claim \in heard'
                   PROVE  \/ hosts'[claim[1]] = claim[2]
                          \/ roundHosts'[claim[1]] = claim[2]
                          \/ claim \in NamedIgnored'
        BY DEF ClaimsInv
      <3>1. CASE claim = <<ip, mac>>
        BY <3>1, <2>1, <2>3, <2>4
      <3>2. CASE claim \in heard
        <4>1. claim[1] \in Ip /\ claim[2] \in Mac /\ claim[2] # None
          BY <3>2, <2>4, PlanAssumption
        <4> QED
          BY <3>2, <4>1, <2>2, <2>3, <2>4 DEF RivalInv, ClaimsInv
      <3> QED
        BY <2>2, <3>1, <3>2
    <2>7. HeardInv'
      BY <2>1, <2>2, <2>3, <2>4 DEF RivalInv, HeardInv
    <2> QED
      BY <1>1, <2>6, <2>7 DEF RivalInv
  <1> QED
    BY <1>2, <1>3 DEF ReceiveFrame, RecordReply

\* The merge at the end of a window keeps every rival named: an entry the older
\* table rejects is named, and what it had displaced in its window was before.
LEMMA CloseWindowRivalInv ==
    ASSUME RivalInv, TypeInv', CloseWindow
    PROVE  RivalInv'
  <1>1. WindowTableInv' /\ heard' = heard
    BY DEF CloseWindow, WindowTableInv
  <1>2. /\ hosts \in [Ip -> Mac \cup {None}]
        /\ roundHosts \in [Ip -> Mac \cup {None}]
        /\ heard \subseteq Ip \X Mac
    BY DEF RivalInv, TypeInv, TypeOK
  <1>3. /\ hosts' = [ip \in Ip |-> IF hosts[ip] = None THEN roundHosts[ip] ELSE hosts[ip]]
        /\ roundHosts' = NoHosts
    BY DEF CloseWindow, Merged
  <1>4. NamedIgnored' = NamedIgnored \cup
          {<<ip, roundHosts[ip]>> : ip \in {i \in Ip :
              None \notin {hosts[i], roundHosts[i]} /\ hosts[i] # roundHosts[i]}}
    BY NamedGrow, MergeNames DEF CloseWindow
  <1>5. ClaimsInv'
    <2> SUFFICES ASSUME NEW claim \in heard
                 PROVE  \/ hosts'[claim[1]] = claim[2]
                        \/ claim \in NamedIgnored'
      BY <1>1 DEF ClaimsInv
    <2>1. PICK ip \in Ip, mac \in Mac : claim = <<ip, mac>>
      BY <1>2
    <2>2. mac # None
      BY PlanAssumption
    <2>3. hosts[ip] = mac \/ roundHosts[ip] = mac \/ claim \in NamedIgnored
      BY <2>1 DEF RivalInv, ClaimsInv
    <2>4. CASE hosts[ip] = mac
      BY <2>1, <2>2, <2>4, <1>3
    <2>5. CASE hosts[ip] # mac /\ roundHosts[ip] = mac
      <3>1. CASE hosts[ip] = None
        BY <2>1, <2>5, <3>1, <1>3
      <3>2. CASE hosts[ip] # None
        BY <2>1, <2>2, <2>5, <3>2, <1>4
      <3> QED
        BY <3>1, <3>2
    <2>6. CASE claim \in NamedIgnored
      BY <2>6, <1>4
    <2> QED
      BY <2>3, <2>4, <2>5, <2>6
  <1>6. HeardInv'
    <2>1. \A ip \in Ip : roundHosts'[ip] = None
      BY <1>3 DEF NoHosts
    <2>2. NamedIgnored' \subseteq heard
      BY <1>4 DEF RivalInv, HeardInv
    <2> QED
      BY <1>1, <2>1, <2>2 DEF HeardInv
  <1> QED
    BY <1>1, <1>5, <1>6 DEF RivalInv

\* RivalInv is inductive.
LEMMA NextRivalInv == RivalInv /\ [Next]_vars => RivalInv'
  <1> SUFFICES ASSUME RivalInv, [Next]_vars PROVE RivalInv'
    OBVIOUS
  <1>0. TypeInv /\ TypeInv'
    BY NextTypeInv DEF RivalInv
  <1>1. CASE SendRequest
    BY <1>0, <1>1, RivalInvUnchanged DEF SendRequest, WindowTableInv, RivalInv
  <1>2. CASE StampSend \/ EndBurstRound \/ StartNextRound
    BY <1>0, <1>2, RivalInvUnchanged
       DEF StampSend, EndBurstRound, StartNextRound, WindowTableInv, RivalInv
  <1>3. CASE OpenWindow
    <2>1. roundHosts' = roundHosts
      BY <1>3 DEF OpenWindow, RivalInv, WindowTableInv
    <2> QED
      BY <1>0, <1>3, <2>1, RivalInvUnchanged DEF OpenWindow, WindowTableInv
  <1>4. CASE PollRemaining \/ PollReturns \/ PollInterrupted \/ BufferEmpty
             \/ EndpointFails \/ TimingOverflows
    BY <1>0, <1>4, RivalInvUnchanged
       DEF PollRemaining, PollReturns, PollInterrupted, BufferEmpty, EndpointFails,
           TimingOverflows, WindowTableInv
  <1>5. CASE FrameArrives \/ WaitPasses \/ ProgramIsLate
    BY <1>0, <1>5, RivalInvUnchanged
       DEF FrameArrives, WaitPasses, ProgramIsLate, WindowTableInv, RivalInv
  <1>6. CASE Returned \/ UNCHANGED vars
    BY <1>0, <1>6, RivalInvUnchanged DEF Returned, WindowTableInv, RivalInv
  <1> QED
    BY <1>0, <1>1, <1>2, <1>3, <1>4, <1>5, <1>6, ReceiveFrameRivalInv,
       CloseWindowRivalInv DEF Next, Thread

\* In every scan each claim heard is the entry of the open window, the entry of the
\* merged table, or named as ignored.
THEOREM ClaimsAccounted == Spec => []RivalInv
  BY InitRivalInv, NextRivalInv, PTL DEF Spec

\* On both paths, for every plan, schedule and arrival order of replies: when a
\* scan reports, every address heard for an IPv4 address is the one reported or
\* is named in a conflict warning.
THEOREM RivalsAlwaysReported == Spec => []RivalsReported
  <1>1. RivalInv => RivalsReported
    <2> SUFFICES ASSUME RivalInv, pc = "done", NEW claim \in heard
                 PROVE  hosts[claim[1]] = claim[2] \/ claim \in NamedIgnored
      BY DEF RivalsReported
    <2>1. claim[1] \in Ip /\ claim[2] \in Mac /\ claim[2] # None
      BY PlanAssumption DEF RivalInv, TypeInv, TypeOK
    <2>2. roundHosts[claim[1]] = None
      BY <2>1 DEF RivalInv, WindowTableInv, NoHosts
    <2> QED
      BY <2>1, <2>2 DEF RivalInv, ClaimsInv
  <1> QED
    BY <1>1, ClaimsAccounted, PTL
-----------------------------------------------------------------------------
(* The scan implements HostTable *)

\* The first state of a scan is a first state of the promise.
LEMMA AbstractInit == Init => Promise!Init
  BY DEF Init, Promise!Init, EffectiveTable, Outcome, NamedIgnored, Merged, NoHosts

\* Steps that only move the thread among its working positions stutter.
LEMMA StutterStep ==
    ASSUME UNCHANGED <<hosts, roundHosts, conflicts, heard>>, Outcome' = Outcome
    PROVE  UNCHANGED Promise!vars
  BY DEF Promise!vars, EffectiveTable, NamedIgnored, Merged

\* Reading a frame hears a claim of the promise, or stutters.
LEMMA ReceiveFrameImplements ==
    ASSUME RivalInv, RivalInv', ReceiveFrame
    PROVE  Promise!Next \/ UNCHANGED Promise!vars
  <1>1. Outcome = "running" /\ Outcome' = "running"
    BY DEF ReceiveFrame, Outcome
  <1>2. CASE UNCHANGED <<roundHosts, conflicts, heard>>
    BY <1>1, <1>2, StutterStep DEF ReceiveFrame
  <1>3. CASE /\ Head(queue).kind = "reply"
             /\ Head(queue).ip \in AcceptedSenders
             /\ RecordReply(Head(queue))
    <2> DEFINE ip == Head(queue).ip
               mac == Head(queue).mac
    <2>1. ip \in Ip /\ mac \in Mac
      <3>1. Head(queue) \in Frame
        BY PlanAssumption DEF ReceiveFrame, RivalInv, TypeInv, TypeOK
      <3> QED
        BY <1>3, <3>1 DEF Frame, Noise
    <2>2. heard' = heard \cup {<<ip, mac>>} /\ hosts' = hosts
      BY <1>3 DEF RecordReply, ReceiveFrame
    <2>3. /\ roundHosts' = IF roundHosts[ip] = None
                          THEN [roundHosts EXCEPT ![ip] = mac] ELSE roundHosts
          /\ NamedIgnored' = IF roundHosts[ip] \in {None, mac} THEN NamedIgnored
                            ELSE NamedIgnored \cup {<<ip, mac>>}
      <3>1. /\ roundHosts' = Merged(roundHosts, OneEntry(ip, mac))
            /\ conflicts' = conflicts \cup MergeConflicts(roundHosts, OneEntry(ip, mac))
        BY <1>3 DEF RecordReply
      <3> HIDE DEF ip, mac
      <3> QED
        BY <2>1, <3>1, AcceptedReply
    <2>4. /\ roundHosts \in [Ip -> Mac \cup {None}]
          /\ hosts \in [Ip -> Mac \cup {None}]
      BY DEF RivalInv, TypeInv, TypeOK
    <2> HIDE DEF ip, mac
    <2>5. EffectiveTable' = IF EffectiveTable[ip] = None
                            THEN [EffectiveTable EXCEPT ![ip] = mac] ELSE EffectiveTable
      <3>1. EffectiveTable
              = [j \in Ip |-> IF hosts[j] = None THEN roundHosts[j] ELSE hosts[j]]
        BY DEF EffectiveTable, Merged
      <3>2. EffectiveTable'
              = [j \in Ip |-> IF hosts[j] = None THEN roundHosts'[j] ELSE hosts[j]]
        BY <2>2 DEF EffectiveTable, Merged
      <3> QED
        BY <2>1, <2>3, <2>4, <3>1, <3>2
    <2>6. NamedIgnored \subseteq NamedIgnored' /\ NamedIgnored' \subseteq heard'
      BY <2>3 DEF RivalInv, HeardInv
    <2>7. Promise!Hear(ip, mac)
      BY <1>1, <2>2, <2>5, <2>6 DEF Promise!Hear, Promise!WarningsGrow
    <2> QED
      BY <2>1, <2>7 DEF Promise!Next
  <1> QED
    BY <1>2, <1>3 DEF ReceiveFrame, RecordReply

\* Closing a window warns of the claims it rejects, or reports; the table the
\* promise sees does not change.
LEMMA CloseWindowImplements ==
    ASSUME RivalInv, RivalInv', CloseWindow
    PROVE  Promise!Next \/ UNCHANGED Promise!vars
  <1>1. /\ hosts \in [Ip -> Mac \cup {None}]
        /\ roundHosts \in [Ip -> Mac \cup {None}]
        /\ heard' = heard /\ heard \subseteq Ip \X Mac
    BY DEF CloseWindow, RivalInv, TypeInv, TypeOK
  <1>2. EffectiveTable' = EffectiveTable /\ hosts' = EffectiveTable
    <2>1. /\ hosts' = [ip \in Ip |-> IF hosts[ip] = None THEN roundHosts[ip] ELSE hosts[ip]]
          /\ roundHosts' = [ip \in Ip |-> None]
      BY DEF CloseWindow, Merged, NoHosts
    <2>2. EffectiveTable' = [ip \in Ip |-> IF hosts'[ip] = None THEN roundHosts'[ip]
                                          ELSE hosts'[ip]]
      BY DEF EffectiveTable, Merged
    <2>3. EffectiveTable = hosts'
      BY <2>1 DEF EffectiveTable, Merged
    <2> QED
      BY <1>1, <2>1, <2>2, <2>3
  <1>3. NamedIgnored \subseteq NamedIgnored' /\ NamedIgnored' \subseteq heard'
    BY NamedGrow DEF CloseWindow, RivalInv, HeardInv
  <1>4. Outcome = "running"
    BY DEF CloseWindow, Outcome
  <1>5. CASE pc' = "between"
    <2>1. Outcome' = "running"
      BY <1>5 DEF Outcome
    <2>2. Promise!Warn
      BY <1>1, <1>2, <1>3, <1>4, <2>1 DEF Promise!Warn, Promise!WarningsGrow
    <2> QED
      BY <2>2 DEF Promise!Next
  <1>6. CASE pc' = "done"
    <2>1. Outcome' = "reported"
      BY <1>6 DEF Outcome
    <2>2. Promise!Rivals(EffectiveTable, heard) \subseteq NamedIgnored'
      <3> SUFFICES ASSUME NEW claim \in heard, EffectiveTable[claim[1]] # claim[2]
                   PROVE  claim \in NamedIgnored'
        BY DEF Promise!Rivals
      <3>1. claim[1] \in Ip /\ claim[2] \in Mac /\ claim[2] # None
        BY <1>1, PlanAssumption
      <3>2. roundHosts'[claim[1]] = None
        BY <3>1 DEF CloseWindow, NoHosts
      <3> QED
        BY <1>1, <1>2, <3>1, <3>2 DEF RivalInv, ClaimsInv
    <2>3. Promise!Report
      BY <1>1, <1>2, <1>3, <1>4, <2>1, <2>2 DEF Promise!Report, Promise!WarningsGrow
    <2> QED
      BY <2>3 DEF Promise!Next
  <1> QED
    BY <1>5, <1>6 DEF CloseWindow

\* Every step of a scan is a step of the promise or a stutter.
LEMMA NextImplements ==
    ASSUME RivalInv, RivalInv', [Next]_vars
    PROVE  [Promise!Next]_(Promise!vars)
  <1>1. CASE SendRequest \/ StampSend \/ EndBurstRound \/ StartNextRound
             \/ PollRemaining \/ PollReturns \/ PollInterrupted \/ BufferEmpty
    BY <1>1, StutterStep
       DEF SendRequest, StampSend, EndBurstRound, StartNextRound, PollRemaining,
           PollReturns, PollInterrupted, BufferEmpty, Outcome
  <1>2. CASE OpenWindow
    <2>1. roundHosts' = roundHosts
      BY <1>2 DEF OpenWindow, RivalInv, WindowTableInv
    <2> QED
      BY <1>2, <2>1, StutterStep DEF OpenWindow, Outcome
  <1>3. CASE EndpointFails \/ TimingOverflows
    <2>1. UNCHANGED <<hosts, roundHosts, conflicts, heard>> /\ Outcome' = "failed"
      BY <1>3 DEF EndpointFails, TimingOverflows, Outcome
    <2>2. Outcome = "running"
      BY <1>3, ScheduleAssumption
         DEF EndpointFails, TimingOverflows, TimestampFits, TimestampNeeded, Outcome
    <2>3. UNCHANGED <<EffectiveTable, NamedIgnored>>
      BY <2>1 DEF EffectiveTable, NamedIgnored, Merged
    <2>4. Promise!Fail
      BY <2>1, <2>2, <2>3 DEF Promise!Fail
    <2> QED
      BY <2>4 DEF Promise!Next
  <1>4. CASE FrameArrives \/ WaitPasses \/ ProgramIsLate \/ Returned \/ UNCHANGED vars
    BY <1>4, StutterStep
       DEF FrameArrives, WaitPasses, ProgramIsLate, Returned, Outcome
  <1> QED
    BY <1>1, <1>2, <1>3, <1>4, ReceiveFrameImplements, CloseWindowImplements
       DEF Next, Thread

\* Whatever the schedule, the scan's two levels of tables behave as the one
\* table of HostTable: the first reply heard for an address wins for good.
THEOREM ScanImplementsHostTable == Spec => ImplementsHostTable
  BY AbstractInit, NextImplements, ClaimsAccounted, PTL
     DEF Spec, ImplementsHostTable, Promise!Spec
-----------------------------------------------------------------------------
(* Every probe is accounted for *)

\* Attempts to send to a target: those that left and those that were refused.
Sent(i) == probes[i] + failedSends[i]

\* The targets the schedule still owes a probe in every round.
Owed(i) == RateLimited => hosts[Targets[i]] = None

\* Within a round the targets not pending are one attempt ahead of the pending
\* ones; a window opens only when none is pending, on the burst path only after
\* the last round, and a rate-limited scan is done early only when all answered.
RoundInv ==
    /\ pc = "sent" => RateLimited
    /\ pc \notin {"send", "sent", "failed", "timingError"} => pending = {}
    /\ ~RateLimited /\ pc \in {"open", "check", "poll", "drain", "done"} => ~MoreRounds
    /\ RateLimited /\ pc = "done" => ~MoreRounds \/ StillUnanswered(hosts) = {}

SentInv ==
    \A i \in AllTargets :
        /\ i \in pending => Sent(i) = round
        /\ i \notin pending /\ Owed(i) => Sent(i) = round + 1

ProbesInv == TypeInv /\ RoundInv /\ SentInv

\* Initially nothing was sent, and without targets nothing is owed.
LEMMA InitProbesInv == Init => ProbesInv
  BY InitTypeInv, PlanAssumption DEF ProbesInv, RoundInv, SentInv, Sent, Owed, Init

\* An entry of the scan's table is never removed.
LEMMA OwedShrinks ==
    ASSUME TypeInv, [Next]_vars, NEW i \in AllTargets, Owed(i)'
    PROVE  Owed(i)
  <1>1. Targets[i] \in Ip
    BY PlanAssumption
  <1>2. hosts' = hosts \/ hosts' = Merged(hosts, roundHosts)
    BY DEF Next, Thread, SendRequest, StampSend, EndBurstRound, StartNextRound,
           OpenWindow, PollRemaining, CloseWindow, PollReturns, ReceiveFrame,
           BufferEmpty, TimingOverflows, PollInterrupted, EndpointFails,
           FrameArrives, WaitPasses, ProgramIsLate, Returned
  <1> QED
    BY <1>1, <1>2 DEF Owed, Merged

\* Steps that neither send nor plan a round.
LEMMA SentInvUnchanged ==
    ASSUME ProbesInv, [Next]_vars, UNCHANGED <<round, pending, probes, failedSends>>
    PROVE  SentInv'
  BY OwedShrinks DEF ProbesInv, SentInv, Sent

\* A send moves its target one attempt ahead.
LEMMA SendRequestSentInv ==
    ASSUME ProbesInv, SendRequest
    PROVE  SentInv'
  <1>1. PICK i \in pending :
          /\ pending' = pending \ {i}
          /\ \/ probes' = [probes EXCEPT ![i] = @ + 1] /\ UNCHANGED failedSends
             \/ failedSends' = [failedSends EXCEPT ![i] = @ + 1] /\ UNCHANGED probes
    BY DEF SendRequest
  <1>2. /\ i \in AllTargets /\ pending \subseteq AllTargets /\ round \in Nat
        /\ probes \in [AllTargets -> Nat] /\ failedSends \in [AllTargets -> Nat]
    BY DEF ProbesInv, TypeInv, TypeOK
  <1>3. round' = round /\ hosts' = hosts
    BY DEF SendRequest
  <1> HIDE DEF AllTargets
  <1>4. ASSUME NEW j \in AllTargets
        PROVE  Sent(j)' = IF j = i THEN Sent(j) + 1 ELSE Sent(j)
    BY <1>1, <1>2, <1>4 DEF Sent
  <1> SUFFICES ASSUME NEW j \in AllTargets
               PROVE  /\ j \in pending' => Sent(j)' = round'
                      /\ j \notin pending' /\ Owed(j)' => Sent(j)' = round' + 1
    BY DEF SentInv, AllTargets
  <1>5. Owed(j)' => Owed(j)
    BY <1>3 DEF Owed
  <1> QED
    BY <1>1, <1>2, <1>3, <1>4, <1>5 DEF ProbesInv, SentInv

\* ProbesInv is inductive, one step per action.
LEMMA NextProbesInv == ProbesInv /\ [Next]_vars => ProbesInv'
  <1> SUFFICES ASSUME ProbesInv, [Next]_vars PROVE ProbesInv'
    OBVIOUS
  <1>0. TypeInv /\ TypeInv' /\ RoundInv /\ SentInv
    BY NextTypeInv DEF ProbesInv
  <1> SUFFICES RoundInv' /\ SentInv'
    BY <1>0 DEF ProbesInv
  <1>1. CASE SendRequest
    BY <1>0, <1>1, SendRequestSentInv DEF SendRequest, RoundInv
  <1>2. CASE StampSend
    <2>1. SentInv'
      <3>1. UNCHANGED <<round, pending, probes, failedSends>>
        BY <1>2 DEF StampSend
      <3> QED
        BY <3>1, SentInvUnchanged
    <2>2. RoundInv'
      BY <1>0, <1>2 DEF StampSend, RoundInv
    <2> QED
      BY <2>1, <2>2
  <1>3. CASE EndBurstRound
    <2>1. ~RateLimited /\ pending = {}
      BY <1>0, <1>3 DEF EndBurstRound, TypeInv, ThreadInv, RoundInv
    <2>2. \A i \in AllTargets : Sent(i)' = Sent(i) /\ Sent(i) = round + 1
      BY <1>0, <1>3, <2>1 DEF EndBurstRound, Sent, SentInv, Owed
    <2>3. CASE pc' = "open"
      BY <1>0, <1>3, <2>1, <2>2, <2>3 DEF EndBurstRound, RoundInv, SentInv, MoreRounds
    <2>4. CASE pc' # "open"
      BY <1>0, <1>3, <2>1, <2>2, <2>4 DEF EndBurstRound, RoundInv, SentInv
    <2> QED
      BY <2>3, <2>4
  <1>4. CASE StartNextRound
    <2>1. pending = {} /\ RateLimited
      BY <1>0, <1>4 DEF StartNextRound, RoundInv, TypeInv, ThreadInv
    <2>2. SentInv'
      BY <1>0, <1>4, <2>1
         DEF StartNextRound, SentInv, Sent, Owed, StillUnanswered
    <2> QED
      BY <1>4, <2>1, <2>2 DEF StartNextRound, RoundInv
  <1>5. CASE CloseWindow
    <2>1. SentInv'
      BY <1>5, SentInvUnchanged DEF CloseWindow
    <2>2. RoundInv'
      BY <1>0, <1>5 DEF CloseWindow, RoundInv, MoreRounds, StillUnanswered
    <2> QED
      BY <2>1, <2>2
  <1>6. CASE OpenWindow \/ PollRemaining \/ PollReturns \/ PollInterrupted
             \/ BufferEmpty \/ EndpointFails \/ TimingOverflows
    BY <1>0, <1>6, SentInvUnchanged
       DEF OpenWindow, PollRemaining, PollReturns, PollInterrupted, BufferEmpty,
           EndpointFails, TimingOverflows, RoundInv, MoreRounds
  <1>7. CASE ReceiveFrame \/ FrameArrives \/ WaitPasses \/ ProgramIsLate
             \/ Returned \/ UNCHANGED vars
    <2>1. UNCHANGED <<pc, round, pending, hosts, probes, failedSends>>
      BY <1>7 DEF ReceiveFrame, FrameArrives, WaitPasses, ProgramIsLate, Returned
    <2> QED
      BY <1>0, <2>1, SentInvUnchanged DEF RoundInv, MoreRounds, StillUnanswered
  <1> QED
    BY <1>1, <1>2, <1>3, <1>4, <1>5, <1>6, <1>7 DEF Next, Thread

\* Whatever sends are refused and whenever replies come: a scan that reports has
\* sent every probe of its schedule, or warned of it, to each target that the
\* schedule still owed one.
THEOREM NoProbeForgotten == Spec => []ProbesAccounted
  <1>1. ProbesInv => ProbesAccounted
    <2> SUFFICES ASSUME ProbesInv, pc = "done", NEW i \in AllTargets, Owed(i)
                 PROVE  Sent(i) = Rounds
      BY DEF ProbesAccounted, Owed, Sent
    <2>1. Sent(i) = round + 1
      BY DEF ProbesInv, RoundInv, SentInv
    <2>2. ~MoreRounds
      BY DEF ProbesInv, RoundInv, Owed, StillUnanswered
    <2> QED
      BY <2>1, <2>2, ScheduleAssumption DEF ProbesInv, TypeInv, TypeOK, MoreRounds
  <1> QED
    BY <1>1, InitProbesInv, NextProbesInv, PTL DEF Spec
-----------------------------------------------------------------------------
(* A target that answered is not probed again *)

\* Every address heard from has an entry, in the window's table or in the scan's;
\* while requests are sent none was heard from a target still to be sent to, on
\* the burst path because its only window comes after the last round.
AnsweredInv ==
    /\ \A claim \in heard : hosts[claim[1]] # None \/ roundHosts[claim[1]] # None
    /\ ~RateLimited /\ pc \in {"send", "sent", "roundSent"} => heard = {}
    /\ pc \in {"send", "sent"} =>
         \A i \in pending : \A mac \in Mac : <<Targets[i], mac>> \notin heard

UnansweredInv == RivalInv /\ AnsweredInv

\* An entry of either table stays, or moves from the window's to the scan's.
LEMMA EntriesStay ==
    ASSUME RivalInv, [Next]_vars, NEW ip \in Ip,
           hosts[ip] # None \/ roundHosts[ip] # None
    PROVE  hosts'[ip] # None \/ roundHosts'[ip] # None
  <1>1. CASE UNCHANGED <<hosts, roundHosts>>
    BY <1>1
  <1>2. CASE CloseWindow
    BY <1>2 DEF CloseWindow, Merged
  <1>3. CASE ReceiveFrame
    BY <1>3 DEF ReceiveFrame, RecordReply, Merged
  <1>4. CASE OpenWindow
    BY <1>4 DEF OpenWindow, RivalInv, WindowTableInv
  <1> QED
    BY <1>1, <1>2, <1>3, <1>4
       DEF Next, Thread, SendRequest, StampSend, EndBurstRound, StartNextRound,
           PollRemaining, PollReturns, BufferEmpty, TimingOverflows, PollInterrupted,
           EndpointFails, FrameArrives, WaitPasses, ProgramIsLate, Returned

\* Steps in which nothing is heard.
LEMMA AnsweredInvSteps ==
    ASSUME UnansweredInv, [Next]_vars, heard' = heard,
           pc' \in {"send", "sent", "roundSent"} => pc \in {"send", "sent", "roundSent"},
           pc' \in {"send", "sent"} => pending' \subseteq pending \/ heard = {},
           pc' \in {"send", "sent"} => pc \in {"send", "sent"} \/ heard = {}
    PROVE  AnsweredInv'
  <1>1. \A claim \in heard : claim[1] \in Ip
    BY DEF UnansweredInv, RivalInv, TypeInv, TypeOK
  <1>2. \A claim \in heard' : hosts'[claim[1]] # None \/ roundHosts'[claim[1]] # None
    BY <1>1, EntriesStay DEF UnansweredInv, AnsweredInv
  <1> QED
    BY <1>2 DEF UnansweredInv, AnsweredInv

\* The accepted reply that is heard is in the window's table, first or not.
LEMMA ReceiveFrameAnsweredInv ==
    ASSUME UnansweredInv, ReceiveFrame
    PROVE  AnsweredInv'
  <1>1. CASE UNCHANGED <<roundHosts, conflicts, heard>>
    BY <1>1, AnsweredInvSteps DEF ReceiveFrame, Next, Thread
  <1>2. CASE /\ Head(queue).kind = "reply"
             /\ Head(queue).ip \in AcceptedSenders
             /\ RecordReply(Head(queue))
    <2> DEFINE ip == Head(queue).ip
               mac == Head(queue).mac
    <2>1. ip \in Ip /\ mac \in Mac
      <3>1. Head(queue) \in Frame
        BY PlanAssumption DEF ReceiveFrame, UnansweredInv, RivalInv, TypeInv, TypeOK
      <3> QED
        BY <1>2, <3>1 DEF Frame, Noise
    <2>2. /\ heard' = heard \cup {<<ip, mac>>}
          /\ roundHosts' = Merged(roundHosts, OneEntry(ip, mac))
      BY <1>2 DEF RecordReply
    <2> HIDE DEF ip, mac
    <2>3. roundHosts'[ip] # None
      BY <2>1, <2>2, PlanAssumption DEF Merged, OneEntry, NoHosts
    <2>4. \A claim \in heard : claim[1] \in Ip
      BY DEF UnansweredInv, RivalInv, TypeInv, TypeOK
    <2>5. \A claim \in heard : hosts'[claim[1]] # None \/ roundHosts'[claim[1]] # None
      BY <2>4, EntriesStay DEF UnansweredInv, AnsweredInv, Next, Thread
    <2> QED
      BY <2>2, <2>3, <2>5 DEF AnsweredInv, ReceiveFrame
  <1> QED
    BY <1>1, <1>2 DEF ReceiveFrame, RecordReply

\* UnansweredInv is inductive.
LEMMA NextUnansweredInv == UnansweredInv /\ [Next]_vars => UnansweredInv'
  <1> SUFFICES ASSUME UnansweredInv, [Next]_vars PROVE UnansweredInv'
    OBVIOUS
  <1>0. RivalInv' /\ RivalInv /\ TypeInv /\ AnsweredInv
    BY NextRivalInv DEF UnansweredInv, RivalInv
  <1> SUFFICES AnsweredInv'
    BY <1>0 DEF UnansweredInv
  <1>1. CASE SendRequest
    BY <1>1, AnsweredInvSteps DEF SendRequest
  <1>2. CASE StampSend
    BY <1>2, AnsweredInvSteps DEF StampSend
  <1>3. CASE EndBurstRound
    <2>1. heard = {}
      BY <1>0, <1>3 DEF EndBurstRound, TypeInv, ThreadInv, AnsweredInv
    <2> QED
      BY <1>3, <2>1, AnsweredInvSteps DEF EndBurstRound
  <1>4. CASE StartNextRound
    <2>1. RateLimited /\ roundHosts = NoHosts
      BY <1>0, <1>4 DEF StartNextRound, TypeInv, ThreadInv, RivalInv, WindowTableInv
    <2>2. \A i \in pending' : Targets[i] \in Ip /\ hosts[Targets[i]] = None
      BY <1>4, PlanAssumption DEF StartNextRound, StillUnanswered
    <2>3. \A i \in pending' : \A mac \in Mac : <<Targets[i], mac>> \notin heard
      BY <1>0, <2>1, <2>2 DEF AnsweredInv, NoHosts
    <2> QED
      BY <1>0, <1>4, <2>1, <2>3 DEF StartNextRound, AnsweredInv
  <1>5. CASE OpenWindow \/ PollRemaining \/ CloseWindow \/ PollReturns \/ PollInterrupted
             \/ BufferEmpty \/ EndpointFails \/ TimingOverflows
    <2>1. heard' = heard /\ pc' \notin {"send", "sent", "roundSent"}
      BY <1>5 DEF OpenWindow, PollRemaining, CloseWindow, PollReturns, PollInterrupted,
                  BufferEmpty, EndpointFails, TimingOverflows
    <2> QED
      BY <2>1, AnsweredInvSteps
  <1>6. CASE FrameArrives \/ WaitPasses \/ ProgramIsLate \/ Returned \/ UNCHANGED vars
    <2>1. UNCHANGED <<pc, pending, heard>>
      BY <1>6 DEF FrameArrives, WaitPasses, ProgramIsLate, Returned
    <2> QED
      BY <2>1, AnsweredInvSteps
  <1> QED
    BY <1>1, <1>2, <1>3, <1>4, <1>5, <1>6, ReceiveFrameAnsweredInv DEF Next, Thread

\* UnansweredInv in the initial state: nothing was heard.
LEMMA InitUnansweredInv == Init => UnansweredInv
  BY InitRivalInv DEF UnansweredInv, AnsweredInv, Init

\* A request goes only to targets of which no reply was read, on both paths, in
\* whichever window the reply came.
THEOREM NoAnsweredTargetProbed == Spec => AnsweredNotProbedAgain
  <1>1. ASSUME UnansweredInv, ProbesInv, [Next]_vars
        PROVE  [\A i \in pending \ pending' :
                  \A mac \in Mac : <<Targets[i], mac>> \notin heard]_vars
    <2> SUFFICES ASSUME Next, NEW i \in pending \ pending', NEW mac \in Mac
                 PROVE  <<Targets[i], mac>> \notin heard
      BY <1>1
    <2>1. CASE SendRequest
      BY <1>1, <2>1 DEF SendRequest, UnansweredInv, AnsweredInv
    <2>2. CASE EndBurstRound
      <3>1. heard = {}
        BY <1>1, <2>2 DEF EndBurstRound, UnansweredInv, RivalInv, TypeInv, ThreadInv,
                          AnsweredInv
      <3> QED
        BY <3>1
    <2>3. CASE StartNextRound
      <3>1. pending = {}
        BY <1>1, <2>3 DEF StartNextRound, ProbesInv, RoundInv
      <3> QED
        BY <3>1
    <2> QED
      BY <2>1, <2>2, <2>3
         DEF Next, Thread, StampSend, OpenWindow, PollRemaining, CloseWindow, PollReturns,
             ReceiveFrame, BufferEmpty, TimingOverflows, PollInterrupted, EndpointFails,
             FrameArrives, WaitPasses, ProgramIsLate, Returned
  <1> QED
    BY <1>1, InitUnansweredInv, NextUnansweredInv, InitProbesInv, NextProbesInv, PTL
       DEF Spec, AnsweredNotProbedAgain
-----------------------------------------------------------------------------
(* On the burst path a warning names the reported host *)

\* A burst scan has one window, and nothing to merge it with: its table becomes
\* the scan's, with the entries that the warnings call kept.
OneWindowInv ==
    ~RateLimited =>
        /\ pc \notin {"done", "failed", "timingError"} => hosts = NoHosts
        /\ pc \in {"send", "sent", "roundSent", "open"} => conflicts = {}
        /\ pc \in {"check", "poll", "drain"} => \A w \in conflicts : w.kept = roundHosts[w.ip]
        /\ pc = "done" => \A w \in conflicts : w.kept = hosts[w.ip]

\* OneWindowInv in the initial state: there are no warnings.
LEMMA InitOneWindowInv == Init => OneWindowInv
  BY DEF OneWindowInv, Init

\* A reply that is rejected is warned of with the address that stays.
LEMMA ReceiveFrameOneWindowInv ==
    ASSUME TypeInv, OneWindowInv, ReceiveFrame
    PROVE  OneWindowInv'
  <1>1. pc = "drain" /\ pc' = "drain" /\ hosts' = hosts
    BY DEF ReceiveFrame
  <1>2. CASE UNCHANGED <<roundHosts, conflicts, heard>>
    BY <1>1, <1>2 DEF OneWindowInv
  <1>3. CASE /\ Head(queue).kind = "reply"
             /\ Head(queue).ip \in AcceptedSenders
             /\ RecordReply(Head(queue))
    <2> DEFINE entry == OneEntry(Head(queue).ip, Head(queue).mac)
    <2>1. /\ roundHosts' = Merged(roundHosts, entry)
          /\ conflicts' = conflicts \cup MergeConflicts(roundHosts, entry)
      BY <1>3 DEF RecordReply
    <2> HIDE DEF entry
    <2>2. \A ip \in Ip : roundHosts[ip] # None => roundHosts'[ip] = roundHosts[ip]
      BY <2>1 DEF Merged
    <2>3. ASSUME NEW w \in conflicts', ~RateLimited
          PROVE  w.kept = roundHosts'[w.ip]
      <3>1. CASE w \in conflicts
        <4>1. w.ip \in Ip /\ w.kept \in Mac /\ w.kept = roundHosts[w.ip]
          BY <1>1, <2>3, <3>1 DEF OneWindowInv, TypeInv, TypeOK
        <4> QED
          BY <2>2, <4>1, PlanAssumption
      <3>2. CASE w \in MergeConflicts(roundHosts, entry)
        <4>1. PICK ip \in Ip : /\ roundHosts[ip] # None
                               /\ w = Conflict(ip, roundHosts[ip], entry[ip])
          BY <3>2 DEF MergeConflicts
        <4>2. w.ip = ip /\ w.kept = roundHosts[ip]
          BY <4>1 DEF Conflict
        <4> QED
          BY <2>2, <4>1, <4>2
      <3> QED
        BY <2>1, <3>1, <3>2
    <2> QED
      BY <1>1, <2>3 DEF OneWindowInv
  <1> QED
    BY <1>2, <1>3 DEF ReceiveFrame, RecordReply

\* OneWindowInv is inductive.
LEMMA NextOneWindowInv == TypeInv /\ OneWindowInv /\ [Next]_vars => OneWindowInv'
  <1> SUFFICES ASSUME TypeInv, OneWindowInv, [Next]_vars PROVE OneWindowInv'
    OBVIOUS
  <1>1. CASE SendRequest \/ StampSend \/ EndBurstRound
    BY <1>1 DEF SendRequest, StampSend, EndBurstRound, OneWindowInv
  <1>2. CASE StartNextRound
    BY <1>2 DEF StartNextRound, TypeInv, ThreadInv, OneWindowInv
  <1>3. CASE OpenWindow
    BY <1>3 DEF OpenWindow, OneWindowInv
  <1>4. CASE CloseWindow
    <2>1. CASE ~RateLimited
      <3>1. hosts = NoHosts /\ \A w \in conflicts : w.kept = roundHosts[w.ip]
        BY <1>4, <2>1 DEF CloseWindow, OneWindowInv
      <3>2. hosts' = roundHosts /\ MergeConflicts(hosts, roundHosts) = {}
        BY <1>4, <3>1 DEF CloseWindow, Merged, MergeConflicts, NoHosts, TypeInv, TypeOK
      <3>3. conflicts' = conflicts /\ pc' = "done"
        BY <1>4, <2>1, <3>2 DEF CloseWindow
      <3> QED
        BY <3>1, <3>2, <3>3 DEF OneWindowInv
    <2> QED
      BY <2>1 DEF OneWindowInv
  <1>5. CASE PollRemaining \/ PollReturns \/ PollInterrupted \/ BufferEmpty
             \/ EndpointFails \/ TimingOverflows
    BY <1>5 DEF PollRemaining, PollReturns, PollInterrupted, BufferEmpty, EndpointFails,
                TimingOverflows, OneWindowInv
  <1>6. CASE FrameArrives \/ WaitPasses \/ ProgramIsLate \/ Returned \/ UNCHANGED vars
    BY <1>6 DEF FrameArrives, WaitPasses, ProgramIsLate, Returned, OneWindowInv
  <1> QED
    BY <1>1, <1>2, <1>3, <1>4, <1>5, <1>6, ReceiveFrameOneWindowInv DEF Next, Thread

\* On the burst path the address a conflict warning calls kept is the one the scan
\* reports.  (On the rate-limited path it may be the one kept in a window only.)
THEOREM BurstWarningsNameHosts ==
    ASSUME ~RateLimited PROVE Spec => []WarningNamesReportedHost
  <1>1. OneWindowInv => WarningNamesReportedHost
    BY DEF OneWindowInv, WarningNamesReportedHost
  <1> QED
    BY <1>1, InitTypeInv, NextTypeInv, InitOneWindowInv, NextOneWindowInv, PTL DEF Spec
-----------------------------------------------------------------------------
(* The timing: gaps between sends and rounds, receive windows, timestamps that do not fit *)

\* What the clock variables promise at each position of the thread.  A send is
\* allowed at wakeAt, so the gaps must already hold for wakeAt there, and those
\* of a send in progress for now.
SendTimeInv ==
    /\ probeAt <= now
    /\ RateLimited \/ lastSend = None
    /\ pc = "sent" => RateLimited /\ pending # AllTargets
    /\ pc = "sent" /\ round > 0 => now >= deadline + Pacing
    /\ pc = "send" /\ lastSend # None => wakeAt >= lastSend + Interval
    /\ pc = "send" /\ round > 0 => wakeAt >= deadline + Pacing
    /\ pc = "send" /\ round > 0 /\ pending = AllTargets
         => Pacing = 0 \/ wakeAt >= probeAt + Pacing
    /\ pc \in {"send", "roundSent"} /\ ~RateLimited => deadline = 0

WindowTimeInv ==
    /\ pc \in {"check", "poll", "drain"} => deadline >= probeAt + WindowLength
    /\ pc = "between" => now >= deadline /\ deadline >= probeAt

TimeInv == TypeInv /\ SendTimeInv /\ WindowTimeInv

\* The windows the schedule allots have lengths.
LEMMA WindowLengthIsNat == ASSUME TypeInv PROVE WindowLength \in Nat
  BY ScheduleAssumption DEF WindowLength, TypeInv, TypeOK

\* Initially nothing was sent and no window was open.
LEMMA InitTimeInv == Init => TimeInv
  BY InitTypeInv, ScheduleAssumption DEF TimeInv, Init, SendTimeInv, WindowTimeInv

\* Steps that move neither the clock, the schedule nor the thread's timestamps.
LEMMA TimeInvSteps ==
    ASSUME TimeInv, TypeInv', now' >= now,
           UNCHANGED <<pc, round, pending, wakeAt, lastSend, deadline, probeAt>>
    PROVE  TimeInv'
  <1> USE ScheduleAssumption
  <1>1. SendTimeInv'
    BY DEF TimeInv, SendTimeInv, TypeInv, TypeOK
  <1>2. WindowTimeInv'
    <2>1. WindowLength' = WindowLength
      BY DEF WindowLength
    <2> QED
      BY <2>1 DEF TimeInv, WindowTimeInv, TypeInv, TypeOK
  <1> QED
    BY <1>1, <1>2 DEF TimeInv

\* Every step keeps the promises of the clock variables.
LEMMA NextTimeInv == TimeInv /\ [Next]_vars => TimeInv'
  <1> SUFFICES ASSUME TimeInv, [Next]_vars PROVE TimeInv'
    OBVIOUS
  <1> USE ScheduleAssumption
  <1>0. TypeInv /\ TypeInv'
    BY NextTypeInv DEF TimeInv
  <1>1. CASE SendRequest
    <2>1. pending' # AllTargets
      BY <1>0, <1>1 DEF SendRequest, TypeInv, TypeOK
    <2>2. SendTimeInv'
      BY <1>0, <1>1, <2>1 DEF SendRequest, TimeInv, SendTimeInv, TypeInv, TypeOK
    <2>3. WindowTimeInv'
      BY <1>1 DEF SendRequest, WindowTimeInv
    <2> QED
      BY <1>0, <2>2, <2>3 DEF TimeInv
  <1>2. CASE StampSend
    <2>1. pending # {} => TimestampNeeded = now + Interval
      BY <1>2 DEF StampSend, TimestampNeeded
    <2>2. SendTimeInv'
      BY <1>0, <1>2, <2>1 DEF StampSend, TimeInv, SendTimeInv, TypeInv, TypeOK
    <2>3. WindowTimeInv'
      BY <1>2 DEF StampSend, WindowTimeInv
    <2> QED
      BY <1>0, <2>2, <2>3 DEF TimeInv
  <1>3. CASE EndBurstRound
    <2>1. ~RateLimited
      BY <1>0, <1>3 DEF EndBurstRound, TypeInv, ThreadInv
    <2>2. SendTimeInv'
      BY <1>0, <1>3, <2>1
         DEF EndBurstRound, PacingApplies, TimeInv, SendTimeInv, TypeInv, TypeOK
    <2>3. WindowTimeInv'
      BY <1>3 DEF EndBurstRound, WindowTimeInv
    <2> QED
      BY <1>0, <2>2, <2>3 DEF TimeInv
  <1>4. CASE StartNextRound
    <2>1. TimestampNeeded = NextRoundBaseline + Pacing
      BY <1>4 DEF StartNextRound, TimestampNeeded
    <2>2. RateLimited /\ lastSend \in Nat
      BY <1>0, <1>4 DEF StartNextRound, TypeInv, ThreadInv
    <2>3. NextRoundBaseline >= lastSend + Interval /\ NextRoundBaseline >= now
             /\ NextRoundBaseline \in Nat
      <3>1. now \in Nat
        BY <1>0 DEF TypeInv, TypeOK
      <3> QED
        BY <2>2, <3>1 DEF NextRoundBaseline, Larger
    <2>4. SendTimeInv'
      BY <1>0, <1>4, <2>1, <2>2, <2>3
         DEF StartNextRound, TimeInv, SendTimeInv, WindowTimeInv, TypeInv, TypeOK
    <2>5. WindowTimeInv'
      BY <1>4 DEF StartNextRound, WindowTimeInv
    <2> QED
      BY <1>0, <2>4, <2>5 DEF TimeInv
  <1>5. CASE OpenWindow
    <2>1. TimestampNeeded = now + WindowLength /\ WindowLength \in Nat
      BY <1>0, <1>5, WindowLengthIsNat DEF OpenWindow, TimestampNeeded
    <2>2. WindowLength' = WindowLength
      BY <1>5 DEF OpenWindow, WindowLength
    <2>3. SendTimeInv'
      BY <1>5 DEF OpenWindow, TimeInv, SendTimeInv
    <2>4. WindowTimeInv'
      BY <1>0, <1>5, <2>1, <2>2
         DEF OpenWindow, TimeInv, SendTimeInv, WindowTimeInv, TypeInv, TypeOK
    <2> QED
      BY <1>0, <2>3, <2>4 DEF TimeInv
  <1>6. CASE CloseWindow
    <2>1. SendTimeInv'
      BY <1>6 DEF CloseWindow, TimeInv, SendTimeInv
    <2>2. WindowTimeInv'
      BY <1>0, <1>6, WindowLengthIsNat
         DEF CloseWindow, WindowOpen, TimeInv, WindowTimeInv, TypeInv, TypeOK
    <2> QED
      BY <1>0, <2>1, <2>2 DEF TimeInv
  <1>7. CASE PollRemaining \/ PollReturns \/ PollInterrupted \/ BufferEmpty
             \/ EndpointFails \/ TimingOverflows
    <2>1. /\ pc' \in {"check", "poll", "drain", "failed", "timingError"}
          /\ pc \in {"check", "poll", "drain"} \/ pc' = "timingError"
          /\ UNCHANGED <<round, lastSend, deadline, now, probeAt>>
      BY <1>7 DEF PollRemaining, PollReturns, PollInterrupted, BufferEmpty,
                  EndpointFails, TimingOverflows
    <2>2. WindowLength' = WindowLength
      BY <2>1 DEF WindowLength
    <2> QED
      BY <1>0, <2>1, <2>2 DEF TimeInv, SendTimeInv, WindowTimeInv
  <1>8. CASE ReceiveFrame \/ FrameArrives \/ Returned \/ UNCHANGED vars
    <2>1. UNCHANGED <<pc, round, pending, wakeAt, lastSend, deadline, now, probeAt>>
      BY <1>8 DEF ReceiveFrame, FrameArrives, Returned
    <2>2. now' >= now
      BY <1>0, <2>1 DEF TypeInv, TypeOK
    <2> QED
      BY <1>0, <2>1, <2>2, TimeInvSteps
  <1>9. CASE WaitPasses \/ ProgramIsLate
    <2>1. /\ UNCHANGED <<pc, round, pending, wakeAt, lastSend, deadline, probeAt>>
          /\ now' = now + 1
      BY <1>9 DEF WaitPasses, ProgramIsLate
    <2>2. now' >= now
      BY <1>0, <2>1 DEF TypeInv, TypeOK
    <2> QED
      BY <1>0, <2>1, <2>2, TimeInvSteps
  <1> QED
    BY <1>1, <1>2, <1>3, <1>4, <1>5, <1>6, <1>7, <1>8, <1>9 DEF Next, Thread

\* The clock variables keep their promises in every scan.
THEOREM ScheduleKept == Spec => []TimeInv
  BY InitTimeInv, NextTimeInv, PTL DEF Spec

\* No rate-limited send comes sooner than the interval after the previous one
\* completed, nor, in a later round, than the pacing after the window ended.
THEOREM SendsAreSpaced == Spec => SendSpacing
  <1>1. ASSUME TimeInv, [Next]_vars
        PROVE  [Sends => /\ lastSend # None => now >= lastSend + Interval
                         /\ round > 0 => now >= deadline + Pacing]_vars
    <2> SUFFICES ASSUME Next, Sends
                 PROVE  /\ lastSend # None => now >= lastSend + Interval
                        /\ round > 0 => now >= deadline + Pacing
      BY <1>1
    <2>1. now >= wakeAt
      BY DEF Sends, Next, Thread, SendRequest, StampSend, EndBurstRound, StartNextRound,
             OpenWindow, PollRemaining, CloseWindow, PollReturns, ReceiveFrame,
             BufferEmpty, TimingOverflows, PollInterrupted, EndpointFails,
             FrameArrives, WaitPasses, ProgramIsLate, Returned
    <2> QED
      BY <1>1, <2>1, ScheduleAssumption
         DEF Sends, TimeInv, SendTimeInv, TypeInv, TypeOK
  <1> QED
    BY <1>1, ScheduleKept, PTL DEF Spec, SendSpacing

\* A burst round starts no sooner than the pacing after the last send.
THEOREM RoundsArePaced == Spec => RoundPacing
  <1>1. ASSUME TimeInv, [Next]_vars
        PROVE  [Sends /\ round > 0 /\ pending = AllTargets
                  => now >= probeAt + Pacing]_vars
    <2> SUFFICES ASSUME Next, Sends, round > 0, pending = AllTargets
                 PROVE  now >= probeAt + Pacing
      BY <1>1
    <2>1. now >= wakeAt
      BY DEF Sends, Next, Thread, SendRequest, StampSend, EndBurstRound, StartNextRound,
             OpenWindow, PollRemaining, CloseWindow, PollReturns, ReceiveFrame,
             BufferEmpty, TimingOverflows, PollInterrupted, EndpointFails,
             FrameArrives, WaitPasses, ProgramIsLate, Returned
    <2> QED
      BY <1>1, <2>1, ScheduleAssumption
         DEF Sends, TimeInv, SendTimeInv, TypeInv, TypeOK
  <1> QED
    BY <1>1, ScheduleKept, PTL DEF Spec, RoundPacing

\* No interruption, clamped or rounded poll cuts a receive window short.
THEOREM WindowsAreWhole == Spec => WindowNotCutShort
  <1>1. ASSUME TimeInv, [Next]_vars
        PROVE  [pc = "check" /\ pc' \in {"between", "done"}
                  => now >= probeAt + WindowLength]_vars
    <2> SUFFICES ASSUME Next, pc = "check", pc' \in {"between", "done"}
                 PROVE  now >= probeAt + WindowLength
      BY <1>1
    <2>1. now >= deadline
      BY <1>1 DEF TimeInv, TypeInv, TypeOK,
             Next, Thread, SendRequest, StampSend, EndBurstRound, StartNextRound,
             OpenWindow, PollRemaining, CloseWindow, PollReturns, ReceiveFrame,
             BufferEmpty, TimingOverflows, PollInterrupted, EndpointFails,
             FrameArrives, WaitPasses, ProgramIsLate, Returned, WindowOpen
    <2> QED
      BY <1>1, <2>1, WindowLengthIsNat DEF TimeInv, WindowTimeInv, TypeInv, TypeOK
  <1> QED
    BY <1>1, ScheduleKept, PTL DEF Spec, WindowNotCutShort
-----------------------------------------------------------------------------
(* The schedule *)

\* From the beginning of a round to the next one.
RoundTime(r) == SendTime + Larger(Interval, ReceiveWindow[r]) + Pacing

\* A table of the beginnings of the rounds up to n.
IsSchedule(begins, n) ==
    /\ begins \in [0 .. n -> Nat]
    /\ \A r \in 0 .. n : begins[r] = IF r = 0 THEN 0 ELSE begins[r - 1] + RoundTime(r - 1)

\* A larger factor makes a larger product.
LEMMA ProductGrows ==
    ASSUME NEW m \in Nat, NEW n \in Nat, NEW k \in Nat, m <= n
    PROVE  m * k \in Nat /\ n * k \in Nat /\ m * k <= n * k
  <1>1. \A i, j \in Nat : i * j \in Nat
    OBVIOUS
  <1>2. n - m \in Nat /\ (n - m) * k \in Nat
    BY <1>1
  <1>3. n * k = m * k + (n - m) * k
    OBVIOUS
  <1> QED
    BY <1>1, <1>2, <1>3

\* The sends of a round take a natural time.
LEMMA SendTimeIsNat == SendTime \in Nat
  <1>1. Targets # <<>> => Len(Targets) - 1 \in Nat
    BY PlanAssumption
  <1> QED
    BY <1>1, ProductGrows, ScheduleAssumption DEF SendTime

\* What a round takes is a number, and no less than its sends, its window and its pacing.
LEMMA RoundTimeIsNat ==
    ASSUME NEW r \in 0 .. Rounds - 1
    PROVE  /\ RoundTime(r) \in Nat
           /\ RoundTime(r) >= SendTime + ReceiveWindow[r] + Pacing
           /\ RoundTime(r) >= SendTime + Interval + Pacing
  <1>1. ReceiveWindow[r] \in Nat
    BY ScheduleAssumption
  <1> QED
    BY <1>1, SendTimeIsNat, ScheduleAssumption DEF RoundTime, Larger

\* Every number of rounds has a table of beginnings.
LEMMA ScheduleExists ==
    \A n \in 0 .. Rounds - 1 : \E begins : IsSchedule(begins, n)
  <1> DEFINE S == {n \in Nat : n <= Rounds - 1 => \E begins : IsSchedule(begins, n)}
  <1>1. 0 \in S
    <2>1. IsSchedule([r \in 0 .. 0 |-> 0], 0)
      BY DEF IsSchedule
    <2> QED
      BY <2>1
  <1>2. ASSUME NEW n \in Nat, n \in S PROVE n + 1 \in S
    <2> SUFFICES ASSUME n + 1 <= Rounds - 1
                 PROVE  \E begins : IsSchedule(begins, n + 1)
      OBVIOUS
    <2>1. PICK begins : IsSchedule(begins, n)
      BY <1>2, ScheduleAssumption
    <2> DEFINE longer == [r \in 0 .. n + 1 |->
                            IF r = n + 1 THEN begins[n] + RoundTime(n) ELSE begins[r]]
    <2>2. n \in 0 .. Rounds - 1
      BY ScheduleAssumption
    <2>3. begins[n] + RoundTime(n) \in Nat
      BY <2>1, <2>2, RoundTimeIsNat DEF IsSchedule
    <2>4. longer \in [0 .. n + 1 -> Nat]
      BY <2>1, <2>3 DEF IsSchedule
    <2>5. ASSUME NEW r \in 0 .. n + 1
          PROVE  longer[r] = IF r = 0 THEN 0 ELSE longer[r - 1] + RoundTime(r - 1)
      BY <2>1, <2>5 DEF IsSchedule
    <2> QED
      BY <2>4, <2>5 DEF IsSchedule
  <1> HIDE DEF S
  <1>3. Nat \subseteq S
    BY <1>1, <1>2, Inductive
  <1> QED
    BY <1>3, ScheduleAssumption DEF S

\* RoundBegins is the table of all rounds.
LEMMA RoundBeginsIsSchedule == IsSchedule(RoundBegins, Rounds - 1)
  <1> DEFINE Equations(f) ==
        f = [r \in 0 .. Rounds - 1 |->
               IF r = 0 THEN 0
               ELSE f[r - 1] + SendTime + Larger(Interval, ReceiveWindow[r - 1]) + Pacing]
  <1>1. PICK begins : IsSchedule(begins, Rounds - 1)
    BY ScheduleExists, ScheduleAssumption
  <1>2. Equations(begins)
    <2>1. \A r \in 0 .. Rounds - 1 : r # 0 => r - 1 \in 0 .. Rounds - 1
      BY ScheduleAssumption
    <2>2. \A r \in 0 .. Rounds - 1 : r # 0 =>
             begins[r - 1] + RoundTime(r - 1)
               = begins[r - 1] + SendTime + Larger(Interval, ReceiveWindow[r - 1]) + Pacing
      BY <1>1, <2>1, SendTimeIsNat, ScheduleAssumption DEF IsSchedule, RoundTime, Larger
    <2> QED
      BY <1>1, <2>2 DEF IsSchedule
  <1>3. Equations(RoundBegins)
    BY <1>2 DEF RoundBegins
  <1>4. \A r \in 0 .. Rounds - 1 :
           RoundBegins[r] = IF r = 0 THEN 0
                            ELSE RoundBegins[r - 1] + SendTime
                                   + Larger(Interval, ReceiveWindow[r - 1]) + Pacing
    <2> DEFINE f == RoundBegins
    <2> HIDE DEF f
    <2>1. f = [r \in 0 .. Rounds - 1 |->
               IF r = 0 THEN 0
               ELSE f[r - 1] + SendTime + Larger(Interval, ReceiveWindow[r - 1]) + Pacing]
      BY <1>3 DEF f
    <2>2. \A r \in 0 .. Rounds - 1 :
           f[r] = IF r = 0 THEN 0
                  ELSE f[r - 1] + SendTime + Larger(Interval, ReceiveWindow[r - 1]) + Pacing
      BY ONLY <2>1
    <2> QED
      BY <2>2 DEF f
  <1> DEFINE S == {n \in Nat : n <= Rounds - 1 =>
                     /\ RoundBegins[n] \in Nat
                     /\ n # 0 => RoundBegins[n] = RoundBegins[n - 1] + RoundTime(n - 1)}
  <1>5. 0 \in S
    BY <1>4, ScheduleAssumption
  <1>6. ASSUME NEW n \in Nat, n \in S PROVE n + 1 \in S
    <2> SUFFICES ASSUME n + 1 <= Rounds - 1
                 PROVE  /\ RoundBegins[n + 1] \in Nat
                        /\ RoundBegins[n + 1] = RoundBegins[n] + RoundTime(n)
      OBVIOUS
    <2>1. n \in 0 .. Rounds - 1 /\ n + 1 \in 0 .. Rounds - 1 /\ RoundBegins[n] \in Nat
      BY <1>6, ScheduleAssumption
    <2>2. RoundBegins[n + 1] = RoundBegins[n] + SendTime
                                 + Larger(Interval, ReceiveWindow[n]) + Pacing
      BY <1>4, <2>1
    <2>3. Larger(Interval, ReceiveWindow[n]) \in Nat
      BY <2>1, ScheduleAssumption DEF Larger
    <2>4. RoundBegins[n + 1] = RoundBegins[n] + RoundTime(n)
      BY SMTT(60), <2>1, <2>2, <2>3, SendTimeIsNat, ScheduleAssumption DEF RoundTime
    <2> QED
      BY <2>1, <2>4, RoundTimeIsNat
  <1> HIDE DEF S
  <1>7. Nat \subseteq S
    BY <1>5, <1>6, Inductive
  <1>8. \A n \in 0 .. Rounds - 1 : n \in S
    BY <1>7
  <1>9. \A n \in 0 .. Rounds - 1 :
           /\ RoundBegins[n] \in Nat
           /\ n # 0 => RoundBegins[n] = RoundBegins[n - 1] + RoundTime(n - 1)
    BY <1>8 DEF S
  <1>10. DOMAIN RoundBegins = 0 .. Rounds - 1 /\ RoundBegins = [r \in 0 .. Rounds - 1 |-> RoundBegins[r]]
    BY <1>3
  <1>11. RoundBegins[0] = 0
    BY <1>4, ScheduleAssumption
  <1> QED
    BY <1>9, <1>10, <1>11 DEF IsSchedule

\* What a schedule promises of each of its rounds.
LEMMA ScheduleFacts ==
    ASSUME NEW r \in 0 .. Rounds - 1
    PROVE  /\ RoundBegins[r] \in Nat /\ RoundBegins[0] = 0
           /\ r + 1 < Rounds => RoundBegins[r + 1] = RoundBegins[r] + RoundTime(r)
  <1>1. r + 1 < Rounds => r + 1 \in 0 .. Rounds - 1
    BY ScheduleAssumption
  <1>2. 0 \in 0 .. Rounds - 1
    BY ScheduleAssumption
  <1> QED
    BY <1>1, <1>2, RoundBeginsIsSchedule, ScheduleAssumption DEF IsSchedule

RoundEnds(r) == RoundBegins[r] + SendTime + ReceiveWindow[r]

\* No round ends after the last one.
LEMMA RoundEndsGrow == \A r \in 0 .. Rounds - 1 : RoundEnds(r) <= ScheduleEnd
  <1> DEFINE S == {n \in Nat : n <= Rounds - 1 => \A r \in 0 .. n : RoundEnds(r) <= RoundEnds(n)}
  <1>0. \A r \in 0 .. Rounds - 1 : RoundEnds(r) \in Nat
    BY ScheduleFacts, SendTimeIsNat, ScheduleAssumption DEF RoundEnds
  <1>1. 0 \in S
    BY <1>0, ScheduleAssumption
  <1>2. ASSUME NEW n \in Nat, n \in S PROVE n + 1 \in S
    <2> SUFFICES ASSUME n + 1 <= Rounds - 1, NEW r \in 0 .. n + 1
                 PROVE  RoundEnds(r) <= RoundEnds(n + 1)
      OBVIOUS
    <2>1. /\ n \in 0 .. Rounds - 1 /\ n + 1 \in 0 .. Rounds - 1 /\ n + 1 < Rounds
          /\ r \in 0 .. Rounds - 1
      BY ScheduleAssumption
    <2>2. RoundEnds(n) <= RoundEnds(n + 1)
      <3>1. ReceiveWindow[n] \in Nat /\ ReceiveWindow[n + 1] \in Nat
        BY <2>1, ScheduleAssumption
      <3>2. RoundBegins[n + 1] = RoundBegins[n] + RoundTime(n) /\ RoundBegins[n] \in Nat
        BY <2>1, ScheduleFacts
      <3>3. RoundTime(n) \in Nat /\ RoundTime(n) >= SendTime + ReceiveWindow[n] + Pacing
        BY <2>1, RoundTimeIsNat
      <3>4. RoundBegins[n + 1] >= RoundBegins[n] + SendTime + ReceiveWindow[n]
        BY SMTT(60), <3>1, <3>2, <3>3, SendTimeIsNat, ScheduleAssumption
      <3> QED
        BY <3>1, <3>2, <3>3, <3>4, SendTimeIsNat DEF RoundEnds
    <2>3. r # n + 1 => RoundEnds(r) <= RoundEnds(n)
      BY <1>2, <2>1
    <2> QED
      BY <1>0, <2>1, <2>2, <2>3
  <1> HIDE DEF S
  <1>3. Nat \subseteq S
    BY <1>1, <1>2, Inductive
  <1>4. Rounds - 1 \in S
    BY <1>3, ScheduleAssumption
  <1> QED
    BY <1>4, ScheduleAssumption DEF S, RoundEnds, ScheduleEnd
-----------------------------------------------------------------------------
(* Only lost time makes a rate-limited schedule overflow *)

\* When target i is sent to, and the round's last send is done, at the latest:
\* the schedule's time and the time lost so far.
Gap(i) == (i - 1) * Interval
SendBy(i) == RoundBegins[round] + Gap(i) + late
SentBy == RoundBegins[round] + SendTime + late

LateInv ==
    /\ pc = "send" => \A i \in pending : wakeAt <= SendBy(i) /\ now <= SendBy(i)
    /\ pc = "sent" => now <= SentBy /\ \A i \in pending : now + Interval <= SendBy(i)
    /\ pc = "open" => now <= SentBy
    /\ pc \in {"open", "check", "poll", "drain", "between"} /\ lastSend # None
         => lastSend <= SentBy
    /\ pc \in {"check", "poll", "drain", "between"}
         => now <= SentBy + ReceiveWindow[round] /\ deadline <= SentBy + ReceiveWindow[round]
    /\ OverflowsOnlyWhenLate

LateTimeInv == TypeInv /\ LateInv

\* The places of the targets in a round are an interval apart.
LEMMA GapFacts ==
    ASSUME NEW i \in AllTargets
    PROVE  /\ Gap(i) \in Nat /\ Gap(i) <= SendTime
           /\ \A j \in AllTargets : i < j => Gap(i) + Interval <= Gap(j)
  <1>1. /\ Len(Targets) \in Nat /\ AllTargets = 1 .. Len(Targets)
        /\ Targets # <<>>
    BY PlanAssumption
  <1>2. i - 1 \in Nat /\ Len(Targets) - 1 \in Nat /\ i - 1 <= Len(Targets) - 1
    BY <1>1
  <1>3. Gap(i) \in Nat /\ Gap(i) <= SendTime
    BY <1>1, <1>2, ProductGrows, ScheduleAssumption DEF Gap, SendTime
  <1>4. ASSUME NEW j \in AllTargets, i < j
        PROVE  Gap(i) + Interval <= Gap(j)
    <2>1. i \in Nat /\ j - 1 \in Nat /\ i <= j - 1
      BY <1>1, <1>4
    <2>2. i * Interval <= Gap(j)
      BY <2>1, ProductGrows, ScheduleAssumption DEF Gap
    <2>3. i * Interval = Gap(i) + Interval
      BY <2>1, ScheduleAssumption DEF Gap
    <2> QED
      BY <2>2, <2>3
  <1> QED
    BY <1>3, <1>4

\* The numbers that LateInv compares.
LEMMA LateNumbers ==
    ASSUME TypeInv
    PROVE  /\ RoundBegins[round] \in Nat /\ SendTime \in Nat /\ ReceiveWindow[round] \in Nat
           /\ late \in Nat /\ now \in Nat /\ wakeAt \in Nat /\ deadline \in Nat
           /\ lastSend \in Nat \cup {None} /\ round \in 0 .. Rounds - 1
           /\ Interval \in Nat /\ Pacing \in Nat
           /\ SentBy + ReceiveWindow[round] <= ScheduleEnd + late
           /\ ScheduleEnd \in Nat
  <1>1. round \in 0 .. Rounds - 1
    BY DEF TypeInv, TypeOK
  <1>2. /\ RoundBegins[round] \in Nat /\ SendTime \in Nat /\ ReceiveWindow[round] \in Nat
        /\ late \in Nat
    BY <1>1, ScheduleFacts, SendTimeIsNat, ScheduleAssumption DEF TypeInv, TypeOK
  <1>3. RoundEnds(round) <= ScheduleEnd
    BY <1>1, RoundEndsGrow
  <1>4. ScheduleEnd \in Nat
    <2>1. Rounds - 1 \in 0 .. Rounds - 1
      BY ScheduleAssumption
    <2> QED
      BY <2>1, ScheduleFacts, SendTimeIsNat, ScheduleAssumption DEF ScheduleEnd
  <1> QED
    BY SMTT(60), <1>1, <1>2, <1>3, <1>4, ScheduleAssumption DEF TypeInv, TypeOK, SentBy, RoundEnds

\* LateInv in the initial state: the clock stands at 0.
LEMMA InitLateInv == ASSUME RateLimited PROVE Init => LateTimeInv
  <1> SUFFICES ASSUME Init PROVE LateTimeInv
    OBVIOUS
  <1>1. TypeInv
    BY InitTypeInv
  <1>2. /\ pc \in {"send", "open"} /\ now = 0 /\ wakeAt = 0 /\ late = 0 /\ lastSend = None
        /\ pending = AllTargets
    BY DEF Init
  <1>3. \A i \in pending : SendBy(i) \in Nat
    BY <1>1, <1>2, LateNumbers, GapFacts DEF SendBy
  <1> QED
    BY <1>1, <1>2, <1>3, LateNumbers DEF LateTimeInv, LateInv, SentBy, OverflowsOnlyWhenLate

\* Steps that move the clock on only where the thread waits or is late.
LEMMA ClockLateInv ==
    ASSUME LateTimeInv, WaitPasses \/ ProgramIsLate, RateLimited
    PROVE  LateInv'
  <1>1. /\ now' = now + 1
        /\ UNCHANGED <<pc, round, pending, wakeAt, lastSend, deadline>>
        /\ pc \notin Outcomes
        /\ \/ late' = late + 1
           \/ late' = late /\ pc = "send" /\ now < wakeAt
           \/ late' = late /\ pc = "poll" /\ now < deadline
    BY DEF WaitPasses, ProgramIsLate, Sleeping, Polling, LateTimeInv, TypeInv, ThreadInv
  <1>2. \A i \in pending : Gap(i) \in Nat
    BY GapFacts DEF LateTimeInv, TypeInv, TypeOK
  <1> HIDE DEF AllTargets
  <1> QED
    BY <1>1, <1>2, LateNumbers DEF LateTimeInv, LateInv, SendBy, SentBy, OverflowsOnlyWhenLate

\* A send leaves the interval between its place in the schedule and the next one.
LEMMA SendLateInv ==
    ASSUME LateTimeInv, SendRequest, RateLimited
    PROVE  LateInv'
  <1>1. PICK i \in pending : pending' = pending \ {i} /\ \A j \in pending : i <= j
    BY DEF SendRequest
  <1>2. /\ pc = "send" /\ pc' = "sent" /\ UNCHANGED <<round, now, late>>
    BY DEF SendRequest
  <1>3. i \in AllTargets /\ pending \subseteq AllTargets
    BY DEF LateTimeInv, TypeInv, TypeOK
  <1>4. now <= RoundBegins[round] + Gap(i) + late
    BY <1>2 DEF LateTimeInv, LateInv, SendBy
  <1>5. now <= SentBy
    BY <1>3, <1>4, GapFacts, LateNumbers DEF SentBy, LateTimeInv
  <1>6. ASSUME NEW j \in pending' PROVE now + Interval <= SendBy(j)
    <2>1. j \in AllTargets /\ i < j
      BY <1>1, <1>3, PlanAssumption
    <2>2. Gap(i) + Interval <= Gap(j) /\ Gap(i) \in Nat /\ Gap(j) \in Nat
      BY <1>3, <2>1, GapFacts
    <2> QED
      BY <1>4, <2>2, LateNumbers DEF SendBy, LateTimeInv
  <1> QED
    BY <1>2, <1>5, <1>6 DEF LateInv, SendBy, SentBy, OverflowsOnlyWhenLate

\* The timestamp the thread needs lies within the schedule and the time lost.
LEMMA NeededInSchedule ==
    ASSUME LateTimeInv, RateLimited
    PROVE  /\ TimestampNeeded <= ScheduleEnd + late
           /\ pc = "between" => TimestampNeeded <= RoundBegins[round + 1] + late
  <1>0. TypeInv /\ LateInv
    BY DEF LateTimeInv
  <1>1. CASE pc = "sent" /\ pending # {}
    <2>1. PICK i \in pending : TRUE
      BY <1>1
    <2>2. TimestampNeeded = now + Interval
      BY <1>1 DEF TimestampNeeded
    <2>3. Gap(i) \in Nat /\ Gap(i) <= SendTime
      BY <1>0, <2>1, GapFacts DEF TypeInv, TypeOK
    <2>4. now + Interval <= RoundBegins[round] + Gap(i) + late
      BY <1>0, <1>1 DEF LateInv, SendBy
    <2> QED
      BY <1>0, <1>1, <2>2, <2>3, <2>4, LateNumbers DEF SentBy
  <1>2. CASE pc = "between"
    <2>1. lastSend \in Nat /\ round + 1 < Rounds /\ lastSend # None
      BY <1>0, <1>2, PlanAssumption DEF TypeInv, ThreadInv, MoreRounds
    <2>2. lastSend <= SentBy /\ now <= SentBy + ReceiveWindow[round]
      BY <1>0, <1>2, <2>1 DEF LateInv
    <2>3. RoundBegins[round + 1] = RoundBegins[round] + RoundTime(round)
      BY <1>0, <2>1, ScheduleFacts, LateNumbers
    <2>4. TimestampNeeded = Larger(lastSend + Interval, now) + Pacing
      BY <1>2 DEF TimestampNeeded, NextRoundBaseline
    <2>5. Larger(lastSend + Interval, now) <= SentBy + Larger(Interval, ReceiveWindow[round])
      BY <1>0, <2>1, <2>2, LateNumbers DEF Larger, SentBy
    <2>6. Larger(lastSend + Interval, now) \in Nat /\ Larger(Interval, ReceiveWindow[round]) \in Nat
      BY <1>0, <2>1, LateNumbers DEF Larger
    <2>7. TimestampNeeded <= RoundBegins[round + 1] + late
      BY <1>0, <2>3, <2>4, <2>5, <2>6, LateNumbers DEF RoundTime, SentBy
    <2>8. round + 1 \in 0 .. Rounds - 1
      BY SMTT(60), <1>0, <2>1, LateNumbers, ScheduleAssumption
    <2>9. RoundBegins[round + 1] <= ScheduleEnd
      <3>1. RoundEnds(round + 1) <= ScheduleEnd /\ RoundBegins[round + 1] \in Nat
            /\ ReceiveWindow[round + 1] \in Nat
        BY <2>8, RoundEndsGrow, ScheduleFacts, ScheduleAssumption
      <3> QED
        BY <1>0, <3>1, LateNumbers DEF RoundEnds
    <2>10. RoundBegins[round + 1] \in Nat /\ TimestampNeeded \in Nat
      BY <1>0, <2>8, ScheduleFacts, TimestampNeededIsNat
    <2> QED
      BY <1>0, <2>7, <2>9, <2>10, LateNumbers
  <1>3. CASE pc = "open"
    <2>1. TimestampNeeded = now + ReceiveWindow[round]
      BY <1>3 DEF TimestampNeeded, WindowLength
    <2>2. now <= SentBy
      BY <1>0, <1>3 DEF LateInv
    <2> QED
      BY <1>0, <1>3, <2>1, <2>2, LateNumbers DEF SentBy
  <1>4. CASE ~(pc = "sent" /\ pending # {}) /\ pc # "between" /\ pc # "open"
    BY <1>0, <1>4, LateNumbers DEF TimestampNeeded
  <1> QED
    BY <1>1, <1>2, <1>3, <1>4

\* LateInv is inductive on the rate-limited path, one step per action.
LEMMA NextLateInv ==
    ASSUME RateLimited
    PROVE  LateTimeInv /\ [Next]_vars => LateTimeInv'
  <1> SUFFICES ASSUME LateTimeInv, [Next]_vars PROVE LateTimeInv'
    OBVIOUS
  <1>0. TypeInv /\ LateInv /\ TypeInv'
    BY NextTypeInv DEF LateTimeInv
  <1> SUFFICES LateInv'
    BY <1>0 DEF LateTimeInv
  <1>1. CASE StampSend
    <2>1. /\ pc = "sent" /\ lastSend' = now /\ UNCHANGED <<round, late, now, pending>>
          /\ \/ pending = {} /\ pc' = "open"
             \/ pending # {} /\ wakeAt' = now + Interval /\ pc' = "send"
      BY <1>1 DEF StampSend, TimestampNeeded
    <2>2. \A i \in pending : Gap(i) \in Nat
      BY <1>0, GapFacts DEF TypeInv, TypeOK
    <2> HIDE DEF AllTargets
    <2> QED
      BY <1>0, <2>1, <2>2, LateNumbers DEF LateInv, SendBy, SentBy, OverflowsOnlyWhenLate
  <1>2. CASE StartNextRound
    <2>1. /\ pc = "between" /\ pc' = "send" /\ round' = round + 1
          /\ wakeAt' = NextRoundBaseline + Pacing /\ UNCHANGED <<now, late>>
          /\ wakeAt' = TimestampNeeded
      BY <1>2 DEF StartNextRound, TimestampNeeded
    <2>2. now <= wakeAt'
      <3>1. lastSend \in Nat
        BY <1>0, <2>1 DEF TypeInv, ThreadInv
      <3> QED
        BY <1>0, <2>1, <3>1, LateNumbers DEF NextRoundBaseline, Larger
    <2>3. wakeAt' <= RoundBegins[round'] + late'
      BY <1>0, <2>1, NeededInSchedule
    <2>4. RoundBegins[round'] \in Nat /\ wakeAt' \in Nat
      BY <1>0, ScheduleFacts DEF TypeInv, TypeOK
    <2>5. \A i \in pending' : Gap(i) \in Nat
      BY <1>0, GapFacts DEF TypeInv, TypeOK
    <2>6. \A i \in pending' : wakeAt' <= SendBy(i)' /\ now' <= SendBy(i)'
      BY <1>0, <2>1, <2>2, <2>3, <2>4, <2>5, LateNumbers DEF SendBy
    <2> QED
      BY <1>0, <2>1, <2>6 DEF LateInv, OverflowsOnlyWhenLate
  <1>3. CASE OpenWindow
    <2>1. /\ pc = "open" /\ pc' = "check" /\ UNCHANGED <<round, late, now, lastSend>>
          /\ deadline' = now + ReceiveWindow[round]
      BY <1>3 DEF OpenWindow, TimestampNeeded, WindowLength
    <2> QED
      BY <1>0, <2>1, LateNumbers DEF LateInv, SentBy, OverflowsOnlyWhenLate
  <1>4. CASE PollRemaining \/ CloseWindow \/ PollReturns \/ PollInterrupted \/ BufferEmpty
             \/ EndpointFails \/ ReceiveFrame
    <2>1. /\ pc \in {"check", "poll", "drain"}
          /\ pc' \in {"check", "poll", "drain", "between", "done", "failed"}
          /\ UNCHANGED <<round, late, now, lastSend, deadline>>
      BY <1>4 DEF PollRemaining, CloseWindow, PollReturns, PollInterrupted, BufferEmpty,
                  EndpointFails, ReceiveFrame
    <2> QED
      BY <1>0, <2>1 DEF LateInv, SentBy, OverflowsOnlyWhenLate
  <1>5. CASE TimingOverflows
    <2>1. pc' = "timingError" /\ late' = late /\ TimestampNeeded > MaxTimestamp
      BY <1>0, <1>5, TimestampNeededIsNat, ScheduleAssumption
         DEF TimingOverflows, TimestampFits
    <2>2. TimestampNeeded <= ScheduleEnd + late /\ TimestampNeeded \in Nat
      BY <1>0, NeededInSchedule, TimestampNeededIsNat
    <2> QED
      BY <1>0, <2>1, <2>2, LateNumbers, ScheduleAssumption DEF LateInv, OverflowsOnlyWhenLate
  <1>6. CASE FrameArrives \/ Returned \/ UNCHANGED vars
    <2>1. UNCHANGED <<pc, round, pending, wakeAt, lastSend, deadline, now, late>>
      BY <1>6 DEF FrameArrives, Returned
    <2> QED
      BY <1>0, <2>1 DEF LateInv, SendBy, SentBy, OverflowsOnlyWhenLate
  <1>7. ~EndBurstRound
    BY <1>0 DEF EndBurstRound, TypeInv, ThreadInv
  <1> QED
    BY <1>1, <1>2, <1>3, <1>4, <1>5, <1>6, <1>7, SendLateInv, ClockLateInv DEF Next, Thread

\* A rate-limited scan reports a timing error only if its schedule, and the time the
\* thread lost, do not fit the clock.
THEOREM OverflowMeansLate ==
    ASSUME RateLimited PROVE Spec => []OverflowsOnlyWhenLate
  <1>1. LateTimeInv => OverflowsOnlyWhenLate
    BY DEF LateTimeInv, LateInv
  <1> QED
    BY <1>1, InitLateInv, NextLateInv, PTL DEF Spec
=============================================================================
