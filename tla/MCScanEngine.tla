---------------------------- MODULE MCScanEngine ----------------------------
(***************************************************************************)
(* Instances of ScanEngine for TLC: two targets a and b, a third station x *)
(* outside the scanned subnet, and two hardware addresses.                 *)
(***************************************************************************)
EXTENDS ScanEngine

CONSTANTS a, b, x, m1, m2

TwoTargets == <<a, b>>
OneTarget == <<a>>

Reply(ip, mac) == [kind |-> "reply", ip |-> ip, mac |-> mac]
Other(kind) == [kind |-> kind]

\* Both targets, the first with two rival stations; an outsider and noise.
MixedFrames ==
    {Reply(a, m1), Reply(a, m2), Reply(b, m1), Reply(x, m1)}
        \cup {Other(kind) : kind \in Noise}

\* Rival replies only.
RivalFrames == {Reply(a, m1), Reply(a, m2), Reply(b, m1)}

\* The single window of a burst scan: two milliseconds and a half.
BurstWindow == [r \in 0 .. Rounds - 1 |-> 5]

\* Rate-limited windows that grow by the backoff factor 2.
GrowingWindow == [r \in 0 .. Rounds - 1 |-> 2 * 2 ^ r]
=============================================================================
