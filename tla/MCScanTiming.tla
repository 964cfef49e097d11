---------------------------- MODULE MCScanTiming ----------------------------
(***************************************************************************)
(* Instances of ScanTiming for TLC: words of 12 bits, significands of 3    *)
(* bits, seconds of 4 nanoseconds.                                         *)
(***************************************************************************)
EXTENDS ScanTiming

\* The factors 1, 1.25, 1.5, 1.75 and 2.
SmallFactors ==
    {[sig |-> s, exp |-> -2] : s \in 4 .. 7} \cup {[sig |-> 4, exp |-> -1]}

\* The factors 2, 2^5, 2^6 and 2^7: the last ones lead past every duration.
LargeFactors == {[sig |-> 4, exp |-> e] : e \in {-1, 3, 4, 5}}

AllTimeouts == 0 .. 15
=============================================================================
