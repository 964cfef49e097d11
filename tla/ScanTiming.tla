----------------------------- MODULE ScanTiming -----------------------------
(***************************************************************************)
(* The arithmetic of src/scan_timing.rs behind a rate-limited schedule:    *)
(* the interval derived from a bit rate, the receive windows that grow by  *)
(* the backoff factor, and the validation before a socket is opened, in    *)
(* which only the last window is computed.  Words, significands and        *)
(* durations have the widths of the constants, so that TLC can reach every *)
(* edge; a floating-point number is a normalised significand and an        *)
(* exponent of two.                                                        *)
(***************************************************************************)
EXTENDS Integers

CONSTANTS
    WordBits,        \* width of the integer arithmetic (128, u128)
    SignificandBits, \* BINARY64_SIGNIFICAND_BITS (53)
    MaxExponent,     \* exponent above which a float is infinite
    MaxPower,        \* largest exponent powi takes (i32::MAX)
    DurationMax,     \* largest Duration, in nanoseconds
    Second,          \* NANOSECONDS_PER_SECOND
    MinimumOctets,   \* MINIMUM_ON_WIRE_OCTETS (64)
    CheckOctets,     \* ETHERNET_FRAME_CHECK_SEQUENCE_OCTETS (4)
    Timeouts, Pacings, Attempts, Factors, \* the values the options may have
    Intervals, BitRates, FrameLengths

Float == [sig : 2 ^ (SignificandBits - 1) .. 2 ^ SignificandBits - 1, exp : Int]
One == [sig |-> 2 ^ (SignificandBits - 1), exp |-> 1 - SignificandBits]

ASSUME WidthAssumption ==
    /\ {WordBits, SignificandBits, Second, CheckOctets, MinimumOctets} \subseteq Nat \ {0}
    /\ {MaxExponent, MaxPower, DurationMax} \subseteq Nat
    /\ DurationMax < 2 ^ WordBits

ASSUME OptionAssumption ==
    /\ Timeouts \cup Pacings \cup Intervals \subseteq 0 .. DurationMax
    /\ Attempts \cup BitRates \subseteq Nat \ {0}
    /\ FrameLengths \subseteq Nat
    /\ \A f \in Factors : f \in Float /\ f.exp \in 1 - SignificandBits .. MaxExponent

None == -1  \* Option::None, for numbers

\* --bandwidth with the length of the encoded frame, or --interval-ms.
Rates == [kind : {"bandwidth"}, bits : BitRates, length : FrameLengths]
            \cup [kind : {"interval"}, interval : Intervals]

VARIABLES
    phase,    \* "requested", "rejected", "accepted", "failed" or "done"
    request,  \* the options of the scan
    interval, \* the interval of the accepted schedule
    window    \* window[r]: the receive window of round r, where computed

vars == <<phase, request, interval, window>>
-----------------------------------------------------------------------------
(* Arithmetic *)

CeilDiv(a, b) == (a + b - 1) \div b

\* duration_from_nanos_u128
DurationFrom(nanos) == IF nanos <= DurationMax THEN nanos ELSE None

\* Mutant of OnWireOctets: the frame check sequence is added after the minimum.
OnWireOctetsPastMinimum(length) ==
    CheckOctets + IF length >= MinimumOctets THEN length ELSE MinimumOctets

OnWireOctets(length) ==
    IF length + CheckOctets >= MinimumOctets THEN length + CheckOctets ELSE MinimumOctets

\* inter_send_interval_from_bandwidth
IntervalFromBandwidth(length, bits) ==
    DurationFrom(CeilDiv(OnWireOctets(length) * 8 * Second, bits))

\* Product of two floats, rounded to nearest, ties to even.
Times(x, y) ==
    LET product == x.sig * y.sig
        excess  == IF product >= 2 ^ (2 * SignificandBits - 1)
                   THEN SignificandBits ELSE SignificandBits - 1
        low     == product \div 2 ^ excess
        twice   == 2 * (product % 2 ^ excess)
        rounded == IF twice > 2 ^ excess \/ (twice = 2 ^ excess /\ low % 2 = 1)
                   THEN low + 1 ELSE low
        exp     == x.exp + y.exp + excess
    IN IF rounded = 2 ^ SignificandBits
       THEN [sig |-> 2 ^ (SignificandBits - 1), exp |-> exp + 1]
       ELSE [sig |-> rounded, exp |-> exp]

\* Bit k of the exponent n.
Bit(n, k) == (n \div 2 ^ k) % 2

\* Significant bits of n.
BitLength(n) == CHOOSE b \in 0 .. n : 2 ^ b > n /\ \A c \in 0 .. b - 1 : 2 ^ c <= n

\* The factor squared k times.
Squares(factor) ==
    LET square[k \in Nat] == IF k = 0 THEN factor ELSE Times(square[k - 1], square[k - 1])
    IN  square

\* The product of those squares that the bits of n below k call for.
Products(factor, n) ==
    LET square == Squares(factor)
        power[k \in Nat] ==
            IF k = 0 THEN One
            ELSE IF Bit(n, k - 1) = 0 THEN power[k - 1]
            ELSE Times(power[k - 1], square[k - 1])
    IN  power

\* f64::powi, by repeated squaring from the low bit of the exponent up.
Power(factor, n) == Products(factor, n)[BitLength(n)]

IsFinite(f) == f.exp <= MaxExponent

\* Mutant of MulCeil: bits shifted out are rounded down.
MulFloor(value, f) ==
    IF value = 0 \/ f = One THEN value
    ELSE IF f.exp >= 0 THEN value * f.sig * 2 ^ f.exp
    ELSE (value * f.sig) \div 2 ^ (-f.exp)

\* Mutant of MulCeil: the product is taken in half the width, as in u64.
MulWrapping(value, f) ==
    LET product == (value * f.sig) % 2 ^ (WordBits \div 2)
    IN IF value = 0 \/ f = One THEN value
       ELSE IF f.exp >= 0 THEN product * 2 ^ f.exp
       ELSE CeilDiv(product, 2 ^ (-f.exp))

\* checked_mul_ceil_u128_f64: a product past the word is None, but checked_shl
\* only refuses shifts of the whole width and drops the bits it shifts out.
MulCeil(value, f) ==
    LET product == value * f.sig
    IN IF value = 0 \/ f = One THEN value
       ELSE IF product >= 2 ^ WordBits THEN None
       ELSE IF f.exp >= WordBits THEN None
       ELSE IF f.exp >= 0 THEN (product * 2 ^ f.exp) % 2 ^ WordBits
       ELSE IF -f.exp >= WordBits THEN IF product > 0 THEN 1 ELSE 0
       ELSE CeilDiv(product, 2 ^ (-f.exp))

\* scale_duration_by_backoff
Scaled(timeout, factor, n) ==
    IF n = 0 \/ timeout = 0 \/ factor = One THEN timeout
    ELSE IF n > MaxPower \/ ~IsFinite(Power(factor, n)) THEN None
    ELSE LET nanos == MulCeil(timeout, Power(factor, n))
         IN IF nanos = None THEN None ELSE DurationFrom(nanos)
-----------------------------------------------------------------------------
(* Validation and the rounds *)

RequestedInterval ==
    IF request.rate.kind = "interval" THEN request.rate.interval
    ELSE IntervalFromBandwidth(request.rate.length, request.rate.bits)

\* Mutant of LastRound: the attempts are counted from zero.
RoundBeforeLast == IF request.attempts > 1 THEN request.attempts - 2 ELSE 0

LastRound == request.attempts - 1

GapFits == request.attempts > 1 => RequestedInterval + request.pacing <= DurationMax

Init ==
    /\ phase = "requested"
    /\ request \in [timeout : Timeouts, pacing : Pacings, attempts : Attempts,
                    factor : Factors, rate : Rates]
    /\ interval = None
    /\ window = [r \in 0 .. request.attempts - 1 |-> None]

\* validate_scan_timing_before_socket
Accept ==
    /\ phase = "requested"
    /\ RequestedInterval # None
    /\ GapFits
    /\ Scaled(request.timeout, request.factor, LastRound) # None
    /\ phase' = "accepted"
    /\ interval' = RequestedInterval
    /\ UNCHANGED <<request, window>>

Reject ==
    /\ phase = "requested"
    /\ \/ RequestedInterval = None
       \/ ~GapFits
       \/ Scaled(request.timeout, request.factor, LastRound) = None
    /\ phase' = "rejected"
    /\ UNCHANGED <<request, interval, window>>

NextRounds == {r \in DOMAIN window : window[r] = None /\ \A s \in 0 .. r - 1 : window[s] # None}

\* run_rate_limited_rounds computes the window of each round when it is due.
ComputeWindow ==
    /\ phase = "accepted"
    /\ \E r \in NextRounds :
        LET due == Scaled(request.timeout, request.factor, r)
        IN /\ window' = [window EXCEPT ![r] = due]
           /\ phase' = IF due = None THEN "failed" ELSE "accepted"
    /\ UNCHANGED <<request, interval>>

Finish ==
    /\ phase = "accepted"
    /\ NextRounds = {}
    /\ phase' = "done"
    /\ UNCHANGED <<request, interval, window>>

Settled ==
    /\ phase \in {"rejected", "failed", "done"}
    /\ UNCHANGED vars

Next == Accept \/ Reject \/ ComputeWindow \/ Finish \/ Settled

Spec == Init /\ [][Next]_vars
-----------------------------------------------------------------------------
(* Properties *)

\* An accepted interval is the shortest one in which the frame, with its check
\* sequence and no shorter than the minimum, fits the bit rate.
IntervalCoversBitBudget ==
    interval # None /\ request.rate.kind = "bandwidth" =>
        LET length == request.rate.length + CheckOctets
            budget == 8 * Second * (IF length > MinimumOctets THEN length ELSE MinimumOctets)
        IN /\ interval * request.rate.bits >= budget
           /\ (interval - 1) * request.rate.bits < budget

\* A window is the shortest duration not below the timeout times the power of
\* the factor, although it is computed in integers and rounded only once.
WindowIsCeiling ==
    \A r \in DOMAIN window :
        window[r] # None =>
            LET power == Power(request.factor, r)
                up    == IF power.exp > 0 THEN 2 ^ power.exp ELSE 1
                down  == IF power.exp < 0 THEN 2 ^ (-power.exp) ELSE 1
                exact == request.timeout * power.sig * up
            IN /\ window[r] * down >= exact
               /\ request.timeout > 0 => (window[r] - 1) * down < exact

\* Later rounds never listen for less time than earlier ones.
WindowsNeverShrink ==
    \A r, s \in DOMAIN window :
        r < s /\ None \notin {window[r], window[s]} => window[r] <= window[s]

\* Claimed by scan_timing.rs:180-181: when any planned window does not fit, the
\* schedule is rejected by the validation; so no accepted scan fails in a later
\* round, when it has sent already.
AcceptedScheduleFits == phase # "failed"
=============================================================================
