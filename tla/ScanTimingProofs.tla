--------------------------- MODULE ScanTimingProofs ---------------------------
(***************************************************************************)
(* Proofs about ScanTiming for words, significands and durations of every  *)
(* width: the interval derived from a bit rate is the shortest that keeps  *)
(* it, and a receive window is the exact product rounded up once, as long  *)
(* as no bit is shifted out of the word.  Then the windows also never      *)
(* shrink: multiplication rounds, but keeps the order of its factors, so   *)
(* repeated squaring keeps the order of the exponents.  An accepted        *)
(* schedule therefore fits in every round when it fits in the last.        *)
(***************************************************************************)
EXTENDS ScanTiming, LibraryLemmas

Requests == [timeout : Timeouts, pacing : Pacings, attempts : Attempts, factor : Factors,
             rate : Rates]

\* An interval is that of the request, and a window the timeout scaled for its round.
TimingInv ==
    /\ request \in Requests
    /\ interval \in {None, RequestedInterval}
    /\ DOMAIN window = 0 .. request.attempts - 1
    /\ \A r \in DOMAIN window :
        window[r] \in {None, Scaled(request.timeout, request.factor, r)}

\* Initially nothing is computed.
LEMMA TimingInit == Init => TimingInv
BY DEF Init, TimingInv, Requests

\* The validation and the rounds compute what the request asks for.
LEMMA TimingNext == TimingInv /\ [Next]_vars => TimingInv'
<1> SUFFICES ASSUME TimingInv, [Next]_vars PROVE TimingInv'
    OBVIOUS
<1>1. request' = request
    BY DEF Next, vars, Accept, Reject, ComputeWindow, Finish, Settled
<1>2. RequestedInterval' = RequestedInterval
    BY <1>1 DEF RequestedInterval
<1>3. interval' \in {interval, RequestedInterval}
    BY DEF Next, vars, Accept, Reject, ComputeWindow, Finish, Settled
<1>4. CASE window' = window
    BY <1>1, <1>2, <1>3, <1>4 DEF TimingInv
<1>5. CASE ComputeWindow
  <2>1. PICK r \in DOMAIN window :
            window' = [window EXCEPT ![r] = Scaled(request.timeout, request.factor, r)]
    BY <1>5 DEF ComputeWindow, NextRounds
  <2>2. DOMAIN window' = DOMAIN window
        /\ \A s \in DOMAIN window :
            window'[s] \in {window[s], Scaled(request.timeout, request.factor, s)}
    BY <2>1 DEF TimingInv
  <2> QED
    BY <1>1, <1>2, <1>3, <2>2 DEF TimingInv
<1> QED
    BY <1>4, <1>5 DEF Next, vars, Accept, Reject, Finish, Settled
-----------------------------------------------------------------------------
(* The interval *)

\* u128::div_ceil yields the least number of parts that hold the whole.
LEMMA CeilDivIsCeiling ==
    ASSUME NEW a \in Nat, NEW b \in Nat, b > 0
    PROVE  /\ CeilDiv(a, b) \in Nat
           /\ CeilDiv(a, b) * b >= a
           /\ (CeilDiv(a, b) - 1) * b < a
<1>1. (a + b - 1) \div b \in Nat
    OBVIOUS
<1> QED
    BY <1>1 DEF CeilDiv

\* An interval made from a bit rate is the shortest in which the frame fits it, with its
\* check sequence and no shorter than the minimum (inter_send_interval_from_bandwidth).
THEOREM IntervalsCoverTheirBits ==
    Spec => []IntervalCoversBitBudget
<1>1. TimingInv => IntervalCoversBitBudget
  <2> SUFFICES ASSUME TimingInv, interval # None, request.rate.kind = "bandwidth"
               PROVE  IntervalCoversBitBudget
    BY DEF IntervalCoversBitBudget
  <2> DEFINE octets == request.rate.length
             bits == request.rate.bits
             need == OnWireOctets(octets) * 8 * Second
  <2>1. octets \in Nat /\ bits \in Nat /\ bits > 0
    <3>1. request.rate \in Rates
      BY DEF TimingInv, Requests
    <3>2. request.rate \notin [kind : {"interval"}, interval : Intervals]
      OBVIOUS
    <3>3. request.rate \in [kind : {"bandwidth"}, bits : BitRates, length : FrameLengths]
      BY <3>1, <3>2 DEF Rates
    <3>4. octets \in FrameLengths /\ bits \in BitRates
      BY <3>3
    <3>5. FrameLengths \subseteq Nat /\ BitRates \subseteq Nat \ {0}
      BY OptionAssumption
    <3> HIDE DEF octets, bits
    <3>6. octets \in Nat /\ bits \in Nat /\ bits # 0
      BY <3>4, <3>5
    <3> QED
      BY <3>6
  <2>2. /\ Second \in Nat /\ CheckOctets \in Nat /\ MinimumOctets \in Nat
    BY WidthAssumption
  <2>3. OnWireOctets(octets) \in Nat
        /\ OnWireOctets(octets) = IF octets + CheckOctets > MinimumOctets
                                  THEN octets + CheckOctets ELSE MinimumOctets
    BY <2>1, <2>2 DEF OnWireOctets
  <2>4. need \in Nat /\ need = 8 * Second * OnWireOctets(octets)
    BY <2>2, <2>3
  <2>5. interval = CeilDiv(need, bits)
    BY DEF TimingInv, RequestedInterval, IntervalFromBandwidth, DurationFrom
  <2> HIDE DEF octets, bits, need
  <2>6. interval * bits >= need /\ (interval - 1) * bits < need
    BY <2>1, <2>4, <2>5, CeilDivIsCeiling
  <2> QED
    BY <2>3, <2>4, <2>6 DEF IntervalCoversBitBudget, octets, bits
<1> QED
    BY <1>1, TimingInit, TimingNext, PTL DEF Spec
-----------------------------------------------------------------------------
(* Floating-point numbers *)

\* The least significand, and the number past the greatest.
Least == 2 ^ (SignificandBits - 1)
Past == 2 ^ SignificandBits

\* A significand has as many bits as the constant says.
LEMMA SignificandFacts ==
    /\ SignificandBits \in Nat /\ SignificandBits > 0
    /\ Least \in Nat /\ Least > 0 /\ Past = 2 * Least
    /\ 2 ^ (2 * SignificandBits - 1) = Past * Least
<1>1. SignificandBits \in Nat /\ SignificandBits > 0 /\ SignificandBits - 1 \in Nat
    BY WidthAssumption
<1>2. Least \in Nat /\ Least > 0
    BY <1>1, PowerType DEF Least
<1>3. Past = 2 * Least
  <2>1. (SignificandBits - 1) + 1 = SignificandBits
    BY <1>1
  <2> QED
    BY <1>1, <2>1, PowerNext DEF Least, Past
<1>4. 2 ^ (2 * SignificandBits - 1) = Past * Least
  <2>1. SignificandBits + (SignificandBits - 1) = 2 * SignificandBits - 1
    BY <1>1
  <2> QED
    BY <1>1, <2>1, PowerSum DEF Least, Past
<1> QED
    BY <1>1, <1>2, <1>3, <1>4

\* What a quotient lies between.
LEMMA QuotientBounds ==
    ASSUME NEW p \in Nat, NEW d \in Nat, d > 0, NEW low \in Nat, NEW high \in Nat,
           low * d <= p, p < high * d
    PROVE  p \div d \in low .. high - 1
<1>1. p \div d \in Int
    OBVIOUS
<1>2. low <= p \div d
    OBVIOUS
<1>3. p \div d < high
    OBVIOUS
<1> QED
    BY <1>1, <1>2, <1>3

\* The product of two floats is a float: rounding a significand up to the next power of
\* two only moves the exponent.
LEMMA TimesIsFloat ==
    ASSUME NEW x \in Float, NEW y \in Float
    PROVE  Times(x, y) \in Float
<1> DEFINE product == x.sig * y.sig
           excess == IF product >= 2 ^ (2 * SignificandBits - 1)
                     THEN SignificandBits ELSE SignificandBits - 1
           low == product \div 2 ^ excess
           twice == 2 * (product % 2 ^ excess)
           rounded == IF twice > 2 ^ excess \/ (twice = 2 ^ excess /\ low % 2 = 1)
                      THEN low + 1 ELSE low
           exp == x.exp + y.exp + excess
<1>1. /\ x.sig \in Nat /\ Least <= x.sig /\ x.sig < Past
      /\ y.sig \in Nat /\ Least <= y.sig /\ y.sig < Past
      /\ x.exp \in Int /\ y.exp \in Int
  <2>1. x.sig \in Least .. Past - 1 /\ y.sig \in Least .. Past - 1
    BY DEF Float, Least, Past
  <2>2. x.exp \in Int /\ y.exp \in Int
    BY DEF Float
  <2> QED
    BY <2>1, <2>2, SignificandFacts
<1>2. product \in Nat /\ Least * Least <= product /\ product < Past * Past
  <2>1. ASSUME NEW a \in Nat, NEW b \in Nat, NEW l \in Nat, NEW h \in Nat,
               l <= a, l <= b, a < h, b < h
        PROVE  a * b \in Nat /\ l * l <= a * b /\ a * b < h * h
    BY <2>1
  <2> QED
    BY <1>1, <2>1, SignificandFacts
<1>3. low \in Least .. Past - 1 /\ excess \in Int
  <2> HIDE DEF product
  <2>1. CASE product >= 2 ^ (2 * SignificandBits - 1)
    <3>1. excess = SignificandBits /\ low = product \div Past
      BY <2>1 DEF Past
    <3>2. Least * Past <= product
      BY <2>1, SignificandFacts
    <3> HIDE DEF low, excess
    <3> QED
      BY <1>2, <3>1, <3>2, SignificandFacts, QuotientBounds
  <2>2. CASE ~(product >= 2 ^ (2 * SignificandBits - 1))
    <3>1. excess = SignificandBits - 1 /\ low = product \div Least
      BY <2>2 DEF Least
    <3>2. product < Past * Least
      BY <1>2, <2>2, SignificandFacts
    <3> HIDE DEF low, excess
    <3> QED
      BY <1>2, <3>1, <3>2, SignificandFacts, QuotientBounds
  <2> QED
    BY <2>1, <2>2
<1> HIDE DEF product, excess, low
<1>4. rounded \in Least .. Past /\ exp \in Int
  <2>1. rounded = low \/ rounded = low + 1
    OBVIOUS
  <2> HIDE DEF rounded
  <2> QED
    BY <1>1, <1>3, <2>1, SignificandFacts
<1>5. Times(x, y) = IF rounded = Past THEN [sig |-> Least, exp |-> exp + 1]
                    ELSE [sig |-> rounded, exp |-> exp]
    BY DEF Times, product, excess, low, Least, Past
<1> HIDE DEF rounded, exp
<1>6. Float = [sig : Least .. Past - 1, exp : Int]
    BY DEF Float, Least, Past
<1>7. Least \in Least .. Past - 1 /\ exp + 1 \in Int
    BY <1>4, SignificandFacts
<1>8. rounded # Past => rounded \in Least .. Past - 1
    BY <1>4, SignificandFacts
<1> QED
    BY <1>4, <1>5, <1>6, <1>7, <1>8

\* One is a float, and one times one is one.
LEMMA OneIsFloat == One \in Float /\ Times(One, One) = One
<1>1. One = [sig |-> Least, exp |-> 1 - SignificandBits]
    BY DEF One, Least
<1>2. Float = [sig : Least .. Past - 1, exp : Int]
    BY DEF Float, Least, Past
<1>3. Least \in Least .. Past - 1 /\ 1 - SignificandBits \in Int
    BY SignificandFacts
<1>4. /\ ~(Least * Least >= 2 ^ (2 * SignificandBits - 1))
      /\ (Least * Least) \div Least = Least
      /\ 2 * ((Least * Least) % Least) = 0
  <2>1. ASSUME NEW l \in Nat, l > 0
        PROVE  ~(l * l >= (2 * l) * l) /\ (l * l) \div l = l /\ (l * l) % l = 0
    <3>1. l * l \in Nat /\ l * l > 0 /\ (2 * l) * l = l * l + l * l
      BY <2>1
    <3>2. (l * l) \div l = l /\ (l * l) % l = 0
      BY <2>1
    <3> QED
      BY <3>1, <3>2
  <2> QED
    BY <2>1, SignificandFacts
<1>5. Least # Past /\ ~(0 > Least) /\ 0 # Least
    BY SignificandFacts
<1>6. (1 - SignificandBits) + (1 - SignificandBits) + (SignificandBits - 1) = 1 - SignificandBits
    BY SignificandFacts
<1>7. One.sig = Least /\ One.exp = 1 - SignificandBits
    BY <1>1
<1>8. Times(One, One) = [sig |-> Least, exp |-> 1 - SignificandBits]
    BY <1>4, <1>5, <1>6, <1>7 DEF Times, Least, Past
<1> QED
    BY <1>1, <1>2, <1>3, <1>8
-----------------------------------------------------------------------------
(* Powers *)

IsSquares(f, factor) ==
    f = [k \in Nat |-> IF k = 0 THEN factor ELSE Times(f[k - 1], f[k - 1])]

IsProducts(f, square, n) ==
    f = [k \in Nat |-> IF k = 0 THEN One
                       ELSE IF Bit(n, k - 1) = 0 THEN f[k - 1]
                       ELSE Times(f[k - 1], square[k - 1])]

\* Recursion over floats.
LEMMA FloatRecursion ==
    \A first \in Float : \A step \in [Nat -> [Float -> Float]] :
        \E f \in [Nat -> Float] : f[0] = first /\ \A k \in Nat : f[k + 1] = step[k][f[k]]
BY Recursion

\* The squares are defined, and are floats.
LEMMA SquaresDefined ==
    ASSUME NEW factor \in Float
    PROVE  /\ Squares(factor) \in [Nat -> Float]
           /\ Squares(factor)[0] = factor
           /\ \A k \in Nat :
                Squares(factor)[k + 1] = Times(Squares(factor)[k], Squares(factor)[k])
<1> DEFINE step == [k \in Nat |-> [x \in Float |-> Times(x, x)]]
           square == CHOOSE f : IsSquares(f, factor)
<1>1. step \in [Nat -> [Float -> Float]]
    BY TimesIsFloat
<1>2. PICK f \in [Nat -> Float] : f[0] = factor /\ \A k \in Nat : f[k + 1] = step[k][f[k]]
  <2> HIDE DEF step
  <2> QED
    BY <1>1, FloatRecursion
<1>3. IsSquares(f, factor)
  <2>1. ASSUME NEW k \in Nat, k # 0 PROVE f[k] = Times(f[k - 1], f[k - 1])
    <3>1. k - 1 \in Nat /\ (k - 1) + 1 = k
      BY <2>1
    <3>2. f[k] = step[k - 1][f[k - 1]] /\ f[k - 1] \in Float
      BY <1>2, <3>1
    <3> QED
      BY <3>1, <3>2
  <2> QED
    BY <1>2, <2>1 DEF IsSquares
<1>4. IsSquares(square, factor)
  <2> HIDE DEF square
  <2> QED
    BY <1>3 DEF square
<1>5. Squares(factor) = square
    BY DEF Squares, IsSquares
<1> HIDE DEF square
<1>6. square[0] = factor /\ DOMAIN square = Nat
      /\ \A k \in Nat \ {0} : square[k] = Times(square[k - 1], square[k - 1])
    BY <1>4 DEF IsSquares
<1>7. ASSUME NEW k \in Nat PROVE square[k + 1] = Times(square[k], square[k])
  <2>1. k + 1 \in Nat \ {0} /\ (k + 1) - 1 = k
    OBVIOUS
  <2> QED
    BY <1>6, <2>1
<1>8. Nat \subseteq {k \in Nat : square[k] \in Float}
  <2> DEFINE floats == {k \in Nat : square[k] \in Float}
  <2>1. 0 \in floats
    BY <1>6
  <2>2. ASSUME NEW k \in Nat, k \in floats PROVE k + 1 \in floats
    BY <1>7, <2>2, TimesIsFloat
  <2> HIDE DEF floats
  <2>3. Nat \subseteq floats
    BY <2>1, <2>2, Inductive
  <2> QED
    BY <2>3 DEF floats
<1>9. square \in [Nat -> Float]
  <2>1. square = [k \in Nat |-> square[k]]
    BY <1>4 DEF IsSquares
  <2> QED
    BY <1>8, <2>1
<1> QED
    BY <1>5, <1>6, <1>7, <1>9

\* The products of squares are defined, and are floats.
LEMMA ProductsDefined ==
    ASSUME NEW factor \in Float, NEW n \in Nat
    PROVE  /\ Products(factor, n) \in [Nat -> Float]
           /\ Products(factor, n)[0] = One
           /\ \A k \in Nat :
                Products(factor, n)[k + 1] =
                    IF Bit(n, k) = 0 THEN Products(factor, n)[k]
                    ELSE Times(Products(factor, n)[k], Squares(factor)[k])
<1> DEFINE square == Squares(factor)
           next(k, x) == IF Bit(n, k) = 0 THEN x ELSE Times(x, square[k])
           step == [k \in Nat |-> [x \in Float |-> next(k, x)]]
           power == CHOOSE f : IsProducts(f, square, n)
<1>1. \A k \in Nat : square[k] \in Float
    BY SquaresDefined
<1> HIDE DEF square
<1>2. step \in [Nat -> [Float -> Float]]
    BY <1>1, TimesIsFloat
<1>3. PICK f \in [Nat -> Float] : f[0] = One /\ \A k \in Nat : f[k + 1] = step[k][f[k]]
  <2> HIDE DEF step
  <2>1. One \in Float
    BY OneIsFloat
  <2> QED
    BY <1>2, <2>1, FloatRecursion
<1>4. IsProducts(f, square, n)
  <2>1. ASSUME NEW k \in Nat, k # 0 PROVE f[k] = next(k - 1, f[k - 1])
    <3>1. k - 1 \in Nat /\ (k - 1) + 1 = k
      BY <2>1
    <3>2. f[k] = step[k - 1][f[k - 1]] /\ f[k - 1] \in Float
      BY <1>3, <3>1
    <3> QED
      BY <3>1, <3>2
  <2> QED
    BY <1>3, <2>1 DEF IsProducts
<1>5. IsProducts(power, square, n)
  <2> HIDE DEF power
  <2> QED
    BY <1>4 DEF power
<1>6. Products(factor, n) = power
    BY DEF Products, IsProducts, square
<1> HIDE DEF power
<1>7. power[0] = One /\ DOMAIN power = Nat
      /\ \A k \in Nat \ {0} : power[k] = next(k - 1, power[k - 1])
    BY <1>5 DEF IsProducts
<1>8. ASSUME NEW k \in Nat PROVE power[k + 1] = next(k, power[k])
  <2>1. k + 1 \in Nat \ {0} /\ (k + 1) - 1 = k
    OBVIOUS
  <2> QED
    BY <1>7, <2>1
<1>9. Nat \subseteq {k \in Nat : power[k] \in Float}
  <2> DEFINE floats == {k \in Nat : power[k] \in Float}
  <2>1. 0 \in floats
    BY <1>7, OneIsFloat
  <2>2. ASSUME NEW k \in Nat, k \in floats PROVE k + 1 \in floats
    BY <1>1, <1>8, <2>2, TimesIsFloat
  <2> HIDE DEF floats
  <2>3. Nat \subseteq floats
    BY <2>1, <2>2, Inductive
  <2> QED
    BY <2>3 DEF floats
<1>10. power \in [Nat -> Float]
  <2>1. power = [k \in Nat |-> power[k]]
    BY <1>5 DEF IsProducts
  <2> QED
    BY <1>9, <2>1
<1> QED
    BY <1>6, <1>7, <1>8, <1>10 DEF square

\* A number is less than its power of two.
LEMMA PowerExceeds ==
    ASSUME NEW n \in Nat
    PROVE  n < 2 ^ n
<1> DEFINE good == {k \in Nat : k < 2 ^ k}
<1>1. 0 \in good
    BY PowerType
<1>2. ASSUME NEW k \in Nat, k \in good PROVE k + 1 \in good
  <2>1. 2 ^ (k + 1) = 2 * 2 ^ k /\ 2 ^ k \in Nat
    BY PowerNext, PowerType
  <2>2. k < 2 ^ k
    BY <1>2
  <2>3. k + 1 < 2 ^ (k + 1)
    BY <2>1, <2>2
  <2> QED
    BY <2>3
<1> HIDE DEF good
<1>3. n \in good
    BY <1>1, <1>2, Inductive
<1> QED
    BY <1>3 DEF good

\* Every number has a number of significant bits, zero has none.
LEMMA BitLengthDefined ==
    ASSUME NEW n \in Nat
    PROVE  /\ BitLength(n) \in 0 .. n
           /\ 2 ^ BitLength(n) > n
           /\ BitLength(0) = 0
<1> DEFINE enough == {b \in 0 .. n : 2 ^ b > n}
           Suffices(b) == 2 ^ b > n /\ \A c \in 0 .. b - 1 : 2 ^ c <= n
<1>1. n \in enough
    BY PowerExceeds, PowerType
<1>2. PICK b \in enough : \A c \in enough : b <= c
  <2>1. enough \subseteq Nat /\ enough # {}
    BY <1>1
  <2> HIDE DEF enough
  <2> QED
    BY <2>1, LeastElement
<1>3. b \in 0 .. n /\ Suffices(b)
  <2>1. ASSUME NEW c \in 0 .. b - 1 PROVE 2 ^ c <= n
    <3>1. c \in 0 .. n /\ c \notin enough /\ c \in Nat
      BY <1>2
    <3>2. ~(2 ^ c > n) /\ 2 ^ c \in Nat
      BY <3>1, PowerType
    <3> QED
      BY <3>2
  <2> QED
    BY <1>2, <2>1
<1>4. BitLength(n) \in 0 .. n /\ Suffices(BitLength(n))
    BY <1>3 DEF BitLength
<1>5. BitLength(0) \in 0 .. 0
  <2>1. 2 ^ 0 > 0 /\ \A c \in 0 .. 0 - 1 : 2 ^ c <= 0
    OBVIOUS
  <2> QED
    BY <2>1 DEF BitLength
<1> QED
    BY <1>4, <1>5

\* A power of a float is a float, the power with exponent zero is one, and so is every
\* power of one.
LEMMA PowerIsFloat ==
    ASSUME NEW factor \in Float, NEW n \in Nat
    PROVE  /\ Power(factor, n) \in Float
           /\ n = 0 => Power(factor, n) = One
           /\ factor = One => Power(factor, n) = One
<1>1. BitLength(n) \in Nat
    BY BitLengthDefined
<1>2. Power(factor, n) \in Float
    BY <1>1, ProductsDefined DEF Power
<1>3. ASSUME n = 0 PROVE Power(factor, n) = One
    BY <1>3, BitLengthDefined, ProductsDefined DEF Power
<1>4. ASSUME factor = One PROVE Power(factor, n) = One
  <2> DEFINE ones == {k \in Nat : Squares(factor)[k] = One /\ Products(factor, n)[k] = One}
  <2>1. 0 \in ones
    BY <1>4, SquaresDefined, ProductsDefined
  <2>2. ASSUME NEW k \in Nat, k \in ones PROVE k + 1 \in ones
    <3>1. Squares(factor)[k] = One /\ Products(factor, n)[k] = One
      BY <2>2
    <3>2. Squares(factor)[k + 1] = Times(One, One)
      BY <3>1, SquaresDefined
    <3>3. Products(factor, n)[k + 1] \in {One, Times(One, One)}
      BY <3>1, ProductsDefined
    <3> QED
      BY <3>2, <3>3, OneIsFloat
  <2> HIDE DEF ones
  <2>3. BitLength(n) \in ones
    BY <1>1, <2>1, <2>2, Inductive
  <2> QED
    BY <2>3 DEF ones, Power
<1> QED
    BY <1>2, <1>3, <1>4
-----------------------------------------------------------------------------
(* The windows *)

\* No product is shifted by so much that bits drop out of the word (checked_shl refuses
\* only shifts of the whole word), for any option and any round.
NoBitShiftedOut ==
    \A timeout \in Timeouts, factor \in Factors, attempts \in Attempts :
        \A r \in 0 .. attempts - 1 :
            LET power == Power(factor, r)
            IN  power.exp \in 0 .. WordBits - 1 /\ timeout * power.sig < 2 ^ WordBits
                => timeout * power.sig * 2 ^ power.exp < 2 ^ WordBits

\* w is the least number not below t times the float p.
Rounds(w, t, p) ==
    LET up    == IF p.exp > 0 THEN 2 ^ p.exp ELSE 1
        down  == IF p.exp < 0 THEN 2 ^ (-p.exp) ELSE 1
        exact == t * p.sig * up
    IN  /\ w * down >= exact
        /\ t > 0 => (w - 1) * down < exact

\* Times one, a number stays as it is.
LEMMA RoundsByOne ==
    ASSUME NEW t \in Nat
    PROVE  Rounds(t, t, One)
<1>1. One.sig = Least /\ One.exp = 1 - SignificandBits /\ Least \in Nat /\ Least > 0
    BY SignificandFacts DEF One, Least
<1>2. (IF One.exp > 0 THEN 2 ^ One.exp ELSE 1) = 1
    BY <1>1, SignificandFacts
<1>3. (IF One.exp < 0 THEN 2 ^ (-One.exp) ELSE 1) = Least
  <2>1. CASE SignificandBits = 1
    <3>1. One.exp = 0 /\ SignificandBits - 1 = 0
      BY <1>1, <2>1
    <3>2. Least = 2 ^ 0
      BY <3>1 DEF Least
    <3> QED
      BY <3>1, <3>2
  <2>2. CASE SignificandBits # 1
    <3>1. One.exp < 0 /\ -One.exp = SignificandBits - 1
      BY <1>1, <2>2, SignificandFacts
    <3> QED
      BY <3>1 DEF Least
  <2> QED
    BY <2>1, <2>2
<1>4. ASSUME NEW l \in Nat, l > 0
      PROVE  t * l >= t * l * 1 /\ (t > 0 => (t - 1) * l < t * l * 1)
    BY <1>4
<1> QED
    BY <1>1, <1>2, <1>3, <1>4 DEF Rounds

\* checked_mul_ceil_u128_f64 rounds the exact product up, when it answers.
LEMMA MulCeilRounds ==
    ASSUME NEW t \in Nat, NEW p \in Float, MulCeil(t, p) # None,
           p.exp \in 0 .. WordBits - 1 /\ t * p.sig < 2 ^ WordBits
               => t * p.sig * 2 ^ p.exp < 2 ^ WordBits
    PROVE  Rounds(MulCeil(t, p), t, p)
<1> DEFINE product == t * p.sig
<1>1. p.sig \in Nat /\ p.sig > 0 /\ p.exp \in Int
  <2>1. p.sig \in Least .. Past - 1 /\ p.exp \in Int
    BY DEF Float, Least, Past
  <2> QED
    BY <2>1, SignificandFacts
<1>2. product \in Nat /\ (t > 0 => product > 0) /\ (t = 0 => product = 0)
    BY <1>1
<1>3. WordBits \in Nat
    BY WidthAssumption
<1>4. CASE t = 0
  <2>1. MulCeil(t, p) = 0
    BY <1>4 DEF MulCeil
  <2> DEFINE up == IF p.exp > 0 THEN 2 ^ p.exp ELSE 1
             down == IF p.exp < 0 THEN 2 ^ (-p.exp) ELSE 1
  <2>2. up \in Int /\ down \in Int
    <3>1. p.exp > 0 => 2 ^ p.exp \in Nat
      BY <1>1, PowerType
    <3>2. p.exp < 0 => 2 ^ (-p.exp) \in Nat
      BY <1>1, PowerType
    <3> QED
      BY <3>1, <3>2
  <2> HIDE DEF up, down
  <2>3. 0 * down >= t * p.sig * up
    BY <1>1, <1>4, <2>2
  <2> QED
    BY <1>4, <2>1, <2>3 DEF Rounds, up, down
<1>5. CASE p = One
  <2>1. MulCeil(t, p) = t
    BY <1>5 DEF MulCeil
  <2> QED
    BY <1>5, <2>1, RoundsByOne
<1>6. CASE t # 0 /\ p # One
  <2>1. product < 2 ^ WordBits /\ p.exp < WordBits
    <3>1. ~(product >= 2 ^ WordBits) /\ ~(p.exp >= WordBits)
      BY <1>6 DEF MulCeil
    <3>2. 2 ^ WordBits \in Nat
      BY <1>3, PowerType
    <3> HIDE DEF product
    <3> QED
      BY <1>1, <1>2, <1>3, <3>1, <3>2
  <2>2. CASE p.exp >= 0
    <3>1. MulCeil(t, p) = (product * 2 ^ p.exp) % 2 ^ WordBits
      BY <1>6, <2>2 DEF MulCeil
    <3>2. p.exp \in 0 .. WordBits - 1
      BY <1>1, <1>3, <2>1, <2>2
    <3>3. 2 ^ p.exp \in Nat /\ 2 ^ WordBits \in Nat /\ 2 ^ p.exp > 0
      BY <1>3, <3>2, PowerType
    <3>4. product * 2 ^ p.exp < 2 ^ WordBits
      BY <2>1, <3>2
    <3> HIDE DEF product
    <3>5. product * 2 ^ p.exp \in Nat
      BY <1>2, <3>3
    <3>6. MulCeil(t, p) = product * 2 ^ p.exp
      BY <3>1, <3>3, <3>4, <3>5
    <3>7. (IF p.exp > 0 THEN 2 ^ p.exp ELSE 1) = 2 ^ p.exp
          /\ (IF p.exp < 0 THEN 2 ^ (-p.exp) ELSE 1) = 1
      <4>1. CASE p.exp > 0
        BY <1>1, <4>1
      <4>2. CASE p.exp = 0
        BY <4>2
      <4> QED
        BY <1>1, <2>2, <4>1, <4>2
    <3>8. ASSUME NEW x \in Nat PROVE x * 1 >= x /\ (x - 1) * 1 < x
      OBVIOUS
    <3>9. t * p.sig * 2 ^ p.exp = MulCeil(t, p)
      BY <3>6 DEF product
    <3> QED
      BY <3>5, <3>6, <3>7, <3>8, <3>9 DEF Rounds
  <2>3. CASE p.exp < 0
    <3> DEFINE down == 2 ^ (-p.exp)
    <3>1. -p.exp \in Nat /\ down \in Nat /\ down > 0
      BY <1>1, <2>3, PowerType
    <3>2. (IF p.exp > 0 THEN 2 ^ p.exp ELSE 1) = 1
          /\ (IF p.exp < 0 THEN 2 ^ (-p.exp) ELSE 1) = down
      BY <1>1, <2>3
    <3>3. /\ ~(p.exp >= 0) /\ ~(p.exp >= WordBits) /\ ~(product >= 2 ^ WordBits)
          /\ product > 0
      <4>1. ~(p.exp >= 0) /\ ~(p.exp >= WordBits) /\ product > 0
        BY <1>1, <1>2, <1>3, <1>6, <2>1, <2>3
      <4>2. 2 ^ WordBits \in Nat
        BY <1>3, PowerType
      <4> HIDE DEF product
      <4> QED
        BY <1>2, <2>1, <4>1, <4>2
    <3>4. /\ MulCeil(t, p) * down >= product
          /\ (MulCeil(t, p) - 1) * down < product
      <4>1. CASE -p.exp >= WordBits
        <5>1. MulCeil(t, p) = 1
          BY <1>6, <3>3, <4>1 DEF MulCeil
        <5>2. 2 ^ WordBits <= down
          BY <1>3, <3>1, <4>1, PowerMonotone
        <5>3. 2 ^ WordBits \in Nat
          BY <1>3, PowerType
        <5> HIDE DEF product, down
        <5> QED
          BY <1>2, <1>6, <2>1, <3>1, <5>1, <5>2, <5>3
      <4>2. CASE ~(-p.exp >= WordBits)
        <5>1. MulCeil(t, p) = CeilDiv(product, down)
          BY <1>6, <3>3, <4>2 DEF MulCeil
        <5> HIDE DEF product, down
        <5> QED
          BY <1>2, <3>1, <5>1, CeilDivIsCeiling
      <4> QED
        BY <4>1, <4>2
    <3>5. product * 1 = product
      BY <1>2
    <3> HIDE DEF down
    <3> QED
      BY <3>2, <3>4, <3>5 DEF Rounds
  <2> QED
    BY <1>1, <2>2, <2>3
<1> QED
    BY <1>4, <1>5, <1>6

\* scale_duration_by_backoff rounds the exact product up, when it answers.
LEMMA ScaledRounds ==
    ASSUME NoBitShiftedOut, NEW t \in Timeouts, NEW f \in Factors, NEW attempts \in Attempts,
           NEW r \in 0 .. attempts - 1, Scaled(t, f, r) # None
    PROVE  Rounds(Scaled(t, f, r), t, Power(f, r))
<1> DEFINE p == Power(f, r)
<1>1. t \in Nat
  <2>1. Timeouts \subseteq 0 .. DurationMax /\ DurationMax \in Nat
    BY OptionAssumption, WidthAssumption
  <2> QED
    BY <2>1
<1>2. f \in Float
    BY OptionAssumption
<1>3. r \in Nat
  <2>1. attempts \in Nat
    BY OptionAssumption
  <2> QED
    BY <2>1
<1>4. p \in Float /\ (r = 0 => p = One) /\ (f = One => p = One)
    BY <1>2, <1>3, PowerIsFloat
<1>5. p.exp \in 0 .. WordBits - 1 /\ t * p.sig < 2 ^ WordBits
        => t * p.sig * 2 ^ p.exp < 2 ^ WordBits
    BY DEF NoBitShiftedOut
<1> HIDE DEF p
<1>6. CASE r = 0 \/ f = One
  <2>1. Scaled(t, f, r) = t /\ p = One
    BY <1>4, <1>6 DEF Scaled
  <2> QED
    BY <1>1, <2>1, RoundsByOne DEF p
<1>7. CASE t = 0
  <2>1. Scaled(t, f, r) = 0 /\ MulCeil(t, p) = 0
    BY <1>7 DEF Scaled, MulCeil
  <2>2. MulCeil(t, p) # None
    BY <2>1 DEF None
  <2> QED
    BY <1>1, <1>4, <1>5, <2>1, <2>2, MulCeilRounds DEF p
<1>8. CASE ~(r = 0 \/ t = 0 \/ f = One)
  <2>1. MulCeil(t, p) # None /\ Scaled(t, f, r) = DurationFrom(MulCeil(t, p))
    BY <1>8 DEF Scaled, p
  <2>2. Scaled(t, f, r) = MulCeil(t, p)
    BY <2>1 DEF DurationFrom
  <2> QED
    BY <1>1, <1>4, <1>5, <2>1, <2>2, MulCeilRounds DEF p
<1> QED
    BY <1>6, <1>7, <1>8

\* Unless bits drop out of the word, a receive window is the shortest duration that is not
\* below the timeout times the power of the factor (retry_receive_window).
THEOREM WindowsAreCeilings ==
    ASSUME NoBitShiftedOut
    PROVE  Spec => []WindowIsCeiling
<1>1. TimingInv => WindowIsCeiling
  <2> SUFFICES ASSUME TimingInv, NEW r \in DOMAIN window, window[r] # None
               PROVE  Rounds(window[r], request.timeout, Power(request.factor, r))
    BY DEF WindowIsCeiling, Rounds
  <2>1. /\ request.timeout \in Timeouts /\ request.factor \in Factors
        /\ request.attempts \in Attempts
        /\ r \in 0 .. request.attempts - 1
        /\ window[r] = Scaled(request.timeout, request.factor, r)
    BY DEF TimingInv, Requests
  <2> QED
    BY <2>1, ScaledRounds
<1> QED
    BY <1>1, TimingInit, TimingNext, PTL DEF Spec
-----------------------------------------------------------------------------
(* The order of floating-point numbers *)

\* Significands are normalised, so exponents decide first.
AtMost(x, y) == x.exp < y.exp \/ (x.exp = y.exp /\ x.sig <= y.sig)

\* p / d to the nearest, ties to even.
Nearest(p, d) ==
    LET low   == p \div d
        twice == 2 * (p % d)
    IN  IF twice > d \/ (twice = d /\ low % 2 = 1) THEN low + 1 ELSE low

\* The float nearest to a product of significands.
Excess(p) == IF p >= Past * Least THEN SignificandBits ELSE SignificandBits - 1
NearestFloat(p) ==
    LET rounded == Nearest(p, 2 ^ Excess(p))
    IN  IF rounded = Past THEN [sig |-> Least, exp |-> Excess(p) + 1]
        ELSE [sig |-> rounded, exp |-> Excess(p)]

ShiftedBy(f, e) == [sig |-> f.sig, exp |-> e + f.exp]

\* The parts of a float.
LEMMA FloatParts ==
    ASSUME NEW x \in Float
    PROVE  /\ x.sig \in Nat /\ Least <= x.sig /\ x.sig < Past /\ x.sig > 0
           /\ x.exp \in Int
           /\ x = [sig |-> x.sig, exp |-> x.exp]
<1>1. Float = [sig : Least .. Past - 1, exp : Int]
    BY DEF Float, Least, Past
<1>2. x.sig \in Least .. Past - 1 /\ x.exp \in Int /\ x = [sig |-> x.sig, exp |-> x.exp]
    BY <1>1
<1> QED
    BY <1>2, SignificandFacts

\* Times in these terms.
LEMMA TimesIsNearest ==
    ASSUME NEW x \in Float, NEW y \in Float
    PROVE  Times(x, y) = ShiftedBy(NearestFloat(x.sig * y.sig), x.exp + y.exp)
<1> DEFINE p == x.sig * y.sig
           e == x.exp + y.exp
           n == Nearest(p, 2 ^ Excess(p))
<1>1. e \in Int /\ SignificandBits \in Int /\ Excess(p) \in Int
    BY FloatParts, SignificandFacts DEF Excess
<1>2. Excess(p) = IF p >= 2 ^ (2 * SignificandBits - 1) THEN SignificandBits
                  ELSE SignificandBits - 1
    BY SignificandFacts DEF Excess
<1>3. Times(x, y) = IF n = Past THEN [sig |-> Least, exp |-> (x.exp + y.exp + Excess(p)) + 1]
                    ELSE [sig |-> n, exp |-> x.exp + y.exp + Excess(p)]
    BY <1>2 DEF Times, Nearest, Least, Past
<1>4. x.exp + y.exp + Excess(p) = e + Excess(p)
      /\ (x.exp + y.exp + Excess(p)) + 1 = e + (Excess(p) + 1)
    BY <1>1, FloatParts
<1> HIDE DEF p, e, n
<1>5. NearestFloat(p) = IF n = Past THEN [sig |-> Least, exp |-> Excess(p) + 1]
                        ELSE [sig |-> n, exp |-> Excess(p)]
    BY DEF NearestFloat, n
<1>6. Times(x, y) = ShiftedBy(NearestFloat(p), e)
    BY <1>3, <1>4, <1>5 DEF ShiftedBy
<1> QED
    BY <1>6 DEF p, e

\* Rounding keeps the order, and what divides.
LEMMA NearestOrder ==
    ASSUME NEW p \in Nat, NEW q \in Nat, NEW d \in Nat, d > 0, p <= q
    PROVE  /\ Nearest(p, d) \in Nat
           /\ p \div d <= Nearest(p, d) /\ Nearest(p, d) <= p \div d + 1
           /\ Nearest(p, d) <= Nearest(q, d)
<1> DEFINE a == p \div d
           b == q \div d
           r == p % d
           s == q % d
<1>1. a \in Nat /\ b \in Nat /\ r \in 0 .. d - 1 /\ s \in 0 .. d - 1
    OBVIOUS
<1>2. p = d * a + r /\ q = d * b + s
    OBVIOUS
<1>3. Nearest(p, d) = IF 2 * r > d \/ (2 * r = d /\ a % 2 = 1) THEN a + 1 ELSE a
    BY DEF Nearest
<1>4. Nearest(q, d) = IF 2 * s > d \/ (2 * s = d /\ b % 2 = 1) THEN b + 1 ELSE b
    BY DEF Nearest
<1> HIDE DEF a, b, r, s
<1>5. a <= b
  <2> SUFFICES ASSUME a >= b + 1 PROVE FALSE
    BY <1>1
  <2>1. d * a >= d * (b + 1) /\ d * (b + 1) = d * b + d
    BY <1>1
  <2>2. d * a \in Int /\ d * b \in Int
    BY <1>1
  <2> HIDE DEF a, b
  <2> QED
    BY <1>1, <1>2, <2>1, <2>2
<1>6. a = b => r <= s
    BY <1>1, <1>2
<1>7. Nearest(p, d) \in {a, a + 1} /\ Nearest(q, d) \in {b, b + 1}
    BY <1>3, <1>4
<1>8. CASE a = b
  <2>1. Nearest(q, d) = a => Nearest(p, d) = a
    BY <1>1, <1>3, <1>4, <1>6, <1>8
  <2> QED
    BY <1>1, <1>7, <1>8, <2>1 DEF a
<1>9. CASE a < b
    BY <1>1, <1>7, <1>9 DEF a
<1> QED
    BY <1>1, <1>5, <1>8, <1>9

\* Rounding a multiple changes nothing.
LEMMA NearestExact ==
    ASSUME NEW n \in Nat, NEW d \in Nat, d > 0
    PROVE  Nearest(n * d, d) = n
<1>1. (n * d) \div d = n /\ (n * d) % d = 0
    OBVIOUS
<1>2. ~(2 * 0 > d) /\ 2 * 0 # d
    OBVIOUS
<1> QED
    BY <1>1, <1>2 DEF Nearest

\* The products of two significands.
Product == {p \in Nat : Least * Least <= p /\ p < Past * Past}

\* What they are rounded to.
LEMMA NearestFloatIs ==
    ASSUME NEW p \in Product
    PROVE  \E n \in Nat, e \in Int, d \in {Least, Past} :
              /\ Least <= n /\ n <= Past
              /\ n = Nearest(p, d)
              /\ d = IF p >= Past * Least THEN Past ELSE Least
              /\ e = IF p >= Past * Least THEN SignificandBits ELSE SignificandBits - 1
              /\ NearestFloat(p) = IF n = Past THEN [sig |-> Least, exp |-> e + 1]
                                   ELSE [sig |-> n, exp |-> e]
<1> DEFINE e == IF p >= Past * Least THEN SignificandBits ELSE SignificandBits - 1
           d == IF p >= Past * Least THEN Past ELSE Least
           n == Nearest(p, d)
<1>1. e = Excess(p) /\ 2 ^ Excess(p) = d /\ e \in Int
    BY SignificandFacts DEF Excess, Least, Past
<1>2. d \in Nat /\ d > 0
    BY SignificandFacts
<1>3. p \in Nat /\ Least * d <= p /\ p < Past * d
    BY SignificandFacts DEF Product
<1> HIDE DEF e
<1>4. p \div d \in Least .. Past - 1
  <2> HIDE DEF d
  <2> QED
    BY <1>2, <1>3, SignificandFacts, QuotientBounds
<1>5. n \in Nat /\ p \div d <= n /\ n <= p \div d + 1
  <2> HIDE DEF d
  <2> QED
    BY <1>2, <1>3, NearestOrder
<1>6. Least <= n /\ n <= Past
  <2> HIDE DEF n, d
  <2> QED
    BY <1>4, <1>5, SignificandFacts
<1>7. NearestFloat(p) = IF n = Past THEN [sig |-> Least, exp |-> e + 1]
                        ELSE [sig |-> n, exp |-> e]
    BY <1>1 DEF NearestFloat
<1>8. d \in {Least, Past}
    OBVIOUS
<1> HIDE DEF n, d
<1> QED
    BY <1>1, <1>5, <1>6, <1>7, <1>8 DEF n, d, e

\* The greater product is rounded to the greater float.
LEMMA NearestFloatOrder ==
    ASSUME NEW p \in Product, NEW q \in Product, p <= q
    PROVE  AtMost(NearestFloat(p), NearestFloat(q))
<1> DEFINE Big(a) == a >= Past * Least
           Scale(a) == IF Big(a) THEN SignificandBits ELSE SignificandBits - 1
           Unit(a) == IF Big(a) THEN Past ELSE Least
<1>1. PICK m \in Nat : /\ Least <= m /\ m <= Past /\ m = Nearest(p, Unit(p))
                       /\ NearestFloat(p) = IF m = Past
                              THEN [sig |-> Least, exp |-> Scale(p) + 1]
                              ELSE [sig |-> m, exp |-> Scale(p)]
    BY NearestFloatIs
<1>2. PICK n \in Nat : /\ Least <= n /\ n <= Past /\ n = Nearest(q, Unit(q))
                       /\ NearestFloat(q) = IF n = Past
                              THEN [sig |-> Least, exp |-> Scale(q) + 1]
                              ELSE [sig |-> n, exp |-> Scale(q)]
    BY NearestFloatIs
<1>3. /\ NearestFloat(p).sig = (IF m = Past THEN Least ELSE m)
      /\ NearestFloat(p).exp = (IF m = Past THEN Scale(p) + 1 ELSE Scale(p))
    BY <1>1
<1>4. /\ NearestFloat(q).sig = (IF n = Past THEN Least ELSE n)
      /\ NearestFloat(q).exp = (IF n = Past THEN Scale(q) + 1 ELSE Scale(q))
    BY <1>2
<1>5. p \in Nat /\ q \in Nat /\ (Big(p) => Big(q))
    BY SignificandFacts DEF Product
<1>6. CASE Big(p) <=> Big(q)
  <2>1. Unit(p) = Unit(q) /\ Scale(p) = Scale(q) /\ Scale(p) \in Int
    BY <1>6, SignificandFacts
  <2>2. Unit(p) \in Nat /\ Unit(p) > 0
    BY SignificandFacts
  <2>3. m <= n
    <3> HIDE DEF Unit
    <3> QED
      BY <1>1, <1>2, <1>5, <2>1, <2>2, NearestOrder
  <2> HIDE DEF Unit, Scale, Big
  <2> QED
    BY <1>1, <1>2, <1>3, <1>4, <2>1, <2>3, SignificandFacts DEF AtMost
<1>7. CASE ~Big(p) /\ Big(q)
  <2>1. Scale(q) = Scale(p) + 1 /\ Scale(p) \in Int
    BY <1>7, SignificandFacts
  <2> HIDE DEF Unit, Scale, Big
  <2> QED
    BY <1>1, <1>2, <1>3, <1>4, <2>1, SignificandFacts DEF AtMost
<1> QED
    BY <1>5, <1>6, <1>7

\* A significand times the least one is itself, an exponent up; with a greater one it is
\* between itself and its double.
LEMMA NearestFloatRange ==
    ASSUME NEW s \in Least .. Past - 1, NEW t \in Least .. Past - 1
    PROVE  /\ s * t \in Product
           /\ AtMost([sig |-> t, exp |-> SignificandBits - 1], NearestFloat(s * t))
           /\ AtMost(NearestFloat(s * t), [sig |-> t, exp |-> SignificandBits])
           /\ NearestFloat(Least * t) = [sig |-> t, exp |-> SignificandBits - 1]
<1>1. s \in Nat /\ t \in Nat /\ Least \in Nat /\ Least > 0 /\ Past = 2 * Least
      /\ Least <= s /\ s < Past /\ Least <= t /\ t < Past
    BY SignificandFacts
<1>2. ASSUME NEW a \in Nat, NEW l \in Nat, NEW h \in Nat, l > 0, l <= a, a < h, l <= t, t < h
      PROVE  /\ a * t \in Nat /\ l * l <= a * t /\ a * t < h * h
             /\ l * t <= a * t /\ a * t < h * t
    BY <1>2, <1>1
<1>3. /\ s * t \in Product /\ Least * t \in Product
      /\ Least * t <= s * t /\ s * t < Past * t
  <2>1. /\ s * t \in Nat /\ Least * Least <= s * t /\ s * t < Past * Past
        /\ Least * t <= s * t /\ s * t < Past * t
    BY <1>1, <1>2
  <2>2. /\ Least * t \in Nat /\ Least * Least <= Least * t /\ Least * t < Past * Past
    BY <1>1, <1>2
  <2> QED
    BY <2>1, <2>2 DEF Product
<1>4. NearestFloat(Least * t) = [sig |-> t, exp |-> SignificandBits - 1]
  <2>1. ~(Least * t >= Past * Least)
    <3>1. ASSUME NEW l \in Nat, NEW h \in Nat, l > 0, t < h PROVE ~(l * t >= h * l)
      BY <1>1, <3>1
    <3> QED
      BY <1>1, <3>1
  <2>2. PICK n \in Nat : /\ n = Nearest(Least * t, Least)
                         /\ NearestFloat(Least * t) =
                                IF n = Past THEN [sig |-> Least, exp |-> SignificandBits - 1 + 1]
                                ELSE [sig |-> n, exp |-> SignificandBits - 1]
    BY <1>3, <2>1, NearestFloatIs
  <2>3. n = t
    <3>1. Least * t = t * Least
      BY <1>1
    <3> QED
      BY <1>1, <2>2, <3>1, NearestExact
  <2> QED
    BY <1>1, <2>2, <2>3
<1>5. AtMost(NearestFloat(s * t), [sig |-> t, exp |-> SignificandBits])
  <2> DEFINE p == s * t
             e == IF p >= Past * Least THEN SignificandBits ELSE SignificandBits - 1
             d == IF p >= Past * Least THEN Past ELSE Least
  <2>1. PICK n \in Nat : /\ Least <= n /\ n <= Past /\ n = Nearest(p, d)
                         /\ NearestFloat(p) = IF n = Past THEN [sig |-> Least, exp |-> e + 1]
                                              ELSE [sig |-> n, exp |-> e]
    BY <1>3, NearestFloatIs
  <2>2. CASE p >= Past * Least
    <3>1. p \div Past <= t - 1
      <4>1. 0 * Past <= p /\ p < t * Past /\ p \in Nat /\ Past \in Nat /\ Past > 0 /\ 0 \in Nat
        <5>1. Past * t = t * Past /\ 0 * Past = 0 /\ Past \in Nat /\ Past > 0
          BY <1>1
        <5> QED
          BY <1>1, <1>3, <5>1 DEF Product
      <4> HIDE DEF p
      <4>2. p \div Past \in 0 .. t - 1
        BY <1>1, <4>1, QuotientBounds
      <4> QED
        BY <4>2
    <3>2. n <= t
      <4>1. p \in Nat /\ Past \in Nat /\ Past > 0 /\ d = Past
        BY <1>1, <1>3, <2>2 DEF Product
      <4> HIDE DEF p, d
      <4>2. n <= p \div Past + 1 /\ p \div Past \in Int
        BY <2>1, <4>1, NearestOrder
      <4> QED
        BY <1>1, <3>1, <4>2
    <3>3. n # Past /\ NearestFloat(p) = [sig |-> n, exp |-> SignificandBits]
      BY <1>1, <2>1, <2>2, <3>2
    <3> QED
      BY <3>2, <3>3 DEF AtMost
  <2>3. CASE ~(p >= Past * Least)
    <3>1. NearestFloat(p) \in {[sig |-> Least, exp |-> SignificandBits],
                               [sig |-> n, exp |-> SignificandBits - 1]}
      BY <2>1, <2>3, SignificandFacts
    <3> QED
      BY <1>1, <3>1, SignificandFacts DEF AtMost
  <2> QED
    BY <2>2, <2>3
<1> QED
    BY <1>3, <1>4, <1>5, NearestFloatOrder

\* Floats are ordered by AtMost.
LEMMA FloatOrder ==
    ASSUME NEW x \in Float, NEW y \in Float, NEW z \in Float
    PROVE  /\ AtMost(x, x)
           /\ AtMost(x, y) /\ AtMost(y, z) => AtMost(x, z)
BY FloatParts DEF AtMost

\* A float that is shifted keeps its place.
LEMMA ShiftedOrder ==
    ASSUME NEW a \in Int, NEW b \in Int, NEW i \in Int, NEW j \in Int,
           NEW s \in Nat, NEW t \in Nat, NEW d \in Int, NEW e \in Int, d <= e,
           AtMost([sig |-> s, exp |-> i], [sig |-> t, exp |-> j])
    PROVE  AtMost([sig |-> s, exp |-> d + i], [sig |-> t, exp |-> e + j])
BY DEF AtMost

\* The floats between which a product lies.
LEMMA ProductRange ==
    ASSUME NEW x \in Float, NEW y \in Float
    PROVE  /\ Times(x, y) \in Float /\ Times(x, y) = Times(y, x)
           /\ AtMost([sig |-> y.sig, exp |-> x.exp + y.exp + (SignificandBits - 1)], Times(x, y))
           /\ AtMost(Times(x, y), [sig |-> y.sig, exp |-> x.exp + y.exp + SignificandBits])
<1> DEFINE n == NearestFloat(x.sig * y.sig)
           e == x.exp + y.exp
<1>1. /\ x.sig \in Least .. Past - 1 /\ y.sig \in Least .. Past - 1
      /\ x.exp \in Int /\ y.exp \in Int /\ x.sig \in Nat /\ y.sig \in Nat
      /\ SignificandBits \in Int
    BY FloatParts, SignificandFacts
<1>2. /\ AtMost([sig |-> y.sig, exp |-> SignificandBits - 1], n)
      /\ AtMost(n, [sig |-> y.sig, exp |-> SignificandBits])
    BY <1>1, NearestFloatRange
<1>3. Times(x, y) = ShiftedBy(n, e) /\ Times(x, y) \in Float
    BY TimesIsNearest, TimesIsFloat
<1>4. Times(x, y) = Times(y, x)
  <2>1. x.sig * y.sig = y.sig * x.sig /\ x.exp + y.exp = y.exp + x.exp
    BY <1>1
  <2> QED
    BY <2>1, TimesIsNearest
<1>5. PICK i \in Nat, j \in Int : n.sig = i /\ n.exp = j
  <2>1. x.sig * y.sig \in Product
    BY <1>1, NearestFloatRange
  <2>2. PICK i \in Nat, j \in Int : NearestFloat(x.sig * y.sig) =
            IF i = Past THEN [sig |-> Least, exp |-> j + 1] ELSE [sig |-> i, exp |-> j]
    BY <2>1, NearestFloatIs
  <2> QED
    BY <2>2, SignificandFacts
<1> HIDE DEF n
<1>6. Times(x, y).sig = i /\ Times(x, y).exp = e + j
    BY <1>3, <1>5 DEF ShiftedBy
<1> QED
    BY <1>1, <1>2, <1>3, <1>4, <1>5, <1>6 DEF AtMost

\* A greater factor gives a greater product.
LEMMA TimesOrder ==
    ASSUME NEW x \in Float, NEW y \in Float, NEW z \in Float, AtMost(x, y)
    PROVE  AtMost(Times(x, z), Times(y, z)) /\ AtMost(Times(z, x), Times(z, y))
<1>1. AtMost(Times(x, z), Times(y, z))
  <2>1. /\ x.exp \in Int /\ y.exp \in Int /\ z.exp \in Int /\ z.sig \in Nat
        /\ SignificandBits \in Int
    BY FloatParts, SignificandFacts
  <2>2. CASE x.exp < y.exp
    <3> DEFINE low == [sig |-> z.sig, exp |-> x.exp + z.exp + SignificandBits]
               high == [sig |-> z.sig, exp |-> y.exp + z.exp + (SignificandBits - 1)]
    <3>1. low \in Float /\ high \in Float
      <4>1. Float = [sig : Least .. Past - 1, exp : Int]
        BY DEF Float, Least, Past
      <4>2. z.sig \in Least .. Past - 1
        BY <4>1
      <4>3. /\ x.exp + z.exp + SignificandBits \in Int
            /\ y.exp + z.exp + (SignificandBits - 1) \in Int
        BY <2>1
      <4> QED
        BY <4>1, <4>2, <4>3
    <3>2. AtMost(low, high)
      <4>1. x.exp + z.exp + SignificandBits <= y.exp + z.exp + (SignificandBits - 1)
        BY <2>1, <2>2
      <4>2. low.exp <= high.exp /\ low.exp \in Int /\ high.exp \in Int /\ low.sig = high.sig
            /\ high.sig \in Nat
        BY <2>1, <4>1
      <4> HIDE DEF low, high
      <4> QED
        BY <4>2 DEF AtMost
    <3>3. AtMost(Times(x, z), low) /\ AtMost(high, Times(y, z))
          /\ Times(x, z) \in Float /\ Times(y, z) \in Float
      BY ProductRange
    <3> HIDE DEF low, high
    <3>4. AtMost(Times(x, z), high)
      BY <3>1, <3>2, <3>3, FloatOrder
    <3> QED
      BY <3>1, <3>3, <3>4, FloatOrder
  <2>3. CASE x.exp = y.exp
    <3> DEFINE p == x.sig * z.sig
               q == y.sig * z.sig
               e == x.exp + z.exp
    <3>1. x.sig <= y.sig
      BY <2>1, <2>3 DEF AtMost
    <3>2. p \in Product /\ q \in Product
      <4>1. ASSUME NEW f \in Float PROVE f.sig \in Least .. Past - 1
        BY FloatParts, SignificandFacts
      <4>2. x.sig \in Least .. Past - 1 /\ y.sig \in Least .. Past - 1
            /\ z.sig \in Least .. Past - 1
        BY <4>1
      <4> QED
        BY <4>2, NearestFloatRange
    <3>3. p <= q
      <4>1. ASSUME NEW a \in Nat, NEW b \in Nat, NEW c \in Nat, a <= b PROVE a * c <= b * c
        BY <4>1
      <4> QED
        BY <3>1, <4>1, FloatParts
    <3>4. Times(x, z) = ShiftedBy(NearestFloat(p), e) /\ Times(y, z) = ShiftedBy(NearestFloat(q), e)
      BY <2>3, TimesIsNearest
    <3>5. ASSUME NEW a \in Product
          PROVE  NearestFloat(a).exp \in Int
      <4>1. PICK i \in Nat, j \in Int : NearestFloat(a) =
                IF i = Past THEN [sig |-> Least, exp |-> j + 1] ELSE [sig |-> i, exp |-> j]
        BY NearestFloatIs
      <4> QED
        BY <4>1
    <3> HIDE DEF p, q
    <3>6. AtMost(NearestFloat(p), NearestFloat(q))
      BY <3>2, <3>3, NearestFloatOrder
    <3>7. e \in Int /\ NearestFloat(p).exp \in Int /\ NearestFloat(q).exp \in Int
      BY <2>1, <3>2, <3>5
    <3> HIDE DEF e
    <3> QED
      BY <3>4, <3>6, <3>7 DEF AtMost, ShiftedBy
  <2> QED
    BY <2>1, <2>2, <2>3 DEF AtMost
<1> QED
    BY <1>1, ProductRange

\* Times one, a float stays as it is.
LEMMA TimesOne ==
    ASSUME NEW y \in Float
    PROVE  Times(One, y) = y
<1>1. One.sig = Least /\ One.exp = 1 - SignificandBits
    BY DEF One, Least
<1>2. y.sig \in Least .. Past - 1 /\ Least \in Least .. Past - 1 /\ y.exp \in Int
      /\ y = [sig |-> y.sig, exp |-> y.exp] /\ SignificandBits \in Int
    BY FloatParts, SignificandFacts
<1>3. NearestFloat(Least * y.sig) = [sig |-> y.sig, exp |-> SignificandBits - 1]
    BY <1>2, NearestFloatRange
<1>4. Times(One, y) = ShiftedBy(NearestFloat(Least * y.sig), (1 - SignificandBits) + y.exp)
    BY <1>1, TimesIsNearest, OneIsFloat
<1>5. (1 - SignificandBits) + y.exp + (SignificandBits - 1) = y.exp
    BY <1>2
<1> QED
    BY <1>2, <1>3, <1>4, <1>5 DEF ShiftedBy
-----------------------------------------------------------------------------
(* The order of powers *)

\* The squares of a factor of at least one grow.
LEMMA SquaresGrow ==
    ASSUME NEW factor \in Float, AtMost(One, factor), NEW k \in Nat
    PROVE  /\ Squares(factor)[k] \in Float
           /\ AtMost(One, Squares(factor)[k])
           /\ AtMost(Squares(factor)[k], Squares(factor)[k + 1])
<1> DEFINE square == Squares(factor)
           great == {i \in Nat : AtMost(One, square[i]) /\ AtMost(square[i], square[i + 1])}
<1>1. /\ square \in [Nat -> Float] /\ square[0] = factor
      /\ \A i \in Nat : square[i + 1] = Times(square[i], square[i])
    BY SquaresDefined
<1> HIDE DEF square
<1>2. ASSUME NEW i \in Nat, AtMost(One, square[i])
      PROVE  AtMost(square[i], square[i + 1])
  <2>1. square[i] \in Float
    BY <1>1
  <2>2. AtMost(Times(One, square[i]), Times(square[i], square[i]))
    BY <1>2, <2>1, TimesOrder, OneIsFloat
  <2> QED
    BY <1>1, <2>1, <2>2, TimesOne
<1>3. 0 \in great
    BY <1>1, <1>2
<1>4. ASSUME NEW i \in Nat, i \in great PROVE i + 1 \in great
  <2>1. square[i] \in Float /\ square[i + 1] \in Float /\ i + 1 \in Nat
    BY <1>1
  <2>2. AtMost(One, square[i + 1])
    BY <1>4, <2>1, FloatOrder, OneIsFloat
  <2> QED
    BY <1>2, <2>1, <2>2
<1> HIDE DEF great
<1>5. k \in great
    BY <1>3, <1>4, Inductive
<1> QED
    BY <1>1, <1>5 DEF great, square

\* A number, from its low bits and the next.
LEMMA NextBit ==
    ASSUME NEW n \in Nat, NEW k \in Nat
    PROVE  /\ Bit(n, k) \in {0, 1}
           /\ n % 2 ^ k \in 0 .. 2 ^ k - 1
           /\ n % 2 ^ (k + 1) = Bit(n, k) * 2 ^ k + (n % 2 ^ k)
<1>1. 2 ^ k \in Nat /\ 2 ^ k > 0 /\ 2 ^ (k + 1) = 2 * 2 ^ k
    BY PowerType, PowerNext
<1>2. ASSUME NEW d \in Nat, d > 0
      PROVE  /\ (n \div d) % 2 \in {0, 1} /\ n % d \in 0 .. d - 1
             /\ n % (2 * d) = ((n \div d) % 2) * d + (n % d)
  <2> DEFINE q == n \div d
             r == n % d
             h == q \div 2
             b == q % 2
  <2>1. q \in Nat /\ r \in 0 .. d - 1 /\ n = d * q + r
    BY <1>2
  <2>2. h \in Nat /\ b \in {0, 1} /\ q = 2 * h + b
    <3> HIDE DEF q
    <3> QED
      BY <2>1
  <2> HIDE DEF q, r, h, b
  <2>3. d * q = (2 * d) * h + b * d
    <3>1. d * (2 * h + b) = (2 * d) * h + b * d
      BY <2>2, <1>2
    <3> QED
      BY <2>2, <3>1
  <2>4. b * d \in {0, d}
    BY <2>2, <1>2
  <2> DEFINE rest == b * d + r
  <2>5. rest \in 0 .. 2 * d - 1
    BY <1>2, <2>1, <2>4
  <2>6. n = (2 * d) * h + rest
    <3>1. (2 * d) * h \in Int /\ b * d \in Int
      BY <1>2, <2>2, <2>4
    <3> QED
      BY <2>1, <2>3, <3>1
  <2> HIDE DEF rest
  <2>7. n % (2 * d) = rest
    <3>1. ASSUME NEW c \in Nat, NEW i \in Nat, c > 0, NEW j \in 0 .. c - 1
          PROVE  (c * i + j) % c = j
      BY <3>1
    <3>2. 2 * d \in Nat /\ 2 * d > 0
      BY <1>2
    <3> QED
      BY <2>2, <2>5, <2>6, <3>1, <3>2
  <2> QED
    BY <2>1, <2>2, <2>7 DEF rest, q, r, b
<1> QED
    BY <1>1, <1>2 DEF Bit

\* Products of squares are in the order of the bits they are called for by.
OrderedProducts(factor, k) ==
    /\ \A n \in Nat : AtMost(One, Products(factor, n)[k])
                      /\ AtMost(Products(factor, n)[k], Squares(factor)[k])
    /\ \A m, n \in Nat :
        m % 2 ^ k <= n % 2 ^ k => AtMost(Products(factor, m)[k], Products(factor, n)[k])

\* Each further bit keeps the order of the products.
LEMMA ProductsOrder ==
    ASSUME NEW factor \in Float, AtMost(One, factor), NEW k \in Nat
    PROVE  OrderedProducts(factor, k)
<1> DEFINE square == Squares(factor)
           P(n) == Products(factor, n)
           good == {i \in Nat : OrderedProducts(factor, i)}
<1>1. ASSUME NEW n \in Nat, NEW i \in Nat
      PROVE  /\ P(n)[i] \in Float /\ P(n)[0] = One
             /\ P(n)[i + 1] = IF Bit(n, i) = 0 THEN P(n)[i] ELSE Times(P(n)[i], square[i])
    BY ProductsDefined
<1>2. ASSUME NEW i \in Nat
      PROVE  /\ square[i] \in Float /\ square[i + 1] \in Float
             /\ AtMost(One, square[i]) /\ AtMost(square[i], square[i + 1])
             /\ square[i + 1] = Times(square[i], square[i])
    BY SquaresGrow, SquaresDefined
<1> HIDE DEF square, P
<1>3. 0 \in good
  <2>1. AtMost(One, One)
    BY OneIsFloat, FloatOrder
  <2> QED
    BY <1>1, <1>2, <2>1 DEF OrderedProducts, square, P
<1>4. ASSUME NEW i \in Nat, i \in good PROVE i + 1 \in good
  <2>1. /\ \A n \in Nat : AtMost(One, P(n)[i]) /\ AtMost(P(n)[i], square[i])
        /\ \A m, n \in Nat : m % 2 ^ i <= n % 2 ^ i => AtMost(P(m)[i], P(n)[i])
    BY <1>4 DEF OrderedProducts, square, P
  <2>2. ASSUME NEW n \in Nat
        PROVE  AtMost(One, P(n)[i + 1]) /\ AtMost(P(n)[i + 1], square[i + 1])
    <3>1. P(n)[i] \in Float /\ P(n)[i + 1] \in Float
      BY <1>1
    <3>2. AtMost(One, P(n)[i]) /\ AtMost(P(n)[i], square[i])
      BY <2>1
    <3>3. CASE Bit(n, i) = 0
      <4>1. P(n)[i + 1] = P(n)[i]
        BY <1>1, <3>3
      <4> QED
        BY <1>2, <3>1, <3>2, <4>1, FloatOrder
    <3>4. CASE Bit(n, i) # 0
      <4>1. P(n)[i + 1] = Times(P(n)[i], square[i])
        BY <1>1, <3>4
      <4>2. AtMost(Times(P(n)[i], square[i]), Times(square[i], square[i]))
        BY <1>2, <3>1, <3>2, TimesOrder
      <4>3. AtMost(Times(One, square[i]), Times(P(n)[i], square[i]))
        BY <1>2, <3>1, <3>2, TimesOrder, OneIsFloat
      <4>4. AtMost(square[i], P(n)[i + 1])
        BY <1>2, <4>1, <4>3, TimesOne
      <4> QED
        BY <1>2, <3>1, <4>1, <4>2, <4>4, FloatOrder, OneIsFloat
    <3> QED
      BY <3>3, <3>4
  <2>3. ASSUME NEW m \in Nat, NEW n \in Nat, m % 2 ^ (i + 1) <= n % 2 ^ (i + 1)
        PROVE  AtMost(P(m)[i + 1], P(n)[i + 1])
    <3>1. P(m)[i] \in Float /\ P(n)[i] \in Float
      BY <1>1
    <3>2. \/ Bit(m, i) = 0 /\ Bit(n, i) = 1
          \/ Bit(m, i) = Bit(n, i) /\ m % 2 ^ i <= n % 2 ^ i
      <4> DEFINE a == m % 2 ^ i
                 b == n % 2 ^ i
                 d == 2 ^ i
      <4>1. /\ Bit(m, i) \in {0, 1} /\ a \in 0 .. d - 1
            /\ m % 2 ^ (i + 1) = Bit(m, i) * d + a
        BY NextBit
      <4>2. /\ Bit(n, i) \in {0, 1} /\ b \in 0 .. d - 1
            /\ n % 2 ^ (i + 1) = Bit(n, i) * d + b
        BY NextBit
      <4>3. d \in Nat
        BY PowerType
      <4>4. Bit(m, i) * d + a <= Bit(n, i) * d + b
        BY <2>3, <4>1, <4>2
      <4> HIDE DEF a, b, d
      <4>5. /\ Bit(m, i) = 1 /\ Bit(n, i) = 0 => FALSE
            /\ Bit(m, i) = Bit(n, i) => a <= b
        BY <4>1, <4>2, <4>3, <4>4
      <4> QED
        BY <4>1, <4>2, <4>5 DEF a, b
    <3>3. CASE Bit(m, i) = 0 /\ Bit(n, i) = 1
      <4>1. P(m)[i + 1] = P(m)[i] /\ P(n)[i + 1] = Times(P(n)[i], square[i])
            /\ P(n)[i + 1] \in Float
        BY <1>1, <3>3
      <4>2. AtMost(Times(One, square[i]), Times(P(n)[i], square[i]))
        BY <1>2, <2>1, <3>1, TimesOrder, OneIsFloat
      <4>3. AtMost(P(m)[i], square[i]) /\ AtMost(square[i], P(n)[i + 1])
        BY <1>2, <2>1, <4>1, <4>2, TimesOne
      <4> QED
        BY <1>2, <3>1, <4>1, <4>3, FloatOrder
    <3>4. CASE Bit(m, i) = Bit(n, i) /\ m % 2 ^ i <= n % 2 ^ i
      <4>1. AtMost(P(m)[i], P(n)[i])
        BY <2>1, <3>4
      <4>2. AtMost(Times(P(m)[i], square[i]), Times(P(n)[i], square[i]))
        BY <1>2, <3>1, <4>1, TimesOrder
      <4> QED
        BY <1>1, <3>4, <4>1, <4>2
    <3> QED
      BY <3>2, <3>3, <3>4
  <2>4. i + 1 \in Nat
    OBVIOUS
  <2> QED
    BY <2>2, <2>3, <2>4 DEF OrderedProducts, square, P
<1> HIDE DEF good
<1>5. k \in good
    BY <1>3, <1>4, Inductive
<1> QED
    BY <1>5 DEF good

\* No bit is left past the significant ones.
LEMMA ProductsSettle ==
    ASSUME NEW factor \in Float, NEW n \in Nat, NEW k \in Nat, BitLength(n) <= k
    PROVE  Products(factor, n)[k] = Power(factor, n) /\ n % 2 ^ k = n
<1> DEFINE b == BitLength(n)
           settled == {i \in Nat : Products(factor, n)[b + i] = Power(factor, n)}
<1>1. b \in Nat /\ n < 2 ^ b
    BY BitLengthDefined
<1> HIDE DEF b
<1>2. ASSUME NEW i \in Nat PROVE n < 2 ^ (b + i) /\ 2 ^ (b + i) \in Nat
  <2>1. b + i \in Nat /\ b <= b + i
    BY <1>1
  <2>2. 2 ^ b <= 2 ^ (b + i) /\ 2 ^ b \in Nat /\ 2 ^ (b + i) \in Nat
    BY <1>1, <2>1, PowerMonotone, PowerType
  <2> QED
    BY <1>1, <2>2
<1>3. 0 \in settled
  <2>1. b + 0 = b
    BY <1>1
  <2> QED
    BY <2>1 DEF Power, b
<1>4. ASSUME NEW i \in Nat, i \in settled PROVE i + 1 \in settled
  <2>1. b + i \in Nat /\ b + (i + 1) = (b + i) + 1
    BY <1>1
  <2>2. Bit(n, b + i) = 0
    <3>1. ASSUME NEW d \in Nat, n < d PROVE (n \div d) % 2 = 0
      <4> DEFINE q == n \div d
      <4>1. q = 0
        BY <3>1
      <4> HIDE DEF q
      <4>2. q % 2 = 0
        BY <4>1
      <4> QED
        BY <4>2 DEF q
    <3> QED
      BY <1>2, <3>1 DEF Bit
  <2>3. Products(factor, n)[(b + i) + 1] = Products(factor, n)[b + i]
    BY <2>1, <2>2, ProductsDefined
  <2> QED
    BY <1>4, <2>1, <2>3
<1> HIDE DEF settled
<1>5. k - b \in Nat /\ b + (k - b) = k
    BY <1>1 DEF b
<1>6. k - b \in settled
    BY <1>3, <1>4, <1>5, Inductive
<1>7. n < 2 ^ k /\ 2 ^ k \in Nat
    BY <1>2, <1>5
<1> QED
    BY <1>5, <1>6, <1>7 DEF settled

\* The powers of a factor of at least one grow, although each is rounded many times.
LEMMA PowersGrow ==
    ASSUME NEW factor \in Float, AtMost(One, factor), NEW m \in Nat, NEW n \in Nat, m <= n
    PROVE  AtMost(Power(factor, m), Power(factor, n))
<1> DEFINE k == BitLength(m) + BitLength(n)
<1>1. k \in Nat /\ BitLength(m) <= k /\ BitLength(n) <= k
    BY BitLengthDefined
<1> HIDE DEF k
<1>2. /\ Products(factor, m)[k] = Power(factor, m) /\ m % 2 ^ k = m
      /\ Products(factor, n)[k] = Power(factor, n) /\ n % 2 ^ k = n
    BY <1>1, ProductsSettle
<1>3. OrderedProducts(factor, k)
    BY <1>1, ProductsOrder
<1> QED
    BY <1>2, <1>3 DEF OrderedProducts
-----------------------------------------------------------------------------
(* The order of windows *)

\* A factor that an option may have is at least one.
LEMMA FactorsAreGreat ==
    ASSUME NEW f \in Factors
    PROVE  f \in Float /\ AtMost(One, f)
<1>1. f \in Float /\ f.exp \in 1 - SignificandBits .. MaxExponent
    BY OptionAssumption
<1>2. One.sig = Least /\ One.exp = 1 - SignificandBits
    BY DEF One, Least
<1>3. f.exp \in Int /\ 1 - SignificandBits <= f.exp
    BY <1>1, SignificandFacts, WidthAssumption
<1> QED
    BY <1>1, <1>2, <1>3, FloatParts, SignificandFacts DEF AtMost

\* What is rounded up, in units that both powers are whole numbers of.
LEMMA RoundsScaled ==
    ASSUME NEW w \in Nat, NEW t \in Nat, t > 0, NEW p \in Float, Rounds(w, t, p),
           NEW k \in Nat, k + p.exp >= 0
    PROVE  /\ 2 ^ (k + p.exp) \in Nat /\ 2 ^ (k + p.exp) > 0
           /\ t * p.sig * 2 ^ (k + p.exp) <= w * 2 ^ k
           /\ (w - 1) * 2 ^ k < t * p.sig * 2 ^ (k + p.exp)
<1>1. p.exp \in Int /\ p.sig \in Nat /\ k + p.exp \in Nat
    BY FloatParts
<1>2. 2 ^ k \in Nat /\ 2 ^ k > 0 /\ 2 ^ (k + p.exp) \in Nat /\ 2 ^ (k + p.exp) > 0
    BY <1>1, PowerType
<1> DEFINE exact == t * p.sig
<1>3. exact \in Nat
    BY <1>1
<1>4. CASE p.exp >= 0
  <2> DEFINE up == 2 ^ p.exp
  <2>1. p.exp \in Nat /\ up \in Nat /\ 2 ^ (k + p.exp) = 2 ^ k * up
    BY <1>1, <1>4, PowerType, PowerSum, SMTT(60)
  <2>2. (IF p.exp > 0 THEN 2 ^ p.exp ELSE 1) = up /\ (IF p.exp < 0 THEN 2 ^ (-p.exp) ELSE 1) = 1
    <3>1. p.exp = 0 => up = 1
      OBVIOUS
    <3> QED
      BY <1>1, <1>4, <3>1
  <2>3. exact * up <= w * 1 /\ (w - 1) * 1 < exact * up
    BY <2>2 DEF Rounds
  <2> HIDE DEF exact, up
  <2>4. ASSUME NEW a \in Nat, NEW d \in Nat, d > 0, a <= w * 1, (w - 1) * 1 < a
        PROVE  a * d <= w * d /\ (w - 1) * d < a * d
    BY <2>4
  <2>5. exact * up \in Nat /\ (exact * up) * 2 ^ k = exact * (2 ^ k * up)
    BY <1>2, <1>3, <2>1
  <2> QED
    BY <1>2, <2>1, <2>3, <2>4, <2>5 DEF exact
<1>5. CASE p.exp < 0
  <2> DEFINE down == 2 ^ (-p.exp)
             up == 2 ^ (k + p.exp)
  <2>1. -p.exp \in Nat /\ (k + p.exp) + (-p.exp) = k
    BY <1>1, <1>5
  <2>2. down \in Nat /\ 2 ^ k = up * down
    BY <1>1, <2>1, PowerType, PowerSum
  <2>3. (IF p.exp > 0 THEN 2 ^ p.exp ELSE 1) = 1 /\ (IF p.exp < 0 THEN 2 ^ (-p.exp) ELSE 1) = down
    BY <1>1, <1>5
  <2>4. exact * 1 <= w * down /\ (w - 1) * down < exact * 1
    BY <2>3 DEF Rounds
  <2> HIDE DEF exact, up, down
  <2>5. ASSUME NEW u \in Nat, u > 0, NEW a \in Nat, NEW b \in Nat, NEW c \in Int,
               a * 1 <= b, c < a * 1
        PROVE  a * u <= b * u /\ c * u < a * u
    BY <2>5
  <2>6. /\ w * down \in Nat /\ (w - 1) * down \in Int
        /\ (w * down) * up = w * (up * down)
        /\ ((w - 1) * down) * up = (w - 1) * (up * down)
    BY <1>2, <2>2, SMTT(60) DEF up
  <2> QED
    BY <1>2, <1>3, <2>2, <2>4, <2>5, <2>6 DEF exact, up
<1> QED
    BY <1>1, <1>2, <1>4, <1>5

\* The greater the power, the longer the window.
LEMMA RoundsOrder ==
    ASSUME NEW v \in Nat, NEW w \in Nat, NEW t \in Nat, t > 0, NEW p \in Float, NEW q \in Float,
           AtMost(p, q), Rounds(v, t, p), Rounds(w, t, q)
    PROVE  v <= w
<1>1. /\ p.exp \in Int /\ p.sig \in Nat /\ q.exp \in Int /\ q.sig \in Nat /\ p.exp <= q.exp
      /\ p.sig < 2 * q.sig
  <2>1. /\ p.exp \in Int /\ p.sig \in Nat /\ q.exp \in Int /\ q.sig \in Nat /\ p.exp <= q.exp
        /\ p.sig < Past /\ Least <= q.sig
    BY FloatParts DEF AtMost
  <2> QED
    BY <2>1, SignificandFacts
<1>2. PICK k \in Nat : k + p.exp >= 0 /\ k + q.exp >= 0
  <2>1. CASE p.exp >= 0
    BY <1>1, <2>1
  <2>2. CASE p.exp < 0
    <3>1. -p.exp \in Nat /\ -p.exp + p.exp >= 0 /\ -p.exp + q.exp >= 0
      BY <1>1, <2>2
    <3> QED
      BY <3>1
  <2> QED
    BY <1>1, <2>1, <2>2
<1> DEFINE a == 2 ^ (k + p.exp)
           b == 2 ^ (k + q.exp)
           d == 2 ^ k
<1>3. a \in Nat /\ a > 0 /\ (v - 1) * d < t * p.sig * a
    BY <1>2, RoundsScaled
<1>4. b \in Nat /\ b > 0 /\ t * q.sig * b <= w * d
    BY <1>2, RoundsScaled
<1>5. d \in Nat /\ d > 0
    BY PowerType
<1>6. k + p.exp \in Nat /\ k + q.exp \in Nat
    BY <1>1, <1>2
<1>7. p.sig * a <= q.sig * b
  <2>1. CASE p.exp = q.exp
    <3>1. a = b /\ p.sig <= q.sig
      BY <1>1, <2>1 DEF AtMost
    <3> HIDE DEF a, b
    <3> QED
      BY <1>1, <1>3, <3>1
  <2>2. CASE p.exp # q.exp
    <3>1. k + p.exp < k + q.exp /\ k + p.exp <= k + q.exp
      BY <1>1, <2>2
    <3>2. 2 * a <= b
      BY <1>6, <3>1, PowerMonotone
    <3> HIDE DEF a, b
    <3>3. p.sig * a <= (2 * q.sig) * a /\ (2 * q.sig) * a = q.sig * (2 * a)
      BY <1>1, <1>3
    <3>4. q.sig * (2 * a) <= q.sig * b
      BY <1>1, <1>3, <1>4, <3>2
    <3>5. {p.sig * a, q.sig * (2 * a), q.sig * b} \subseteq Nat
      BY <1>1, <1>3, <1>4
    <3> QED
      BY <3>3, <3>4, <3>5
  <2> QED
    BY <2>1, <2>2
<1> HIDE DEF a, b, d
<1>8. /\ t * p.sig * a = t * (p.sig * a) /\ t * q.sig * b = t * (q.sig * b)
      /\ t * (p.sig * a) <= t * (q.sig * b)
  <2>1. p.sig * a \in Nat /\ q.sig * b \in Nat
    BY <1>1, <1>3, <1>4
  <2>2. t * p.sig * a = t * (p.sig * a) /\ t * q.sig * b = t * (q.sig * b)
    BY <1>1, <1>3, <1>4
  <2>3. ASSUME NEW i \in Nat, NEW j \in Nat, i <= j PROVE t * i <= t * j
    BY <2>3
  <2> QED
    BY <1>7, <2>1, <2>2, <2>3
<1>9. (v - 1) * d < w * d
  <2>1. t * (p.sig * a) \in Int /\ t * (q.sig * b) \in Int /\ (v - 1) * d \in Int /\ w * d \in Int
    BY <1>1, <1>3, <1>4, <1>5
  <2> QED
    BY <1>3, <1>4, <1>8, <2>1
<1>10. ASSUME w < v PROVE FALSE
  <2>1. w <= v - 1
    BY <1>10
  <2>2. w * d <= (v - 1) * d
    BY <1>5, <2>1
  <2> QED
    BY <1>5, <1>9, <2>2
<1> QED
    BY <1>10

\* What is computed is a number, or refused.
LEMMA ScaledType ==
    ASSUME NEW t \in Nat, NEW p \in Float
    PROVE  MulCeil(t, p) \in Nat \cup {None}
<1> DEFINE product == t * p.sig
<1>1. product \in Nat /\ p.exp \in Int /\ WordBits \in Nat /\ 2 ^ WordBits \in Nat /\ 2 ^ WordBits > 0
    BY FloatParts, WidthAssumption, PowerType
<1>2. p.exp >= 0 => 2 ^ p.exp \in Nat
    BY <1>1, PowerType
<1>3. p.exp < 0 => 2 ^ (-p.exp) \in Nat /\ 2 ^ (-p.exp) > 0
    BY <1>1, PowerType
<1> HIDE DEF product
<1>4. p.exp >= 0 => (product * 2 ^ p.exp) % 2 ^ WordBits \in Nat
  <2>1. ASSUME NEW a \in Nat, NEW b \in Nat, NEW c \in Nat, c > 0 PROVE (a * b) % c \in Nat
    BY <2>1
  <2> QED
    BY <1>1, <1>2, <2>1
<1>5. p.exp < 0 => CeilDiv(product, 2 ^ (-p.exp)) \in Nat
    BY <1>1, <1>3, CeilDivIsCeiling
<1> QED
    BY <1>1, <1>4, <1>5 DEF MulCeil, product

\* Two windows that are computed are in the order of their rounds.
LEMMA ScaledGrows ==
    ASSUME NoBitShiftedOut, NEW t \in Timeouts, NEW f \in Factors, NEW attempts \in Attempts,
           NEW r \in 0 .. attempts - 1, NEW s \in 0 .. attempts - 1, r <= s,
           Scaled(t, f, r) # None, Scaled(t, f, s) # None
    PROVE  Scaled(t, f, r) <= Scaled(t, f, s)
<1>1. t \in Nat /\ r \in Nat /\ s \in Nat
  <2>1. Timeouts \subseteq 0 .. DurationMax /\ DurationMax \in Nat /\ attempts \in Nat
    BY OptionAssumption, WidthAssumption
  <2> QED
    BY <2>1
<1>2. f \in Float /\ AtMost(One, f)
    BY FactorsAreGreat
<1> DEFINE p == Power(f, r)
           q == Power(f, s)
<1>3. p \in Float /\ q \in Float /\ AtMost(p, q)
    BY <1>1, <1>2, PowerIsFloat, PowersGrow
<1>4. Rounds(Scaled(t, f, r), t, p) /\ Rounds(Scaled(t, f, s), t, q)
    BY ScaledRounds
<1> HIDE DEF p, q
<1>5. Scaled(t, f, r) \in Nat /\ Scaled(t, f, s) \in Nat
  <2>1. MulCeil(t, p) \in Nat \cup {None} /\ MulCeil(t, q) \in Nat \cup {None}
    BY <1>1, <1>3, ScaledType
  <2> QED
    BY <1>1, <2>1 DEF Scaled, DurationFrom, p, q
<1>6. CASE t = 0
    BY <1>6 DEF Scaled
<1>7. CASE t > 0
    BY <1>1, <1>3, <1>4, <1>5, <1>7, RoundsOrder
<1> QED
    BY <1>1, <1>6, <1>7

\* Unless bits drop out of the word, a later round never listens for less time than an
\* earlier one: the rounding of powi, of the product and of its quotient keep the order.
THEOREM LaterWindowsAreLonger ==
    ASSUME NoBitShiftedOut
    PROVE  Spec => []WindowsNeverShrink
<1>1. TimingInv => WindowsNeverShrink
  <2> SUFFICES ASSUME TimingInv, NEW r \in DOMAIN window, NEW s \in DOMAIN window,
                      r < s, window[r] # None, window[s] # None
               PROVE  window[r] <= window[s]
    BY DEF WindowsNeverShrink
  <2>1. /\ request.timeout \in Timeouts /\ request.factor \in Factors
        /\ request.attempts \in Attempts
        /\ r \in 0 .. request.attempts - 1 /\ s \in 0 .. request.attempts - 1
        /\ window[r] = Scaled(request.timeout, request.factor, r)
        /\ window[s] = Scaled(request.timeout, request.factor, s)
    BY DEF TimingInv, Requests
  <2>2. r <= s
    BY <2>1
  <2> QED
    BY <2>1, <2>2, ScaledGrows
<1> QED
    BY <1>1, TimingInit, TimingNext, PTL DEF Spec
-----------------------------------------------------------------------------
(* Validation *)

\* A timeout times a significand fits the word: with 128 and 53 bits, every timeout of
\* less than 2 ^ 75 nanoseconds.
ProductsFit == \A timeout \in Timeouts : timeout * Past <= 2 ^ WordBits

\* A round before one that can be computed can be computed.
LEMMA EarlierFits ==
    ASSUME NoBitShiftedOut, ProductsFit, NEW t \in Timeouts, NEW f \in Factors,
           NEW attempts \in Attempts, NEW r \in 0 .. attempts - 1, NEW s \in 0 .. attempts - 1,
           r <= s, Scaled(t, f, s) # None
    PROVE  Scaled(t, f, r) # None
<1>1. /\ t \in Nat /\ r \in Nat /\ s \in Nat
      /\ {WordBits, MaxPower, MaxExponent, DurationMax} \subseteq Nat /\ WordBits > 0
  <2>1. /\ Timeouts \subseteq 0 .. DurationMax /\ attempts \in Nat
        /\ {WordBits, MaxPower, MaxExponent, DurationMax} \subseteq Nat /\ WordBits # 0
    BY OptionAssumption, WidthAssumption
  <2> QED
    BY <2>1
<1>2. f \in Float /\ AtMost(One, f)
    BY FactorsAreGreat
<1> DEFINE p == Power(f, r)
           q == Power(f, s)
           Safe(x) == x.exp \in 0 .. WordBits - 1 /\ t * x.sig < 2 ^ WordBits
                        => t * x.sig * 2 ^ x.exp < 2 ^ WordBits
<1>3. p \in Float /\ q \in Float /\ AtMost(p, q)
    BY <1>1, <1>2, PowerIsFloat, PowersGrow
<1>4. Safe(p) /\ Safe(q)
    BY DEF NoBitShiftedOut
<1> HIDE DEF p, q
<1>5. CASE r = 0 \/ t = 0 \/ f = One
    BY <1>1, <1>5 DEF Scaled, None
<1>6. CASE r # 0 /\ t # 0 /\ f # One
  <2>1. s # 0 /\ s <= MaxPower /\ q.exp <= MaxExponent /\ MulCeil(t, q) # None
        /\ MulCeil(t, q) <= DurationMax
    <3>1. /\ s # 0 /\ ~(s > MaxPower) /\ IsFinite(q) /\ MulCeil(t, q) # None
          /\ DurationFrom(MulCeil(t, q)) # None
      BY <1>1, <1>6 DEF Scaled, q
    <3> QED
      BY <1>1, <3>1 DEF IsFinite, DurationFrom
  <2>2. /\ p.exp \in Int /\ q.exp \in Int /\ p.exp <= q.exp /\ p.exp <= MaxExponent
        /\ r <= MaxPower
    BY <1>1, <1>3, <2>1, FloatParts DEF AtMost
  <2>3. q.exp < WordBits
    <3>1. CASE q = One
      <4>1. q.exp = 1 - SignificandBits
        BY <3>1 DEF One
      <4> QED
        BY <1>1, <4>1, SignificandFacts
    <3>2. CASE q # One
      BY <1>1, <1>6, <2>1, <2>2, <3>2 DEF MulCeil
    <3> QED
      BY <3>1, <3>2
  <2>4. t * p.sig < 2 ^ WordBits /\ 2 ^ WordBits \in Nat /\ t * p.sig \in Nat
    <3>1. p.sig \in Nat /\ p.sig < Past /\ Past \in Nat /\ t > 0
      BY <1>1, <1>3, <1>6, FloatParts, SignificandFacts
    <3>2. t * p.sig < t * Past /\ t * p.sig \in Nat /\ t * Past \in Nat
      BY <1>1, <3>1
    <3>3. t * Past <= 2 ^ WordBits /\ 2 ^ WordBits \in Nat
      BY <1>1, PowerType DEF ProductsFit
    <3> QED
      BY <3>2, <3>3
  <2>5. MulCeil(t, p) # None
    <3>1. ~(t * p.sig >= 2 ^ WordBits) /\ ~(p.exp >= WordBits)
      BY <1>1, <2>2, <2>3, <2>4
    <3>2. p.exp >= 0 => (t * p.sig * 2 ^ p.exp) % 2 ^ WordBits \in Nat
      <4>1. ASSUME p.exp >= 0
            PROVE  2 ^ p.exp \in Nat /\ 2 ^ WordBits > 0
        BY <1>1, <2>2, <4>1, PowerType
      <4>2. ASSUME NEW a \in Nat, NEW b \in Nat, NEW c \in Nat, c > 0 PROVE (a * b) % c \in Nat
        BY <4>2
      <4> QED
        BY <2>4, <4>1, <4>2
    <3>3. p.exp < 0 => CeilDiv(t * p.sig, 2 ^ (-p.exp)) \in Nat
      <4>1. ASSUME p.exp < 0
            PROVE  2 ^ (-p.exp) \in Nat /\ 2 ^ (-p.exp) > 0
        <5>1. -p.exp \in Nat
          BY <2>2, <4>1
        <5> QED
          BY <5>1, PowerType
      <4> QED
        BY <2>4, <4>1, CeilDivIsCeiling
    <3> QED
      BY <1>1, <2>2, <3>1, <3>2, <3>3 DEF MulCeil, None
  <2>6. Rounds(MulCeil(t, p), t, p) /\ Rounds(MulCeil(t, q), t, q)
    BY <1>1, <1>3, <1>4, <2>1, <2>5, MulCeilRounds
  <2>7. MulCeil(t, p) \in Nat /\ MulCeil(t, q) \in Nat
    BY <1>1, <1>3, <2>1, <2>5, ScaledType
  <2>8. MulCeil(t, p) <= MulCeil(t, q)
    BY <1>1, <1>3, <1>6, <2>6, <2>7, RoundsOrder
  <2>9. MulCeil(t, p) <= DurationMax
    BY <1>1, <2>1, <2>7, <2>8
  <2>10. Scaled(t, f, r) = MulCeil(t, p)
    <3>1. ~(r > MaxPower) /\ IsFinite(p)
      BY <1>1, <2>2 DEF IsFinite
    <3> QED
      BY <1>6, <2>5, <2>9, <3>1 DEF Scaled, DurationFrom, p
  <2> QED
    BY <2>5, <2>10
<1> QED
    BY <1>5, <1>6

\* An accepted schedule was tried on its last round, and has not failed.
FitInv ==
    /\ phase = "accepted" => Scaled(request.timeout, request.factor, LastRound) # None
    /\ AcceptedScheduleFits

\* Where products fit and no bits drop out of the word, the validation of the last window
\* (validate_scan_timing_before_socket) is enough for all rounds: no accepted scan fails
\* when it computes an earlier one, as scan_timing.rs:180-181 says.
THEOREM LastRoundIsEnough ==
    ASSUME NoBitShiftedOut, ProductsFit
    PROVE  Spec => []AcceptedScheduleFits
<1>1. Init => FitInv
    BY DEF Init, FitInv, AcceptedScheduleFits
<1>2. TimingInv /\ FitInv /\ [Next]_vars => FitInv'
  <2> SUFFICES ASSUME TimingInv, FitInv, [Next]_vars PROVE FitInv'
    OBVIOUS
  <2>1. request' = request /\ LastRound' = LastRound
    BY DEF Next, vars, Accept, Reject, ComputeWindow, Finish, Settled, LastRound
  <2>2. CASE ComputeWindow
    <3>1. PICK r \in DOMAIN window :
              phase' = IF Scaled(request.timeout, request.factor, r) = None
                       THEN "failed" ELSE "accepted"
      BY <2>2 DEF ComputeWindow, NextRounds
    <3>2. Scaled(request.timeout, request.factor, LastRound) # None
      BY <2>2 DEF ComputeWindow, FitInv
    <3>3. /\ request.timeout \in Timeouts /\ request.factor \in Factors
          /\ request.attempts \in Attempts /\ r \in 0 .. request.attempts - 1
      BY DEF TimingInv, Requests
    <3>4. request.attempts \in Nat /\ request.attempts # 0
      BY <3>3, OptionAssumption
    <3>5. LastRound \in 0 .. request.attempts - 1 /\ r <= LastRound
      BY <3>3, <3>4 DEF LastRound
    <3>6. Scaled(request.timeout, request.factor, r) # None
      BY <3>2, <3>3, <3>5, EarlierFits
    <3> QED
      BY <2>1, <3>1, <3>2, <3>6 DEF FitInv, AcceptedScheduleFits
  <2>3. CASE Accept
    BY <2>1, <2>3 DEF Accept, FitInv, AcceptedScheduleFits
  <2>4. CASE Reject \/ Finish
    BY <2>1, <2>4 DEF Reject, Finish, FitInv, AcceptedScheduleFits
  <2>5. CASE UNCHANGED vars
    BY <2>1, <2>5 DEF vars, FitInv, AcceptedScheduleFits
  <2> QED
    BY <2>2, <2>3, <2>4, <2>5 DEF Next, Settled
<1>3. FitInv => AcceptedScheduleFits
    BY DEF FitInv
<1> QED
    BY <1>1, <1>2, <1>3, TimingInit, TimingNext, PTL DEF Spec
=============================================================================
