-------------------------- MODULE ScanCommandProofs --------------------------
(***************************************************************************)
(* For every width of addresses, every command line and set of interfaces, *)
(* and any number of changes and failures.                                 *)
(*                                                                         *)
(* What is planned is what the reference says, an address and a mask being *)
(* the sums of their bits: a mask passes the code's test of contiguity     *)
(* exactly when it is a prefix, and then the bits common to address and    *)
(* mask are the address of the subnet.  The run keeps to its types.  The   *)
(* endpoint and the addresses of a run belong to one name: the argument    *)
(* follows the system calls, each of which is answered at the last moment  *)
(* of the history so far, so in the order in which they are asked; on      *)
(* macOS what the list of records is classified to is what was true of the *)
(* name when it was read.  What the parser accepts is not refused later.   *)
(* While the interfaces stay as they are, a run ends as the interfaces     *)
(* say, or, after calls that failed, with at most as many of them unseen.  *)
(***************************************************************************)
EXTENDS ScanCommand, LibraryLemmas

-----------------------------------------------------------------------------
(* The plan *)

\* The hosts an iterator yields are the addresses up to the last, each once.
LEMMA HostsAreInterval ==
    ASSUME NEW first \in Int, NEW last \in Int, first <= last
    PROVE  /\ Hosts(first, last) \in Seq(Int)
           /\ Len(Hosts(first, last)) = last - first + 1
           /\ Range(Hosts(first, last)) = first .. last
           /\ IsInjective(Hosts(first, last))
<1> DEFINE h == Hosts(first, last)
<1>1. h = [i \in 1 .. last - first + 1 |-> first + i - 1] /\ last - first + 1 \in Nat
    BY DEF Hosts
<1>2. h \in Seq(Int) /\ Len(h) = last - first + 1 /\ DOMAIN h = 1 .. last - first + 1
    BY <1>1
<1>3. Range(h) = first .. last
  <2>1. ASSUME NEW a \in first .. last PROVE a \in Range(h)
    <3>1. a - first + 1 \in DOMAIN h /\ h[a - first + 1] = a
        BY <1>1, <1>2
    <3> QED
        BY <3>1 DEF Range
  <2>2. ASSUME NEW a \in Range(h) PROVE a \in first .. last
    <3>1. PICK i \in DOMAIN h : a = h[i]
        BY DEF Range
    <3> QED
        BY <3>1, <1>1, <1>2
  <2> QED
    BY <2>1, <2>2
<1>4. IsInjective(h)
    BY <1>1, <1>2 DEF IsInjective
<1> QED
    BY <1>2, <1>3, <1>4

\* What a full scan probes (ipv4_scan_target_address_sequence) is what it accepts as a
\* sender (ArpReplyAcceptance), each once: the hosts inside the subnet and the interface
\* itself, also where it has the address of the network or of the broadcast.
THEOREM TargetsAreAcceptedSenders ==
    ASSUME NEW source \in Int, NEW network \in Int, NEW broadcast \in Int,
           network + 1 <= broadcast - 1
    PROVE  /\ Range(Targets(source, network, broadcast))
              = {a \in Int : Accepts(SubnetScope(source, network, broadcast), a)}
           /\ IsInjective(Targets(source, network, broadcast))
<1> DEFINE h == Hosts(network + 1, broadcast - 1)
           accepted == {a \in Int : Accepts(SubnetScope(source, network, broadcast), a)}
<1>1. h \in Seq(Int) /\ Range(h) = network + 1 .. broadcast - 1 /\ IsInjective(h)
    BY HostsAreInterval
<1>2. accepted = (network + 1 .. broadcast - 1) \cup {source}
    BY DEF Accepts, SubnetScope, StrictlyInside
<1>3. CASE StrictlyInside(source, network, broadcast)
    BY <1>1, <1>2, <1>3 DEF Targets, StrictlyInside
<1>4. CASE ~StrictlyInside(source, network, broadcast)
  <2> HIDE DEF h
  <2>1. source \notin Range(h) /\ Targets(source, network, broadcast) = Append(h, source)
    BY <1>1, <1>4 DEF Targets, StrictlyInside, h
  <2>2. /\ DOMAIN Append(h, source) = 1 .. Len(h) + 1
        /\ \A i \in 1 .. Len(h) : Append(h, source)[i] = h[i]
        /\ Append(h, source)[Len(h) + 1] = source
        /\ DOMAIN h = 1 .. Len(h) /\ Len(h) \in Nat
    BY <1>1
  <2>3. Range(Append(h, source)) = Range(h) \cup {source}
    BY <2>2 DEF Range
  <2>4. IsInjective(Append(h, source))
    BY <1>1, <2>1, <2>2 DEF IsInjective, Range
  <2> QED
    BY <1>1, <1>2, <2>1, <2>3, <2>4
<1> QED
    BY <1>3, <1>4
-----------------------------------------------------------------------------
(* Bits *)

\* What the sums of bits are numbers of.
Total == Nat

\* Totals may be defined by a step from each to the next, which depends on its place.
LEMMA TotalRecursion ==
    \A first \in Total : \A step \in [Nat -> [Total -> Total]] :
        \E f \in [Nat -> Total] : f[0] = first /\ \A k \in Nat : f[k + 1] = step[k][f[k]]
BY Recursion

\* A number of one bit more is its low bits and, where the bit is set, a power of two.
LEMMA BitSplits ==
    ASSUME NEW a \in Nat, NEW n \in Nat
    PROVE  /\ Bit(a, n) \in {0, 1}
           /\ a % 2 ^ (n + 1) = (a % 2 ^ n) + 2 ^ n * Bit(a, n)
<1>1. 2 ^ n \in Nat /\ 2 ^ n > 0 /\ 2 ^ (n + 1) = 2 * 2 ^ n
    BY PowerType, PowerNext
<1>2. ASSUME NEW p \in Nat, p > 0
      PROVE  /\ (a \div p) % 2 \in {0, 1}
             /\ a % (2 * p) = (a % p) + p * ((a \div p) % 2)
  <2> DEFINE q == a \div p
             r == a % p
             s == q \div 2
             t == q % 2
  <2>1. a = p * q + r /\ r \in 0 .. p - 1 /\ q \in Nat
    BY <1>2
  <2>2. q = 2 * s + t /\ t \in {0, 1} /\ s \in Nat
    BY <2>1
  <2> HIDE DEF q, r, s, t
  <2>3. p * q = (2 * p) * s + p * t
    BY <2>1, <2>2, <1>2
  <2>4. a = (2 * p) * s + (p * t + r) /\ p * t + r \in 0 .. 2 * p - 1
    BY <2>1, <2>2, <2>3, <1>2
  <2>5. ASSUME NEW u \in Nat, NEW m \in Nat, m > 0, u \in 0 .. m - 1
        PROVE  (m * s + u) % m = u
    BY <2>2, <2>5
  <2>6. a % (2 * p) = p * t + r
    <3> DEFINE m == 2 * p
    <3>1. m \in Nat /\ m > 0
      BY <1>2
    <3>2. p * t + r \in Nat /\ p * t + r \in 0 .. m - 1
      BY <2>1, <2>2, <2>4, <1>2
    <3>3. (m * s + (p * t + r)) % m = p * t + r
      <4> HIDE DEF m
      <4> QED
        BY <3>1, <3>2, <2>5
    <3> QED
      BY <2>4, <3>3
  <2> QED
    BY <2>2, <2>6, <2>1, <1>2 DEF q, r, t
<1> QED
    BY <1>1, <1>2 DEF Bit

\* And adds up its bits from the low ones.
LEMMA AndDefined ==
    ASSUME NEW a \in Nat, NEW b \in Nat
    PROVE  \E low \in [Nat -> Nat] :
              /\ low[0] = 0
              /\ \A n \in Nat : low[n + 1] = low[n] + 2 ^ n * (Bit(a, n) * Bit(b, n))
              /\ And(a, b) = low[Width]
<1> DEFINE bits(n) == 2 ^ n * (Bit(a, n) * Bit(b, n))
           step == [n \in Nat |-> [x \in Total |-> x + bits(n)]]
           IsLow(f) == f = [n \in 0 .. Width |-> IF n = 0 THEN 0 ELSE f[n - 1] + bits(n - 1)]
           low == CHOOSE f : IsLow(f)
<1>1. \A n \in Nat : bits(n) \in Nat
  <2>1. ASSUME NEW n \in Nat PROVE bits(n) \in Nat
    <3>1. 2 ^ n \in Nat /\ Bit(a, n) \in {0, 1} /\ Bit(b, n) \in {0, 1}
      BY BitSplits, PowerType
    <3> QED
      BY <3>1
  <2> QED
    BY <2>1
<1>2. 0 \in Total /\ step \in [Nat -> [Total -> Total]]
    BY <1>1 DEF Total
<1>3. PICK f \in [Nat -> Total] : f[0] = 0 /\ \A n \in Nat : f[n + 1] = step[n][f[n]]
  <2> HIDE DEF step
  <2> QED
    BY <1>2, TotalRecursion
<1>4. f \in [Nat -> Nat] /\ \A n \in Nat : f[n + 1] = f[n] + bits(n)
    BY <1>1, <1>3 DEF Total
<1>5. Width \in Nat
    BY WidthAssumption
<1>6. And(a, b) = low[Width]
    BY DEF And
<1>7. IsLow([n \in 0 .. Width |-> f[n]])
  <2> HIDE DEF bits
  <2>1. ASSUME NEW n \in 0 .. Width, n # 0 PROVE f[n] = f[n - 1] + bits(n - 1) /\ n - 1 \in 0 .. Width
    <3>1. n - 1 \in Nat /\ (n - 1) + 1 = n
      BY <1>5, <2>1
    <3> QED
      BY <3>1, <1>4, <1>5
  <2> QED
    BY <1>3, <2>1
<1> HIDE DEF bits
<1>8. IsLow(low)
  <2> DEFINE g == [n \in 0 .. Width |-> f[n]]
  <2> HIDE DEF g, low, IsLow
  <2>1. IsLow(g)
    BY <1>7 DEF g
  <2> QED
    BY <2>1 DEF low
<1> HIDE DEF low
<1>9. low[0] = 0 /\ \A n \in 0 .. Width : n # 0 => low[n] = low[n - 1] + bits(n - 1)
    BY <1>8, <1>5
<1> HIDE DEF IsLow
<1> DEFINE same == {n \in Nat : n <= Width => low[n] = f[n]}
<1>10. 0 \in same
    BY <1>3, <1>9
<1>11. ASSUME NEW n \in Nat, n \in same PROVE n + 1 \in same
  <2> SUFFICES ASSUME n + 1 <= Width PROVE low[n + 1] = f[n + 1]
    OBVIOUS
  <2>1. n + 1 \in 0 .. Width /\ n + 1 # 0 /\ (n + 1) - 1 = n /\ n <= Width
    BY <1>5
  <2>2. low[n + 1] = low[n] + bits(n)
    BY <1>9, <2>1
  <2> QED
    BY <2>1, <2>2, <1>4, <1>11
<1>12. Nat \subseteq same
  <2> HIDE DEF same
  <2> QED
    BY <1>10, <1>11, Inductive
<1>13. low[Width] = f[Width]
    BY <1>5, <1>12
<1> QED
    BY <1>3, <1>4, <1>6, <1>13 DEF bits

\* Division by m of m * q + u, with u below m.
LEMMA Division ==
    ASSUME NEW m \in Nat, m > 0, NEW q \in Nat, NEW u \in 0 .. m - 1
    PROVE  (m * q + u) \div m = q /\ (m * q + u) % m = u
OBVIOUS

\* A prefix of p ones is a number of Width bits, of which the first p are ones.
LEMMA MaskBits ==
    ASSUME NEW p \in 0 .. Width
    PROVE  /\ PrefixMask(p) \in Address
           /\ \A i \in Bits : Bit(PrefixMask(p), i) = IF i >= Width - p THEN 1 ELSE 0
<1> DEFINE k == Width - p
           mask == PrefixMask(p)
<1>1. Width \in Nat /\ k \in Nat /\ p \in Nat /\ k + p = Width
    BY WidthAssumption
<1>2. mask = 2 ^ Width - 2 ^ k
    BY DEF PrefixMask
<1>3. /\ 2 ^ k \in Nat /\ 2 ^ p \in Nat /\ 2 ^ Width \in Nat
      /\ 2 ^ k > 0 /\ 2 ^ p > 0 /\ 2 ^ k <= 2 ^ Width
    BY <1>1, PowerType, PowerMonotone
<1>4. mask \in Address
    BY <1>2, <1>3 DEF Address
<1>5. ASSUME NEW i \in Bits, i < k PROVE Bit(mask, i) = 0
  <2> DEFINE j == (k - i) - 1
             y == 2 ^ j * (2 ^ p - 1)
  <2>1. i \in Nat /\ j \in Nat /\ k = i + (j + 1)
    BY <1>1, <1>5 DEF Bits
  <2>2. 2 ^ i \in Nat /\ 2 ^ i > 0 /\ 2 ^ j \in Nat
    BY <2>1, PowerType
  <2>3. 2 ^ k = 2 ^ i * (2 * 2 ^ j) /\ 2 ^ Width = 2 ^ k * 2 ^ p
    <3>1. 2 ^ k = 2 ^ i * 2 ^ (j + 1) /\ 2 ^ (j + 1) = 2 * 2 ^ j
      <4>1. j + 1 \in Nat
        BY <2>1
      <4> HIDE DEF j, k
      <4> QED
        BY <2>1, <4>1, PowerSum, PowerNext
    <3>2. 2 ^ Width = 2 ^ k * 2 ^ p
      <4> HIDE DEF k
      <4> QED
        BY <1>1, PowerSum
    <3> QED
      BY <3>1, <3>2
  <2> HIDE DEF j
  <2>4. y \in Nat /\ mask = 2 ^ i * (2 * y) + 0
    <3> HIDE DEF mask, k
    <3> QED
      BY <1>2, <1>3, <2>2, <2>3
  <2>5. mask \div 2 ^ i = 2 * y
    <3>1. 2 * y \in Nat /\ 0 \in 0 .. 2 ^ i - 1
      BY <2>2, <2>4
    <3> HIDE DEF y, mask
    <3> QED
      BY <3>1, <2>2, <2>4, Division
  <2> HIDE DEF y, mask
  <2> QED
    BY <2>4, <2>5 DEF Bit
<1>6. ASSUME NEW i \in Bits, i >= k PROVE Bit(mask, i) = 1
  <2> DEFINE j == (Width - i) - 1
             z == 2 ^ j
  <2>1. i \in Nat /\ j \in Nat /\ Width = i + (j + 1)
    BY <1>1, <1>6 DEF Bits
  <2>2. 2 ^ i \in Nat /\ 2 ^ i > 0 /\ z \in Nat /\ z > 0 /\ 2 ^ k <= 2 ^ i
    BY <1>1, <1>6, <2>1, PowerType, PowerMonotone
  <2>3. 2 ^ Width = 2 ^ i * (2 * z)
    <3>1. j + 1 \in Nat
      BY <2>1
    <3> HIDE DEF j
    <3> QED
      BY <2>1, <3>1, PowerSum, PowerNext
  <2> HIDE DEF z
  <2>4. mask = 2 ^ i * (2 * z - 1) + (2 ^ i - 2 ^ k)
    <3> HIDE DEF mask, k
    <3> QED
      BY <1>2, <1>3, <2>2, <2>3
  <2>5. mask \div 2 ^ i = 2 * z - 1
    <3>1. 2 * z - 1 \in Nat /\ 2 ^ i - 2 ^ k \in 0 .. 2 ^ i - 1
      BY <1>3, <2>2
    <3> HIDE DEF mask, k
    <3> QED
      BY <3>1, <2>2, <2>4, Division
  <2> HIDE DEF mask
  <2> QED
    BY <2>2, <2>5 DEF Bit
<1> QED
    BY <1>1, <1>4, <1>5, <1>6 DEF Bits

\* The leading ones of a prefix of p ones are p.
LEMMA PrefixLeadingOnes ==
    ASSUME NEW p \in 0 .. Width
    PROVE  LeadingOnes(PrefixMask(p)) = p
<1> DEFINE S == {n \in 0 .. Width : \A i \in Bits : i >= Width - n => Bit(PrefixMask(p), i) = 1}
<1>1. Width \in Nat /\ Width > 0
    BY WidthAssumption
<1>2. p \in S
    BY MaskBits
<1>3. ASSUME NEW n \in S PROVE n <= p
  <2> SUFFICES ASSUME n > p PROVE FALSE
    BY <1>1
  <2>1. (Width - p) - 1 \in Bits /\ (Width - p) - 1 >= Width - n
    BY <1>1 DEF Bits
  <2>2. Bit(PrefixMask(p), (Width - p) - 1) = 1
    BY <2>1
  <2>3. Bit(PrefixMask(p), (Width - p) - 1) = 0
    BY <2>1, <1>1, MaskBits
  <2> QED
    BY <2>2, <2>3
<1>4. S \subseteq Nat
    OBVIOUS
<1> HIDE DEF S
<1>5. Max(S) = p
  <2>1. \E x \in S : \A y \in S : x >= y
    BY <1>2, <1>3, <1>4
  <2>2. Max(S) \in S /\ \A y \in S : Max(S) >= y
    BY <2>1 DEF Max
  <2>3. Max(S) >= p
    BY <2>2, <1>2
  <2>4. Max(S) <= p
    BY <2>2, <1>3
  <2>5. Max(S) \in Nat /\ p \in Nat
    BY <2>2, <1>2, <1>4
  <2> QED
    BY <2>3, <2>4, <2>5
<1> QED
    BY <1>5 DEF LeadingOnes, S

\* The address of the network is the address without its bits after the prefix.
LEMMA AndMask ==
    ASSUME NEW a \in Address, NEW p \in 0 .. Width
    PROVE  And(a, PrefixMask(p)) = a - (a % 2 ^ (Width - p))
<1> DEFINE k == Width - p
           rest == a % 2 ^ k
           mask == PrefixMask(p)
<1>1. Width \in Nat /\ k \in Nat /\ k <= Width
    BY WidthAssumption
<1>2. a \in Nat /\ mask \in Nat /\ a < 2 ^ Width /\ 2 ^ Width \in Nat
    BY <1>1, PowerType, MaskBits DEF Address
<1>3. PICK low \in [Nat -> Nat] :
            /\ low[0] = 0
            /\ \A n \in Nat : low[n + 1] = low[n] + 2 ^ n * (Bit(a, n) * Bit(mask, n))
            /\ And(a, mask) = low[Width]
    BY <1>2, AndDefined
<1> DEFINE good == {n \in Nat : n <= Width =>
                        low[n] = IF n <= k THEN 0 ELSE (a % 2 ^ n) - rest}
<1>4. 0 \in good
    BY <1>1, <1>3
<1>5. ASSUME NEW n \in Nat, n \in good PROVE n + 1 \in good
  <2> SUFFICES ASSUME n + 1 <= Width
               PROVE  low[n + 1] = IF n + 1 <= k THEN 0 ELSE (a % 2 ^ (n + 1)) - rest
    OBVIOUS
  <2>1. low[n] = IF n <= k THEN 0 ELSE (a % 2 ^ n) - rest
    BY <1>1, <1>5
  <2>2. low[n + 1] = low[n] + 2 ^ n * (Bit(a, n) * Bit(mask, n))
    BY <1>3
  <2>3. Bit(mask, n) = IF n >= k THEN 1 ELSE 0
    <3>1. n \in Bits
      BY <1>1 DEF Bits
    <3> QED
      BY <3>1, MaskBits
  <2>4. /\ Bit(a, n) \in {0, 1} /\ 2 ^ n \in Nat /\ 2 ^ n > 0
        /\ a % 2 ^ (n + 1) = (a % 2 ^ n) + 2 ^ n * Bit(a, n)
    BY <1>2, BitSplits, PowerType
  <2>5. a % 2 ^ n \in Nat /\ rest \in Nat
    <3>1. 2 ^ k \in Nat /\ 2 ^ k > 0
      BY <1>1, PowerType
    <3> QED
      BY <1>2, <2>4, <3>1
  <2> HIDE DEF mask
  <2>6. CASE n < k
    <3>1. 2 ^ n * (Bit(a, n) * Bit(mask, n)) = 0
      BY <2>3, <2>4, <2>6, <1>1
    <3> QED
      BY <2>1, <2>2, <2>6, <3>1, <1>1
  <2>7. CASE n = k
    <3>1. low[n] = 0 /\ rest = a % 2 ^ n
      BY <2>1, <2>7
    <3>2. 2 ^ n * (Bit(a, n) * Bit(mask, n)) = 2 ^ n * Bit(a, n)
      BY <2>3, <2>4, <2>7, <1>1
    <3>3. ~(n + 1 <= k)
      BY <2>7
    <3> HIDE DEF rest, k
    <3> QED
      BY <2>2, <2>4, <2>5, <3>1, <3>2, <3>3
  <2>8. CASE n > k
    <3>1. low[n] = (a % 2 ^ n) - rest /\ ~(n + 1 <= k)
      BY <2>1, <2>8, <1>1
    <3>2. 2 ^ n * (Bit(a, n) * Bit(mask, n)) = 2 ^ n * Bit(a, n)
      BY <2>3, <2>4, <2>8, <1>1
    <3> HIDE DEF rest, k
    <3> QED
      BY <2>2, <2>4, <2>5, <3>1, <3>2
  <2> QED
    BY <2>6, <2>7, <2>8, <1>1
<1>6. Width \in good
  <2> HIDE DEF good
  <2> QED
    BY <1>1, <1>4, <1>5, Inductive
<1>7. low[Width] = IF Width <= k THEN 0 ELSE (a % 2 ^ Width) - rest
    BY <1>1, <1>6
<1>8. a % 2 ^ Width = a
    BY <1>2
<1>9. CASE Width <= k
  <2>1. k = Width
    BY <1>1, <1>9
  <2>2. rest = a
    BY <2>1, <1>8
  <2> HIDE DEF rest
  <2> QED
    BY <1>2, <1>3, <1>7, <1>9, <2>2 DEF rest
<1>10. CASE ~(Width <= k)
    BY <1>3, <1>7, <1>8, <1>10
<1> QED
    BY <1>9, <1>10

\* Nothing is common to two numbers exactly when they share no bit.
LEMMA AndZero ==
    ASSUME NEW a \in Nat, NEW b \in Nat
    PROVE  And(a, b) = 0 <=> \A i \in Bits : Bit(a, i) * Bit(b, i) = 0
<1> DEFINE shared(n) == Bit(a, n) * Bit(b, n)
<1>1. Width \in Nat
    BY WidthAssumption
<1>2. PICK low \in [Nat -> Nat] :
            /\ low[0] = 0
            /\ \A n \in Nat : low[n + 1] = low[n] + 2 ^ n * shared(n)
            /\ And(a, b) = low[Width]
    BY AndDefined
<1>3. \A n \in Nat : shared(n) \in Nat
  <2>1. ASSUME NEW n \in Nat PROVE shared(n) \in Nat
    <3>1. Bit(a, n) \in {0, 1} /\ Bit(b, n) \in {0, 1}
      BY BitSplits
    <3> QED
      BY <3>1
  <2> QED
    BY <2>1
<1> HIDE DEF shared
<1> DEFINE good == {n \in Nat : low[n] = 0 <=> \A i \in 0 .. n - 1 : shared(i) = 0}
<1>4. 0 \in good
    BY <1>2
<1>5. ASSUME NEW n \in Nat, n \in good PROVE n + 1 \in good
  <2>1. low[n] = 0 <=> \A i \in 0 .. n - 1 : shared(i) = 0
    BY <1>5
  <2>2. low[n + 1] = low[n] + 2 ^ n * shared(n) /\ 2 ^ n \in Nat /\ 2 ^ n > 0
        /\ shared(n) \in Nat /\ low[n] \in Nat
    BY <1>2, <1>3, PowerType
  <2>3. low[n + 1] = 0 <=> low[n] = 0 /\ shared(n) = 0
    BY <2>2
  <2>4. (\A i \in 0 .. (n + 1) - 1 : shared(i) = 0) <=>
            (\A i \in 0 .. n - 1 : shared(i) = 0) /\ shared(n) = 0
    <3>1. 0 .. (n + 1) - 1 = (0 .. n - 1) \cup {n}
      OBVIOUS
    <3> QED
      BY <3>1
  <2>5. low[n + 1] = 0 <=> \A i \in 0 .. (n + 1) - 1 : shared(i) = 0
    BY <2>1, <2>3, <2>4
  <2> QED
    BY <2>5
<1>6. Width \in good
  <2> HIDE DEF good
  <2> QED
    BY <1>1, <1>4, <1>5, Inductive
<1> QED
    BY <1>2, <1>6 DEF Bits, shared

\* A number but zero lies between two powers of two, next to each other.
LEMMA TopBit ==
    ASSUME NEW m \in Nat, m > 0, m < 2 ^ Width
    PROVE  \E k \in Bits : 2 ^ k <= m /\ m < 2 * 2 ^ k
<1> DEFINE above == {j \in Nat : m < 2 ^ j}
<1>1. Width \in Nat /\ Width \in above
    BY WidthAssumption
<1>2. PICK j \in above : \A i \in above : j <= i
    BY <1>1, LeastElement
<1>3. j # 0 /\ j \in Nat /\ j <= Width
  <2>1. 0 \notin above
    OBVIOUS
  <2> HIDE DEF above
  <2>2. above \subseteq Nat
    BY DEF above
  <2> QED
    BY <2>1, <2>2, <1>1, <1>2
<1>4. j - 1 \in Nat /\ (j - 1) + 1 = j
    BY <1>3
<1>5. 2 ^ j = 2 * 2 ^ (j - 1) /\ 2 ^ (j - 1) \in Nat
    BY <1>4, PowerNext, PowerType
<1>6. 2 ^ (j - 1) <= m
  <2>1. j - 1 \notin above
    BY <1>2, <1>4
  <2> QED
    BY <2>1, <1>4, <1>5
<1> QED
    BY <1>1, <1>2, <1>3, <1>5, <1>6 DEF Bits

\* The bits of a power of two and those of the number before it.
LEMMA PowerBits ==
    ASSUME NEW k \in Nat, NEW i \in Nat
    PROVE  /\ i # k => Bit(2 ^ k, i) = 0
           /\ i >= k => Bit(2 ^ k - 1, i) = 0
<1>1. 2 ^ k \in Nat /\ 2 ^ k > 0 /\ 2 ^ i \in Nat /\ 2 ^ i > 0
    BY PowerType
<1>2. CASE i < k
  <2> DEFINE y == 2 ^ ((k - i) - 1)
  <2>1. (k - i) - 1 \in Nat /\ k = i + (((k - i) - 1) + 1) /\ ((k - i) - 1) + 1 \in Nat
    BY <1>2
  <2>2. y \in Nat /\ 2 ^ k = 2 ^ i * (2 * y)
    BY <2>1, PowerType, PowerSum, PowerNext
  <2> HIDE DEF y
  <2>3. 2 ^ k \div 2 ^ i = 2 * y
    <3>1. 2 * y \in Nat /\ 0 \in 0 .. 2 ^ i - 1 /\ 2 ^ k = 2 ^ i * (2 * y) + 0
      BY <1>1, <2>2
    <3>2. (2 ^ i * (2 * y) + 0) \div 2 ^ i = 2 * y
      BY <1>1, <3>1, Division
    <3> QED
      BY <3>1, <3>2
  <2>4. (2 * y) % 2 = 0
    BY <2>2
  <2>5. Bit(2 ^ k, i) = 0
    BY <2>3, <2>4 DEF Bit
  <2> QED
    BY <1>2, <2>5
<1>3. ASSUME NEW a \in Nat, a < 2 ^ i PROVE Bit(a, i) = 0
  <2>1. a \div 2 ^ i = 0
    BY <1>1, <1>3
  <2>2. 0 % 2 = 0
    OBVIOUS
  <2> QED
    BY <2>1, <2>2 DEF Bit
<1>4. CASE i >= k
  <2>1. 2 ^ k <= 2 ^ i /\ (i # k => 2 * 2 ^ k <= 2 ^ i)
    BY <1>4, PowerMonotone
  <2>2. 2 ^ k - 1 \in Nat /\ 2 ^ k - 1 < 2 ^ i /\ (i # k => 2 ^ k < 2 ^ i)
    BY <1>1, <2>1
  <2> QED
    BY <1>1, <1>3, <2>2
<1> QED
    BY <1>2, <1>4

\* The accepted masks are the prefixes (prefix_length_from_contiguous_netmask).
LEMMA ContiguousIsPrefix ==
    ASSUME NEW mask \in Address
    PROVE  Contiguous(mask) <=> \E p \in 0 .. Width : mask = PrefixMask(p)
<1> DEFINE n == Not(mask)
           next == WrappingNext(n)
<1>1. Width \in Nat /\ 2 ^ Width \in Nat /\ 2 ^ Width > 0
    BY WidthAssumption, PowerType
<1>2. n = (2 ^ Width - 1) - mask /\ n \in Nat /\ n < 2 ^ Width /\ mask \in Nat
    BY <1>1 DEF Not, Address
<1>3. IF n + 1 = 2 ^ Width THEN next = 0 ELSE next = n + 1
    BY <1>1, <1>2 DEF WrappingNext
<1>4. Contiguous(mask) <=> n = 0 \/ And(n, next) = 0
    BY DEF Contiguous
<1>5. \A i \in Bits : i \in Nat
    BY DEF Bits
<1>6. ASSUME NEW p \in 0 .. Width, mask = PrefixMask(p) PROVE Contiguous(mask)
  <2> DEFINE k == Width - p
  <2>1. k \in Nat /\ n = 2 ^ k - 1 /\ 2 ^ k \in Nat /\ 2 ^ k <= 2 ^ Width
    <3>1. k \in Nat /\ k <= Width
      BY <1>1
    <3>2. 2 ^ k \in Nat /\ 2 ^ k <= 2 ^ Width
      BY <3>1, <1>1, PowerType, PowerMonotone
    <3>3. mask = 2 ^ Width - 2 ^ k
      BY <1>6 DEF PrefixMask
    <3> HIDE DEF k, n
    <3> QED
      BY <3>1, <3>2, <3>3, <1>1, <1>2
  <2>2. next \in {0, 2 ^ k}
    BY <1>3, <2>1
  <2>3. ASSUME NEW i \in Bits PROVE Bit(n, i) * Bit(next, i) = 0
    <3>1. Bit(n, i) \in {0, 1} /\ Bit(next, i) \in {0, 1} /\ Bit(0, i) = 0
      <4>1. next \in Nat /\ 2 ^ i \in Nat /\ 2 ^ i > 0
        BY <2>1, <2>2, <1>5, PowerType
      <4>2. 0 \div 2 ^ i = 0
        BY <4>1
      <4>3. Bit(0, i) = 0
        BY <4>2 DEF Bit
      <4>4. Bit(n, i) \in {0, 1} /\ Bit(next, i) \in {0, 1}
        <5> HIDE DEF n, next
        <5> QED
          BY <4>1, <1>2, <1>5, BitSplits
      <4> QED
        BY <4>3, <4>4
    <3>2. (i # k => Bit(2 ^ k, i) = 0) /\ (i >= k => Bit(2 ^ k - 1, i) = 0)
      BY <2>1, <1>5, PowerBits
    <3>3. Bit(n, i) = 0 \/ Bit(next, i) = 0
      <4> HIDE DEF k, n, next
      <4>1. CASE next = 0
        BY <3>1, <4>1
      <4>2. CASE next = 2 ^ k /\ i # k
        BY <3>2, <4>2
      <4>3. CASE i = k
        <5>1. i >= k
          BY <4>3, <2>1
        <5>2. Bit(2 ^ k - 1, i) = 0
          BY <3>2, <5>1
        <5> QED
          BY <5>2, <2>1
      <4> QED
        BY <2>2, <4>1, <4>2, <4>3
    <3> HIDE DEF n, next
    <3> QED
      BY <3>1, <3>3
  <2>4. And(n, next) = 0
    <3>1. next \in Nat
      BY <2>1, <2>2
    <3> HIDE DEF n, next
    <3> QED
      BY <2>3, <3>1, <1>2, AndZero
  <2> QED
    BY <1>4, <2>4
<1>7. ASSUME Contiguous(mask) PROVE \E p \in 0 .. Width : mask = PrefixMask(p)
  <2>1. CASE n = 0
    <3>1. mask = PrefixMask(Width) /\ Width \in 0 .. Width
      BY <1>1, <1>2, <2>1 DEF PrefixMask
    <3> QED
      BY <3>1
  <2>2. CASE n + 1 = 2 ^ Width
    <3>1. mask = PrefixMask(0) /\ 0 \in 0 .. Width
      <4>1. mask = 0 /\ Width - 0 = Width
        BY <1>1, <1>2, <2>2
      <4> QED
        BY <4>1, <1>1 DEF PrefixMask
    <3> QED
      BY <3>1
  <2>3. CASE n # 0 /\ n + 1 # 2 ^ Width
    <3> HIDE DEF n, next
    <3>1. And(n, next) = 0 /\ next = n + 1 /\ next \in Nat /\ next > 0 /\ next < 2 ^ Width
      <4>1. And(n, next) = 0 /\ next = n + 1
        BY <1>3, <1>4, <1>7, <2>3
      <4> QED
        BY <4>1, <1>1, <1>2, <2>3
    <3>2. PICK k \in Bits : 2 ^ k <= next /\ next < 2 * 2 ^ k
      BY <3>1, TopBit
    <3>3. 2 ^ k \in Nat /\ 2 ^ k > 0 /\ k \in Nat
      BY <1>5, PowerType
    <3>4. ASSUME NEW a \in Nat, 2 ^ k <= a, a < 2 * 2 ^ k PROVE Bit(a, k) = 1
      <4>1. a \div 2 ^ k = 1
        BY <3>3, <3>4
      <4> QED
        BY <4>1 DEF Bit
    <3>5. Bit(n, k) * Bit(next, k) = 0
      BY <3>1, <1>2, AndZero
    <3>6. ~(2 ^ k <= n)
      <4> SUFFICES ASSUME 2 ^ k <= n PROVE FALSE
        OBVIOUS
      <4>1. Bit(n, k) = 1 /\ Bit(next, k) = 1
        BY <1>2, <3>1, <3>2, <3>3, <3>4
      <4> QED
        BY <3>5, <4>1
    <3>7. next = 2 ^ k
      BY <1>2, <3>1, <3>2, <3>3, <3>6
    <3>8. Width - k \in 0 .. Width /\ Width - (Width - k) = k
      BY <1>1, <3>3 DEF Bits
    <3>9. mask = 2 ^ Width - 2 ^ k
      BY <1>1, <1>2, <3>1, <3>3, <3>7
    <3> QED
      BY <3>8, <3>9 DEF PrefixMask
  <2> QED
    BY <2>1, <2>2, <2>3
<1> QED
    BY <1>6, <1>7

\* The prefix length of an accepted mask is the number of its ones.
LEMMA PrefixLengthIs ==
    ASSUME NEW p \in 0 .. Width
    PROVE  PrefixLength(PrefixMask(p)) = p
<1>1. Width \in Nat /\ Width - p \in Nat /\ 2 ^ Width \in Nat
    BY WidthAssumption, PowerType
<1>2. CASE Not(PrefixMask(p)) = 0
  <2>1. 2 ^ (Width - p) = 1
    <3>1. 2 ^ (Width - p) \in Nat
      BY <1>1, PowerType
    <3> QED
      BY <3>1, <1>1, <1>2 DEF Not, PrefixMask
  <2>2. ~(0 < Width - p)
    <3> SUFFICES ASSUME 0 < Width - p PROVE FALSE
      OBVIOUS
    <3> DEFINE k == (Width - p) - 1
    <3>1. k \in Nat /\ Width - p = k + 1
      BY <1>1
    <3>2. 2 ^ (k + 1) = 2 * 2 ^ k /\ 2 ^ k \in Nat
      <4> HIDE DEF k
      <4> QED
        BY <3>1, PowerNext, PowerType
    <3> HIDE DEF k
    <3> QED
      BY <2>1, <3>1, <3>2
  <2> QED
    BY <1>1, <1>2, <2>2 DEF PrefixLength
<1>3. CASE Not(PrefixMask(p)) # 0
    BY <1>3, PrefixLeadingOnes DEF PrefixLength
<1> QED
    BY <1>2, <1>3

\* The addresses that agree with an address in the first p bits, without the edges, are
\* those between the network and the broadcast.
LEMMA InteriorIsBetween ==
    ASSUME NEW address \in Address, NEW p \in 0 .. Width - 2
    PROVE  LET mask == PrefixMask(p)
           IN  /\ Network(address, mask) \in Nat /\ Broadcast(address, mask) \in Address
               /\ Network(address, mask) + 1 <= Broadcast(address, mask) - 1
               /\ Interior(address, p)
                  = Network(address, mask) + 1 .. Broadcast(address, mask) - 1
<1> DEFINE size == 2 ^ (Width - p)
           mask == PrefixMask(p)
           first == Network(address, mask)
           last == Broadcast(address, mask)
           q == address \div size
           block == {a \in Address : a \div size = q}
<1>1. Width \in Nat /\ Width - p \in Nat /\ p \in Nat /\ p \in 0 .. Width /\ Width - p >= 2
    BY WidthAssumption
<1>2. size \in Nat /\ size >= 4
  <2> DEFINE k == (Width - p) - 2
  <2>1. k \in Nat /\ k + 1 \in Nat /\ Width - p = (k + 1) + 1
    BY <1>1
  <2>2. 2 ^ (k + 1) = 2 * 2 ^ k /\ 2 ^ ((k + 1) + 1) = 2 * 2 ^ (k + 1) /\ 2 ^ k \in Nat /\ 2 ^ k > 0
    <3> HIDE DEF k
    <3> QED
      BY <2>1, PowerNext, PowerType
  <2> HIDE DEF k
  <2> QED
    BY <2>1, <2>2
<1>3. address \in Nat /\ address < 2 ^ Width
    BY <1>1, PowerType DEF Address
<1>4. q \in Nat /\ address = size * q + (address % size) /\ address % size \in 0 .. size - 1
  <2> HIDE DEF size
  <2> QED
    BY <1>2, <1>3
<1>5. first = size * q
  <2>1. first = address - (address % size)
    BY <1>1, AndMask DEF Network
  <2> HIDE DEF first, size, q
  <2> QED
    BY <1>2, <1>3, <1>4, <2>1
<1>6. last = first + (size - 1)
  <2>1. Not(mask) = size - 1
    <3>1. 2 ^ Width \in Nat
      BY <1>1, PowerType
    <3>2. mask = 2 ^ Width - size
      BY DEF PrefixMask
    <3> HIDE DEF mask, size
    <3> QED
      BY <1>2, <3>1, <3>2 DEF Not
  <2> QED
    BY <2>1 DEF Broadcast
<1>7. size * q + (size - 1) < 2 ^ Width
  <2>1. 2 ^ Width = size * 2 ^ p /\ 2 ^ p \in Nat
    <3>1. (Width - p) + p = Width
      BY <1>1
    <3> QED
      BY <3>1, <1>1, PowerSum, PowerType
  <2> HIDE DEF size, q
  <2>2. size * q < size * 2 ^ p
    BY <1>2, <1>3, <1>4, <2>1
  <2>3. q < 2 ^ p
    BY <1>2, <1>4, <2>1, <2>2
  <2>4. size * q + size <= size * 2 ^ p
    BY <1>2, <1>4, <2>1, <2>3
  <2> QED
    BY <1>2, <1>4, <2>1, <2>4
<1>8. block = size * q .. size * q + (size - 1)
  <2> HIDE DEF q
  <2>1. ASSUME NEW a \in Address, a \div size = q PROVE a \in size * q .. size * q + (size - 1)
    <3>1. a \in Nat
      BY DEF Address
    <3> HIDE DEF size
    <3> QED
      BY <2>1, <3>1, <1>2, <1>4
  <2>2. ASSUME NEW a \in size * q .. size * q + (size - 1)
        PROVE  a \in Address /\ a \div size = q
    <3>1. size * q \in Nat /\ a - size * q \in 0 .. size - 1 /\ a = size * q + (a - size * q)
      <4> HIDE DEF size
      <4> QED
        BY <1>2, <1>4, <2>2
    <3>2. a \in Address
      BY <3>1, <1>7, <2>2, <1>1, PowerType DEF Address
    <3>3. (size * q + (a - size * q)) \div size = q
      <4> HIDE DEF size
      <4>1. a - size * q \in 0 .. size - 1 /\ size > 0
        BY <3>1, <1>2
      <4> QED
        BY <4>1, <1>2, <1>4, Division
    <3> QED
      BY <3>1, <3>2, <3>3
  <2> QED
    BY <2>1, <2>2
<1> HIDE DEF size, q, block
<1>9. first \in Nat /\ last \in Address /\ block = first .. last /\ first + 3 <= last
  <2>1. first \in Nat
    BY <1>2, <1>4, <1>5
  <2>2. last = size * q + (size - 1)
    BY <1>5, <1>6
  <2>3. last \in Nat /\ first + 3 <= last
    BY <1>2, <1>6, <2>1
  <2>4. last \in Address
    BY <2>2, <2>3, <1>7, <1>1, PowerType DEF Address
  <2> QED
    BY <2>1, <2>2, <2>3, <2>4, <1>5, <1>8
<1> HIDE DEF first, last
<1>10. Min(block) = first /\ Max(block) = last
  <2>1. last \in Nat
    BY <1>1, <1>9, PowerType DEF Address
  <2>2. first \in block /\ last \in block /\ \A a \in block : first <= a /\ a <= last /\ a \in Nat
    BY <1>9, <2>1
  <2>3. Min(block) \in block /\ \A a \in block : Min(block) <= a
    BY <2>2 DEF Min
  <2>4. Max(block) \in block /\ \A a \in block : Max(block) >= a
    BY <2>2 DEF Max
  <2>5. Min(block) <= first /\ first <= Min(block) /\ Min(block) \in Nat
    BY <2>2, <2>3
  <2>6. Max(block) >= last /\ Max(block) <= last /\ Max(block) \in Nat
    BY <2>2, <2>4
  <2> QED
    BY <2>1, <2>5, <2>6, <1>9
<1>11. Interior(address, p) = block \ {first, last}
    BY <1>10 DEF Interior, block, size, q
<1>12. block \ {first, last} = first + 1 .. last - 1
  <2>1. last \in Nat
    BY <1>1, <1>9, PowerType DEF Address
  <2> QED
    BY <1>9, <2>1
<1> QED
  <2>1. last \in Nat
    BY <1>1, <1>9, PowerType DEF Address
  <2>2. first + 1 <= last - 1
    BY <1>9, <2>1
  <2>3. first \in Nat /\ last \in Address
    BY <1>9
  <2>4. Interior(address, p) = first + 1 .. last - 1
    BY <1>11, <1>12
  <2> QED
    BY <2>2, <2>3, <2>4 DEF first, last, mask

\* A subnet is scanned for exactly the masks that are a prefix and leave two hosts, and
\* its hosts are those of the reference.
LEMMA SubnetIsPrefix ==
    ASSUME NEW address \in Address, NEW netmask \in Address
    PROVE  LET prefixes == {p \in 0 .. Width - 2 : netmask = PrefixMask(p)}
               interior == UNION {Interior(address, p) : p \in prefixes}
               network == Network(address, netmask)
               broadcast == Broadcast(address, netmask)
           IN  /\ SubnetAccepted(address, netmask) <=> prefixes # {}
               /\ prefixes = {} => interior = {}
               /\ prefixes # {} =>
                    /\ network \in Nat /\ broadcast \in Address /\ network + 1 <= broadcast - 1
                    /\ interior = network + 1 .. broadcast - 1
<1> DEFINE prefixes == {p \in 0 .. Width - 2 : netmask = PrefixMask(p)}
           interior == UNION {Interior(address, p) : p \in prefixes}
           network == Network(address, netmask)
           broadcast == Broadcast(address, netmask)
<1>1. Width \in Nat /\ Width > 0
    BY WidthAssumption
<1>2. SubnetAccepted(address, netmask) => prefixes # {}
  <2> SUFFICES ASSUME SubnetAccepted(address, netmask) PROVE prefixes # {}
    OBVIOUS
  <2>1. Contiguous(netmask) /\ PrefixLength(netmask) < Width - 1
    BY DEF SubnetAccepted
  <2>2. PICK p \in 0 .. Width : netmask = PrefixMask(p)
    BY <2>1, ContiguousIsPrefix
  <2>3. p < Width - 1
    BY <2>1, <2>2, PrefixLengthIs
  <2>4. p \in prefixes
    BY <1>1, <2>2, <2>3
  <2> QED
    BY <2>4
<1>3. ASSUME NEW p \in prefixes
      PROVE  /\ prefixes = {p} /\ SubnetAccepted(address, netmask)
             /\ network \in Nat /\ broadcast \in Address /\ network + 1 <= broadcast - 1
             /\ interior = network + 1 .. broadcast - 1
  <2>1. p \in 0 .. Width - 2 /\ p \in 0 .. Width /\ p < Width - 1 /\ netmask = PrefixMask(p)
    BY <1>1
  <2>2. prefixes = {p}
    <3>1. ASSUME NEW r \in prefixes PROVE r = p
      <4>1. r \in 0 .. Width /\ netmask = PrefixMask(r)
        BY <1>1
      <4>2. r = p
        BY <2>1, <4>1, PrefixLengthIs
      <4> QED
        BY <4>2
    <3> QED
      BY <3>1
  <2>3. /\ network \in Nat /\ broadcast \in Address /\ network + 1 <= broadcast - 1
        /\ Interior(address, p) = network + 1 .. broadcast - 1
    BY <2>1, InteriorIsBetween
  <2>4. Contiguous(netmask) /\ PrefixLength(netmask) < Width - 1
    BY <2>1, ContiguousIsPrefix, PrefixLengthIs
  <2>5. SubnetAccepted(address, netmask)
    BY <2>3, <2>4 DEF SubnetAccepted
  <2>6. interior = Interior(address, p)
    BY <2>2
  <2> QED
    BY <2>2, <2>3, <2>5, <2>6
<1> HIDE DEF prefixes, network, broadcast
<1>4. prefixes = {} => interior = {}
    OBVIOUS
<1> HIDE DEF interior
<1>5. prefixes # {} =>
        /\ SubnetAccepted(address, netmask)
        /\ network \in Nat /\ broadcast \in Address /\ network + 1 <= broadcast - 1
        /\ interior = network + 1 .. broadcast - 1
    BY <1>3
<1> QED
    BY <1>2, <1>4, <1>5 DEF prefixes, interior, network, broadcast

\* The prefixes that have the netmask and leave two hosts, and the hosts inside them.
PrefixesOf(netmask) == {p \in 0 .. Width - 2 : netmask = PrefixMask(p)}
Inside(address, netmask) == UNION {Interior(address, p) : p \in PrefixesOf(netmask)}

\* What a scan of all hosts, or of one target, should probe, whether its plan is accepted
\* and which plan is made.
Probed(address, netmask, target) ==
    IF Given(target) THEN {target} ELSE Inside(address, netmask) \cup {address}
PlanTaken(address, netmask, target) ==
    IF Given(target) THEN TargetAccepted(target, address, netmask)
    ELSE SubnetAccepted(address, netmask)
PlanMade(address, netmask, target) ==
    IF Given(target) THEN ProbePlan(target) ELSE FullPlan(address, netmask)

\* What is probed, and which senders are accepted, for an interface and a host asked for.
LEMMA PlanIsInterior ==
    ASSUME NEW address \in Address, NEW netmask \in Address, NEW target \in Address \cup {None}
    PROVE  /\ PlanTaken(address, netmask, target)
              <=> /\ PrefixesOf(netmask) # {}
                  /\ Given(target) => target \in Inside(address, netmask)
           /\ PlanTaken(address, netmask, target) =>
                /\ Range(PlanMade(address, netmask, target).targets)
                   = Probed(address, netmask, target)
                /\ {a \in Address : Accepts(PlanMade(address, netmask, target).acceptance, a)}
                   = Probed(address, netmask, target)
                /\ IsInjective(PlanMade(address, netmask, target).targets)
                /\ Probed(address, netmask, target) \subseteq Address
<1> DEFINE prefixes == PrefixesOf(netmask)
           interior == Inside(address, netmask)
           network == Network(address, netmask)
           broadcast == Broadcast(address, netmask)
           probed == Probed(address, netmask, target)
           accepted == PlanTaken(address, netmask, target)
           made == PlanMade(address, netmask, target)
<1>1. /\ SubnetAccepted(address, netmask) <=> prefixes # {}
      /\ prefixes = {} => interior = {}
      /\ prefixes # {} =>
            /\ network \in Nat /\ broadcast \in Address /\ network + 1 <= broadcast - 1
            /\ interior = network + 1 .. broadcast - 1
    BY SubnetIsPrefix DEF PrefixesOf, Inside
<1>2. Address \subseteq Nat /\ \A a \in Address : 0 .. a \subseteq Address
    BY WidthAssumption, PowerType DEF Address
<1> HIDE DEF prefixes, interior, network, broadcast
<1>3. prefixes # {} =>
        /\ network \in Nat /\ broadcast \in Nat
        /\ network + 1 <= broadcast - 1 /\ interior = network + 1 .. broadcast - 1
    BY <1>1, <1>2
<1>4. CASE Given(target)
  <2>1. target \in Address /\ target \in Nat
    BY <1>2, <1>4 DEF Given
  <2>2. accepted <=> /\ SubnetAccepted(address, netmask)
                     /\ network + 1 <= target /\ target <= broadcast - 1
    BY <1>4 DEF PlanTaken, TargetAccepted, FirstHost, LastHost, network, broadcast
  <2>3. accepted <=> prefixes # {} /\ target \in interior
    BY <1>1, <1>3, <2>1, <2>2
  <2>4. made.targets = <<target>> /\ made.acceptance = ExactTarget(target)
    BY <1>4 DEF PlanMade, ProbePlan
  <2>5. Range(<<target>>) = {target} /\ IsInjective(<<target>>)
    BY DEF Range, IsInjective
  <2>6. {a \in Address : Accepts(ExactTarget(target), a)} = {target}
    BY <2>1 DEF Accepts, ExactTarget
  <2>7. probed = {target}
    BY <1>4 DEF Probed
  <2> HIDE DEF probed, accepted, made
  <2>8. /\ accepted <=> prefixes # {} /\ (Given(target) => target \in interior)
        /\ accepted =>
                    /\ Range(made.targets) = probed
                    /\ {a \in Address : Accepts(made.acceptance, a)} = probed
                    /\ IsInjective(made.targets)
                    /\ probed \subseteq Address
    BY <1>4, <2>1, <2>3, <2>4, <2>5, <2>6, <2>7
  <2> QED
    BY <2>8 DEF probed, accepted, made, prefixes, interior
<1>5. CASE ~Given(target)
  <2>1. accepted <=> prefixes # {}
    BY <1>1, <1>5 DEF PlanTaken
  <2>2. /\ made.targets = Targets(address, network, broadcast)
        /\ made.acceptance = SubnetScope(address, network, broadcast)
    BY <1>5 DEF PlanMade, FullPlan, network, broadcast
  <2>3. probed = interior \cup {address}
    BY <1>5 DEF Probed, interior
  <2>4. ASSUME prefixes # {}
        PROVE  /\ Range(made.targets) = probed
               /\ {a \in Address : Accepts(made.acceptance, a)} = probed
               /\ IsInjective(made.targets)
               /\ probed \subseteq Address
    <3> DEFINE acceptance == SubnetScope(address, network, broadcast)
    <3>1. /\ network \in Int /\ broadcast \in Int /\ address \in Int
          /\ network + 1 <= broadcast - 1 /\ interior = network + 1 .. broadcast - 1
      <4>1. address \in Nat
        BY <1>2
      <4> QED
        BY <1>3, <2>4, <4>1
    <3>2. /\ Range(made.targets) = {a \in Int : Accepts(acceptance, a)}
          /\ IsInjective(made.targets)
      BY <2>2, <3>1, TargetsAreAcceptedSenders
    <3>3. {a \in Int : Accepts(acceptance, a)} = interior \cup {address}
      BY <3>1 DEF Accepts, SubnetScope, StrictlyInside
    <3>4. interior \subseteq Address
      <4>1. interior \subseteq 0 .. broadcast /\ broadcast \in Address
        BY <1>1, <2>4, <3>1
      <4> QED
        BY <4>1, <1>2
    <3>5. {a \in Address : Accepts(acceptance, a)} = interior \cup {address}
      <4>1. Address \subseteq Int
        BY <1>2
      <4>2. \A a \in interior \cup {address} : a \in Address
        BY <3>4
      <4> HIDE DEF acceptance
      <4> QED
        BY <3>3, <4>1, <4>2
    <3> HIDE DEF made, probed, acceptance
    <3> QED
      BY <2>2, <2>3, <3>2, <3>3, <3>4, <3>5 DEF acceptance
  <2> HIDE DEF probed, accepted, made
  <2>5. /\ accepted <=> prefixes # {} /\ (Given(target) => target \in interior)
        /\ accepted =>
                    /\ Range(made.targets) = probed
                    /\ {a \in Address : Accepts(made.acceptance, a)} = probed
                    /\ IsInjective(made.targets)
                    /\ probed \subseteq Address
    BY <1>5, <2>1, <2>4
  <2> QED
    BY <2>5 DEF probed, accepted, made, prefixes, interior
<1> QED
    BY <1>4, <1>5
-----------------------------------------------------------------------------
(* The records of macOS *)

\* Where the record of the i-th address is, when that of the link layer is the p-th.
Place(p, i) == IF i < p THEN i ELSE i + 1

\* The addresses have all places but that of the link layer, the first address the first.
LEMMA PlacesLeft ==
    ASSUME NEW m \in Nat, NEW p \in 1 .. m + 1
    PROVE  /\ \A i \in 1 .. m : Place(p, i) \in 1 .. m + 1 /\ Place(p, i) # p
           /\ \A j \in 1 .. m + 1 : j # p => \E i \in 1 .. m : j = Place(p, i)
           /\ \A i \in 1 .. m : Place(p, 1) <= Place(p, i)
<1>1. ASSUME NEW i \in 1 .. m PROVE Place(p, i) \in 1 .. m + 1 /\ Place(p, i) # p
    BY DEF Place
<1>2. ASSUME NEW j \in 1 .. m + 1, j # p PROVE \E i \in 1 .. m : j = Place(p, i)
  <2>1. CASE j < p
    BY <2>1 DEF Place
  <2>2. CASE j > p
    <3>1. j - 1 \in 1 .. m /\ ~ (j - 1 < p) /\ (j - 1) + 1 = j
      BY <2>2
    <3> QED
      BY <3>1 DEF Place
  <2> QED
    BY <1>2, <2>1, <2>2
<1>3. \A i \in 1 .. m : Place(p, 1) <= Place(p, i)
    BY DEF Place
<1> QED
    BY <1>1, <1>2, <1>3

\* The list a with e put in after its first k elements, of elements of A.
Inserted(A, a, k, e) ==
    /\ InsertAt(a, k + 1, e) \in Seq(A) /\ Len(InsertAt(a, k + 1, e)) = Len(a) + 1
    /\ \A i \in 1 .. Len(a) + 1 :
        InsertAt(a, k + 1, e)[i] = IF i <= k THEN a[i] ELSE IF i = k + 1 THEN e ELSE a[i - 1]

\* An element put into a list stands at its place, the others keep their order around it.
LEMMA InsertedIs ==
    ASSUME NEW A, NEW a \in Seq(A), NEW k \in 0 .. Len(a), NEW e \in A
    PROVE  Inserted(A, a, k, e)
BY InsertedAfter DEF Inserted

\* The records of one interface: that of its link layer at its place, and one for each of
\* its addresses, in their order.
LEMMA RecordsOfIs ==
    ASSUME NEW n, NEW interface, NEW S, interface.ipv4 \in Seq(S),
           interface.linkPlace \in 1 .. Len(interface.ipv4) + 1
    PROVE  LET records == RecordsOf(n, interface)
           IN  /\ Len(records) = Len(interface.ipv4) + 1
               /\ records[interface.linkPlace] =
                        [name |-> n, flags |-> interface.flags, family |-> "link",
                         type |-> interface.type, hardware |-> interface.hardware]
               /\ \A i \in 1 .. Len(interface.ipv4) :
                    records[Place(interface.linkPlace, i)] =
                        [name |-> n, flags |-> interface.flags, family |-> "ipv4",
                         address |-> interface.ipv4[i].address,
                         netmask |-> interface.ipv4[i].netmask]
               /\ records \in Seq(Range(records))
<1> DEFINE link == [name |-> n, flags |-> interface.flags, family |-> "link",
                    type |-> interface.type, hardware |-> interface.hardware]
           of(i) == [name |-> n, flags |-> interface.flags, family |-> "ipv4",
                     address |-> interface.ipv4[i].address, netmask |-> interface.ipv4[i].netmask]
           addresses == [i \in DOMAIN interface.ipv4 |-> of(i)]
           m == Len(interface.ipv4)
           p == interface.linkPlace
           A == {link} \cup {of(i) : i \in 1 .. m}
           records == RecordsOf(n, interface)
<1>1. m \in Nat /\ DOMAIN interface.ipv4 = 1 .. m
    OBVIOUS
<1>2. records = InsertAt(addresses, p, link)
    BY DEF RecordsOf
<1>3. p \in 1 .. m + 1
    OBVIOUS
<1> HIDE DEF link, of, m, p
<1>4. addresses \in Seq(A) /\ Len(addresses) = m /\ \A i \in 1 .. m : addresses[i] = of(i)
    BY <1>1
<1>5. link \in A
    OBVIOUS
<1> HIDE DEF addresses, records, A
<1>6. PICK a \in Seq(A) : a = addresses
    BY <1>4
<1>7. /\ records \in Seq(A) /\ Len(records) = m + 1
      /\ \A i \in 1 .. m + 1 :
            records[i] = IF i <= p - 1 THEN a[i] ELSE IF i = (p - 1) + 1 THEN link ELSE a[i - 1]
  <2>1. PICK k \in 0 .. Len(a) : k = p - 1 /\ k + 1 = p /\ Len(a) = m
    BY <1>1, <1>3, <1>4, <1>6
  <2>2. a \in Seq(A) /\ k \in 0 .. Len(a)
    BY <1>6, <2>1
  <2>3. Inserted(A, a, k, link)
    BY <1>5, <2>2, InsertedIs, ZenonT(60)
  <2>4. records = InsertAt(a, k + 1, link)
    BY <1>2, <1>6, <2>1
  <2>5. /\ records \in Seq(A) /\ Len(records) = m + 1
        /\ \A i \in 1 .. m + 1 :
            records[i] = IF i <= k THEN a[i] ELSE IF i = k + 1 THEN link ELSE a[i - 1]
    BY <2>1, <2>3, <2>4, Zenon DEF Inserted
  <2> QED
    BY <2>1, <2>5
<1>8. records[p] = link
    BY <1>1, <1>3, <1>7
<1>9. ASSUME NEW i \in 1 .. m PROVE records[Place(p, i)] = of(i)
  <2>1. a[i] = of(i)
    BY <1>4, <1>6
  <2>2. CASE i < p
    <3>1. i \in 1 .. m + 1 /\ i <= p - 1 /\ Place(p, i) = i
      BY <1>1, <1>3, <2>2 DEF Place
    <3> QED
      BY <1>7, <2>1, <3>1
  <2>3. CASE ~ (i < p)
    <3>1. /\ i + 1 \in 1 .. m + 1 /\ ~ (i + 1 <= p - 1) /\ i + 1 # (p - 1) + 1
          /\ (i + 1) - 1 = i /\ Place(p, i) = i + 1
      BY <1>1, <1>3, <2>3 DEF Place
    <3> QED
      BY <1>7, <2>1, <3>1
  <2> QED
    BY <2>2, <2>3
<1>10. records \in Seq(Range(records))
    BY <1>7 DEF Range
<1>11. /\ Len(records) = m + 1 /\ records[p] = link
       /\ \A i \in 1 .. m : records[Place(p, i)] = of(i)
       /\ records \in Seq(Range(records))
    BY <1>7, <1>8, <1>9, <1>10
<1> QED
    BY <1>11, Zenon DEF records, link, of, m, p

\* The records of interface n are those of its row, right after the first ones.
RecordsAfter(T, n, first) ==
    /\ {i \in DOMAIN Records(T) : Records(T)[i].name = n}
        = first + 1 .. first + (Len(T[n].ipv4) + 1)
    /\ \A j \in 1 .. Len(T[n].ipv4) + 1 : Records(T)[first + j] = RecordsOf(n, T[n])[j]

\* Where the records of each interface are in the list of all.
LEMMA RecordsOfName ==
    ASSUME NEW T, TableTyped(T), NEW n
    PROVE  /\ n \notin Present(T) => {i \in DOMAIN Records(T) : Records(T)[i].name = n} = {}
           /\ n \in Present(T) => \E first \in Nat : RecordsAfter(T, n, first)
<1> DEFINE names == SetToSeq(Present(T))
           seqs == [i \in DOMAIN names |-> RecordsOf(names[i], T[names[i]])]
           R == Records(T)
           S == UNION {Range(RecordsOf(x, T[x])) : x \in Present(T)}
           mine == {i \in DOMAIN R : R[i].name = n}
<1>1. Present(T) \subseteq Name /\ IsFiniteSet(Present(T))
    BY DiscoveryAssumption, FS_Subset DEF Present
<1>2. /\ names \in Seq(Present(T)) /\ DOMAIN names = 1 .. Len(names) /\ Len(names) \in Nat
      /\ \A i, k \in DOMAIN names : names[i] = names[k] => i = k
      /\ \A x \in Present(T) : \E i \in DOMAIN names : names[i] = x
    BY <1>1, SetListed
<1> HIDE DEF names
<1>3. \A x \in Present(T) : T[x].ipv4 \in Seq([address : Address, netmask : Address \cup {Absent}])
    BY DEF TableTyped, Present
<1>4. ASSUME NEW x \in Present(T)
      PROVE  LET records == RecordsOf(x, T[x])
             IN  /\ records \in Seq(S) /\ Len(records) = Len(T[x].ipv4) + 1
                 /\ \A j \in 1 .. Len(records) : records[j].name = x
  <2> DEFINE records == RecordsOf(x, T[x])
             interface == T[x]
  <2>1. PICK ipv4 \in Seq([address : Address, netmask : Address \cup {Absent}]) : ipv4 = interface.ipv4
    BY <1>3
  <2>2. PICK p \in 1 .. Len(ipv4) + 1 : p = interface.linkPlace
    BY <2>1 DEF TableTyped, Present
  <2> HIDE DEF interface
  <2>3. LET all == RecordsOf(x, interface)
        IN  /\ Len(all) = Len(interface.ipv4) + 1
            /\ all[interface.linkPlace] =
                    [name |-> x, flags |-> interface.flags, family |-> "link",
                     type |-> interface.type, hardware |-> interface.hardware]
            /\ \A i \in 1 .. Len(interface.ipv4) :
                  all[Place(interface.linkPlace, i)] =
                      [name |-> x, flags |-> interface.flags, family |-> "ipv4",
                       address |-> interface.ipv4[i].address,
                       netmask |-> interface.ipv4[i].netmask]
            /\ all \in Seq(Range(all))
    <3>1. /\ interface.ipv4 \in Seq([address : Address, netmask : Address \cup {Absent}])
          /\ interface.linkPlace \in 1 .. Len(interface.ipv4) + 1
      BY <2>1, <2>2
    <3> QED
      BY <3>1, RecordsOfIs
  <2>4. records = RecordsOf(x, interface)
    BY DEF interface
  <2> HIDE DEF records
  <2>5. /\ Len(records) = Len(ipv4) + 1 /\ records \in Seq(Range(records))
        /\ records[p] = [name |-> x, flags |-> interface.flags, family |-> "link",
                         type |-> interface.type, hardware |-> interface.hardware]
        /\ \A i \in 1 .. Len(ipv4) :
              records[Place(p, i)] =
                  [name |-> x, flags |-> interface.flags, family |-> "ipv4",
                   address |-> ipv4[i].address, netmask |-> ipv4[i].netmask]
    BY <2>1, <2>2, <2>3, <2>4, Zenon
  <2>6. records[p].name = x
    BY <2>5
  <2>7. ASSUME NEW i \in 1 .. Len(ipv4) PROVE records[Place(p, i)].name = x
    <3> DEFINE address == ipv4[i].address
               netmask == ipv4[i].netmask
               flags == interface.flags
               record == records[Place(p, i)]
    <3>1. record = [name |-> x, flags |-> flags, family |-> "ipv4",
                    address |-> address, netmask |-> netmask]
      BY <2>5, Zenon
    <3> HIDE DEF address, netmask, flags, record
    <3>2. record.name = x
      BY <3>1
    <3> QED
      BY <3>2 DEF record
  <2>8. \A j \in 1 .. Len(records) : records[j].name = x
    <3>1. Len(ipv4) \in Nat
      BY <2>1
    <3>2. \A j \in 1 .. Len(ipv4) + 1 : j # p => \E i \in 1 .. Len(ipv4) : j = Place(p, i)
      BY <2>2, <3>1, PlacesLeft
    <3> QED
      BY <2>5, <2>6, <2>7, <3>2
  <2>9. Range(records) \subseteq S
    BY DEF records
  <2>10. records \in Seq(S)
    <3> HIDE DEF S
    <3> QED
      BY <2>5, <2>9
  <2> QED
    BY <2>1, <2>5, <2>8, <2>10 DEF records, interface
<1> HIDE DEF S
<1>5. seqs \in Seq(Seq(S)) /\ Len(seqs) = Len(names) /\ DOMAIN seqs = DOMAIN names
      /\ \A k \in 1 .. Len(names) :
            /\ names[k] \in Present(T)
            /\ seqs[k] = RecordsOf(names[k], T[names[k]])
    BY <1>2, <1>4
<1>6. R = FlattenSeq(seqs)
    BY DEF Records, names
<1> HIDE DEF seqs, R
<1>7. CASE Present(T) = {}
  <2>1. names = <<>> /\ Len(seqs) = 0 /\ seqs = <<>>
    <3>1. Len(names) = 0
      BY <1>2, <1>7
    <3> QED
      BY <3>1, <1>2, <1>5
  <2>2. R = <<>>
    BY <1>6, <2>1 DEF FlattenSeq
  <2>3. mine = {}
    BY <2>2
  <2> QED
    BY <2>3, <1>7 DEF R
<1>8. CASE Present(T) # {}
  <2>1. seqs # <<>>
    BY <1>2, <1>5, <1>8
  <2>2. R \in Seq(S) /\ \E pos : ArePlaces(pos, seqs, R)
    BY <1>5, <1>6, <2>1, FlattenFacts
  <2>3. PICK pos : ArePlaces(pos, seqs, R)
    BY <2>2
  <2>4. ASSUME NEW i \in DOMAIN R
        PROVE  \E k \in 1 .. Len(names) : \E j \in 1 .. Len(seqs[k]) :
                  i = pos[k - 1] + j /\ R[i].name = names[k]
    <3>1. PICK k \in 1 .. Len(seqs) : \E j \in 1 .. Len(seqs[k]) :
              i = pos[k - 1] + j /\ R[i] = seqs[k][j]
      <4>1. seqs \in Seq(Seq(S)) /\ R \in Seq(S)
        BY <1>5, <2>2
      <4> QED
        BY <4>1, <2>3, <2>4, PlaceInBlock
    <3>2. PICK j \in 1 .. Len(seqs[k]) : i = pos[k - 1] + j /\ R[i] = seqs[k][j]
      BY <3>1
    <3>3. seqs[k][j].name = names[k] /\ k \in 1 .. Len(names)
      <4>1. k \in 1 .. Len(names) /\ names[k] \in Present(T)
            /\ seqs[k] = RecordsOf(names[k], T[names[k]])
        BY <1>5
      <4> QED
        BY <1>4, <3>2, <4>1
    <3> QED
      BY <3>2, <3>3
  <2>5. CASE n \notin Present(T)
    <3>1. mine = {}
      BY <1>5, <2>4, <2>5
    <3> QED
      BY <3>1, <2>5 DEF R
  <2>6. CASE n \in Present(T)
    <3>1. PICK k \in 1 .. Len(names) : names[k] = n
      BY <1>2, <2>6
    <3> DEFINE first == pos[k - 1]
               m == Len(T[n].ipv4)
    <3>2. seqs[k] = RecordsOf(n, T[n]) /\ Len(seqs[k]) = m + 1 /\ m \in Nat
      <4>1. T[n].ipv4 \in Seq([address : Address, netmask : Address \cup {Absent}])
        BY <1>3, <2>6
      <4> QED
        BY SMTT(60), <4>1, <1>4, <1>5, <2>6, <3>1
    <3>3. /\ first \in Nat /\ pos[k] = first + (m + 1) /\ pos[k] <= Len(R)
          /\ \A j \in 1 .. m + 1 : R[first + j] = seqs[k][j]
      <4>1. /\ pos \in [0 .. Len(seqs) -> Nat] /\ pos[k] = pos[k - 1] + Len(seqs[k])
            /\ pos[Len(seqs)] = Len(R)
            /\ \A j \in 1 .. Len(seqs[k]) : R[pos[k - 1] + j] = seqs[k][j]
        BY <1>5, <2>3, <3>1 DEF ArePlaces
      <4>2. k - 1 \in 0 .. Len(seqs) /\ k \in 0 .. Len(seqs) /\ Len(seqs) \in 0 .. Len(seqs) /\ k <= Len(seqs)
        BY <1>2, <1>5, <3>1
      <4>3. pos[k] <= pos[Len(seqs)]
        BY <1>5, <2>3, <4>2, PlacesGrow
      <4> QED
        BY <3>2, <4>1, <4>2, <4>3
    <3>4. mine \subseteq first + 1 .. first + (m + 1)
      <4> SUFFICES ASSUME NEW i \in DOMAIN R, R[i].name = n
                   PROVE  i \in first + 1 .. first + (m + 1)
        OBVIOUS
      <4>1. PICK l \in 1 .. Len(names) : \E j \in 1 .. Len(seqs[l]) :
                i = pos[l - 1] + j /\ R[i].name = names[l]
        BY <2>4
      <4>2. PICK j \in 1 .. Len(seqs[l]) : i = pos[l - 1] + j /\ R[i].name = names[l]
        BY <4>1
      <4>3. l = k
        BY <1>2, <3>1, <4>2
      <4>4. i = first + j /\ j \in 1 .. m + 1
        BY <3>2, <4>2, <4>3
      <4> HIDE DEF first, m
      <4> QED
        BY <3>2, <3>3, <4>4
    <3>5. first + 1 .. first + (m + 1) \subseteq mine
      <4> SUFFICES ASSUME NEW i \in first + 1 .. first + (m + 1)
                   PROVE  i \in DOMAIN R /\ R[i].name = n
        OBVIOUS
      <4> DEFINE j == i - first
      <4> HIDE DEF first, m
      <4>1. j \in 1 .. m + 1 /\ i = first + j
        BY <3>2, <3>3
      <4>2. i \in DOMAIN R
        <5>1. DOMAIN R = 1 .. Len(R) /\ Len(R) \in Nat
          BY <2>2
        <5> QED
          BY <5>1, <3>2, <3>3, <4>1
      <4>3. seqs[k][j].name = n
        BY <1>4, <1>5, <2>6, <3>1, <3>2, <4>1
      <4> QED
        BY <3>3, <4>1, <4>2, <4>3
    <3>6. mine = first + 1 .. first + (m + 1)
      BY <3>4, <3>5
    <3> HIDE DEF mine, first, m
    <3>7. /\ first \in Nat /\ mine = first + 1 .. first + (m + 1)
          /\ \A j \in 1 .. m + 1 : R[first + j] = RecordsOf(n, T[n])[j]
      BY <3>2, <3>3, <3>6
    <3>8. RecordsAfter(T, n, first)
      BY <3>7 DEF RecordsAfter, R, mine, m
    <3> QED
      BY <2>6, <3>7, <3>8
  <2> QED
    BY <2>5, <2>6
<1> QED
    BY <1>7, <1>8

\* The least and the greatest of an interval.
LEMMA EndsOfInterval ==
    ASSUME NEW a \in Nat, NEW b \in Nat, a <= b
    PROVE  Min(a .. b) = a /\ Max(a .. b) = b
<1> DEFINE S == a .. b
<1>1. a \in S /\ b \in S /\ S \subseteq Nat /\ \A x \in S : a <= x /\ x <= b
    OBVIOUS
<1> HIDE DEF S
<1>2. Min(S) \in S /\ \A x \in S : Min(S) <= x
    BY <1>1 DEF Min
<1>3. Max(S) \in S /\ \A x \in S : Max(S) >= x
    BY <1>1 DEF Max
<1>4. Min(S) <= a /\ a <= Min(S) /\ Max(S) >= b /\ Max(S) <= b
    BY <1>1, <1>2, <1>3
<1>5. Min(S) \in Nat /\ Max(S) \in Nat
    BY <1>1, <1>2, <1>3
<1>6. Min(S) = a /\ Max(S) = b
    BY <1>4, <1>5
<1> QED
    BY <1>6 DEF S

\* The least of a set of numbers.
LEMMA LeastOf ==
    ASSUME NEW S \in SUBSET Nat, NEW a \in S, \A x \in S : a <= x
    PROVE  Min(S) = a
<1>1. Min(S) \in S /\ \A x \in S : Min(S) <= x
    BY DEF Min
<1>2. Min(S) <= a /\ a <= Min(S) /\ Min(S) \in Nat /\ a \in Nat
    BY <1>1
<1> QED
    BY <1>2

\* macOS takes exactly the interfaces that README.md calls usable, by their first address,
\* their hardware address and all their addresses (classify_accumulator).
THEOREM ClassifiedIs ==
    ASSUME NEW T, TableTyped(T), NEW n
    PROVE  Classified(Records(T), n) =
              IF n \in Name /\ Usable(T, n)
              THEN [address |-> T[n].ipv4[1].address, netmask |-> T[n].ipv4[1].netmask,
                    hardware |-> T[n].hardware,
                    locals |-> {a.address : a \in Range(T[n].ipv4)}]
              ELSE Absent
<1> DEFINE R == Records(T)
           all == {i \in DOMAIN R : R[i].name = n}
           ipv4 == {i \in all : R[i].family = "ipv4"}
           links == {i \in all : R[i].family = "link" /\ R[i].hardware # Absent}
           head == R[Min(ipv4)]
           link == R[Max(links)]
           last == R[Max(all)]
           locals == {R[i].address : i \in ipv4}
<1>1. Classified(R, n) =
        IF \/ all = {} \/ ~FlagsAllow(last.flags)
           \/ ipv4 = {} \/ head.netmask = Absent
           \/ links = {} \/ link.type # "ethernet" \/ link.hardware = Zero
        THEN Absent
        ELSE [address |-> head.address, netmask |-> head.netmask, hardware |-> link.hardware,
              locals |-> locals]
    BY DEF Classified, Accumulated
<1>2. CASE n \notin Present(T)
  <2>1. all = {}
    BY <1>2, RecordsOfName
  <2>2. ~(n \in Name /\ Usable(T, n))
    BY <1>2 DEF Usable
  <2> HIDE DEF all, ipv4, links, head, link, last, locals, R
  <2>3. Classified(R, n) = Absent
    BY <1>1, <2>1
  <2> QED
    BY <2>2, <2>3 DEF R
<1>3. CASE n \in Present(T)
  <2> DEFINE addresses == T[n].ipv4
             flags == T[n].flags
             type == T[n].type
             hardware == T[n].hardware
             m == Len(addresses)
  <2>1. n \in Name /\ addresses \in Seq([address : Address, netmask : Address \cup {Absent}])
    BY <1>3 DEF Present, TableTyped
  <2>1a. PICK first \in Nat : RecordsAfter(T, n, first)
    BY <1>3, RecordsOfName
  <2>2. /\ first \in Nat /\ all = first + 1 .. first + (m + 1)
        /\ \A j \in 1 .. m + 1 : R[first + j] = RecordsOf(n, T[n])[j]
    BY <2>1a DEF RecordsAfter
  <2>3. PICK p \in 1 .. m + 1 : p = T[n].linkPlace
    BY <1>3 DEF Present, TableTyped
  <2> HIDE DEF all, R
  <2>4. m \in Nat /\ DOMAIN addresses = 1 .. m
    BY <2>1
  <2>5. /\ \A i \in 1 .. m : Place(p, i) \in 1 .. m + 1 /\ Place(p, i) # p
        /\ \A j \in 1 .. m + 1 : j # p => \E i \in 1 .. m : j = Place(p, i)
        /\ \A i \in 1 .. m : Place(p, 1) <= Place(p, i)
    <3> HIDE DEF m
    <3> QED
      BY <2>4, PlacesLeft
  <2>6. /\ R[first + p] = [name |-> n, flags |-> flags, family |-> "link",
                           type |-> type, hardware |-> hardware]
        /\ \A i \in 1 .. m :
              R[first + Place(p, i)] = [name |-> n, flags |-> flags, family |-> "ipv4",
                                        address |-> addresses[i].address,
                                        netmask |-> addresses[i].netmask]
    <3> DEFINE interface == T[n]
               records == RecordsOf(n, interface)
    <3>1. /\ interface.ipv4 \in Seq([address : Address, netmask : Address \cup {Absent}])
          /\ interface.linkPlace \in 1 .. Len(interface.ipv4) + 1
      BY <2>1, <2>3
    <3>2. \A j \in 1 .. m + 1 : R[first + j] = records[j]
      BY <2>2
    <3>3. m = Len(interface.ipv4) /\ addresses = interface.ipv4 /\ flags = interface.flags
          /\ type = interface.type /\ hardware = interface.hardware /\ p = interface.linkPlace
      BY <2>3
    <3> HIDE DEF interface, m, addresses, flags, type, hardware
    <3>4. /\ records[p] = [name |-> n, flags |-> flags, family |-> "link",
                           type |-> type, hardware |-> hardware]
          /\ \A i \in 1 .. m :
                records[Place(p, i)] = [name |-> n, flags |-> flags, family |-> "ipv4",
                                        address |-> addresses[i].address,
                                        netmask |-> addresses[i].netmask]
      BY <3>1, <3>3, RecordsOfIs
    <3> HIDE DEF records
    <3>5. /\ R[first + p] = records[p]
          /\ \A i \in 1 .. m : R[first + Place(p, i)] = records[Place(p, i)]
      BY <2>3, <2>5, <3>2
    <3> QED
      BY <3>4, <3>5
  <2> HIDE DEF addresses, flags, type, hardware, m
  <2>7. /\ R[first + p].family = "link" /\ R[first + p].type = type
        /\ R[first + p].hardware = hardware /\ R[first + p].flags = flags
        /\ first + p \in all /\ first + p \in Nat
    <3>1. first + p \in all /\ first + p \in Nat
      BY <2>2, <2>3, <2>4
    <3> QED
      BY <2>6, <3>1
  <2>8. ASSUME NEW i \in 1 .. m
        PROVE  /\ R[first + Place(p, i)].family = "ipv4" /\ R[first + Place(p, i)].flags = flags
               /\ R[first + Place(p, i)].address = addresses[i].address
               /\ R[first + Place(p, i)].netmask = addresses[i].netmask
               /\ first + Place(p, i) \in all /\ first + Place(p, i) # first + p
    <3> DEFINE address == addresses[i].address
               netmask == addresses[i].netmask
               record == R[first + Place(p, i)]
    <3>1. record = [name |-> n, flags |-> flags, family |-> "ipv4",
                    address |-> address, netmask |-> netmask]
      BY <2>6
    <3>2. first + Place(p, i) \in all /\ first + Place(p, i) # first + p
      <4>1. Place(p, i) \in 1 .. m + 1 /\ Place(p, i) # p
        BY <2>5
      <4> QED
        BY <2>2, <2>3, <2>4, <4>1
    <3> HIDE DEF address, netmask, record
    <3>3. /\ record.family = "ipv4" /\ record.flags = flags
          /\ record.address = address /\ record.netmask = netmask
      BY <3>1
    <3> QED
      BY <3>2, <3>3 DEF record, address, netmask
  <2>9. \A i \in all : i = first + p \/ \E k \in 1 .. m : i = first + Place(p, k)
    <3>1. ASSUME NEW i \in all, i # first + p PROVE \E k \in 1 .. m : i = first + Place(p, k)
      <4>1. i \in first + 1 .. first + (m + 1) /\ p \in Nat
        BY <2>2, <2>3, <2>4, <3>1
      <4>2. i - first \in 1 .. m + 1 /\ i - first # p /\ i = first + (i - first)
        BY <2>4, <3>1, <4>1
      <4>3. PICK k \in 1 .. m : i - first = Place(p, k)
        BY <2>5, <4>2
      <4> QED
        BY <4>2, <4>3
    <3> QED
      BY <3>1
  <2>10. /\ ipv4 = all \ {first + p}
         /\ links = IF hardware = Absent THEN {} ELSE {first + p}
    <3>1. \A i \in all : i # first + p => R[i].family = "ipv4"
      BY <2>8, <2>9
    <3>2. "link" # "ipv4"
      OBVIOUS
    <3> QED
      BY <2>7, <3>1, <3>2
  <2>11. all # {} /\ last.flags = flags
    <3>1. first + 1 \in Nat /\ first + (m + 1) \in Nat /\ first + 1 <= first + (m + 1)
      BY <2>4
    <3>2. Max(all) = first + (m + 1) /\ Max(all) \in all
      BY <2>2, <3>1, EndsOfInterval
    <3>3. R[Max(all)].flags = flags
      BY <2>7, <2>8, <2>9, <3>2
    <3> QED
      BY <3>2, <3>3
  <2>12. addresses # <<>> => 1 \in 1 .. m
    <3>1. PICK s \in Seq([address : Address, netmask : Address \cup {Absent}]) : s = addresses
      BY <2>1 DEF addresses
    <3> QED
      BY <3>1 DEF m
  <2>13. ipv4 = {} <=> addresses = <<>>
    <3>1. ASSUME addresses # <<>> PROVE ipv4 # {}
      BY <2>8, <2>10, <2>12, <3>1
    <3>2. ASSUME addresses = <<>> PROVE ipv4 = {}
      <4>1. m = 0
        BY <3>2 DEF m
      <4> QED
        BY <2>9, <2>10, <4>1
    <3> QED
      BY <3>1, <3>2
  <2>14. ASSUME addresses # <<>>
         PROVE  head.address = addresses[1].address /\ head.netmask = addresses[1].netmask
    <3>1. 1 \in 1 .. m
      BY <2>12, <2>14
    <3>2. Min(ipv4) = first + Place(p, 1)
      <4> DEFINE least == first + Place(p, 1)
      <4>1. least \in ipv4
        BY <2>8, <2>10, <3>1
      <4>2. ipv4 \in SUBSET Nat
        BY <2>2, <2>4, <2>10
      <4>3. ASSUME NEW i \in ipv4 PROVE least <= i
        <5>1. PICK k \in 1 .. m : i = first + Place(p, k)
          BY <2>9, <2>10, <4>3
        <5>2. Place(p, 1) \in Nat /\ Place(p, k) \in Nat /\ Place(p, 1) <= Place(p, k)
          BY <2>4, <2>5, <3>1
        <5> QED
          BY <5>1, <5>2
      <4> HIDE DEF ipv4, least
      <4> QED
        BY <4>1, <4>2, <4>3, LeastOf DEF least
    <3> HIDE DEF ipv4
    <3> QED
      BY <2>8, <3>1, <3>2
  <2>15. ASSUME hardware # Absent
         PROVE  link.type = type /\ link.hardware = hardware
    <3> DEFINE only == first + p
    <3>1. only \in Nat /\ only <= only /\ {only} = only .. only
      BY <2>7
    <3>2. Max({only}) = only
      <4> HIDE DEF only
      <4>1. Max(only .. only) = only
        BY <3>1, EndsOfInterval
      <4> QED
        BY <3>1, <4>1
    <3> HIDE DEF links
    <3> QED
      BY <2>7, <2>10, <2>15, <3>2
  <2>16. locals = {a.address : a \in Range(addresses)}
    <3>1. ASSUME NEW i \in ipv4 PROVE \E a \in Range(addresses) : R[i].address = a.address
      <4>1. PICK k \in 1 .. m : i = first + Place(p, k)
        BY <2>9, <2>10
      <4>2. R[i].address = addresses[k].address /\ addresses[k] \in Range(addresses)
        BY <2>4, <2>8, <4>1 DEF Range
      <4> QED
        BY <4>2
    <3>2. ASSUME NEW a \in Range(addresses) PROVE \E i \in ipv4 : R[i].address = a.address
      <4>1. PICK k \in 1 .. m : a = addresses[k]
        BY <2>4 DEF Range
      <4>2. first + Place(p, k) \in ipv4 /\ R[first + Place(p, k)].address = a.address
        BY <2>8, <2>10, <4>1
      <4> QED
        BY <4>2
    <3> QED
      BY <3>1, <3>2
  <2> HIDE DEF ipv4, links, head, link, last, locals
  <2>17. Usable(T, n) <=>
            /\ type = "ethernet" /\ FlagsAllow(flags)
            /\ addresses # <<>> /\ addresses[1].netmask # Absent
            /\ hardware \notin {Absent, Zero}
    BY <1>3 DEF Usable, FlagsAllow, addresses, flags, type, hardware
  <2>18. links = {} <=> hardware = Absent
    BY <2>10
  <2> DEFINE classified == Classified(R, n)
             whole == [address |-> addresses[1].address, netmask |-> addresses[1].netmask,
                       hardware |-> hardware,
                       locals |-> {a.address : a \in Range(addresses)}]
  <2>19. classified = IF Usable(T, n) THEN whole ELSE Absent
    <3>1. ASSUME Usable(T, n) PROVE classified = whole
      <4>1. classified = [address |-> head.address, netmask |-> head.netmask,
                          hardware |-> link.hardware, locals |-> locals]
        <5> HIDE DEF classified
        <5> QED
          BY <1>1, <2>11, <2>13, <2>14, <2>15, <2>17, <2>18, <3>1 DEF classified
      <4> HIDE DEF classified
      <4> QED
        BY <2>14, <2>15, <2>16, <2>17, <3>1, <4>1
    <3>2. ASSUME ~Usable(T, n) PROVE classified = Absent
      <4>1. \/ ~FlagsAllow(last.flags) \/ ipv4 = {} \/ head.netmask = Absent
            \/ links = {} \/ link.type # "ethernet" \/ link.hardware = Zero
        BY <2>11, <2>13, <2>14, <2>15, <2>17, <2>18, <3>2
      <4> QED
        BY <1>1, <4>1
    <3> HIDE DEF classified, whole
    <3> QED
      BY <3>1, <3>2
  <2> QED
    BY <2>1, <2>19 DEF R, addresses, hardware
<1> QED
    BY <1>2, <1>3
-----------------------------------------------------------------------------
(* What every run keeps to *)

\* The interfaces the host may ever have, and the stages in which the system is asked.
Tables == {start.table : start \in Start} \cup Changed
Asking == {"resolve", "candidate", "perform", "open"}

Question ==
    {"records", "index", "flags", "address", "netmask", "hardware", "addresses", "socket", "bind",
     "device", "attach", "configure"}

\* The fields of a row, and what is known of them.
RowTyped(r) ==
    /\ r = [name |-> r.name, index |-> r.index, flags |-> r.flags, address |-> r.address,
            netmask |-> r.netmask, hardware |-> r.hardware, locals |-> r.locals]
    /\ r.name \in Name \cup InvalidName \cup {None}
    /\ r.index \in Nat \cup {Absent}
    /\ r.address \in Address \cup {Absent} /\ r.netmask \in Address \cup {Absent}
    /\ r.address # Absent => r.name \in Name

RowsTyped(rows) ==
    /\ rows \in Seq(Range(rows))
    /\ \A i \in DOMAIN rows : RowTyped(rows[i]) /\ rows[i].name \in Name

\* The questions that tell a field, and a field that is told or will be.
Tells == [f \in {"index", "address", "netmask"} |->
            IF f = "index" THEN {"index", "attach"} ELSE {f, "records"}]

Told(f) == row[f] # Absent \/ \E p \in DOMAIN agenda : agenda[p] \in Tells[f]

HostInv ==
    /\ past \in Seq(Tables) /\ past # <<>> /\ Len(past) <= MaxChanges + 1
    /\ faults \in 0 .. MaxFaults

StageInv ==
    /\ platform \in Platform /\ LineTyped(line)
    /\ stage \in {"parse", "convert", "check", "resolve", "enumerate", "candidate",
                  "perform", "open", "done"}
    /\ stage \in Asking \cup {"enumerate"} => platform # "other"
    /\ command \in {None, CommandOf(line)}
    /\ stage \notin {"parse", "convert", "done"} => command = CommandOf(line)
    /\ stage \in {"resolve", "perform", "open"} => command.kind # "list"
    /\ stage = "resolve" => Given(command.interface)
    /\ result \in Verdict \cup {None}
    /\ (result # None) <=> (stage = "done")

ReadingInv ==
    /\ agenda \in Seq(Question)
    /\ stage \notin Asking => agenda = <<>>
    /\ RowTyped(row) /\ RowsTyped(pending) /\ RowsTyped(candidates)
    /\ stage = "candidate" => row.name \in Name
    /\ stage = "perform" => Told("address") /\ Told("netmask")
    /\ stage = "open" => Told("index")

OutcomeInv ==
    /\ stage \notin {"open", "done"} => plan = None /\ found = None
    /\ found # None =>
        /\ command = CommandOf(line)
        /\ found.name \in Name /\ found.address \in Address /\ found.netmask \in Address
        /\ plan = IF command.kind = "scan" /\ PlanAccepted(found.address, found.netmask)
                  THEN IF Given(command.host) THEN ProbePlan(command.host)
                       ELSE FullPlan(found.address, found.netmask)
                  ELSE None
    /\ plan # None => Range(plan.targets) \subseteq Address
    /\ endpoint \in Nat \cup {None}

RunInv == HostInv /\ StageInv /\ ReadingInv /\ OutcomeInv

\* What the answer to a question is, when it is not an error.
LEMMA ReplyTyped ==
    ASSUME HostInv, NEW question \in Question, Reply(question) # Absent
    PROVE  /\ question = "records" =>
                /\ row.name \in Name
                /\ Reply(question).address \in Address /\ Reply(question).netmask \in Address
           /\ question \in {"index", "attach"} => Reply(question) \in Nat
           /\ question \in {"address", "netmask"} => Reply(question) \in Address
           /\ question = "address" => row.name \in Name
<1> DEFINE reply == Reply(question)
           n == row.name
           T == Table
<1>1. TableTyped(T)
  <2>1. T \in Tables
    BY DEF HostInv, Table, Last
  <2> QED
    BY <2>1, CommandAssumption DEF Tables
<1> HIDE DEF T
<1>2. ASSUME n \in Name, T[n] # Absent
      PROVE  /\ T[n].index \in Nat
             /\ T[n].ipv4 \in Seq([address : Address, netmask : Address \cup {Absent}])
    BY <1>1, <1>2 DEF TableTyped
<1>3. ASSUME n \in Name, T[n] # Absent, T[n].ipv4 # <<>>
      PROVE  T[n].ipv4[1].address \in Address /\ T[n].ipv4[1].netmask \in Address \cup {Absent}
  <2> DEFINE R == [address : Address, netmask : Address \cup {Absent}]
  <2>1. PICK s : s = T[n].ipv4 /\ s \in Seq(R) /\ s # <<>>
    BY <1>2, <1>3
  <2> HIDE DEF R
  <2>2. s[1] \in R
    BY <2>1
  <2>3. s[1].address \in Address /\ s[1].netmask \in Address \cup {Absent}
    BY <2>2 DEF R
  <2> QED
    BY <2>1, <2>3
<1>4. CASE question = "records"
  <2>1. reply = Classified(Records(T), n)
    BY <1>4 DEF Reply, T
  <2>2. n \in Name /\ Usable(T, n)
    BY <1>1, <2>1, ClassifiedIs
  <2>3. /\ T[n] # Absent /\ T[n].ipv4 # <<>> /\ T[n].ipv4[1].netmask # Absent
    BY <2>2 DEF Usable, Present
  <2>4. reply = [address |-> T[n].ipv4[1].address, netmask |-> T[n].ipv4[1].netmask,
                 hardware |-> T[n].hardware, locals |-> {a.address : a \in Range(T[n].ipv4)}]
    BY <1>1, <2>1, <2>2, ClassifiedIs
  <2>5. reply.address = T[n].ipv4[1].address /\ reply.netmask = T[n].ipv4[1].netmask
    <3> DEFINE hardware == T[n].hardware
               locals == {a.address : a \in Range(T[n].ipv4)}
               address == T[n].ipv4[1].address
               netmask == T[n].ipv4[1].netmask
    <3>1. reply = [address |-> address, netmask |-> netmask, hardware |-> hardware, locals |-> locals]
      BY <2>4
    <3> HIDE DEF reply, hardware, locals, address, netmask
    <3>2. reply.address = address /\ reply.netmask = netmask
      BY <3>1
    <3> QED
      BY <3>2 DEF address, netmask
  <2> QED
    BY <1>3, <1>4, <2>2, <2>3, <2>5
<1>5. CASE question \in {"index", "attach", "address", "netmask"}
  <2> DEFINE asked == IF question = "attach" THEN "index" ELSE question
  <2>1. reply = Answer(T, n, asked)
    BY <1>5 DEF Reply, T
  <2>2. n \in Name /\ T[n] # Absent
    BY <1>5, <2>1 DEF Answer
  <2>3. asked \in {"index", "address", "netmask"}
    BY <1>5
  <2> HIDE DEF asked
  <2>4. /\ asked = "index" => reply = T[n].index
        /\ asked = "address" => T[n].ipv4 # <<>> /\ reply = T[n].ipv4[1].address
        /\ asked = "netmask" => T[n].ipv4 # <<>> /\ reply = T[n].ipv4[1].netmask
    BY <2>1, <2>2, <2>3 DEF Answer
  <2>5. /\ asked = "index" => reply \in Nat
        /\ asked \in {"address", "netmask"} => reply \in Address
    BY <1>2, <1>3, <2>2, <2>4
  <2> QED
    BY <1>5, <2>2, <2>5 DEF asked
<1>6. CASE question \notin {"records", "index", "attach", "address", "netmask"}
    BY <1>6
<1> QED
    BY <1>4, <1>5, <1>6

\* An answer completes the row.
LEMMA RowAnswered ==
    ASSUME HostInv, ReadingInv, CallAnswered
    PROVE  /\ RowTyped(row)' /\ row'.name = row.name
           /\ agenda' \in Seq(Question)
           /\ \A f \in {"index", "address", "netmask"} : Told(f) => Told(f)'
<1> DEFINE question == Head(agenda)
           reply == Reply(question)
<1>1. /\ agenda # <<>> /\ agenda \in Seq(Question)
      /\ row' = Learnt(question, reply) /\ agenda' = Tail(agenda) /\ reply # Absent
    BY DEF CallAnswered, ReadingInv
<1>2. /\ question \in Question /\ agenda' \in Seq(Question)
      /\ \A p \in DOMAIN agenda : p = 1 \/ (p - 1 \in DOMAIN agenda' /\ agenda'[p - 1] = agenda[p])
      /\ agenda[1] = question
    BY <1>1
<1>3. RowTyped(row)
    BY DEF ReadingInv
<1>4. /\ question = "records" =>
                /\ row.name \in Name /\ reply.address \in Address /\ reply.netmask \in Address
      /\ question \in {"index", "attach"} => reply \in Nat
      /\ question \in {"address", "netmask"} => reply \in Address
      /\ question = "address" => row.name \in Name
    BY <1>1, <1>2, ReplyTyped
<1>5. Absent \notin Nat /\ Absent \notin Address
    BY DiscoveryAssumption, WidthAssumption, PowerType DEF Address
<1> HIDE DEF question, reply
<1>6. /\ RowTyped(row') /\ row'.name = row.name
      /\ \A f \in {"index", "address", "netmask"} :
            (row[f] # Absent \/ question \in Tells[f]) => row'[f] # Absent
  <2>1. CASE question = "records"
    <3>1. row' = [row EXCEPT !.address = reply.address, !.netmask = reply.netmask,
                             !.hardware = reply.hardware, !.locals = reply.locals]
      BY <1>1, <2>1 DEF Learnt, Identified
    <3>2. /\ row' = [name |-> row.name, index |-> row.index, flags |-> row.flags,
                     address |-> reply.address, netmask |-> reply.netmask,
                     hardware |-> reply.hardware, locals |-> reply.locals]
      BY <1>3, <3>1 DEF RowTyped
    <3> QED
      BY <1>3, <1>4, <1>5, <2>1, <3>2 DEF RowTyped, Tells
  <2>2. CASE question \in {"socket", "bind", "device", "configure"}
    <3>1. row' = row
      BY <1>1, <2>2 DEF Learnt
    <3> QED
      BY <1>3, <2>2, <3>1 DEF Tells
  <2>3. CASE question = "addresses"
    <3>1. row' = [row EXCEPT !.locals = reply \cup {row.address}]
      BY <1>1, <2>3 DEF Learnt
    <3>2. /\ row' = [name |-> row.name, index |-> row.index, flags |-> row.flags,
                     address |-> row.address, netmask |-> row.netmask,
                     hardware |-> row.hardware, locals |-> reply \cup {row.address}]
      BY <1>3, <3>1 DEF RowTyped
    <3> QED
      BY <1>3, <2>3, <3>2 DEF RowTyped, Tells
  <2>4. CASE question \in {"index", "attach"}
    <3>1. row' = [row EXCEPT !.index = reply]
      BY <1>1, <2>4 DEF Learnt
    <3>2. /\ row' = [name |-> row.name, index |-> reply, flags |-> row.flags,
                     address |-> row.address, netmask |-> row.netmask,
                     hardware |-> row.hardware, locals |-> row.locals]
      BY <1>3, <3>1 DEF RowTyped
    <3> QED
      BY <1>3, <1>4, <1>5, <2>4, <3>2 DEF RowTyped, Tells
  <2>5. CASE question \in {"flags", "address", "netmask", "hardware"}
    <3>1. row' = [row EXCEPT ![question] = reply]
      BY <1>1, <2>5 DEF Learnt
    <3>2. row' = [name |-> row.name, index |-> row.index,
                  flags |-> IF question = "flags" THEN reply ELSE row.flags,
                  address |-> IF question = "address" THEN reply ELSE row.address,
                  netmask |-> IF question = "netmask" THEN reply ELSE row.netmask,
                  hardware |-> IF question = "hardware" THEN reply ELSE row.hardware,
                  locals |-> row.locals]
      BY <1>3, <2>5, <3>1 DEF RowTyped
    <3> QED
      BY <1>3, <1>4, <1>5, <2>5, <3>2 DEF RowTyped, Tells
  <2> QED
    BY <1>2, <2>1, <2>2, <2>3, <2>4, <2>5 DEF Question
<1>7. ASSUME NEW f \in {"index", "address", "netmask"}, Told(f) PROVE Told(f)'
  <2>1. CASE row[f] # Absent
    BY <1>6, <2>1 DEF Told
  <2>2. ASSUME NEW p \in DOMAIN agenda, agenda[p] \in Tells[f] PROVE Told(f)'
    <3>1. CASE p = 1
      BY <1>2, <1>6, <2>2, <3>1 DEF Told
    <3>2. CASE p # 1
      BY <1>2, <2>2, <3>2 DEF Told
    <3> QED
      BY <3>1, <3>2
  <2> QED
    BY <1>7, <2>1, <2>2 DEF Told
<1> QED
    BY <1>2, <1>6, <1>7

\* The host: its history grows by the tables that it may come to have, up to the bound.
LEMMA HostKept ==
    ASSUME HostInv, [Next]_vars
    PROVE  HostInv'
<1>1. CASE HostChanges
  <2>1. PICK table \in Changed : past' = Append(past, table)
    BY <1>1 DEF HostChanges
  <2>2. table \in Tables /\ Len(past) <= MaxChanges /\ faults' = faults
    BY <1>1 DEF HostChanges, Tables
  <2>3. past \in Seq(Tables) /\ MaxChanges \in Nat
    BY CommandAssumption DEF HostInv
  <2>4. past' \in Seq(Tables) /\ past' # <<>> /\ Len(past') = Len(past) + 1
    BY <2>1, <2>2, <2>3
  <2> QED
    BY <2>2, <2>3, <2>4 DEF HostInv
<1>2. ASSUME ~HostChanges
      PROVE  past' = past /\ (faults' = faults \/ (faults < MaxFaults /\ faults' = faults + 1))
    BY <1>2 DEF Next, vars, host, ParseLine, VendorsRefused, MakeCommand, CheckRefuses, CallAnswered,
           CallRefused, ResolveExplicit, Enumerate, LookAtNext, KeepCandidate, EnumerationEnds,
           Chosen, MakePlan, Opened
<1>3. CASE ~HostChanges
  <2>1. faults \in 0 .. MaxFaults /\ MaxFaults \in Nat
    BY CommandAssumption DEF HostInv
  <2>2. faults' \in 0 .. MaxFaults
    BY <1>2, <1>3, <2>1
  <2> QED
    BY <1>2, <1>3, <2>2 DEF HostInv
<1> QED
    BY <1>1, <1>3

\* Where the run is, and what it runs.
LEMMA StageKept ==
    ASSUME StageInv, [Next]_vars
    PROVE  StageInv'
<1> DEFINE stages == {"parse", "convert", "check", "resolve", "enumerate", "candidate",
                      "perform", "open", "done"}
<1>1. UNCHANGED <<platform, line>>
    BY DEF Next, vars, input, ParseLine, VendorsRefused, MakeCommand, CheckRefuses, CallAnswered,
           CallRefused, ResolveExplicit, Enumerate, LookAtNext, KeepCandidate, EnumerationEnds,
           Chosen, MakePlan, Opened, HostChanges
<1>2. None \notin Verdict
    BY CommandAssumption
\* A step within a stage, or to a stage that keeps the command.
<1>3. ASSUME command' = command, result' = result, stage # "done", stage' \in stages \ {"done"},
             stage' \in Asking \cup {"enumerate"} => platform # "other",
             stage' \notin {"parse", "convert"} => command = CommandOf(line),
             stage' \in {"resolve", "perform", "open"} => command.kind # "list",
             stage' = "resolve" => Given(command.interface)
      PROVE  StageInv'
    BY <1>1, <1>3 DEF StageInv, CommandOf
<1>4. ASSUME command' = command, stage' = "done", result' \in Verdict
      PROVE  StageInv'
    BY <1>1, <1>2, <1>4 DEF StageInv, CommandOf, Asking
<1>5. CASE ParseLine
  <2>1. stage = "parse" /\ command' = command
        /\ \/ stage' = "convert" /\ result' = result
           \/ stage' = "done" /\ result' = "usage"
    BY <1>5 DEF ParseLine, EndsWith, outcome
  <2> QED
    BY <2>1, <1>3, <1>4 DEF Asking, Verdict
<1>6. CASE VendorsRefused
  <2>1. command' = command /\ stage' = "done" /\ result' = "vendors"
    BY <1>6 DEF VendorsRefused, EndsWith
  <2> QED
    BY <2>1, <1>4 DEF Verdict
<1>7. CASE MakeCommand
  <2>1. stage = "convert"
        /\ \/ command' = CommandOf(line) /\ stage' = "check" /\ result' = result
           \/ command' = command /\ stage' = "done" /\ result' = "panic"
    BY <1>7 DEF MakeCommand, EndsWith, outcome, CommandOf
  <2>2. CASE command' = CommandOf(line) /\ stage' = "check" /\ result' = result
    BY <2>1, <2>2, <1>1 DEF StageInv, CommandOf, Asking
  <2>3. CASE command' = command /\ stage' = "done" /\ result' = "panic"
    BY <2>3, <1>4 DEF Verdict
  <2> QED
    BY <2>1, <2>2, <2>3
<1>8. CASE CheckRefuses
  <2>1. command' = command /\ stage' = "done" /\ result' = Refusal /\ Refusal # None
    BY <1>8 DEF CheckRefuses, EndsWith
  <2>2. Refusal \in Verdict \cup {None}
    BY DEF Refusal, Verdict
  <2> QED
    BY <2>1, <2>2, <1>4
<1>9. CASE CallAnswered \/ HostChanges \/ UNCHANGED vars
    BY <1>1, <1>9 DEF CallAnswered, HostChanges, vars, outcome, StageInv, CommandOf
<1>10. CASE CallRefused
  <2>1. /\ command' = command
        /\ \/ stage = "candidate" /\ stage' = "enumerate" /\ result' = result
           \/ stage' = "done" /\ result' = "interface"
    BY <1>10 DEF CallRefused, EndsWith, outcome
  <2> QED
    BY <2>1, <1>3, <1>4 DEF StageInv, Asking, Verdict
<1>11. CASE ResolveExplicit \/ Enumerate
  <2>1. /\ command' = command /\ stage = "check" /\ Refusal = None
        /\ \/ stage' = "resolve" /\ command.kind # "list" /\ Given(command.interface)
              /\ result' = result
           \/ stage' = "enumerate" /\ result' = result
           \/ stage' = "done" /\ result' = "interface"
    BY <1>11 DEF ResolveExplicit, Enumerate, Asks, EndsWith, outcome
  <2>2. platform # "other"
    <3>1. None \notin {"tags", "clientData", "timing", "name", "unsupported"}
      BY <1>2 DEF Verdict
    <3> QED
      BY <2>1, <3>1 DEF Refusal
  <2> QED
    BY <2>1, <2>2, <1>3, <1>4 DEF StageInv, Verdict
<1>12. CASE LookAtNext \/ KeepCandidate
  <2>1. /\ command' = command /\ result' = result
        /\ stage \in {"enumerate", "candidate"} /\ stage' \in {"candidate", "enumerate"}
    BY <1>12 DEF LookAtNext, KeepCandidate, Complete, Asks, outcome
  <2> QED
    BY <2>1, <1>3 DEF StageInv, Asking
<1>13. CASE EnumerationEnds
  <2>1. command' = command /\ stage' = "done" /\ result' \in {"listed", "noneFound", "ambiguous"}
    BY <1>13 DEF EnumerationEnds, EndsWith
  <2> QED
    BY <2>1, <1>4 DEF Verdict
<1>14. CASE Chosen
  <2>1. /\ command' = command /\ result' = result /\ stage' = "perform"
        /\ \/ stage = "resolve"
           \/ stage = "enumerate" /\ command.kind # "list"
    BY <1>14 DEF Chosen, Complete, Asks, outcome
  <2> QED
    BY <2>1, <1>3 DEF StageInv, Asking
<1>15. CASE MakePlan
  <2>1. /\ command' = command /\ stage = "perform"
        /\ \/ stage' = "open" /\ result' = result
           \/ stage' = "done" /\ result' = "plan"
    BY <1>15 DEF MakePlan, Complete, Asks, EndsWith
  <2> QED
    BY <2>1, <1>3, <1>4 DEF StageInv, Asking, Verdict
<1>16. CASE Opened
  <2>1. command' = command /\ stage' = "done" /\ result' = "opened"
    BY <1>16 DEF Opened
  <2> QED
    BY <2>1, <1>4 DEF Verdict
<1> QED
    BY <1>5, <1>6, <1>7, <1>8, <1>9, <1>10, <1>11, <1>12, <1>13, <1>14, <1>15, <1>16 DEF Next

\* A row of which only the name is known.
LEMMA NoRowTyped ==
    ASSUME NEW n \in Name \cup InvalidName \cup {None}
    PROVE  RowTyped(NoRow(n)) /\ NoRow(n).name = n
BY DEF NoRow, RowTyped

\* The rows that are left when the first is taken.
LEMMA RowsTail ==
    ASSUME NEW rows, RowsTyped(rows), rows # <<>>
    PROVE  RowTyped(Head(rows)) /\ Head(rows).name \in Name /\ RowsTyped(Tail(rows))
<1> DEFINE T == Range(rows)
<1>1. PICK r \in Seq(T) : r = rows
    BY DEF RowsTyped
<1>2. r # <<>> /\ \A i \in DOMAIN r : RowTyped(r[i]) /\ r[i].name \in Name
    BY <1>1 DEF RowsTyped
<1> HIDE DEF T
<1>3. 1 \in DOMAIN r /\ Head(r) = r[1]
    BY <1>2
<1>4. /\ Tail(r) \in Seq(T)
      /\ \A i \in DOMAIN Tail(r) : i + 1 \in DOMAIN r /\ Tail(r)[i] = r[i + 1]
    BY <1>2
<1>5. Tail(r) \in Seq(Range(Tail(r)))
    BY <1>4, SequenceOfItsOwn
<1> QED
    BY <1>1, <1>2, <1>3, <1>4, <1>5 DEF RowsTyped

\* The rows with one more among them.
LEMMA RowsInsert ==
    ASSUME NEW rows, RowsTyped(rows), NEW r, RowTyped(r), r.name \in Name, NEW n \in 0 .. Len(rows)
    PROVE  RowsTyped(InsertAt(rows, n + 1, r))
<1> DEFINE T == Range(rows) \cup {r}
           t == InsertAt(rows, n + 1, r)
<1>1. rows \in Seq(T) /\ r \in T
    BY DEF RowsTyped
<1> HIDE DEF T
<1>2. /\ t \in Seq(T) /\ Len(t) = Len(rows) + 1
      /\ \A i \in 1 .. Len(rows) + 1 :
            t[i] = IF i <= n THEN rows[i] ELSE IF i = n + 1 THEN r ELSE rows[i - 1]
  <2>1. /\ InsertAt(rows, n + 1, r) \in Seq(T) /\ Len(InsertAt(rows, n + 1, r)) = Len(rows) + 1
        /\ \A i \in 1 .. Len(rows) + 1 :
            InsertAt(rows, n + 1, r)[i] =
                IF i <= n THEN rows[i] ELSE IF i = n + 1 THEN r ELSE rows[i - 1]
    BY <1>1, InsertedAfter, SMTT(60)
  <2> HIDE DEF t
  <2> QED
    BY <2>1 DEF t
<1>3. Len(rows) \in Nat /\ DOMAIN rows = 1 .. Len(rows)
    BY <1>1
<1> HIDE DEF t
<1>4. DOMAIN t = 1 .. Len(rows) + 1 /\ t \in Seq(Range(t))
    BY <1>2, SequenceOfItsOwn
<1>5. ASSUME NEW i \in DOMAIN t PROVE RowTyped(t[i]) /\ t[i].name \in Name
  <2>1. t[i] = r \/ \E k \in DOMAIN rows : t[i] = rows[k]
    <3>1. CASE i <= n
      BY <1>2, <1>3, <1>4, <3>1
    <3>2. CASE i = n + 1
      BY <1>2, <1>4, <3>2
    <3>3. CASE i > n + 1
      <4>1. i - 1 \in DOMAIN rows /\ t[i] = rows[i - 1]
        BY <1>2, <1>3, <1>4, <3>3
      <4> QED
        BY <4>1
    <3> QED
      BY <1>3, <1>4, <3>1, <3>2, <3>3
  <2> QED
    BY <2>1 DEF RowsTyped
<1> QED
    BY <1>4, <1>5 DEF RowsTyped, t

\* The present interfaces are typed.
LEMMA TableIsTyped ==
    ASSUME HostInv
    PROVE  Table \in Tables /\ TableTyped(Table)
<1>1. Table \in Tables
    BY DEF HostInv, Table, Last
<1> QED
    BY <1>1, CommandAssumption DEF Tables

\* What an enumeration begins with.
LEMMA ListedTyped ==
    ASSUME HostInv
    PROVE  RowsTyped(Listed)
<1> DEFINE names == IF platform = "linux" THEN Present(Table)
                    ELSE {n \in Name : Classified(Records(Table), n) # Absent}
           rowOf(n) == IF platform = "linux" THEN [NoRow(n) EXCEPT !.index = Table[n].index]
                       ELSE Identified(NoRow(n), Classified(Records(Table), n))
           sequence == SetToSeq(names)
           T == Table
<1>1. TableTyped(T)
    BY TableIsTyped
<1>2. names \subseteq Name /\ IsFiniteSet(names)
    BY DiscoveryAssumption, FS_Subset DEF Present
<1>3. /\ sequence \in Seq(names) /\ DOMAIN sequence = 1 .. Len(sequence) /\ Len(sequence) \in Nat
      /\ \A i \in 1 .. Len(sequence) : sequence[i] \in names
  <2> HIDE DEF names, rowOf
  <2>1. sequence \in Seq(names)
    BY <1>2, SetListed
  <2> HIDE DEF sequence
  <2> QED
    BY <2>1
<1> HIDE DEF T
<1>4. ASSUME NEW n \in names PROVE RowTyped(rowOf(n)) /\ rowOf(n).name = n
  <2>1. CASE platform = "linux"
    <3>1. n \in Name /\ T[n] # Absent
      BY <2>1 DEF T, Present
    <3>2. T[n].index \in Nat
      BY <1>1, <3>1 DEF TableTyped
    <3>3. rowOf(n) = [name |-> n, index |-> T[n].index, flags |-> Absent, address |-> Absent,
                      netmask |-> Absent, hardware |-> Absent, locals |-> {}]
      BY <2>1 DEF NoRow, T
    <3> HIDE DEF rowOf, names
    <3> QED
      BY <3>1, <3>2, <3>3 DEF RowTyped
  <2>2. CASE platform # "linux"
    <3> DEFINE c == Classified(Records(T), n)
    <3>1. n \in Name /\ c # Absent
      BY <2>2 DEF T
    <3>2. Usable(T, n)
      BY <1>1, <3>1, ClassifiedIs
    <3>3. c = [address |-> T[n].ipv4[1].address, netmask |-> T[n].ipv4[1].netmask,
               hardware |-> T[n].hardware, locals |-> {a.address : a \in Range(T[n].ipv4)}]
      BY <1>1, <3>1, <3>2, ClassifiedIs
    <3>4. T[n] # Absent /\ T[n].ipv4 # <<>> /\ T[n].ipv4[1].netmask # Absent
      BY <3>2 DEF Usable, Present
    <3>5. T[n].ipv4[1].address \in Address /\ T[n].ipv4[1].netmask \in Address
      <4> DEFINE R == [address : Address, netmask : Address \cup {Absent}]
      <4>1. PICK s : s = T[n].ipv4 /\ s \in Seq(R) /\ s # <<>>
        BY <1>1, <3>1, <3>4 DEF TableTyped
      <4> HIDE DEF R
      <4>2. s[1] \in R
        BY <4>1
      <4>3. s[1].address \in Address /\ s[1].netmask \in Address \cup {Absent}
        BY <4>2 DEF R
      <4> QED
        BY <3>4, <4>1, <4>3
    <3> DEFINE address == T[n].ipv4[1].address
               netmask == T[n].ipv4[1].netmask
               hardware == T[n].hardware
               locals == {a.address : a \in Range(T[n].ipv4)}
    <3>6. c = [address |-> address, netmask |-> netmask, hardware |-> hardware, locals |-> locals]
      BY <3>3
    <3>7. rowOf(n) = Identified(NoRow(n), c)
      BY <2>2 DEF T
    <3>8. address \in Address /\ netmask \in Address
      BY <3>5
    <3> HIDE DEF rowOf, names, address, netmask, hardware, locals, c
    <3>9. rowOf(n) = [name |-> n, index |-> Absent, flags |-> Absent, address |-> address,
                      netmask |-> netmask, hardware |-> hardware, locals |-> locals]
      BY <3>6, <3>7 DEF NoRow, Identified
    <3> QED
      BY <3>1, <3>8, <3>9 DEF RowTyped
  <2> QED
    BY <2>1, <2>2
<1> DEFINE listed == [i \in DOMAIN sequence |-> rowOf(sequence[i])]
<1>5. Listed = listed
    BY DEF Listed
<1> HIDE DEF names, rowOf, sequence
<1>6. \A i \in DOMAIN listed : RowTyped(listed[i]) /\ listed[i].name \in Name
    BY <1>2, <1>3, <1>4
<1>7. listed \in Seq(Range(listed))
    BY <1>3 DEF Range
<1> HIDE DEF listed
<1> QED
    BY <1>5, <1>6, <1>7 DEF RowsTyped

\* The questions of a call.
LEMMA QuestionsTyped ==
    /\ ResolveQuestions \in Seq(Question) /\ CandidateQuestions \in Seq(Question)
    /\ PerformQuestions \in Seq(Question) /\ OpenQuestions \in Seq(Question)
<1>1. /\ <<"index", "flags", "address", "netmask", "hardware">> \in Seq(Question)
      /\ <<"records">> \in Seq(Question) /\ <<"index">> \in Seq(Question)
      /\ <<"flags", "address", "netmask", "hardware">> \in Seq(Question)
    BY DEF Question
<1>2. /\ <<"index", "flags", "address", "netmask", "hardware", "addresses">> \in Seq(Question)
      /\ <<"index", "flags", "socket", "bind">> \in Seq(Question)
      /\ <<"device", "attach", "configure">> \in Seq(Question)
    BY DEF Question
<1>3. PerformQuestions \in {<<"records">>, <<"index", "flags", "address", "netmask", "hardware">>,
                            <<"index", "flags", "address", "netmask", "hardware", "addresses">>}
    BY DEF PerformQuestions
<1> QED
    BY <1>1, <1>2, <1>3 DEF ResolveQuestions, CandidateQuestions, OpenQuestions

\* Before the plan the address and the netmask are asked.
LEMMA PerformAsks ==
    ASSUME agenda' = PerformQuestions
    PROVE  Told("address")' /\ Told("netmask")'
<1>1. CASE PerformQuestions = <<"records">>
  <2>1. 1 \in DOMAIN agenda' /\ agenda'[1] = "records"
    BY <1>1
  <2> QED
    BY <2>1 DEF Told, Tells
<1>2. CASE \/ PerformQuestions = <<"index", "flags", "address", "netmask", "hardware">>
           \/ PerformQuestions = <<"index", "flags", "address", "netmask", "hardware", "addresses">>
  <2>1. {3, 4} \subseteq DOMAIN agenda' /\ agenda'[3] = "address" /\ agenda'[4] = "netmask"
    BY <1>2
  <2> QED
    BY <2>1 DEF Told, Tells
<1> QED
    BY <1>1, <1>2 DEF PerformQuestions

\* To open an endpoint its index is asked.
LEMMA OpenAsks ==
    ASSUME agenda' = OpenQuestions
    PROVE  Told("index")'
<1>1. CASE OpenQuestions = <<"index", "flags", "socket", "bind">>
  <2>1. 1 \in DOMAIN agenda' /\ agenda'[1] = "index"
    BY <1>1
  <2> QED
    BY <2>1 DEF Told, Tells
<1>2. CASE OpenQuestions = <<"device", "attach", "configure">>
  <2>1. 2 \in DOMAIN agenda' /\ agenda'[2] = "attach"
    BY <1>2
  <2> QED
    BY <2>1 DEF Told, Tells
<1> QED
    BY <1>1, <1>2 DEF OpenQuestions

\* What the library has read, and asks.
LEMMA ReadingKept ==
    ASSUME HostInv, StageInv, ReadingInv, [Next]_vars
    PROVE  ReadingInv'
<1>1. CASE CallAnswered
  <2>1. stage' = stage /\ pending' = pending /\ candidates' = candidates /\ agenda # <<>>
    BY <1>1 DEF CallAnswered
  <2>2. stage \in Asking
    BY <2>1 DEF ReadingInv
  <2>3. /\ RowTyped(row)' /\ row'.name = row.name /\ agenda' \in Seq(Question)
        /\ \A f \in {"index", "address", "netmask"} : Told(f) => Told(f)'
    BY <1>1, RowAnswered
  <2> QED
    BY <2>1, <2>2, <2>3 DEF ReadingInv, RowsTyped, RowTyped
\* Nothing is read, or the call is over.
<1>2. ASSUME /\ row' = row /\ candidates' = candidates
             /\ agenda' = agenda \/ agenda' = <<>>
             /\ pending' = pending \/ pending' = Listed
             /\ stage' \notin Asking
             /\ agenda = <<>> \/ agenda' = <<>>
      PROVE  ReadingInv'
  <2>1. agenda' \in Seq(Question) /\ agenda' = <<>>
    <3>1. <<>> \in Seq(Question)
      OBVIOUS
    <3> QED
      BY <1>2, <3>1
  <2>2. RowsTyped(pending')
    BY <1>2, ListedTyped DEF ReadingInv
  <2> QED
    BY <1>2, <2>1, <2>2 DEF ReadingInv, Asking, RowTyped, RowsTyped
\* A call begins.
<1>3. ASSUME NEW questions, NEW next, NEW about,
             Asks(next, about, questions), questions \in Seq(Question), RowTyped(about),
             next \in Asking, candidates' = candidates, RowsTyped(pending'),
             next = "candidate" => about.name \in Name,
             next = "perform" => questions = PerformQuestions,
             next = "open" => questions = OpenQuestions
      PROVE  ReadingInv'
  <2>1. stage' = next /\ row' = about /\ agenda' = questions
    BY <1>3 DEF Asks
  <2>2. /\ next = "perform" => Told("address")' /\ Told("netmask")'
        /\ next = "open" => Told("index")'
    BY <1>3, <2>1, PerformAsks, OpenAsks
  <2>3. RowTyped(row)' /\ RowsTyped(pending)' /\ RowsTyped(candidates)'
    BY <1>3, <2>1 DEF ReadingInv, RowTyped, RowsTyped
  <2> QED
    BY <1>3, <2>1, <2>2, <2>3 DEF ReadingInv
<1>4. ASSUME stage \notin Asking PROVE agenda = <<>>
    BY <1>4 DEF ReadingInv
<1>5. CASE ParseLine \/ VendorsRefused \/ MakeCommand \/ CheckRefuses
  <2>1. /\ stage \in {"parse", "convert", "check"} /\ stage' \in {"convert", "check", "done"}
        /\ UNCHANGED reading
    BY <1>5 DEF ParseLine, VendorsRefused, MakeCommand, CheckRefuses, EndsWith
  <2> QED
    BY <2>1, <1>2, <1>4 DEF Asking, reading
<1>6. CASE CallRefused
  <2>1. stage' \in {"enumerate", "done"} /\ agenda' = <<>> /\ UNCHANGED <<row, pending, candidates>>
    BY <1>6 DEF CallRefused, EndsWith
  <2> QED
    BY <2>1, <1>2 DEF Asking
<1>7. CASE ResolveExplicit
  <2>1. /\ Asks("resolve", NoRow(command.interface), ResolveQuestions)
        /\ pending' = pending /\ candidates' = candidates
        /\ stage = "check"
    BY <1>7 DEF ResolveExplicit
  <2>2. command.interface \in Name \cup InvalidName \cup {None}
    BY <2>1 DEF StageInv, CommandOf, LineTyped
  <2> QED
    BY <2>1, <2>2, <1>3, NoRowTyped, QuestionsTyped DEF Asking, ReadingInv
<1>8. CASE Enumerate
  <2>1. /\ stage = "check" /\ stage' \in {"enumerate", "done"}
        /\ UNCHANGED <<agenda, row, candidates>>
        /\ pending' = pending \/ pending' = Listed
    BY <1>8 DEF Enumerate, EndsWith
  <2> QED
    BY <2>1, <1>2, <1>4 DEF Asking
<1>9. CASE LookAtNext
  <2>1. /\ Asks("candidate", Head(pending), CandidateQuestions)
        /\ pending # <<>> /\ pending' = Tail(pending) /\ candidates' = candidates
    BY <1>9 DEF LookAtNext
  <2>2. RowTyped(Head(pending)) /\ Head(pending).name \in Name /\ RowsTyped(Tail(pending))
    BY <2>1, RowsTail DEF ReadingInv
  <2> QED
    BY <2>1, <2>2, <1>3, QuestionsTyped DEF Asking
<1>10. CASE KeepCandidate
  <2> DEFINE before == {i \in DOMAIN candidates : candidates[i].index <= row.index}
             n == Cardinality(before)
  <2>1. /\ stage = "candidate" /\ agenda = <<>>
        /\ candidates' = InsertAt(candidates, n + 1, row)
        /\ stage' = "enumerate" /\ UNCHANGED <<agenda, row, pending>>
    BY <1>10 DEF KeepCandidate, Complete
  <2>2. n \in 0 .. Len(candidates)
    <3> DEFINE k == Len(candidates)
    <3>1. before \in SUBSET (1 .. k) /\ k \in Nat
      BY DEF ReadingInv, RowsTyped
    <3> HIDE DEF before, k
    <3>2. IsFiniteSet(1 .. k) /\ Cardinality(1 .. k) = IF 1 > k THEN 0 ELSE k - 1 + 1
      BY <3>1, FS_Interval
    <3>3. Cardinality(1 .. k) = k
      BY <3>1, <3>2
    <3>4. IsFiniteSet(before) /\ n <= k
      BY <3>1, <3>2, <3>3, FS_Subset
    <3>5. n \in Nat
      BY <3>4, FS_CardinalityType
    <3> QED
      BY <3>1, <3>4, <3>5 DEF k
  <2> HIDE DEF n
  <2>3. RowsTyped(candidates')
    BY <2>1, <2>2, RowsInsert DEF ReadingInv
  <2> QED
    BY <2>1, <2>3 DEF ReadingInv, Asking, RowTyped, RowsTyped
<1>11. CASE EnumerationEnds
  <2>1. stage = "enumerate" /\ stage' = "done" /\ UNCHANGED reading
    BY <1>11 DEF EnumerationEnds, EndsWith
  <2> QED
    BY <2>1, <1>2, <1>4 DEF Asking, reading
<1>12. CASE Chosen
  <2> DEFINE name == IF Given(command.interface) THEN command.interface ELSE candidates[1].name
  <2>1. /\ Asks("perform", NoRow(name), PerformQuestions)
        /\ pending' = pending /\ candidates' = candidates
        /\ stage \in {"resolve", "enumerate"}
        /\ stage = "enumerate" => Len(candidates) = 1
    BY <1>12 DEF Chosen, Complete
  <2>2. name \in Name \cup InvalidName \cup {None}
    <3>1. CASE Given(command.interface)
      BY <2>1, <3>1 DEF StageInv, CommandOf, LineTyped
    <3>2. CASE ~Given(command.interface) /\ 1 \in DOMAIN candidates
      BY <3>2 DEF ReadingInv, RowsTyped
    <3>3. CASE ~Given(command.interface) /\ 1 \notin DOMAIN candidates
      <4>1. stage = "resolve"
        BY <2>1, <3>3 DEF ReadingInv, RowsTyped
      <4> QED
        BY <3>3, <4>1 DEF StageInv
    <3> QED
      BY <3>1, <3>2, <3>3
  <2> HIDE DEF name
  <2> QED
    BY <2>1, <2>2, <1>3, NoRowTyped, QuestionsTyped DEF Asking, ReadingInv
<1>13. CASE MakePlan
  <2>1. /\ stage = "perform" /\ agenda = <<>> /\ pending' = pending /\ candidates' = candidates
        /\ \/ Asks("open", NoRow(row.name), OpenQuestions)
           \/ stage' = "done" /\ UNCHANGED <<agenda, row>>
    BY <1>13 DEF MakePlan, Complete, EndsWith
  <2>2. row.name \in Name \cup InvalidName \cup {None}
    BY DEF ReadingInv, RowTyped
  <2>3. CASE Asks("open", NoRow(row.name), OpenQuestions)
    BY <2>1, <2>2, <2>3, <1>3, NoRowTyped, QuestionsTyped DEF Asking, ReadingInv
  <2>4. CASE stage' = "done" /\ UNCHANGED <<agenda, row>>
    BY <2>1, <2>4, <1>2 DEF Asking
  <2> QED
    BY <2>1, <2>3, <2>4
<1>14. CASE Opened
  <2>1. stage' = "done" /\ agenda = <<>> /\ UNCHANGED reading
    BY <1>14 DEF Opened, Complete
  <2> QED
    BY <2>1, <1>2 DEF Asking, reading
<1>15. CASE HostChanges \/ UNCHANGED vars
  <2>1. UNCHANGED <<stage, agenda, row, pending, candidates>>
    BY <1>15 DEF HostChanges, vars, reading
  <2>2. \A f \in {"index", "address", "netmask"} : Told(f) => Told(f)'
    BY <2>1 DEF Told
  <2> QED
    BY <2>1, <2>2 DEF ReadingInv, RowTyped, RowsTyped
<1> QED
    BY <1>1, <1>5, <1>6, <1>7, <1>8, <1>9, <1>10, <1>11, <1>12, <1>13, <1>14, <1>15 DEF Next

\* What the plan says is of the addresses, whichever way it is made.
LEMMA PlansOfCommand ==
    ASSUME StageInv, stage = "perform", NEW a \in Address, NEW m \in Address,
           command.kind = "scan", PlanAccepted(a, m)
    PROVE  LET made == IF Given(command.host) THEN ProbePlan(command.host) ELSE FullPlan(a, m)
           IN  Range(made.targets) \subseteq Address
<1>1. command.host \in Address \cup {None}
    BY DEF StageInv, CommandOf, LineTyped
<1>2. PlanTaken(a, m, command.host)
    BY DEF PlanAccepted, PlanTaken
<1>3. Range(PlanMade(a, m, command.host).targets) \subseteq Address
    BY <1>1, <1>2, PlanIsInterior
<1> QED
    BY <1>3 DEF PlanMade

\* What the run comes to.
LEMMA OutcomeKept ==
    ASSUME StageInv, ReadingInv, OutcomeInv, [Next]_vars
    PROVE  OutcomeInv'
<1>1. UNCHANGED <<platform, line>>
    BY DEF Next, vars, input, ParseLine, VendorsRefused, MakeCommand, CheckRefuses, CallAnswered,
           CallRefused, ResolveExplicit, Enumerate, LookAtNext, KeepCandidate, EnumerationEnds,
           Chosen, MakePlan, Opened, HostChanges
\* A step that neither plans nor opens.
<1>2. ASSUME found' = found, plan' = plan, endpoint' = endpoint,
             command' = command \/ stage = "convert",
             stage' \notin {"open", "done"} => stage \notin {"open", "done"}
      PROVE  OutcomeInv'
  <2>1. found # None => command' = command
    BY <1>2 DEF OutcomeInv
  <2>2. found # None /\ command' = command
        => \A a, m \in Address : PlanAccepted(a, m)' = PlanAccepted(a, m)
    BY DEF PlanAccepted
  <2> QED
    BY <1>1, <1>2, <2>1, <2>2 DEF OutcomeInv, CommandOf
<1>3. CASE MakePlan
  <2>1. /\ stage = "perform" /\ agenda = <<>> /\ stage' \in {"open", "done"}
        /\ found' = row /\ command' = command /\ endpoint' = endpoint
    BY <1>3 DEF MakePlan, Complete, Asks, EndsWith
  <2>2. plan = None
    BY <2>1 DEF OutcomeInv
  <2>3. plan' = IF PlanAccepted(row.address, row.netmask) /\ command.kind # "monitor"
                THEN IF Given(command.host) THEN ProbePlan(command.host)
                     ELSE FullPlan(row.address, row.netmask)
                ELSE None
    BY <1>3, <2>2 DEF MakePlan, EndsWith
  <2>4. row.name \in Name /\ row.address \in Address /\ row.netmask \in Address
    <3>1. row.address # Absent /\ row.netmask # Absent
      BY <2>1 DEF ReadingInv, Told
    <3> QED
      BY <3>1 DEF ReadingInv, RowTyped
  <2>5. command = CommandOf(line) /\ command.kind \in {"scan", "monitor"}
    BY <2>1 DEF StageInv, CommandOf, LineTyped
  <2>6. \A a, m : PlanAccepted(a, m)' = PlanAccepted(a, m)
    BY <2>1 DEF PlanAccepted
  <2>7. command.kind = "scan" /\ PlanAccepted(row.address, row.netmask)
        => Range(plan'.targets) \subseteq Address
    BY <2>1, <2>3, <2>4, PlansOfCommand
  <2>8. plan' # None => Range(plan'.targets) \subseteq Address
    BY <2>3, <2>5, <2>7
  <2>9. plan' = IF command.kind = "scan" /\ PlanAccepted(row.address, row.netmask)
                THEN IF Given(command.host) THEN ProbePlan(command.host)
                     ELSE FullPlan(row.address, row.netmask)
                ELSE None
    BY <2>3, <2>5
  <2> HIDE DEF PlanAccepted
  <2> QED
    BY <1>1, <2>1, <2>4, <2>5, <2>6, <2>8, <2>9 DEF OutcomeInv, CommandOf
<1>4. CASE Opened
  <2>1. /\ stage = "open" /\ agenda = <<>> /\ stage' = "done" /\ endpoint' = row.index
        /\ found' = found /\ plan' = plan /\ command' = command
    BY <1>4 DEF Opened, Complete
  <2>2. row.index \in Nat
    <3>1. row.index # Absent
      BY <2>1 DEF ReadingInv, Told
    <3> QED
      BY <3>1 DEF ReadingInv, RowTyped
  <2>3. \A a, m : PlanAccepted(a, m)' = PlanAccepted(a, m)
    BY <2>1 DEF PlanAccepted
  <2> QED
    BY <1>1, <2>1, <2>2, <2>3 DEF OutcomeInv, CommandOf
<1>5. CASE ParseLine \/ VendorsRefused \/ MakeCommand \/ CheckRefuses
  <2>1. /\ stage \in {"parse", "convert", "check"}
        /\ command' = command \/ stage = "convert"
        /\ found' = found /\ plan' = plan /\ endpoint' = endpoint
    BY <1>5 DEF ParseLine, VendorsRefused, MakeCommand, CheckRefuses, EndsWith, outcome
  <2> QED
    BY <2>1, <1>2
<1>6. CASE CallRefused
  <2>1. /\ stage' = "done" \/ stage = "candidate"
        /\ command' = command /\ found' = found /\ plan' = plan /\ endpoint' = endpoint
    BY <1>6 DEF CallRefused, EndsWith, outcome
  <2> QED
    BY <2>1, <1>2
<1>7. CASE ResolveExplicit \/ Enumerate \/ LookAtNext \/ KeepCandidate \/ EnumerationEnds \/ Chosen
  <2>1. /\ stage \in {"check", "enumerate", "candidate", "resolve"}
        /\ command' = command /\ found' = found /\ plan' = plan /\ endpoint' = endpoint
    BY <1>7 DEF ResolveExplicit, Enumerate, LookAtNext, KeepCandidate, EnumerationEnds, Chosen,
                Complete, EndsWith, outcome
  <2> QED
    BY <2>1, <1>2
<1>8. CASE CallAnswered \/ HostChanges \/ UNCHANGED vars
  <2>1. UNCHANGED <<stage, command, found, plan, endpoint>>
    BY <1>8 DEF CallAnswered, HostChanges, vars, outcome
  <2> QED
    BY <2>1, <1>2
<1> QED
    BY <1>3, <1>4, <1>5, <1>6, <1>7, <1>8 DEF Next

\* At the start of a run.
LEMMA RunInit ==
    ASSUME Init
    PROVE  RunInv
<1>1. PICK start \in Start : line = start.line /\ past = <<start.table>>
    BY DEF Init
<1>2. /\ past \in Seq(Tables) /\ past # <<>> /\ Len(past) = 1 /\ faults = 0
      /\ MaxChanges \in Nat /\ MaxFaults \in Nat
    BY <1>1, CommandAssumption DEF Tables, Init
<1>3. HostInv
    BY <1>2 DEF HostInv
<1>4. StageInv
  <2>1. LineTyped(line)
    BY <1>1, CommandAssumption
  <2> QED
    BY <2>1 DEF StageInv, Init, Asking
<1>5. ReadingInv
  <2>1. agenda = <<>> /\ row = NoRow(None) /\ pending = <<>> /\ candidates = <<>> /\ stage = "parse"
    BY DEF Init
  <2>2. RowTyped(row)
    BY <2>1, NoRowTyped
  <2>3. RowsTyped(pending) /\ RowsTyped(candidates)
    <3>1. <<>> \in Seq(Range(<<>>)) /\ DOMAIN <<>> = {}
      OBVIOUS
    <3> QED
      BY <2>1, <3>1 DEF RowsTyped
  <2>4. agenda \in Seq(Question)
    BY <2>1
  <2> QED
    BY <2>1, <2>2, <2>3, <2>4 DEF ReadingInv, Asking
<1>6. OutcomeInv
    BY DEF OutcomeInv, Init
<1> QED
    BY <1>3, <1>4, <1>5, <1>6 DEF RunInv

\* Every step of a run keeps all of it.
LEMMA RunNext ==
    ASSUME RunInv, [Next]_vars
    PROVE  RunInv'
BY HostKept, StageKept, ReadingKept, OutcomeKept DEF RunInv

\* The invariant holds the types.
LEMMA RunTyped ==
    ASSUME RunInv
    PROVE  TypeOK
<1>1. None \notin Verdict /\ MaxChanges \in Nat
    BY CommandAssumption
<1>2. command # None => command.kind = line.kind
    BY DEF RunInv, StageInv, CommandOf
<1>3. /\ row.name \in Name \cup InvalidName \cup {None}
      /\ \A i \in DOMAIN candidates : candidates[i].name \in Name
    BY DEF RunInv, ReadingInv, RowTyped, RowsTyped
<1>4. found # None => found.name \in Name /\ {found.address, found.netmask} \subseteq Address
    BY DEF RunInv, OutcomeInv
<1> QED
    BY <1>2, <1>3, <1>4 DEF RunInv, HostInv, StageInv, OutcomeInv, TypeOK

\* For every platform, command line and host: a run keeps to its types, ends with one
\* verdict and opens its endpoint on an index; the addresses it goes by are of an existing
\* name.  About main.rs, lib.rs and the entry points of the platforms.
THEOREM RunTypesKept ==
    Spec => []TypeOK
<1>1. Init => RunInv
    BY RunInit
<1>2. RunInv /\ [Next]_vars => RunInv'
    BY RunNext
<1>3. RunInv => TypeOK
    BY RunTyped
<1> QED
    BY <1>1, <1>2, <1>3, PTL DEF Spec

\* A plan is made exactly for the prefixes with two hosts, from what was found.
LEMMA RunProbes ==
    ASSUME RunInv
    PROVE  ProbesWhatItAccepts
<1> SUFFICES ASSUME Scanning, found # None PROVE ProbesWhatItAccepts
    BY DEF ProbesWhatItAccepts
<1>1. /\ command = CommandOf(line) /\ command.kind = "scan"
      /\ found.address \in Address /\ found.netmask \in Address
    BY DEF RunInv, OutcomeInv, Scanning
<1>2. command.host \in Address \cup {None}
    BY <1>1 DEF RunInv, StageInv, CommandOf, LineTyped
<1>3. PICK address, netmask, target :
        /\ address = found.address /\ netmask = found.netmask /\ target = command.host
        /\ address \in Address /\ netmask \in Address /\ target \in Address \cup {None}
    BY <1>1, <1>2
<1> DEFINE made == PlanMade(address, netmask, target)
           taken == PlanTaken(address, netmask, target)
<1>4. plan = IF taken THEN made ELSE None
    BY <1>1, <1>3 DEF RunInv, OutcomeInv, PlanAccepted, PlanTaken, PlanMade
<1>5. made # None
    BY <1>3, CommandAssumption DEF Given, PlanMade
<1>6. /\ taken <=> /\ PrefixesOf(netmask) # {}
                   /\ Given(target) => target \in Inside(address, netmask)
      /\ taken =>
            /\ Range(made.targets) = Probed(address, netmask, target)
            /\ {a \in Address : Accepts(made.acceptance, a)} = Probed(address, netmask, target)
            /\ IsInjective(made.targets)
    BY <1>3, PlanIsInterior
<1> HIDE DEF made, taken
<1>7. /\ plan # None <=> /\ PrefixesOf(netmask) # {}
                         /\ Given(target) => target \in Inside(address, netmask)
      /\ plan # None =>
            /\ Range(plan.targets) = Probed(address, netmask, target)
            /\ {a \in Address : Accepts(plan.acceptance, a)} = Probed(address, netmask, target)
            /\ IsInjective(plan.targets)
    BY <1>4, <1>5, <1>6
<1> QED
    BY <1>3, <1>7 DEF ProbesWhatItAccepts, PrefixesOf, Inside, Probed

\* For every width, interface and target: a scan is planned for exactly the masks that are
\* a prefix and leave two hosts, a probe for exactly the targets inside the subnet, and
\* what is probed is what is accepted as a sender, each once.  About ipv4_subnet.rs,
\* ipv4_cidr.rs and the plan of scanner.rs.
THEOREM ProbesAreAccepted ==
    Spec => []ProbesWhatItAccepts
<1>1. Init => RunInv
    BY RunInit
<1>2. RunInv /\ [Next]_vars => RunInv'
    BY RunNext
<1>3. RunInv => ProbesWhatItAccepts
    BY RunProbes
<1> QED
    BY <1>1, <1>2, <1>3, PTL DEF Spec
-----------------------------------------------------------------------------
(* One interface, on Linux *)

LinuxQuestion ==
    {"index", "flags", "address", "netmask", "hardware", "addresses", "socket", "bind"}

\* The interface that had the name of f at moment i, and what f has of it.
Was(f, i) == past[i][f.name]
AddressAt(f, i) == i \in DOMAIN past /\ Was(f, i) # Absent /\ f.address = Was(f, i).ipv4[1].address
NetmaskAt(f, j) == j \in DOMAIN past /\ Was(f, j) # Absent /\ f.netmask = Was(f, j).ipv4[1].netmask
HardwareAt(f, k) == k \in DOMAIN past /\ Was(f, k) # Absent /\ f.hardware = Was(f, k).hardware
IndexAt(f, index, l) == l \in DOMAIN past /\ Was(f, l) # Absent /\ index = Was(f, l).index
FlagsAt(f, m) == m \in DOMAIN past /\ Was(f, m) # Absent /\ FlagsAllow(Was(f, m).flags)

\* The questions answered so far, in the order in which they are asked.
AddressRead(f) == \E i \in DOMAIN past : AddressAt(f, i)
NetmaskRead(f) == \E i, j \in DOMAIN past : i <= j /\ AddressAt(f, i) /\ NetmaskAt(f, j)
HardwareRead(f) ==
    \E i, j, k \in DOMAIN past :
        i <= j /\ j <= k /\ AddressAt(f, i) /\ NetmaskAt(f, j) /\ HardwareAt(f, k)
IndexRead(f, index) ==
    \E i, j, k, l \in DOMAIN past :
        /\ i <= j /\ j <= k /\ k <= l
        /\ AddressAt(f, i) /\ NetmaskAt(f, j) /\ HardwareAt(f, k) /\ IndexAt(f, index, l)
FlagsRead(f, index) ==
    \E i, j, k, l, m \in DOMAIN past :
        /\ i <= j /\ j <= k /\ k <= l /\ l <= m
        /\ AddressAt(f, i) /\ NetmaskAt(f, j) /\ HardwareAt(f, k) /\ IndexAt(f, index, l)
        /\ FlagsAt(f, m)

RowShaped ==
    row = [name |-> row.name, index |-> row.index, flags |-> row.flags, address |-> row.address,
           netmask |-> row.netmask, hardware |-> row.hardware, locals |-> row.locals]

\* The question is answered or still on the agenda.
Asked(question) == row[question] # Absent \/ \E p \in DOMAIN agenda : agenda[p] = question

\* The question is before `later` on the agenda, and off it when that is answered.
Ordered(question, later) ==
    /\ \A p, q \in DOMAIN agenda : agenda[p] = question /\ agenda[q] = later => p < q
    /\ row[later] # Absent => \A p \in DOMAIN agenda : agenda[p] # question

PerformInv ==
    stage = "perform" =>
        /\ RowShaped
        /\ Asked("address") /\ Asked("netmask") /\ Asked("hardware")
        /\ Ordered("address", "netmask") /\ Ordered("address", "hardware")
        /\ Ordered("netmask", "hardware")
        /\ row.address # Absent => AddressRead(row)
        /\ row.netmask # Absent => NetmaskRead(row)
        /\ row.hardware # Absent => HardwareRead(row)

OpenInv ==
    stage = "open" =>
        /\ RowShaped
        /\ row.name = found.name
        /\ HardwareRead(found)
        /\ Asked("index") /\ Asked("flags") /\ Ordered("index", "flags")
        /\ row.index # Absent => IndexRead(found, row.index)
        /\ row.flags # Absent => FlagsRead(found, row.index)

EndpointInv == endpoint # None => stage = "done" /\ FlagsRead(found, endpoint)

\* The parts that hold whatever the stage is.
HistoryInv ==
    /\ platform = "linux"
    /\ past \in Seq(Tables) /\ past # <<>>
    /\ agenda \in Seq(LinuxQuestion)
    /\ stage \notin Asking => agenda = <<>>

CommandInv == HistoryInv /\ PerformInv /\ OpenInv /\ EndpointInv
-----------------------------------------------------------------------------
Field == {"index", "flags", "address", "netmask", "hardware"}

\* The present interfaces are the last moment of the history.
LEMMA TableIsLast ==
    ASSUME HistoryInv
    PROVE  Len(past) \in DOMAIN past /\ Table = past[Len(past)] /\ \A i \in DOMAIN past : i <= Len(past)
BY DEF HistoryInv, Table, Last

\* A call on Linux that answers about a field answers what is true of the name now.
LEMMA ReplyIsTrue ==
    ASSUME HistoryInv, NEW question \in Field, Reply(question) # Absent
    PROVE  /\ row.name \in Name /\ Table[row.name] # Absent
           /\ question = "index" => Reply(question) = Table[row.name].index
           /\ question = "flags" => FlagsAllow(Table[row.name].flags)
           /\ question = "address" => Reply(question) = Table[row.name].ipv4[1].address
           /\ question = "netmask" => Reply(question) = Table[row.name].ipv4[1].netmask
           /\ question = "hardware" => Reply(question) = Table[row.name].hardware
<1>1. question \notin {"records", "socket", "device", "configure", "bind", "attach", "addresses"}
    BY DEF Field
<1>2. CASE question = "flags"
  <2>1. Answer(Table, row.name, question) # Absent /\ FlagsAllow(Answer(Table, row.name, question))
    BY <1>1, <1>2 DEF Reply
  <2> QED
    BY <1>1, <1>2, <2>1 DEF Answer
<1>3. CASE question # "flags"
  <2>1. Reply(question) = Answer(Table, row.name, question)
    BY <1>1, <1>3 DEF Reply
  <2>2. row.name \in Name /\ Table[row.name] # Absent
    BY <1>1, <2>1 DEF Answer
  <2>3. CASE question = "hardware"
    BY <1>1, <2>1, <2>2, <2>3 DEF Answer, LinuxHardware
  <2>4. CASE question # "hardware"
    BY <1>1, <1>3, <2>1, <2>2, <2>4 DEF Answer, Field
  <2> QED
    BY <2>2, <2>3, <2>4
<1> QED
    BY <1>2, <1>3

\* The row learns the answer and keeps the rest, and the agenda loses its head.
LEMMA RowLearns ==
    ASSUME HistoryInv, RowShaped, CallAnswered
    PROVE  /\ RowShaped' /\ row'.name = row.name
           /\ Head(agenda) \in LinuxQuestion /\ Reply(Head(agenda)) # Absent
           /\ \A f \in Field \ {Head(agenda)} : row'[f] = row[f]
           /\ Head(agenda) \in Field => row'[Head(agenda)] = Reply(Head(agenda))
           /\ agenda' \in Seq(LinuxQuestion)
           /\ \A p \in DOMAIN agenda' : p + 1 \in DOMAIN agenda /\ agenda'[p] = agenda[p + 1]
           /\ \A p \in DOMAIN agenda : p > 1 => p - 1 \in DOMAIN agenda' /\ agenda[p] = agenda'[p - 1]
           /\ 1 \in DOMAIN agenda /\ agenda[1] = Head(agenda)
           /\ DOMAIN agenda \subseteq Nat \ {0} /\ DOMAIN agenda' \subseteq Nat \ {0}
           /\ UNCHANGED <<stage, found, past, platform, endpoint>>
<1>1. /\ agenda # <<>> /\ agenda \in Seq(LinuxQuestion)
      /\ row' = Learnt(Head(agenda), Reply(Head(agenda)))
      /\ agenda' = Tail(agenda)
      /\ Reply(Head(agenda)) # Absent
      /\ UNCHANGED <<stage, found, past, platform, endpoint>>
    BY DEF HistoryInv, CallAnswered, input, outcome, host
<1>2. Head(agenda) \in LinuxQuestion
    BY <1>1
<1>3. CASE Head(agenda) \in {"socket", "bind"}
  <2>1. row' = row /\ Head(agenda) \notin Field
    BY <1>1, <1>3 DEF Learnt, Field
  <2> QED
    BY <1>1, <1>2, <2>1 DEF RowShaped
<1>4. CASE Head(agenda) = "addresses"
  <2>1. row' = [row EXCEPT !.locals = Reply(Head(agenda)) \cup {row.address}]
    BY <1>1, <1>4 DEF Learnt
  <2> QED
    BY <1>1, <1>2, <1>4, <2>1 DEF RowShaped, Field
<1>5. CASE Head(agenda) \in Field
  <2>1. row' = [row EXCEPT ![Head(agenda)] = Reply(Head(agenda))]
    BY <1>1, <1>5 DEF Learnt, Field
  <2> QED
    BY <1>1, <1>2, <1>5, <2>1 DEF RowShaped, Field
<1> QED
    BY <1>2, <1>3, <1>4, <1>5 DEF LinuxQuestion, Field

\* What is on the agenda is asked in its order: a question comes to its turn only
\* when those before it are answered, and an answered one stays answered.
LEMMA AgendaKept ==
    ASSUME HistoryInv, RowShaped, CallAnswered, NEW x \in Field, NEW y \in Field, x # y
    PROVE  /\ Asked(x) => Asked(x)'
           /\ Ordered(x, y) => Ordered(x, y)'
           /\ Asked(x) /\ Ordered(x, y) /\ Head(agenda) = y => row[x] # Absent
           /\ Ordered(x, y) /\ row[y] # Absent => Head(agenda) # x
<1>1. Asked(x) => Asked(x)'
  <2> SUFFICES ASSUME Asked(x) PROVE Asked(x)'
    OBVIOUS
  <2>1. CASE row[x] # Absent
    BY <2>1, RowLearns DEF Asked
  <2>2. CASE \E p \in DOMAIN agenda : agenda[p] = x
    BY <2>2, RowLearns DEF Asked
  <2> QED
    BY <2>1, <2>2 DEF Asked
<1>2. Ordered(x, y) => Ordered(x, y)'
  <2> SUFFICES ASSUME Ordered(x, y) PROVE Ordered(x, y)'
    OBVIOUS
  <2>1. \A p, q \in DOMAIN agenda' : agenda'[p] = x /\ agenda'[q] = y => p < q
    <3> SUFFICES ASSUME NEW p \in DOMAIN agenda', NEW q \in DOMAIN agenda',
                        agenda'[p] = x, agenda'[q] = y
                 PROVE  p < q
        OBVIOUS
    <3>1. p + 1 < q + 1 /\ p \in Nat /\ q \in Nat
        BY RowLearns DEF Ordered
    <3> QED
        BY <3>1
  <2>2. ASSUME row'[y] # Absent, NEW p \in DOMAIN agenda' PROVE agenda'[p] # x
    <3>1. p + 1 \in DOMAIN agenda /\ agenda'[p] = agenda[p + 1] /\ p \in Nat /\ 1 \in DOMAIN agenda
        BY RowLearns
    <3>2. CASE Head(agenda) = y
        BY <3>1, <3>2, RowLearns DEF Ordered
    <3>3. CASE Head(agenda) # y
        BY <2>2, <3>1, <3>3, RowLearns DEF Ordered
    <3> QED
        BY <3>2, <3>3
  <2> QED
    BY <2>1, <2>2 DEF Ordered
<1>3. Asked(x) /\ Ordered(x, y) /\ Head(agenda) = y => row[x] # Absent
    BY RowLearns DEF Ordered, Asked
<1>4. Ordered(x, y) /\ row[y] # Absent => Head(agenda) # x
    BY RowLearns DEF Ordered
<1> QED
    BY <1>1, <1>2, <1>3, <1>4
-----------------------------------------------------------------------------
\* At the start nothing is asked yet.
LEMMA CommandInit ==
    ASSUME Init, platform = "linux"
    PROVE  CommandInv
<1>1. PICK start \in Start : past = <<start.table>>
    BY DEF Init
<1>2. past \in Seq(Tables) /\ past # <<>>
    BY <1>1 DEF Tables
<1> QED
    BY <1>2 DEF CommandInv, HistoryInv, PerformInv, OpenInv, EndpointInv, Init, Asking

\* An answer while the addresses are read.
LEMMA PerformAnswered ==
    ASSUME CommandInv, CallAnswered, stage = "perform"
    PROVE  PerformInv'
<1> DEFINE q == Head(agenda)
           now == Len(past)
<1>1. HistoryInv /\ RowShaped
    BY DEF CommandInv, PerformInv
<1>2. RowShaped' /\ row'.name = row.name /\ past' = past
    BY <1>1, RowLearns
<1>3. Asked("address")' /\ Asked("netmask")' /\ Asked("hardware")'
    BY <1>1, AgendaKept DEF CommandInv, PerformInv, Field
<1>4. Ordered("address", "netmask")' /\ Ordered("address", "hardware")' /\ Ordered("netmask", "hardware")'
    BY <1>1, AgendaKept DEF CommandInv, PerformInv, Field
<1>5. now \in DOMAIN past /\ Table = past[now] /\ \A i \in DOMAIN past : i <= now
    BY <1>1, TableIsLast
<1>6. row'.address # Absent => AddressRead(row)'
  <2>1. CASE q = "address"
    <3>1. row'.address = Table[row.name].ipv4[1].address /\ Table[row.name] # Absent
        BY <1>1, <2>1, RowLearns, ReplyIsTrue DEF Field
    <3>2. AddressAt(row, now)'
        BY <3>1, <1>2, <1>5 DEF AddressAt, Was
    <3> QED
        BY <3>2, <1>2, <1>5 DEF AddressRead
  <2>2. CASE q # "address"
    <3>1. row'.address = row.address
        BY <1>1, <2>2, RowLearns DEF Field
    <3> QED
        BY <3>1, <1>2 DEF CommandInv, PerformInv, AddressRead, AddressAt, Was
  <2> QED
    BY <2>1, <2>2
<1>7. row'.netmask # Absent => NetmaskRead(row)'
  <2>1. CASE q = "netmask"
    <3>1. /\ row'.address = row.address /\ row.address # Absent
          /\ row'.netmask = Table[row.name].ipv4[1].netmask /\ Table[row.name] # Absent
        BY <1>1, <2>1, RowLearns, ReplyIsTrue, AgendaKept DEF Field, CommandInv, PerformInv
    <3>2. PICK i \in DOMAIN past : AddressAt(row, i)
        BY <3>1 DEF CommandInv, PerformInv, AddressRead
    <3>3. AddressAt(row, i)' /\ NetmaskAt(row, now)' /\ i <= now
        BY <3>1, <3>2, <1>2, <1>5 DEF AddressAt, NetmaskAt, Was
    <3> QED
        BY <3>3, <1>2, <1>5 DEF NetmaskRead
  <2>2. ASSUME q # "netmask", row'.netmask # Absent PROVE NetmaskRead(row)'
    <3>1. row'.netmask = row.netmask /\ NetmaskRead(row)
        BY <1>1, <2>2, RowLearns DEF Field, CommandInv, PerformInv
    <3>2. row'.address = row.address
        BY <1>1, <2>2, <3>1, RowLearns, AgendaKept DEF Field, CommandInv, PerformInv
    <3> QED
        BY <3>1, <3>2, <1>2 DEF NetmaskRead, AddressAt, NetmaskAt, Was
  <2> QED
    BY <2>1, <2>2
<1>8. row'.hardware # Absent => HardwareRead(row)'
  <2>1. CASE q = "hardware"
    <3>1. /\ row'.address = row.address /\ row'.netmask = row.netmask /\ row.netmask # Absent
          /\ row'.hardware = Table[row.name].hardware /\ Table[row.name] # Absent
        BY <1>1, <2>1, RowLearns, ReplyIsTrue, AgendaKept DEF Field, CommandInv, PerformInv
    <3>2. PICK i, j \in DOMAIN past : i <= j /\ AddressAt(row, i) /\ NetmaskAt(row, j)
        BY <3>1 DEF CommandInv, PerformInv, NetmaskRead
    <3>3. AddressAt(row, i)' /\ NetmaskAt(row, j)' /\ HardwareAt(row, now)' /\ j <= now
        BY <3>1, <3>2, <1>2, <1>5 DEF AddressAt, NetmaskAt, HardwareAt, Was
    <3> QED
        BY <3>2, <3>3, <1>2, <1>5 DEF HardwareRead
  <2>2. ASSUME q # "hardware", row'.hardware # Absent PROVE HardwareRead(row)'
    <3>1. row'.hardware = row.hardware /\ HardwareRead(row)
        BY <1>1, <2>2, RowLearns DEF Field, CommandInv, PerformInv
    <3>2. row'.address = row.address /\ row'.netmask = row.netmask
        BY <1>1, <2>2, <3>1, RowLearns, AgendaKept DEF Field, CommandInv, PerformInv
    <3> QED
        BY <3>1, <3>2, <1>2 DEF HardwareRead, AddressAt, NetmaskAt, HardwareAt, Was
  <2> QED
    BY <2>1, <2>2
<1> QED
    BY <1>2, <1>3, <1>4, <1>6, <1>7, <1>8 DEF PerformInv

\* An answer while the endpoint is opened.
LEMMA OpenAnswered ==
    ASSUME CommandInv, CallAnswered, stage = "open"
    PROVE  OpenInv'
<1> DEFINE q == Head(agenda)
           now == Len(past)
<1>1. HistoryInv /\ RowShaped /\ row.name = found.name
    BY DEF CommandInv, OpenInv
<1>2. RowShaped' /\ row'.name = row.name /\ past' = past /\ found' = found
    BY <1>1, RowLearns
<1>3. Asked("index")' /\ Asked("flags")' /\ Ordered("index", "flags")'
    BY <1>1, AgendaKept DEF CommandInv, OpenInv, Field
<1>5. now \in DOMAIN past /\ Table = past[now] /\ \A i \in DOMAIN past : i <= now
    BY <1>1, TableIsLast
<1>6. HardwareRead(found)'
    BY <1>2 DEF CommandInv, OpenInv, HardwareRead, AddressAt, NetmaskAt, HardwareAt, Was
<1>7. row'.index # Absent => IndexRead(found, row.index)'
  <2>1. CASE q = "index"
    <3>1. row'.index = Table[row.name].index /\ Table[row.name] # Absent
        BY <1>1, <2>1, RowLearns, ReplyIsTrue DEF Field
    <3>2. PICK i, j, k \in DOMAIN past :
            i <= j /\ j <= k /\ AddressAt(found, i) /\ NetmaskAt(found, j) /\ HardwareAt(found, k)
        BY DEF CommandInv, OpenInv, HardwareRead
    <3>3. /\ AddressAt(found, i)' /\ NetmaskAt(found, j)' /\ HardwareAt(found, k)'
          /\ IndexAt(found, row.index, now)' /\ k <= now
        BY <3>1, <3>2, <1>1, <1>2, <1>5 DEF AddressAt, NetmaskAt, HardwareAt, IndexAt, Was
    <3> QED
        BY <3>2, <3>3, <1>2, <1>5 DEF IndexRead
  <2>2. CASE q # "index"
    <3>1. row'.index = row.index
        BY <1>1, <2>2, RowLearns DEF Field
    <3> QED
        BY <3>1, <1>2
        DEF CommandInv, OpenInv, IndexRead, AddressAt, NetmaskAt, HardwareAt, IndexAt, Was
  <2> QED
    BY <2>1, <2>2
<1>8. row'.flags # Absent => FlagsRead(found, row.index)'
  <2>1. CASE q = "flags"
    <3>1. /\ row'.index = row.index /\ row.index # Absent
          /\ FlagsAllow(Table[row.name].flags) /\ Table[row.name] # Absent
        BY <1>1, <2>1, RowLearns, ReplyIsTrue, AgendaKept DEF Field, CommandInv, OpenInv
    <3>2. PICK i, j, k, l \in DOMAIN past :
            /\ i <= j /\ j <= k /\ k <= l
            /\ AddressAt(found, i) /\ NetmaskAt(found, j) /\ HardwareAt(found, k)
            /\ IndexAt(found, row.index, l)
        BY <3>1 DEF CommandInv, OpenInv, IndexRead
    <3>3. /\ AddressAt(found, i)' /\ NetmaskAt(found, j)' /\ HardwareAt(found, k)'
          /\ IndexAt(found, row.index, l)' /\ FlagsAt(found, now)' /\ l <= now
        BY <3>1, <3>2, <1>1, <1>2, <1>5
        DEF AddressAt, NetmaskAt, HardwareAt, IndexAt, FlagsAt, Was
    <3> QED
        BY <3>2, <3>3, <1>2, <1>5 DEF FlagsRead
  <2>2. ASSUME q # "flags", row'.flags # Absent PROVE FlagsRead(found, row.index)'
    <3>1. row'.flags = row.flags /\ FlagsRead(found, row.index)
        BY <1>1, <2>2, RowLearns DEF Field, CommandInv, OpenInv
    <3>2. row'.index = row.index
        BY <1>1, <2>2, <3>1, RowLearns, AgendaKept DEF Field, CommandInv, OpenInv
    <3> QED
        BY <3>1, <3>2, <1>2
        DEF FlagsRead, AddressAt, NetmaskAt, HardwareAt, IndexAt, FlagsAt, Was
  <2> QED
    BY <2>1, <2>2
<1> QED
    BY <1>1, <1>2, <1>3, <1>6, <1>7, <1>8 DEF OpenInv

\* A step of the program leaves the invariant intact where it asks, opens or ends.
LEMMA AnsweredStep ==
    ASSUME CommandInv, CallAnswered
    PROVE  CommandInv'
<1>1. /\ agenda # <<>> /\ agenda \in Seq(LinuxQuestion) /\ agenda' = Tail(agenda)
      /\ UNCHANGED <<stage, found, past, platform, endpoint>>
    BY DEF CommandInv, HistoryInv, CallAnswered, input, outcome, host
<1>2. HistoryInv'
  <2>1. agenda' \in Seq(LinuxQuestion)
    BY <1>1
  <2> QED
    BY <1>1, <2>1 DEF CommandInv, HistoryInv
<1>3. PerformInv'
    BY <1>1, PerformAnswered DEF PerformInv
<1>4. OpenInv'
    BY <1>1, OpenAnswered DEF OpenInv
<1>5. EndpointInv'
    BY <1>1 DEF CommandInv, HistoryInv, EndpointInv, Asking
<1> QED
    BY <1>2, <1>3, <1>4, <1>5 DEF CommandInv

\* A step that asks nothing: the agenda stays, or goes with the question's failure.
LEMMA OtherStage ==
    ASSUME CommandInv, stage' \notin {"perform", "open"}, UNCHANGED <<platform, past, found, endpoint>>,
           endpoint = None,
           \/ agenda' = <<>>
           \/ agenda' \in Seq(LinuxQuestion) /\ stage' \in Asking
    PROVE  CommandInv'
<1>1. HistoryInv'
  <2>1. <<>> \in Seq(LinuxQuestion)
    OBVIOUS
  <2>2. agenda' \in Seq(LinuxQuestion)
    BY <2>1
  <2>3. stage' \notin Asking => agenda' = <<>>
    OBVIOUS
  <2> QED
    BY <2>2, <2>3 DEF CommandInv, HistoryInv
<1>2. PerformInv' /\ OpenInv' /\ EndpointInv'
    BY DEF PerformInv, OpenInv, EndpointInv
<1> QED
    BY <1>1, <1>2 DEF CommandInv

\* The choice of the interface: nothing of it is known, everything is to be asked.
LEMMA ChosenStep ==
    ASSUME CommandInv, Chosen
    PROVE  CommandInv'
<1>1. PICK name : /\ stage' = "perform" /\ row' = NoRow(name) /\ agenda' = PerformQuestions
                  /\ UNCHANGED <<platform, past, found, endpoint>>
    BY DEF Chosen, Asks, input, outcome, host
<1>2. stage \in {"resolve", "enumerate"} /\ endpoint = None
    BY DEF Chosen, Complete, CommandInv, EndpointInv
<1>3. \/ agenda' = <<"index", "flags", "address", "netmask", "hardware">>
      \/ agenda' = <<"index", "flags", "address", "netmask", "hardware", "addresses">>
    BY <1>1 DEF CommandInv, HistoryInv, PerformQuestions
<1>4. HistoryInv'
  <2>1. /\ <<"index", "flags", "address", "netmask", "hardware">> \in Seq(LinuxQuestion)
        /\ <<"index", "flags", "address", "netmask", "hardware", "addresses">> \in Seq(LinuxQuestion)
    BY DEF LinuxQuestion
  <2>2. agenda' \in Seq(LinuxQuestion)
    BY <1>3, <2>1
  <2> QED
    BY <1>1, <2>2 DEF CommandInv, HistoryInv, Asking
<1>5. RowShaped' /\ row'.address = Absent /\ row'.netmask = Absent /\ row'.hardware = Absent
    BY <1>1 DEF NoRow, RowShaped
<1>6. Asked("address")' /\ Asked("netmask")' /\ Asked("hardware")'
  <2>1. {3, 4, 5} \subseteq DOMAIN agenda'
        /\ agenda'[3] = "address" /\ agenda'[4] = "netmask" /\ agenda'[5] = "hardware"
    BY <1>3
  <2> QED
    BY <2>1 DEF Asked
<1>7. Ordered("address", "netmask")' /\ Ordered("address", "hardware")' /\ Ordered("netmask", "hardware")'
  <2>1. \A p \in DOMAIN agenda' :
            /\ agenda'[p] = "address" => p = 3
            /\ agenda'[p] = "netmask" => p = 4
            /\ agenda'[p] = "hardware" => p = 5
    BY <1>3
  <2> QED
    BY <1>5, <2>1 DEF Ordered
<1>8. PerformInv'
    BY <1>5, <1>6, <1>7 DEF PerformInv
<1> QED
    BY <1>1, <1>2, <1>4, <1>8 DEF CommandInv, OpenInv, EndpointInv

\* The plan is made: the addresses are all read, and the endpoint's questions asked.
LEMMA PlanStep ==
    ASSUME CommandInv, MakePlan
    PROVE  CommandInv'
<1>1. /\ stage = "perform" /\ agenda = <<>> /\ found' = row
      /\ UNCHANGED <<platform, past, endpoint>>
    BY DEF MakePlan, Complete, input, host, EndsWith
<1>2. endpoint = None /\ platform = "linux"
    BY <1>1 DEF CommandInv, EndpointInv, HistoryInv
<1>3. CASE ~PlanAccepted(row.address, row.netmask)
  <2>1. stage' = "done" /\ agenda' = <<>>
    BY <1>1, <1>3 DEF MakePlan, EndsWith
  <2> QED
    BY <1>1, <1>2, <2>1 DEF CommandInv, HistoryInv, PerformInv, OpenInv, EndpointInv
<1>4. CASE PlanAccepted(row.address, row.netmask)
  <2>1. /\ stage' = "open" /\ row' = NoRow(row.name)
        /\ agenda' = <<"index", "flags", "socket", "bind">>
    BY <1>2, <1>4 DEF MakePlan, Asks, OpenQuestions
  <2>2. HistoryInv'
    <3>1. agenda' \in Seq(LinuxQuestion)
        BY <2>1 DEF LinuxQuestion
    <3> QED
        BY <1>1, <2>1, <3>1 DEF CommandInv, HistoryInv, Asking
  <2>3. RowShaped' /\ row'.index = Absent /\ row'.flags = Absent /\ row'.name = row.name
    BY <2>1 DEF NoRow, RowShaped
  <2>4. HardwareRead(row)
    BY <1>1 DEF CommandInv, PerformInv, Asked
  <2>5. HardwareRead(found)'
    BY <1>1, <2>4 DEF HardwareRead, AddressAt, NetmaskAt, HardwareAt, Was
  <2>6. Asked("index")' /\ Asked("flags")'
    <3>1. {1, 2} \subseteq DOMAIN agenda' /\ agenda'[1] = "index" /\ agenda'[2] = "flags"
        BY <2>1
    <3> QED
        BY <3>1 DEF Asked
  <2>7. Ordered("index", "flags")'
    <3>1. \A p \in DOMAIN agenda' : (agenda'[p] = "index" => p = 1) /\ (agenda'[p] = "flags" => p = 2)
        BY <2>1
    <3> QED
        BY <2>3, <3>1 DEF Ordered
  <2> QED
    BY <1>1, <1>2, <2>1, <2>2, <2>3, <2>5, <2>6, <2>7
    DEF CommandInv, PerformInv, OpenInv, EndpointInv
<1> QED
    BY <1>3, <1>4

\* The endpoint is open: index and flags of the name have been read again.
LEMMA OpenedStep ==
    ASSUME CommandInv, Opened
    PROVE  CommandInv'
<1>1. /\ stage = "open" /\ agenda = <<>> /\ agenda' = <<>> /\ stage' = "done"
      /\ endpoint' = row.index /\ UNCHANGED <<platform, past, found>>
    BY DEF Opened, Complete, input, reading, host
<1>2. FlagsRead(found, row.index)
    BY <1>1 DEF CommandInv, OpenInv, Asked
<1>3. FlagsRead(found, endpoint)'
    BY <1>1, <1>2 DEF FlagsRead, AddressAt, NetmaskAt, HardwareAt, IndexAt, FlagsAt, Was
<1> QED
    BY <1>1, <1>3 DEF CommandInv, HistoryInv, PerformInv, OpenInv, EndpointInv

\* The interfaces change: what was true of them at a moment stays true of it.
LEMMA HostChangesStep ==
    ASSUME CommandInv, HostChanges
    PROVE  CommandInv'
<1>1. PICK t \in Changed : past' = Append(past, t)
    BY DEF HostChanges
<1>2. UNCHANGED <<platform, stage, agenda, row, found, endpoint>> /\ stage # "done"
    BY DEF HostChanges, input, reading, outcome
<1>3. past \in Seq(Tables) /\ t \in Tables
    BY <1>1 DEF CommandInv, HistoryInv, Tables
<1>4. past' \in Seq(Tables) /\ past' # <<>>
      /\ \A i \in DOMAIN past : i \in DOMAIN past' /\ past'[i] = past[i]
    BY <1>1, <1>3
<1>5. HistoryInv' /\ EndpointInv'
    BY <1>2, <1>4 DEF CommandInv, HistoryInv, EndpointInv
<1>6. PerformInv'
  <2>1. (AddressRead(row) => AddressRead(row)') /\ (NetmaskRead(row) => NetmaskRead(row)')
    BY <1>2, <1>4 DEF AddressRead, NetmaskRead, AddressAt, NetmaskAt, Was
  <2>2. HardwareRead(row) => HardwareRead(row)'
    BY <1>2, <1>4 DEF HardwareRead, AddressAt, NetmaskAt, HardwareAt, Was
  <2> QED
    BY <1>2, <2>1, <2>2 DEF CommandInv, PerformInv, RowShaped, Asked, Ordered
<1>7. OpenInv'
  <2>1. HardwareRead(found) => HardwareRead(found)'
    BY <1>2, <1>4 DEF HardwareRead, AddressAt, NetmaskAt, HardwareAt, Was
  <2>2. IndexRead(found, row.index) => IndexRead(found, row.index)'
    BY <1>2, <1>4 DEF IndexRead, AddressAt, NetmaskAt, HardwareAt, IndexAt, Was
  <2>3. FlagsRead(found, row.index) => FlagsRead(found, row.index)'
    <3> SUFFICES ASSUME FlagsRead(found, row.index) PROVE FlagsRead(found, row.index)'
        OBVIOUS
    <3>1. PICK i, j, k, l, m \in DOMAIN past :
                /\ i <= j /\ j <= k /\ k <= l /\ l <= m
                /\ AddressAt(found, i) /\ NetmaskAt(found, j) /\ HardwareAt(found, k)
                /\ IndexAt(found, row.index, l) /\ FlagsAt(found, m)
        BY DEF FlagsRead
    <3>2. AddressAt(found, i)' /\ NetmaskAt(found, j)' /\ HardwareAt(found, k)'
        BY <1>2, <1>4, <3>1 DEF AddressAt, NetmaskAt, HardwareAt, Was
    <3>3. IndexAt(found, row.index, l)' /\ FlagsAt(found, m)'
        BY <1>2, <1>4, <3>1 DEF IndexAt, FlagsAt, Was
    <3>4. {i, j, k, l, m} \subseteq DOMAIN past'
        BY <1>4, <3>1
    <3> QED
        BY <3>1, <3>2, <3>3, <3>4 DEF FlagsRead
  <2>4. RowShaped => RowShaped'
    BY <1>2 DEF RowShaped
  <2>5. /\ Asked("index") => Asked("index")'
        /\ Asked("flags") => Asked("flags")'
        /\ Ordered("index", "flags") => Ordered("index", "flags")'
    BY <1>2 DEF Asked, Ordered
  <2>6. OpenInv
    BY DEF CommandInv
  <2> HIDE DEF CommandInv
  <2> QED
    BY <1>2, <2>1, <2>2, <2>3, <2>4, <2>5, <2>6 DEF OpenInv
<1> QED
    BY <1>5, <1>6, <1>7 DEF CommandInv

\* Every step of the program, and of those who configure its host, keeps the invariant.
LEMMA CommandNext ==
    ASSUME CommandInv, [Next]_vars
    PROVE  CommandInv'
<1>1. CASE CallAnswered
    BY <1>1, AnsweredStep
<1>2. CASE Chosen
    BY <1>2, ChosenStep
<1>3. CASE MakePlan
    BY <1>3, PlanStep
<1>4. CASE Opened
    BY <1>4, OpenedStep
<1>5. CASE HostChanges
    BY <1>5, HostChangesStep
<1>6. CASE ParseLine \/ VendorsRefused \/ MakeCommand \/ CheckRefuses
  <2>1. stage \in {"parse", "convert", "check"} /\ stage' \in {"convert", "check", "done"}
    BY <1>6 DEF ParseLine, VendorsRefused, MakeCommand, CheckRefuses, EndsWith
  <2>2. UNCHANGED <<platform, past, found, endpoint, agenda>>
    BY <1>6 DEF ParseLine, VendorsRefused, MakeCommand, CheckRefuses, EndsWith, input, reading,
                outcome, host
  <2>3. endpoint = None /\ agenda = <<>>
    BY <2>1 DEF CommandInv, EndpointInv, HistoryInv, Asking
  <2> QED
    BY <2>1, <2>2, <2>3, OtherStage
<1>7. CASE CallRefused
  <2>1. /\ agenda # <<>> /\ agenda' = <<>> /\ stage' \in {"enumerate", "done"}
        /\ UNCHANGED <<platform, past, found, endpoint>>
    BY <1>7 DEF CallRefused, EndsWith, input, outcome
  <2>2. endpoint = None
    BY <2>1 DEF CommandInv, EndpointInv, HistoryInv, Asking
  <2> QED
    BY <2>1, <2>2, OtherStage
<1>8. CASE ResolveExplicit \/ Enumerate
  <2>1. /\ stage = "check" /\ UNCHANGED <<platform, past, found, endpoint>>
        /\ \/ stage' = "resolve" /\ agenda' = ResolveQuestions
           \/ stage' \in {"enumerate", "done"} /\ UNCHANGED agenda
    BY <1>8 DEF ResolveExplicit, Enumerate, Asks, EndsWith, input, outcome, host
  <2>2. endpoint = None /\ agenda = <<>> /\ platform = "linux"
    BY <2>1 DEF CommandInv, EndpointInv, HistoryInv, Asking
  <2>3. ResolveQuestions \in Seq(LinuxQuestion)
    BY <2>2 DEF ResolveQuestions, LinuxQuestion
  <2> QED
    BY <2>1, <2>2, <2>3, OtherStage DEF Asking
<1>9. CASE LookAtNext
  <2>1. /\ stage = "enumerate" /\ stage' = "candidate" /\ agenda' = CandidateQuestions
        /\ UNCHANGED <<platform, past, found, endpoint>>
    BY <1>9 DEF LookAtNext, Asks, input, outcome, host
  <2>2. endpoint = None /\ platform = "linux"
    BY <2>1 DEF CommandInv, EndpointInv, HistoryInv
  <2>3. CandidateQuestions \in Seq(LinuxQuestion)
    BY <2>2 DEF CandidateQuestions, LinuxQuestion
  <2> QED
    BY <2>1, <2>2, <2>3, OtherStage DEF Asking
<1>10. CASE KeepCandidate \/ EnumerationEnds
  <2>1. /\ stage \in {"candidate", "enumerate"} /\ stage' \in {"enumerate", "done"}
        /\ UNCHANGED <<platform, past, found, endpoint, agenda>>
    BY <1>10 DEF KeepCandidate, EnumerationEnds, EndsWith, Complete, input, reading, outcome, host
  <2>2. endpoint = None /\ agenda = <<>>
    BY <1>10, <2>1 DEF KeepCandidate, EnumerationEnds, Complete, CommandInv, EndpointInv,
                       HistoryInv, Asking
  <2> QED
    BY <2>1, <2>2, OtherStage
<1>11. CASE UNCHANGED vars
  <2>1. UNCHANGED <<platform, past, found, endpoint, agenda, row, stage>>
    BY <1>11 DEF vars, input, reading, outcome, host
  <2>2. HistoryInv' /\ EndpointInv'
    BY <2>1 DEF CommandInv, HistoryInv, EndpointInv, FlagsRead, AddressAt, NetmaskAt, HardwareAt,
                IndexAt, FlagsAt, Was
  <2>3. PerformInv'
    BY <2>1 DEF CommandInv, PerformInv, RowShaped, Asked, Ordered, AddressRead, NetmaskRead,
                HardwareRead, AddressAt, NetmaskAt, HardwareAt, Was
  <2>4. OpenInv'
    BY <2>1 DEF CommandInv, OpenInv, RowShaped, Asked, Ordered, HardwareRead, IndexRead, FlagsRead,
                AddressAt, NetmaskAt, HardwareAt, IndexAt, FlagsAt, Was
  <2> QED
    BY <2>2, <2>3, <2>4 DEF CommandInv
<1> QED
    BY <1>1, <1>2, <1>3, <1>4, <1>5, <1>6, <1>7, <1>8, <1>9, <1>10, <1>11 DEF Next

-----------------------------------------------------------------------------
(* One interface, on every platform *)

\* The records of one moment gave what f has.
RecordsAt(f, k) ==
    AddressAt(f, k) /\ NetmaskAt(f, k) /\ HardwareAt(f, k) /\ FlagsAt(f, k)
RecordsRead(f) == \E k \in DOMAIN past : RecordsAt(f, k)

\* Then, or later, the name had the index.
AttachedAfter(f, index) ==
    \E k, l \in DOMAIN past : k <= l /\ RecordsAt(f, k) /\ IndexAt(f, index, l)

\* What else than Linux does: the records are read at once, and BIOCSETIF takes the
\* interface that has the name then.
RecordsPart ==
    stage = "perform" => agenda = <<"records">> \/ (agenda = <<>> /\ RecordsRead(row))

AttachPart ==
    stage = "open" =>
        /\ row.name = found.name
        /\ RecordsRead(found)
        /\ \/ agenda \in {<<"device", "attach", "configure">>, <<"attach", "configure">>}
           \/ agenda \in {<<"configure">>, <<>>} /\ AttachedAfter(found, row.index)

EndpointPart ==
    endpoint # None => stage = "done" /\ platform = "macos" /\ AttachedAfter(found, endpoint)

RecordsCommandInv == RecordsPart /\ AttachPart /\ EndpointPart

\* The records answer with what is true of the name now, all of it.
LEMMA RecordsAreTrue ==
    ASSUME HostInv, NEW n, Classified(Records(Table), n) # Absent
    PROVE  LET reply == Classified(Records(Table), n)
               now == past[Len(past)][n]
           IN  /\ Len(past) \in DOMAIN past /\ now # Absent /\ FlagsAllow(now.flags)
               /\ reply.address = now.ipv4[1].address
               /\ reply.netmask = now.ipv4[1].netmask
               /\ reply.hardware = now.hardware
<1> DEFINE T == Table
           address == T[n].ipv4[1].address
           netmask == T[n].ipv4[1].netmask
           hardware == T[n].hardware
           locals == {a.address : a \in Range(T[n].ipv4)}
           reply == Classified(Records(T), n)
<1>1. Len(past) \in DOMAIN past /\ T = past[Len(past)] /\ T \in Tables
    BY DEF HostInv, Table, Last
<1>2. TableTyped(T)
    BY <1>1, CommandAssumption DEF Tables
<1>3. reply # Absent
    OBVIOUS
<1> HIDE DEF T
<1>4. n \in Name /\ Usable(T, n)
      /\ reply = [address |-> address, netmask |-> netmask, hardware |-> hardware,
                  locals |-> locals]
    BY <1>2, <1>3, ClassifiedIs
<1>5. T[n] # Absent /\ FlagsAllow(T[n].flags)
    BY <1>4 DEF Usable, Present, FlagsAllow
<1> HIDE DEF address, netmask, hardware, locals, reply
<1>6. reply.address = address /\ reply.netmask = netmask /\ reply.hardware = hardware
    BY <1>4
<1> QED
    BY <1>1, <1>5, <1>6 DEF address, netmask, hardware, reply, T

\* What was true at a moment stays so, while the history grows.
LEMMA MomentsStay ==
    ASSUME \A i \in DOMAIN past : i \in DOMAIN past' /\ past'[i] = past[i],
           UNCHANGED <<row, found, endpoint>>
    PROVE  /\ RecordsRead(row) => RecordsRead(row)'
           /\ RecordsRead(found) => RecordsRead(found)'
           /\ AttachedAfter(found, row.index) => AttachedAfter(found, row.index)'
           /\ AttachedAfter(found, endpoint) => AttachedAfter(found, endpoint)'
<1>1. ASSUME NEW k \in DOMAIN past
      PROVE  /\ k \in DOMAIN past'
             /\ RecordsAt(row, k) => RecordsAt(row, k)'
             /\ RecordsAt(found, k) => RecordsAt(found, k)'
             /\ IndexAt(found, row.index, k) => IndexAt(found, row.index, k)'
             /\ IndexAt(found, endpoint, k) => IndexAt(found, endpoint, k)'
    BY <1>1 DEF RecordsAt, AddressAt, NetmaskAt, HardwareAt, FlagsAt, IndexAt, Was
<1>2. RecordsRead(row) => RecordsRead(row)'
    BY <1>1 DEF RecordsRead
<1>3. RecordsRead(found) => RecordsRead(found)'
    BY <1>1 DEF RecordsRead
<1>4. AttachedAfter(found, row.index) => AttachedAfter(found, row.index)'
    BY <1>1 DEF AttachedAfter
<1>5. AttachedAfter(found, endpoint) => AttachedAfter(found, endpoint)'
    BY <1>1 DEF AttachedAfter
<1> QED
    BY <1>2, <1>3, <1>4, <1>5

\* A step that leaves what was asked and found, whatever it does to the history's end.
LEMMA RecordsIdle ==
    ASSUME RecordsCommandInv,
           \A i \in DOMAIN past : i \in DOMAIN past' /\ past'[i] = past[i],
           UNCHANGED <<stage, agenda, row, found, endpoint, platform>>
    PROVE  RecordsCommandInv'
<1>1. /\ RecordsRead(row) => RecordsRead(row)'
      /\ RecordsRead(found) => RecordsRead(found)'
      /\ AttachedAfter(found, row.index) => AttachedAfter(found, row.index)'
      /\ AttachedAfter(found, endpoint) => AttachedAfter(found, endpoint)'
    BY MomentsStay
<1>2. RecordsPart'
    BY <1>1 DEF RecordsCommandInv, RecordsPart
<1>3. AttachPart'
    BY <1>1 DEF RecordsCommandInv, AttachPart
<1>4. EndpointPart'
    BY <1>1 DEF RecordsCommandInv, EndpointPart
<1> QED
    BY <1>2, <1>3, <1>4 DEF RecordsCommandInv

\* A stage in which nothing of the endpoint is known begins, or the run ends without one.
LEMMA RecordsElsewhere ==
    ASSUME endpoint' = None, stage' \notin {"perform", "open"}
    PROVE  RecordsCommandInv'
BY DEF RecordsCommandInv, RecordsPart, AttachPart, EndpointPart

\* An answer.
LEMMA RecordsAnswered ==
    ASSUME RunInv, RecordsCommandInv, platform # "linux", CallAnswered
    PROVE  RecordsCommandInv'
<1> DEFINE question == Head(agenda)
<1>1. /\ agenda # <<>> /\ agenda \in Seq(Question) /\ row' = Learnt(question, Reply(question))
      /\ agenda' = Tail(agenda) /\ Reply(question) # Absent
      /\ UNCHANGED <<stage, found, past, platform, endpoint>>
    BY DEF CallAnswered, RunInv, ReadingInv, input, outcome, host
<1>2. HostInv /\ RowTyped(row)
    BY DEF RunInv, ReadingInv
<1>3. endpoint = None
  <2>1. stage \in Asking
    BY <1>1 DEF RunInv, ReadingInv
  <2> QED
    BY <2>1 DEF RecordsCommandInv, EndpointPart, Asking
<1>4. EndpointPart'
    BY <1>1, <1>3 DEF EndpointPart
<1>5. RecordsPart'
  <2> SUFFICES ASSUME stage = "perform" PROVE agenda' = <<>> /\ RecordsRead(row)'
    BY <1>1 DEF RecordsPart
  <2>1. agenda = <<"records">>
    BY <1>1 DEF RecordsCommandInv, RecordsPart
  <2>2. question = "records" /\ agenda' = <<>>
    BY <1>1, <2>1
  <2> DEFINE reply == Classified(Records(Table), row.name)
             now == past[Len(past)][row.name]
  <2>3. reply # Absent /\ row' = Identified(row, reply)
    BY <1>1, <2>2 DEF Reply, Learnt
  <2>4. /\ Len(past) \in DOMAIN past /\ now # Absent /\ FlagsAllow(now.flags)
        /\ reply.address = now.ipv4[1].address
        /\ reply.netmask = now.ipv4[1].netmask
        /\ reply.hardware = now.hardware
    BY <1>2, <2>3, RecordsAreTrue
  <2> HIDE DEF reply
  <2>5. /\ row'.name = row.name /\ row'.address = reply.address
        /\ row'.netmask = reply.netmask /\ row'.hardware = reply.hardware
    BY <1>2, <2>3 DEF Identified, RowTyped
  <2>6. RecordsAt(row, Len(past))'
    BY <1>1, <2>4, <2>5 DEF RecordsAt, AddressAt, NetmaskAt, HardwareAt, FlagsAt, Was
  <2> QED
    BY <1>1, <2>2, <2>4, <2>6 DEF RecordsRead
<1>6. AttachPart'
  <2> SUFFICES ASSUME stage = "open" PROVE AttachPart'
    BY <1>1 DEF AttachPart
  <2>1. row.name = found.name /\ RecordsRead(found)
    BY DEF RecordsCommandInv, AttachPart
  <2>2. RecordsRead(found)'
    BY <1>1, <2>1 DEF RecordsRead, RecordsAt, AddressAt, NetmaskAt, HardwareAt, FlagsAt, Was
  <2>3. CASE agenda = <<"device", "attach", "configure">>
    <3>1. question = "device" /\ agenda' = <<"attach", "configure">>
      BY <1>1, <2>3
    <3>2. row' = row
      BY <1>1, <3>1 DEF Learnt
    <3> QED
      BY <1>1, <2>1, <2>2, <3>1, <3>2 DEF AttachPart
  <2>4. CASE agenda = <<"attach", "configure">>
    <3>1. question = "attach" /\ agenda' = <<"configure">>
      BY <1>1, <2>4
    <3> DEFINE reply == Answer(Table, row.name, "index")
    <3>2. reply # Absent /\ row' = [row EXCEPT !.index = reply]
      BY <1>1, <3>1 DEF Reply, Learnt
    <3>3. Table[row.name] # Absent /\ reply = Table[row.name].index
      BY <3>2 DEF Answer
    <3>4. Len(past) \in DOMAIN past /\ Table = past[Len(past)] /\ \A k \in DOMAIN past : k <= Len(past)
      BY <1>2 DEF HostInv, Table, Last
    <3> HIDE DEF reply
    <3>5. row'.name = row.name /\ row'.index = reply
      BY <1>2, <3>2 DEF RowTyped
    <3>6. IndexAt(found, row.index, Len(past))'
      BY <1>1, <2>1, <3>3, <3>4, <3>5 DEF IndexAt, Was
    <3>7. AttachedAfter(found, row.index)'
      <4>1. PICK k \in DOMAIN past : RecordsAt(found, k)'
        BY <1>1, <2>2 DEF RecordsRead
      <4> QED
        BY <1>1, <3>4, <3>6, <4>1 DEF AttachedAfter
    <3> QED
      BY <1>1, <2>1, <2>2, <3>1, <3>5, <3>7 DEF AttachPart
  <2>5. CASE agenda = <<"configure">> /\ AttachedAfter(found, row.index)
    <3>1. question = "configure" /\ agenda' = <<>>
      BY <1>1, <2>5
    <3>2. row' = row
      BY <1>1, <3>1 DEF Learnt
    <3>3. AttachedAfter(found, row.index)'
      BY <1>1, <2>5, <3>2 DEF AttachedAfter, RecordsAt, AddressAt, NetmaskAt, HardwareAt, FlagsAt,
                              IndexAt, Was
    <3> QED
      BY <1>1, <2>1, <2>2, <3>1, <3>2, <3>3 DEF AttachPart
  <2> QED
    BY <1>1, <2>3, <2>4, <2>5 DEF RecordsCommandInv, AttachPart
<1> QED
    BY <1>4, <1>5, <1>6 DEF RecordsCommandInv

\* Every step on a platform other than Linux.
LEMMA RecordsNext ==
    ASSUME RunInv, RecordsCommandInv, platform # "linux", [Next]_vars
    PROVE  RecordsCommandInv'
<1>1. HostInv
    BY DEF RunInv
<1>2. ASSUME stage # "done" PROVE endpoint = None
    BY <1>2 DEF RecordsCommandInv, EndpointPart
<1>3. CASE CallAnswered
    BY <1>3, RecordsAnswered
<1>4. CASE Chosen
  <2>1. /\ stage' = "perform" /\ stage # "done" /\ agenda' = PerformQuestions /\ endpoint' = endpoint
    BY <1>4 DEF Chosen, Complete, Asks, outcome
  <2>2. PerformQuestions = <<"records">>
    BY DEF PerformQuestions
  <2> QED
    BY <1>2, <2>1, <2>2 DEF RecordsCommandInv, RecordsPart, AttachPart, EndpointPart
<1>5. CASE MakePlan
  <2>1. /\ stage = "perform" /\ agenda = <<>> /\ found' = row /\ endpoint' = endpoint /\ past' = past
        /\ \/ stage' = "open" /\ row' = NoRow(row.name) /\ agenda' = OpenQuestions
           \/ stage' = "done"
    BY <1>5 DEF MakePlan, Complete, Asks, EndsWith, host
  <2>2. RecordsRead(row)
    BY <2>1 DEF RecordsCommandInv, RecordsPart
  <2>3. RecordsRead(found)'
    BY <2>1, <2>2 DEF RecordsRead, RecordsAt, AddressAt, NetmaskAt, HardwareAt, FlagsAt, Was
  <2>4. OpenQuestions = <<"device", "attach", "configure">>
    BY DEF OpenQuestions
  <2>5. row'.name = row.name \/ stage' = "done"
    BY <2>1 DEF NoRow
  <2> QED
    BY <1>2, <2>1, <2>3, <2>4, <2>5 DEF RecordsCommandInv, RecordsPart, AttachPart, EndpointPart
<1>6. CASE Opened
  <2>1. /\ stage = "open" /\ agenda = <<>> /\ stage' = "done" /\ endpoint' = row.index
        /\ UNCHANGED <<platform, past, found>>
    BY <1>6 DEF Opened, Complete, input, host
  <2>2. AttachedAfter(found, row.index)
    BY <2>1 DEF RecordsCommandInv, AttachPart
  <2>3. AttachedAfter(found, endpoint)'
    BY <2>1, <2>2 DEF AttachedAfter, RecordsAt, AddressAt, NetmaskAt, HardwareAt, FlagsAt, IndexAt,
                      Was
  <2>4. platform = "macos"
    BY <2>1, CommandAssumption DEF RunInv, StageInv, Asking
  <2> QED
    BY <2>1, <2>3, <2>4 DEF RecordsCommandInv, RecordsPart, AttachPart, EndpointPart
<1>7. CASE HostChanges \/ UNCHANGED vars
  <2>1. \A i \in DOMAIN past : i \in DOMAIN past' /\ past'[i] = past[i]
    <3>1. CASE HostChanges
      <4>1. PICK t \in Changed : past' = Append(past, t)
        BY <3>1 DEF HostChanges
      <4>2. past \in Seq(Tables) /\ t \in Tables
        BY <1>1 DEF HostInv, Tables
      <4> QED
        BY <4>1, <4>2
    <3>2. CASE UNCHANGED vars
      BY <3>2 DEF vars, host
    <3> QED
      BY <1>7, <3>1, <3>2
  <2>2. UNCHANGED <<stage, agenda, row, found, endpoint, platform>>
    BY <1>7 DEF HostChanges, vars, input, reading, outcome
  <2> QED
    BY <2>1, <2>2, RecordsIdle
<1>8. CASE \/ ParseLine \/ VendorsRefused \/ MakeCommand \/ CheckRefuses \/ CallRefused
           \/ ResolveExplicit \/ Enumerate \/ LookAtNext \/ KeepCandidate \/ EnumerationEnds
  <2>1. stage # "done" /\ endpoint' = endpoint /\ stage' \notin {"perform", "open"}
    <3>1. CASE CallRefused
      <4>1. stage # "done"
        BY <3>1 DEF CallRefused, RunInv, ReadingInv, Asking
      <4> QED
        BY <3>1, <4>1 DEF CallRefused, EndsWith, outcome
    <3>2. CASE ~CallRefused
      BY <1>8, <3>2 DEF ParseLine, VendorsRefused, MakeCommand, CheckRefuses, ResolveExplicit,
             Enumerate, LookAtNext, KeepCandidate, EnumerationEnds, Complete, Asks, EndsWith,
             outcome
    <3> QED
      BY <3>1, <3>2
  <2> QED
    BY <1>2, <2>1, RecordsElsewhere
<1> QED
    BY <1>3, <1>4, <1>5, <1>6, <1>7, <1>8 DEF Next

\* The invariant of the platform that the run is on.
PlatformInv ==
    /\ platform = "linux" => CommandInv
    /\ platform # "linux" => RecordsCommandInv

\* On every platform, for any number of changes and failures: what an endpoint listens on
\* had the chosen name after the addresses were read under it; on Linux each of them was
\* true at a moment of its own, in order, and the interface could be scanned after that,
\* on macOS they were true, and it could be scanned, at one moment.
THEOREM EndpointIsOfOneInterface ==
    Spec => []OneInterface
<1> DEFINE IInv == RunInv /\ PlatformInv
<1>1. Init => IInv
  <2> SUFFICES ASSUME Init PROVE IInv
    OBVIOUS
  <2>1. stage = "parse" /\ endpoint = None
    BY DEF Init
  <2>2. RecordsCommandInv
    BY <2>1 DEF RecordsCommandInv, RecordsPart, AttachPart, EndpointPart
  <2> QED
    BY <2>2, RunInit, CommandInit DEF PlatformInv
<1>2. IInv /\ [Next]_vars => IInv'
  <2> SUFFICES ASSUME RunInv, PlatformInv, [Next]_vars PROVE RunInv' /\ PlatformInv'
    OBVIOUS
  <2>1. RunInv'
    BY RunNext
  <2>2. platform' = platform
    BY DEF Next, vars, input, ParseLine, VendorsRefused, MakeCommand, CheckRefuses, CallAnswered,
           CallRefused, ResolveExplicit, Enumerate, LookAtNext, KeepCandidate, EnumerationEnds,
           Chosen, MakePlan, Opened, HostChanges
  <2>3. platform = "linux" => CommandInv'
    BY CommandNext DEF PlatformInv
  <2>4. platform # "linux" => RecordsCommandInv'
    BY RecordsNext DEF PlatformInv
  <2> QED
    BY <2>1, <2>2, <2>3, <2>4 DEF PlatformInv
<1>3. IInv => OneInterface
  <2> SUFFICES ASSUME RunInv, PlatformInv, endpoint # None PROVE OneInterface
    BY DEF OneInterface
  <2>1. CASE platform = "linux"
    <3>1. PICK i, j, k, l, m \in DOMAIN past :
            /\ i <= j /\ j <= k /\ k <= l /\ l <= m
            /\ AddressAt(found, i) /\ NetmaskAt(found, j) /\ HardwareAt(found, k)
            /\ IndexAt(found, endpoint, l) /\ FlagsAt(found, m)
      BY <2>1 DEF PlatformInv, CommandInv, EndpointInv, FlagsRead
    <3> QED
      BY <2>1, <3>1 DEF OneInterface, AddressAt, NetmaskAt, HardwareAt, IndexAt, FlagsAt, Was
  <2>2. CASE platform # "linux"
    <3>1. PICK k, l \in DOMAIN past : k <= l /\ RecordsAt(found, k) /\ IndexAt(found, endpoint, l)
      BY <2>2 DEF PlatformInv, RecordsCommandInv, EndpointPart, AttachedAfter
    <3>2. k \in Nat
      <4>1. RunInv
        OBVIOUS
      <4> QED
        BY <4>1 DEF RunInv, HostInv
    <3> QED
      BY <2>2, <3>1, <3>2 DEF OneInterface, RecordsAt, AddressAt, NetmaskAt, HardwareAt, IndexAt,
                              FlagsAt, Was
  <2> QED
    BY <2>1, <2>2
<1> QED
    BY <1>1, <1>2, <1>3, PTL DEF Spec
-----------------------------------------------------------------------------
(* What the parser accepts, the library does not refuse *)

\* A line comes past the parser only when it accepts it, what is checked is the command
\* made of that line, and the result is one of those that such a line may have.
LineInv ==
    /\ \E start \in Start : line = start.line
    /\ line.kind = "scan" /\ stage \in {"convert", "check"} => LineAccepted(line)
    /\ stage = "check" => command = CommandOf(line)
    /\ ParsedLinesConvert

\* The parser's limits are within those of the conversion: no `expect` of main.rs panics.
LEMMA AcceptedLinesConvert ==
    ASSUME NEW l, LineTyped(l), LineAccepted(l)
    PROVE  Converts(l)
<1>1. /\ ParsedVid \in Nat /\ MaxVid \in Nat /\ ParsedVid <= MaxVid
      /\ ParsedPcp \in Nat /\ MaxPcp \in Nat /\ ParsedPcp <= MaxPcp
    BY CommandLineAssumption, ParserAssumption
<1>2. ASSUME NEW vid \in {l.vlan, l.svlan}, Given(vid) PROVE vid <= MaxVid
  <2>1. vid \in Nat /\ vid <= ParsedVid
    BY <1>2 DEF LineTyped, LineAccepted, ValuesParse, VidParses, Given
  <2> QED
    BY <1>1, <2>1
<1>3. ASSUME NEW pcp \in {l.pcp, l.spcp}, Given(pcp) PROVE pcp <= MaxPcp
  <2>1. pcp \in Nat /\ pcp <= ParsedPcp
    BY <1>3 DEF LineTyped, LineAccepted, ValuesParse, PcpParses, Given
  <2> QED
    BY <1>1, <2>1
<1>4. /\ ~Given(l.bandwidth) /\ Given(l.interval) => l.interval # 0
      /\ l.attempts # 0
    BY DEF LineAccepted, ValuesParse
<1> QED
    BY <1>2, <1>3, <1>4 DEF Converts

\* The options that require each other make a tag stack that the library takes.
LEMMA AcceptedTagsValid ==
    ASSUME NEW l, LineAccepted(l)
    PROVE  TagStackValid(WireOptions(l))
BY DEF LineAccepted, OptionsAgree, TagStackValid, WireOptions, Given

\* The parser's limit of the padding is the library's, but for the SNAP header.
LEMMA AcceptedPaddingFits ==
    ASSUME NEW l, LineAccepted(l), ~l.llc, Given(l.padding) => l.padding.digits \in Nat
    PROVE  ClientDataValid(WireOptions(l))
<1>1. ClientLimit \in Nat /\ ArpOctets \in Nat /\ SnapOctets \in Nat /\ ClientLimit >= ArpOctets + SnapOctets
    BY CommandLineAssumption
<1>2. /\ WireOptions(l).llc = l.llc
      /\ WireOptions(l).padding = IF Given(l.padding) THEN l.padding.digits \div 2 ELSE 0
    BY DEF WireOptions
<1>3. CASE Given(l.padding)
  <2>1. l.padding.digits \div 2 <= ClientLimit - ArpOctets /\ l.padding.digits \div 2 \in Int
    BY <1>3 DEF LineAccepted, ValuesParse, PaddingParses
  <2> QED
    BY <1>1, <1>2, <1>3, <2>1 DEF ClientDataValid
<1>4. CASE ~Given(l.padding)
    BY <1>1, <1>2, <1>4 DEF ClientDataValid
<1> QED
    BY <1>3, <1>4

\* What the library refuses of a command that the parser let through.
LEMMA RefusalOfAccepted ==
    ASSUME LineInv, stage = "check", line.kind = "scan"
    PROVE  /\ Refusal # "panic" /\ Refusal # "tags"
           /\ Refusal = "clientData" => line.llc
           /\ Refusal = "timing" => Given(line.bandwidth) \/ Given(line.interval)
<1>1. LineAccepted(line) /\ command = CommandOf(line)
    BY DEF LineInv
<1>2. /\ command.kind = "scan" /\ command.wire = WireOptions(line)
      /\ command.rate = RateLimit(line)
    BY <1>1 DEF CommandOf
<1>3. Given(line.padding) => line.padding.digits \in Nat
    BY CommandAssumption DEF LineInv, LineTyped
<1>4. TagStackValid(command.wire)
    BY <1>1, <1>2, AcceptedTagsValid
<1>5. ~ClientDataValid(command.wire) => line.llc
    BY <1>1, <1>2, <1>3, AcceptedPaddingFits
<1>6. command.rate # None => Given(line.bandwidth) \/ Given(line.interval)
    BY <1>2 DEF RateLimit
<1>7. None \notin {"panic", "tags", "clientData", "timing"}
    BY CommandAssumption DEF Verdict
<1> QED
    BY <1>2, <1>4, <1>5, <1>6, <1>7 DEF Refusal

\* Every step keeps the result in what a line may come to.
LEMMA LineNext ==
    ASSUME LineInv, [Next]_vars
    PROVE  LineInv'
<1>1. line' = line
    BY DEF Next, vars, input, ParseLine, VendorsRefused, MakeCommand, CheckRefuses, CallAnswered,
           CallRefused, ResolveExplicit, Enumerate, LookAtNext, KeepCandidate, EnumerationEnds,
           Chosen, MakePlan, Opened, HostChanges
<1>2. (\E start \in Start : line = start.line)'
    BY <1>1 DEF LineInv
<1>3. CASE ParseLine
  <2>1. \/ /\ stage' = "convert" /\ result' = result
           /\ line.kind = "scan" => LineAccepted(line)
        \/ stage' = "done" /\ result' = "usage"
    BY <1>3 DEF ParseLine, EndsWith, outcome
  <2> QED
    BY <1>1, <1>2, <2>1 DEF LineInv, ParsedLinesConvert
<1>4. CASE VendorsRefused
  <2>1. stage' = "done" /\ result' = "vendors"
    BY <1>4 DEF VendorsRefused, EndsWith
  <2> QED
    BY <1>1, <1>2, <2>1 DEF LineInv, ParsedLinesConvert
<1>5. CASE MakeCommand
  <2>1. line.kind = "scan" => LineAccepted(line) /\ Converts(line)
    <3>1. LineTyped(line)
      BY CommandAssumption DEF LineInv
    <3> QED
      BY <1>5, <3>1, AcceptedLinesConvert DEF LineInv, MakeCommand
  <2>2. stage' = "check" /\ result' = result /\ command' = CommandOf(line)
    BY <1>5, <2>1 DEF MakeCommand, CommandOf, outcome
  <2> QED
    BY <1>1, <1>2, <2>1, <2>2 DEF LineInv, ParsedLinesConvert
<1>6. CASE CheckRefuses
  <2>1. stage = "check" /\ stage' = "done" /\ result' = Refusal
    BY <1>6 DEF CheckRefuses, EndsWith
  <2> QED
    BY <1>1, <1>2, <2>1, RefusalOfAccepted DEF LineInv, ParsedLinesConvert
<1>7. CASE /\ stage' \notin {"convert", "check"}
           /\ \/ result' = result
              \/ result' \in {"interface", "listed", "noneFound", "ambiguous", "plan", "opened"}
    BY <1>1, <1>2, <1>7 DEF LineInv, ParsedLinesConvert
<1>8. CASE UNCHANGED <<stage, command, result>>
    BY <1>1, <1>2, <1>8 DEF LineInv, ParsedLinesConvert
<1>9. ASSUME \/ CallAnswered \/ HostChanges \/ UNCHANGED vars
      PROVE  UNCHANGED <<stage, command, result>>
    BY <1>9 DEF CallAnswered, HostChanges, vars, outcome
<1>10. ASSUME \/ CallRefused \/ ResolveExplicit \/ Enumerate \/ LookAtNext \/ KeepCandidate
              \/ EnumerationEnds \/ Chosen \/ MakePlan \/ Opened
       PROVE  /\ stage' \notin {"convert", "check"}
              /\ \/ result' = result
                 \/ result' \in {"interface", "listed", "noneFound", "ambiguous", "plan", "opened"}
    BY <1>10 DEF CallRefused, ResolveExplicit, Enumerate, LookAtNext, KeepCandidate,
                 EnumerationEnds, Chosen, MakePlan, Opened, Asks, EndsWith, outcome
<1> QED
    BY <1>3, <1>4, <1>5, <1>6, <1>7, <1>8, <1>9, <1>10 DEF Next

\* For every line and every host: what the parser of cli.rs accepts never panics in main
\* and is refused later neither for its tags, nor for its padding without --llc, nor for
\* its timing without a rate.
THEOREM AcceptedLinesAreServed ==
    Spec => []ParsedLinesConvert
<1>1. Init => LineInv
  <2> SUFFICES ASSUME Init PROVE LineInv
    OBVIOUS
  <2>1. stage = "parse" /\ result = None /\ \E start \in Start : line = start.line
    BY DEF Init
  <2>2. None \notin {"panic", "tags", "clientData", "timing"}
    BY CommandAssumption DEF Verdict
  <2> QED
    BY <2>1, <2>2 DEF LineInv, ParsedLinesConvert
<1>2. LineInv /\ [Next]_vars => LineInv'
    BY LineNext
<1>3. LineInv => ParsedLinesConvert
    BY DEF LineInv
<1> QED
    BY <1>1, <1>2, <1>3, PTL DEF Spec

-----------------------------------------------------------------------------
(* Runs without changes of the interfaces *)

Calm == Len(past) = 1

\* The answer to a question is in the row, and true of the interface.
Settled(T, r, q) ==
    LET interface == T[r.name]
    IN  /\ q \in {"index", "attach", "flags", "address", "netmask", "hardware"} =>
             r.name \in Present(T)
        /\ q \in {"index", "attach"} => r.index = interface.index
        /\ q = "flags" => FlagsAllow(interface.flags)
        /\ q = "address" => interface.ipv4 # <<>> /\ r.address = interface.ipv4[1].address
        /\ q = "netmask" =>
             /\ interface.ipv4 # <<>> /\ interface.ipv4[1].netmask # Absent
             /\ r.netmask = interface.ipv4[1].netmask
        /\ q = "hardware" =>
             /\ interface.type = "ethernet" /\ interface.hardware \notin {Absent, Zero}
             /\ r.hardware = interface.hardware
        /\ q = "addresses" => r.locals = Addresses(interface)
        /\ q = "records" =>
             /\ Usable(T, r.name)
             /\ r.address = interface.ipv4[1].address /\ r.netmask = interface.ipv4[1].netmask
             /\ r.hardware = interface.hardware /\ r.locals = Addresses(interface)

\* What the present call asks, and the agenda when n answers are there.
Questions ==
    IF stage = "resolve" THEN ResolveQuestions
    ELSE IF stage = "candidate" THEN CandidateQuestions
    ELSE IF stage = "perform" THEN PerformQuestions
    ELSE OpenQuestions

Answered(n) ==
    /\ Len(agenda) = Len(Questions) - n
    /\ \A i \in 1 .. Len(agenda) : agenda[i] = Questions[i + n]
    /\ \A i \in 1 .. n : Settled(Table, row, Questions[i])

AgendaPart == stage \in Asking => \E n \in 0 .. Len(Questions) : Answered(n)

\* The interfaces a run may go by.
Wanted == IF Run /\ Given(command.interface) THEN {command.interface} ELSE UsableNames(Table)

ChoicePart ==
    /\ CommandOf(line) # None
    /\ stage \in {"parse", "convert"} => command = None
    /\ stage \in Asking \cup {"enumerate"} => Refusal = None
    /\ stage = "resolve" => row.name = command.interface
    /\ stage \in {"perform", "open"} =>
        /\ Usable(Table, row.name) /\ row.name \in Wanted
        /\ Cardinality(Wanted) <= faults + 1

\* What is found before the plan.
FoundTrue(T, f, kind) ==
    /\ Usable(T, f.name)
    /\ f.address = T[f.name].ipv4[1].address
    /\ f.netmask = T[f.name].ipv4[1].netmask
    /\ f.hardware = T[f.name].hardware
    /\ kind = "monitor" => f.locals = Addresses(T[f.name])

FoundPart ==
    stage = "open" =>
        /\ found.name = row.name
        /\ FoundTrue(Table, found, command.kind)
        /\ PlanAccepted(found.address, found.netmask)

\* A row of an enumeration, and the names of some rows.
Fresh(T, p, r) ==
    /\ r.name \in Present(T)
    /\ IF p = "linux" THEN r.index = T[r.name].index ELSE Usable(T, r.name)

NamesOf(rows) == {rows[i].name : i \in DOMAIN rows}
Current == IF stage = "candidate" THEN {row.name} ELSE {}

AllFresh(T, p, rows) ==
    /\ \A i \in DOMAIN rows : Fresh(T, p, rows[i])
    /\ \A i, j \in DOMAIN rows : rows[i].name = rows[j].name => i = j

\* Candidates are usable and sorted by their indexes.
AllUsable(T, rows) ==
    \A i \in DOMAIN rows :
        Usable(T, rows[i].name) /\ rows[i].index = T[rows[i].name].index
Sorted(rows) == \A i, j \in DOMAIN rows : i < j => rows[i].index < rows[j].index

\* The usable interfaces that an enumeration has passed over.
Missed == UsableNames(Table) \ (NamesOf(pending) \cup NamesOf(candidates) \cup Current)

\* In an enumeration every usable interface is ahead, looked at, or a candidate, but for
\* those that a failure has hidden.
EnumerationPart ==
    /\ stage \in {"parse", "convert", "check"} => candidates = <<>>
    /\ stage \in {"enumerate", "candidate"} =>
        /\ command.kind = "list" \/ ~Given(command.interface)
        /\ Cardinality(Missed) <= faults
        /\ NamesOf(pending) \cap (NamesOf(candidates) \cup Current) = {}
        /\ NamesOf(candidates) \cap Current = {}
        /\ stage = "candidate" => Fresh(Table, platform, row)
        /\ AllFresh(Table, platform, pending)
        /\ AllUsable(Table, candidates) /\ Sorted(candidates)

\* What the end is, in a run of each kind.
EndPart ==
    /\ stage # "done" => endpoint = None
    /\ EndsAsFound
    /\ FailuresOnlyHide

CalmParts == AgendaPart /\ ChoicePart /\ FoundPart /\ EnumerationPart /\ EndPart
CalmInv == Calm => CalmParts

\* A step that keeps a calm run calm.
Same == UNCHANGED <<past, Table, platform, line>> /\ {faults, faults'} \subseteq Nat /\ faults <= faults'
-----------------------------------------------------------------------------
\* What is assumed of an interface of a table.
LEMMA InterfaceTyped ==
    ASSUME NEW T, TableTyped(T), NEW n \in Present(T)
    PROVE  /\ T[n].index \in Nat /\ T[n].index # Absent
           /\ T[n].flags # Absent /\ Addresses(T[n]) # Absent
           /\ T[n].ipv4 # <<>> =>
                /\ Identity(T[n]) # Absent
                /\ T[n].ipv4[1].address \in Address /\ T[n].ipv4[1].address # Absent
                /\ T[n].ipv4[1].address \in Addresses(T[n])
           /\ \A m \in Present(T) : T[m].index = T[n].index => m = n
<1> DEFINE R == [address : Address, netmask : Address \cup {Absent}]
<1>1. n \in Name /\ T[n] # Absent
    BY DEF Present
<1>2. /\ T[n].index \in Nat /\ T[n].flags # Absent /\ Addresses(T[n]) # Absent
      /\ T[n].ipv4 # <<>> => Identity(T[n]) # Absent
      /\ \A m \in Name \ {n} : T[m] # Absent => T[m].index # T[n].index
    BY <1>1 DEF TableTyped
<1>3. T[n].index # Absent
    BY <1>2, DiscoveryAssumption
<1>4. ASSUME T[n].ipv4 # <<>>
      PROVE  /\ T[n].ipv4[1].address \in Address /\ T[n].ipv4[1].address # Absent
             /\ T[n].ipv4[1].address \in Addresses(T[n])
  <2>1. PICK s : s = T[n].ipv4 /\ s \in Seq(R) /\ s # <<>>
    BY <1>1, <1>4 DEF TableTyped
  <2> HIDE DEF R
  <2>2. 1 \in DOMAIN s /\ s[1] \in R
    BY <2>1
  <2>3. s[1].address \in Address
    BY <2>2 DEF R
  <2>4. s[1] \in Range(s)
    BY <2>2 DEF Range
  <2>5. Address \subseteq Nat
    BY DEF Address
  <2> QED
    BY <2>1, <2>3, <2>4, <2>5, DiscoveryAssumption DEF Addresses
<1>5. \A m \in Present(T) : T[m].index = T[n].index => m = n
    BY <1>2 DEF Present
<1> QED
    BY <1>2, <1>3, <1>4, <1>5

\* Of a usable interface no question is refused.
LEMMA UsableIsAnswered ==
    ASSUME TableTyped(Table), NEW question \in Question, Usable(Table, row.name),
           question = "bind" => Settled(Table, row, "index")
    PROVE  Reply(question) # Absent
<1> DEFINE T == Table
           n == row.name
<1>1. n \in Present(T) /\ n \in Name /\ T[n] # Absent
    BY DEF Usable, Present
<1>2. /\ T[n].type = "ethernet" /\ FlagsAllow(T[n].flags)
      /\ T[n].ipv4 # <<>> /\ T[n].ipv4[1].netmask # Absent
      /\ T[n].hardware # Absent /\ T[n].hardware # Zero
    BY DEF Usable, FlagsAllow
<1>3. /\ T[n].index # Absent /\ T[n].flags # Absent /\ Addresses(T[n]) # Absent
      /\ Identity(T[n]) # Absent /\ T[n].ipv4[1].address # Absent
    BY <1>1, <1>2, InterfaceTyped
<1>4. CASE question = "records"
  <2>1. Reply(question) = Classified(Records(T), n)
    BY <1>4 DEF Reply
  <2>2. Classified(Records(T), n) = Identity(T[n])
    BY <1>1, ClassifiedIs DEF Identity, Addresses
  <2> QED
    BY <1>3, <2>1, <2>2
<1>5. CASE question \in {"socket", "device", "configure"}
    BY <1>5, CommandAssumption DEF Reply
<1>6. CASE question = "bind"
  <2>1. row.index = T[n].index
    BY <1>6 DEF Settled
  <2>2. Reply(question) = row.index
    BY <1>1, <1>6, <2>1 DEF Reply
  <2> QED
    BY <1>3, <2>1, <2>2
<1>7. CASE question \in {"attach", "index"}
  <2>1. Reply(question) = Answer(T, n, "index")
    BY <1>7 DEF Reply
  <2>2. Answer(T, n, "index") = T[n].index
    BY <1>1 DEF Answer
  <2> QED
    BY <1>3, <2>1, <2>2
<1>8. CASE question = "flags"
  <2>1. Answer(T, n, "flags") = T[n].flags
    BY <1>1 DEF Answer
  <2> QED
    BY <1>2, <1>3, <1>8, <2>1 DEF Reply
<1>9. CASE question \in {"address", "netmask", "hardware", "addresses"}
  <2>1. Reply(question) = Answer(T, n, question)
    BY <1>9 DEF Reply
  <2>2. CASE question = "address"
    BY <1>1, <1>2, <1>3, <2>1, <2>2 DEF Answer
  <2>3. CASE question = "netmask"
    BY <1>1, <1>2, <1>3, <2>1, <2>3 DEF Answer
  <2>4. CASE question = "hardware"
    BY <1>1, <1>2, <1>3, <2>1, <2>4 DEF Answer, LinuxHardware
  <2>5. CASE question = "addresses"
    BY <1>1, <1>2, <1>3, <2>1, <2>5 DEF Answer, Addresses
  <2> QED
    BY <1>9, <2>2, <2>3, <2>4, <2>5
<1> QED
    BY <1>4, <1>5, <1>6, <1>7, <1>8, <1>9 DEF Question

\* An answer settles its question and unsettles none.
LEMMA AnswerSettles ==
    ASSUME TableTyped(Table), RowTyped(row), NEW question \in Question, Reply(question) # Absent,
           question = "addresses" => Settled(Table, row, "address"),
           NEW r, r = Learnt(question, Reply(question))
    PROVE  /\ r.name = row.name
           /\ Settled(Table, r, question)
           /\ \A q \in Question : Settled(Table, row, q) => Settled(Table, r, q)
<1> DEFINE T == Table
           n == row.name
           reply == Reply(question)
<1>0. row = [name |-> row.name, index |-> row.index, flags |-> row.flags, address |-> row.address,
             netmask |-> row.netmask, hardware |-> row.hardware, locals |-> row.locals]
    BY DEF RowTyped
<1>1. CASE question = "records"
  <2>1. reply = Classified(Records(T), n)
    BY <1>1 DEF Reply
  <2>2. n \in Name /\ Usable(T, n) /\ reply = Identity(T[n])
    BY <2>1, ClassifiedIs DEF Identity, Addresses
  <2>3. r = Identified(row, reply)
    BY <1>1 DEF Learnt
  <2> DEFINE i == T[n]
  <2> HIDE DEF reply
  <2>4. /\ r.name = n /\ r.index = row.index
        /\ r.address = i.ipv4[1].address /\ r.netmask = i.ipv4[1].netmask
        /\ r.hardware = i.hardware /\ r.locals = Addresses(i)
    <3> DEFINE a == i.ipv4[1].address
               m == i.ipv4[1].netmask
               h == i.hardware
               l == Addresses(i)
    <3>1. reply = [address |-> a, netmask |-> m, hardware |-> h, locals |-> l]
      BY <2>2 DEF Identity
    <3> HIDE DEF a, m, h, l, i
    <3>2. r = [name |-> row.name, index |-> row.index, flags |-> row.flags, address |-> a,
               netmask |-> m, hardware |-> h, locals |-> l]
      BY <1>0, <2>3, <3>1 DEF Identified
    <3>3. r.name = n /\ r.index = row.index /\ r.address = a /\ r.netmask = m /\ r.hardware = h /\ r.locals = l
      BY <3>2
    <3> QED
      BY <3>3 DEF a, m, h, l
  <2>5. Settled(T, r, question)
    BY <1>1, <2>2, <2>4 DEF Settled
  <2>6. ASSUME NEW q \in Question, Settled(T, row, q) PROVE Settled(T, r, q)
    BY <2>2, <2>4, <2>6 DEF Settled
  <2> QED
    BY <2>4, <2>5, <2>6
<1>2. CASE question \in {"socket", "bind", "device", "configure"}
  <2>1. r = row
    BY <1>2 DEF Learnt
  <2> QED
    BY <1>2, <2>1 DEF Settled
<1>3. CASE question \in {"attach", "index"}
  <2>1. reply = Answer(T, n, "index")
    BY <1>3 DEF Reply
  <2>2. n \in Present(T) /\ reply = T[n].index
    BY <2>1 DEF Answer, Present
  <2>3. r = [row EXCEPT !.index = reply]
    BY <1>3 DEF Learnt
  <2> HIDE DEF reply
  <2>4. /\ r.name = n /\ r.index = T[n].index
        /\ r.address = row.address /\ r.netmask = row.netmask
        /\ r.hardware = row.hardware /\ r.locals = row.locals
    BY <1>0, <2>2, <2>3
  <2> QED
    BY <1>3, <2>2, <2>4 DEF Settled
<1>4. CASE question = "addresses"
  <2>1. reply = Answer(T, n, "addresses")
    BY <1>4 DEF Reply
  <2>2. /\ n \in Present(T) /\ T[n].ipv4 # <<>> /\ row.address = T[n].ipv4[1].address
    BY <1>4 DEF Settled
  <2>3. reply = Addresses(T[n])
    BY <2>1, <2>2 DEF Answer, Present, Addresses
  <2>4. row.address \in Addresses(T[n])
    BY <2>2, InterfaceTyped
  <2>5. r = [row EXCEPT !.locals = reply \cup {row.address}]
    BY <1>4 DEF Learnt
  <2>6. reply \cup {row.address} = Addresses(T[n])
    BY <2>3, <2>4
  <2>7. r = [row EXCEPT !.locals = Addresses(T[n])]
    BY <2>5, <2>6
  <2>8. /\ r.name = n /\ r.index = row.index
        /\ r.address = row.address /\ r.netmask = row.netmask
        /\ r.hardware = row.hardware /\ r.locals = Addresses(T[n])
    BY <1>0, <2>7
  <2> QED
    BY <1>4, <2>8 DEF Settled
<1>5. CASE question = "flags"
  <2>1. Answer(T, n, "flags") # Absent /\ FlagsAllow(Answer(T, n, "flags")) /\ reply = Answer(T, n, "flags")
    BY <1>5 DEF Reply
  <2>2. n \in Present(T) /\ FlagsAllow(T[n].flags)
    BY <2>1 DEF Answer, Present
  <2>3. r = [row EXCEPT !.flags = reply]
    BY <1>5 DEF Learnt
  <2> HIDE DEF reply
  <2>4. /\ r.name = n /\ r.index = row.index
        /\ r.address = row.address /\ r.netmask = row.netmask
        /\ r.hardware = row.hardware /\ r.locals = row.locals
    BY <1>0, <2>3
  <2> QED
    BY <1>5, <2>2, <2>4 DEF Settled
<1>6. CASE question = "address"
  <2>1. reply = Answer(T, n, "address")
    BY <1>6 DEF Reply
  <2>2. n \in Present(T) /\ T[n].ipv4 # <<>> /\ reply = T[n].ipv4[1].address
    BY <2>1 DEF Answer, Present
  <2>3. r = [row EXCEPT !.address = reply]
    BY <1>6 DEF Learnt
  <2> HIDE DEF reply
  <2>4. /\ r.name = n /\ r.index = row.index
        /\ r.address = T[n].ipv4[1].address /\ r.netmask = row.netmask
        /\ r.hardware = row.hardware /\ r.locals = row.locals
    BY <1>0, <2>2, <2>3
  <2> QED
    BY <1>6, <2>2, <2>4 DEF Settled
<1>7. CASE question = "netmask"
  <2>1. reply = Answer(T, n, "netmask")
    BY <1>7 DEF Reply
  <2>2. n \in Present(T) /\ T[n].ipv4 # <<>> /\ reply = T[n].ipv4[1].netmask
    BY <2>1 DEF Answer, Present
  <2>3. r = [row EXCEPT !.netmask = reply]
    BY <1>7 DEF Learnt
  <2>5. reply # Absent
    OBVIOUS
  <2> HIDE DEF reply
  <2>4. /\ r.name = n /\ r.index = row.index
        /\ r.address = row.address /\ r.netmask = T[n].ipv4[1].netmask
        /\ r.hardware = row.hardware /\ r.locals = row.locals
    BY <1>0, <2>2, <2>3
  <2> QED
    BY <1>7, <2>2, <2>4, <2>5 DEF Settled
<1>8. CASE question = "hardware"
  <2>1. reply = Answer(T, n, "hardware")
    BY <1>8 DEF Reply
  <2>2. /\ n \in Present(T) /\ reply = T[n].hardware
        /\ T[n].type = "ethernet" /\ T[n].hardware # Zero
    BY <2>1 DEF Answer, Present, LinuxHardware
  <2>3. r = [row EXCEPT !.hardware = reply]
    BY <1>8 DEF Learnt
  <2>5. reply # Absent
    OBVIOUS
  <2> HIDE DEF reply
  <2>4. /\ r.name = n /\ r.index = row.index
        /\ r.address = row.address /\ r.netmask = row.netmask
        /\ r.hardware = T[n].hardware /\ r.locals = row.locals
    BY <1>0, <2>2, <2>3
  <2> QED
    BY <1>8, <2>2, <2>4, <2>5 DEF Settled
<1> QED
    BY <1>1, <1>2, <1>3, <1>4, <1>5, <1>6, <1>7, <1>8 DEF Question
-----------------------------------------------------------------------------
\* A calm run was calm before, its interfaces are the same, and nothing failed.
LEMMA CalmStep ==
    ASSUME RunInv, [Next]_vars, Calm'
    PROVE  Calm /\ Same /\ ~HostChanges
<1>1. UNCHANGED <<platform, line>>
    BY DEF Next, vars, input, ParseLine, VendorsRefused, MakeCommand, CheckRefuses, CallAnswered,
           CallRefused, ResolveExplicit, Enumerate, LookAtNext, KeepCandidate, EnumerationEnds,
           Chosen, MakePlan, Opened, HostChanges
<1>2. past \in Seq(Tables) /\ past # <<>> /\ faults \in Nat
    BY CommandAssumption DEF RunInv, HostInv
<1>3. ASSUME HostChanges PROVE FALSE
  <2>1. PICK table \in Changed : past' = Append(past, table)
    BY <1>3 DEF HostChanges
  <2>2. Len(past') = Len(past) + 1 /\ Len(past) >= 1
    BY <1>2, <2>1 DEF Tables
  <2> QED
    BY <2>2 DEF Calm
<1>4. past' = past /\ faults' \in {faults, faults + 1}
    BY <1>3 DEF Next, vars, host, ParseLine, VendorsRefused, MakeCommand, CheckRefuses, CallAnswered,
           CallRefused, ResolveExplicit, Enumerate, LookAtNext, KeepCandidate, EnumerationEnds,
           Chosen, MakePlan, Opened
<1>5. Calm
    BY <1>4 DEF Calm
<1>6. faults' \in Nat /\ faults <= faults'
    BY <1>2, <1>4
<1> QED
    BY <1>1, <1>2, <1>3, <1>4, <1>5, <1>6 DEF Table, Same

\* What is asked in a stage, with what must be asked before.
LEMMA QuestionsInOrder ==
    /\ Questions \in Seq(Question)
    /\ \A i \in 1 .. Len(Questions) :
        /\ Questions[i] = "bind" => \E k \in 1 .. i - 1 : Questions[k] = "index"
        /\ Questions[i] = "addresses" => \E k \in 1 .. i - 1 : Questions[k] = "address"
<1> DEFINE InOrder(Q) ==
            \A i \in 1 .. Len(Q) :
                /\ Q[i] = "bind" => \E k \in 1 .. i - 1 : Q[k] = "index"
                /\ Q[i] = "addresses" => \E k \in 1 .. i - 1 : Q[k] = "address"
<1>1. InOrder(<<"index", "flags", "address", "netmask", "hardware">>)
    OBVIOUS
<1>2. InOrder(<<"index", "flags", "address", "netmask", "hardware", "addresses">>)
  <2> DEFINE Q == <<"index", "flags", "address", "netmask", "hardware", "addresses">>
  <2>1. ASSUME NEW i \in 1 .. Len(Q), Q[i] = "addresses" PROVE \E k \in 1 .. i - 1 : Q[k] = "address"
    <3>1. i = 6 /\ 3 \in 1 .. i - 1 /\ Q[3] = "address"
      BY <2>1
    <3> QED
      BY <3>1
  <2>2. \A i \in 1 .. Len(Q) : Q[i] # "bind"
    OBVIOUS
  <2> QED
    BY <2>1, <2>2
<1>3. InOrder(<<"flags", "address", "netmask", "hardware">>)
    OBVIOUS
<1>4. InOrder(<<"records">>) /\ InOrder(<<"index">>) /\ InOrder(<<"device", "attach", "configure">>)
    OBVIOUS
<1>5. InOrder(<<"index", "flags", "socket", "bind">>)
  <2> DEFINE Q == <<"index", "flags", "socket", "bind">>
  <2>1. ASSUME NEW i \in 1 .. Len(Q), Q[i] = "bind" PROVE \E k \in 1 .. i - 1 : Q[k] = "index"
    <3>1. i = 4 /\ 1 \in 1 .. i - 1 /\ Q[1] = "index"
      BY <2>1
    <3> QED
      BY <3>1
  <2>2. \A i \in 1 .. Len(Q) : Q[i] # "addresses"
    OBVIOUS
  <2> QED
    BY <2>1, <2>2
<1>6. PerformQuestions \in {<<"records">>, <<"index", "flags", "address", "netmask", "hardware">>,
                            <<"index", "flags", "address", "netmask", "hardware", "addresses">>}
    BY DEF PerformQuestions
<1> HIDE DEF InOrder
<1>7. InOrder(ResolveQuestions) /\ InOrder(CandidateQuestions) /\ InOrder(OpenQuestions)
    BY <1>1, <1>3, <1>4, <1>5 DEF ResolveQuestions, CandidateQuestions, OpenQuestions
<1>8. InOrder(PerformQuestions)
    BY <1>1, <1>2, <1>4, <1>6
<1>9. Questions \in {ResolveQuestions, CandidateQuestions, PerformQuestions, OpenQuestions}
    BY DEF Questions
<1>10. Questions \in Seq(Question) /\ InOrder(Questions)
    BY <1>7, <1>8, <1>9, QuestionsTyped
<1> QED
    BY <1>10 DEF InOrder

\* The questions stay while the stage, the platform and the command do.
LEMMA QuestionsKept ==
    ASSUME UNCHANGED <<stage, platform, command>>
    PROVE  Questions' = Questions
BY DEF Questions, ResolveQuestions, CandidateQuestions, PerformQuestions, OpenQuestions

\* What comes next when n questions are answered.
LEMMA AgendaHead ==
    ASSUME NEW n \in 0 .. Len(Questions), Answered(n), agenda \in Seq(Question), agenda # <<>>
    PROVE  /\ n + 1 \in 1 .. Len(Questions) /\ Head(agenda) = Questions[n + 1]
           /\ Head(agenda) \in Question
           /\ Head(agenda) = "bind" => Settled(Table, row, "index")
           /\ Head(agenda) = "addresses" => Settled(Table, row, "address")
<1> DEFINE Q == Questions
<1>1. Q \in Seq(Question) /\ Len(Q) \in Nat
    BY QuestionsInOrder
<1>2. Len(agenda) \in Nat /\ Len(agenda) >= 1 /\ Head(agenda) = agenda[1] /\ Head(agenda) \in Question
    OBVIOUS
<1>3. n + 1 \in 1 .. Len(Q) /\ 1 \in 1 .. Len(agenda)
    BY <1>1, <1>2 DEF Answered
<1>4. Head(agenda) = Q[n + 1]
    BY <1>2, <1>3 DEF Answered
<1>5. (n + 1) - 1 = n
    OBVIOUS
<1>6. /\ Q[n + 1] = "bind" => \E k \in 1 .. n : Q[k] = "index"
      /\ Q[n + 1] = "addresses" => \E k \in 1 .. n : Q[k] = "address"
    BY <1>3, <1>5, QuestionsInOrder
<1> QED
    BY <1>2, <1>3, <1>4, <1>6 DEF Answered

\* An answer is settled, and what was settled stays so.
LEMMA AgendaAnswered ==
    ASSUME HostInv, ReadingInv, AgendaPart, CallAnswered, Table' = Table, platform' = platform
    PROVE  AgendaPart' /\ row'.name = row.name
           /\ \A q \in Question : Settled(Table, row, q) => Settled(Table, row', q)
<1> DEFINE Q == Questions
           question == Head(agenda)
<1>1. /\ agenda # <<>> /\ agenda \in Seq(Question) /\ stage \in Asking /\ RowTyped(row)
      /\ row' = Learnt(question, Reply(question)) /\ agenda' = Tail(agenda)
      /\ Reply(question) # Absent
      /\ UNCHANGED <<stage, platform, command>>
    BY DEF CallAnswered, ReadingInv, input
<1>2. PICK n \in 0 .. Len(Q) : Answered(n)
    BY <1>1 DEF AgendaPart
<1>3. /\ n + 1 \in 1 .. Len(Q) /\ question = Q[n + 1] /\ question \in Question
      /\ question = "addresses" => Settled(Table, row, "address")
    BY <1>1, <1>2, AgendaHead
<1>4. TableTyped(Table)
    BY TableIsTyped
<1>5. /\ row'.name = row.name /\ Settled(Table, row', question)
      /\ \A q \in Question : Settled(Table, row, q) => Settled(Table, row', q)
    BY <1>1, <1>3, <1>4, AnswerSettles
<1>6. Questions' = Q
    BY <1>1, QuestionsKept
<1>7. Q \in Seq(Question) /\ Len(Q) \in Nat
    BY QuestionsInOrder
<1>8. /\ Len(agenda') = Len(agenda) - 1
      /\ \A i \in 1 .. Len(agenda') : i + 1 \in 1 .. Len(agenda) /\ agenda'[i] = agenda[i + 1]
    BY <1>1
<1> HIDE DEF Q, question
<1>9. Answered(n + 1)'
  <2>1. Len(agenda') = Len(Q) - (n + 1)
    BY <1>2, <1>3, <1>7, <1>8 DEF Answered, Q
  <2>2. ASSUME NEW i \in 1 .. Len(agenda') PROVE agenda'[i] = Q[i + (n + 1)]
    <3>1. agenda'[i] = Q[(i + 1) + n]
      BY <1>2, <1>8 DEF Answered, Q
    <3>2. (i + 1) + n = i + (n + 1)
      BY <1>3
    <3> QED
      BY <3>1, <3>2
  <2>3. ASSUME NEW i \in 1 .. n + 1 PROVE Settled(Table, row', Q[i])
    <3>1. CASE i = n + 1
      BY <1>3, <1>5, <3>1
    <3>2. CASE i # n + 1
      <4>1. i \in 1 .. n /\ i \in 1 .. Len(Q)
        BY <1>3, <1>7, <3>2
      <4>2. Q[i] \in Question
        BY <1>7, <4>1
      <4> QED
        BY <1>2, <1>5, <4>1, <4>2 DEF Answered, Q
    <3> QED
      BY <3>1, <3>2
  <2> QED
    BY <1>6, <2>1, <2>2, <2>3 DEF Answered
<1>10. n + 1 \in 0 .. Len(Q)
    BY <1>3, <1>7
<1> QED
    BY <1>5, <1>6, <1>9, <1>10 DEF AgendaPart

\* At first nothing is answered.
LEMMA AgendaStarts ==
    ASSUME agenda' = Questions', ReadingInv'
    PROVE  AgendaPart'
<1> DEFINE Q == Questions'
<1>1. Q \in Seq(Question)
    BY DEF ReadingInv
<1>2. Len(Q) \in Nat
    BY <1>1
<1> HIDE DEF Q
<1>3. Len(Q) = Len(Q) - 0 /\ \A i \in 1 .. Len(Q) : i + 0 = i
    BY <1>2
<1>4. Answered(0)'
    BY <1>3 DEF Answered, Q
<1> QED
    BY <1>2, <1>4 DEF AgendaPart, Q

\* Of a usable interface nothing that is asked is refused.
LEMMA HeadAnswered ==
    ASSUME HostInv, ReadingInv, AgendaPart, agenda # <<>>, Reply(Head(agenda)) = Absent
    PROVE  ~Usable(Table, row.name)
<1>1. agenda \in Seq(Question) /\ stage \in Asking
    BY DEF ReadingInv
<1>2. PICK n \in 0 .. Len(Questions) : Answered(n)
    BY <1>1 DEF AgendaPart
<1>3. Head(agenda) \in Question /\ (Head(agenda) = "bind" => Settled(Table, row, "index"))
    BY <1>1, <1>2, AgendaHead
<1> QED
    BY <1>3, TableIsTyped, UsableIsAnswered

\* When nothing is left to ask, everything is settled.
LEMMA AllSettled ==
    ASSUME AgendaPart, stage \in Asking, agenda = <<>>
    PROVE  \A i \in 1 .. Len(Questions) : Settled(Table, row, Questions[i])
<1>1. PICK n \in 0 .. Len(Questions) : Answered(n)
    BY DEF AgendaPart
<1>2. Len(agenda) = 0 /\ Len(Questions) \in Nat
    BY QuestionsInOrder
<1>3. n = Len(Questions)
    BY <1>1, <1>2 DEF Answered
<1> QED
    BY <1>1, <1>3 DEF Answered
-----------------------------------------------------------------------------
\* An interface of which the system tells everything on Linux is usable.
LEMMA SettledIsUsable ==
    ASSUME NEW T, NEW r, \A q \in {"flags", "address", "netmask", "hardware"} : Settled(T, r, q)
    PROVE  /\ Usable(T, r.name)
           /\ r.address = T[r.name].ipv4[1].address /\ r.netmask = T[r.name].ipv4[1].netmask
           /\ r.hardware = T[r.name].hardware
<1>1. Settled(T, r, "flags") /\ Settled(T, r, "address") /\ Settled(T, r, "netmask") /\ Settled(T, r, "hardware")
    OBVIOUS
<1>2. /\ r.name \in Present(T) /\ FlagsAllow(T[r.name].flags)
      /\ T[r.name].ipv4 # <<>> /\ r.address = T[r.name].ipv4[1].address
      /\ T[r.name].ipv4[1].netmask # Absent /\ r.netmask = T[r.name].ipv4[1].netmask
      /\ T[r.name].type = "ethernet" /\ T[r.name].hardware \notin {Absent, Zero}
      /\ r.hardware = T[r.name].hardware
    BY <1>1 DEF Settled
<1> QED
    BY <1>2 DEF Usable, FlagsAllow

\* A given interface that is resolved is usable.
LEMMA ResolveComplete ==
    ASSUME AgendaPart, stage = "resolve", agenda = <<>>
    PROVE  Usable(Table, row.name)
<1>1. Questions = ResolveQuestions /\ \A i \in 1 .. Len(Questions) : Settled(Table, row, Questions[i])
    BY AllSettled DEF Questions, Asking
<1>2. CASE platform = "linux"
  <2> DEFINE Q == <<"index", "flags", "address", "netmask", "hardware">>
  <2>1. Questions = Q
    BY <1>1, <1>2 DEF ResolveQuestions
  <2>2. \A q \in {"flags", "address", "netmask", "hardware"} : \E i \in 1 .. Len(Q) : Q[i] = q
    <3>1. Len(Q) = 5 /\ Q[2] = "flags" /\ Q[3] = "address" /\ Q[4] = "netmask" /\ Q[5] = "hardware"
      OBVIOUS
    <3> HIDE DEF Q
    <3> QED
      BY <3>1
  <2> HIDE DEF Q
  <2> QED
    BY <1>1, <2>1, <2>2, SettledIsUsable
<1>3. CASE platform # "linux"
  <2> DEFINE Q == <<"records">>
  <2>1. Questions = Q /\ Len(Q) = 1 /\ Q[1] = "records"
    BY <1>1, <1>3 DEF ResolveQuestions
  <2> HIDE DEF Q
  <2>2. Settled(Table, row, "records")
    BY <1>1, <2>1
  <2> QED
    BY <2>2 DEF Settled
<1> QED
    BY <1>2, <1>3

\* A candidate of an enumeration is usable, and its row has its index.
LEMMA CandidateComplete ==
    ASSUME AgendaPart, stage = "candidate", agenda = <<>>, Fresh(Table, platform, row)
    PROVE  Usable(Table, row.name) /\ row.index = Table[row.name].index
<1>1. Questions = CandidateQuestions /\ \A i \in 1 .. Len(Questions) : Settled(Table, row, Questions[i])
    BY AllSettled DEF Questions, Asking
<1>2. CASE platform = "linux"
  <2> DEFINE Q == <<"flags", "address", "netmask", "hardware">>
  <2>1. Questions = Q
    BY <1>1, <1>2 DEF CandidateQuestions
  <2>2. \A q \in {"flags", "address", "netmask", "hardware"} : \E i \in 1 .. Len(Q) : Q[i] = q
    <3>1. Len(Q) = 4 /\ Q[1] = "flags" /\ Q[2] = "address" /\ Q[3] = "netmask" /\ Q[4] = "hardware"
      OBVIOUS
    <3> HIDE DEF Q
    <3> QED
      BY <3>1
  <2> HIDE DEF Q
  <2>3. Usable(Table, row.name)
    BY <1>1, <2>1, <2>2, SettledIsUsable
  <2> QED
    BY <1>2, <2>3 DEF Fresh
<1>3. CASE platform # "linux"
  <2> DEFINE Q == <<"index">>
  <2>1. Questions = Q /\ Len(Q) = 1 /\ Q[1] = "index"
    BY <1>1, <1>3 DEF CandidateQuestions
  <2> HIDE DEF Q
  <2>2. Settled(Table, row, "index")
    BY <1>1, <2>1
  <2> QED
    BY <1>3, <2>2 DEF Settled, Fresh
<1> QED
    BY <1>2, <1>3

\* What is read before the plan is true of the interface.
LEMMA PerformComplete ==
    ASSUME AgendaPart, stage = "perform", agenda = <<>>
    PROVE  FoundTrue(Table, row, command.kind)
<1>1. Questions = PerformQuestions /\ \A i \in 1 .. Len(Questions) : Settled(Table, row, Questions[i])
    BY AllSettled DEF Questions, Asking
<1>2. CASE platform = "linux"
  <2> DEFINE Q == PerformQuestions
  <2>1. /\ Len(Q) >= 5 /\ Len(Q) \in Nat
        /\ Q[2] = "flags" /\ Q[3] = "address" /\ Q[4] = "netmask" /\ Q[5] = "hardware"
        /\ command.kind # "scan" => Len(Q) = 6 /\ Q[6] = "addresses"
    <3>1. CASE command.kind = "scan"
      <4>1. Q = <<"index", "flags", "address", "netmask", "hardware">>
        BY <1>2, <3>1 DEF PerformQuestions
      <4> QED
        BY <3>1, <4>1
    <3>2. CASE command.kind # "scan"
      <4>1. Q = <<"index", "flags", "address", "netmask", "hardware", "addresses">>
        BY <1>2, <3>2 DEF PerformQuestions
      <4> QED
        BY <4>1
    <3> QED
      BY <3>1, <3>2
  <2> HIDE DEF Q
  <2>2. {2, 3, 4, 5} \subseteq 1 .. Len(Q) /\ (command.kind # "scan" => 6 \in 1 .. Len(Q))
    BY <2>1
  <2>3. Questions = Q
    BY <1>1 DEF Q
  <2>4. \A q \in {"flags", "address", "netmask", "hardware"} : Settled(Table, row, q)
    BY <1>1, <2>1, <2>2, <2>3
  <2>5. command.kind # "scan" => row.locals = Addresses(Table[row.name])
    <3>1. command.kind # "scan" => Settled(Table, row, "addresses")
      BY <1>1, <2>1, <2>2, <2>3
    <3> QED
      BY <3>1 DEF Settled
  <2> QED
    BY <2>4, <2>5, SettledIsUsable DEF FoundTrue
<1>3. CASE platform # "linux"
  <2> DEFINE Q == <<"records">>
  <2>1. Questions = Q /\ Len(Q) = 1 /\ Q[1] = "records"
    BY <1>1, <1>3 DEF PerformQuestions
  <2> HIDE DEF Q
  <2>2. Settled(Table, row, "records")
    BY <1>1, <2>1
  <2> QED
    BY <2>2 DEF Settled, FoundTrue
<1> QED
    BY <1>2, <1>3

\* An endpoint is bound to the index of its interface.
LEMMA OpenComplete ==
    ASSUME AgendaPart, stage = "open", agenda = <<>>
    PROVE  row.index = Table[row.name].index
<1>1. Questions = OpenQuestions /\ \A i \in 1 .. Len(Questions) : Settled(Table, row, Questions[i])
    BY AllSettled DEF Questions, Asking
<1>2. CASE platform = "linux"
  <2> DEFINE Q == <<"index", "flags", "socket", "bind">>
  <2>1. Questions = Q /\ Len(Q) = 4 /\ Q[1] = "index"
    BY <1>1, <1>2 DEF OpenQuestions
  <2> HIDE DEF Q
  <2>2. Settled(Table, row, "index")
    BY <1>1, <2>1
  <2> QED
    BY <2>2 DEF Settled
<1>3. CASE platform # "linux"
  <2> DEFINE Q == <<"device", "attach", "configure">>
  <2>1. Questions = Q /\ Len(Q) = 3 /\ Q[2] = "attach"
    BY <1>1, <1>3 DEF OpenQuestions
  <2> HIDE DEF Q
  <2>2. Settled(Table, row, "attach")
    BY <1>1, <2>1
  <2> QED
    BY <2>2 DEF Settled
<1> QED
    BY <1>2, <1>3
-----------------------------------------------------------------------------
\* An enumeration begins with every usable interface, each once.
LEMMA ListedFresh ==
    ASSUME HostInv
    PROVE  /\ AllFresh(Table, platform, Listed)
           /\ UsableNames(Table) \subseteq NamesOf(Listed)
<1> DEFINE names == IF platform = "linux" THEN Present(Table)
                    ELSE {n \in Name : Classified(Records(Table), n) # Absent}
           rowOf(n) == IF platform = "linux" THEN [NoRow(n) EXCEPT !.index = Table[n].index]
                       ELSE Identified(NoRow(n), Classified(Records(Table), n))
           sequence == SetToSeq(names)
           T == Table
<1>1. TableTyped(T)
    BY TableIsTyped
<1>2. names \subseteq Name /\ IsFiniteSet(names)
    BY DiscoveryAssumption, FS_Subset DEF Present
<1>3. ASSUME NEW n \in names PROVE Fresh(T, platform, rowOf(n)) /\ rowOf(n).name = n
  <2>1. CASE platform = "linux"
    <3>1. n \in Present(T)
      BY <2>1
    <3>2. rowOf(n).name = n /\ rowOf(n).index = T[n].index
      BY <2>1 DEF NoRow
    <3> HIDE DEF rowOf, T, names
    <3> QED
      BY <2>1, <3>1, <3>2 DEF Fresh
  <2>2. CASE platform # "linux"
    <3>1. n \in Name /\ Classified(Records(T), n) # Absent
      BY <2>2
    <3>2. Usable(T, n)
      BY <1>1, <3>1, ClassifiedIs
    <3>3. rowOf(n).name = n
      BY <2>2 DEF NoRow, Identified
    <3> HIDE DEF rowOf, T, names
    <3> QED
      BY <2>2, <3>2, <3>3 DEF Fresh, Usable
  <2> QED
    BY <2>1, <2>2
<1>4. ASSUME NEW n \in UsableNames(T) PROVE n \in names
  <2>1. n \in Name /\ Usable(T, n) /\ n \in Present(T) /\ T[n].ipv4 # <<>>
    BY DEF UsableNames, Usable
  <2>2. Classified(Records(T), n) = Identity(T[n])
    BY <1>1, <2>1, ClassifiedIs DEF Identity, Addresses
  <2>3. Identity(T[n]) # Absent
    BY <1>1, <2>1, InterfaceTyped
  <2> QED
    BY <2>1, <2>2, <2>3
<1> HIDE DEF T
<1>5. /\ sequence \in Seq(names) /\ DOMAIN sequence = 1 .. Len(sequence)
      /\ \A i, k \in DOMAIN sequence : sequence[i] = sequence[k] => i = k
      /\ \A n \in names : \E i \in DOMAIN sequence : sequence[i] = n
      /\ \A i \in DOMAIN sequence : sequence[i] \in names
  <2> HIDE DEF names, rowOf
  <2>1. /\ sequence \in Seq(names)
        /\ \A i, k \in DOMAIN sequence : sequence[i] = sequence[k] => i = k
        /\ \A n \in names : \E i \in DOMAIN sequence : sequence[i] = n
    BY <1>2, SetListed
  <2> HIDE DEF sequence
  <2> QED
    BY <2>1
<1> DEFINE listed == [i \in DOMAIN sequence |-> rowOf(sequence[i])]
<1>6. Listed = listed
    BY DEF Listed
<1> HIDE DEF names, rowOf, sequence
<1>7. DOMAIN listed = DOMAIN sequence
      /\ \A i \in DOMAIN sequence : listed[i] = rowOf(sequence[i]) /\ listed[i].name = sequence[i]
    BY <1>3, <1>5
<1> HIDE DEF listed
<1>8. AllFresh(T, platform, listed)
    BY <1>3, <1>5, <1>7 DEF AllFresh
<1>9. UsableNames(T) \subseteq NamesOf(listed)
    BY <1>4, <1>5, <1>7 DEF NamesOf
<1> QED
    BY <1>6, <1>8, <1>9 DEF T

\* Taking the first of the rows.
LEMMA FreshTail ==
    ASSUME NEW T, NEW p, NEW rows, rows \in Seq(Range(rows)), rows # <<>>, AllFresh(T, p, rows)
    PROVE  /\ Fresh(T, p, Head(rows)) /\ AllFresh(T, p, Tail(rows))
           /\ NamesOf(rows) = {Head(rows).name} \cup NamesOf(Tail(rows))
           /\ Head(rows).name \notin NamesOf(Tail(rows))
<1> DEFINE S == Range(rows)
<1>1. PICK r \in Seq(S) : r = rows
    OBVIOUS
<1> HIDE DEF S
<1>2. /\ 1 \in DOMAIN r /\ Head(r) = r[1] /\ DOMAIN r = 1 .. Len(r) /\ Len(r) \in Nat
      /\ DOMAIN Tail(r) = 1 .. Len(r) - 1
      /\ \A i \in 1 .. Len(r) - 1 : Tail(r)[i] = r[i + 1]
    BY <1>1
<1> DEFINE t == Tail(r)
           h == Head(r)
<1>3. /\ h = r[1] /\ DOMAIN t = 1 .. Len(r) - 1 /\ \A i \in 1 .. Len(r) - 1 : t[i] = r[i + 1]
    BY <1>2
<1> HIDE DEF t, h
<1>4. /\ \A i \in DOMAIN t : i + 1 \in DOMAIN r /\ i + 1 # 1 /\ t[i] = r[i + 1]
      /\ \A i \in DOMAIN r : i = 1 \/ (i - 1 \in DOMAIN t /\ t[i - 1] = r[i])
      /\ \A i, k \in DOMAIN t : i + 1 = k + 1 => i = k
    BY <1>2, <1>3
<1>5. /\ \A i \in DOMAIN r : Fresh(T, p, r[i])
      /\ \A i, k \in DOMAIN r : r[i].name = r[k].name => i = k
    BY <1>1 DEF AllFresh
<1>6. Fresh(T, p, h) /\ \A i \in DOMAIN t : Fresh(T, p, t[i])
    BY <1>2, <1>3, <1>4, <1>5
<1>7. ASSUME NEW i \in DOMAIN t, NEW k \in DOMAIN t, t[i].name = t[k].name PROVE i = k
    BY <1>4, <1>5, <1>7
<1>8. h.name \notin NamesOf(t)
    BY <1>2, <1>3, <1>4, <1>5 DEF NamesOf
<1>9. NamesOf(r) = {h.name} \cup NamesOf(t)
  <2>1. NamesOf(r) \subseteq {h.name} \cup NamesOf(t)
    BY <1>3, <1>4 DEF NamesOf
  <2>2. {h.name} \cup NamesOf(t) \subseteq NamesOf(r)
    BY <1>2, <1>3, <1>4 DEF NamesOf
  <2> QED
    BY <2>1, <2>2
<1> QED
    BY <1>1, <1>6, <1>7, <1>8, <1>9 DEF AllFresh, t, h

\* What holds of numbers below each of its elements is an interval.
LEMMA InitialSegment ==
    ASSUME NEW n \in Nat, NEW S \in SUBSET (1 .. n), \A i \in S : \A k \in 1 .. i : k \in S
    PROVE  S = 1 .. Cardinality(S) /\ Cardinality(S) \in 0 .. n
<1> DEFINE rest == {k \in 1 .. n + 1 : k \notin S}
<1>1. rest \subseteq Nat /\ n + 1 \in rest
    OBVIOUS
<1>2. PICK m \in rest : \A k \in rest : m <= k
    BY <1>1, LeastElement
<1>3. S = 1 .. m - 1
  <2>1. ASSUME NEW i \in 1 .. m - 1 PROVE i \in S
    BY <1>2
  <2>2. ASSUME NEW i \in S PROVE i \in 1 .. m - 1
    <3>1. i < m
      BY <1>2
    <3> QED
      BY <1>2, <3>1
  <2> QED
    BY <2>1, <2>2
<1>4. m - 1 \in 0 .. n
    BY <1>2
<1>5. Cardinality(1 .. m - 1) = m - 1
  <2>1. Cardinality(1 .. m - 1) = IF 1 > m - 1 THEN 0 ELSE (m - 1) - 1 + 1
    BY <1>4, FS_Interval
  <2> QED
    BY <1>4, <2>1
<1> QED
    BY <1>3, <1>4, <1>5

\* One more row behind the first n; and the rows with smaller indexes come first.
Behind(t, rows, n, r) ==
    /\ DOMAIN t = 1 .. Len(rows) + 1
    /\ \A i \in 1 .. Len(rows) + 1 :
        t[i] = IF i <= n THEN rows[i] ELSE IF i = n + 1 THEN r ELSE rows[i - 1]

Divides(rows, n, r) ==
    \A i \in 1 .. Len(rows) : /\ i <= n => rows[i].index < r.index
                              /\ i > n => r.index < rows[i].index

\* InsertAt puts a row behind the first n.
LEMMA RowInserted ==
    ASSUME NEW rows, rows \in Seq(Range(rows)), NEW r, NEW n \in 0 .. Len(rows)
    PROVE  Behind(InsertAt(rows, n + 1, r), rows, n, r)
<1> DEFINE R == Range(rows) \cup {r}
           t == InsertAt(rows, n + 1, r)
<1>1. rows \in Seq(R) /\ r \in R /\ Len(rows) \in Nat
    OBVIOUS
<1> HIDE DEF R
<1>2. /\ InsertAt(rows, n + 1, r) \in Seq(R) /\ Len(InsertAt(rows, n + 1, r)) = Len(rows) + 1
      /\ \A i \in 1 .. Len(rows) + 1 :
            InsertAt(rows, n + 1, r)[i] =
                IF i <= n THEN rows[i] ELSE IF i = n + 1 THEN r ELSE rows[i - 1]
    BY <1>1, InsertedAfter, SMTT(60)
<1> HIDE DEF t
<1>3. t \in Seq(R) /\ Len(t) = Len(rows) + 1
      /\ \A i \in 1 .. Len(rows) + 1 :
            t[i] = IF i <= n THEN rows[i] ELSE IF i = n + 1 THEN r ELSE rows[i - 1]
    BY <1>2 DEF t
<1>4. DOMAIN t = 1 .. Len(rows) + 1
    BY <1>1, <1>3
<1>5. Behind(t, rows, n, r)
    BY <1>3, <1>4 DEF Behind
<1> QED
    BY <1>5 DEF t

\* Rows stay sorted with a row put where its index belongs, and are the same otherwise.
LEMMA SortedInsert ==
    ASSUME NEW rows, rows \in Seq(Range(rows)), Sorted(rows), NEW r, NEW n \in 0 .. Len(rows),
           Divides(rows, n, r), NEW t, Behind(t, rows, n, r)
    PROVE  /\ Sorted(t)
           /\ \A i \in DOMAIN t : t[i] = r \/ \E j \in DOMAIN rows : t[i] = rows[j]
           /\ \E i \in DOMAIN t : t[i] = r
           /\ \A j \in DOMAIN rows : \E i \in DOMAIN t : t[i] = rows[j]
<1> DEFINE k == Len(rows)
<1>0. /\ k \in Nat /\ n \in 0 .. k /\ DOMAIN rows = 1 .. k /\ DOMAIN t = 1 .. k + 1
      /\ \A i \in 1 .. k + 1 : t[i] = IF i <= n THEN rows[i] ELSE IF i = n + 1 THEN r ELSE rows[i - 1]
      /\ \A i \in 1 .. k : /\ i <= n => rows[i].index < r.index
                           /\ i > n => r.index < rows[i].index
    BY DEF Behind, Divides
<1> HIDE DEF k
<1>1. ASSUME NEW i \in 1 .. k + 1, i <= n PROVE i \in 1 .. k /\ t[i] = rows[i]
    BY <1>0, <1>1
<1>2. n + 1 \in 1 .. k + 1 /\ t[n + 1] = r
  <2>1. n + 1 \in 1 .. k + 1 /\ ~(n + 1 <= n)
    BY <1>0
  <2> QED
    BY <1>0, <2>1
<1>3. ASSUME NEW i \in 1 .. k + 1, i > n + 1 PROVE i - 1 \in 1 .. k /\ i - 1 > n /\ t[i] = rows[i - 1]
  <2>1. i - 1 \in 1 .. k /\ i - 1 > n /\ ~(i <= n) /\ i # n + 1
    BY <1>0, <1>3
  <2> QED
    BY <1>0, <2>1
<1>4. ASSUME NEW i \in 1 .. k + 1 PROVE i <= n \/ i = n + 1 \/ i > n + 1
    BY <1>0
<1>5. \A i \in DOMAIN t : t[i] = r \/ \E j \in DOMAIN rows : t[i] = rows[j]
    BY <1>0, <1>1, <1>2, <1>3, <1>4
<1>6. ASSUME NEW j \in DOMAIN rows PROVE \E i \in DOMAIN t : t[i] = rows[j]
  <2>1. CASE j <= n
    <3>1. j \in 1 .. k + 1
      BY <1>0
    <3> QED
      BY <1>0, <1>1, <2>1, <3>1
  <2>2. CASE j > n
    <3>1. j + 1 \in 1 .. k + 1 /\ j + 1 > n + 1 /\ (j + 1) - 1 = j
      BY <1>0, <2>2
    <3> QED
      BY <1>0, <1>3, <3>1
  <2> QED
    BY <1>0, <2>1, <2>2
<1>7. Sorted(t)
  <2> SUFFICES ASSUME NEW i \in 1 .. k + 1, NEW j \in 1 .. k + 1, i < j PROVE t[i].index < t[j].index
    BY <1>0 DEF Sorted
  <2>0. \A a, b \in 1 .. k : a < b => rows[a].index < rows[b].index
    BY <1>0 DEF Sorted
  <2>1. CASE j <= n
    <3>1. i <= n
      BY <1>0, <2>1
    <3> QED
      BY <1>0, <1>1, <2>0, <2>1, <3>1
  <2>2. CASE j = n + 1
    <3>1. i <= n
      BY <1>0, <2>2
    <3> QED
      BY <1>0, <1>1, <1>2, <2>2, <3>1
  <2>3. CASE j > n + 1 /\ i <= n
    <3>1. i < j - 1
      BY <1>0, <2>3
    <3> QED
      BY <1>0, <1>1, <1>3, <2>0, <2>3, <3>1
  <2>4. CASE j > n + 1 /\ i = n + 1
    BY <1>0, <1>2, <1>3, <2>4
  <2>5. CASE j > n + 1 /\ i > n + 1
    <3>1. i - 1 < j - 1
      BY <1>0
    <3> QED
      BY <1>0, <1>3, <2>0, <2>5, <3>1
  <2> QED
    BY <1>0, <1>4, <2>1, <2>2, <2>3, <2>4, <2>5
<1> QED
    BY <1>0, <1>2, <1>5, <1>6, <1>7

\* The rows that have no larger index than a row of another interface come first.
LEMMA SmallerFirst ==
    ASSUME NEW T, TableTyped(T), NEW rows, RowsTyped(rows), AllUsable(T, rows), Sorted(rows),
           NEW r, Usable(T, r.name), r.index = T[r.name].index, r.name \notin NamesOf(rows),
           NEW n, n = Cardinality({i \in DOMAIN rows : rows[i].index <= r.index})
    PROVE  n \in 0 .. Len(rows) /\ Divides(rows, n, r)
<1> DEFINE before == {i \in DOMAIN rows : rows[i].index <= r.index}
           k == Len(rows)
<1>1. DOMAIN rows = 1 .. k /\ k \in Nat
    BY DEF RowsTyped
<1>2. ASSUME NEW i \in DOMAIN rows
      PROVE  rows[i].index \in Nat /\ rows[i].index # r.index
  <2>1. Usable(T, rows[i].name) /\ rows[i].index = T[rows[i].name].index
    BY DEF AllUsable
  <2>2. rows[i].name \in Present(T) /\ r.name \in Present(T) /\ rows[i].name # r.name
    BY <2>1 DEF Usable, NamesOf
  <2> QED
    BY <2>1, <2>2, InterfaceTyped
<1>3. r.index \in Nat
    BY InterfaceTyped DEF Usable
<1>4. before \in SUBSET (1 .. k)
    BY <1>1
<1>5. ASSUME NEW i \in before, NEW j \in 1 .. i PROVE j \in before
  <2>1. i \in 1 .. k /\ j \in 1 .. k /\ (j = i \/ j < i)
    BY <1>1
  <2>2. rows[j].index <= rows[i].index
    <3>1. CASE j = i
      BY <1>1, <1>2, <2>1, <3>1
    <3>2. CASE j < i
      <4>1. rows[j].index < rows[i].index
        BY <1>1, <2>1, <3>2 DEF Sorted
      <4> QED
        BY <1>1, <1>2, <2>1, <4>1
    <3> QED
      BY <2>1, <3>1, <3>2
  <2>3. rows[j].index \in Nat /\ rows[i].index \in Nat /\ rows[i].index <= r.index
    BY <1>1, <1>2, <2>1
  <2> QED
    BY <1>1, <1>3, <2>1, <2>2, <2>3
<1>6. n = Cardinality(before)
    OBVIOUS
<1>7. \A i \in 1 .. k : i \in before <=> rows[i].index <= r.index
    BY <1>1
<1> HIDE DEF before
<1>8. before = 1 .. n /\ n \in 0 .. k
    BY <1>1, <1>4, <1>5, <1>6, InitialSegment
<1>9. ASSUME NEW i \in 1 .. k PROVE (i <= n => rows[i].index < r.index) /\ (i > n => r.index < rows[i].index)
  <2>1. i \in before <=> i <= n
    BY <1>1, <1>8
  <2> QED
    BY <1>1, <1>2, <1>3, <1>7, <1>8, <2>1
<1> QED
    BY <1>8, <1>9 DEF Divides

\* A candidate is put where the order of the indexes wants it.
LEMMA CandidateInserted ==
    ASSUME NEW T, NEW rows, RowsTyped(rows), AllUsable(T, rows), Sorted(rows),
           NEW r, Usable(T, r.name), r.index = T[r.name].index,
           NEW n \in 0 .. Len(rows), Divides(rows, n, r)
    PROVE  /\ AllUsable(T, InsertAt(rows, n + 1, r)) /\ Sorted(InsertAt(rows, n + 1, r))
           /\ NamesOf(InsertAt(rows, n + 1, r)) = NamesOf(rows) \cup {r.name}
<1> DEFINE t == InsertAt(rows, n + 1, r)
<1>1. rows \in Seq(Range(rows))
    BY DEF RowsTyped
<1>2. Behind(t, rows, n, r)
    BY <1>1, RowInserted
<1> HIDE DEF t
<1>4. /\ Sorted(t)
      /\ \A i \in DOMAIN t : t[i] = r \/ \E j \in DOMAIN rows : t[i] = rows[j]
      /\ \E i \in DOMAIN t : t[i] = r
      /\ \A j \in DOMAIN rows : \E i \in DOMAIN t : t[i] = rows[j]
    BY <1>1, <1>2, SortedInsert
<1>5. AllUsable(T, t)
    BY <1>4 DEF AllUsable
<1>6. NamesOf(t) = NamesOf(rows) \cup {r.name}
  <2>1. NamesOf(t) \subseteq NamesOf(rows) \cup {r.name}
    BY <1>4 DEF NamesOf
  <2>2. NamesOf(rows) \cup {r.name} \subseteq NamesOf(t)
    BY <1>4 DEF NamesOf
  <2> QED
    BY <2>1, <2>2
<1> QED
    BY <1>4, <1>5, <1>6 DEF t

\* Sorted candidates that are all of the usable interfaces are as many.
LEMMA CandidatesCounted ==
    ASSUME NEW T, TableTyped(T), NEW rows, RowsTyped(rows), AllUsable(T, rows), Sorted(rows)
    PROVE  /\ IsFiniteSet(NamesOf(rows)) /\ Cardinality(NamesOf(rows)) = Len(rows)
           /\ NamesOf(rows) \subseteq UsableNames(T)
<1> DEFINE k == Len(rows)
           f == [i \in 1 .. k |-> rows[i].name]
           N == NamesOf(rows)
<1>1. DOMAIN rows = 1 .. k /\ k \in Nat
    BY DEF RowsTyped
<1>2. \A i \in DOMAIN rows : /\ rows[i].index = T[rows[i].name].index /\ rows[i].index \in Nat
                             /\ rows[i].name \in UsableNames(T)
  <2> SUFFICES ASSUME NEW i \in DOMAIN rows
               PROVE  /\ rows[i].index = T[rows[i].name].index /\ rows[i].index \in Nat
                      /\ rows[i].name \in UsableNames(T)
    OBVIOUS
  <2>1. Usable(T, rows[i].name) /\ rows[i].index = T[rows[i].name].index
    BY DEF AllUsable
  <2>2. rows[i].name \in Present(T) /\ rows[i].name \in Name
    BY <2>1 DEF Usable, Present
  <2> QED
    BY <2>1, <2>2, InterfaceTyped DEF UsableNames
<1>3. ASSUME NEW i \in 1 .. k, NEW j \in 1 .. k, rows[i].name = rows[j].name PROVE i = j
  <2>1. rows[i].index = rows[j].index /\ rows[i].index \in Nat
    BY <1>1, <1>2, <1>3
  <2>2. ~(i < j) /\ ~(j < i)
    BY <1>1, <2>1 DEF Sorted
  <2> QED
    BY <2>2
<1>4. f \in Surjection(1 .. k, N)
  <2>1. f \in [1 .. k -> N]
    BY <1>1 DEF NamesOf
  <2>2. \A x \in N : \E i \in 1 .. k : f[i] = x
    BY <1>1 DEF NamesOf
  <2> QED
    BY <2>1, <2>2 DEF Surjection
<1>5. f \in Injection(1 .. k, N)
  <2>1. f \in [1 .. k -> N]
    BY <1>1 DEF NamesOf
  <2>2. \A i, j \in 1 .. k : f[i] = f[j] => i = j
    BY <1>3
  <2> QED
    BY <2>1, <2>2 DEF Injection, IsInjective
<1>6. IsFiniteSet(1 .. k) /\ Cardinality(1 .. k) = k
  <2>1. IsFiniteSet(1 .. k) /\ Cardinality(1 .. k) = IF 1 > k THEN 0 ELSE k - 1 + 1
    BY <1>1, FS_Interval
  <2> QED
    BY <1>1, <2>1
<1>7. IsFiniteSet(N) /\ Cardinality(N) = k
  <2> HIDE DEF f, N, k
  <2> QED
    BY <1>4, <1>5, <1>6, FS_Surjection
<1>8. N \subseteq UsableNames(T)
    BY <1>2 DEF NamesOf
<1> QED
    BY <1>7, <1>8
-----------------------------------------------------------------------------
\* Whether a run is served, and whether it lists.
Serves == Run /\ Refusal = None /\ Wanted \subseteq UsableNames(Table) /\ Cardinality(Wanted) = 1
Lists == command # None /\ ~Run /\ platform # "other"

\* What depends on the command, the platform and the interfaces alone.
LEMMA SameCommand ==
    ASSUME Same, command' = command
    PROVE  /\ Serves' = Serves /\ Lists' = Lists /\ Refusal' = Refusal /\ Wanted' = Wanted /\ Run' = Run
           /\ \A a, m : PlanAccepted(a, m)' = PlanAccepted(a, m)
<1>1. Run' = Run /\ Refusal' = Refusal
    BY DEF Same, Run, Refusal
<1>2. Wanted' = Wanted
    BY <1>1 DEF Same, Wanted
<1>3. Serves' = Serves /\ Lists' = Lists
    BY <1>1, <1>2 DEF Same, Serves, Lists
<1> QED
    BY <1>1, <1>2, <1>3 DEF PlanAccepted

\* A run that is neither served nor lists ends as it should when nothing is opened.
LEMMA ClosedEnd == endpoint' = None /\ ~Serves' /\ ~Lists' => EndsAsFound'
BY DEF EndsAsFound, Serves, Lists, Wanted

\* Once a call has failed nothing is said of what the end must be.
LEMMA FailedEnd == Same /\ faults # faults' => EndsAsFound'
BY DEF EndsAsFound, Same

\* Failures hide nothing from a run that ends with nothing opened and nothing enumerated.
LEMMA NothingHidden ==
    endpoint' = None /\ result' \notin {"noneFound", "ambiguous", "listed"} => FailuresOnlyHide'
BY DEF FailuresOnlyHide

\* A run that is served goes by its interface, or the interface has no plan.
LEMMA ServedEnd ==
    ASSUME NEW n, Wanted' = {n}, Run', endpoint' # None => Serves',
           endpoint' # None <=> PlanAccepted(Table[n].ipv4[1].address, Table[n].ipv4[1].netmask)',
           endpoint' # None =>
             found'.name = n /\ endpoint' = Table'[n].index /\ FoundTrue(Table', found', command'.kind)
    PROVE  EndsAsFound'
<1>1. (CHOOSE x \in Wanted' : TRUE) = n
    OBVIOUS
<1> QED
    BY <1>1, Zenon DEF EndsAsFound, Serves, Lists, Wanted, FoundTrue

\* A list is complete and sorted.
LEMMA ListedEnd ==
    ASSUME endpoint' = None, ~Run', NamesOf(candidates') = UsableNames(Table'), Sorted(candidates'),
           Len(candidates') = Cardinality(UsableNames(Table'))
    PROVE  EndsAsFound'
<1>1. {c.name : c \in Range(candidates')} = NamesOf(candidates')
    BY DEF Range, NamesOf
<1>2. \A i, j \in DOMAIN candidates' : i < j => candidates'[i].index < candidates'[j].index
    BY DEF Sorted
<1> QED
    BY <1>1, <1>2, Zenon DEF EndsAsFound
-----------------------------------------------------------------------------
\* Steps before the library is called.
LEMMA EarlyStep ==
    ASSUME RunInv, CalmParts, Same,
           ParseLine \/ VendorsRefused \/ MakeCommand \/ CheckRefuses
    PROVE  CalmParts'
<1>1. ASSUME stage' \in {"convert", "check", "done"}, stage' = "convert" => command' = None,
             candidates' = candidates, endpoint' = None, stage \in {"parse", "convert", "check"},
             stage' = "done" =>
               ~Serves' /\ ~Lists' /\ result' \notin {"noneFound", "ambiguous", "listed"}
      PROVE  CalmParts'
  <2>1. AgendaPart' /\ FoundPart'
    BY <1>1 DEF AgendaPart, FoundPart, Asking
  <2>2. ChoicePart'
    BY <1>1 DEF CalmParts, ChoicePart, Same, Asking
  <2>3. EnumerationPart'
    BY <1>1 DEF CalmParts, EnumerationPart
  <2>4. EndPart'
    BY <1>1, ClosedEnd, NothingHidden DEF EndPart, EndsAsFound, FailuresOnlyHide
  <2> QED
    BY <2>1, <2>2, <2>3, <2>4 DEF CalmParts
<1>2. stage # "done" => endpoint = None
    BY DEF CalmParts, EndPart
<1>3. CASE ParseLine
  <2>1. stage = "parse" /\ stage' \in {"convert", "done"} /\ UNCHANGED <<command, candidates, endpoint>>
    BY <1>3 DEF ParseLine, EndsWith, outcome, reading
  <2>2. command' = None
    BY <2>1 DEF CalmParts, ChoicePart
  <2>3. ~Serves' /\ ~Lists' /\ (stage' = "done" => result' = "usage")
    BY <1>3, <2>2 DEF Serves, Lists, Run, ParseLine, EndsWith
  <2> QED
    BY <1>1, <1>2, <2>1, <2>2, <2>3
<1>4. CASE VendorsRefused
  <2>1. /\ stage = "convert" /\ stage' = "done" /\ result' = "vendors"
        /\ UNCHANGED <<command, candidates, endpoint>>
    BY <1>4 DEF VendorsRefused, EndsWith, reading
  <2>2. command' = None
    BY <2>1 DEF CalmParts, ChoicePart
  <2>3. ~Serves' /\ ~Lists'
    BY <2>2 DEF Serves, Lists, Run
  <2> QED
    BY <1>1, <1>2, <2>1, <2>2, <2>3
<1>5. CASE MakeCommand
  <2>1. /\ stage = "convert" /\ UNCHANGED <<candidates, endpoint>>
        /\ stage' = "check" \/ (stage' = "done" /\ command' = command /\ result' = "panic")
    BY <1>5 DEF MakeCommand, EndsWith, outcome, reading
  <2>2. stage' = "done" => command' = None
    BY <2>1 DEF CalmParts, ChoicePart
  <2>3. stage' = "done" => ~Serves' /\ ~Lists'
    BY <2>2 DEF Serves, Lists, Run
  <2> QED
    BY <1>1, <1>2, <2>1, <2>2, <2>3
<1>6. CASE CheckRefuses
  <2>1. /\ stage = "check" /\ stage' = "done" /\ Refusal # None /\ result' = Refusal
        /\ UNCHANGED <<command, candidates, endpoint>>
    BY <1>6 DEF CheckRefuses, EndsWith, outcome, reading
  <2>2. Refusal \notin {"noneFound", "ambiguous", "listed"}
    BY CommandAssumption DEF Refusal, Verdict
  <2>3. ~Serves
    BY <2>1 DEF Serves
  <2>4. ~Lists
    <3> SUFFICES ASSUME command.kind = "list", platform # "other" PROVE FALSE
      BY DEF Lists, Run
    <3>1. command = CommandOf(line) /\ LineTyped(line)
      BY <2>1 DEF RunInv, StageInv
    <3>2. command.rate = None /\ ~Given(command.interface)
      BY <3>1 DEF CommandOf, LineTyped
    <3> QED
      BY <2>1, <3>2 DEF Refusal
  <2> QED
    BY <1>1, <1>2, <2>1, <2>3, <2>4, <2>2, SameCommand
<1> QED
    BY <1>3, <1>4, <1>5, <1>6

\* A step to a stage in which the run goes on.
LEMMA GoesOn ==
    ASSUME RunInv, CalmParts, Same, command' = command, stage' # "done", endpoint' = endpoint,
           stage \notin {"parse", "convert", "done"}, stage' \notin {"parse", "convert", "check"},
           Refusal = None, AgendaPart', FoundPart',
           stage' = "resolve" => row'.name = command.interface,
           stage' \in {"perform", "open"} =>
             Usable(Table, row'.name) /\ row'.name \in Wanted /\ Cardinality(Wanted) <= faults' + 1,
           stage' \in {"enumerate", "candidate"} => EnumerationPart'
    PROVE  CalmParts'
<1>1. EndPart'
    BY DEF CalmParts, EndPart, EndsAsFound, FailuresOnlyHide
<1>2. Refusal' = Refusal /\ Wanted' = Wanted
    BY SameCommand
<1>3. ChoicePart'
    BY <1>2 DEF CalmParts, ChoicePart, Same
<1>4. EnumerationPart'
    BY DEF EnumerationPart
<1> QED
    BY <1>1, <1>3, <1>4 DEF CalmParts

\* The interface that is asked about stays the same when an answer comes.
LEMMA AnsweredCalmly ==
    ASSUME RunInv, CalmParts, Same, CallAnswered
    PROVE  CalmParts'
<1>1. /\ stage \in Asking /\ stage' = stage /\ endpoint' = endpoint
      /\ UNCHANGED <<command, pending, candidates, found, faults>>
    BY DEF CallAnswered, RunInv, ReadingInv, outcome, host
<1>2. /\ AgendaPart' /\ row'.name = row.name
      /\ \A q \in Question : Settled(Table, row, q) => Settled(Table, row', q)
    BY AgendaAnswered DEF RunInv, CalmParts, Same
<1>3. Refusal = None
    BY <1>1 DEF CalmParts, ChoicePart
<1>4. PlanAccepted(found.address, found.netmask)' = PlanAccepted(found.address, found.netmask)
    BY <1>1 DEF PlanAccepted
<1>5. FoundPart'
    BY <1>1, <1>2, <1>4 DEF CalmParts, FoundPart, Same
<1>6. ASSUME stage = "candidate" PROVE EnumerationPart'
  <2>1. /\ command.kind = "list" \/ ~Given(command.interface)
        /\ Cardinality(Missed) <= faults
        /\ NamesOf(pending) \cap (NamesOf(candidates) \cup {row.name}) = {}
        /\ NamesOf(candidates) \cap {row.name} = {}
        /\ Fresh(Table, platform, row)
        /\ AllFresh(Table, platform, pending)
        /\ AllUsable(Table, candidates) /\ Sorted(candidates)
    BY <1>6 DEF CalmParts, EnumerationPart, Current
  <2>2. Fresh(Table, platform, row')
    <3>1. CASE platform = "linux"
      <4>1. Settled(Table, row, "index")
        BY <2>1, <3>1 DEF Fresh, Settled
      <4>2. Settled(Table, row', "index")
        BY <1>2, <4>1 DEF Question
      <4> QED
        BY <1>2, <2>1, <3>1, <4>2 DEF Fresh, Settled
    <3>2. CASE platform # "linux"
      BY <1>2, <2>1, <3>2 DEF Fresh
    <3> QED
      BY <3>1, <3>2
  <2>3. Current' = {row.name} /\ Current = {row.name}
    BY <1>1, <1>2, <1>6 DEF Current
  <2>4. Missed' = Missed
    BY <1>1, <2>3 DEF Missed, Same
  <2> QED
    BY <1>1, <1>2, <1>6, <2>1, <2>2, <2>3, <2>4 DEF EnumerationPart, Same
<1>7. /\ stage = "resolve" => row.name = command.interface
      /\ stage \in {"perform", "open"} =>
           Usable(Table, row.name) /\ row.name \in Wanted /\ Cardinality(Wanted) <= faults + 1
    BY DEF CalmParts, ChoicePart
<1> QED
    BY <1>1, <1>2, <1>3, <1>5, <1>6, <1>7, GoesOn DEF Asking

\* What is wanted is finite, and is one name when nothing has failed.
LEMMA WantedIsFinite ==
    /\ IsFiniteSet(UsableNames(Table)) /\ IsFiniteSet(Wanted)
    /\ \A n \in Wanted : Cardinality(Wanted) <= 1 => Wanted = {n}
<1>1. IsFiniteSet(UsableNames(Table))
    BY DiscoveryAssumption, FS_Subset DEF UsableNames
<1>2. IsFiniteSet(Wanted)
    BY <1>1, FS_Singleton DEF Wanted
<1>3. ASSUME NEW n \in Wanted, Cardinality(Wanted) <= 1 PROVE Wanted = {n}
  <2>1. {n} \subseteq Wanted /\ Cardinality({n}) = 1
    BY <1>3, FS_Singleton
  <2>2. Cardinality({n}) <= Cardinality(Wanted) /\ Cardinality(Wanted) \in Nat
    BY <1>2, <2>1, FS_Subset, FS_CardinalityType
  <2>3. Cardinality({n}) = Cardinality(Wanted)
    BY <1>3, <2>1, <2>2
  <2> QED
    BY <1>2, <2>1, <2>3, FS_Subset
<1> QED
    BY <1>1, <1>2, <1>3

\* One interface passed over is one more that is missed.
LEMMA OneMissed ==
    ASSUME NEW A, NEW B, IsFiniteSet(A), NEW x, B \subseteq A \cup {x}, NEW k \in Nat, Cardinality(A) <= k
    PROVE  IsFiniteSet(B) /\ Cardinality(B) <= k + 1
<1>1. Cardinality(A) \in Nat
    BY FS_CardinalityType
<1>2. /\ IsFiniteSet(A \cup {x})
      /\ Cardinality(A \cup {x}) = IF x \in A THEN Cardinality(A) ELSE Cardinality(A) + 1
    BY FS_AddElement
<1>3. /\ IsFiniteSet(A \cup {x}) /\ Cardinality(A) \in Nat
      /\ Cardinality(A \cup {x}) <= Cardinality(A) + 1
    BY <1>1, <1>2
<1>4. IsFiniteSet(B) /\ Cardinality(B) <= Cardinality(A \cup {x})
    BY <1>3, FS_Subset
<1>5. Cardinality(B) \in Nat /\ Cardinality(A \cup {x}) \in Nat
    BY <1>3, <1>4, FS_CardinalityType
<1> QED
    BY <1>3, <1>4, <1>5

\* A call is refused about an interface that is not usable, or it has failed.
LEMMA RefusedCalmly ==
    ASSUME RunInv, CalmParts, Same, CallRefused
    PROVE  CalmParts'
<1>1. /\ stage \in Asking /\ agenda # <<>>
      /\ \/ Reply(Head(agenda)) = Absent /\ faults' = faults
         \/ faults' = faults + 1
      /\ agenda' = <<>> /\ UNCHANGED <<command, row, pending, candidates, found>>
    BY DEF CallRefused, RunInv, ReadingInv
<1>2. Usable(Table, row.name) => faults' = faults + 1
    BY <1>1, HeadAnswered DEF CalmParts, RunInv
<1>3. Refusal = None /\ endpoint = None
    BY <1>1 DEF CalmParts, ChoicePart, EndPart, Asking
<1>4. CASE stage = "candidate"
  <2>1. stage' = "enumerate" /\ endpoint' = endpoint
    BY <1>4 DEF CallRefused, outcome
  <2>2. /\ command.kind = "list" \/ ~Given(command.interface)
        /\ Cardinality(Missed) <= faults
        /\ NamesOf(pending) \cap (NamesOf(candidates) \cup {row.name}) = {}
        /\ AllFresh(Table, platform, pending)
        /\ AllUsable(Table, candidates) /\ Sorted(candidates)
    BY <1>4 DEF CalmParts, EnumerationPart, Current
  <2>3. Current = {row.name} /\ Current' = {}
    BY <1>4, <2>1 DEF Current
  <2>4. Cardinality(Missed') <= faults'
    <3>1. Missed' = UsableNames(Table) \ (NamesOf(pending) \cup NamesOf(candidates))
      BY <1>1, <2>3 DEF Missed, Same
    <3>2. CASE Usable(Table, row.name)
      <4>1. Missed' \subseteq Missed \cup {row.name}
        BY <2>3, <3>1 DEF Missed
      <4>2. IsFiniteSet(Missed)
        BY WantedIsFinite, FS_Subset DEF Missed
      <4>3. Cardinality(Missed') <= faults + 1
        BY <2>2, <4>1, <4>2, OneMissed DEF Same
      <4> QED
        BY <1>2, <3>2, <4>3
    <3>3. CASE ~Usable(Table, row.name)
      <4>1. Missed' = Missed
        BY <2>3, <3>1, <3>3 DEF Missed, UsableNames
      <4>2. Cardinality(Missed) \in Nat
        BY WantedIsFinite, FS_Subset, FS_CardinalityType DEF Missed
      <4> QED
        BY <2>2, <4>1, <4>2 DEF Same
    <3> QED
      BY <3>2, <3>3
  <2>5. EnumerationPart'
    BY <1>1, <2>1, <2>2, <2>3, <2>4 DEF EnumerationPart, Same
  <2>6. AgendaPart' /\ FoundPart'
    BY <2>1 DEF AgendaPart, FoundPart, Asking
  <2> QED
    BY <1>1, <1>3, <1>4, <2>1, <2>5, <2>6, GoesOn
<1>5. CASE stage # "candidate"
  <2>1. stage' = "done" /\ endpoint' = None /\ result' = "interface"
    BY <1>3, <1>5 DEF CallRefused, EndsWith
  <2>2. AgendaPart' /\ FoundPart' /\ EnumerationPart'
    BY <2>1 DEF AgendaPart, FoundPart, EnumerationPart, Asking
  <2>3. ChoicePart'
    BY <2>1 DEF CalmParts, ChoicePart, Same, Asking
  <2>4. ASSUME ~Usable(Table, row.name) PROVE ~Serves
    <3>1. Run /\ (stage = "resolve" => Wanted = {row.name})
      BY <1>1, <1>5 DEF Run, Wanted, RunInv, StageInv, CalmParts, ChoicePart, Asking
    <3>2. stage \in {"perform", "open"} => Usable(Table, row.name)
      BY DEF CalmParts, ChoicePart
    <3> QED
      BY <1>1, <1>5, <2>4, <3>1, <3>2 DEF Serves, UsableNames, Asking
  <2>5. ~Lists
    BY <1>1, <1>5 DEF Lists, Run, RunInv, StageInv, Asking
  <2>6. EndsAsFound'
    <3>1. CASE Usable(Table, row.name)
      <4>1. faults' # faults
        BY <1>2, <3>1 DEF Same
      <4> QED
        BY <4>1, FailedEnd
    <3>2. CASE ~Usable(Table, row.name)
      BY <1>1, <2>1, <2>4, <2>5, <3>2, SameCommand, ClosedEnd
    <3> QED
      BY <3>1, <3>2
  <2>7. EndPart'
    BY <2>1, <2>6, NothingHidden DEF EndPart
  <2> QED
    BY <2>2, <2>3, <2>7 DEF CalmParts
<1> QED
    BY <1>4, <1>5
\* A given interface is resolved.
LEMMA ResolvesCalmly ==
    ASSUME RunInv, RunInv', CalmParts, Same, ResolveExplicit
    PROVE  CalmParts'
<1>1. /\ stage = "check" /\ Refusal = None /\ stage' = "resolve"
      /\ row' = NoRow(command.interface) /\ agenda' = ResolveQuestions
      /\ UNCHANGED <<command, endpoint>>
    BY DEF ResolveExplicit, Asks, outcome
<1>2. row'.name = command.interface
    BY <1>1 DEF NoRow
<1>3. agenda' = Questions'
    BY <1>1 DEF Questions, ResolveQuestions, Same
<1>4. AgendaPart'
    BY <1>3, AgendaStarts DEF RunInv
<1>5. FoundPart'
    BY <1>1 DEF FoundPart
<1> QED
    BY <1>1, <1>2, <1>4, <1>5, GoesOn

\* An enumeration begins with no candidates, or the list of interfaces is refused.
LEMMA EnumeratesCalmly ==
    ASSUME RunInv, CalmParts, Same, Enumerate
    PROVE  CalmParts'
<1>1. /\ stage = "check" /\ Refusal = None
      /\ command.kind = "list" \/ ~Given(command.interface)
      /\ UNCHANGED <<command, candidates>>
    BY DEF Enumerate
<1>2. candidates = <<>> /\ endpoint = None
    BY <1>1 DEF CalmParts, EnumerationPart, EndPart
<1>3. CASE stage' = "enumerate" /\ pending' = Listed /\ endpoint' = endpoint
  <2>1. AgendaPart' /\ FoundPart'
    BY <1>3 DEF FoundPart, AgendaPart, Asking
  <2>2. AllFresh(Table, platform, pending') /\ UsableNames(Table) \subseteq NamesOf(pending')
    BY <1>3, ListedFresh DEF RunInv
  <2>3. NamesOf(candidates') = {} /\ AllUsable(Table, candidates') /\ Sorted(candidates')
    BY <1>1, <1>2 DEF NamesOf, AllUsable, Sorted
  <2>4. Missed' = {} /\ Current' = {}
    BY <1>3, <2>2 DEF Missed, Current, Same
  <2>5. Cardinality(Missed') <= faults'
    BY <2>4, FS_EmptySet DEF Same
  <2>6. EnumerationPart'
    BY <1>1, <1>3, <2>2, <2>3, <2>4, <2>5 DEF EnumerationPart, Same
  <2> QED
    BY <1>1, <1>3, <2>1, <2>6, GoesOn
<1>4. CASE faults' = faults + 1 /\ EndsWith("interface")
  <2>1. stage' = "done" /\ endpoint' = None /\ result' = "interface" /\ faults' # faults
    BY <1>2, <1>4 DEF EndsWith, Same
  <2>2. AgendaPart' /\ FoundPart' /\ EnumerationPart'
    BY <2>1 DEF AgendaPart, FoundPart, EnumerationPart, Asking
  <2>3. ChoicePart'
    BY <2>1 DEF CalmParts, ChoicePart, Same, Asking
  <2>4. EndPart'
    BY <2>1, FailedEnd, NothingHidden DEF EndPart
  <2> QED
    BY <2>2, <2>3, <2>4 DEF CalmParts
<1> QED
    BY <1>3, <1>4 DEF Enumerate, outcome

\* What an enumeration keeps, by name.
LEMMA Enumerating ==
    ASSUME CalmParts, stage \in {"enumerate", "candidate"}
    PROVE  /\ Refusal = None
           /\ command.kind = "list" \/ ~Given(command.interface)
           /\ Cardinality(Missed) <= faults
           /\ NamesOf(pending) \cap (NamesOf(candidates) \cup Current) = {}
           /\ NamesOf(candidates) \cap Current = {}
           /\ stage = "candidate" => Fresh(Table, platform, row)
           /\ AllFresh(Table, platform, pending)
           /\ AllUsable(Table, candidates) /\ Sorted(candidates)
BY DEF CalmParts, ChoicePart, EnumerationPart, Asking

\* The next interface is looked at.
LEMMA LooksCalmly ==
    ASSUME RunInv, RunInv', CalmParts, Same, LookAtNext
    PROVE  CalmParts'
<1>1. /\ stage = "enumerate" /\ pending # <<>> /\ stage' = "candidate"
      /\ row' = Head(pending) /\ agenda' = CandidateQuestions /\ pending' = Tail(pending)
      /\ UNCHANGED <<command, endpoint, candidates, faults>>
    BY DEF LookAtNext, Asks, outcome, host
<1>2. agenda' = Questions'
    BY <1>1 DEF Questions, CandidateQuestions, Same
<1>3. AgendaPart' /\ FoundPart'
    BY <1>1, <1>2, AgendaStarts DEF RunInv, FoundPart
<1>4. pending \in Seq(Range(pending)) /\ AllFresh(Table, platform, pending)
    BY <1>1, Enumerating DEF RunInv, ReadingInv, RowsTyped
<1>5. /\ Fresh(Table, platform, row') /\ AllFresh(Table, platform, pending')
      /\ NamesOf(pending) = {row'.name} \cup NamesOf(pending')
      /\ row'.name \notin NamesOf(pending')
    BY <1>1, <1>4, FreshTail
<1>6. NamesOf(pending) \cap NamesOf(candidates) = {} /\ Cardinality(Missed) <= faults
    BY <1>1, Enumerating DEF Current
<1>7. Current = {} /\ Current' = {row'.name}
    BY <1>1 DEF Current
<1>8. Missed' = Missed
    BY <1>1, <1>5, <1>7 DEF Missed, Same
<1>9. EnumerationPart'
    BY <1>1, <1>5, <1>6, <1>7, <1>8, Enumerating DEF EnumerationPart, Same
<1> QED
    BY <1>1, <1>3, <1>9, Enumerating, GoesOn

\* An interface that answers everything joins the candidates.
LEMMA KeepsCalmly ==
    ASSUME RunInv, CalmParts, Same, KeepCandidate
    PROVE  CalmParts'
<1> DEFINE n == Cardinality({i \in DOMAIN candidates : candidates[i].index <= row.index})
<1>1. /\ stage = "candidate" /\ agenda = <<>> /\ stage' = "enumerate"
      /\ candidates' = InsertAt(candidates, n + 1, row)
      /\ UNCHANGED <<command, endpoint, pending, faults>>
    BY DEF KeepCandidate, Complete, outcome, host
<1>2. /\ RowsTyped(candidates) /\ TableTyped(Table)
      /\ AllUsable(Table, candidates) /\ Sorted(candidates)
      /\ Fresh(Table, platform, row) /\ row.name \notin NamesOf(candidates)
    BY <1>1, TableIsTyped, Enumerating DEF RunInv, ReadingInv, Current
<1>3. Usable(Table, row.name) /\ row.index = Table[row.name].index
    BY <1>1, <1>2, CandidateComplete DEF CalmParts
<1>4. n \in 0 .. Len(candidates) /\ Divides(candidates, n, row)
    BY <1>2, <1>3, SmallerFirst
<1> HIDE DEF n
<1>5. /\ AllUsable(Table, candidates') /\ Sorted(candidates')
      /\ NamesOf(candidates') = NamesOf(candidates) \cup {row.name}
    BY <1>1, <1>2, <1>3, <1>4, CandidateInserted
<1>6. AgendaPart' /\ FoundPart'
    BY <1>1 DEF FoundPart, AgendaPart, Asking
<1>7. /\ NamesOf(pending) \cap (NamesOf(candidates) \cup {row.name}) = {}
      /\ Cardinality(Missed) <= faults
    BY <1>1, Enumerating DEF Current
<1>8. Current = {row.name} /\ Current' = {}
    BY <1>1 DEF Current
<1>9. Missed' = Missed
    BY <1>1, <1>5, <1>8 DEF Missed, Same
<1>10. EnumerationPart'
    BY <1>1, <1>5, <1>7, <1>8, <1>9, Enumerating DEF EnumerationPart, Same
<1> QED
    BY <1>1, <1>6, <1>10, Enumerating, GoesOn

\* When no interface is ahead, the candidates are what is usable, but for what failed.
LEMMA AllFound ==
    ASSUME RunInv, CalmParts, Same, stage = "enumerate", pending = <<>>
    PROVE  /\ NamesOf(candidates) \subseteq UsableNames(Table)
           /\ Cardinality(NamesOf(candidates)) = Len(candidates) /\ Len(candidates) \in Nat
           /\ Cardinality(UsableNames(Table)) \in Nat
           /\ Len(candidates) <= Cardinality(UsableNames(Table))
           /\ Cardinality(UsableNames(Table)) <= Len(candidates) + faults
           /\ faults = 0 => NamesOf(candidates) = UsableNames(Table)
<1> DEFINE U == UsableNames(Table)
           C == NamesOf(candidates)
<1>1. NamesOf(pending) = {} /\ Current = {}
    BY DEF NamesOf, Current
<1>2. Missed = U \ C /\ Cardinality(U \ C) <= faults
    BY <1>1, Enumerating DEF Missed
<1>3. RowsTyped(candidates) /\ TableTyped(Table) /\ AllUsable(Table, candidates) /\ Sorted(candidates)
    BY TableIsTyped, Enumerating DEF RunInv, ReadingInv
<1>4. C \subseteq U /\ IsFiniteSet(C) /\ Cardinality(C) = Len(candidates)
    BY <1>3, CandidatesCounted
<1>5. IsFiniteSet(U)
    BY WantedIsFinite
<1> HIDE DEF U, C
<1>6. /\ IsFiniteSet(U \ C)
       /\ Cardinality(U \ C) = Cardinality(U) - Cardinality(U \cap C)
    BY <1>5, FS_Difference
<1>7. /\ IsFiniteSet(U \ C) /\ U \cap C = C
      /\ Cardinality(U \ C) = Cardinality(U) - Cardinality(C)
  <2>1. U \cap C = C
    BY <1>4
  <2> QED
    BY <1>6, <2>1
<1>8. Cardinality(U) \in Nat /\ Cardinality(C) \in Nat /\ Cardinality(U \ C) \in Nat
    BY <1>4, <1>5, <1>7, FS_CardinalityType
<1>9. Cardinality(U) = Cardinality(C) + Cardinality(U \ C)
    BY <1>7, <1>8
<1>10. faults = 0 => C = U
  <2> SUFFICES ASSUME faults = 0 PROVE C = U
    OBVIOUS
  <2>1. Cardinality(U \ C) = 0
    BY <1>2, <1>8
  <2>2. U \ C = {}
    BY <1>7, <2>1, FS_EmptySet
  <2> QED
    BY <1>4, <2>2
<1>11. faults \in Nat
    BY DEF Same
<1> QED
    BY <1>2, <1>4, <1>8, <1>9, <1>10, <1>11 DEF U, C

\* An enumeration is the listing, or shows that there is no single choice.
LEMMA EndsCalmly ==
    ASSUME RunInv, CalmParts, Same, EnumerationEnds
    PROVE  CalmParts'
<1>1. /\ stage = "enumerate" /\ pending = <<>> /\ stage' = "done"
      /\ command.kind = "list" \/ Len(candidates) # 1
      /\ UNCHANGED <<command, endpoint, candidates, faults>>
    BY DEF EnumerationEnds, EndsWith, reading, host
<1>2. /\ NamesOf(candidates) \subseteq UsableNames(Table) /\ Len(candidates) \in Nat
      /\ Cardinality(NamesOf(candidates)) = Len(candidates)
      /\ Cardinality(UsableNames(Table)) \in Nat
      /\ Len(candidates) <= Cardinality(UsableNames(Table))
      /\ Cardinality(UsableNames(Table)) <= Len(candidates) + faults
      /\ faults = 0 => NamesOf(candidates) = UsableNames(Table)
      /\ Sorted(candidates) /\ (command.kind = "list" \/ ~Given(command.interface))
    BY <1>1, AllFound, Enumerating
<1>3. endpoint' = None
    BY <1>1 DEF CalmParts, EndPart
<1>4. AgendaPart' /\ FoundPart' /\ EnumerationPart'
    BY <1>1 DEF AgendaPart, FoundPart, EnumerationPart, Asking
<1>5. ChoicePart'
    BY <1>1 DEF CalmParts, ChoicePart, Same, Asking
<1>6. ASSUME faults = 0 PROVE EndsAsFound'
  <2>1. /\ NamesOf(candidates) = UsableNames(Table)
        /\ Cardinality(UsableNames(Table)) = Len(candidates)
    BY <1>2, <1>6
  <2>2. CASE command.kind = "list"
    <3>1. ~Run'
      BY <1>1, <2>2 DEF Run
    <3> QED
      BY <1>1, <1>2, <1>3, <2>1, <3>1, ListedEnd DEF Same
  <2>3. CASE command.kind # "list"
    <3>1. Wanted = UsableNames(Table) /\ Len(candidates) # 1
      BY <1>1, <1>2, <2>3 DEF Wanted
    <3>2. ~Serves
      BY <2>1, <3>1 DEF Serves
    <3>3. ~Lists
      BY <2>3 DEF Lists, Run
    <3> QED
      BY <1>1, <1>3, <3>2, <3>3, SameCommand, ClosedEnd
  <2> QED
    BY <2>2, <2>3
<1>7. FailuresOnlyHide'
  <2>1. {c.name : c \in Range(candidates)} = NamesOf(candidates)
    BY DEF Range, NamesOf
  <2>2. result' = IF command.kind = "list" THEN "listed"
                  ELSE IF candidates = <<>> THEN "noneFound" ELSE "ambiguous"
    BY DEF EnumerationEnds, EndsWith
  <2>3. result' = "noneFound" => Len(candidates) = 0
    BY <2>2
  <2>4. result' = "ambiguous" => Len(candidates) # 0 /\ Len(candidates) # 1
    <3>1. candidates \in Seq(Range(candidates))
      BY DEF RunInv, ReadingInv, RowsTyped
    <3> QED
      BY <1>1, <2>2, <3>1
  <2>5. result' = "noneFound" => Cardinality(UsableNames(Table)) <= faults
    BY <1>2, <2>3 DEF Same
  <2>6. result' = "ambiguous" => Cardinality(UsableNames(Table)) > 1
    BY <1>2, <2>4
  <2>7. Table' = Table
    BY DEF Same
  <2> QED
    BY <1>1, <1>2, <1>3, <2>1, <2>5, <2>6, <2>7 DEF FailuresOnlyHide
<1>8. EndPart'
    BY <1>1, <1>6, <1>7 DEF EndPart, EndsAsFound
<1> QED
    BY <1>4, <1>5, <1>8 DEF CalmParts

\* The interface chosen is the one wanted, and usable.
LEMMA ChoosesCalmly ==
    ASSUME RunInv, RunInv', CalmParts, Same, Chosen
    PROVE  CalmParts'
<1> DEFINE name == IF Given(command.interface) THEN command.interface ELSE candidates[1].name
<1>1. /\ \/ stage = "resolve" /\ agenda = <<>>
         \/ stage = "enumerate" /\ pending = <<>> /\ command.kind # "list" /\ Len(candidates) = 1
      /\ stage' = "perform" /\ row' = NoRow(name) /\ agenda' = PerformQuestions
      /\ UNCHANGED <<command, endpoint, faults>>
    BY DEF Chosen, Complete, Asks, outcome, host
<1>2. row'.name = name
    BY <1>1 DEF NoRow
<1>3. agenda' = Questions'
    BY <1>1 DEF Questions, PerformQuestions, Same
<1>4. AgendaPart' /\ FoundPart'
    BY <1>1, <1>3, AgendaStarts DEF RunInv, FoundPart
<1>5. Refusal = None
    BY <1>1 DEF CalmParts, ChoicePart, Asking
<1>6. Usable(Table, name) /\ name \in Wanted /\ Cardinality(Wanted) <= faults + 1
  <2>1. CASE stage = "resolve"
    <3>1. Usable(Table, row.name) /\ row.name = command.interface
      BY <1>1, <2>1, ResolveComplete DEF CalmParts, ChoicePart
    <3>2. Given(command.interface) /\ command.kind # "list" /\ command # None
      BY <2>1 DEF RunInv, StageInv, CalmParts, ChoicePart
    <3>3. Wanted = {command.interface} /\ Cardinality({command.interface}) = 1
      BY <3>2, FS_Singleton DEF Wanted, Run
    <3>4. 1 <= faults + 1
      BY DEF Same
    <3> QED
      BY <3>1, <3>2, <3>3, <3>4
  <2>2. CASE stage = "enumerate"
    <3>1. /\ ~Given(command.interface) /\ Len(candidates) = 1
          /\ NamesOf(candidates) \subseteq UsableNames(Table)
          /\ Cardinality(UsableNames(Table)) <= Len(candidates) + faults
      BY <1>1, <2>2, AllFound, Enumerating
    <3>2. 1 \in DOMAIN candidates
      BY <3>1 DEF RunInv, ReadingInv, RowsTyped
    <3>3. candidates[1].name \in UsableNames(Table)
      BY <3>1, <3>2 DEF NamesOf
    <3>4. Wanted = UsableNames(Table) /\ name = candidates[1].name
      BY <3>1 DEF Wanted
    <3>5. 1 + faults = faults + 1
      BY DEF Same
    <3> QED
      BY <3>1, <3>3, <3>4, <3>5 DEF UsableNames
  <2> QED
    BY <1>1, <2>1, <2>2
<1> HIDE DEF name
<1> QED
    BY <1>1, <1>2, <1>4, <1>5, <1>6, GoesOn

\* The plan is made of what is true of the interface, or its subnet is refused.
LEMMA PlansCalmly ==
    ASSUME RunInv, RunInv', CalmParts, Same, MakePlan
    PROVE  CalmParts'
<1>1. /\ stage = "perform" /\ agenda = <<>>
      /\ command' = command /\ found' = row /\ faults' = faults
    BY DEF MakePlan, Complete, host
<1>2. /\ FoundTrue(Table, row, command.kind) /\ Refusal = None /\ endpoint = None
      /\ Usable(Table, row.name) /\ row.name \in Wanted /\ Cardinality(Wanted) <= faults + 1
    BY <1>1, PerformComplete DEF CalmParts, ChoicePart, EndPart, Asking
<1>3. CASE PlanAccepted(row.address, row.netmask)
  <2>1. /\ stage' = "open" /\ row' = NoRow(row.name) /\ agenda' = OpenQuestions /\ endpoint' = endpoint
    BY <1>3 DEF MakePlan, Asks
  <2>2. row'.name = row.name
    BY <2>1 DEF NoRow
  <2>3. agenda' = Questions'
    BY <2>1 DEF Questions, OpenQuestions, Same
  <2>4. AgendaPart'
    BY <2>3, AgendaStarts DEF RunInv
  <2>5. PlanAccepted(found.address, found.netmask)'
    BY <1>1, <1>3 DEF PlanAccepted
  <2>6. FoundPart'
    BY <1>1, <1>2, <2>2, <2>5 DEF FoundPart, Same
  <2> QED
    BY <1>1, <1>2, <2>1, <2>2, <2>4, <2>6, GoesOn
<1>4. CASE ~PlanAccepted(row.address, row.netmask)
  <2>1. stage' = "done" /\ endpoint' = None /\ result' = "plan"
    BY <1>2, <1>4 DEF MakePlan, EndsWith
  <2>2. AgendaPart' /\ FoundPart' /\ EnumerationPart'
    BY <2>1 DEF AgendaPart, FoundPart, EnumerationPart, Asking
  <2>3. ChoicePart'
    BY <2>1 DEF CalmParts, ChoicePart, Same, Asking
  <2>4. Run' /\ (faults = 0 => Wanted' = {row.name})
    <3>1. command # None /\ command.kind # "list"
      BY <1>1 DEF RunInv, StageInv, CalmParts, ChoicePart
    <3>2. faults = 0 => Wanted = {row.name}
      BY <1>2, WantedIsFinite
    <3> QED
      BY <1>1, <3>1, <3>2, SameCommand DEF Run
  <2>5. row.address = Table[row.name].ipv4[1].address /\ row.netmask = Table[row.name].ipv4[1].netmask
    BY <1>2 DEF FoundTrue
  <2>6. ~PlanAccepted(Table[row.name].ipv4[1].address, Table[row.name].ipv4[1].netmask)
    BY <1>4, <2>5
  <2> DEFINE n == row.name
             a == Table[n].ipv4[1].address
             m == Table[n].ipv4[1].netmask
  <2>7. PICK k : k = row.name
    OBVIOUS
  <2>8. ~PlanAccepted(Table[k].ipv4[1].address, Table[k].ipv4[1].netmask)'
    BY <1>1, <2>6, <2>7 DEF PlanAccepted, Same
  <2>9. faults = 0 => EndsAsFound'
    BY <2>1, <2>4, <2>7, <2>8, ServedEnd
  <2>10. EndPart'
    BY <1>1, <2>1, <2>9, NothingHidden DEF EndPart, EndsAsFound
  <2> QED
    BY <2>2, <2>3, <2>10 DEF CalmParts
<1> QED
    BY <1>3, <1>4

\* The endpoint listens on the interface that was wanted.
LEMMA OpensCalmly ==
    ASSUME RunInv, CalmParts, Same, Opened
    PROVE  CalmParts'
<1>1. /\ stage = "open" /\ agenda = <<>> /\ stage' = "done" /\ endpoint' = row.index
      /\ result' = "opened" /\ UNCHANGED <<command, found, faults>>
    BY DEF Opened, Complete, host
<1>2. /\ row.index = Table[row.name].index /\ Refusal = None
      /\ Usable(Table, row.name) /\ row.name \in Wanted /\ Cardinality(Wanted) <= faults + 1
    BY <1>1, OpenComplete DEF CalmParts, ChoicePart, Asking
<1>3. /\ found.name = row.name /\ FoundTrue(Table, found, command.kind)
      /\ PlanAccepted(found.address, found.netmask)
    BY <1>1 DEF CalmParts, FoundPart
<1>4. AgendaPart' /\ FoundPart' /\ EnumerationPart'
    BY <1>1 DEF AgendaPart, FoundPart, EnumerationPart, Asking
<1>5. ChoicePart'
    BY <1>1 DEF CalmParts, ChoicePart, Same, Asking
<1>6. command # None /\ command.kind # "list"
    BY <1>1 DEF RunInv, StageInv, CalmParts, ChoicePart
<1>7. PICK n : n = row.name
    OBVIOUS
<1>8. n \in UsableNames(Table) /\ n \in Present(Table)
    BY <1>2, <1>7 DEF UsableNames, Usable, Present
<1>9. endpoint' # None
  <2>1. endpoint' \in Nat
    BY <1>1, <1>2, <1>7, <1>8, TableIsTyped, InterfaceTyped DEF RunInv
  <2> QED
    BY <2>1, CommandLineAssumption
<1>10. ASSUME faults = 0 PROVE Wanted = {n} /\ Serves
  <2>1. Cardinality({n}) = 1 /\ Wanted = {n}
    BY <1>2, <1>7, <1>10, WantedIsFinite, FS_Singleton
  <2> QED
    BY <1>2, <1>6, <1>8, <2>1 DEF Serves, Run
<1>11. Run' /\ (faults = 0 => Wanted' = {n} /\ Serves')
    BY <1>1, <1>6, <1>10, SameCommand DEF Run
<1>12. found.address = Table[n].ipv4[1].address /\ found.netmask = Table[n].ipv4[1].netmask
    BY <1>3, <1>7 DEF FoundTrue
<1>13. PlanAccepted(Table[n].ipv4[1].address, Table[n].ipv4[1].netmask)
    BY <1>3, <1>12
<1>14. PlanAccepted(Table[n].ipv4[1].address, Table[n].ipv4[1].netmask)'
    BY <1>1, <1>13 DEF PlanAccepted, Same
<1>15. found'.name = n /\ endpoint' = Table'[n].index /\ FoundTrue(Table', found', command'.kind)
    BY <1>1, <1>2, <1>3, <1>7 DEF Same
<1>16. faults = 0 => EndsAsFound'
    BY <1>9, <1>11, <1>14, <1>15, ServedEnd
<1>17. FailuresOnlyHide'
  <2>1. Wanted' = Wanted /\ n \in Wanted'
    BY <1>1, <1>2, <1>7, SameCommand
  <2>2. n \in UsableNames(Table)'
    BY <1>8 DEF Same
  <2> QED
    BY <1>1, <1>2, <1>15, <2>1, <2>2 DEF FailuresOnlyHide, Wanted
<1>18. EndPart'
    BY <1>1, <1>16, <1>17 DEF EndPart, EndsAsFound
<1> QED
    BY <1>4, <1>5, <1>18 DEF CalmParts

\* At the start nothing is asked, found or opened.
LEMMA CalmInit == Init => CalmInv
<1> SUFFICES ASSUME Init PROVE CalmParts
    BY DEF CalmInv
<1>1. stage = "parse" /\ command = None /\ candidates = <<>> /\ endpoint = None
    BY DEF Init
<1>2. CommandOf(line) # None
    BY CommandAssumption DEF Init
<1> QED
    BY <1>1, <1>2
    DEF CalmParts, AgendaPart, ChoicePart, FoundPart, EnumerationPart, EndPart, EndsAsFound,
        FailuresOnlyHide, Asking

\* Nothing changes.
LEMMA CalmStutter ==
    ASSUME RunInv, CalmParts, UNCHANGED vars
    PROVE  CalmParts'
<1>1. /\ UNCHANGED <<platform, line, stage, command, agenda, row, pending, candidates, found, plan>>
      /\ UNCHANGED <<endpoint, result, past, faults>>
    BY DEF vars, input, reading, outcome, host
<1>2. Table' = Table
    BY <1>1 DEF Table
<1>3. Same
    BY <1>1, <1>2 DEF Same, RunInv, HostInv
<1>4. Questions' = Questions
    BY <1>1, QuestionsKept
<1>5. \A n : Answered(n)' = Answered(n)
    BY <1>1, <1>2, <1>4 DEF Answered
<1>6. AgendaPart'
    BY <1>1, <1>4, <1>5 DEF CalmParts, AgendaPart
<1>7. ChoicePart'
    BY <1>1, <1>2, <1>3, SameCommand DEF CalmParts, ChoicePart
<1>8. FoundPart'
    BY <1>1, <1>2, <1>3, SameCommand DEF CalmParts, FoundPart
<1>9. EnumerationPart'
    BY <1>1, <1>2 DEF CalmParts, EnumerationPart, Missed, Current
<1>10. EndPart'
  <2>1. EndsAsFound' = EndsAsFound /\ FailuresOnlyHide' = FailuresOnlyHide
    BY <1>1, <1>2, <1>3, SameCommand DEF EndsAsFound, FailuresOnlyHide
  <2> QED
    BY <1>1, <2>1 DEF CalmParts, EndPart
<1> QED
    BY <1>6, <1>7, <1>8, <1>9, <1>10 DEF CalmParts

\* Every step of a run that stays calm keeps what is known of it.
LEMMA CalmNext == RunInv /\ RunInv' /\ CalmInv /\ [Next]_vars => CalmInv'
<1> SUFFICES ASSUME RunInv, RunInv', CalmInv, [Next]_vars, Calm' PROVE CalmParts'
    BY DEF CalmInv
<1>1. Same /\ ~HostChanges
    BY CalmStep
<1>2. CalmParts
    BY CalmStep DEF CalmInv
<1>3. CASE UNCHANGED vars
    BY <1>2, <1>3, CalmStutter
<1>4. CASE ParseLine \/ VendorsRefused \/ MakeCommand \/ CheckRefuses
    BY <1>1, <1>2, <1>4, EarlyStep
<1>5. CASE CallAnswered
    BY <1>1, <1>2, <1>5, AnsweredCalmly
<1>6. CASE CallRefused
    BY <1>1, <1>2, <1>6, RefusedCalmly
<1>7. CASE ResolveExplicit
    BY <1>1, <1>2, <1>7, ResolvesCalmly
<1>8. CASE Enumerate
    BY <1>1, <1>2, <1>8, EnumeratesCalmly
<1>9. CASE LookAtNext
    BY <1>1, <1>2, <1>9, LooksCalmly
<1>10. CASE KeepCandidate
    BY <1>1, <1>2, <1>10, KeepsCalmly
<1>11. CASE EnumerationEnds
    BY <1>1, <1>2, <1>11, EndsCalmly
<1>12. CASE Chosen
    BY <1>1, <1>2, <1>12, ChoosesCalmly
<1>13. CASE MakePlan
    BY <1>1, <1>2, <1>13, PlansCalmly
<1>14. CASE Opened
    BY <1>1, <1>2, <1>14, OpensCalmly
<1> QED
    BY <1>1, <1>3, <1>4, <1>5, <1>6, <1>7, <1>8, <1>9, <1>10, <1>11, <1>12, <1>13, <1>14 DEF Next

\* When no call fails and the interfaces stay as they are, a listing is the usable
\* interfaces by their indexes, and a scan or a monitor listens on the given interface, or
\* on the only usable one, by its addresses, or opens nothing; on each platform.
THEOREM RunsEndAsFound ==
    Spec => []EndsAsFound
<1>1. Init => CalmInv
    BY CalmInit
<1>2. CalmInv => EndsAsFound
    BY DEF CalmInv, CalmParts, EndPart, EndsAsFound, Calm
<1>3. Init => RunInv
    BY RunInit
<1>4. RunInv /\ [Next]_vars => RunInv'
    BY RunNext
<1> QED
    BY <1>1, <1>2, <1>3, <1>4, CalmNext, PTL DEF Spec

\* As long as the interfaces stay as they are, a call that fails hides one interface from
\* the enumeration and misleads about no other, however many fail.
THEOREM FailuresHideAtMostOneEach ==
    Spec => []FailuresOnlyHide
<1>1. Init => CalmInv
    BY CalmInit
<1>2. CalmInv => FailuresOnlyHide
    BY DEF CalmInv, CalmParts, EndPart, FailuresOnlyHide, Calm
<1>3. Init => RunInv
    BY RunInit
<1>4. RunInv /\ [Next]_vars => RunInv'
    BY RunNext
<1> QED
    BY <1>1, <1>2, <1>3, <1>4, CalmNext, PTL DEF Spec
=============================================================================
