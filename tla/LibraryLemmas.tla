---------------------------- MODULE LibraryLemmas ----------------------------
(***************************************************************************)
(* What the proofs need of numbers and of sequences, and the library does  *)
(* not state in a form that the provers can use.                           *)
(*                                                                         *)
(* Induction over the natural numbers, for sets instead of predicates: the *)
(* set of the numbers a fact holds for is inductive, hence all of Nat.     *)
(* From it the recursive definition of functions, with a function for the  *)
(* step, the powers of two, which are the numbers of subsets, and the      *)
(* places of sequences that are joined.                                    *)
(***************************************************************************)
EXTENDS Integers, Sequences, SequencesExt, FiniteSetTheorems, SequenceTheorems,
        WellFoundedInduction, TLAPS

\* Every nonempty set of natural numbers has a least element.
LEMMA LeastElement ==
    ASSUME NEW S, S \subseteq Nat, S # {}
    PROVE  \E n \in S : \A m \in S : n <= m
  <1>1. PICK n \in S : \A m \in S : ~(<<m, n>> \in OpToRel(<, Nat))
    BY NatLessThanWellFounded, WFMin
  <1>2. \A m \in S : ~(m < n)
    BY <1>1 DEF OpToRel
  <1> QED
    BY <1>2

\* A set that holds 0 and the successor of each of its numbers holds all of them.
LEMMA Inductive ==
    ASSUME NEW S, 0 \in S, \A n \in Nat : n \in S => n + 1 \in S
    PROVE  Nat \subseteq S
  <1> DEFINE missing == Nat \ S
  <1> SUFFICES ASSUME missing # {} PROVE FALSE
    OBVIOUS
  <1>1. PICK n \in missing : \A m \in missing : n <= m
    BY LeastElement
  <1>2. n - 1 \in Nat
    BY <1>1
  <1> QED
    BY <1>1, <1>2

\* A function on the numbers may be defined from its first value and a step, which
\* goes from a number and the value at it to the next value.
LEMMA Recursion ==
    ASSUME NEW S, NEW first \in S, NEW step \in [Nat -> [S -> S]]
    PROVE  \E f \in [Nat -> S] : f[0] = first /\ \A k \in Nat : f[k + 1] = step[k][f[k]]
  <1> DEFINE Begins(n, f) == f[0] = first /\ \A k \in Nat : k < n => f[k + 1] = step[k][f[k]]
             begun == {n \in Nat : \E f \in [0 .. n -> S] : Begins(n, f)}
  <1>1. Nat \subseteq begun
    <2>1. 0 \in begun
      <3>1. [k \in 0 .. 0 |-> first] \in [0 .. 0 -> S] /\ Begins(0, [k \in 0 .. 0 |-> first])
        OBVIOUS
      <3> QED
        BY <3>1
    <2>2. ASSUME NEW n \in Nat, n \in begun PROVE n + 1 \in begun
      <3>1. PICK f \in [0 .. n -> S] : Begins(n, f)
        BY <2>2
      <3> DEFINE g == [k \in 0 .. n + 1 |-> IF k <= n THEN f[k] ELSE step[n][f[n]]]
      <3>2. f[n] \in S /\ step[n][f[n]] \in S
        OBVIOUS
      <3>3. g \in [0 .. n + 1 -> S]
        BY <3>2
      <3>4. g[0] = first
        BY <3>1
      <3>5. ASSUME NEW k \in Nat, k < n + 1 PROVE g[k + 1] = step[k][g[k]]
        <4>1. CASE k < n
          BY <3>1, <4>1
        <4>2. CASE k = n
          BY <4>2
        <4> QED
          BY <3>5, <4>1, <4>2
      <3>6. Begins(n + 1, g)
        BY <3>4, <3>5
      <3> HIDE DEF g, Begins
      <3> QED
        BY <3>3, <3>6
    <2> HIDE DEF begun
    <2> QED
      BY <2>1, <2>2, Inductive
  <1> DEFINE at == [n \in Nat |-> CHOOSE f \in [0 .. n -> S] : Begins(n, f)]
             all == [n \in Nat |-> at[n][n]]
  <1>2. \A n \in Nat : at[n] \in [0 .. n -> S] /\ Begins(n, at[n])
    <2> SUFFICES ASSUME NEW n \in Nat PROVE at[n] \in [0 .. n -> S] /\ Begins(n, at[n])
      OBVIOUS
    <2>1. \E f \in [0 .. n -> S] : Begins(n, f)
      BY <1>1
    <2> HIDE DEF Begins
    <2> QED
      BY <2>1
  <1> HIDE DEF at
  <1>3. ASSUME NEW n \in Nat PROVE at[n + 1][n] = at[n][n]
    <2> DEFINE same == {k \in Nat : k <= n => at[n + 1][k] = at[n][k]}
    <2>1. Begins(n, at[n]) /\ Begins(n + 1, at[n + 1])
      BY <1>2, n + 1 \in Nat
    <2>2. 0 \in same
      BY <2>1
    <2>3. ASSUME NEW k \in Nat, k \in same PROVE k + 1 \in same
      BY <2>1, <2>3
    <2>4. Nat \subseteq same
      <3> HIDE DEF same
      <3> QED
        BY <2>2, <2>3, Inductive
    <2> QED
      BY <2>4
  <1>4. all \in [Nat -> S]
    <2>1. \A n \in Nat : n \in 0 .. n
      OBVIOUS
    <2> HIDE DEF Begins
    <2> QED
      BY <1>2, <2>1
  <1>5. all[0] = first
    BY <1>2
  <1>6. ASSUME NEW k \in Nat PROVE all[k + 1] = step[k][all[k]]
    <2>1. all[k + 1] = at[k + 1][k + 1] /\ all[k] = at[k][k]
      OBVIOUS
    <2>2. k + 1 \in Nat /\ k < k + 1 /\ Begins(k + 1, at[k + 1])
      BY <1>2
    <2>3. at[k + 1][k + 1] = step[k][at[k + 1][k]]
      BY <2>2
    <2> HIDE DEF all
    <2> QED
      BY <1>3, <2>1, <2>3
  <1> HIDE DEF all
  <1> QED
    BY <1>4, <1>5, <1>6

\* The values of a function go by a step from each number to the next.
GoesBy(f, first, step) == f[0] = first /\ \A k \in Nat : f[k + 1] = step[k][f[k]]

\* The same, for values of any kind.
LEMMA StepsExist ==
    \A S : \A first \in S : \A step \in [Nat -> [S -> S]] :
        \E f \in [Nat -> S] : GoesBy(f, first, step)
  <1>1. \A S : \A first \in S : \A step \in [Nat -> [S -> S]] :
            \E f \in [Nat -> S] : f[0] = first /\ \A k \in Nat : f[k + 1] = step[k][f[k]]
    BY Recursion
  <1> QED
    BY <1>1 DEF GoesBy
-----------------------------------------------------------------------------
(* Powers of two *)

\* A power of two is the number of subsets of an interval.
LEMMA PowerCounts ==
    ASSUME NEW n \in Nat
    PROVE  IsFiniteSet(SUBSET (1 .. n)) /\ Cardinality(SUBSET (1 .. n)) = 2 ^ n
  <1>1. IsFiniteSet(1 .. n) /\ Cardinality(1 .. n) = n
    BY FS_Interval
  <1> QED
    BY <1>1, FS_SUBSET

\* Powers of two are positive numbers.
LEMMA PowerType ==
    ASSUME NEW n \in Nat
    PROVE  2 ^ n \in Nat /\ 2 ^ n > 0
  <1>1. 2 ^ n \in Nat
    BY PowerCounts, FS_CardinalityType
  <1>2. 2 ^ n # 0
    <2>1. {} \in SUBSET (1 .. n)
      OBVIOUS
    <2>2. SUBSET (1 .. n) # {}
      BY <2>1
    <2> QED
      BY <2>2, PowerCounts, FS_EmptySet
  <1> QED
    BY <1>1, <1>2

\* The next power is twice the last: with one more element there are twice as many subsets.
LEMMA PowerNext ==
    ASSUME NEW n \in Nat
    PROVE  2 ^ (n + 1) = 2 * 2 ^ n
  <1> DEFINE S == SUBSET (1 .. n)
             grown == {T \cup {n + 1} : T \in S}
             grow == [T \in S |-> T \cup {n + 1}]
  <1>1. grow \in Bijection(S, grown)
    <2>1. \A T \in S : n + 1 \notin T
      OBVIOUS
    <2>2. \A T, U \in S : T \cup {n + 1} = U \cup {n + 1} => T = U
      BY <2>1
    <2>3. grow \in [S -> grown]
      OBVIOUS
    <2>4. \A U \in grown : \E T \in S : grow[T] = U
      OBVIOUS
    <2>5. IsInjective(grow)
      BY <2>2 DEF IsInjective
    <2>6. grow \in Injection(S, grown)
      BY <2>3, <2>5 DEF Injection
    <2>7. grow \in Surjection(S, grown)
      BY <2>3, <2>4 DEF Surjection
    <2> QED
      BY <2>6, <2>7 DEF Bijection
  <1>2. IsFiniteSet(grown) /\ Cardinality(grown) = Cardinality(S)
    BY <1>1, PowerCounts, FS_Bijection DEF ExistsBijection
  <1>3. SUBSET (1 .. n + 1) = S \cup grown
    <2>1. 1 .. n + 1 = (1 .. n) \cup {n + 1}
      OBVIOUS
    <2>2. ASSUME NEW T \in SUBSET (1 .. n + 1), T \notin S PROVE T \in grown
      <3>1. T \ {n + 1} \in S /\ n + 1 \in T
        BY <2>1, <2>2
      <3>2. T = (T \ {n + 1}) \cup {n + 1}
        BY <3>1
      <3> QED
        BY <3>1, <3>2
    <2>3. ASSUME NEW T \in S PROVE T \in SUBSET (1 .. n + 1) /\ T \cup {n + 1} \in SUBSET (1 .. n + 1)
      BY <2>1
    <2>4. SUBSET (1 .. n + 1) \subseteq S \cup grown
      BY <2>2
    <2>5. S \subseteq SUBSET (1 .. n + 1) /\ grown \subseteq SUBSET (1 .. n + 1)
      <3>1. S \subseteq SUBSET (1 .. n + 1)
        BY <2>3
      <3>2. ASSUME NEW U \in grown PROVE U \in SUBSET (1 .. n + 1)
        <4>1. PICK T \in S : U = T \cup {n + 1}
          OBVIOUS
        <4> QED
          BY <2>3, <4>1
      <3> QED
        BY <3>1, <3>2
    <2> HIDE DEF S, grown
    <2> QED
      BY <2>4, <2>5
  <1>4. S \cap grown = {}
    OBVIOUS
  <1> HIDE DEF grown, grow
  <1>9. IsFiniteSet(S)
    BY PowerCounts
  <1>5. Cardinality(S \cup grown) = Cardinality(S) + Cardinality(grown) - Cardinality(S \cap grown)
    BY <1>2, <1>9, FS_Union
  <1>6. Cardinality(S \cap grown) = 0 /\ Cardinality(S) = 2 ^ n
    BY <1>4, PowerCounts, FS_EmptySet
  <1>7. n + 1 \in Nat
    OBVIOUS
  <1>8. Cardinality(SUBSET (1 .. n + 1)) = 2 ^ (n + 1)
    BY <1>7, PowerCounts
  <1>10. 2 ^ n \in Nat
    BY PowerType
  <1> HIDE DEF S
  <1>11. Cardinality(S \cup grown) = 2 ^ n + 2 ^ n
    BY <1>2, <1>5, <1>6, <1>10
  <1>12. 2 ^ (n + 1) = 2 ^ n + 2 ^ n
    BY <1>3, <1>8, <1>11, Zenon
  <1> QED
    BY <1>10, <1>12

\* A power of a sum is a product of powers.
LEMMA PowerSum ==
    ASSUME NEW m \in Nat, NEW n \in Nat
    PROVE  2 ^ (m + n) = 2 ^ m * 2 ^ n
  <1> DEFINE good == {k \in Nat : 2 ^ (m + k) = 2 ^ m * 2 ^ k}
  <1>1. 0 \in good
    BY PowerType
  <1>2. ASSUME NEW k \in Nat, k \in good PROVE k + 1 \in good
    <2>1. /\ 2 ^ (m + (k + 1)) = 2 * 2 ^ (m + k) /\ 2 ^ (k + 1) = 2 * 2 ^ k
          /\ 2 ^ m \in Nat /\ 2 ^ k \in Nat
      <3>1. m + k \in Nat /\ m + (k + 1) = (m + k) + 1
        OBVIOUS
      <3> QED
        BY <3>1, PowerType, PowerNext
    <2>2. 2 ^ (m + k) = 2 ^ m * 2 ^ k
      BY <1>2
    <2>3. ASSUME NEW p \in Nat, NEW q \in Nat PROVE 2 * (p * q) = p * (2 * q)
      OBVIOUS
    <2>4. 2 ^ (m + (k + 1)) = 2 ^ m * 2 ^ (k + 1)
      BY <2>1, <2>2, <2>3
    <2> QED
      BY <2>4
  <1> QED
    BY <1>1, <1>2, Inductive

\* Powers of two grow, at least by a factor of two.
LEMMA PowerMonotone ==
    ASSUME NEW m \in Nat, NEW n \in Nat, m <= n
    PROVE  2 ^ m <= 2 ^ n /\ (m < n => 2 * 2 ^ m <= 2 ^ n)
  <1>1. n - m \in Nat /\ m + (n - m) = n
    OBVIOUS
  <1>2. 2 ^ n = 2 ^ m * 2 ^ (n - m)
    BY <1>1, PowerSum
  <1>3. 2 ^ m \in Nat /\ 2 ^ (n - m) \in Nat /\ 2 ^ (n - m) > 0
    BY <1>1, PowerType
  <1>4. ASSUME NEW p \in Nat, NEW q \in Nat, q > 0 PROVE p <= p * q
    BY <1>4
  <1>5. ASSUME m < n PROVE 2 * 2 ^ m <= 2 ^ n
    <2>1. (n - m) - 1 \in Nat /\ ((n - m) - 1) + 1 = n - m
      BY <1>5
    <2>2. 2 ^ (n - m) = 2 * 2 ^ ((n - m) - 1) /\ 2 ^ ((n - m) - 1) \in Nat /\ 2 ^ ((n - m) - 1) > 0
      BY <2>1, PowerNext, PowerType
    <2>3. ASSUME NEW p \in Nat, NEW q \in Nat, q > 0 PROVE 2 * p <= p * (2 * q)
      BY <2>3
    <2> QED
      BY <1>2, <1>3, <2>2, <2>3
  <1> QED
    BY <1>2, <1>3, <1>4, <1>5
-----------------------------------------------------------------------------
(* Sequences joined one after another *)

\* The first n of some sequences, joined one after another.
AreJoined(joined, seqs, n) ==
    joined = [i \in 1 .. n |-> IF i = 1 THEN seqs[i] ELSE joined[i - 1] \o seqs[i]]

\* Where each of the sequences lies in the joined one.
ArePlaces(pos, seqs, all) ==
    /\ pos \in [0 .. Len(seqs) -> Nat]
    /\ pos[0] = 0
    /\ \A k \in 1 .. Len(seqs) : pos[k] = pos[k - 1] + Len(seqs[k])
    /\ pos[Len(seqs)] = Len(all)
    /\ \A k \in 1 .. Len(seqs) : \A j \in 1 .. Len(seqs[k]) : all[pos[k - 1] + j] = seqs[k][j]

\* Any number of sequences can be joined.
LEMMA JoinedExist ==
    ASSUME NEW seqs
    PROVE  \A n \in Nat : \E joined : AreJoined(joined, seqs, n)
<1> DEFINE S == {n \in Nat : \E joined : AreJoined(joined, seqs, n)}
<1>1. 0 \in S
  <2>1. AreJoined([i \in 1 .. 0 |-> 0], seqs, 0)
    BY DEF AreJoined
  <2> QED
    BY <2>1
<1>2. ASSUME NEW n \in Nat, n \in S PROVE n + 1 \in S
  <2>1. PICK joined : AreJoined(joined, seqs, n)
    BY <1>2
  <2> DEFINE next == IF n + 1 = 1 THEN seqs[n + 1] ELSE joined[n] \o seqs[n + 1]
             longer == [i \in 1 .. n + 1 |-> IF i = n + 1 THEN next ELSE joined[i]]
  <2>2. ASSUME NEW i \in 1 .. n + 1
        PROVE  longer[i] = IF i = 1 THEN seqs[i] ELSE longer[i - 1] \o seqs[i]
    <3>1. CASE i = n + 1 /\ i # 1
      <4>1. i - 1 \in 1 .. n + 1 /\ i - 1 # n + 1 /\ i - 1 = n
        BY <1>2, <3>1
      <4>2. longer[i - 1] = joined[n]
        BY <4>1
      <4> QED
        BY <3>1, <4>2
    <3>2. CASE i = n + 1 /\ i = 1
      BY <3>2
    <3>3. CASE i # n + 1
      <4>1. i \in 1 .. n
        BY <1>2, <3>3
      <4>2. joined[i] = IF i = 1 THEN seqs[i] ELSE joined[i - 1] \o seqs[i]
        BY <2>1, <4>1 DEF AreJoined
      <4>3. i # 1 => i - 1 \in 1 .. n + 1 /\ i - 1 # n + 1
        BY <1>2, <4>1
      <4> QED
        BY <3>3, <4>2, <4>3
    <3> QED
      BY <3>1, <3>2, <3>3
  <2>3. longer = [i \in 1 .. n + 1 |-> longer[i]]
    OBVIOUS
  <2> HIDE DEF longer
  <2>4. AreJoined(longer, seqs, n + 1)
    BY <2>2, <2>3 DEF AreJoined
  <2> QED
    BY <1>2, <2>4
<1> HIDE DEF S
<1>3. Nat \subseteq S
  BY <1>1, <1>2, Inductive
<1> QED
  BY <1>3 DEF S

\* FlattenSeq lays the sequences one after another, each whole.
LEMMA FlattenFacts ==
    ASSUME NEW T, NEW seqs \in Seq(Seq(T)), seqs # <<>>
    PROVE  /\ FlattenSeq(seqs) \in Seq(T)
           /\ \E pos : ArePlaces(pos, seqs, FlattenSeq(seqs))
<1> DEFINE n == Len(seqs)
           joined == CHOOSE f : AreJoined(f, seqs, n)
<1>1. n \in Nat /\ n >= 1 /\ \A i \in 1 .. n : seqs[i] \in Seq(T)
  BY EmptySeq
<1>2. AreJoined(joined, seqs, n)
  BY <1>1, JoinedExist
<1>3. FlattenSeq(seqs) = joined[n]
  BY <1>1 DEF FlattenSeq, AreJoined
<1> HIDE DEF joined
<1>4. \A i \in 1 .. n : joined[i] = IF i = 1 THEN seqs[i] ELSE joined[i - 1] \o seqs[i]
  BY <1>2 DEF AreJoined
<1> DEFINE length == [k \in 0 .. n |-> IF k = 0 THEN 0 ELSE Len(joined[k])]
           In(k) == /\ joined[k] \in Seq(T) /\ length[k] \in Nat /\ length[k - 1] \in Nat
                    /\ length[k] = length[k - 1] + Len(seqs[k])
                    /\ k > 1 => \A j \in 1 .. length[k - 1] : joined[k][j] = joined[k - 1][j]
                    /\ \A j \in 1 .. Len(seqs[k]) : joined[k][length[k - 1] + j] = seqs[k][j]
           S == {k \in Nat : k + 1 <= n => In(k + 1)}
<1>0. length[0] = 0 /\ \A k \in 1 .. n : length[k] = Len(joined[k])
  BY <1>1
<1> HIDE DEF length
<1>5. 0 \in S
  <2>1. joined[1] = seqs[1] /\ seqs[1] \in Seq(T)
    BY <1>1, <1>4
  <2>2. Len(joined[1]) \in Nat /\ length[1] = Len(joined[1])
    BY <1>0, <1>1, <2>1
  <2>3. \A j \in 1 .. Len(seqs[1]) : 0 + j = j
    BY <2>1
  <2>4. In(1)
    BY <1>0, <2>1, <2>2, <2>3
  <2> QED
    BY <2>4
<1>6. ASSUME NEW k \in Nat, k \in S PROVE k + 1 \in S
  <2> SUFFICES ASSUME k + 2 <= n PROVE In(k + 2)
    OBVIOUS
  <2>0. k + 1 \in 1 .. n /\ k + 2 \in 1 .. n /\ (k + 2) - 1 = k + 1 /\ k + 2 > 1
    BY <1>1
  <2>1. In(k + 1)
    <3> HIDE DEF In
    <3>1. k + 1 <= n
      BY <1>1
    <3> QED
      BY <1>6, <3>1
  <2>2. joined[k + 2] = joined[k + 1] \o seqs[k + 2] /\ seqs[k + 2] \in Seq(T)
    <3>1. joined[k + 2] = IF k + 2 = 1 THEN seqs[k + 2] ELSE joined[(k + 2) - 1] \o seqs[k + 2]
      BY <1>4, <2>0
    <3>2. k + 2 # 1 /\ (k + 2) - 1 = k + 1
      OBVIOUS
    <3>3. joined[k + 2] = joined[k + 1] \o seqs[k + 2]
      BY <3>1, <3>2, Zenon
    <3>4. seqs[k + 2] \in Seq(T)
      BY <1>1, <2>0
    <3> QED
      BY <3>3, <3>4
  <2> DEFINE a == joined[k + 1]  b == seqs[k + 2]
  <2>3. a \in Seq(T) /\ b \in Seq(T) /\ Len(a) \in Nat /\ Len(b) \in Nat
    BY SMTT(60), <2>1, <2>2
  <2>9. joined[k + 2] = a \o b /\ joined[(k + 2) - 1] = a /\ seqs[k + 2] = b
    BY <2>0, <2>2
  <2>5. length[k + 2] = Len(a \o b) /\ length[(k + 2) - 1] = Len(a)
    BY <1>0, <2>0, <2>2
  <2> HIDE DEF a, b
  <2>4. /\ a \o b \in Seq(T) /\ Len(a \o b) = Len(a) + Len(b)
        /\ \A i \in 1 .. Len(a) + Len(b) : (a \o b)[i] = IF i <= Len(a) THEN a[i] ELSE b[i - Len(a)]
    BY <2>3, ConcatProperties
  <2>6. \A j \in 1 .. Len(a) : (a \o b)[j] = a[j]
    BY <2>3, <2>4
  <2>7. \A j \in 1 .. Len(b) : (a \o b)[Len(a) + j] = b[j]
    <3> TAKE j \in 1 .. Len(b)
    <3>1. /\ Len(a) + j \in 1 .. Len(a) + Len(b) /\ ~(Len(a) + j <= Len(a))
          /\ (Len(a) + j) - Len(a) = j
      BY <2>3
    <3> QED
      BY <2>4, <3>1
  <2> QED
    BY <2>3, <2>4, <2>5, <2>6, <2>7, <2>9
<1> HIDE DEF S
<1>7. Nat \subseteq S
  BY <1>5, <1>6, Inductive
<1>8. \A k \in 1 .. n : In(k)
  <2> TAKE k \in 1 .. n
  <2>1. k - 1 \in S /\ (k - 1) + 1 = k
    BY <1>1, <1>7
  <2> QED
    BY <1>1, <2>1 DEF S
<1> HIDE DEF In
<1> DEFINE all == joined[n]
           R == {d \in Nat : d < n => \A j \in 1 .. length[n - d] : all[j] = joined[n - d][j]}
<1>9. 0 \in R
  BY <1>1
<1>10. ASSUME NEW d \in Nat, d \in R PROVE d + 1 \in R
  <2> SUFFICES ASSUME d + 1 < n, NEW j \in 1 .. length[n - (d + 1)]
               PROVE  all[j] = joined[n - (d + 1)][j]
    OBVIOUS
  <2>1. n - d \in 1 .. n /\ n - d > 1 /\ (n - d) - 1 = n - (d + 1)
    BY <1>1
  <2>2. In(n - d)
    BY <1>8, <2>1 DEF In
  <2>3. length[n - (d + 1)] \in Nat /\ length[n - d] \in Nat /\ length[n - (d + 1)] <= length[n - d]
    <3>1. seqs[n - d] \in Seq(T)
      BY <1>1, <2>1
    <3>2. Len(seqs[n - d]) \in Nat
      BY <3>1
    <3> QED
      BY SMTT(60), <2>1, <2>2, <3>2 DEF In
  <2>4. j \in 1 .. length[n - d]
    BY <2>3
  <2>5. all[j] = joined[n - d][j]
    BY <1>10, <2>4
  <2>6. joined[n - d][j] = joined[n - (d + 1)][j]
    BY <2>1, <2>2 DEF In
  <2> QED
    BY <2>5, <2>6
<1> HIDE DEF R
<1>11. Nat \subseteq R
  BY <1>9, <1>10, Inductive
<1>12. \A k \in 1 .. n : \A j \in 1 .. length[k] : all[j] = joined[k][j]
  <2> TAKE k \in 1 .. n
  <2>1. n - k \in R /\ n - (n - k) = k /\ n - k < n
    BY <1>1, <1>11
  <2> QED
    BY <2>1 DEF R
<1> DEFINE pos == length
<1>13. length[0] = 0 /\ length[n] = Len(all)
  BY <1>0, <1>1
<1>15. \A k \in 0 .. n : length[k] \in Nat
  BY <1>1, <1>8, <1>13 DEF In
<1>16. ASSUME NEW k \in 1 .. n, NEW j \in 1 .. Len(seqs[k])
       PROVE  all[pos[k - 1] + j] = seqs[k][j]
  <2>1. In(k)
    BY <1>8
  <2>2. seqs[k] \in Seq(T)
    BY <1>1
  <2>3. Len(seqs[k]) \in Nat
    BY <2>2
  <2>4. length[k - 1] + j \in 1 .. length[k]
    BY <2>1, <2>3 DEF In
  <2>5. all[length[k - 1] + j] = joined[k][length[k - 1] + j]
    BY <1>12, <2>4
  <2> QED
    BY <2>1, <2>5 DEF In
<1>17. ArePlaces(pos, seqs, all)
  <2>1. pos \in [0 .. n -> Nat] /\ pos[0] = 0 /\ pos[n] = Len(all)
    BY <1>1, <1>13, <1>15 DEF length
  <2>2. \A k \in 1 .. n : pos[k] = pos[k - 1] + Len(seqs[k])
    BY <1>8 DEF In
  <2> HIDE DEF pos, all
  <2> QED
    BY <1>16, <2>1, <2>2 DEF ArePlaces
<1>18. all \in Seq(T)
  BY <1>1, <1>8 DEF In
<1> QED
  BY <1>3, <1>17, <1>18

\* Places of later sequences come after those of earlier ones.
LEMMA PlacesGrow ==
    ASSUME NEW T, NEW seqs \in Seq(Seq(T)), NEW all, NEW pos, ArePlaces(pos, seqs, all)
    PROVE  /\ \A i, k \in 0 .. Len(seqs) : i <= k => pos[i] <= pos[k]
           /\ (\A k \in 1 .. Len(seqs) : seqs[k] # <<>>)
                => \A i, k \in 0 .. Len(seqs) : i < k => pos[i] < pos[k]
<1> DEFINE n == Len(seqs)
           S == {d \in Nat : \A i \in 0 .. n : i + d <= n => pos[i] <= pos[i + d]}
<1>1. n \in Nat /\ \A k \in 1 .. n : seqs[k] \in Seq(T) /\ Len(seqs[k]) \in Nat
  OBVIOUS
<1>2. /\ \A k \in 0 .. n : pos[k] \in Nat
      /\ \A k \in 1 .. n : pos[k] = pos[k - 1] + Len(seqs[k])
  BY DEF ArePlaces
<1> HIDE DEF n
<1>3. \A k \in 0 .. n : k + 1 <= n => pos[k + 1] = pos[k] + Len(seqs[k + 1]) /\ Len(seqs[k + 1]) \in Nat
  <2> SUFFICES ASSUME NEW k \in 0 .. n, k + 1 <= n
               PROVE  pos[k + 1] = pos[k] + Len(seqs[k + 1]) /\ Len(seqs[k + 1]) \in Nat
    OBVIOUS
  <2>1. k + 1 \in 1 .. n /\ (k + 1) - 1 = k
    BY <1>1
  <2>2. pos[k + 1] = pos[(k + 1) - 1] + Len(seqs[k + 1])
    BY <1>2, <2>1
  <2> QED
    BY <1>1, <2>1, <2>2
<1>4. 0 \in S
  BY <1>1, <1>2
<1>5. ASSUME NEW d \in Nat, d \in S PROVE d + 1 \in S
  <2> SUFFICES ASSUME NEW i \in 0 .. n, i + (d + 1) <= n PROVE pos[i] <= pos[i + (d + 1)]
    OBVIOUS
  <2>1. i + d \in 0 .. n /\ (i + d) + 1 = i + (d + 1)
    BY <1>1
  <2>2. pos[i] <= pos[i + d]
    BY <1>1, <1>5, <2>1
  <2>3. pos[(i + d) + 1] = pos[i + d] + Len(seqs[(i + d) + 1]) /\ Len(seqs[(i + d) + 1]) \in Nat
    BY <1>3, <2>1
  <2>4. pos[i] \in Nat /\ pos[i + d] \in Nat
    BY <1>2, <2>1
  <2> QED
    BY <2>1, <2>2, <2>3, <2>4
<1> HIDE DEF S
<1>6. Nat \subseteq S
  BY <1>4, <1>5, Inductive
<1>7. \A i, k \in 0 .. n : i <= k => pos[i] <= pos[k]
  <2> SUFFICES ASSUME NEW i \in 0 .. n, NEW k \in 0 .. n, i <= k PROVE pos[i] <= pos[k]
    OBVIOUS
  <2>1. k - i \in Nat /\ i + (k - i) = k /\ k <= n
    BY <1>1
  <2>2. k - i \in S
    BY <1>6, <2>1
  <2> QED
    BY <2>1, <2>2 DEF S
<1>8. ASSUME \A k \in 1 .. n : seqs[k] # <<>>, NEW i \in 0 .. n, NEW k \in 0 .. n, i < k
      PROVE  pos[i] < pos[k]
  <2>1. i + 1 \in 0 .. n /\ i + 1 <= k /\ i + 1 \in 1 .. n
    BY <1>1, <1>8
  <2>2. Len(seqs[i + 1]) >= 1
    <3>1. seqs[i + 1] # <<>> /\ seqs[i + 1] \in Seq(T)
      BY <1>1, <1>8, <2>1
    <3> QED
      BY <3>1, EmptySeq
  <2>3. pos[i + 1] = pos[i] + Len(seqs[i + 1]) /\ Len(seqs[i + 1]) \in Nat
    BY <1>3, <2>1
  <2>4. pos[i + 1] <= pos[k] /\ pos[i] \in Nat /\ pos[k] \in Nat /\ pos[i + 1] \in Nat
    BY <1>2, <1>7, <2>1
  <2> QED
    BY <2>2, <2>3, <2>4
<1> QED
  BY <1>7, <1>8 DEF n

\* Every element of the joined sequence is one of the sequences'.
LEMMA PlaceInBlock ==
    ASSUME NEW T, NEW seqs \in Seq(Seq(T)), NEW all \in Seq(T), NEW pos, ArePlaces(pos, seqs, all),
           NEW i \in DOMAIN all
    PROVE  \E k \in 1 .. Len(seqs) : \E j \in 1 .. Len(seqs[k]) :
              i = pos[k - 1] + j /\ all[i] = seqs[k][j]
<1> DEFINE n == Len(seqs)
           reach == {k \in 0 .. n : i <= pos[k]}
<1>1. n \in Nat /\ i \in Nat /\ i >= 1 /\ i <= Len(all) /\ Len(all) \in Nat
  OBVIOUS
<1>2. /\ \A k \in 0 .. n : pos[k] \in Nat
      /\ pos[0] = 0 /\ pos[n] = Len(all)
      /\ \A k \in 1 .. n : pos[k] = pos[k - 1] + Len(seqs[k])
      /\ \A k \in 1 .. n : \A j \in 1 .. Len(seqs[k]) : all[pos[k - 1] + j] = seqs[k][j]
  BY DEF ArePlaces
<1>3. \A k \in 1 .. n : Len(seqs[k]) \in Nat
  OBVIOUS
<1> HIDE DEF n
<1>4. PICK k \in reach : \A m \in reach : k <= m
  <2>1. reach \subseteq Nat /\ n \in reach
    BY <1>1, <1>2
  <2> HIDE DEF reach
  <2> QED
    BY <2>1, LeastElement
<1>5. k \in 1 .. n
  BY <1>1, <1>2, <1>4
<1>6. pos[k - 1] < i /\ k - 1 \in 0 .. n
  <2>1. k - 1 \in 0 .. n
    BY <1>1, <1>5
  <2>2. k - 1 \notin reach
    BY <1>4, <1>5
  <2> QED
    BY <1>1, <1>2, <2>1, <2>2
<1> DEFINE j == i - pos[k - 1]
<1>7. j \in 1 .. Len(seqs[k]) /\ i = pos[k - 1] + j
  <2>1. pos[k] = pos[k - 1] + Len(seqs[k]) /\ pos[k - 1] \in Nat /\ Len(seqs[k]) \in Nat
    BY <1>2, <1>3, <1>5, <1>6
  <2>2. i <= pos[k]
    BY <1>4
  <2> QED
    BY <1>1, <1>6, <2>1, <2>2
<1> QED
  BY <1>2, <1>5, <1>7 DEF n
-----------------------------------------------------------------------------
(* Sets listed in some order *)

\* SetToSeq lists every element of a finite set once.
LEMMA SetListed ==
    ASSUME NEW S, IsFiniteSet(S)
    PROVE  /\ SetToSeq(S) \in Seq(S) /\ Len(SetToSeq(S)) = Cardinality(S)
           /\ \A i, k \in DOMAIN SetToSeq(S) : SetToSeq(S)[i] = SetToSeq(S)[k] => i = k
           /\ \A x \in S : \E i \in DOMAIN SetToSeq(S) : SetToSeq(S)[i] = x
<1> DEFINE n == Cardinality(S)
           listed == SetToSeq(S)
<1>1. n \in Nat /\ ExistsBijection(1 .. n, S)
  BY FS_CardinalityType
<1>2. PICK b \in Bijection(1 .. n, S) : TRUE
  BY <1>1 DEF ExistsBijection
<1>3. b \in [1 .. n -> S] /\ IsInjective(b)
  BY <1>2 DEF Bijection, Injection, IsInjective
<1>4. listed \in [1 .. n -> S] /\ IsInjective(listed)
  BY <1>3 DEF SetToSeq
<1> HIDE DEF listed
<1>5. listed \in Injection(1 .. n, S)
  BY <1>4 DEF Injection, IsInjective
<1>6. Cardinality(1 .. n) = n
  <2>1. 1 \in Int /\ n \in Int
    BY <1>1
  <2>2. Cardinality(1 .. n) = IF 1 > n THEN 0 ELSE n - 1 + 1
    BY <2>1, FS_Interval
  <2> QED
    BY <1>1, <2>2
<1>7. listed \in Surjection(1 .. n, S)
  BY <1>5, <1>6, FS_Injection
<1>8. listed \in Seq(S) /\ Len(listed) = n /\ DOMAIN listed = 1 .. n
  BY <1>1, <1>4
<1>9. \A i, k \in DOMAIN listed : listed[i] = listed[k] => i = k
  BY <1>4 DEF IsInjective
<1>10. \A x \in S : \E i \in DOMAIN listed : listed[i] = x
  BY <1>7, <1>8 DEF Surjection
<1> QED
  BY <1>8, <1>9, <1>10 DEF listed

\* A sequence is one of the elements in it.
LEMMA SequenceOfItsOwn ==
    ASSUME NEW T, NEW s \in Seq(T)
    PROVE  s \in Seq(Range(s))
<1>1. \A i \in 1 .. Len(s) : s[i] \in Range(s)
  BY DEF Range
<1> QED
  BY <1>1

\* InsertAt puts an element behind the first n and moves the others by one.
LEMMA InsertedAfter ==
    ASSUME NEW T, NEW s \in Seq(T), NEW e \in T, NEW n \in 0 .. Len(s)
    PROVE  /\ InsertAt(s, n + 1, e) \in Seq(T) /\ Len(InsertAt(s, n + 1, e)) = Len(s) + 1
           /\ \A i \in 1 .. Len(s) + 1 :
                InsertAt(s, n + 1, e)[i] =
                    IF i <= n THEN s[i] ELSE IF i = n + 1 THEN e ELSE s[i - 1]
<1> DEFINE a == SubSeq(s, 1, n)
           c == SubSeq(s, n + 1, Len(s))
           b == <<e>>
           t == InsertAt(s, n + 1, e)
<1>1. Len(s) \in Nat /\ n \in Nat /\ n <= Len(s) /\ (n + 1) - 1 = n
  OBVIOUS
<1>2. t = (a \o b) \o c
  <2>1. t = SubSeq(s, 1, (n + 1) - 1) \o <<e>> \o SubSeq(s, n + 1, Len(s))
    BY DEF InsertAt
  <2> QED
    BY <1>1, <2>1
<1>3. a \in Seq(T) /\ Len(a) = n /\ \A i \in 1 .. n : a[i] = s[i]
  BY <1>1
<1>4. c \in Seq(T) /\ Len(c) = Len(s) - n /\ \A i \in 1 .. Len(s) - n : c[i] = s[n + i]
  BY <1>1
<1>5. b \in Seq(T) /\ Len(b) = 1 /\ b[1] = e
  OBVIOUS
<1> HIDE DEF a, b, c, t
<1>6. PICK p \in Seq(T), q \in Seq(T), r \in Seq(T) : p = a /\ q = b /\ r = c
  BY <1>3, <1>4, <1>5
<1>7. PICK pq \in Seq(T) : pq = p \o q
  BY <1>6, ConcatProperties
<1>8. Len(pq) = n + 1 /\ \A i \in 1 .. n + 1 : pq[i] = IF i <= n THEN s[i] ELSE e
  <2>1. Len(p) = n /\ Len(q) = 1 /\ q[1] = e /\ \A i \in 1 .. n : p[i] = s[i]
    BY <1>3, <1>5, <1>6
  <2>2. /\ Len(pq) = Len(p) + Len(q)
        /\ \A i \in 1 .. Len(p) + Len(q) : pq[i] = IF i <= Len(p) THEN p[i] ELSE q[i - Len(p)]
    BY <1>7
  <2> QED
    BY <1>1, <2>1, <2>2
<1>9. /\ t \in Seq(T) /\ Len(t) = Len(s) + 1
      /\ \A i \in 1 .. Len(s) + 1 : t[i] = IF i <= n + 1 THEN pq[i] ELSE c[i - (n + 1)]
  <2>1. t = pq \o r
    BY <1>2, <1>6, <1>7
  <2>2. Len(r) = Len(s) - n /\ r = c
    BY <1>4, <1>6
  <2>3. /\ t \in Seq(T) /\ Len(t) = Len(pq) + Len(r)
        /\ \A i \in 1 .. Len(pq) + Len(r) : t[i] = IF i <= Len(pq) THEN pq[i] ELSE r[i - Len(pq)]
    BY <1>6, <1>7, <2>1
  <2> QED
    BY SMTT(60), <1>1, <1>8, <2>2, <2>3
<1>10. ASSUME NEW i \in 1 .. Len(s) + 1
       PROVE  t[i] = IF i <= n THEN s[i] ELSE IF i = n + 1 THEN e ELSE s[i - 1]
  <2>1. CASE i <= n + 1
    BY <1>1, <1>8, <1>9, <2>1
  <2>2. CASE i > n + 1
    <3>1. i - (n + 1) \in 1 .. Len(s) - n /\ n + (i - (n + 1)) = i - 1
      BY <1>1, <2>2
    <3>2. c[i - (n + 1)] = s[i - 1]
      BY <1>4, <3>1
    <3> QED
      BY <1>1, <1>9, <2>2, <3>2
  <2> QED
    BY <1>1, <2>1, <2>2
<1> QED
  BY <1>9, <1>10 DEF t
=============================================================================
