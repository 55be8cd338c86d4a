------------------------ MODULE BracketBackendProofs ------------------------
(***************************************************************************)
(* The arithmetic of a bracket for a field of any size: what powers of two *)
(* are, how many rounds a field has, and what it is padded to.             *)
(***************************************************************************)
EXTENDS BracketBackend, FiniteSetTheorems, WellFoundedInduction, TLAPS

Before == {pair \in Nat \X Nat : pair[1] < pair[2]}

\* A set of numbers has a least one: every proof by induction on a number is
\* the search for the least number that is an exception.
LEMMA LeastOf ==
  ASSUME NEW T \in SUBSET Nat, T # {}
  PROVE  \E least \in T : \A i \in T : least <= i
<1>1. IsWellFoundedOn(Before, Nat)
  BY NatLessThanWellFounded DEF OpToRel, Before
<1>2. PICK least \in T : \A i \in T : ~(<<i, least>> \in Before)
  BY <1>1, WFMin
<1>3. ASSUME NEW i \in T
      PROVE  least <= i
  <2>1. i \in Nat /\ least \in Nat /\ ~(<<i, least>> \in Before)
    BY <1>2
  <2>2. ~(i < least)
    BY <2>1 DEF Before
  <2> QED
    BY <2>1, <2>2
<1> QED
  BY <1>3
-----------------------------------------------------------------------------
(* Powers of two.                                                            *)

\* A set of k elements has 2^k subsets, so powers of two are numbers.
LEMMA PowersType ==
  ASSUME NEW k \in Nat
  PROVE  2^k \in Nat /\ 2^k >= 1
<1>1. IsFiniteSet(SUBSET (1..k)) /\ Cardinality(SUBSET (1..k)) = 2^k
  <2>1. IsFiniteSet(1..k) /\ Cardinality(1..k) = k
    BY FS_Interval
  <2> QED
    BY <2>1, FS_SUBSET
<1>2. SUBSET (1..k) # {}
  OBVIOUS
<1>3. 2^k \in Nat /\ 2^k # 0
  BY <1>1, <1>2, FS_CardinalityType, FS_EmptySet
<1> QED
  BY <1>3

\* Subsets with and without the last element are as many.
LEMMA Doubling ==
  ASSUME NEW k \in Nat
  PROVE  2^0 = 1 /\ 2^(k + 1) = 2 * 2^k
<1> DEFINE with == {X \in SUBSET (1..(k + 1)) : k + 1 \in X}
           without == SUBSET (1..k)
           put == [X \in without |-> X \cup {k + 1}]
<1>1. IsFiniteSet(without) /\ Cardinality(without) = 2^k /\ Cardinality(without) \in Nat
  <2>1. IsFiniteSet(1..k) /\ Cardinality(1..k) = k
    BY FS_Interval
  <2> QED
    BY <2>1, FS_SUBSET, PowersType
<1>2. IsFiniteSet(with) /\ Cardinality(with) = Cardinality(without)
  <2>1. put \in [without -> with]
    OBVIOUS
  <2>2. \A X, Y \in without : put[X] = put[Y] => X = Y
    <3> SUFFICES ASSUME NEW X \in without, NEW Y \in without, put[X] = put[Y]
                 PROVE  X = Y
      OBVIOUS
    <3>1. k + 1 \notin X /\ k + 1 \notin Y /\ X \cup {k + 1} = Y \cup {k + 1}
      OBVIOUS
    <3> QED
      BY <3>1
  <2>3. \A Z \in with : \E X \in without : put[X] = Z
    <3> SUFFICES ASSUME NEW Z \in with
                 PROVE  \E X \in without : put[X] = Z
      OBVIOUS
    <3>1. Z \ {k + 1} \in without
      OBVIOUS
    <3>2. (Z \ {k + 1}) \cup {k + 1} = Z
      OBVIOUS
    <3> QED
      BY <3>1, <3>2
  <2> HIDE DEF with, without, put
  <2>4. put \in Bijection(without, with)
    BY <2>1, <2>2, <2>3 DEF Bijection, Injection, Surjection, IsInjective
  <2>5. ExistsBijection(without, with)
    BY <2>4 DEF ExistsBijection
  <2> QED
    BY <1>1, <2>5, FS_Bijection
<1>3. SUBSET (1..(k + 1)) = with \cup without /\ with \cap without = {}
  OBVIOUS
<1>4. Cardinality(SUBSET (1..(k + 1))) = 2^(k + 1)
  <2>1. IsFiniteSet(1..(k + 1)) /\ Cardinality(1..(k + 1)) = k + 1
    BY FS_Interval
  <2> QED
    BY <2>1, FS_SUBSET
<1>5. 2^0 = 1
  <2>1. Cardinality(SUBSET {}) = 2^0
    BY FS_EmptySet, FS_SUBSET
  <2>2. SUBSET {} = {{}}
    OBVIOUS
  <2> QED
    BY <2>1, <2>2, FS_Singleton
<1> HIDE DEF with, without
<1>6. Cardinality(with \cup without)
        = Cardinality(with) + Cardinality(without) - Cardinality(with \cap without)
  BY <1>1, <1>2, FS_Union
<1>7. Cardinality(with \cap without) = 0
  BY <1>3, FS_EmptySet
<1>8. Cardinality(with \cup without) = 2^(k + 1)
  BY <1>3, <1>4, Zenon
<1> QED
  BY <1>1, <1>2, <1>5, <1>6, <1>7, <1>8

\* Powers grow, and so they are different.
LEMMA PowersGrow ==
  ASSUME NEW j \in Nat, NEW k \in Nat, j < k
  PROVE  2^j < 2^k
<1> DEFINE exceptions == {i \in Nat : ~(2^j < 2^(j + 1 + i))}
<1>1. ASSUME exceptions # {}
      PROVE  FALSE
  <2>1. PICK least \in exceptions : \A i \in exceptions : least <= i
    BY <1>1, LeastOf
  <2>2. CASE least = 0
    <3>1. j + 1 + least = j + 1
      BY <2>2
    <3>2. 2^(j + 1) = 2 * 2^j /\ 2^j \in Nat /\ 2^j >= 1
      BY Doubling, PowersType
    <3> QED
      BY <2>1, <3>1, <3>2
  <2>3. CASE least # 0
    <3>1. least - 1 \in Nat /\ ~(least <= least - 1)
      BY <2>3
    <3>2. 2^j < 2^(j + 1 + (least - 1))
      BY <2>1, <3>1
    <3>3. j + 1 + least = (j + least) + 1 /\ j + 1 + (least - 1) = j + least /\ j + least \in Nat
      OBVIOUS
    <3>4. 2^(j + 1 + least) = 2 * 2^(j + least) /\ 2^(j + least) \in Nat /\ 2^j \in Nat
      BY <3>3, Doubling, PowersType
    <3> QED
      BY <2>1, <3>2, <3>3, <3>4
  <2> QED
    BY <2>2, <2>3
<1>2. k - j - 1 \in Nat /\ j + 1 + (k - j - 1) = k
  OBVIOUS
<1> QED
  BY <1>1, <1>2

\* Every number from 1 on lies between two powers of two.
LEMMA BetweenPowers ==
  ASSUME NEW g \in Nat, g >= 1
  PROVE  \E k \in Nat : 2^k <= g /\ g < 2^(k + 1)
<1> DEFINE above == {k \in Nat : g < 2^(k + 1)}
<1>1. above # {}
  <2> DEFINE exceptions == {k \in Nat : ~(k < 2^k)}
  <2>1. ASSUME exceptions # {}
        PROVE  FALSE
    <3>1. PICK least \in exceptions : \A i \in exceptions : least <= i
      BY <2>1, LeastOf
    <3>2. least # 0
      BY <3>1, PowersType
    <3>3. least - 1 \in Nat /\ (least - 1) + 1 = least /\ least - 1 < 2^(least - 1)
      BY <3>1, <3>2
    <3>4. 2^least = 2 * 2^(least - 1) /\ 2^(least - 1) \in Nat
      BY <3>3, Doubling, PowersType
    <3> QED
      BY <3>1, <3>3, <3>4
  <2>2. g < 2^g
    BY <2>1
  <2>3. 2^(g + 1) = 2 * 2^g /\ 2^g \in Nat
    BY Doubling, PowersType
  <2>4. g < 2^(g + 1)
    BY <2>2, <2>3
  <2> QED
    BY <2>4
<1>2. PICK k \in above : \A i \in above : k <= i
  BY <1>1, LeastOf
<1>3. CASE k = 0
  BY <1>2, <1>3, Doubling
<1>4. CASE k # 0
  <2>1. k - 1 \in Nat /\ (k - 1) + 1 = k /\ k - 1 \notin above
    BY <1>2, <1>4
  <2> QED
    BY <1>2, <2>1, PowersType
<1> QED
  BY <1>3, <1>4

\* What a number divides.
LEMMA MultipleOf ==
  ASSUME NEW d \in Nat, d >= 1, NEW q \in Nat
  PROVE  (d * q) % d = 0 /\ (q >= 1 => d <= d * q)
<1>1. (d * q) % d = 0
  OBVIOUS
<1>2. ASSUME q >= 1
      PROVE  d <= d * q
  <2>1. d * q = d + d * (q - 1) /\ q - 1 \in Nat
    BY <1>2
  <2>2. d * (q - 1) >= 0
    BY <2>1
  <2> QED
    BY <2>1, <2>2
<1> QED
  BY <1>1, <1>2

\* Half of an even number has no odd factor that the number has not.
LEMMA HalfOf ==
  ASSUME NEW h \in Nat, h >= 1
  PROVE  IsPowerOfTwo(2 * h) <=> IsPowerOfTwo(h)
<1>1. ASSUME IsPowerOfTwo(2 * h)
      PROVE  IsPowerOfTwo(h)
  <2> SUFFICES ASSUME NEW d \in 2..h, h % d = 0
               PROVE  d % 2 = 0
    BY DEF IsPowerOfTwo
  <2>1. h = d * (h \div d) /\ h \div d \in Nat
    OBVIOUS
  <2>2. 2 * h = d * (2 * (h \div d)) /\ 2 * (h \div d) \in Nat
    BY <2>1
  <2>3. (2 * h) % d = 0
    <3> DEFINE q == 2 * (h \div d)
    <3>1. 2 * h = d * q /\ q \in Nat /\ d \in Nat /\ d >= 1
      BY <2>2
    <3> HIDE DEF q
    <3>2. (d * q) % d = 0
      BY <3>1, MultipleOf
    <3> QED
      BY <3>1, <3>2
  <2>4. d \in 2..2 * h
    OBVIOUS
  <2> QED
    BY <1>1, <2>3, <2>4 DEF IsPowerOfTwo
<1>2. ASSUME IsPowerOfTwo(h)
      PROVE  IsPowerOfTwo(2 * h)
  <2> SUFFICES ASSUME NEW d \in 2..2 * h, (2 * h) % d = 0, d % 2 # 0
               PROVE  FALSE
    BY DEF IsPowerOfTwo
  <2> DEFINE q == (2 * h) \div d
             a == d \div 2
             p == q \div 2
  <2>1. 2 * h = d * q /\ q \in Nat
    OBVIOUS
  <2>2. d = 2 * a + 1 /\ a \in Nat
    OBVIOUS
  <2> HIDE DEF q, a
  <2>3. q = 2 * (h - a * q)
    BY <2>1, <2>2
  <2>4. a * q \in Nat
    BY <2>1, <2>2
  <2>5. q = 2 * p /\ p \in Nat
    BY <2>1, <2>3, <2>4
  <2> HIDE DEF p
  <2>6. h = d * p
    BY <2>1, <2>5
  <2>7. h % d = 0 /\ d <= h
    <3>1. p # 0
      BY <2>6
    <3>2. p \in Nat /\ p >= 1 /\ d \in Nat /\ d >= 1
      BY <2>5, <3>1
    <3>3. (d * p) % d = 0 /\ d <= d * p
      BY <3>2, MultipleOf
    <3> QED
      BY <2>6, <3>3
  <2> QED
    BY <1>2, <2>7 DEF IsPowerOfTwo
<1> QED
  BY <1>1, <1>2

\* The numbers without an odd factor are the powers of two.
LEMMA PowersOfTwo ==
  ASSUME NEW m \in Nat
  PROVE  IsPowerOfTwo(m) <=> \E k \in Nat : m = 2^k
<1> DEFINE exceptions == {i \in Nat : ~(IsPowerOfTwo(i) <=> \E k \in Nat : i = 2^k)}
<1>1. ASSUME exceptions # {}
      PROVE  FALSE
  <2>1. PICK least \in exceptions : \A i \in exceptions : least <= i
    BY <1>1, LeastOf
  <2>2. least # 0
    BY <2>1, PowersType DEF IsPowerOfTwo
  <2>3. least # 1
    <3>1. IsPowerOfTwo(1)
      BY DEF IsPowerOfTwo
    <3>2. 0 \in Nat /\ 1 = 2^0
      BY Doubling
    <3> QED
      BY <2>1, <3>1, <3>2
  <2>4. CASE least % 2 = 1
    <3>1. ~IsPowerOfTwo(least)
      BY <2>2, <2>3, <2>4 DEF IsPowerOfTwo
    <3>2. ASSUME NEW k \in Nat, least = 2^k
          PROVE  FALSE
      <4>1. k # 0
        BY <2>3, <3>2, Doubling
      <4>2. k - 1 \in Nat /\ (k - 1) + 1 = k
        BY <4>1
      <4>3. least = 2 * 2^(k - 1) /\ 2^(k - 1) \in Nat
        BY <3>2, <4>2, Doubling, PowersType
      <4> QED
        BY <2>4, <4>3
    <3> QED
      BY <2>1, <3>1, <3>2
  <2>5. CASE least % 2 = 0
    <3> DEFINE h == least \div 2
    <3>1. h \in Nat /\ h >= 1 /\ h < least /\ least = 2 * h
      BY <2>2, <2>5
    <3> HIDE DEF h
    <3>2. IsPowerOfTwo(least) <=> IsPowerOfTwo(h)
      BY <3>1, HalfOf
    <3>3. IsPowerOfTwo(h) <=> \E k \in Nat : h = 2^k
      BY <2>1, <3>1
    <3>4. (\E k \in Nat : h = 2^k) <=> \E k \in Nat : least = 2^k
      <4>1. ASSUME NEW k \in Nat, h = 2^k
            PROVE  k + 1 \in Nat /\ least = 2^(k + 1)
        BY <3>1, <4>1, Doubling
      <4>2. ASSUME NEW k \in Nat, least = 2^k
            PROVE  k - 1 \in Nat /\ h = 2^(k - 1)
        <5>1. k # 0
          BY <2>3, <4>2, Doubling
        <5>2. k - 1 \in Nat /\ (k - 1) + 1 = k
          BY <5>1
        <5>3. least = 2 * 2^(k - 1) /\ 2^(k - 1) \in Nat
          BY <4>2, <5>2, Doubling, PowersType
        <5> QED
          BY <3>1, <5>2, <5>3
      <4> QED
        BY <4>1, <4>2
    <3> QED
      BY <2>1, <3>2, <3>3, <3>4
  <2> QED
    BY <2>1, <2>4, <2>5
<1> QED
  BY <1>1

\* A larger exponent never makes a smaller power.
LEMMA PowersKeepOrder ==
  ASSUME NEW j \in Nat, NEW k \in Nat, j <= k
  PROVE  2^j <= 2^k
<1>1. CASE j = k
  BY <1>1, PowersType
<1>2. CASE j < k
  BY <1>2, PowersGrow, PowersType
<1> QED
  BY <1>1, <1>2

\* Exponents add up.
LEMMA ProductOfPowers ==
  ASSUME NEW a \in Nat, NEW b \in Nat
  PROVE  2^a * 2^b = 2^(a + b)
<1> DEFINE exceptions == {i \in Nat : 2^a * 2^i # 2^(a + i)}
<1>1. ASSUME exceptions # {}
      PROVE  FALSE
  <2>1. PICK least \in exceptions : \A i \in exceptions : least <= i
    BY <1>1, LeastOf
  <2>2. least # 0
    <3>1. 2^0 = 1 /\ 2^a \in Nat /\ a + 0 = a
      BY Doubling, PowersType
    <3>2. 2^a * 2^0 = 2^(a + 0)
      BY <3>1
    <3> QED
      BY <2>1, <3>2
  <2> DEFINE i == least - 1
  <2>3. i \in Nat /\ i + 1 = least /\ (a + i) + 1 = a + least /\ a + i \in Nat
    BY <2>1, <2>2
  <2>4. 2^a * 2^i = 2^(a + i)
    BY <2>1, <2>3
  <2>5. 2^least = 2 * 2^i /\ 2^(a + least) = 2 * 2^(a + i)
    BY <2>3, Doubling
  <2>6. 2^a \in Nat /\ 2^i \in Nat /\ 2^(a + i) \in Nat
    BY <2>3, PowersType
  <2> QED
    BY <2>1, <2>4, <2>5, <2>6
<1> QED
  BY <1>1
-----------------------------------------------------------------------------
(* Rounds and the size of the field.                                         *)

\* Rounds are counted.
LEMMA RoundsType ==
  ASSUME NEW g \in Nat
  PROVE  GenerateRounds(g) \in Nat
<1> DEFINE powers == {m \in 2..g : IsPowerOfTwo(m)}
<1>1. IsFiniteSet(2..g) /\ powers \in SUBSET (2..g)
  BY FS_Interval
<1> HIDE DEF powers
<1>2. Cardinality(powers) \in Nat
  BY <1>1, FS_Subset, FS_CardinalityType
<1> QED
  BY <1>2 DEF GenerateRounds, powers

\* A field of at least 2^k and fewer than 2^(k + 1) groups has k rounds.
LEMMA RoundsOf ==
  ASSUME NEW k \in Nat, NEW g \in Nat, 2^k <= g, g < 2^(k + 1)
  PROVE  GenerateRounds(g) = k
<1> DEFINE powers == {m \in 2..g : IsPowerOfTwo(m)}
           power == [i \in 1..k |-> 2^i]
<1>1. power \in [1..k -> powers]
  <2> SUFFICES ASSUME NEW i \in 1..k
               PROVE  2^i \in powers
    OBVIOUS
  <2>1. i \in Nat /\ 1 \in Nat /\ 0 \in Nat /\ 0 + 1 = 1 /\ 1 <= i /\ i <= k
    OBVIOUS
  <2>2. 2^1 = 2
    BY <2>1, Doubling
  <2>3. 2^1 <= 2^i /\ 2^i <= 2^k /\ 2^i \in Nat /\ 2^k \in Nat
    BY <2>1, PowersKeepOrder, PowersType
  <2>4. IsPowerOfTwo(2^i)
    BY <2>1, <2>3, PowersOfTwo
  <2> QED
    BY <2>2, <2>3, <2>4
<1>2. \A i, j \in 1..k : power[i] = power[j] => i = j
  <2> SUFFICES ASSUME NEW i \in 1..k, NEW j \in 1..k, i < j
               PROVE  2^i # 2^j
    OBVIOUS
  <2> QED
    BY PowersGrow, PowersType
<1>3. \A m \in powers : \E i \in 1..k : power[i] = m
  <2> SUFFICES ASSUME NEW m \in powers
               PROVE  \E i \in 1..k : 2^i = m
    OBVIOUS
  <2>1. m \in Nat /\ m >= 2 /\ m <= g /\ IsPowerOfTwo(m)
    OBVIOUS
  <2>2. PICK i \in Nat : m = 2^i
    BY <2>1, PowersOfTwo
  <2>3. i # 0
    <3>1. 2^0 = 1
      BY Doubling
    <3>2. ASSUME i = 0
          PROVE  m = 1
      BY <2>2, <3>1, <3>2, Zenon
    <3> QED
      BY <2>1, <3>2
  <2>4. ~(k + 1 <= i)
    <3>1. ASSUME k + 1 <= i
          PROVE  2^(k + 1) <= 2^i
      BY <3>1, PowersKeepOrder
    <3> QED
      BY <2>1, <2>2, <3>1, PowersType
  <2> QED
    BY <2>2, <2>3, <2>4
<1> HIDE DEF power, powers
<1>4. power \in Bijection(1..k, powers)
  BY <1>1, <1>2, <1>3 DEF Bijection, Injection, Surjection, IsInjective
<1>5. IsFiniteSet(1..k) /\ Cardinality(1..k) = k
  BY FS_Interval
<1>6. Cardinality(powers) = k
  BY <1>4, <1>5, FS_Bijection DEF ExistsBijection
<1> QED
  BY <1>6 DEF GenerateRounds, powers

\* The least power of two that is no smaller than n.
LEMMA LeastPower ==
  ASSUME NEW n \in Nat, n >= 1
  PROVE  \E k \in Nat : n <= 2^k /\ \A j \in Nat : j < k => 2^j < n
<1> DEFINE enough == {k \in Nat : n <= 2^k}
<1>1. enough # {}
  <2>1. PICK k \in Nat : 2^k <= n /\ n < 2^(k + 1)
    BY BetweenPowers
  <2>2. k + 1 \in Nat /\ 2^(k + 1) \in Nat
    BY PowersType
  <2>3. n <= 2^(k + 1)
    BY <2>1, <2>2
  <2> QED
    BY <2>2, <2>3
<1>2. PICK k \in enough : \A i \in enough : k <= i
  BY <1>1, LeastOf
<1>3. ASSUME NEW j \in Nat, j < k
      PROVE  2^j < n
  BY <1>2, <1>3, PowersType
<1> QED
  BY <1>2, <1>3

\* generate stops padding at the first power of two that it meets.
LEMMA PaddedTo ==
  ASSUME NEW n \in Nat, n >= 1, NEW k \in Nat, n <= 2^k, \A j \in Nat : j < k => 2^j < n
  PROVE  PaddedSize(n) = 2^k /\ 2^k <= 2 * n
<1> DEFINE p == 2^k
           added == {size \in n..2*n : \A m \in n..size : ~IsPowerOfTwo(m)}
<1>1. p \in Nat /\ p >= 1
  BY PowersType
<1>2. IsPowerOfTwo(p)
  BY <1>1, PowersOfTwo
<1>3. \A m \in n..p : m # p => ~IsPowerOfTwo(m)
  <2> SUFFICES ASSUME NEW m \in n..p, m # p, IsPowerOfTwo(m)
               PROVE  FALSE
    OBVIOUS
  <2>1. m \in Nat
    BY <1>1
  <2>2. PICK j \in Nat : m = 2^j
    BY <2>1, PowersOfTwo
  <2>3. CASE j < k
    BY <2>2, <2>3, <2>1
  <2>4. CASE k <= j
    BY <2>2, <2>4, <2>1, <1>1, PowersKeepOrder
  <2> QED
    BY <2>3, <2>4
<1>4. p <= 2 * n
  <2>1. CASE k = 0
    BY <2>1, Doubling
  <2>2. CASE k # 0
    <3>1. k - 1 \in Nat /\ (k - 1) + 1 = k /\ k - 1 < k
      BY <2>2
    <3>2. 2^(k - 1) < n /\ p = 2 * 2^(k - 1) /\ 2^(k - 1) \in Nat
      BY <3>1, Doubling, PowersType
    <3> QED
      BY <3>2
  <2> QED
    BY <2>1, <2>2
<1> HIDE DEF p
<1>5. added = n..(p - 1)
  <2>1. ASSUME NEW size \in n..(p - 1)
        PROVE  size \in added
    BY <1>1, <1>3, <1>4
  <2>2. ASSUME NEW size \in added
        PROVE  size \in n..(p - 1)
    <3>1. size \in Nat /\ n <= size /\ \A m \in n..size : ~IsPowerOfTwo(m)
      OBVIOUS
    <3>2. ~(p <= size)
      BY <1>1, <1>2, <3>1 DEF p
    <3> QED
      BY <1>1, <3>1, <3>2
  <2> QED
    BY <2>1, <2>2
<1>6. Cardinality(n..(p - 1)) = p - n
  <2>1. n \in Int /\ p - 1 \in Int /\ n <= p
    BY <1>1 DEF p
  <2>2. Cardinality(n..(p - 1)) = IF n > p - 1 THEN 0 ELSE (p - 1) - n + 1
    BY <2>1, FS_Interval
  <2> QED
    BY <1>1, <2>1, <2>2
<1>7. PaddedSize(n) = n + Cardinality(added)
  BY DEF PaddedSize
<1> HIDE DEF added
<1>8. PaddedSize(n) = p
  BY <1>1, <1>5, <1>6, <1>7
<1> QED
  BY <1>4, <1>8 DEF p
=============================================================================
