----------------------- MODULE BracketArithmeticProofs -----------------------
(***************************************************************************)
(* The loops of the bracket's arithmetic compute its closed forms, and the *)
(* rounds of a bracket fit together, for a field of any size.  A loop is a *)
(* recursive function; each is compared with its closed form at the least  *)
(* number at which the two would differ.                                   *)
(***************************************************************************)
EXTENDS BracketArithmetic, BracketBackendProofs

TypeInv == entrants \in Nat /\ entrants >= 2
-----------------------------------------------------------------------------
(* generate_rounds.                                                          *)

\* The closed form satisfies the loop's equation.
LEMMA RoundsHalve ==
  ASSUME NEW size \in Nat
  PROVE  /\ GenerateRounds(size) \in Nat
         /\ GenerateRounds(size) = IF size > 1 THEN 1 + GenerateRounds(size \div 2) ELSE 0
<1>1. CASE size > 1
  <2>1. PICK k \in Nat : 2^k <= size /\ size < 2^(k + 1)
    <3>1. size >= 1
      BY <1>1
    <3> QED
      BY <3>1, BetweenPowers
  <2>2. GenerateRounds(size) = k
    BY <2>1, RoundsOf
  <2>3. k # 0
    <3>1. 2^0 = 1 /\ 2^(0 + 1) = 2 * 2^0
      BY Doubling
    <3>2. ASSUME k = 0
          PROVE  size < 2^(0 + 1)
      BY <2>1, <3>2, Zenon
    <3> QED
      BY <1>1, <3>1, <3>2
  <2> DEFINE j == k - 1
             h == size \div 2
  <2>4. j \in Nat /\ j + 1 = k /\ h \in Nat
    BY <2>3
  <2>5. 2^k = 2 * 2^j /\ 2^(k + 1) = 2 * 2^k /\ 2^j \in Nat /\ 2^k \in Nat
    BY <2>4, Doubling, PowersType
  <2>6. 2^j <= h /\ h < 2^k
    BY <2>1, <2>5
  <2> HIDE DEF h, j
  <2>7. h < 2^(j + 1)
    BY <2>4, <2>6
  <2>8. GenerateRounds(h) = j
    BY <2>4, <2>6, <2>7, RoundsOf
  <2> QED
    BY <1>1, <2>2, <2>4, <2>8 DEF h
<1>2. CASE ~(size > 1)
  <2>1. {m \in 2..size : IsPowerOfTwo(m)} = {}
    BY <1>2
  <2>2. GenerateRounds(size) = 0
    BY <2>1, FS_EmptySet DEF GenerateRounds
  <2> QED
    BY <1>2, <2>2
<1> QED
  BY <1>1, <1>2

\* The loop is the function that its equation names.
LEMMA RoundsLoopUnfolds ==
  RoundsLoop = [size \in Nat |-> IF size > 1 THEN 1 + RoundsLoop[size \div 2] ELSE 0]
<1> DEFINE closed == [size \in Nat |-> GenerateRounds(size)]
<1>1. closed = [size \in Nat |-> IF size > 1 THEN 1 + closed[size \div 2] ELSE 0]
  <2>1. ASSUME NEW size \in Nat
        PROVE  GenerateRounds(size) = IF size > 1 THEN 1 + closed[size \div 2] ELSE 0
    <3>1. size \div 2 \in Nat
      OBVIOUS
    <3>2. closed[size \div 2] = GenerateRounds(size \div 2)
      BY <3>1
    <3> QED
      BY <3>2, RoundsHalve
  <2> QED
    BY <2>1
<1> HIDE DEF closed
<1> QED
  BY <1>1 DEF RoundsLoop

\* generate_rounds counts the powers of two up to the size of the field.
LEMMA RoundsLoopCounts ==
  ASSUME NEW size \in Nat
  PROVE  RoundsLoop[size] = GenerateRounds(size)
<1> DEFINE exceptions == {i \in Nat : RoundsLoop[i] # GenerateRounds(i)}
<1>1. ASSUME exceptions # {}
      PROVE  FALSE
  <2>1. PICK least \in exceptions : \A i \in exceptions : least <= i
    BY <1>1, LeastOf
  <2>2. RoundsLoop[least] = IF least > 1 THEN 1 + RoundsLoop[least \div 2] ELSE 0
    BY RoundsLoopUnfolds
  <2>3. CASE least > 1
    <3> DEFINE half == least \div 2
    <3>1. half \in Nat /\ ~(least <= half)
      BY <2>3
    <3> HIDE DEF half
    <3>2. RoundsLoop[half] = GenerateRounds(half)
      BY <2>1, <3>1
    <3>3. RoundsLoop[least] = 1 + RoundsLoop[half] /\ GenerateRounds(least) = 1 + GenerateRounds(half)
      BY <2>2, <2>3, RoundsHalve DEF half
    <3> QED
      BY <2>1, <3>2, <3>3
  <2>4. CASE ~(least > 1)
    BY <2>1, <2>2, <2>4, RoundsHalve
  <2> QED
    BY <2>3, <2>4
<1> QED
  BY <1>1
-----------------------------------------------------------------------------
(* generate_matches.                                                         *)

\* Halving once and then k times is halving k + 1 times.
LEMMA HalveAgain ==
  ASSUME NEW n \in Nat, NEW q \in Nat, q >= 1
  PROVE  (n \div 2) \div q = n \div (2 * q)
<1> DEFINE h == n \div 2
           a == h \div q
           b == h % q
           c == n % 2
           w == 2 * q
<1>1. n = 2 * h + c /\ c \in 0..1 /\ h \in Nat
  OBVIOUS
<1>2. h = q * a + b /\ b \in 0..(q - 1) /\ a \in Nat
  BY <1>1
<1> HIDE DEF h, a, b, c
<1>3. w \in Nat /\ w >= 1 /\ 2 * b + c \in 0..(w - 1)
  BY <1>1, <1>2
<1>4. n = w * a + (2 * b + c)
  BY <1>1, <1>2
<1> HIDE DEF w
<1>5. n \div w = a
  <2> DEFINE rest == 2 * b + c
  <2>1. n = w * a + rest /\ rest \in 0..(w - 1)
    BY <1>3, <1>4
  <2> HIDE DEF rest
  <2> QED
    BY <1>2, <1>3, <2>1
<1> QED
  BY <1>5 DEF w, a, h

\* A list with one more in front.
LEMMA PutInFront ==
  ASSUME NEW S, NEW left \in Nat, NEW first \in S, NEW rest \in [1..left -> S]
  PROVE  <<first>> \o rest = [i \in 1..(left + 1) |-> IF i = 1 THEN first ELSE rest[i - 1]]
<1>1. rest \in Seq(S) /\ Len(rest) = left
  OBVIOUS
<1>2. <<first>> \in Seq(S) /\ Len(<<first>>) = 1
  OBVIOUS
<1> QED
  BY <1>1, <1>2

\* What the loop writes in so many passes: n halved once more for each place.
Halvings(left, n) == [i \in 1..left |-> n \div 2^(i - 1)]

\* The closed form satisfies the loop's equation.
LEMMA HalvingsUnfold ==
  ASSUME NEW left \in Nat, NEW n \in Nat
  PROVE  Halvings(left, n)
           = IF left = 0 THEN << >> ELSE <<n>> \o Halvings(left - 1, n \div 2)
<1>1. CASE left = 0
  <2>1. Halvings(left, n) = << >>
    BY <1>1 DEF Halvings
  <2> QED
    BY <1>1, <2>1
<1>2. CASE left # 0
  <2> DEFINE before == left - 1
             h == n \div 2
             rest == Halvings(before, h)
  <2>1. before \in Nat /\ before + 1 = left /\ h \in Nat
    BY <1>2
  <2> HIDE DEF before, h
  <2>2. rest \in [1..before -> Nat]
    <3> SUFFICES ASSUME NEW i \in 1..before
                 PROVE  h \div 2^(i - 1) \in Nat
      BY DEF Halvings
    <3>1. i - 1 \in Nat
      BY <2>1
    <3>2. 2^(i - 1) \in Nat /\ 2^(i - 1) >= 1
      BY <3>1, PowersType
    <3> QED
      BY <2>1, <3>2
  <2>3. <<n>> \o rest = [i \in 1..left |-> IF i = 1 THEN n ELSE rest[i - 1]]
    <3> HIDE DEF rest
    <3> QED
      BY <2>1, <2>2, PutInFront
  <2>4. ASSUME NEW i \in 1..left
        PROVE  n \div 2^(i - 1) = IF i = 1 THEN n ELSE rest[i - 1]
    <3>1. CASE i = 1
      <4>1. i - 1 = 0 /\ 2^0 = 1
        BY <3>1, Doubling
      <4> QED
        BY <3>1, <4>1
    <3>2. CASE i # 1
      <4> DEFINE j == i - 2
      <4>1. j \in Nat /\ i - 1 = j + 1 /\ (i - 1) - 1 = j /\ i - 1 \in 1..before
        BY <2>1, <3>2
      <4> HIDE DEF j
      <4>2. 2^j \in Nat /\ 2^j >= 1 /\ 2^(j + 1) = 2 * 2^j
        BY <4>1, PowersType, Doubling
      <4>3. rest[i - 1] = h \div 2^j
        BY <4>1 DEF Halvings
      <4> QED
        BY <3>2, <4>1, <4>2, <4>3, HalveAgain DEF h
    <3> QED
      BY <3>1, <3>2
  <2>5. Halvings(left, n) = <<n>> \o rest
    BY <2>3, <2>4 DEF Halvings
  <2> QED
    BY <1>2, <2>5 DEF before, h
<1> QED
  BY <1>1, <1>2

\* The loop is the function that its equation names.
LEMMA PassesUnfolds ==
  Passes = [left \in Nat |->
             [n \in Nat |-> IF left = 0 THEN << >> ELSE <<n>> \o Passes[left - 1][n \div 2]]]
<1> DEFINE closed == [left \in Nat |-> [n \in Nat |-> Halvings(left, n)]]
<1>1. ASSUME NEW left \in Nat, NEW n \in Nat
      PROVE  Halvings(left, n) = IF left = 0 THEN << >> ELSE <<n>> \o closed[left - 1][n \div 2]
  <2>1. CASE left = 0
    BY <2>1, HalvingsUnfold
  <2>2. CASE left # 0
    <3>1. left - 1 \in Nat /\ n \div 2 \in Nat
      BY <2>2
    <3>2. closed[left - 1][n \div 2] = Halvings(left - 1, n \div 2)
      BY <3>1
    <3> QED
      BY <2>2, <3>2, HalvingsUnfold
  <2> QED
    BY <2>1, <2>2
<1>2. closed = [left \in Nat |->
                 [n \in Nat |-> IF left = 0 THEN << >> ELSE <<n>> \o closed[left - 1][n \div 2]]]
  BY <1>1
<1> HIDE DEF closed
<1> QED
  BY <1>2 DEF Passes

\* Each pass writes half of what the pass before it wrote.
LEMMA PassesHalve ==
  ASSUME NEW left \in Nat, NEW n \in Nat
  PROVE  Passes[left][n] = Halvings(left, n)
<1> DEFINE exceptions == {l \in Nat : ~\A m \in Nat : Passes[l][m] = Halvings(l, m)}
<1>1. ASSUME exceptions # {}
      PROVE  FALSE
  <2>1. PICK least \in exceptions : \A l \in exceptions : least <= l
    BY <1>1, LeastOf
  <2>2. ASSUME NEW m \in Nat
        PROVE  Passes[least][m] = Halvings(least, m)
    <3>1. Passes[least][m]
            = IF least = 0 THEN << >> ELSE <<m>> \o Passes[least - 1][m \div 2]
      <4>1. Passes[least]
              = [k \in Nat |-> IF least = 0 THEN << >> ELSE <<k>> \o Passes[least - 1][k \div 2]]
        <5>1. least \in Nat
          BY <2>1
        <5> QED
          BY <5>1, PassesUnfolds, Zenon
      <4> QED
        BY <4>1
    <3>2. CASE least = 0
      BY <3>1, <3>2, HalvingsUnfold
    <3>3. CASE least # 0
      <4> DEFINE before == least - 1
                 h == m \div 2
      <4>1. before \in Nat /\ h \in Nat /\ ~(least <= before)
        BY <3>3
      <4> HIDE DEF before, h
      <4>2. Passes[before][h] = Halvings(before, h)
        BY <2>1, <4>1
      <4>3. Passes[least][m] = <<m>> \o Passes[before][h]
        BY <3>1, <3>3 DEF before, h
      <4>4. Halvings(least, m) = <<m>> \o Halvings(before, h)
        BY <3>3, HalvingsUnfold DEF before, h
      <4> QED
        BY <4>2, <4>3, <4>4
    <3> QED
      BY <3>2, <3>3
  <2> QED
    BY <2>1, <2>2
<1> QED
  BY <1>1

\* generate_matches writes the powers of two below 2^r, downwards.
LEMMA MatchesLoopWrites ==
  ASSUME NEW r \in Nat
  PROVE  MatchesLoop(r) = GenerateMatches(r)
<1> DEFINE n == (2^r) \div 2
<1>1. n \in Nat
  BY PowersType
<1>2. MatchesLoop(r) = Halvings(r, n)
  <2> HIDE DEF n
  <2>1. Passes[r][n] = Halvings(r, n)
    BY <1>1, PassesHalve
  <2> QED
    BY <2>1 DEF MatchesLoop, n
<1>3. ASSUME NEW i \in 1..r
      PROVE  n \div 2^(i - 1) = 2^(r - i)
  <2> DEFINE j == i - 1
             q == 2^j
             rest == r - i
             p == 2^rest
  <2>1. j \in Nat /\ rest \in Nat /\ r = (j + 1) + rest /\ j + 1 \in Nat
    OBVIOUS
  <2> HIDE DEF j, rest
  <2>2. q \in Nat /\ q >= 1 /\ p \in Nat /\ 2^(j + 1) = 2 * q
    BY <2>1, PowersType, Doubling
  <2>3. 2^r = 2^(j + 1) * p
    BY <2>1, ProductOfPowers
  <2> HIDE DEF q, p
  <2>4. 2^r = 2 * (q * p) /\ q * p \in Nat
    BY <2>2, <2>3
  <2>5. n = q * p
    BY <2>4
  <2> HIDE DEF n
  <2>6. n \div q = p
    BY <2>2, <2>5
  <2> QED
    BY <2>6 DEF q, p, j, rest
<1> HIDE DEF n
<1> QED
  BY <1>2, <1>3 DEF Halvings, GenerateMatches
-----------------------------------------------------------------------------
(* The padding of generate.                                                  *)

\* The closed form satisfies the equation of repeated halving.
LEMMA HalvingTests ==
  ASSUME NEW k \in Nat
  PROVE  IsPowerOfTwo(k) <=> (k = 1 \/ (k > 1 /\ k % 2 = 0 /\ IsPowerOfTwo(k \div 2)))
<1>1. CASE k = 0
  BY <1>1 DEF IsPowerOfTwo
<1>2. CASE k = 1
  BY <1>2 DEF IsPowerOfTwo
<1>3. CASE k > 1 /\ k % 2 = 0
  <2> DEFINE h == k \div 2
  <2>1. h \in Nat /\ h >= 1 /\ k = 2 * h
    BY <1>3
  <2> HIDE DEF h
  <2>2. IsPowerOfTwo(2 * h) <=> IsPowerOfTwo(h)
    BY <2>1, HalfOf
  <2> QED
    BY <1>3, <2>1, <2>2 DEF h
<1>4. CASE k > 1 /\ k % 2 # 0
  <2>1. k \in 2..k /\ k % k = 0
    BY <1>4
  <2>2. ~IsPowerOfTwo(k)
    BY <1>4, <2>1 DEF IsPowerOfTwo
  <2> QED
    BY <1>4, <2>2
<1> QED
  BY <1>1, <1>2, <1>3, <1>4

\* Repeated halving is the function that its equation names.
LEMMA HalvesUnfolds ==
  Halves = [k \in Nat |-> k = 1 \/ (k > 1 /\ k % 2 = 0 /\ Halves[k \div 2])]
<1> DEFINE closed == [k \in Nat |-> IsPowerOfTwo(k)]
<1>1. ASSUME NEW k \in Nat
      PROVE  IsPowerOfTwo(k) = (k = 1 \/ (k > 1 /\ k % 2 = 0 /\ closed[k \div 2]))
  <2>1. k \div 2 \in Nat
    OBVIOUS
  <2>2. closed[k \div 2] = IsPowerOfTwo(k \div 2)
    BY <2>1
  <2>3. IsPowerOfTwo(k) \in BOOLEAN
    BY DEF IsPowerOfTwo
  <2> QED
    BY <2>2, <2>3, HalvingTests
<1>2. closed = [k \in Nat |-> k = 1 \/ (k > 1 /\ k % 2 = 0 /\ closed[k \div 2])]
  BY <1>1
<1> HIDE DEF closed
<1> QED
  BY <1>2 DEF Halves

\* What repeated halving brings to 1 is a power of two.
LEMMA HalvesTest ==
  ASSUME NEW k \in Nat
  PROVE  Halves[k] <=> IsPowerOfTwo(k)
<1> DEFINE exceptions == {i \in Nat : ~(Halves[i] <=> IsPowerOfTwo(i))}
<1>1. ASSUME exceptions # {}
      PROVE  FALSE
  <2>1. PICK least \in exceptions : \A i \in exceptions : least <= i
    BY <1>1, LeastOf
  <2>2. Halves[least] = (least = 1 \/ (least > 1 /\ least % 2 = 0 /\ Halves[least \div 2]))
    BY HalvesUnfolds
  <2> DEFINE half == least \div 2
  <2>3. CASE least > 1
    <3>1. half \in Nat /\ ~(least <= half)
      BY <2>3
    <3>2. Halves[half] <=> IsPowerOfTwo(half)
      BY <2>1, <3>1
    <3> QED
      BY <2>1, <2>2, <3>2, HalvingTests
  <2>4. CASE ~(least > 1)
    BY <2>1, <2>2, <2>4, HalvingTests
  <2> QED
    BY <2>3, <2>4
<1> QED
  BY <1>1

\* What generate pads a field to; an empty field would become one FREE group.
LEMMA PaddingStops ==
  ASSUME NEW count \in Nat
  PROVE  PaddedSize(count) = IF IsPowerOfTwo(count) THEN count ELSE PaddedSize(count + 1)
<1>1. CASE count = 0
  <2>1. 1 <= 2^0 /\ 2^0 = 1
    BY Doubling
  <2>2. \A j \in Nat : j < 0 => 2^j < 1
    OBVIOUS
  <2>3. PaddedSize(1) = 1
    BY <2>1, <2>2, PaddedTo
  <2>4. ~IsPowerOfTwo(0)
    BY DEF IsPowerOfTwo
  <2>5. {size \in 0..2*0 : \A m \in 0..size : ~IsPowerOfTwo(m)} = {0}
    BY <2>4
  <2>6. PaddedSize(0) = 0 + 1
    BY <2>5, FS_Singleton DEF PaddedSize
  <2> QED
    BY <1>1, <2>3, <2>4, <2>6
<1>2. CASE count # 0
  <2>1. count >= 1
    BY <1>2
  <2>2. PICK k \in Nat : count <= 2^k /\ \A j \in Nat : j < k => 2^j < count
    BY <2>1, LeastPower
  <2>3. PaddedSize(count) = 2^k
    BY <2>1, <2>2, PaddedTo
  <2>4. 2^k \in Nat
    BY PowersType
  <2>5. CASE IsPowerOfTwo(count)
    <3>1. PICK i \in Nat : count = 2^i
      BY <2>5, PowersOfTwo
    <3>2. ~(i < k)
      BY <2>2, <3>1
    <3>3. 2^k <= 2^i
      BY <3>2, PowersKeepOrder
    <3> QED
      BY <2>2, <2>3, <2>4, <2>5, <3>1, <3>3
  <2>6. CASE ~IsPowerOfTwo(count)
    <3>1. count # 2^k
      BY <2>6, PowersOfTwo
    <3> DEFINE next == count + 1
    <3>2. next \in Nat /\ next >= 1 /\ next <= 2^k
      BY <2>2, <2>4, <3>1
    <3>3. \A j \in Nat : j < k => 2^j < next
      BY <2>2, PowersType
    <3> HIDE DEF next
    <3>4. PaddedSize(next) = 2^k
      BY <3>2, <3>3, PaddedTo
    <3> QED
      BY <2>3, <2>6, <3>4 DEF next
  <2> QED
    BY <2>5, <2>6
<1> QED
  BY <1>1, <1>2

\* The padding loop is the function that its equation names.
LEMMA PaddingLoopUnfolds ==
  PaddingLoop = [count \in Nat |-> IF Halves[count] THEN count ELSE PaddingLoop[count + 1]]
<1> DEFINE closed == [count \in Nat |-> PaddedSize(count)]
<1>1. ASSUME NEW count \in Nat
      PROVE  PaddedSize(count) = IF Halves[count] THEN count ELSE closed[count + 1]
  <2>1. closed[count + 1] = PaddedSize(count + 1)
    OBVIOUS
  <2> HIDE DEF closed
  <2> QED
    BY <2>1, HalvesTest, PaddingStops
<1>2. closed = [count \in Nat |-> IF Halves[count] THEN count ELSE closed[count + 1]]
  BY <1>1
<1> HIDE DEF closed
<1> QED
  BY <1>2 DEF PaddingLoop

\* The padding loop stops at the least power of two, however far away.  (The
\* induction is on the steps that are left to it.)
LEMMA PaddingLoopStops ==
  ASSUME NEW count \in Nat, count >= 1
  PROVE  PaddingLoop[count] = PaddedSize(count)
<1>1. PICK k \in Nat : count <= 2^k /\ \A j \in Nat : j < k => 2^j < count
  BY LeastPower
<1> DEFINE p == 2^k
           exceptions == {left \in Nat : left <= p - count /\ PaddingLoop[p - left] # PaddedSize(p - left)}
<1>2. p \in Nat
  BY PowersType
<1> HIDE DEF p
<1>3. ASSUME exceptions # {}
      PROVE  FALSE
  <2>1. PICK least \in exceptions : \A left \in exceptions : least <= left
    BY <1>3, LeastOf
  <2> DEFINE size == p - least
             next == size + 1
  <2>2. size \in Nat /\ size >= 1 /\ next \in Nat
    BY <1>2, <2>1
  <2>3. PaddingLoop[size] = IF IsPowerOfTwo(size) THEN size ELSE PaddingLoop[next]
    <3> HIDE DEF size
    <3>1. PaddingLoop[size] = IF Halves[size] THEN size ELSE PaddingLoop[next]
      BY <2>2, PaddingLoopUnfolds
    <3> QED
      BY <2>2, <3>1, HalvesTest
  <2>4. PaddedSize(size) = IF IsPowerOfTwo(size) THEN size ELSE PaddedSize(next)
    BY <2>2, PaddingStops
  <2>5. PaddingLoop[size] # PaddedSize(size)
    BY <2>1
  <2>6. CASE least = 0
    <3>1. size = p
      BY <1>2, <2>6
    <3>2. IsPowerOfTwo(p)
      BY <1>2, PowersOfTwo DEF p
    <3> QED
      BY <2>3, <2>4, <2>5, <3>1, <3>2
  <2>7. CASE least # 0
    <3> DEFINE fewer == least - 1
    <3>1. fewer \in Nat /\ fewer <= p - count /\ p - fewer = next /\ ~(least <= fewer)
      BY <1>2, <2>1, <2>7
    <3> HIDE DEF fewer, next
    <3>2. PaddingLoop[next] = PaddedSize(next)
      BY <2>1, <3>1
    <3> QED
      BY <2>3, <2>4, <2>5, <3>2
  <2> QED
    BY <2>6, <2>7
<1> DEFINE left == p - count
<1>4. left \in Nat /\ left <= p - count /\ p - left = count
  BY <1>1, <1>2 DEF p
<1> QED
  BY <1>3, <1>4
-----------------------------------------------------------------------------
(* All the matchups of a bracket.                                            *)

\* The sets of places in 1..r whose least place is in s.  2^(r - i) of them
\* have i for their least place: as many as round i has matchups, which is what
\* counts the matchups of a set of rounds.
Led(r, s) == {Y \in SUBSET (1..r) : \E i \in s : i \in Y /\ \A j \in Y : i <= j}

\* As many sets of places have i for their least as round i has matchups.
LEMMA LedByOne ==
  ASSUME NEW r \in Nat, NEW i \in 1..r
  PROVE  IsFiniteSet(Led(r, {i})) /\ Cardinality(Led(r, {i})) = 2^(r - i)
<1> DEFINE later == SUBSET ((i + 1)..r)
           put == [X \in later |-> X \cup {i}]
           led == Led(r, {i})
<1>1. IsFiniteSet(later) /\ Cardinality(later) = 2^(r - i)
  <2>1. i + 1 \in Int /\ r \in Int
    OBVIOUS
  <2>2. IsFiniteSet((i + 1)..r) /\ Cardinality((i + 1)..r) = IF i + 1 > r THEN 0 ELSE r - (i + 1) + 1
    BY <2>1, FS_Interval
  <2>3. Cardinality((i + 1)..r) = r - i
    BY <2>2
  <2>4. Cardinality(later) = 2^Cardinality((i + 1)..r)
    BY <2>2, FS_SUBSET
  <2>5. IsFiniteSet(later)
    BY <2>2, FS_SUBSET
  <2> QED
    BY <2>3, <2>4, <2>5
<1>2. put \in [later -> led]
  <2> SUFFICES ASSUME NEW X \in later
               PROVE  X \cup {i} \in led
    OBVIOUS
  <2>1. X \cup {i} \in SUBSET (1..r)
    OBVIOUS
  <2>2. \A j \in X \cup {i} : i <= j
    OBVIOUS
  <2> QED
    BY <2>1, <2>2 DEF Led
<1>3. \A X, Y \in later : put[X] = put[Y] => X = Y
  <2> SUFFICES ASSUME NEW X \in later, NEW Y \in later, put[X] = put[Y]
               PROVE  X = Y
    OBVIOUS
  <2>1. i \notin X /\ i \notin Y /\ X \cup {i} = Y \cup {i}
    OBVIOUS
  <2> QED
    BY <2>1
<1>4. \A Z \in led : \E X \in later : put[X] = Z
  <2> SUFFICES ASSUME NEW Z \in led
               PROVE  \E X \in later : put[X] = Z
    OBVIOUS
  <2>1. Z \in SUBSET (1..r) /\ i \in Z /\ \A j \in Z : i <= j
    BY DEF Led
  <2>2. Z \ {i} \in later
    BY <2>1
  <2>3. (Z \ {i}) \cup {i} = Z
    BY <2>1
  <2> QED
    BY <2>2, <2>3
<1> HIDE DEF put, later, led
<1>5. put \in Bijection(later, led)
  BY <1>2, <1>3, <1>4 DEF Bijection, Injection, Surjection, IsInjective
<1>6. ExistsBijection(later, led)
  BY <1>5 DEF ExistsBijection
<1>7. IsFiniteSet(led) /\ Cardinality(led) = Cardinality(later)
  BY <1>1, <1>6, FS_Bijection
<1> QED
  BY <1>1, <1>7 DEF led

\* One round more.
LEMMA LedByOneMore ==
  ASSUME NEW r \in Nat, NEW s \in SUBSET (1..r), NEW i \in s
  PROVE  Cardinality(Led(r, s)) = 2^(r - i) + Cardinality(Led(r, s \ {i}))
<1> DEFINE all == Led(r, s)
           one == Led(r, {i})
           rest == Led(r, s \ {i})
<1>1. all = one \cup rest
  BY DEF Led
<1>2. one \cap rest = {}
  <2> SUFFICES ASSUME NEW Y \in one, Y \in rest
               PROVE  FALSE
    OBVIOUS
  <2>1. i \in Y /\ (\A j \in Y : i <= j) /\ i \in Nat /\ Y \subseteq Nat
    BY DEF Led
  <2>2. PICK k \in s \ {i} : k \in Y /\ \A j \in Y : k <= j
    BY DEF Led
  <2>3. k <= i /\ i <= k /\ k \in Nat /\ k # i
    BY <2>1, <2>2
  <2> QED
    BY <2>1, <2>3
<1>3. IsFiniteSet(one) /\ Cardinality(one) = 2^(r - i)
  BY LedByOne
<1>4. IsFiniteSet(rest)
  <2>1. IsFiniteSet(1..r)
    BY FS_Interval
  <2>2. IsFiniteSet(SUBSET (1..r))
    BY <2>1, FS_SUBSET
  <2>3. rest \subseteq SUBSET (1..r)
    BY DEF Led
  <2> QED
    BY <2>2, <2>3, FS_Subset
<1> HIDE DEF all, one, rest
<1>5. Cardinality(one \cup rest) = Cardinality(one) + Cardinality(rest) - Cardinality(one \cap rest)
  BY <1>3, <1>4, FS_Union
<1>6. Cardinality(one \cap rest) = 0
  BY <1>2, FS_EmptySet
<1>7. Cardinality(one) \in Nat /\ Cardinality(rest) \in Nat
  BY <1>3, <1>4, FS_CardinalityType
<1>8. Cardinality(all) = Cardinality(one) + Cardinality(rest)
  BY <1>1, <1>5, <1>6, <1>7
<1> QED
  BY <1>3, <1>8 DEF all, one, rest

\* The fold takes the rounds in an order of its choice.
First(s) == CHOOSE i \in s : TRUE
SumUnfolds(list, sum) ==
  sum = [s \in SUBSET DOMAIN list |-> IF s = {} THEN 0 ELSE list[First(s)] + sum[s \ {First(s)}]]

LEMMA FoldSums ==
  ASSUME NEW list
  PROVE  FoldSeq(+, 0, list) = (CHOOSE sum : SumUnfolds(list, sum))[DOMAIN list]
<1> QED
  BY DEF FoldSeq, FoldFunction, FoldFunctionOnSet, MapThenFoldSet, SumUnfolds, First

\* The matchups of some of the rounds are as many as the sets they lead.
LEMMA MatchupsOfRounds ==
  ASSUME NEW r \in Nat
  PROVE  FoldSeq(+, 0, GenerateMatches(r)) = Cardinality(Led(r, 1..r))
<1> DEFINE list == GenerateMatches(r)
           closed == [s \in SUBSET (1..r) |-> Cardinality(Led(r, s))]
           sum == CHOOSE sum : SumUnfolds(list, sum)
<1>1. DOMAIN list = 1..r /\ \A i \in 1..r : list[i] = 2^(r - i)
  BY DEF GenerateMatches
<1>2. Cardinality(Led(r, {})) = 0
  <2>1. Led(r, {}) = {}
    BY DEF Led
  <2> QED
    BY <2>1, FS_EmptySet
<1>3. ASSUME NEW s \in SUBSET (1..r), s # {}
      PROVE  First(s) \in s /\ Cardinality(Led(r, s)) = list[First(s)] + Cardinality(Led(r, s \ {First(s)}))
  <2>1. First(s) \in s
    BY <1>3 DEF First
  <2>2. list[First(s)] = 2^(r - First(s))
    BY <1>1, <2>1
  <2>3. Cardinality(Led(r, s)) = 2^(r - First(s)) + Cardinality(Led(r, s \ {First(s)}))
    BY <2>1, LedByOneMore
  <2> HIDE DEF list
  <2> QED
    BY <2>1, <2>2, <2>3
<1>4. SumUnfolds(list, closed)
  <2>1. ASSUME NEW s \in SUBSET (1..r)
        PROVE  Cardinality(Led(r, s)) = IF s = {} THEN 0 ELSE list[First(s)] + closed[s \ {First(s)}]
    <3>1. CASE s = {}
      BY <1>2, <3>1
    <3>2. CASE s # {}
      <4>1. s \ {First(s)} \in SUBSET (1..r)
        OBVIOUS
      <4>2. closed[s \ {First(s)}] = Cardinality(Led(r, s \ {First(s)}))
        BY <4>1
      <4> HIDE DEF closed, list
      <4> QED
        BY <1>3, <3>2, <4>2
    <3> QED
      BY <3>1, <3>2
  <2> HIDE DEF list
  <2> QED
    BY <1>1, <2>1 DEF SumUnfolds
<1> HIDE DEF list, closed
<1>5. SumUnfolds(list, sum)
  BY <1>4
<1> HIDE DEF sum
<1>6. ASSUME NEW s \in SUBSET (1..r)
      PROVE  sum[s] = IF s = {} THEN 0 ELSE list[First(s)] + sum[s \ {First(s)}]
  BY <1>1, <1>5 DEF SumUnfolds
<1>7. ASSUME NEW s \in SUBSET (1..r)
      PROVE  IsFiniteSet(s) /\ Cardinality(s) \in Nat
  <2>1. IsFiniteSet(1..r)
    BY FS_Interval
  <2> QED
    BY <2>1, FS_Subset, FS_CardinalityType
<1> DEFINE exceptions ==
      {size \in Nat : \E s \in SUBSET (1..r) : Cardinality(s) = size /\ sum[s] # Cardinality(Led(r, s))}
<1>8. ASSUME exceptions # {}
      PROVE  FALSE
  <2>1. PICK least \in exceptions : \A size \in exceptions : least <= size
    BY <1>8, LeastOf
  <2>2. PICK s \in SUBSET (1..r) : Cardinality(s) = least /\ sum[s] # Cardinality(Led(r, s))
    BY <2>1
  <2>3. s # {}
    BY <1>2, <1>6, <2>2
  <2> DEFINE i == First(s)
             rest == s \ {i}
  <2>4. i \in s /\ rest \in SUBSET (1..r)
    BY <1>3, <2>3
  <2> HIDE DEF i
  <2>5. Cardinality(rest) = Cardinality(s) - 1
    BY <1>7, <2>4, FS_RemoveElement
  <2> HIDE DEF rest
  <2>6. Cardinality(rest) \in Nat /\ ~(least <= Cardinality(rest))
    BY <1>7, <2>2, <2>4, <2>5
  <2>7. sum[rest] = Cardinality(Led(r, rest))
    BY <2>1, <2>4, <2>6
  <2>8. sum[s] = list[i] + sum[rest]
    BY <1>6, <2>3 DEF i, rest
  <2>9. Cardinality(Led(r, s)) = list[i] + Cardinality(Led(r, rest))
    BY <1>3, <2>3 DEF i, rest
  <2> QED
    BY <2>2, <2>7, <2>8, <2>9
<1>9. sum[1..r] = Cardinality(Led(r, 1..r))
  <2>1. 1..r \in SUBSET (1..r)
    OBVIOUS
  <2> QED
    BY <1>7, <1>8, <2>1
<1>10. FoldSeq(+, 0, list) = sum[DOMAIN list]
  BY FoldSums DEF sum
<1> QED
  BY <1>1, <1>9, <1>10 DEF list

\* All the matchups together eliminate everyone but one.
LEMMA MatchupsOfAllRounds ==
  ASSUME NEW r \in Nat
  PROVE  FoldSeq(+, 0, GenerateMatches(r)) = 2^r - 1
<1> DEFINE places == SUBSET (1..r)
           led == Led(r, 1..r)
<1>1. led = places \ {{}}
  <2>1. ASSUME NEW Y \in led
        PROVE  Y \in places \ {{}}
    BY DEF Led
  <2>2. ASSUME NEW Y \in places, Y # {}
        PROVE  Y \in led
    <3>1. Y \in SUBSET Nat
      OBVIOUS
    <3>2. PICK i \in Y : \A j \in Y : i <= j
      BY <2>2, <3>1, LeastOf
    <3> QED
      BY <3>2 DEF Led
  <2> QED
    BY <2>1, <2>2
<1>2. IsFiniteSet(places) /\ Cardinality(places) = 2^r
  <2>1. r \in Int /\ IsFiniteSet(1..r) /\ Cardinality(1..r) = r
    BY FS_Interval
  <2> QED
    BY <2>1, FS_SUBSET
<1>3. {} \in places
  OBVIOUS
<1> HIDE DEF places, led
<1>4. Cardinality(places \ {{}}) = Cardinality(places) - 1
  BY <1>2, <1>3, FS_RemoveElement
<1> QED
  BY <1>1, <1>2, <1>4, MatchupsOfRounds DEF led
-----------------------------------------------------------------------------
(* The theorems.                                                             *)

LEMMA TypeInvAlways == Spec => []TypeInv
<1>1. Init => TypeInv
  BY DEF Init, TypeInv
<1>2. TypeInv /\ [Next]_vars => TypeInv'
  BY DEF TypeInv, Next, vars
<1> QED
  BY <1>1, <1>2, PTL DEF Spec

\* The size of the field and its matchups, in terms of the number of rounds.
LEMMA FieldOf ==
  ASSUME TypeInv
  PROVE  \E r \in Nat : /\ field = 2^r
                        /\ r >= 1
                        /\ 2^(r - 1) < entrants
                        /\ GenerateRounds(field) = r
                        /\ matches = GenerateMatches(r)
<1>1. entrants \in Nat /\ entrants >= 2
  BY DEF TypeInv
<1>2. PICK r \in Nat : entrants <= 2^r /\ \A j \in Nat : j < r => 2^j < entrants
  BY <1>1, LeastPower
<1>3. field = 2^r
  BY <1>1, <1>2, PaddedTo DEF field
<1>4. r # 0
  <2>1. 2^0 = 1
    BY Doubling
  <2>2. ASSUME r = 0
        PROVE  2^r = 1
    BY <2>1, <2>2, Zenon
  <2> QED
    BY <1>1, <1>2, <2>2
<1>5. 2^(r + 1) = 2 * 2^r /\ 2^r \in Nat /\ 2^r >= 1
  BY Doubling, PowersType
<1> DEFINE p == 2^r
<1>6. p <= p /\ p < 2^(r + 1) /\ p \in Nat
  BY <1>5
<1> HIDE DEF p
<1>7. GenerateRounds(p) = r
  BY <1>6, RoundsOf DEF p
<1>8. r - 1 \in Nat /\ r - 1 < r /\ r >= 1
  BY <1>4
<1> QED
  BY <1>2, <1>3, <1>7, <1>8 DEF p, matches

\* For a field of any size, the closed forms of BracketBackend compute what
\* the loops of bracket_backend and of Tournament.generate compute.
THEOREM LoopsComputeTheClosedForms == Spec => []LoopsAgree
<1>1. TypeInv => LoopsAgree
  <2> SUFFICES ASSUME TypeInv
               PROVE  LoopsAgree
    OBVIOUS
  <2>1. entrants \in Nat /\ entrants >= 1
    BY DEF TypeInv
  <2>2. PICK r \in Nat : field = 2^r /\ GenerateRounds(field) = r /\ matches = GenerateMatches(r)
    BY FieldOf
  <2>3. field = PaddingLoop[entrants]
    BY <2>1, PaddingLoopStops DEF field
  <2>4. GenerateRounds(entrants) = RoundsLoop[entrants]
    BY <2>1, RoundsLoopCounts
  <2>5. field \in Nat
    BY <2>2, PowersType
  <2>6. GenerateRounds(field) = RoundsLoop[field]
    BY <2>5, RoundsLoopCounts
  <2>7. matches = MatchesLoop(GenerateRounds(field))
    BY <2>2, MatchesLoopWrites
  <2> QED
    BY <2>3, <2>4, <2>6, <2>7 DEF LoopsAgree
<1> QED
  BY <1>1, TypeInvAlways, PTL

\* For a field of any size, every round of the bracket seats exactly those who
\* are left, the last round is one final, and the matchups of all the rounds
\* eliminate everyone but the champion.
THEOREM EveryBracketFits == Spec => []RoundsFit
<1>1. TypeInv => RoundsFit
  <2> SUFFICES ASSUME TypeInv
               PROVE  RoundsFit
    OBVIOUS
  <2>1. PICK r \in Nat : field = 2^r /\ r >= 1 /\ matches = GenerateMatches(r)
    BY FieldOf
  <2>2. DOMAIN matches = 1..r /\ \A i \in 1..r : matches[i] = 2^(r - i)
    BY <2>1 DEF GenerateMatches
  <2>3. ASSUME NEW i \in 1..r
        PROVE  matches[i] * 2^i = field
    <3>1. r - i \in Nat /\ i \in Nat /\ (r - i) + i = r
      OBVIOUS
    <3>2. 2^(r - i) * 2^i = 2^r
      BY <3>1, ProductOfPowers
    <3> QED
      BY <2>1, <2>2, <3>2
  <2>4. matches[Len(matches)] = 1
    <3>1. matches \in [1..r -> Nat]
      BY <2>1, PowersType DEF GenerateMatches
    <3>2. Len(matches) = r
      BY <3>1
    <3>3. r \in 1..r /\ r - r = 0
      BY <2>1
    <3>4. matches[r] = 2^0
      BY <2>2, <3>3
    <3>5. 2^0 = 1
      BY Doubling
    <3> QED
      BY <3>2, <3>4, <3>5
  <2>5. FoldSeq(+, 0, matches) = field - 1
    BY <2>1, MatchupsOfAllRounds
  <2> QED
    BY <2>2, <2>3, <2>4, <2>5 DEF RoundsFit
<1> QED
  BY <1>1, TypeInvAlways, PTL

\* For a field of any size, no matchup of the first round is between two FREE
\* groups, and no FREE group has a button that counts.
THEOREM FreeGroupsAlwaysSitOut == Spec => []FreeGroupsSitOut
<1>1. TypeInv => FreeGroupsSitOut
  <2> SUFFICES ASSUME TypeInv
               PROVE  FreeGroupsSitOut
    OBVIOUS
  <2>1. entrants \in Nat
    BY DEF TypeInv
  <2>2. PICK r \in Nat : r >= 1 /\ 2^(r - 1) < entrants /\ matches = GenerateMatches(r)
    BY FieldOf
  <2>3. r - 1 \in Nat /\ 1 \in 1..r
    BY <2>2
  <2>4. matches[1] = 2^(r - 1)
    BY <2>2, <2>3 DEF GenerateMatches
  <2>5. 2^(r - 1) \in Nat
    BY <2>3, PowersType
  <2> QED
    BY <2>1, <2>2, <2>4, <2>5 DEF FreeGroupsSitOut
<1> QED
  BY <1>1, TypeInvAlways, PTL
=============================================================================
