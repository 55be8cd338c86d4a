-------------------------- MODULE GameCodesProofs ---------------------------
(***************************************************************************)
(* Proofs about GameCodes for any number of phones, codes and names and    *)
(* every bound: it is type correct, tournaments are stored with fields a   *)
(* bracket can be drawn from, only the phone that drew a code writes its   *)
(* document, and the list of hosted codes agrees with the documents.       *)
(* First, what the operators of Phones do to a queue of writes.            *)
(***************************************************************************)
EXTENDS GameCodes, BracketBackendProofs, SequenceTheorems
-----------------------------------------------------------------------------
(* What a phone's client shows of a document: the content of the last write  *)
(* of it that waits, and how that changes as writes are added, taken, lost.  *)

\* A bounded set of positions has a greatest one.
LEMMA MaxIsGreatest ==
  ASSUME NEW n \in Nat, NEW S \in SUBSET (1..n), S # {}
  PROVE  Max(S) \in S /\ \A i \in S : Max(S) >= i
<1> DEFINE Bounds == {u \in Nat : \A i \in S : u >= i}
<1>1. n \in Bounds /\ Bounds \in SUBSET Nat
  OBVIOUS
<1>2. PICK least \in Bounds : \A u \in Bounds : least <= u
  BY <1>1, LeastOf
<1>3. least \in Nat /\ \A i \in S : least >= i
  OBVIOUS
<1>4. least \in S
  <2>1. SUFFICES ASSUME least \notin S
                 PROVE  FALSE
    OBVIOUS
  <2>2. PICK one \in S : TRUE
    OBVIOUS
  <2>3. least - 1 \in Nat
    <3>1. one \in 1..n
      BY <2>2
    <3>2. least >= one
      BY <1>3, <2>2
    <3> QED
      BY <1>3, <3>1, <3>2
  <2>4. \A i \in S : i \in Nat /\ least >= i /\ i # least
    BY <1>3, <2>1
  <2>5. \A i \in S : least - 1 >= i
    BY <1>3, <2>4
  <2>6. least - 1 \in Bounds
    BY <2>3, <2>5
  <2>7. least <= least - 1
    BY <1>2, <2>6
  <2> QED
    BY <1>3, <2>7
<1> QED
  BY <1>3, <1>4 DEF Max

LEMMA MaxIs ==
  ASSUME NEW n \in Nat, NEW S \in SUBSET (1..n), NEW m \in S, \A i \in S : m >= i
  PROVE  Max(S) = m
<1>1. Max(S) \in S /\ \A i \in S : Max(S) >= i
  BY MaxIsGreatest
<1>2. Max(S) >= m /\ m >= Max(S)
  BY <1>1
<1>3. Max(S) \in 1..n /\ m \in 1..n
  BY <1>1
<1> HIDE DEF Max
<1> QED
  BY <1>2, <1>3
-----------------------------------------------------------------------------
(* A change moves through the two queues of a phone.                         *)
LEMMA ConcatAppend ==
  ASSUME NEW S, NEW s \in Seq(S), NEW t \in Seq(S), NEW e \in S
  PROVE  s \o Append(t, e) = Append(s \o t, e) /\ s \o t \in Seq(S)
<1> DEFINE left == s \o Append(t, e)
           right == Append(s \o t, e)
<1>1. /\ Append(t, e) \in Seq(S) /\ Len(Append(t, e)) = Len(t) + 1
      /\ \A i \in 1..Len(t) : Append(t, e)[i] = t[i]
      /\ Append(t, e)[Len(t) + 1] = e
  BY AppendProperties
<1>2. /\ s \o t \in Seq(S) /\ Len(s \o t) = Len(s) + Len(t)
      /\ \A i \in 1..Len(s) + Len(t) : (s \o t)[i] = IF i <= Len(s) THEN s[i] ELSE t[i - Len(s)]
  BY ConcatProperties
<1>3. Len(s) \in Nat /\ Len(t) \in Nat
  BY LenProperties
<1>4. /\ left \in Seq(S) /\ Len(left) = Len(s) + (Len(t) + 1)
      /\ \A i \in 1..Len(s) + (Len(t) + 1) :
           left[i] = IF i <= Len(s) THEN s[i] ELSE Append(t, e)[i - Len(s)]
  BY <1>1, ConcatProperties
<1>5. /\ right \in Seq(S) /\ Len(right) = Len(s) + Len(t) + 1
      /\ \A i \in 1..Len(s) + Len(t) : right[i] = (s \o t)[i]
      /\ right[Len(s) + Len(t) + 1] = e
  BY <1>2, AppendProperties
<1> HIDE DEF left, right
<1>6. ASSUME NEW i \in 1..Len(left)
      PROVE  left[i] = right[i]
  <2>1. CASE i <= Len(s)
    <3>1. i \in 1..Len(s) + (Len(t) + 1) /\ i \in 1..Len(s) + Len(t)
      BY <1>3, <1>4, <2>1
    <3> QED
      BY <1>2, <1>4, <1>5, <2>1, <3>1
  <2>2. CASE ~(i <= Len(s)) /\ i <= Len(s) + Len(t)
    <3>1. i - Len(s) \in 1..Len(t)
      BY <1>3, <2>2
    <3>2. left[i] = t[i - Len(s)]
      BY <1>1, <1>4, <2>2, <3>1
    <3>3. i \in 1..Len(s) + Len(t)
      BY <1>3, <2>2
    <3> QED
      BY <1>2, <1>5, <2>2, <3>2, <3>3
  <2>3. CASE i = Len(s) + Len(t) + 1
    <3>1. ~(i <= Len(s)) /\ i - Len(s) = Len(t) + 1
      BY <1>3, <2>3
    <3> QED
      BY <1>1, <1>4, <1>5, <2>3, <3>1
  <2>4. i \in 1..Len(s) + (Len(t) + 1)
    BY <1>4
  <2>5. i \in Nat /\ i <= Len(s) + Len(t) + 1
    BY <1>3, <2>4
  <2>6. i <= Len(s) \/ (~(i <= Len(s)) /\ i <= Len(s) + Len(t)) \/ i = Len(s) + Len(t) + 1
    BY <1>3, <2>5
  <2> QED
    BY <2>1, <2>2, <2>3, <2>6
<1>7. Len(left) = Len(right)
  BY <1>3, <1>4, <1>5
<1>8. left = right
  BY <1>4, <1>5, <1>6, <1>7, SeqEqual
<1> QED
  BY <1>2, <1>8 DEF left, right

LEMMA TailOfConcat ==
  ASSUME NEW S, NEW s \in Seq(S), NEW t \in Seq(S), s # << >>
  PROVE  /\ s \o t \in Seq(S) /\ s \o t # << >>
         /\ Head(s \o t) = Head(s) /\ Tail(s \o t) = Tail(s) \o t
<1> DEFINE all == s \o t
           left == Tail(all)
           right == Tail(s) \o t
<1>1. /\ all \in Seq(S) /\ Len(all) = Len(s) + Len(t)
      /\ \A i \in 1..Len(s) + Len(t) : all[i] = IF i <= Len(s) THEN s[i] ELSE t[i - Len(s)]
  BY ConcatProperties
<1>2. Len(s) \in Nat /\ Len(t) \in Nat /\ Len(s) >= 1
  BY LenProperties, EmptySeq
<1> HIDE DEF all
<1>3. all # << >>
  <2>1. Len(all) >= 1 /\ Len(<< >>) = 0
    BY <1>1, <1>2
  <2> QED
    BY <2>1
<1>4. Head(all) = all[1] /\ Head(s) = s[1] /\ all[1] = s[1]
  BY <1>1, <1>2
<1>5. /\ left \in Seq(S) /\ Len(left) = Len(all) - 1
      /\ \A i \in 1..Len(left) : left[i] = all[i + 1]
  BY <1>1, <1>3, HeadTailProperties
<1>6. /\ Tail(s) \in Seq(S) /\ Len(Tail(s)) = Len(s) - 1
      /\ \A i \in 1..Len(Tail(s)) : Tail(s)[i] = s[i + 1]
  BY HeadTailProperties
<1>7. /\ right \in Seq(S) /\ Len(right) = Len(Tail(s)) + Len(t)
      /\ \A i \in 1..Len(Tail(s)) + Len(t) :
           right[i] = IF i <= Len(Tail(s)) THEN Tail(s)[i] ELSE t[i - Len(Tail(s))]
  BY <1>6, ConcatProperties
<1> HIDE DEF left, right
<1>8. ASSUME NEW i \in 1..Len(left)
      PROVE  left[i] = right[i]
  <2>1. i + 1 \in 1..Len(s) + Len(t) /\ i \in 1..Len(Tail(s)) + Len(t)
    BY <1>1, <1>2, <1>5, <1>6
  <2>2. CASE i <= Len(Tail(s))
    <3>1. i \in 1..Len(Tail(s)) /\ i + 1 <= Len(s)
      BY <1>2, <1>6, <2>2
    <3> QED
      BY <1>1, <1>5, <1>6, <1>7, <2>1, <2>2, <3>1
  <2>3. CASE ~(i <= Len(Tail(s)))
    <3>1. ~(i + 1 <= Len(s)) /\ (i + 1) - Len(s) = i - Len(Tail(s))
      BY <1>2, <1>6, <2>3
    <3> QED
      BY <1>1, <1>5, <1>7, <2>1, <2>3, <3>1
  <2> QED
    BY <2>2, <2>3
<1>9. Len(left) = Len(right)
  BY <1>1, <1>2, <1>5, <1>6, <1>7
<1>10. left = right
  BY <1>5, <1>7, <1>8, <1>9, SeqEqual
<1> QED
  BY <1>1, <1>3, <1>4, <1>10 DEF all, left, right

LEMMA HeadMoves ==
  ASSUME NEW S, NEW s \in Seq(S), NEW t \in Seq(S), t # << >>
  PROVE  Append(s, Head(t)) \o Tail(t) = s \o t
<1>1. Head(t) \in S /\ Tail(t) \in Seq(S) /\ <<Head(t)>> \in Seq(S)
  BY HeadTailProperties
<1>2. Append(s, Head(t)) = s \o <<Head(t)>>
  BY <1>1, AppendIsConcat
<1>3. <<Head(t)>> \o Tail(t) = t
  <2> DEFINE whole == <<Head(t)>> \o Tail(t)
  <2>1. /\ Len(t) \in Nat /\ Len(t) >= 1 /\ Head(t) = t[1] /\ Len(Tail(t)) = Len(t) - 1
        /\ \A i \in 1..Len(Tail(t)) : Tail(t)[i] = t[i + 1]
    BY LenProperties, EmptySeq, HeadTailProperties
  <2>2. /\ whole \in Seq(S) /\ Len(whole) = 1 + Len(Tail(t))
        /\ \A i \in 1..1 + Len(Tail(t)) :
             whole[i] = IF i <= 1 THEN Head(t) ELSE Tail(t)[i - 1]
    BY <1>1, ConcatProperties
  <2> HIDE DEF whole
  <2>3. ASSUME NEW i \in 1..Len(whole)
        PROVE  whole[i] = t[i]
    <3>1. CASE i = 1
      BY <2>1, <2>2, <3>1
    <3>2. CASE i # 1
      <4>1. i - 1 \in 1..Len(Tail(t)) /\ ~(i <= 1) /\ (i - 1) + 1 = i
        BY <2>1, <2>2, <3>2
      <4>2. whole[i] = Tail(t)[i - 1]
        BY <2>2, <4>1
      <4>3. Tail(t)[i - 1] = t[(i - 1) + 1]
        BY <2>1, <4>1
      <4> QED
        BY <4>1, <4>2, <4>3
    <3> QED
      BY <3>1, <3>2
  <2>4. Len(whole) = Len(t)
    BY <2>1, <2>2
  <2>5. whole = t
    BY <2>2, <2>3, <2>4, SeqEqual
  <2> QED
    BY <2>5 DEF whole
<1>4. (s \o <<Head(t)>>) \o Tail(t) = s \o (<<Head(t)>> \o Tail(t))
  BY <1>1, ConcatAssociative
<1> QED
  BY <1>2, <1>3, <1>4
-----------------------------------------------------------------------------
LEMMA OfAreIndices ==
  ASSUME NEW writes \in Seq(Change), NEW c
  PROVE  /\ Len(writes) \in Nat
         /\ Of(c, writes) \in SUBSET (1..Len(writes))
         /\ \A i \in 1..Len(writes) : i \in Of(c, writes) <=> writes[i].code = c
BY DEF Of

\* The last of the writes of a document.
IsLast(m, c, writes) ==
  /\ m \in 1..Len(writes) /\ writes[m].code = c
  /\ \A i \in 1..Len(writes) : writes[i].code = c => m >= i

LEMMA LatestIs ==
  ASSUME NEW writes \in Seq(Change), NEW c, NEW content, NEW m, IsLast(m, c, writes)
  PROVE  Latest(content, c, writes) = writes[m].content
<1>1. /\ Of(c, writes) \in SUBSET (1..Len(writes)) /\ m \in Of(c, writes)
      /\ \A i \in Of(c, writes) : m >= i
  BY OfAreIndices DEF IsLast
<1>2. Max(Of(c, writes)) = m
  BY <1>1, OfAreIndices, MaxIs
<1> QED
  BY <1>1, <1>2 DEF Latest

\* No write of the code waits: the database's content is shown.
LEMMA LatestOfNone ==
  ASSUME NEW writes \in Seq(Change), NEW c, NEW content,
         \A i \in 1..Len(writes) : writes[i].code # c
  PROVE  Latest(content, c, writes) = content
BY OfAreIndices DEF Latest

\* Some write of the code waits, and there is a last one.
LEMMA LastWrite ==
  ASSUME NEW writes \in Seq(Change), NEW c,
         NEW k \in 1..Len(writes), writes[k].code = c
  PROVE  \E m \in 1..Len(writes) : IsLast(m, c, writes)
<1>1. Of(c, writes) \in SUBSET (1..Len(writes)) /\ k \in Of(c, writes)
  BY OfAreIndices
<1>2. /\ Max(Of(c, writes)) \in Of(c, writes)
      /\ \A i \in Of(c, writes) : Max(Of(c, writes)) >= i
  BY <1>1, OfAreIndices, MaxIsGreatest
<1>3. IsLast(Max(Of(c, writes)), c, writes)
  BY <1>1, <1>2, OfAreIndices DEF IsLast
<1> QED
  BY <1>3 DEF IsLast

\* A write that is added is what is shown of its document, and only of its.
LEMMA LatestAfterAppend ==
  ASSUME NEW writes \in Seq(Change), NEW change \in Change, NEW c, NEW content
  PROVE  Latest(content, c, Append(writes, change)) =
           IF change.code = c THEN change.content ELSE Latest(content, c, writes)
<1> DEFINE longer == Append(writes, change)
<1>1. /\ longer \in Seq(Change) /\ Len(longer) = Len(writes) + 1 /\ Len(writes) \in Nat
      /\ longer[Len(writes) + 1] = change
      /\ \A i \in 1..Len(writes) : longer[i] = writes[i]
  BY AppendProperties
<1> HIDE DEF longer
<1>2. CASE change.code = c
  <2>1. Len(longer) \in 1..Len(longer) /\ longer[Len(longer)] = change
    BY <1>1
  <2>2. \A i \in 1..Len(longer) : Len(longer) >= i
    BY <1>1
  <2>3. IsLast(Len(longer), c, longer)
    BY <1>2, <2>1, <2>2 DEF IsLast
  <2>4. Latest(content, c, longer) = change.content
    BY <1>1, <2>1, <2>3, LatestIs
  <2> QED
    BY <1>2, <2>4 DEF longer
<1>3. CASE change.code # c
  <2>1. \A i \in 1..Len(longer) :
          longer[i].code = c => i \in 1..Len(writes) /\ writes[i].code = c
    BY <1>1, <1>3
  <2>2. CASE \A i \in 1..Len(writes) : writes[i].code # c
    <3>1. \A i \in 1..Len(longer) : longer[i].code # c
      BY <2>1, <2>2
    <3>2. Latest(content, c, longer) = content
      BY <1>1, <3>1, LatestOfNone
    <3>3. Latest(content, c, writes) = content
      BY <2>2, LatestOfNone
    <3> QED
      BY <1>3, <3>2, <3>3 DEF longer
  <2>3. CASE \E k \in 1..Len(writes) : writes[k].code = c
    <3>1. PICK m \in 1..Len(writes) : IsLast(m, c, writes)
      BY <2>3, LastWrite
    <3>2. Latest(content, c, writes) = writes[m].content
      BY <3>1, LatestIs
    <3>3. longer[m] = writes[m] /\ IsLast(m, c, longer)
      BY <1>1, <2>1, <3>1 DEF IsLast
    <3>4. Latest(content, c, longer) = longer[m].content
      BY <1>1, <3>3, LatestIs
    <3> QED
      BY <1>3, <3>2, <3>3, <3>4 DEF longer
  <2> QED
    BY <2>2, <2>3
<1> QED
  BY <1>2, <1>3

\* The database takes the oldest write: what the client shows stays.
LEMMA LatestAfterTail ==
  ASSUME NEW writes \in Seq(Change), writes # << >>, NEW c, NEW content
  PROVE  Latest(IF Head(writes).code = c THEN Head(writes).content ELSE content, c, Tail(writes))
           = Latest(content, c, writes)
<1> DEFINE rest == Tail(writes)
           taken == IF Head(writes).code = c THEN Head(writes).content ELSE content
<1>1. /\ Len(writes) \in Nat /\ Len(writes) >= 1 /\ Head(writes) = writes[1]
      /\ rest \in Seq(Change) /\ Len(rest) = Len(writes) - 1
      /\ \A i \in 1..Len(rest) : rest[i] = writes[i + 1]
  BY HeadTailProperties, EmptySeq
<1>2. taken = IF writes[1].code = c THEN writes[1].content ELSE content
  BY <1>1
<1> HIDE DEF rest, taken
<1>3. CASE \E k \in 1..Len(rest) : rest[k].code = c
  <2>1. PICK m \in 1..Len(rest) : IsLast(m, c, rest)
    BY <1>1, <1>3, LastWrite
  <2>2. Latest(taken, c, rest) = rest[m].content
    BY <1>1, <2>1, LatestIs
  <2>3. m + 1 \in 1..Len(writes) /\ writes[m + 1] = rest[m]
    BY <1>1
  <2>4. ASSUME NEW i \in 1..Len(writes), writes[i].code = c
        PROVE  m + 1 >= i
    <3>1. CASE i = 1
      BY <3>1
    <3>2. CASE i # 1
      <4>1. i - 1 \in 1..Len(rest) /\ rest[i - 1] = writes[(i - 1) + 1] /\ (i - 1) + 1 = i
        BY <1>1, <3>2
      <4>2. m >= i - 1
        BY <2>1, <2>4, <4>1 DEF IsLast
      <4> QED
        BY <1>1, <4>2
    <3> QED
      BY <3>1, <3>2
  <2>5. writes[m + 1].code = c
    BY <2>1, <2>3 DEF IsLast
  <2>6. IsLast(m + 1, c, writes)
    BY <2>3, <2>4, <2>5 DEF IsLast
  <2>7. Latest(content, c, writes) = writes[m + 1].content
    BY <2>6, LatestIs
  <2> QED
    BY <2>2, <2>3, <2>7 DEF rest, taken
<1>4. CASE \A k \in 1..Len(rest) : rest[k].code # c
  <2>1. Latest(taken, c, rest) = taken
    BY <1>1, <1>4, LatestOfNone
  <2>2. ASSUME NEW i \in 1..Len(writes), writes[i].code = c
        PROVE  i = 1
    <3>1. SUFFICES ASSUME i # 1
                   PROVE  FALSE
      OBVIOUS
    <3>2. i - 1 \in 1..Len(rest) /\ rest[i - 1] = writes[(i - 1) + 1] /\ (i - 1) + 1 = i
      BY <1>1, <3>1
    <3> QED
      BY <1>4, <2>2, <3>2
  <2>3. CASE writes[1].code = c
    <3>1. IsLast(1, c, writes)
      BY <1>1, <2>2, <2>3 DEF IsLast
    <3>2. Latest(content, c, writes) = writes[1].content
      BY <3>1, LatestIs
    <3> QED
      BY <1>2, <2>1, <2>3, <3>2 DEF rest, taken
  <2>4. CASE writes[1].code # c
    <3>1. Latest(content, c, writes) = content
      BY <2>2, <2>4, LatestOfNone
    <3> QED
      BY <1>2, <2>1, <2>4, <3>1 DEF rest, taken
  <2> QED
    BY <2>3, <2>4
<1> QED
  BY <1>3, <1>4

\* Writes of other documents are lost: what is shown of this one stays.
LEMMA LatestWithoutOthers ==
  ASSUME NEW writes \in Seq(Change), NEW others \in Seq(Change), NEW c, NEW content,
         \A i \in 1..Len(others) : others[i].code # c
  PROVE  Latest(content, c, writes \o others) = Latest(content, c, writes)
<1> DEFINE all == writes \o others
<1>1. /\ all \in Seq(Change) /\ Len(writes) \in Nat /\ Len(others) \in Nat
      /\ Len(all) = Len(writes) + Len(others)
      /\ \A i \in 1..Len(all) : all[i] = IF i <= Len(writes) THEN writes[i]
                                                            ELSE others[i - Len(writes)]
  BY ConcatProperties
<1> HIDE DEF all
<1>2. ASSUME NEW i \in 1..Len(all), all[i].code = c
      PROVE  i \in 1..Len(writes) /\ writes[i].code = c
  <2>1. CASE i <= Len(writes)
    BY <1>1, <1>2, <2>1
  <2>2. CASE ~(i <= Len(writes))
    <3>1. i - Len(writes) \in 1..Len(others) /\ all[i] = others[i - Len(writes)]
      BY <1>1, <2>2
    <3> QED
      BY <1>2, <3>1
  <2> QED
    BY <2>1, <2>2
<1>3. \A i \in 1..Len(writes) : i \in 1..Len(all) /\ all[i] = writes[i]
  BY <1>1
<1>4. CASE \A i \in 1..Len(writes) : writes[i].code # c
  <2>1. \A i \in 1..Len(all) : all[i].code # c
    BY <1>2, <1>4
  <2>2. Latest(content, c, all) = content
    BY <1>1, <2>1, LatestOfNone
  <2>3. Latest(content, c, writes) = content
    BY <1>4, LatestOfNone
  <2> QED
    BY <2>2, <2>3 DEF all
<1>5. CASE \E k \in 1..Len(writes) : writes[k].code = c
  <2>1. PICK m \in 1..Len(writes) : IsLast(m, c, writes)
    BY <1>5, LastWrite
  <2>2. Latest(content, c, writes) = writes[m].content
    BY <2>1, LatestIs
  <2>3. IsLast(m, c, all)
    BY <1>2, <1>3, <2>1 DEF IsLast
  <2>4. Latest(content, c, all) = all[m].content
    BY <1>1, <2>3, LatestIs
  <2> QED
    BY <1>3, <2>2, <2>4 DEF all
<1> QED
  BY <1>4, <1>5

\* What is shown is the database's content or that of a write that waits.
LEMMA LatestFrom ==
  ASSUME NEW writes \in Seq(Change), NEW c, NEW content
  PROVE  \/ Latest(content, c, writes) = content
         \/ \E i \in 1..Len(writes) : Latest(content, c, writes) = writes[i].content
<1>1. CASE \A i \in 1..Len(writes) : writes[i].code # c
  BY <1>1, LatestOfNone
<1>2. CASE \E k \in 1..Len(writes) : writes[k].code = c
  <2>1. PICK m \in 1..Len(writes) : IsLast(m, c, writes)
    BY <1>2, LastWrite
  <2> QED
    BY <2>1, LatestIs
<1> QED
  BY <1>1, <1>2
-----------------------------------------------------------------------------
(* The phones.                                                               *)

\* TypeOK by the parts that change together.
ClientType ==
  /\ db \in [Code -> Content]
  /\ handed \in [Phone -> Seq(Change)] /\ unsent \in [Phone -> Seq(Change)]
ListsType == lists \in [Phone -> Codes] /\ settled \in [Phone -> Codes]
HistoryType == drawn \in Seq([code : Code, phone : Phone]) /\ interrupted \subseteq Code
ScreenType ==
  /\ tab \in [Phone -> {"games", "join", "host", "crashed"}]
  /\ dialog \in [Phone -> {"none", "found", "notFound"}]
  /\ \A p \in Phone : dialog[p] # "none" => tab[p] = "join"
FieldType == field \in [Phone -> Text] /\ lookups \in [Phone -> Seq(Code)]
HostType == page \in [Phone -> {"title", "groups"}] /\ groups \in [Phone -> Seq(Name)]

PhoneType == ClientType /\ ListsType /\ HistoryType /\ ScreenType /\ FieldType /\ HostType

\* A bracket is open over the table of games, and the one that is open for its
\* host is of a code that names a document.
BracketType ==
  /\ bracket \in [Phone -> [code : Text, host : BOOLEAN, shown : Content]]
  /\ \A p \in Phone : bracket[p].host => bracket[p].code \in Code
  /\ \A p \in Phone : InBracket(p) => tab[p] = "games"

TypeInv == PhoneType /\ BracketType

LEMMA TypeInvOK == TypeInv => TypeOK
BY DEF TypeInv, PhoneType, TypeOK, BracketType,
   ClientType, ListsType, HistoryType, ScreenType, FieldType, HostType

LEMMA RemoveAtType ==
  ASSUME NEW S, NEW s \in Seq(S), NEW i \in 1..Len(s)
  PROVE  RemoveAt(s, i) \in Seq(S)
<1>1. \A k \in 1..i-1 : s[k] \in S
  BY ElementOfSeq
<1>2. \A k \in i+1..Len(s) : s[k] \in S
  BY ElementOfSeq
<1>3. SubSeq(s, 1, i-1) \in Seq(S)
  BY <1>1, SubSeqProperties
<1>4. SubSeq(s, i+1, Len(s)) \in Seq(S)
  BY <1>2, SubSeqProperties
<1> QED
  BY <1>3, <1>4, ConcatProperties DEF RemoveAt

\* A field is padded to a size that is not below the number of its groups.
LEMMA PaddedSizeFacts ==
  ASSUME NEW n \in Nat
  PROVE  PaddedSize(n) \in Nat /\ n <= PaddedSize(n)
<1> DEFINE free == {size \in n..2*n : \A m \in n..size : ~IsPowerOfTwo(m)}
<1>1. free \in SUBSET (n..2*n) /\ IsFiniteSet(n..2*n)
  BY FS_Interval
<1> HIDE DEF free
<1>2. Cardinality(free) \in Nat
  BY <1>1, FS_Subset, FS_CardinalityType
<1>3. PaddedSize(n) = n + Cardinality(free)
  BY DEF PaddedSize, free
<1> QED
  BY <1>2, <1>3

\* generate's field: the names, and FREE after them.
LEMMA PaddedFacts ==
  ASSUME NEW names \in Seq(Name)
  PROVE  /\ Padded(names) \in Seq(Name \cup {Free})
         /\ Len(Padded(names)) = PaddedSize(Len(names))
         /\ \A i \in 1..PaddedSize(Len(names)) :
              Padded(names)[i] = IF i <= Len(names) THEN names[i] ELSE Free
<1> DEFINE n == Len(names)
           size == PaddedSize(n)
           padded == [i \in 1..size |-> IF i <= n THEN names[i] ELSE Free]
<1>1. n \in Nat /\ size \in Nat
  BY PaddedSizeFacts
<1>2. Padded(names) = padded
  BY DEF Padded
<1> HIDE DEF size
<1>3. \A i \in 1..size : (IF i <= n THEN names[i] ELSE Free) \in Name \cup {Free}
  BY <1>1
<1>4. padded \in Seq(Name \cup {Free}) /\ Len(padded) = size
  BY <1>1, <1>3
<1>5. \A i \in 1..size : padded[i] = IF i <= n THEN names[i] ELSE Free
  OBVIOUS
<1> QED
  BY <1>2, <1>4, <1>5 DEF size

LEMMA PaddedIsField ==
  ASSUME NEW names \in Seq(Name), Len(names) >= 2,
         \A i, j \in 1..Len(names) : names[i] = names[j] => i = j
  PROVE  IsField(Padded(names))
<1> DEFINE n == Len(names)
           size == PaddedSize(n)
           padded == Padded(names)
<1>1. n \in Nat /\ size \in Nat /\ n <= size /\ n >= 2
  BY PaddedSizeFacts
<1>2. /\ Len(padded) = size
      /\ \A i \in 1..size : padded[i] = IF i <= n THEN names[i] ELSE Free
  BY PaddedFacts
<1>3. size = PaddedSize(n)
  OBVIOUS
<1> HIDE DEF size, padded
<1>4. \A i, j \in 1..n : padded[i] = padded[j] => i = j
  BY <1>1, <1>2
<1>5. \A i \in n+1..Len(padded) : padded[i] = Free
  BY <1>1, <1>2
<1>6. n \in 2..Len(padded)
  BY <1>1, <1>2
<1>7. IsField(padded)
  BY <1>2, <1>3, <1>4, <1>5, <1>6 DEF IsField
<1> QED
  BY <1>7 DEF padded
-----------------------------------------------------------------------------
(* Type correctness.                                                         *)
LEMMA NoBracketFacts ==
  /\ NoBracket.code = Empty /\ ~NoBracket.host /\ NoBracket.shown = Absent
  /\ NoBracket \in [code : Text, host : BOOLEAN, shown : Content]
<1>1. Absent \in Content
  BY DEF Absent, Content
<1> QED
  BY <1>1 DEF NoBracket, Text

LEMMA InitType == Init => TypeInv
<1> SUFFICES ASSUME Init
             PROVE  TypeInv
  OBVIOUS
<1>1. ClientType /\ ListsType /\ HistoryType
  BY DEF Init, PhonesInit, ClientType, ListsType, HistoryType, Content, Absent, Codes, NoCodes
<1>2. ScreenType
  BY DEF Init, PhonesInit, JoiningInit, ScreenType
<1>3. FieldType /\ HostType
  BY DEF Init, JoiningInit, HostingInit, FieldType, HostType, Text
<1>4. BracketType
  BY NoBracketFacts DEF Init, HostingInit, BracketType, InBracket
<1> QED
  BY <1>1, <1>2, <1>3, <1>4 DEF TypeInv, PhoneType

LEMMA HandType ==
  ASSUME ClientType, NEW p \in Phone, NEW c \in Code, NEW content \in Content,
         Hand(p, c, content)
  PROVE  handed' \in [Phone -> Seq(Change)]
<1>1. [code |-> c, content |-> content] \in Change
  BY DEF Change
<1>2. Append(handed[p], [code |-> c, content |-> content]) \in Seq(Change)
  BY <1>1, AppendProperties DEF ClientType
<1> QED
  BY <1>2 DEF ClientType, Hand

LEMMA JoinType ==
  ASSUME TypeInv, NEW p \in Phone, Join(p)
  PROVE  PhoneType'
<1>1. HostType' /\ ClientType' /\ HistoryType' /\ settled' = settled
  BY DEF TypeInv, PhoneType, HostType, ClientType, HistoryType, Join, hosting, entering,
         client, defaults, history, Type, JoinButton, Answer, Yes, TryAgain
<1>2. ASSUME NEW text \in Text, Type(p, text)
      PROVE  ListsType' /\ ScreenType' /\ FieldType'
  BY <1>2 DEF Type, TypeInv, PhoneType, ListsType, ScreenType, FieldType, defaults
<1>3. ASSUME JoinButton(p)
      PROVE  ListsType' /\ ScreenType' /\ FieldType'
  <2>1. field[p] \in Code /\ lookups[p] \in Seq(Code)
    BY <1>3 DEF JoinButton, TypeInv, PhoneType, FieldType, Text
  <2>2. Append(lookups[p], field[p]) \in Seq(Code)
    BY <2>1, AppendProperties
  <2> QED
    BY <1>3, <2>2 DEF JoinButton, TypeInv, PhoneType, ListsType, ScreenType, FieldType, defaults
<1>4. ASSUME NEW i \in 1..MaxLookups, Answer(p, i)
      PROVE  ListsType' /\ ScreenType' /\ FieldType'
  <2>1. lookups[p] \in Seq(Code) /\ i \in 1..Len(lookups[p])
    BY <1>4 DEF Answer, TypeInv, PhoneType, FieldType
  <2>2. RemoveAt(lookups[p], i) \in Seq(Code)
    BY <2>1, RemoveAtType
  <2>3. FieldType'
    BY <1>4, <2>2 DEF Answer, TypeInv, PhoneType, FieldType
  <2>4. lists' = lists \/ lists' = [lists EXCEPT ![p].joined = @ \cup {field[p]}]
    BY <1>4 DEF Answer
  <2>5. field[p] \in Text /\ lists[p] \in Codes
    BY DEF TypeInv, PhoneType, FieldType, ListsType
  <2>6. lists' \in [Phone -> Codes]
    BY <2>4, <2>5 DEF TypeInv, PhoneType, ListsType, Codes
  <2>7. tab' = tab /\ (Present(p, "found") \/ Present(p, "notFound"))
    BY <1>4 DEF Answer
  <2>8. ScreenType'
    BY <2>7 DEF Present, OnJoinTab, TypeInv, PhoneType, ScreenType
  <2> QED
    BY <1>1, <2>3, <2>6, <2>8 DEF TypeInv, PhoneType, ListsType
<1>5. ASSUME Yes(p)
      PROVE  ListsType' /\ ScreenType' /\ FieldType'
  BY <1>5 DEF Yes, TypeInv, PhoneType, ListsType, ScreenType, FieldType, Text, defaults, Showing
<1>6. ASSUME TryAgain(p)
      PROVE  ListsType' /\ ScreenType' /\ FieldType'
  BY <1>6 DEF TryAgain, TypeInv, PhoneType, ListsType, ScreenType, FieldType, Text, defaults
<1>7. ListsType' /\ ScreenType' /\ FieldType'
  BY <1>2, <1>3, <1>4, <1>5, <1>6 DEF Join
<1> QED
  BY <1>1, <1>7 DEF TypeInv, PhoneType

\* The phones' own lists after a code is drawn or taken off.
LEMMA ListsChangeType ==
  ASSUME ListsType, NEW p \in Phone, NEW c \in Code, settled' = settled,
         \/ lists' = lists
         \/ lists' = [lists EXCEPT ![p].hosted = @ \cup {c}]
         \/ lists' = [lists EXCEPT ![p].hosted = @ \ {c}]
         \/ lists' = [lists EXCEPT ![p].joined = @ \ {c}]
  PROVE  ListsType'
BY DEF ListsType, Codes

LEMMA HostStepType ==
  ASSUME TypeInv, NEW p \in Phone, Host(p)
  PROVE  PhoneType'
<1>1. FieldType' /\ dialog' = dialog
  BY DEF Host, joining, TypeInv, PhoneType, FieldType
<1>2. ASSUME Create(p) \/ Back(p)
      PROVE  PhoneType'
  <2>1. UNCHANGED <<client, defaults, tab, history>>
    BY <1>2 DEF Create, Back
  <2>2. ClientType' /\ ListsType' /\ HistoryType' /\ ScreenType'
    BY <1>1, <2>1 DEF client, defaults, history,
       TypeInv, PhoneType, ClientType, ListsType, HistoryType, ScreenType
  <2>3. CASE Create(p)
    BY <2>2, <2>3, <1>1 DEF Create, TypeInv, PhoneType, HostType
  <2>4. CASE Back(p)
    BY <2>2, <2>4, <1>1 DEF Back, PageLeft, TypeInv, PhoneType, HostType
  <2> QED
    BY <1>2, <2>3, <2>4
<1>3. ASSUME NEW name \in Name, AddGroup(p, name)
      PROVE  PhoneType'
  <2>1. Append(groups[p], name) \in Seq(Name)
    BY AppendProperties DEF TypeInv, PhoneType, HostType
  <2> QED
    BY <1>1, <1>3, <2>1 DEF AddGroup, client, defaults, history,
       TypeInv, PhoneType, ClientType, ListsType, HistoryType, ScreenType, HostType
<1>4. ASSUME NEW c \in Code, Done(p, c)
      PROVE  PhoneType'
  <2>1. [state |-> "stored", groups |-> Padded(groups[p])] \in Content
    BY PaddedFacts DEF Content, TypeInv, PhoneType, HostType
  <2>2. ClientType'
    BY <1>4, <2>1, HandType DEF Done, TypeInv, PhoneType, ClientType
  <2>3. HistoryType'
    <3>1. Append(drawn, [code |-> c, phone |-> p]) \in Seq([code : Code, phone : Phone])
      BY AppendProperties DEF TypeInv, PhoneType, HistoryType
    <3> QED
      BY <1>4, <3>1 DEF Done, TypeInv, PhoneType, HistoryType
  <2>4. ListsType'
    BY <1>4, ListsChangeType DEF Done, TypeInv, PhoneType
  <2>5. HostType'
    BY <1>4 DEF Done, PageLeft, TypeInv, PhoneType, HostType
  <2>6. ScreenType'
    BY <1>1, <1>4 DEF Done, OnHostPage, Showing, TypeInv, PhoneType, ScreenType
  <2> QED
    BY <1>1, <2>2, <2>3, <2>4, <2>5, <2>6 DEF TypeInv, PhoneType
<1>5. ASSUME NEW c \in Code, DeleteHosted(p, c)
      PROVE  PhoneType'
  <2>1. ClientType'
    <3>1. Deleted \in Content
      BY DEF Deleted, Content
    <3> QED
      BY <1>5, <3>1, HandType DEF DeleteHosted, TypeInv, PhoneType, ClientType
  <2>2. ListsType'
    BY <1>5, ListsChangeType DEF DeleteHosted, TypeInv, PhoneType
  <2> QED
    BY <1>1, <1>5, <2>1, <2>2 DEF DeleteHosted, history, hosting, entering,
       TypeInv, PhoneType, HistoryType, ScreenType, HostType
<1>6. ASSUME NEW c \in Code, DeleteJoined(p, c)
      PROVE  PhoneType'
  <2>1. ListsType'
    BY <1>6, ListsChangeType DEF DeleteJoined, TypeInv, PhoneType
  <2> QED
    BY <1>1, <1>6, <2>1 DEF DeleteJoined, client, history, hosting, entering,
       TypeInv, PhoneType, ClientType, HistoryType, ScreenType, HostType
<1>7. ASSUME \/ \E kind \in {"hosted", "joined"} : \E c \in Code : OpenBracket(p, kind, c)
             \/ ShowBracket(p)
      PROVE  PhoneType'
  <2>1. UNCHANGED <<client, defaults, tab, history, entering>>
    BY <1>7 DEF OpenBracket, ShowBracket
  <2> QED
    BY <1>1, <2>1 DEF client, defaults, history, entering, TypeInv, PhoneType,
       ClientType, ListsType, HistoryType, ScreenType, HostType
<1>8. ASSUME StoreRound(p)
      PROVE  PhoneType'
  <2>1. bracket[p].code \in Code /\ bracket[p].shown \in Content
    BY <1>8 DEF StoreRound, TypeInv, BracketType
  <2>2. Hand(p, bracket[p].code, bracket[p].shown) /\ UNCHANGED <<db, unsent>>
    BY <1>8 DEF StoreRound
  <2>3. ClientType'
    BY <2>1, <2>2, HandType DEF TypeInv, PhoneType, ClientType
  <2>4. UNCHANGED <<defaults, tab, history, hosting>>
    BY <1>8 DEF StoreRound
  <2> QED
    BY <1>1, <2>3, <2>4 DEF defaults, history, hosting, entering, TypeInv, PhoneType,
       ListsType, HistoryType, ScreenType, HostType
<1>9. ASSUME LeaveBracket(p)
      PROVE  PhoneType'
  <2>1. UNCHANGED <<client, defaults, history, entering>>
    BY <1>9 DEF LeaveBracket
  <2>2. tab' = [tab EXCEPT ![p] = Showing("games", lists[p])] /\ tab[p] = "games"
    BY <1>9 DEF LeaveBracket, TypeInv, BracketType
  <2>3. ScreenType'
    BY <1>1, <2>2 DEF Showing, TypeInv, PhoneType, ScreenType
  <2> QED
    BY <1>1, <2>1, <2>3 DEF client, defaults, history, entering, TypeInv, PhoneType,
       ClientType, ListsType, HistoryType, HostType
<1> QED
  BY <1>2, <1>3, <1>4, <1>5, <1>6, <1>7, <1>8, <1>9 DEF Host

LEMMA SaveType ==
  ASSUME TypeInv, NEW p \in Phone, Save(p)
  PROVE  PhoneType'
<1>1. UNCHANGED <<joining, hosting, tab, drawn, interrupted>>
  BY DEF Save, Settle, Persist, Commit, history
<1>2. HistoryType' /\ ScreenType' /\ FieldType' /\ HostType'
  BY <1>1 DEF TypeInv, PhoneType, HistoryType, ScreenType, FieldType, HostType,
         joining, hosting, entering
<1>3. ASSUME Settle(p)
      PROVE  ClientType' /\ ListsType'
  BY <1>3 DEF Settle, TypeInv, PhoneType, ClientType, ListsType, client
<1>4. ASSUME Persist(p)
      PROVE  ClientType' /\ ListsType'
  <2>1. /\ handed[p] \in Seq(Change) /\ handed[p] # << >> /\ unsent[p] \in Seq(Change)
    BY <1>4 DEF Persist, TypeInv, PhoneType, ClientType
  <2>2. Append(unsent[p], Head(handed[p])) \in Seq(Change) /\ Tail(handed[p]) \in Seq(Change)
    BY <2>1, HeadTailProperties, AppendProperties
  <2> QED
    BY <1>4, <2>2 DEF Persist, TypeInv, PhoneType, ClientType, ListsType, defaults
<1>5. ASSUME Commit(p)
      PROVE  ClientType' /\ ListsType'
  <2>1. unsent[p] \in Seq(Change) /\ unsent[p] # << >>
    BY <1>5 DEF Commit, TypeInv, PhoneType, ClientType
  <2>2. Head(unsent[p]) \in Change /\ Tail(unsent[p]) \in Seq(Change)
    BY <2>1, HeadTailProperties
  <2>3. Head(unsent[p]).code \in Code /\ Head(unsent[p]).content \in Content
    BY <2>2 DEF Change
  <2> QED
    BY <1>5, <2>2, <2>3 DEF Commit, TypeInv, PhoneType, ClientType, ListsType, defaults
<1> QED
  BY <1>2, <1>3, <1>4, <1>5 DEF Save, TypeInv, PhoneType

LEMMA RestartType ==
  ASSUME TypeInv, NEW p \in Phone, Restart(p)
  PROVE  PhoneType'
<1>1. ClientType'
  BY DEF Restart, Restarted, TypeInv, PhoneType, ClientType
<1>2. ListsType'
  BY DEF Restart, Restarted, TypeInv, PhoneType, ListsType
<1>3. HistoryType'
  <2>1. \A i \in DOMAIN handed[p] : handed[p][i].code \in Code
    <3>1. handed[p] \in Seq(Change)
      BY DEF TypeInv, PhoneType, ClientType
    <3>2. \A i \in DOMAIN handed[p] : handed[p][i] \in Change
      BY <3>1
    <3> QED
      BY <3>2 DEF Change
  <2>2. interrupted' \subseteq Code
    BY <2>1 DEF Restart, Restarted, TypeInv, PhoneType, HistoryType
  <2> QED
    BY <2>2 DEF Restart, Restarted, TypeInv, PhoneType, HistoryType
<1>4. ScreenType' /\ FieldType' /\ HostType'
  BY DEF Restart, Restarted, JoiningRestarted, HostingRestarted, PageLeft, Showing,
     TypeInv, PhoneType, ScreenType, FieldType, HostType, Text
<1> QED
  BY <1>1, <1>2, <1>3, <1>4 DEF TypeInv, PhoneType

\* What a step does to the brackets: it keeps them all, and the tabs they are
\* open over; or one is left, its app perhaps killed; or opened, or drawn anew.
BracketsKept == bracket' = bracket /\ \A q \in Phone : InBracket(q) => tab'[q] = tab[q]
BracketLeft(p) ==
  /\ bracket' = [bracket EXCEPT ![p] = NoBracket]
  /\ \A q \in Phone \ {p} : tab'[q] = tab[q]
BracketUsed(p) ==
  \/ \E kind \in {"hosted", "joined"} : \E c \in Code : OpenBracket(p, kind, c)
  \/ ShowBracket(p)

LEMMA BracketSteps ==
  ASSUME TypeInv, [Next]_vars
  PROVE  BracketsKept \/ \E p \in Phone : BracketLeft(p) \/ BracketUsed(p)
<1>1. tab \in [Phone -> {"games", "join", "host", "crashed"}]
  BY DEF TypeInv, PhoneType, ScreenType
<1>2. \A p \in Phone : InBracket(p) => tab[p] = "games"
  BY DEF TypeInv, BracketType
<1>3. ASSUME UNCHANGED <<tab, bracket>>
      PROVE  BracketsKept
  BY <1>3 DEF BracketsKept
<1>4. ASSUME NEW p \in Phone, NEW t, ~InBracket(p), tab' = [tab EXCEPT ![p] = t],
             UNCHANGED bracket
      PROVE  BracketsKept
  BY <1>1, <1>4 DEF BracketsKept
<1>5. ASSUME NEW p \in Phone, Join(p)
      PROVE  BracketsKept
  <2>1. UNCHANGED bracket
    BY <1>5 DEF Join, hosting
  <2>2. CASE Yes(p)
    <3>1. ~InBracket(p) /\ tab' = [tab EXCEPT ![p] = Showing("games", lists[p])]
      BY <1>2, <2>2 DEF Yes, TypeInv, PhoneType, ScreenType
    <3> QED
      BY <1>4, <2>1, <3>1
  <2>3. CASE ~Yes(p)
    BY <1>3, <1>5, <2>1, <2>3 DEF Join, Type, JoinButton, Answer, TryAgain
  <2> QED
    BY <2>2, <2>3
<1>6. ASSUME NEW p \in Phone, Host(p)
      PROVE  BracketsKept \/ BracketLeft(p) \/ BracketUsed(p)
  <2>1. ASSUME NEW c \in Code, Done(p, c)
        PROVE  BracketsKept
    <3>1. ~InBracket(p) /\ UNCHANGED bracket
          /\ tab' = [tab EXCEPT ![p] = Showing("games", lists[p])]
      BY <1>2, <2>1 DEF Done, OnHostPage
    <3> QED
      BY <1>4, <3>1
  <2>2. ASSUME LeaveBracket(p)
        PROVE  BracketLeft(p)
    BY <1>1, <2>2 DEF LeaveBracket, BracketLeft
  <2>3. CASE Create(p) \/ Back(p) \/ \E name \in Name : AddGroup(p, name)
    BY <1>3, <2>3 DEF Create, Back, AddGroup
  <2>4. CASE StoreRound(p) \/ \E c \in Code : DeleteHosted(p, c) \/ DeleteJoined(p, c)
    BY <1>3, <2>4 DEF StoreRound, DeleteHosted, DeleteJoined, hosting
  <2> QED
    BY <1>6, <2>1, <2>2, <2>3, <2>4 DEF Host, BracketUsed
<1>7. ASSUME NEW p \in Phone, Save(p)
      PROVE  BracketsKept
  BY <1>3, <1>7 DEF Save, Settle, Persist, Commit, hosting
<1>8. ASSUME NEW p \in Phone, Restart(p)
      PROVE  BracketLeft(p)
  BY <1>1, <1>8 DEF Restart, Restarted, HostingRestarted, BracketLeft
<1>9. ASSUME NEW p \in Phone, NEW t \in {"games", "join", "host"}, SelectTab(p, t)
      PROVE  BracketsKept
  <2>1. ~InBracket(p) /\ UNCHANGED bracket /\ tab' = [tab EXCEPT ![p] = Showing(t, lists[p])]
    BY <1>9 DEF SelectTab, hosting
  <2> QED
    BY <1>4, <2>1
<1> QED
  BY <1>3, <1>5, <1>6, <1>7, <1>8, <1>9 DEF Next, vars, hosting

\* What a phone's client shows of a code is a document of the right form.
LEMMA LocalType ==
  ASSUME ClientType, NEW p \in Phone, NEW c \in Code
  PROVE  Local(p, c) \in Content
<1>1. unsent[p] \in Seq(Change) /\ handed[p] \in Seq(Change) /\ db[c] \in Content
  BY DEF ClientType
<1>2. Waiting(p) \in Seq(Change)
  BY <1>1, ConcatProperties DEF Waiting
<1>3. ASSUME NEW i \in 1..Len(Waiting(p))
      PROVE  Waiting(p)[i].content \in Content
  <2>1. Waiting(p)[i] \in Change
    BY <1>2, ElementOfSeq
  <2> QED
    BY <2>1 DEF Change
<1> QED
  BY <1>1, <1>2, <1>3, LatestFrom DEF Local

LEMMA BracketTypeStep ==
  ASSUME TypeInv, [Next]_vars
  PROVE  BracketType'
<1>1. /\ bracket \in [Phone -> [code : Text, host : BOOLEAN, shown : Content]]
      /\ \A q \in Phone : bracket[q].host => bracket[q].code \in Code
      /\ \A q \in Phone : bracket[q].code # Empty => tab[q] = "games"
  BY DEF TypeInv, BracketType, InBracket
<1>2. CASE BracketsKept
  BY <1>1, <1>2 DEF BracketsKept, BracketType, InBracket
<1>3. ASSUME NEW p \in Phone, BracketLeft(p)
      PROVE  BracketType'
  <2>1. bracket' \in [Phone -> [code : Text, host : BOOLEAN, shown : Content]]
    BY <1>1, <1>3, NoBracketFacts DEF BracketLeft
  <2>2. bracket'[p] = NoBracket /\ \A q \in Phone \ {p} : bracket'[q] = bracket[q] /\ tab'[q] = tab[q]
    BY <1>1, <1>3 DEF BracketLeft
  <2> QED
    BY <1>1, <2>1, <2>2, NoBracketFacts DEF BracketType, InBracket
<1>4. ASSUME NEW p \in Phone, NEW kind \in {"hosted", "joined"}, NEW c \in Code,
             OpenBracket(p, kind, c)
      PROVE  BracketType'
  <2> DEFINE opened == [code |-> c, host |-> kind = "hosted", shown |-> Absent]
  <2>1. opened \in [code : Text, host : BOOLEAN, shown : Content] /\ opened.code = c
    BY DEF Text, Absent, Content
  <2>2. bracket' = [bracket EXCEPT ![p] = opened] /\ tab' = tab /\ tab[p] = "games"
    BY <1>4 DEF OpenBracket, OnTable
  <2> HIDE DEF opened
  <2>3. bracket' \in [Phone -> [code : Text, host : BOOLEAN, shown : Content]]
    BY <1>1, <2>1, <2>2
  <2>4. bracket'[p] = opened /\ \A q \in Phone \ {p} : bracket'[q] = bracket[q]
    BY <1>1, <2>2
  <2> QED
    BY <1>1, <2>1, <2>2, <2>3, <2>4 DEF BracketType, InBracket
<1>5. ASSUME NEW p \in Phone, ShowBracket(p)
      PROVE  BracketType'
  <2> DEFINE latest == Local(p, bracket[p].code)
  <2>1. bracket[p].code \in Code
    BY <1>1, <1>5 DEF ShowBracket, InBracket, Text
  <2>2. latest \in Content
    BY <2>1, LocalType DEF TypeInv, PhoneType
  <2>3. bracket' = [bracket EXCEPT ![p].shown = latest] /\ tab' = tab
    BY <1>5 DEF ShowBracket
  <2> HIDE DEF latest
  <2>4. bracket' \in [Phone -> [code : Text, host : BOOLEAN, shown : Content]]
    BY <1>1, <2>2, <2>3
  <2>5. \A q \in Phone : bracket'[q].code = bracket[q].code /\ bracket'[q].host = bracket[q].host
    BY <1>1, <2>3
  <2> QED
    BY <1>1, <2>3, <2>4, <2>5 DEF BracketType, InBracket
<1> QED
  BY <1>2, <1>3, <1>4, <1>5, BracketSteps DEF BracketUsed

LEMMA TypeStep == TypeInv /\ [Next]_vars => TypeInv'
<1> SUFFICES ASSUME TypeInv, [Next]_vars
             PROVE  PhoneType'
  BY BracketTypeStep DEF TypeInv
<1>1. ASSUME NEW p \in Phone, NEW t \in {"games", "join", "host"}, SelectTab(p, t)
      PROVE  PhoneType'
  BY <1>1 DEF SelectTab, Showing, client, defaults, history, joining, hosting, entering, TypeInv, PhoneType,
     ClientType, ListsType, HistoryType, ScreenType, FieldType, HostType
<1>2. CASE UNCHANGED vars
  BY <1>2 DEF vars, client, defaults, history, joining, hosting, entering, TypeInv, PhoneType,
     ClientType, ListsType, HistoryType, ScreenType, FieldType, HostType
<1> QED
  BY <1>1, <1>2, JoinType, HostStepType, SaveType, RestartType DEF Next

\* TypeOK: every variable keeps its type, and an alert is only up over the tab
\* of the screen that presented it.
THEOREM CodesTypeCorrect == Spec => []TypeOK
<1>1. Spec => []TypeInv
  BY InitType, TypeStep, PTL DEF Spec
<1> QED
  BY <1>1, TypeInvOK, PTL
-----------------------------------------------------------------------------
(* Who writes which documents, and what.                                     *)
CodesOf(p) == {drawn[k].code : k \in {i \in DOMAIN drawn : drawn[i].phone = p}}

\* What is true of every content that is stored or on its way, and of every
\* change a phone makes that has drawn these codes.
Drawable(content) == content.state = "stored" => IsField(content.groups)
AllOwn(own, changes) ==
  \A i \in 1..Len(changes) : changes[i].code \in own /\ Drawable(changes[i].content)

\* A change is called for when a code is drawn, or for a code that is on the
\* list of hosted ones; so the codes of that list, those a restart would find
\* on it too, have to be ones that the phone drew.
OwnPhone(p) ==
  /\ AllOwn(CodesOf(p), handed[p]) /\ AllOwn(CodesOf(p), unsent[p])
  /\ lists[p].hosted \subseteq CodesOf(p) /\ settled[p].hosted \subseteq CodesOf(p)

\* So are the codes of the brackets that are open for the host, which stay on the
\* list, and what such a bracket stores again is what some host stored.
OwnBracket(p) ==
  /\ bracket[p].host => bracket[p].code \in lists[p].hosted
  /\ Drawable(bracket[p].shown)

EnteredOnce(p) ==
  \A i, j \in 1..Len(groups[p]) : groups[p][i] = groups[p][j] => i = j

OwnInv ==
  /\ \A c \in Code : Drawable(db[c])
  /\ \A p \in Phone : OwnPhone(p) /\ OwnBracket(p) /\ EnteredOnce(p)

\* The steps that touch neither documents nor lists of hosted codes.
Quiet ==
  /\ UNCHANGED <<db, handed, unsent, settled, drawn, interrupted>>
  /\ \A p \in Phone : lists'[p].hosted = lists[p].hosted

Telling(p) ==
  \/ Settle(p) \/ Persist(p) \/ Commit(p) \/ Restart(p)
  \/ \E c \in Code : Done(p, c) \/ DeleteHosted(p, c)
  \/ StoreRound(p)

LEMMA Steps ==
  ASSUME TypeInv, [Next]_vars
  PROVE  Quiet \/ \E p \in Phone : Telling(p)
<1>1. CASE UNCHANGED vars
  BY <1>1 DEF vars, client, defaults, history, Quiet
<1>2. ASSUME NEW p \in Phone, Join(p)
      PROVE  Quiet
  <2>1. UNCHANGED <<db, handed, unsent, settled, drawn, interrupted>>
    BY <1>2 DEF Join, Type, JoinButton, Answer, Yes, TryAgain, client, defaults, history
  <2>2. lists' = lists \/ lists' = [lists EXCEPT ![p].joined = @ \cup {field[p]}]
    BY <1>2 DEF Join, Type, JoinButton, Answer, Yes, TryAgain, defaults
  <2> QED
    BY <2>1, <2>2 DEF Quiet, TypeInv, PhoneType, ListsType, Codes
<1>3. ASSUME NEW p \in Phone, Host(p)
      PROVE  Quiet \/ Telling(p)
  <2>1. CASE Create(p) \/ Back(p) \/ \E name \in Name : AddGroup(p, name)
    BY <2>1 DEF Create, Back, AddGroup, client, defaults, history, Quiet
  <2>2. ASSUME NEW c \in Code, DeleteJoined(p, c)
        PROVE  Quiet
    <3>1. lists' = [lists EXCEPT ![p].joined = @ \ {c}]
      BY <2>2 DEF DeleteJoined
    <3> QED
      BY <2>2, <3>1 DEF DeleteJoined, client, history, Quiet, TypeInv, PhoneType, ListsType, Codes
  <2>3. CASE BracketUsed(p) \/ LeaveBracket(p)
    BY <2>3 DEF BracketUsed, OpenBracket, ShowBracket, LeaveBracket, client, defaults, history, Quiet
  <2> QED
    BY <1>3, <2>1, <2>2, <2>3 DEF Host, Telling, BracketUsed
<1>4. ASSUME NEW p \in Phone, NEW t \in {"games", "join", "host"}, SelectTab(p, t)
      PROVE  Quiet
  BY <1>4 DEF SelectTab, client, defaults, history, Quiet
<1> QED
  BY <1>1, <1>2, <1>3, <1>4 DEF Next, Save, Telling

\* The groups that are being entered: one more that is new, or none any more.
LEMMA EnteredStep ==
  ASSUME TypeInv, [Next]_vars, NEW q \in Phone, EnteredOnce(q)
  PROVE  EnteredOnce(q)'
<1>1. \/ groups'[q] = groups[q]
      \/ groups'[q] = << >>
      \/ \E name \in Name : name \notin ToSet(groups[q]) /\ groups'[q] = Append(groups[q], name)
  <2>1. CASE UNCHANGED groups
    BY <2>1
  <2>2. ASSUME NEW p \in Phone, PageLeft(p)
        PROVE  groups'[q] = groups[q] \/ groups'[q] = << >>
    BY <2>2 DEF PageLeft, TypeInv, PhoneType, HostType
  <2>3. ASSUME NEW p \in Phone, NEW name \in Name, AddGroup(p, name)
        PROVE  \/ groups'[q] = groups[q]
               \/ name \notin ToSet(groups[q]) /\ groups'[q] = Append(groups[q], name)
    BY <2>3 DEF AddGroup, TypeInv, PhoneType, HostType
  <2>4. ASSUME NEW p \in Phone, Host(p)
        PROVE  \/ UNCHANGED groups \/ PageLeft(p)
               \/ \E name \in Name : AddGroup(p, name)
    BY <2>4 DEF Host, Create, Back, Done, DeleteHosted, DeleteJoined, OpenBracket, ShowBracket,
       StoreRound, LeaveBracket, hosting, entering
  <2>5. \/ UNCHANGED groups
        \/ \E p \in Phone : PageLeft(p) \/ \E name \in Name : AddGroup(p, name)
    BY <2>4 DEF Next, vars, Join, Save, Restart, HostingRestarted, SelectTab, hosting, entering
  <2> QED
    BY <2>1, <2>2, <2>3, <2>5
<1>2. groups[q] \in Seq(Name)
  BY DEF TypeInv, PhoneType, HostType
<1>3. ASSUME NEW name \in Name, name \notin ToSet(groups[q]), groups'[q] = Append(groups[q], name)
      PROVE  \A i, j \in 1..Len(groups'[q]) : groups'[q][i] = groups'[q][j] => i = j
  <2>1. /\ Len(groups'[q]) = Len(groups[q]) + 1 /\ Len(groups[q]) \in Nat
        /\ groups'[q][Len(groups[q]) + 1] = name
        /\ \A i \in 1..Len(groups[q]) : groups'[q][i] = groups[q][i] /\ groups[q][i] # name
    BY <1>2, <1>3, AppendProperties DEF ToSet
  <2>2. \A i \in 1..Len(groups'[q]) : i = Len(groups[q]) + 1 \/ i \in 1..Len(groups[q])
    BY <2>1
  <2> QED
    BY <2>1, <2>2 DEF EnteredOnce
<1>4. CASE groups'[q] = << >>
  BY <1>4 DEF EnteredOnce
<1>5. CASE groups'[q] = groups[q]
  BY <1>5 DEF EnteredOnce
<1> QED
  BY <1>1, <1>3, <1>4, <1>5 DEF EnteredOnce

\* A draw is never undone.
Draws == drawn' = drawn \/ \E draw \in [code : Code, phone : Phone] : drawn' = Append(drawn, draw)

LEMMA CodesOfStay ==
  ASSUME HistoryType, Draws, NEW p
  PROVE  CodesOf(p) \subseteq CodesOf(p)'
<1>1. CASE drawn' = drawn
  BY <1>1 DEF CodesOf
<1>2. ASSUME NEW draw \in [code : Code, phone : Phone], drawn' = Append(drawn, draw)
      PROVE  CodesOf(p) \subseteq CodesOf(p)'
  <2>1. /\ DOMAIN drawn = 1..Len(drawn) /\ DOMAIN drawn' = 1..Len(drawn) + 1 /\ Len(drawn) \in Nat
        /\ \A i \in 1..Len(drawn) : drawn'[i] = drawn[i]
    BY <1>2, AppendProperties, LenProperties DEF HistoryType
  <2> QED
    BY <2>1 DEF CodesOf
<1> QED
  BY <1>1, <1>2 DEF Draws

LEMMA AllOwnOfMore ==
  ASSUME NEW own, NEW more, own \subseteq more, NEW changes, AllOwn(own, changes)
  PROVE  AllOwn(more, changes)
BY DEF AllOwn

LEMMA AllOwnAppend ==
  ASSUME NEW own, NEW changes \in Seq(Change), NEW change \in Change,
         AllOwn(own, changes), change.code \in own, Drawable(change.content)
  PROVE  AllOwn(own, Append(changes, change))
<1>1. /\ Len(Append(changes, change)) = Len(changes) + 1 /\ Len(changes) \in Nat
      /\ Append(changes, change)[Len(changes) + 1] = change
      /\ \A i \in 1..Len(changes) : Append(changes, change)[i] = changes[i]
  BY AppendProperties
<1> QED
  BY <1>1 DEF AllOwn

LEMMA AllOwnTail ==
  ASSUME NEW own, NEW changes \in Seq(Change), changes # << >>, AllOwn(own, changes)
  PROVE  /\ Head(changes) \in Change /\ Head(changes).code \in own
         /\ Drawable(Head(changes).content) /\ AllOwn(own, Tail(changes))
<1>1. /\ Len(changes) \in Nat /\ Len(changes) >= 1 /\ Head(changes) = changes[1]
      /\ Len(Tail(changes)) = Len(changes) - 1 /\ Head(changes) \in Change
      /\ \A i \in 1..Len(Tail(changes)) : Tail(changes)[i] = changes[i + 1]
  BY HeadTailProperties, EmptySeq
<1>2. \A i \in 1..Len(Tail(changes)) : i + 1 \in 1..Len(changes)
  BY <1>1
<1>3. 1 \in 1..Len(changes)
  BY <1>1
<1> QED
  BY <1>1, <1>2, <1>3 DEF AllOwn

LEMMA InitOwn == Init => OwnInv
BY NoBracketFacts DEF Init, PhonesInit, HostingInit, OwnInv, OwnPhone, OwnBracket, EnteredOnce,
   AllOwn, Drawable, Absent, NoCodes

\* A phone whose documents and lists a step leaves alone.
Untouched(q) ==
  /\ handed'[q] = handed[q] /\ unsent'[q] = unsent[q]
  /\ lists'[q].hosted = lists[q].hosted /\ settled'[q].hosted = settled[q].hosted

LEMMA UntouchedOwn ==
  ASSUME HistoryType, Draws, NEW q \in Phone, OwnPhone(q), Untouched(q)
  PROVE  OwnPhone(q)'
BY CodesOfStay, AllOwnOfMore DEF OwnPhone, Untouched

\* A step of phone p leaves the others alone.
LEMMA OthersUntouched ==
  ASSUME TypeInv, NEW p \in Phone, NEW q \in Phone, q # p, Telling(p)
  PROVE  Untouched(q)
BY DEF Telling, Settle, Persist, Commit, Restart, Restarted, Done, DeleteHosted, StoreRound, Hand,
       client, defaults, Untouched, TypeInv, PhoneType, ClientType, ListsType

LEMMA TellingDraws ==
  ASSUME NEW p \in Phone, Telling(p)
  PROVE  Draws
<1>1. ASSUME NEW c \in Code, Done(p, c)
      PROVE  Draws
  <2>1. [code |-> c, phone |-> p] \in [code : Code, phone : Phone]
    OBVIOUS
  <2>2. drawn' = Append(drawn, [code |-> c, phone |-> p])
    BY <1>1 DEF Done
  <2> QED
    BY <2>1, <2>2 DEF Draws
<1> QED
  BY <1>1 DEF Telling, Settle, Persist, Commit, Restart, Restarted, DeleteHosted, StoreRound,
     history, Draws

LEMMA AllOwnConcat ==
  ASSUME NEW own, NEW first \in Seq(Change), NEW second \in Seq(Change),
         AllOwn(own, first), AllOwn(own, second)
  PROVE  first \o second \in Seq(Change) /\ AllOwn(own, first \o second)
<1> DEFINE all == first \o second
<1>1. /\ all \in Seq(Change) /\ Len(first) \in Nat /\ Len(second) \in Nat
      /\ Len(all) = Len(first) + Len(second)
      /\ \A i \in 1..Len(first) + Len(second) :
           all[i] = IF i <= Len(first) THEN first[i] ELSE second[i - Len(first)]
  BY ConcatProperties
<1> HIDE DEF all
<1>2. ASSUME NEW i \in 1..Len(all)
      PROVE  all[i].code \in own /\ Drawable(all[i].content)
  <2>1. CASE i <= Len(first)
    BY <1>1, <2>1 DEF AllOwn
  <2>2. CASE ~(i <= Len(first))
    <3>1. i - Len(first) \in 1..Len(second) /\ all[i] = second[i - Len(first)]
      BY <1>1, <2>2
    <3> QED
      BY <3>1 DEF AllOwn
  <2> QED
    BY <2>1, <2>2
<1>3. AllOwn(own, all)
  BY <1>2 DEF AllOwn
<1> QED
  BY <1>1, <1>3 DEF all

\* All that waits on a phone is its own.
LEMMA WaitingIsOwn ==
  ASSUME TypeInv, OwnInv, NEW p \in Phone
  PROVE  Waiting(p) \in Seq(Change) /\ AllOwn(CodesOf(p), Waiting(p))
BY AllOwnConcat DEF Waiting, TypeInv, PhoneType, ClientType, OwnInv, OwnPhone

\* What a phone's client shows of a code can be drawn.
LEMMA LocalDrawable ==
  ASSUME TypeInv, OwnInv, NEW p \in Phone, NEW c \in Code
  PROVE  Drawable(Local(p, c))
<1>1. Waiting(p) \in Seq(Change)
  BY WaitingIsOwn
<1>2. \A i \in 1..Len(Waiting(p)) : Drawable(Waiting(p)[i].content)
  BY WaitingIsOwn DEF AllOwn
<1>3. Drawable(db[c])
  BY DEF OwnInv
<1> QED
  BY <1>1, <1>2, <1>3, LatestFrom DEF Local

\* The lists of hosted codes only shrink on a phone that shows no bracket, or is
\* started anew.
LEMMA HostedOfBracketStays ==
  ASSUME TypeInv, [Next]_vars, NEW q \in Phone, bracket[q].host, bracket'[q] # NoBracket
  PROVE  lists[q].hosted \subseteq lists'[q].hosted
<1>1. InBracket(q)
  BY EmptyAssumption DEF TypeInv, BracketType, InBracket
<1>2. CASE Quiet
  BY <1>2 DEF Quiet
<1>3. ASSUME NEW p \in Phone, Restart(p)
      PROVE  p # q
  BY <1>3 DEF Restart, HostingRestarted, TypeInv, BracketType
<1>4. ASSUME NEW p \in Phone, NEW c \in Code, DeleteHosted(p, c)
      PROVE  p # q
  BY <1>1, <1>4 DEF DeleteHosted, OnTable
<1>5. ASSUME NEW p \in Phone, Telling(p)
      PROVE  lists[q].hosted \subseteq lists'[q].hosted
  <2>1. CASE p # q
    BY <1>5, <2>1, OthersUntouched DEF Untouched
  <2>2. CASE p = q
    <3>1. Settle(q) \/ Persist(q) \/ Commit(q) \/ StoreRound(q) \/ \E c \in Code : Done(q, c)
      BY <1>3, <1>4, <1>5, <2>2 DEF Telling
    <3>2. CASE Settle(q) \/ Persist(q) \/ Commit(q) \/ StoreRound(q)
      BY <3>2 DEF Settle, Persist, Commit, StoreRound, defaults
    <3>3. ASSUME NEW c \in Code, Done(q, c)
          PROVE  lists[q].hosted \subseteq lists'[q].hosted
      BY <3>3 DEF Done, TypeInv, PhoneType, ListsType, Codes
    <3> QED
      BY <3>1, <3>2, <3>3
  <2> QED
    BY <2>1, <2>2
<1> QED
  BY <1>2, <1>5, Steps

LEMMA OwnBracketStep ==
  ASSUME TypeInv, OwnInv, [Next]_vars, NEW q \in Phone
  PROVE  OwnBracket(q)'
<1>1. /\ bracket \in [Phone -> [code : Text, host : BOOLEAN, shown : Content]]
      /\ bracket[q].host => bracket[q].code \in lists[q].hosted
      /\ Drawable(bracket[q].shown)
  BY DEF TypeInv, BracketType, OwnInv, OwnBracket
<1>2. CASE bracket'[q] = NoBracket
  BY <1>2, NoBracketFacts DEF OwnBracket, Drawable, Absent
<1>3. CASE bracket'[q] = bracket[q]
  BY <1>1, <1>2, <1>3, HostedOfBracketStays DEF OwnBracket, Drawable
<1>4. ASSUME NEW kind \in {"hosted", "joined"}, NEW c \in Code, OpenBracket(q, kind, c)
      PROVE  OwnBracket(q)'
  <2>1. bracket'[q] = [code |-> c, host |-> kind = "hosted", shown |-> Absent]
    BY <1>1, <1>4 DEF OpenBracket
  <2>2. lists' = lists /\ c \in lists[q][kind]
    BY <1>4 DEF OpenBracket, HasRow, defaults
  <2>3. bracket'[q].host => kind = "hosted"
    <3>1. ASSUME NEW h \in BOOLEAN
          PROVE  [code |-> c, host |-> h, shown |-> Absent].host = h
      OBVIOUS
    <3>2. (kind = "hosted") \in BOOLEAN
      OBVIOUS
    <3>3. [code |-> c, host |-> kind = "hosted", shown |-> Absent].host = (kind = "hosted")
      BY <3>1, <3>2, Zenon
    <3>4. bracket'[q].host = (kind = "hosted")
      BY <2>1, <3>3, Zenon
    <3> QED
      BY <3>4
  <2>4. bracket'[q].code = c /\ bracket'[q].shown = Absent
    BY <2>1
  <2> QED
    BY <2>2, <2>3, <2>4 DEF OwnBracket, Drawable, Absent
<1>5. CASE ShowBracket(q)
  <2>1. Drawable(Local(q, bracket[q].code))
    <3>1. bracket[q].code \in Code
      BY <1>1, <1>5 DEF ShowBracket, InBracket, Text
    <3> QED
      BY <3>1, LocalDrawable
  <2>2. bracket' = [bracket EXCEPT ![q].shown = Local(q, bracket[q].code)] /\ lists' = lists
    BY <1>5 DEF ShowBracket, defaults
  <2> DEFINE latest == Local(q, bracket[q].code)
  <2> HIDE DEF latest
  <2>3. Drawable(latest) /\ bracket' = [bracket EXCEPT ![q].shown = latest]
    BY <2>1, <2>2 DEF latest
  <2>4. /\ bracket'[q].code = bracket[q].code /\ bracket'[q].host = bracket[q].host
        /\ bracket'[q].shown = latest
    BY <1>1, <2>3
  <2> QED
    BY <1>1, <2>2, <2>3, <2>4 DEF OwnBracket, Drawable
<1>6. ASSUME NEW p \in Phone, p # q, BracketUsed(p)
      PROVE  bracket'[q] = bracket[q]
  BY <1>1, <1>6 DEF BracketUsed, OpenBracket, ShowBracket
<1>7. ASSUME NEW p \in Phone, BracketLeft(p)
      PROVE  bracket'[q] = bracket[q] \/ bracket'[q] = NoBracket
  BY <1>1, <1>7 DEF BracketLeft
<1>8. CASE BracketUsed(q)
  BY <1>4, <1>5, <1>8 DEF BracketUsed
<1> QED
  BY <1>2, <1>3, <1>6, <1>7, <1>8, BracketSteps DEF BracketsKept

LEMMA OwnStep == TypeInv /\ OwnInv /\ [Next]_vars => OwnInv'
<1> SUFFICES ASSUME TypeInv, OwnInv, [Next]_vars
             PROVE  OwnInv'
  OBVIOUS
<1>1. \A q \in Phone : EnteredOnce(q)' /\ OwnBracket(q)'
  BY EnteredStep, OwnBracketStep DEF OwnInv
<1>2. CASE Quiet
  <2>1. HistoryType /\ Draws /\ \A q \in Phone : Untouched(q)
    BY <1>2 DEF TypeInv, PhoneType, Quiet, Draws, Untouched
  <2>2. \A q \in Phone : OwnPhone(q)'
    BY <2>1, UntouchedOwn DEF OwnInv
  <2>3. \A c \in Code : Drawable(db'[c])
    BY <1>2 DEF Quiet, OwnInv
  <2> QED
    BY <1>1, <2>2, <2>3 DEF OwnInv, Drawable
<1>3. ASSUME NEW p \in Phone, Telling(p)
      PROVE  OwnInv'
  <2> DEFINE own == CodesOf(p)
  <2>1. HistoryType /\ Draws /\ CodesOf(p) \subseteq CodesOf(p)'
    BY <1>3, TellingDraws, CodesOfStay DEF TypeInv, PhoneType
  <2>2. /\ handed[p] \in Seq(Change) /\ unsent[p] \in Seq(Change)
        /\ handed \in [Phone -> Seq(Change)] /\ unsent \in [Phone -> Seq(Change)]
        /\ lists[p] \in Codes /\ settled[p] \in Codes
        /\ lists \in [Phone -> Codes] /\ settled \in [Phone -> Codes]
    BY DEF TypeInv, PhoneType, ClientType, ListsType
  <2>3. /\ AllOwn(CodesOf(p)', handed[p]) /\ AllOwn(CodesOf(p)', unsent[p])
        /\ lists[p].hosted \subseteq CodesOf(p)' /\ settled[p].hosted \subseteq CodesOf(p)'
    BY <2>1, AllOwnOfMore DEF OwnInv, OwnPhone
  <2>4. OwnPhone(p)' /\ \A c \in Code : Drawable(db'[c])
    <3>1. CASE Settle(p)
      BY <2>2, <2>3, <3>1 DEF Settle, client, OwnInv, OwnPhone
    <3>2. CASE Persist(p)
      <4>1. handed[p] # << >>
        BY <3>2 DEF Persist
      <4>2. /\ AllOwn(CodesOf(p)', Append(unsent[p], Head(handed[p])))
            /\ AllOwn(CodesOf(p)', Tail(handed[p]))
        BY <2>2, <2>3, <4>1, AllOwnTail, AllOwnAppend
      <4>3. unsent'[p] = Append(unsent[p], Head(handed[p])) /\ handed'[p] = Tail(handed[p])
        BY <2>2, <3>2 DEF Persist
      <4> QED
        BY <2>3, <3>2, <4>2, <4>3 DEF Persist, defaults, OwnInv, OwnPhone
    <3>3. CASE Commit(p)
      <4>1. unsent[p] # << >>
        BY <3>3 DEF Commit
      <4>2. Drawable(Head(unsent[p]).content) /\ AllOwn(CodesOf(p)', Tail(unsent[p]))
        BY <2>2, <2>3, <4>1, AllOwnTail
      <4>3. unsent'[p] = Tail(unsent[p]) /\ handed' = handed /\ UNCHANGED <<lists, settled>>
        BY <2>2, <3>3 DEF Commit, defaults
      <4>4. OwnPhone(p)'
        BY <2>3, <4>2, <4>3 DEF OwnPhone
      <4>5. \A c \in Code : Drawable(db'[c])
        BY <3>3, <4>2 DEF Commit, OwnInv, TypeInv, PhoneType, ClientType
      <4> QED
        BY <4>4, <4>5
    <3>4. CASE Restart(p)
      <4>1. AllOwn(CodesOf(p)', << >>)
        BY DEF AllOwn
      <4> QED
        BY <2>2, <2>3, <3>4, <4>1 DEF Restart, Restarted, OwnInv, OwnPhone
    <3>5. ASSUME NEW c \in Code, Done(p, c)
          PROVE  OwnPhone(p)' /\ \A d \in Code : Drawable(db'[d])
      <4>1. c \in CodesOf(p)'
        <5>1. drawn' = Append(drawn, [code |-> c, phone |-> p]) /\ drawn \in Seq([code : Code, phone : Phone])
          BY <2>1, <3>5 DEF Done, HistoryType
        <5>2. Len(drawn) + 1 \in DOMAIN drawn' /\ drawn'[Len(drawn) + 1] = [code |-> c, phone |-> p]
          BY <5>1, AppendProperties
        <5> QED
          BY <5>2 DEF CodesOf
      <4> DEFINE content == [state |-> "stored", groups |-> Padded(groups[p])]
      <4>2. content \in Content /\ Drawable(content)
        <5>1. /\ groups[p] \in Seq(Name) /\ Len(groups[p]) >= 2
              /\ \A i, j \in 1..Len(groups[p]) : groups[p][i] = groups[p][j] => i = j
          BY <3>5 DEF Done, OwnInv, EnteredOnce, TypeInv, PhoneType, HostType
        <5> QED
          BY <5>1, PaddedFacts, PaddedIsField DEF Content, Drawable
      <4>3. handed' = [handed EXCEPT ![p] = Append(@, [code |-> c, content |-> content])]
        BY <3>5 DEF Done, Hand
      <4> HIDE DEF content
      <4>4. AllOwn(CodesOf(p)', Append(handed[p], [code |-> c, content |-> content]))
        <5>1. [code |-> c, content |-> content] \in Change
          BY <4>2 DEF Change
        <5> QED
          BY <2>2, <2>3, <4>1, <4>2, <5>1, AllOwnAppend
      <4>5. lists'[p].hosted = lists[p].hosted \cup {c} /\ UNCHANGED <<settled, unsent, db>>
        BY <2>2, <3>5 DEF Done, Codes
      <4> QED
        BY <2>2, <2>3, <4>1, <4>3, <4>4, <4>5 DEF OwnInv, OwnPhone
    <3>6. ASSUME NEW c \in Code, DeleteHosted(p, c)
          PROVE  OwnPhone(p)' /\ \A d \in Code : Drawable(db'[d])
      <4>1. c \in CodesOf(p)'
        BY <2>3, <3>6 DEF DeleteHosted, HasRow
      <4>2. [code |-> c, content |-> Deleted] \in Change /\ Drawable(Deleted)
        BY DEF Change, Content, Deleted, Drawable
      <4>3. AllOwn(CodesOf(p)', Append(handed[p], [code |-> c, content |-> Deleted]))
        BY <2>2, <2>3, <4>1, <4>2, AllOwnAppend
      <4>4. handed' = [handed EXCEPT ![p] = Append(@, [code |-> c, content |-> Deleted])]
        BY <3>6 DEF DeleteHosted, Hand
      <4>5. lists'[p].hosted = lists[p].hosted \ {c} /\ UNCHANGED <<settled, unsent, db>>
        BY <2>2, <3>6 DEF DeleteHosted, Codes
      <4> QED
        BY <2>2, <2>3, <4>3, <4>4, <4>5 DEF OwnInv, OwnPhone
    <3>7. CASE StoreRound(p)
      <4> DEFINE code == bracket[p].code
                 shown == bracket[p].shown
      <4>1. code \in CodesOf(p)' /\ code \in Code
        BY <2>3, <3>7 DEF StoreRound, OwnInv, OwnBracket, TypeInv, BracketType
      <4>2. shown \in Content /\ Drawable(shown)
        BY DEF OwnInv, OwnBracket, TypeInv, BracketType
      <4>3. handed' = [handed EXCEPT ![p] = Append(@, [code |-> code, content |-> shown])]
        BY <3>7 DEF StoreRound, Hand
      <4> HIDE DEF code, shown
      <4>4. AllOwn(CodesOf(p)', Append(handed[p], [code |-> code, content |-> shown]))
        <5>1. [code |-> code, content |-> shown] \in Change
          BY <4>1, <4>2 DEF Change
        <5> QED
          BY <2>2, <2>3, <4>1, <4>2, <5>1, AllOwnAppend
      <4>5. UNCHANGED <<lists, settled, unsent, db>>
        BY <3>7 DEF StoreRound, defaults
      <4> QED
        BY <2>2, <2>3, <4>3, <4>4, <4>5 DEF OwnInv, OwnPhone
    <3> QED
      BY <1>3, <3>1, <3>2, <3>3, <3>4, <3>5, <3>6, <3>7 DEF Telling
  <2>5. ASSUME NEW q \in Phone, q # p
        PROVE  OwnPhone(q)'
    BY <1>3, <2>1, <2>5, OthersUntouched, UntouchedOwn DEF OwnInv
  <2> QED
    BY <1>1, <2>4, <2>5 DEF OwnInv, Drawable
<1> QED
  BY <1>2, <1>3, Steps

LEMMA OwnAlways == Spec => [](TypeInv /\ OwnInv)
<1>1. Init => TypeInv /\ OwnInv
  BY InitType, InitOwn
<1>2. TypeInv /\ OwnInv /\ [Next]_vars => (TypeInv /\ OwnInv)'
  BY TypeStep, OwnStep
<1> QED
  BY <1>1, <1>2, PTL DEF Spec

\* OnlyItsHostWrites: whatever was joined, looked up, deleted or lost, every
\* change that waits on a phone, the rounds its brackets store again included, is of a
\* document whose code that phone drew: a bracket that is open for the host is of a
\* code on the phone's list of hosted ones, and only codes it drew get there.
THEOREM OnlyHostsWrite == Spec => []OnlyItsHostWrites
<1>1. ASSUME TypeInv, OwnInv
      PROVE  OnlyItsHostWrites
  <2>1. SUFFICES ASSUME NEW p \in Phone, NEW i \in DOMAIN Waiting(p)
                 PROVE  \E k \in DrawsOf(Waiting(p)[i].code) : drawn[k].phone = p
    BY DEF OnlyItsHostWrites
  <2>2. Waiting(p)[i].code \in CodesOf(p)
    BY <1>1, <2>1, WaitingIsOwn DEF AllOwn
  <2> QED
    BY <2>2 DEF CodesOf, DrawsOf
<1>2. TypeInv /\ OwnInv => OnlyItsHostWrites
  BY <1>1
<1> QED
  BY <1>2, OwnAlways, PTL

\* StoredFieldsAreFields: every tournament that is stored, or on its way, has a
\* field of two groups or more, each named once, that FREE fills up.
THEOREM StoredFields == Spec => []StoredFieldsAreFields
<1>1. ASSUME TypeInv, OwnInv
      PROVE  StoredFieldsAreFields
  <2>1. ASSUME NEW p \in Phone, NEW i \in DOMAIN Waiting(p)
        PROVE  Drawable(Waiting(p)[i].content)
    BY <1>1, <2>1, WaitingIsOwn DEF AllOwn
  <2>2. \A c \in Code : Drawable(db[c])
    BY <1>1 DEF OwnInv
  <2> QED
    BY <2>1, <2>2 DEF StoredFieldsAreFields, Drawable
<1>2. TypeInv /\ OwnInv => StoredFieldsAreFields
  BY <1>1
<1> QED
  BY <1>2, OwnAlways, PTL
-----------------------------------------------------------------------------
(* The list of hosted codes and the documents agree.                         *)

\* The host of a code: the phone of its only draw.
HostOf(p, c) == \E k \in DOMAIN drawn : DrawsOf(c) = {k} /\ drawn[k].phone = p
Agrees(p, c) == c \in Hosted(p) <=> Local(p, c).state = "stored"
AgreeInv == \A p \in Phone : \A c \in Code \ interrupted : HostOf(p, c) => Agrees(p, c)

\* Nobody but the host of a code has a change of its document waiting.
LEMMA OthersHaveNoChange ==
  ASSUME NEW c, NEW p, HostOf(p, c), NEW q, q # p
  PROVE  c \notin CodesOf(q)
BY DEF CodesOf, HostOf, DrawsOf

LEMMA AgreesUntouched ==
  ASSUME NEW p \in Phone, NEW c \in Code, Agrees(p, c), Untouched(p), db'[c] = db[c]
  PROVE  Agrees(p, c)'
BY DEF Agrees, Hosted, Local, Waiting, Untouched

\* What a phone's client shows after each of the steps that change its queue.
LEMMA LocalHanded ==
  ASSUME TypeInv, NEW p \in Phone, NEW c \in Code, NEW d \in Code, NEW content \in Content,
         Hand(p, d, content), UNCHANGED <<db, unsent>>
  PROVE  Local(p, c)' = IF d = c THEN content ELSE Local(p, c)
<1> DEFINE change == [code |-> d, content |-> content]
<1>1. /\ unsent[p] \in Seq(Change) /\ handed[p] \in Seq(Change)
      /\ change \in Change /\ change.code = d /\ change.content = content
  BY DEF TypeInv, PhoneType, ClientType, Change
<1>2. handed'[p] = Append(handed[p], change) /\ unsent'[p] = unsent[p] /\ db' = db
  BY DEF Hand, TypeInv, PhoneType, ClientType
<1> HIDE DEF change
<1>3. /\ unsent[p] \o Append(handed[p], change) = Append(unsent[p] \o handed[p], change)
      /\ unsent[p] \o handed[p] \in Seq(Change)
  BY <1>1, ConcatAppend
<1>4. Waiting(p)' = Append(Waiting(p), change) /\ Waiting(p) \in Seq(Change)
  BY <1>2, <1>3 DEF Waiting
<1>5. Latest(db[c], c, Append(Waiting(p), change)) =
        IF change.code = c THEN change.content ELSE Latest(db[c], c, Waiting(p))
  BY <1>1, <1>4, LatestAfterAppend
<1>6. Local(p, c)' = Latest(db[c], c, Append(Waiting(p), change))
  BY <1>2, <1>4 DEF Local
<1> QED
  BY <1>1, <1>5, <1>6 DEF Local

LEMMA LocalPersisted ==
  ASSUME TypeInv, NEW p \in Phone, NEW c \in Code, Persist(p)
  PROVE  Local(p, c)' = Local(p, c)
<1>1. /\ unsent[p] \in Seq(Change) /\ handed[p] \in Seq(Change) /\ handed[p] # << >>
      /\ unsent'[p] = Append(unsent[p], Head(handed[p])) /\ handed'[p] = Tail(handed[p])
      /\ db' = db
  BY DEF Persist, TypeInv, PhoneType, ClientType
<1>2. Append(unsent[p], Head(handed[p])) \o Tail(handed[p]) = unsent[p] \o handed[p]
  BY <1>1, HeadMoves
<1>3. Waiting(p)' = Waiting(p)
  BY <1>1, <1>2 DEF Waiting
<1> QED
  BY <1>1, <1>3 DEF Local

LEMMA LocalCommitted ==
  ASSUME TypeInv, NEW p \in Phone, NEW c \in Code, Commit(p)
  PROVE  Local(p, c)' = Local(p, c)
<1>1. /\ unsent[p] \in Seq(Change) /\ handed[p] \in Seq(Change) /\ unsent[p] # << >>
      /\ unsent'[p] = Tail(unsent[p]) /\ handed'[p] = handed[p]
  BY DEF Commit, TypeInv, PhoneType, ClientType
<1>2. /\ Waiting(p) \in Seq(Change) /\ Waiting(p) # << >>
      /\ Head(Waiting(p)) = Head(unsent[p]) /\ Tail(Waiting(p)) = Waiting(p)'
  <2>1. /\ unsent[p] \o handed[p] \in Seq(Change) /\ unsent[p] \o handed[p] # << >>
        /\ Head(unsent[p] \o handed[p]) = Head(unsent[p])
        /\ Tail(unsent[p] \o handed[p]) = Tail(unsent[p]) \o handed[p]
    <3> DEFINE sent == unsent[p]
               rest == handed[p]
    <3>1. sent \in Seq(Change) /\ rest \in Seq(Change) /\ sent # << >>
      BY <1>1
    <3> HIDE DEF sent, rest
    <3>2. /\ sent \o rest \in Seq(Change) /\ sent \o rest # << >>
          /\ Head(sent \o rest) = Head(sent) /\ Tail(sent \o rest) = Tail(sent) \o rest
      BY <3>1, TailOfConcat
    <3> QED
      BY <3>2 DEF sent, rest
  <2>2. Waiting(p)' = Tail(unsent[p]) \o handed[p]
    BY <1>1 DEF Waiting
  <2> QED
    BY <2>1, <2>2 DEF Waiting
<1>3. db'[c] = IF Head(unsent[p]).code = c THEN Head(unsent[p]).content ELSE db[c]
  BY DEF Commit, TypeInv, PhoneType, ClientType
<1>4. Latest(db'[c], c, Tail(Waiting(p))) = Latest(db[c], c, Waiting(p))
  <2>1. Latest(IF Head(Waiting(p)).code = c THEN Head(Waiting(p)).content ELSE db[c], c,
               Tail(Waiting(p))) = Latest(db[c], c, Waiting(p))
    BY <1>2, LatestAfterTail
  <2> QED
    BY <1>2, <1>3, <2>1
<1> QED
  BY <1>2, <1>4 DEF Local

LEMMA LocalRestarted ==
  ASSUME TypeInv, NEW p \in Phone, NEW c \in Code, Restart(p), c \notin interrupted'
  PROVE  Local(p, c)' = Local(p, c) /\ (c \in Hosted(p)' <=> c \in Hosted(p))
<1>1. /\ unsent[p] \in Seq(Change) /\ handed[p] \in Seq(Change)
      /\ unsent'[p] = unsent[p] /\ handed'[p] = << >> /\ db' = db
      /\ lists'[p] = settled[p]
  BY DEF Restart, Restarted, TypeInv, PhoneType, ClientType, ListsType
<1>2. /\ \A i \in 1..Len(handed[p]) : handed[p][i].code # c
      /\ c \in lists[p].hosted <=> c \in settled[p].hosted
  BY <1>1 DEF Restart, Restarted, Hosted
<1>3. Waiting(p)' = unsent[p]
  BY <1>1, ConcatEmptySeq DEF Waiting
<1>4. Latest(db[c], c, unsent[p] \o handed[p]) = Latest(db[c], c, unsent[p])
  BY <1>1, <1>2, LatestWithoutOthers
<1> QED
  BY <1>1, <1>2, <1>3, <1>4 DEF Local, Waiting, Hosted

\* A step other than a draw keeps the agreement of every code.
LEMMA AgreesStays ==
  ASSUME TypeInv, OwnInv, NEW q \in Phone, Telling(q),
         NEW c \in Code, c \notin interrupted',
         NEW p \in Phone, Agrees(p, c),
         p # q => c \notin CodesOf(q),
         \A d \in Code : Done(q, d) => d # c
  PROVE  Agrees(p, c)'
<1>1. CASE Settle(q)
  BY <1>1 DEF Settle, client, Agrees, Hosted, Local, Waiting
<1>2. CASE p # q
  <2>1. Untouched(p)
    BY <1>2, OthersUntouched
  <2>2. db'[c] = db[c]
    <3>1. CASE Commit(q)
      <4>1. unsent[q] \in Seq(Change) /\ unsent[q] # << >> /\ AllOwn(CodesOf(q), unsent[q])
        BY <3>1 DEF Commit, TypeInv, PhoneType, ClientType, OwnInv, OwnPhone
      <4>2. Head(unsent[q]).code # c
        BY <1>2, <4>1, AllOwnTail
      <4> QED
        BY <3>1, <4>2 DEF Commit, TypeInv, PhoneType, ClientType
    <3>2. CASE ~Commit(q)
      BY <3>2 DEF Telling, Settle, Persist, Restart, Restarted, Done, DeleteHosted, StoreRound, client
    <3> QED
      BY <3>1, <3>2
  <2> QED
    BY <2>1, <2>2, AgreesUntouched
<1>3. CASE p = q /\ Persist(q)
  BY <1>3, LocalPersisted DEF Agrees, Hosted, Persist, defaults
<1>4. CASE p = q /\ Commit(q)
  BY <1>4, LocalCommitted DEF Agrees, Hosted, Commit, defaults
<1>5. CASE p = q /\ Restart(q)
  BY <1>5, LocalRestarted DEF Agrees
<1>6. ASSUME NEW d \in Code, p = q, Done(q, d)
      PROVE  Agrees(p, c)'
  <2> DEFINE content == [state |-> "stored", groups |-> Padded(groups[q])]
  <2>1. content \in Content
    BY PaddedFacts DEF Content, TypeInv, PhoneType, HostType
  <2>2. Hand(q, d, content) /\ UNCHANGED <<db, unsent>>
    BY <1>6 DEF Done
  <2> HIDE DEF content
  <2>3. d # c
    BY <1>6
  <2>4. Local(p, c)' = Local(p, c)
    BY <1>6, <2>1, <2>2, <2>3, LocalHanded
  <2>5. lists'[q].hosted = lists[q].hosted \cup {d}
    BY <1>6 DEF Done, TypeInv, PhoneType, ListsType, Codes
  <2> QED
    BY <1>6, <2>3, <2>4, <2>5 DEF Agrees, Hosted
<1>7. ASSUME NEW d \in Code, p = q, DeleteHosted(q, d)
      PROVE  Agrees(p, c)'
  <2>1. Deleted \in Content /\ Deleted.state # "stored"
    BY DEF Deleted, Content
  <2>2. Hand(q, d, Deleted) /\ UNCHANGED <<db, unsent>>
    BY <1>7 DEF DeleteHosted
  <2>3. Local(p, c)' = IF d = c THEN Deleted ELSE Local(p, c)
    BY <1>7, <2>1, <2>2, LocalHanded
  <2>4. lists'[q].hosted = lists[q].hosted \ {d}
    BY <1>7 DEF DeleteHosted, TypeInv, PhoneType, ListsType, Codes
  <2> QED
    BY <1>7, <2>1, <2>3, <2>4 DEF Agrees, Hosted
<1>8. CASE p = q /\ StoreRound(q)
  <2> DEFINE code == bracket[q].code
             shown == bracket[q].shown
  <2>1. /\ code \in Code /\ shown \in Content
        /\ code \in lists[q].hosted /\ shown.state = "stored"
    BY <1>8 DEF StoreRound, TypeInv, BracketType, OwnInv, OwnBracket
  <2>2. Hand(q, code, shown) /\ UNCHANGED <<db, unsent, lists>>
    BY <1>8 DEF StoreRound, defaults
  <2> HIDE DEF code, shown
  <2>3. Local(q, c)' = IF code = c THEN shown ELSE Local(q, c)
    BY <2>1, <2>2, LocalHanded
  <2> QED
    BY <1>8, <2>1, <2>2, <2>3 DEF Agrees, Hosted
<1> QED
  BY <1>1, <1>2, <1>3, <1>4, <1>5, <1>6, <1>7, <1>8 DEF Telling

\* The draw itself: the tournament is on the list and on its way.
LEMMA AgreesDrawn ==
  ASSUME TypeInv, NEW q \in Phone, NEW c \in Code, Done(q, c)
  PROVE  Agrees(q, c)'
<1> DEFINE content == [state |-> "stored", groups |-> Padded(groups[q])]
<1>1. content \in Content /\ content.state = "stored"
  BY PaddedFacts DEF Content, TypeInv, PhoneType, HostType
<1>2. Hand(q, c, content) /\ UNCHANGED <<db, unsent>>
  BY DEF Done
<1> HIDE DEF content
<1>3. Local(q, c)' = content
  BY <1>1, <1>2, LocalHanded
<1>4. c \in lists'[q].hosted
  BY DEF Done, TypeInv, PhoneType, ListsType, Codes
<1> QED
  BY <1>1, <1>3, <1>4 DEF Agrees, Hosted

\* A code has the host it had, unless it is the one that is drawn.
LEMMA HostStays ==
  ASSUME HistoryType, NEW c, NEW p, HostOf(p, c)', NEW q \in Phone,
         \/ drawn' = drawn
         \/ \E d \in Code : drawn' = Append(drawn, [code |-> d, phone |-> q]) /\ d # c
  PROVE  HostOf(p, c)
<1>1. CASE drawn' = drawn
  BY <1>1 DEF HostOf, DrawsOf
<1>2. ASSUME NEW d \in Code, drawn' = Append(drawn, [code |-> d, phone |-> q]), d # c
      PROVE  HostOf(p, c)
  <2>1. [code |-> d, phone |-> q] \in [code : Code, phone : Phone]
    OBVIOUS
  <2>2. /\ Len(drawn) \in Nat /\ DOMAIN drawn = 1..Len(drawn)
        /\ DOMAIN drawn' = 1..Len(drawn) + 1
        /\ \A i \in 1..Len(drawn) : drawn'[i] = drawn[i]
        /\ drawn'[Len(drawn) + 1] = [code |-> d, phone |-> q]
    BY <1>2, <2>1, AppendProperties, LenProperties DEF HistoryType
  <2>3. drawn'[Len(drawn) + 1].code # c
    <3>1. d # c /\ [code |-> d, phone |-> q].code = d
      BY <1>2
    <3>2. drawn'[Len(drawn) + 1] = [code |-> d, phone |-> q]
      BY <2>2
    <3> QED
      BY <3>1, <3>2
  <2>4. \A i \in DOMAIN drawn' : i \in DOMAIN drawn \/ i = Len(drawn) + 1
    BY <2>2
  <2>5. DrawsOf(c)' = DrawsOf(c)
    BY <2>2, <2>3, <2>4 DEF DrawsOf
  <2>6. PICK k \in DOMAIN drawn' : DrawsOf(c)' = {k} /\ drawn'[k].phone = p
    BY DEF HostOf
  <2>7. k \in DOMAIN drawn
    BY <2>5, <2>6 DEF DrawsOf
  <2> QED
    BY <2>2, <2>5, <2>6, <2>7 DEF HostOf
<1> QED
  BY <1>1, <1>2

\* The phone that draws a code that was not drawn before is its host.
LEMMA HostDrew ==
  ASSUME HistoryType, NEW c \in Code, NEW p, HostOf(p, c)', NEW q \in Phone,
         drawn' = Append(drawn, [code |-> c, phone |-> q])
  PROVE  p = q
<1>1. [code |-> c, phone |-> q] \in [code : Code, phone : Phone]
  OBVIOUS
<1>2. Len(drawn) + 1 \in DOMAIN drawn' /\ drawn'[Len(drawn) + 1] = [code |-> c, phone |-> q]
  BY <1>1, AppendProperties DEF HistoryType
<1>3. Len(drawn) + 1 \in DrawsOf(c)'
  BY <1>2 DEF DrawsOf
<1> QED
  BY <1>2, <1>3 DEF HostOf

LEMMA AgreeStep == TypeInv /\ OwnInv /\ AgreeInv /\ [Next]_vars => AgreeInv'
<1> SUFFICES ASSUME TypeInv, OwnInv, AgreeInv, [Next]_vars,
                    NEW p \in Phone, NEW c \in Code, c \notin interrupted', HostOf(p, c)'
             PROVE  Agrees(p, c)'
  BY DEF AgreeInv
<1>1. HistoryType
  BY DEF TypeInv, PhoneType
<1>2. CASE Quiet
  <2>1. HostOf(p, c) /\ c \notin interrupted
    BY <1>2 DEF Quiet, HostOf, DrawsOf
  <2>2. Untouched(p) /\ db'[c] = db[c]
    BY <1>2 DEF Quiet, Untouched
  <2> QED
    BY <2>1, <2>2, AgreesUntouched DEF AgreeInv
<1>3. ASSUME NEW q \in Phone, Done(q, c)
      PROVE  Agrees(p, c)'
  <2>1. p = q
    BY <1>1, <1>3, HostDrew DEF Done
  <2> QED
    BY <1>3, <2>1, AgreesDrawn
<1>4. ASSUME NEW q \in Phone, Telling(q), ~Done(q, c)
      PROVE  Agrees(p, c)'
  <2>1. \/ drawn' = drawn
        \/ \E d \in Code : drawn' = Append(drawn, [code |-> d, phone |-> q]) /\ d # c
    BY <1>4 DEF Telling, Settle, Persist, Commit, Restart, Restarted, Done, DeleteHosted, StoreRound,
       history
  <2>2. HostOf(p, c)
    BY <1>1, <2>1, HostStays
  <2>3. c \notin interrupted
    BY <1>4 DEF Telling, Settle, Persist, Commit, Restart, Restarted, Done, DeleteHosted, StoreRound,
       history
  <2>4. p # q => c \notin CodesOf(q)
    BY <2>2, OthersHaveNoChange
  <2>5. \A d \in Code : Done(q, d) => d # c
    BY <1>4
  <2>6. Agrees(p, c)
    BY <2>2, <2>3 DEF AgreeInv
  <2> QED
    BY <1>4, <2>4, <2>5, <2>6, AgreesStays
<1> QED
  BY <1>2, <1>3, <1>4, Steps

\* HostedIffStored: the list of hosted codes and the documents agree, after
\* any drawing, deleting, sending, and killing that interrupted no save.
THEOREM ListsAndDocumentsAgree == Spec => []HostedIffStored
<1>1. Init => AgreeInv
  BY DEF Init, PhonesInit, AgreeInv, HostOf
<1>2. TypeInv /\ AgreeInv => HostedIffStored
  <2>1. SUFFICES ASSUME TypeInv, AgreeInv, NEW c \in Code \ interrupted,
                        NEW k \in DOMAIN drawn, DrawsOf(c) = {k}
                 PROVE  c \in Hosted(drawn[k].phone) <=>
                          Local(drawn[k].phone, c).state = "stored"
    BY DEF HostedIffStored
  <2>2. drawn[k].phone \in Phone
    <3>1. drawn \in Seq([code : Code, phone : Phone])
      BY <2>1 DEF TypeInv, PhoneType, HistoryType
    <3>2. DOMAIN drawn = 1..Len(drawn)
      BY <3>1
    <3>3. k \in 1..Len(drawn)
      BY <3>2
    <3>4. drawn[k] \in [code : Code, phone : Phone]
      BY <3>1, <3>3, ElementOfSeq
    <3> QED
      BY <3>4
  <2>3. HostOf(drawn[k].phone, c)
    BY <2>1 DEF HostOf
  <2> QED
    BY <2>1, <2>2, <2>3 DEF AgreeInv, Agrees
<1>3. AgreeInv /\ TypeInv /\ OwnInv /\ [Next]_vars => AgreeInv'
  BY AgreeStep
<1> QED
  BY <1>1, <1>2, <1>3, OwnAlways, PTL DEF Spec
=============================================================================
