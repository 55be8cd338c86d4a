-------------------------- MODULE GameListsProofs ---------------------------
(***************************************************************************)
(* Proofs about GameLists for any codes, joined any number of times, and   *)
(* any number of visits: listeners, their lists and their callbacks fit    *)
(* together, a row that is touched is the one shown, and only the phone's  *)
(* own tournaments are opened for the host.                                *)
(***************************************************************************)
EXTENDS GameLists, SequenceTheorems, FiniteSetTheorems, TLAPS

\* A list of tournaments, of which the hosted ones are this phone's.
Rows(kind, list) ==
  /\ list \in Seq(Code)
  /\ kind = "hosted" => \A i \in 1..Len(list) : list[i] \in Mine

CollectorType == [kind : Kind, list : Seq(Code)]
ListenerType == [code : Code, heard : BOOLEAN, collector : Nat]

\* A listener collects in a list that there is, a hosted one only this phone's.
ListenerInv(one) ==
  /\ one.collector \in 1..Len(collectors)
  /\ collectors[one.collector].kind = "hosted" => one.code \in Mine

\* What a list holds was reported by a listener of this list.
Reported(i, c) ==
  \E n \in 1..Len(listeners) : listeners[n] = [code |-> c, heard |-> TRUE, collector |-> i]

StoredInv ==
  /\ db \in [Code -> {"none", "stored", "deleted"}]
  /\ codes \in [Kind -> Seq(Code)]
  /\ \A k \in 1..Len(codes["hosted"]) : codes["hosted"][k] \in Mine

ListeningInv ==
  /\ collectors \in Seq(CollectorType)
  /\ listeners \in Seq(ListenerType)
  /\ \A n \in 1..Len(listeners) : ListenerInv(listeners[n])
  /\ \A i \in 1..Len(collectors) : \A k \in 1..Len(collectors[i].list) :
       Reported(i, collectors[i].list[k])
  /\ posted \in Seq(Nat)
  /\ \A k \in 1..Len(posted) : posted[k] \in 1..Len(listeners) /\ listeners[posted[k]].heard

RowsInv ==
  /\ rows \in [Kind -> Seq(Code)] /\ displayed \in [Kind -> Seq(Code)]
  /\ \A kind \in Kind : Rows(kind, rows[kind])
  /\ TouchedRowIsMeant

\* The flag is only up from the choice of a row until the table has gone.
OpenedInv ==
  /\ phase \in {"away", "shown", "leaving", "bracket", "crashed"}
  /\ host \in BOOLEAN /\ (host => phase = "leaving")
  /\ opened.host \in BOOLEAN /\ OnlyOwnAsHost

LInv == StoredInv /\ ListeningInv /\ RowsInv /\ OpenedInv
-----------------------------------------------------------------------------
(* Sequences and sets of numbers.                                            *)

\* A function on 1..n is a sequence of n elements.
LEMMA FunctionIsSequence ==
  ASSUME NEW S, NEW n \in Nat, NEW f \in [1..n -> S]
  PROVE  f \in Seq(S) /\ Len(f) = n
<1>1. f \in Seq(S)
  <2>1. f \in UNION {[1..m -> S] : m \in Nat}
    OBVIOUS
  <2> QED
    BY <2>1, SeqDef, Zenon
<1>2. Len(f) \in Nat /\ DOMAIN f = 1..Len(f)
  BY <1>1, LenProperties
<1>3. 1..Len(f) = 1..n
  BY <1>2
<1> QED
  BY <1>1, <1>2, <1>3

\* An element of two sequences, one after the other, is an element of the first
\* at its place, or one of the second.
LEMMA Joined ==
  ASSUME NEW S, NEW s \in Seq(S), NEW t \in Seq(S)
  PROVE  /\ s \o t \in Seq(S) /\ Len(s \o t) = Len(s) + Len(t)
         /\ \A k \in 1..Len(s) : k \in 1..Len(s \o t) /\ (s \o t)[k] = s[k]
         /\ \A k \in 1..Len(t) : Len(s) + k \in 1..Len(s \o t) /\ (s \o t)[Len(s) + k] = t[k]
         /\ \A k \in 1..Len(s \o t) :
              \/ k \in 1..Len(s)
              \/ \E m \in 1..Len(t) : k = Len(s) + m
<1>1. Len(s) \in Nat /\ Len(t) \in Nat
  BY LenProperties
<1>2. /\ s \o t \in Seq(S) /\ Len(s \o t) = Len(s) + Len(t)
      /\ \A k \in 1..Len(s) + Len(t) :
           (s \o t)[k] = IF k <= Len(s) THEN s[k] ELSE t[k - Len(s)]
  BY ConcatProperties
<1>3. ASSUME NEW k \in 1..Len(s)
      PROVE  k \in 1..Len(s) + Len(t) /\ k <= Len(s)
  BY <1>1
<1>4. ASSUME NEW k \in 1..Len(t)
      PROVE  /\ Len(s) + k \in 1..Len(s) + Len(t) /\ ~(Len(s) + k <= Len(s))
             /\ (Len(s) + k) - Len(s) = k
  BY <1>1
<1>5. ASSUME NEW k \in 1..Len(s) + Len(t), k \notin 1..Len(s)
      PROVE  k - Len(s) \in 1..Len(t) /\ k = Len(s) + (k - Len(s))
  BY <1>1, <1>5
<1> QED
  BY <1>2, <1>3, <1>4, <1>5

\* Of the numbers of a bounded set, each has another rank, and all up to the size
\* of the set are ranks: in their ascending order they are a sequence.
LEMMA AscendingFacts ==
  ASSUME NEW n \in Nat, NEW S \in SUBSET (1..n)
  PROVE  Ascending(S) \in Seq(S)
<1> DEFINE Upto(i) == {j \in S : j <= i}
           size == Cardinality(S)
           R == [i \in S |-> Cardinality(Upto(i))]
<1>1. IsFiniteSet(S) /\ size \in Nat
  <2>1. IsFiniteSet(1..n)
    BY FS_Interval
  <2> QED
    BY <2>1, FS_Subset, FS_CardinalityType
<1>2. ASSUME NEW T \in SUBSET S
      PROVE  /\ IsFiniteSet(T) /\ Cardinality(T) \in Nat /\ Cardinality(T) <= size
             /\ Cardinality(T) = 0 => T = {}
  BY <1>1, FS_Subset, FS_CardinalityType, FS_EmptySet
<1>3. ASSUME NEW i \in S
      PROVE  Cardinality(Upto(i)) \in 1..size
  <2>1. Upto(i) \in SUBSET S /\ i \in Upto(i)
    OBVIOUS
  <2> HIDE DEF Upto, size
  <2>2. /\ Cardinality(Upto(i)) \in Nat /\ Cardinality(Upto(i)) <= size
        /\ Cardinality(Upto(i)) # 0
    BY <1>2, <2>1
  <2> QED
    BY <1>1, <2>2
<1>4. ASSUME NEW i \in S, NEW j \in S, i < j
      PROVE  Cardinality(Upto(i)) # Cardinality(Upto(j))
  <2>1. Upto(i) \in SUBSET Upto(j) /\ Upto(j) \in SUBSET S
    <3>1. \A k \in S : k \in Int
      OBVIOUS
    <3>2. \A k \in S : k <= i => k <= j
      BY <1>4, <3>1
    <3> QED
      BY <3>2
  <2>2. j \in Upto(j) /\ j \notin Upto(i)
    BY <1>4
  <2> HIDE DEF Upto
  <2> QED
    BY <1>2, <2>1, <2>2, FS_Subset
<1> HIDE DEF Upto, size
<1>5. \A i, j \in S : R[i] = R[j] => i = j
  <2> SUFFICES ASSUME NEW i \in S, NEW j \in S, R[i] = R[j], i # j
               PROVE  FALSE
    OBVIOUS
  <2>1. i < j \/ j < i
    OBVIOUS
  <2> QED
    BY <1>4, <2>1
<1>6. R \in Injection(S, 1..size)
  BY <1>3, <1>5 DEF Injection, IsInjective
<1>7. IsFiniteSet(1..size) /\ Cardinality(1..size) = size
  BY <1>1, FS_Interval
<1>8. R \in Surjection(S, 1..size)
  BY <1>6, <1>7, FS_Injection DEF size
<1>9. \A k \in 1..size : \E i \in S : Cardinality(Upto(i)) = k
  BY <1>8 DEF Surjection
<1>10. Ascending(S) = [k \in 1..size |-> CHOOSE i \in S : Cardinality(Upto(i)) = k]
  BY DEF Ascending, Upto, size
<1>11. Ascending(S) \in [1..size -> S]
  BY <1>9, <1>10
<1> QED
  BY <1>1, <1>11, FunctionIsSequence

\* filter { $0 != c } leaves elements of the list only.
LEMMA WithoutFacts ==
  ASSUME NEW S, NEW list \in Seq(S), NEW c
  PROVE  /\ Without(list, c) \in Seq(S)
         /\ \A k \in 1..Len(Without(list, c)) :
              \E n \in 1..Len(list) : Without(list, c)[k] = list[n]
<1> DEFINE others == {n \in DOMAIN list : list[n] # c}
           kept == Ascending(others)
<1>1. Len(list) \in Nat /\ DOMAIN list = 1..Len(list)
  BY LenProperties
<1>2. others \in SUBSET (1..Len(list))
  BY <1>1
<1>3. Without(list, c) = [k \in DOMAIN kept |-> list[kept[k]]]
  BY DEF Without
<1> HIDE DEF others
<1>4. kept \in Seq(others)
  BY <1>1, <1>2, AscendingFacts
<1> HIDE DEF kept
<1>5. Len(kept) \in Nat /\ DOMAIN kept = 1..Len(kept)
  BY <1>4, LenProperties
<1>6. \A k \in 1..Len(kept) : kept[k] \in 1..Len(list)
  BY <1>2, <1>4, ElementOfSeq
<1>7. \A n \in 1..Len(list) : list[n] \in S
  BY ElementOfSeq
<1>8. Without(list, c) \in [1..Len(kept) -> S]
  BY <1>3, <1>5, <1>6, <1>7
<1>9. Without(list, c) \in Seq(S) /\ Len(Without(list, c)) = Len(kept)
  BY <1>5, <1>8, FunctionIsSequence
<1> QED
  BY <1>3, <1>5, <1>6, <1>9
-----------------------------------------------------------------------------
(* What the operators of the lists keep.                                     *)

LEMMA NoRowsAreRows == NoRows \in [Kind -> Seq(Code)] /\ \A kind \in Kind : Rows(kind, NoRows[kind])
BY DEF NoRows, Rows

LEMMA RemoveAtRows ==
  ASSUME NEW kind, NEW list, Rows(kind, list), NEW i \in DOMAIN list
  PROVE  Rows(kind, RemoveAt(list, i))
<1> DEFINE before == SubSeq(list, 1, i-1)
           after == SubSeq(list, i+1, Len(list))
           rest == RemoveAt(list, i)
<1>1. list \in Seq(Code) /\ Len(list) \in Nat /\ i \in 1..Len(list)
  BY DEF Rows
<1>2. /\ before \in Seq(Code) /\ Len(before) = i - 1
      /\ \A k \in 1..i-1 : before[k] = list[k]
  <2>1. \A k \in 1..i-1 : list[k] \in Code
    BY <1>1, ElementOfSeq
  <2>2. /\ before \in Seq(Code) /\ Len(before) = IF 1 <= i-1 THEN (i-1)-1+1 ELSE 0
        /\ \A k \in 1..(i-1)-1+1 : before[k] = list[1+k-1]
    BY <1>1, <2>1, SubSeqProperties
  <2> QED
    BY <1>1, <2>2
<1>3. /\ after \in Seq(Code) /\ Len(after) = Len(list) - i
      /\ \A k \in 1..Len(list)-i : after[k] = list[i + k]
  <2>1. \A k \in i+1..Len(list) : list[k] \in Code
    BY <1>1, ElementOfSeq
  <2>2. /\ after \in Seq(Code) /\ Len(after) = IF i+1 <= Len(list) THEN Len(list)-(i+1)+1 ELSE 0
        /\ \A k \in 1..Len(list)-(i+1)+1 : after[k] = list[(i+1)+k-1]
    BY <1>1, <2>1, SubSeqProperties
  <2> QED
    BY <1>1, <2>2
<1> HIDE DEF before, after
<1>4. /\ before \o after \in Seq(Code) /\ Len(before \o after) = Len(list) - 1
      /\ \A k \in 1..Len(list)-1 :
           (before \o after)[k] = IF k <= i-1 THEN before[k] ELSE after[k - (i-1)]
  <2>1. Len(before) + Len(after) = Len(list) - 1
    BY <1>1, <1>2, <1>3
  <2>2. /\ before \o after \in Seq(Code) /\ Len(before \o after) = Len(before) + Len(after)
        /\ \A k \in 1..Len(before) + Len(after) :
             (before \o after)[k] = IF k <= Len(before) THEN before[k] ELSE after[k - Len(before)]
    BY <1>2, <1>3, ConcatProperties, Zenon
  <2> HIDE DEF before, after
  <2> QED
    BY <1>2, <2>1, <2>2, Zenon
<1>5. rest = before \o after
  BY DEF RemoveAt, before, after
<1> HIDE DEF rest
<1>6. \A k \in 1..Len(list)-1 : rest[k] = IF k < i THEN list[k] ELSE list[k + 1]
  <2>1. ASSUME NEW k \in 1..Len(list)-1, k < i
        PROVE  rest[k] = list[k]
    <3>1. k \in 1..i-1 /\ k <= i-1
      BY <1>1, <2>1
    <3> QED
      BY <1>2, <1>4, <1>5, <3>1
  <2>2. ASSUME NEW k \in 1..Len(list)-1, ~(k < i)
        PROVE  rest[k] = list[k + 1]
    <3>1. k - (i-1) \in 1..Len(list)-i /\ ~(k <= i-1) /\ i + (k - (i-1)) = k + 1
      BY <1>1, <2>2
    <3> QED
      BY <1>3, <1>4, <1>5, <3>1
  <2> QED
    BY <2>1, <2>2
<1>7. rest \in Seq(Code) /\ Len(rest) = Len(list) - 1 /\ DOMAIN rest = 1..Len(list)-1
  BY <1>4, <1>5
<1>8. ASSUME kind = "hosted", NEW k \in 1..Len(rest)
      PROVE  rest[k] \in Mine
  <2>1. k \in 1..Len(list)-1 /\ k \in 1..Len(list) /\ k + 1 \in 1..Len(list)
    BY <1>1, <1>7
  <2>2. \A m \in 1..Len(list) : list[m] \in Mine
    BY <1>8 DEF Rows
  <2> QED
    BY <1>6, <2>1, <2>2
<1>9. Rows(kind, rest)
  BY <1>7, <1>8 DEF Rows
<1> QED
  BY <1>9 DEF rest

\* A tournament that is collected joins the list, or is in it.
LEMMA CollectedFacts ==
  ASSUME NEW list \in Seq(Code), NEW c \in Code
  PROVE  /\ Collected(list, c) \in Seq(Code)
         /\ \A k \in 1..Len(Collected(list, c)) :
              \/ k \in 1..Len(list) /\ Collected(list, c)[k] = list[k]
              \/ Collected(list, c)[k] = c
<1>1. Len(list) \in Nat
  BY LenProperties
<1>2. /\ Append(list, c) \in Seq(Code) /\ Len(Append(list, c)) = Len(list) + 1
      /\ \A i \in 1..Len(list) : Append(list, c)[i] = list[i]
      /\ Append(list, c)[Len(list) + 1] = c
  BY AppendProperties
<1>3. \A k \in 1..Len(list) + 1 : k \in 1..Len(list) \/ k = Len(list) + 1
  BY <1>1
<1>4. CASE c \in ToSet(list)
  BY <1>4 DEF Collected
<1>5. CASE c \notin ToSet(list)
  BY <1>2, <1>3, <1>5 DEF Collected
<1> QED
  BY <1>4, <1>5
-----------------------------------------------------------------------------
LEMMA InitL == Init => LInv
<1> SUFFICES ASSUME Init
             PROVE  LInv
  OBVIOUS
<1>1. StoredInv
  BY DEF Init, StoredInv, Code, Kind, NoRows
<1>2. ListeningInv
  BY DEF Init, ListeningInv
<1>3. RowsInv
  BY NoRowsAreRows DEF Init, RowsInv, TouchedRowIsMeant
<1>4. OpenedInv
  BY DEF Init, OpenedInv, OnlyOwnAsHost, NotOpened
<1> QED
  BY <1>1, <1>2, <1>3, <1>4 DEF LInv

\* The parts of the invariant a step leaves alone.
LEMMA ListeningStays ==
  ASSUME ListeningInv, UNCHANGED listening
  PROVE  ListeningInv'
BY DEF listening, ListeningInv, ListenerInv, Reported

LEMMA RowsStay ==
  ASSUME RowsInv, UNCHANGED <<rows, displayed>>
  PROVE  RowsInv'
BY DEF RowsInv, Rows, TouchedRowIsMeant

LEMMA StoredStays ==
  ASSUME StoredInv, UNCHANGED stored
  PROVE  StoredInv'
BY DEF stored, StoredInv

LEMMA OpenedStays ==
  ASSUME OpenedInv, UNCHANGED <<phase, host, opened>>
  PROVE  OpenedInv'
BY DEF OpenedInv, OnlyOwnAsHost

\* Codes come and go; the listeners and the table stay.
LEMMA TabsStored ==
  ASSUME LInv, NEW c \in Code, (c \in Mine /\ Host(c)) \/ Join(c)
  PROVE  LInv'
<1>1. PICK kind \in Kind :
        /\ codes' = [codes EXCEPT ![kind] = Append(@, c)]
        /\ kind = "hosted" => c \in Mine
  BY DEF Host, Join, Kind
<1>2. db' \in [Code -> {"none", "stored", "deleted"}]
  BY DEF Host, Join, LInv, StoredInv
<1>3. codes \in [Kind -> Seq(Code)] /\ \A k \in 1..Len(codes["hosted"]) : codes["hosted"][k] \in Mine
  BY DEF LInv, StoredInv
<1>4. codes[kind] \in Seq(Code) /\ Len(codes[kind]) \in Nat
  BY <1>3
<1>5. /\ Append(codes[kind], c) \in Seq(Code)
      /\ Len(Append(codes[kind], c)) = Len(codes[kind]) + 1
      /\ \A i \in 1..Len(codes[kind]) : Append(codes[kind], c)[i] = codes[kind][i]
      /\ Append(codes[kind], c)[Len(codes[kind]) + 1] = c
  BY <1>4, AppendProperties
<1>6. \A k \in 1..Len(codes[kind]) + 1 : k \in 1..Len(codes[kind]) \/ k = Len(codes[kind]) + 1
  BY <1>4
<1>7. \A k \in 1..Len(codes'["hosted"]) : codes'["hosted"][k] \in Mine
  <2>1. CASE kind = "hosted"
    <3>1. codes'["hosted"] = Append(codes[kind], c)
      BY <1>1, <1>3, <2>1 DEF Kind
    <3> QED
      BY <1>1, <1>3, <1>5, <1>6, <2>1, <3>1
  <2>2. CASE kind # "hosted"
    <3>1. codes'["hosted"] = codes["hosted"]
      BY <1>1, <1>3, <2>2 DEF Kind
    <3> QED
      BY <1>3, <3>1
  <2> QED
    BY <2>1, <2>2
<1>8. StoredInv'
  BY <1>1, <1>2, <1>3, <1>5, <1>7 DEF StoredInv
<1>9. UNCHANGED <<listening, phase, table>>
  BY DEF Host, Join
<1> QED
  BY <1>8, <1>9, ListeningStays, RowsStay, OpenedStays DEF LInv, table

\* The listeners of a visit are new, and of the codes on the phone.
LEMMA ListenersFacts ==
  ASSUME StoredInv, NEW kind \in Kind, NEW i \in Nat
  PROVE  /\ Listeners(kind, i) \in Seq(ListenerType)
         /\ \A k \in 1..Len(Listeners(kind, i)) :
              /\ Listeners(kind, i)[k].collector = i
              /\ kind = "hosted" => Listeners(kind, i)[k].code \in Mine
<1> DEFINE list == codes[kind]
           new == Listeners(kind, i)
           one(k) == [code |-> list[k], heard |-> FALSE, collector |-> i]
<1>1. kind = "hosted" => \A k \in 1..Len(list) : list[k] \in Mine
  BY DEF StoredInv
<1>2. list \in Seq(Code)
  BY DEF StoredInv
<1>3. new = [k \in DOMAIN list |-> one(k)]
  BY DEF Listeners
<1> HIDE DEF list, new
<1>4. Len(list) \in Nat /\ DOMAIN list = 1..Len(list)
  BY <1>2, LenProperties
<1>5. \A k \in 1..Len(list) : list[k] \in Code
  BY <1>2, ElementOfSeq
<1>6. \A k \in 1..Len(list) : one(k) \in ListenerType
  BY <1>5 DEF ListenerType
<1>7. new \in [1..Len(list) -> ListenerType]
  BY <1>3, <1>4, <1>6
<1>8. new \in Seq(ListenerType) /\ Len(new) = Len(list)
  BY <1>4, <1>7, FunctionIsSequence
<1>9. \A k \in 1..Len(new) : new[k] = one(k) /\ k \in 1..Len(list)
  BY <1>3, <1>4, <1>8
<1>10. \A k \in 1..Len(new) : /\ new[k].collector = i
                              /\ kind = "hosted" => new[k].code \in Mine
  <2> SUFFICES ASSUME NEW k \in 1..Len(new)
               PROVE  /\ new[k].collector = i
                      /\ kind = "hosted" => new[k].code \in Mine
    OBVIOUS
  <2>1. new[k] = one(k) /\ k \in 1..Len(list)
    BY <1>9
  <2>2. new[k].code = list[k] /\ new[k].collector = i
    BY <2>1
  <2> QED
    BY <1>1, <2>1, <2>2
<1> QED
  BY <1>8, <1>10 DEF new

\* Two more collectors, and listeners for each: the others stay theirs.
LEMMA FetchInv ==
  ASSUME LInv, Fetch, UNCHANGED <<stored, posted>>
  PROVE  ListeningInv'
<1> DEFINE both == <<Collector("hosted"), Collector("joined")>>
           hosted == Listeners("hosted", Len(collectors) + 1)
           joined == Listeners("joined", Len(collectors) + 2)
           more == hosted \o joined
<1>1. /\ collectors \in Seq(CollectorType) /\ Len(collectors) \in Nat
      /\ listeners \in Seq(ListenerType) /\ Len(listeners) \in Nat
      /\ \A n \in 1..Len(listeners) : ListenerInv(listeners[n])
      /\ \A i \in 1..Len(collectors) : \A k \in 1..Len(collectors[i].list) :
           Reported(i, collectors[i].list[k])
      /\ posted \in Seq(Nat)
      /\ \A k \in 1..Len(posted) : posted[k] \in 1..Len(listeners) /\ listeners[posted[k]].heard
  BY DEF LInv, ListeningInv
<1>2. /\ both \in Seq(CollectorType) /\ Len(both) = 2
      /\ both[1].kind = "hosted" /\ both[2].kind = "joined"
      /\ both[1].list = << >> /\ both[2].list = << >>
  BY DEF Collector, CollectorType, Kind
<1>3. /\ hosted \in Seq(ListenerType)
      /\ \A k \in 1..Len(hosted) : /\ hosted[k].collector = Len(collectors) + 1
                                   /\ hosted[k].code \in Mine
  <2>1. "hosted" \in Kind /\ Len(collectors) + 1 \in Nat
    BY <1>1 DEF Kind
  <2> QED
    BY <2>1, ListenersFacts DEF LInv
<1>4. /\ joined \in Seq(ListenerType)
      /\ \A k \in 1..Len(joined) : joined[k].collector = Len(collectors) + 2
  <2>1. "joined" \in Kind /\ Len(collectors) + 2 \in Nat
    BY <1>1 DEF Kind
  <2> QED
    BY <2>1, ListenersFacts DEF LInv
<1>5. /\ listeners' = (listeners \o hosted) \o joined
      /\ collectors' = collectors \o both
      /\ posted' = posted
  BY DEF Fetch
<1> HIDE DEF both, hosted, joined
<1>6. /\ collectors' \in Seq(CollectorType) /\ Len(collectors') = Len(collectors) + 2
      /\ \A i \in 1..Len(collectors) : i \in 1..Len(collectors') /\ collectors'[i] = collectors[i]
      /\ \A i \in 1..2 : /\ Len(collectors) + i \in 1..Len(collectors')
                         /\ collectors'[Len(collectors) + i] = both[i]
      /\ \A i \in 1..Len(collectors') :
           i \in 1..Len(collectors) \/ \E m \in 1..2 : i = Len(collectors) + m
  <2>1. /\ collectors \o both \in Seq(CollectorType)
        /\ Len(collectors \o both) = Len(collectors) + Len(both)
        /\ \A i \in 1..Len(collectors) :
             /\ i \in 1..Len(collectors \o both)
             /\ (collectors \o both)[i] = collectors[i]
        /\ \A i \in 1..Len(both) : /\ Len(collectors) + i \in 1..Len(collectors \o both)
                                   /\ (collectors \o both)[Len(collectors) + i] = both[i]
        /\ \A i \in 1..Len(collectors \o both) :
             i \in 1..Len(collectors) \/ \E m \in 1..Len(both) : i = Len(collectors) + m
    <3>1. collectors \in Seq(CollectorType) /\ both \in Seq(CollectorType)
      BY <1>1, <1>2
    <3> QED
      BY <3>1, Joined
  <2> QED
    BY <1>2, <1>5, <2>1
<1>7. /\ Len(collectors) + 1 \in 1..Len(collectors') /\ Len(collectors) + 2 \in 1..Len(collectors')
      /\ collectors'[Len(collectors) + 2].kind = "joined"
      /\ \A i \in 1..Len(collectors') :
           \/ i \in 1..Len(collectors) /\ collectors'[i] = collectors[i]
           \/ collectors'[i].list = << >>
  BY <1>2, <1>6
<1>8. \A one : one.collector \in 1..Len(collectors) /\ ListenerInv(one) =>
        /\ one.collector \in 1..Len(collectors')
        /\ collectors'[one.collector].kind = "hosted" => one.code \in Mine
  BY <1>6 DEF ListenerInv
<1> DEFINE Fits(one) == /\ one.collector \in 1..Len(collectors')
                        /\ collectors'[one.collector].kind = "hosted" => one.code \in Mine
<1>9. /\ \A n \in 1..Len(listeners) : Fits(listeners[n])
      /\ \A n \in 1..Len(hosted) : Fits(hosted[n])
      /\ \A n \in 1..Len(joined) : Fits(joined[n])
  <2>1. \A n \in 1..Len(listeners) : Fits(listeners[n])
    BY <1>1, <1>8 DEF ListenerInv
  <2>2. \A n \in 1..Len(hosted) : Fits(hosted[n])
    BY <1>3, <1>7
  <2>3. \A n \in 1..Len(joined) : Fits(joined[n])
    BY <1>4, <1>7
  <2> QED
    BY <2>1, <2>2, <2>3
<1> HIDE DEF Fits
<1>10. /\ listeners \o hosted \in Seq(ListenerType)
       /\ \A n \in 1..Len(listeners) :
            /\ n \in 1..Len(listeners \o hosted)
            /\ (listeners \o hosted)[n] = listeners[n]
       /\ \A n \in 1..Len(listeners \o hosted) : Fits((listeners \o hosted)[n])
  <2>1. /\ listeners \o hosted \in Seq(ListenerType)
        /\ \A n \in 1..Len(listeners) :
             /\ n \in 1..Len(listeners \o hosted)
             /\ (listeners \o hosted)[n] = listeners[n]
        /\ \A n \in 1..Len(hosted) : (listeners \o hosted)[Len(listeners) + n] = hosted[n]
        /\ \A n \in 1..Len(listeners \o hosted) :
             n \in 1..Len(listeners) \/ \E m \in 1..Len(hosted) : n = Len(listeners) + m
    BY <1>1, <1>3, Joined
  <2> QED
    BY <1>9, <2>1
<1>11. /\ listeners' \in Seq(ListenerType)
       /\ \A n \in 1..Len(listeners) : n \in 1..Len(listeners') /\ listeners'[n] = listeners[n]
       /\ \A n \in 1..Len(listeners') : Fits(listeners'[n])
  <2> DEFINE first == listeners \o hosted
  <2>1. first \in Seq(ListenerType)
    BY <1>10
  <2> HIDE DEF first
  <2>2. /\ first \o joined \in Seq(ListenerType)
        /\ \A n \in 1..Len(first) : n \in 1..Len(first \o joined) /\ (first \o joined)[n] = first[n]
        /\ \A n \in 1..Len(joined) : (first \o joined)[Len(first) + n] = joined[n]
        /\ \A n \in 1..Len(first \o joined) :
             n \in 1..Len(first) \/ \E m \in 1..Len(joined) : n = Len(first) + m
    BY <1>4, <2>1, Joined
  <2>3. listeners' = first \o joined
    BY <1>5 DEF first
  <2>4. \A n \in 1..Len(first) : Fits(first[n])
    BY <1>10 DEF first
  <2>5. \A n \in 1..Len(first \o joined) : Fits((first \o joined)[n])
    BY <1>9, <2>2, <2>4
  <2>6. \A n \in 1..Len(listeners) : n \in 1..Len(first) /\ first[n] = listeners[n]
    BY <1>10 DEF first
  <2> QED
    BY <2>2, <2>3, <2>5, <2>6
<1>12. \A n \in 1..Len(listeners') : ListenerInv(listeners[n])'
  BY <1>11 DEF Fits, ListenerInv
<1>13. ASSUME NEW i \in 1..Len(collectors'), NEW k \in 1..Len(collectors'[i].list)
       PROVE  \E n \in 1..Len(listeners') :
                listeners'[n] = [code |-> collectors'[i].list[k], heard |-> TRUE, collector |-> i]
  <2>1. CASE i \in 1..Len(collectors) /\ collectors'[i] = collectors[i]
    <3>1. PICK n \in 1..Len(listeners) :
            listeners[n] = [code |-> collectors[i].list[k], heard |-> TRUE, collector |-> i]
      BY <1>1, <1>13, <2>1 DEF Reported
    <3> QED
      BY <1>11, <2>1, <3>1
  <2>2. CASE collectors'[i].list = << >>
    BY <1>13, <2>2
  <2> QED
    BY <1>7, <2>1, <2>2
<1>14. \A k \in 1..Len(posted') :
         posted'[k] \in 1..Len(listeners') /\ listeners'[posted'[k]].heard
  BY <1>1, <1>5, <1>11
<1> QED
  BY <1>1, <1>5, <1>6, <1>11, <1>12, <1>13, <1>14 DEF ListeningInv, Reported

LEMMA AppearInv ==
  ASSUME LInv, Appear
  PROVE  LInv'
<1>1. ListeningInv'
  BY FetchInv DEF Appear
<1>2. OpenedInv'
  BY DEF Appear, table, LInv, OpenedInv, OnlyOwnAsHost
<1> QED
  BY <1>1, <1>2, StoredStays, RowsStay DEF Appear, LInv, table

LEMMA DisappearInv ==
  ASSUME LInv, Disappear
  PROVE  LInv'
<1>1. RowsInv'
  BY NoRowsAreRows DEF Disappear, LInv, RowsInv, TouchedRowIsMeant
<1>2. OpenedInv'
  BY DEF Disappear, LInv, OpenedInv, OnlyOwnAsHost
<1> QED
  BY <1>1, <1>2, StoredStays, ListeningStays DEF Disappear, LInv

LEMMA RestartInv ==
  ASSUME LInv, Restart
  PROVE  LInv'
<1>1. RowsInv'
  BY NoRowsAreRows DEF Restart, RowsInv, TouchedRowIsMeant
<1>2. ListeningInv'
  BY DEF Restart, ListeningInv
<1>3. OpenedInv'
  BY DEF Restart, OpenedInv, OnlyOwnAsHost, NotOpened
<1> QED
  BY <1>1, <1>2, <1>3, StoredStays DEF Restart, LInv

LEMMA CrashInv ==
  ASSUME LInv, Crash, phase = "shown"
  PROVE  LInv'
<1>1. ListeningInv'
  BY DEF Crash, ListeningInv
<1>2. OpenedInv'
  BY DEF Crash, table, LInv, OpenedInv, OnlyOwnAsHost
<1> QED
  BY <1>1, <1>2, StoredStays, RowsStay DEF Crash, LInv, table
\* A listener is called: it was not before, so no list has its reports yet.
LEMMA FirstSnapshotInv ==
  ASSUME LInv, NEW n \in DOMAIN listeners, FirstSnapshot(n)
  PROVE  LInv'
<1> DEFINE called == [listeners[n] EXCEPT !.heard = TRUE]
<1>1. /\ listeners \in Seq(ListenerType) /\ Len(listeners) \in Nat /\ n \in 1..Len(listeners)
      /\ \A m \in 1..Len(listeners) : ListenerInv(listeners[m])
      /\ \A i \in 1..Len(collectors) : \A k \in 1..Len(collectors[i].list) :
           Reported(i, collectors[i].list[k])
      /\ posted \in Seq(Nat)
      /\ \A k \in 1..Len(posted) : posted[k] \in 1..Len(listeners) /\ listeners[posted[k]].heard
  BY DEF LInv, ListeningInv
<1>2. /\ ~listeners[n].heard
      /\ listeners' = [listeners EXCEPT ![n] = called]
      /\ posted' = Append(posted, n)
      /\ collectors' = collectors
  BY DEF FirstSnapshot
<1>3. /\ called \in ListenerType /\ called.heard
      /\ called.code = listeners[n].code /\ called.collector = listeners[n].collector
  <2>1. listeners[n] \in ListenerType
    BY <1>1, ElementOfSeq
  <2> QED
    BY <2>1 DEF ListenerType
<1> HIDE DEF called
<1>4. /\ listeners' \in Seq(ListenerType) /\ Len(listeners') = Len(listeners)
      /\ \A m \in 1..Len(listeners) : listeners'[m] = IF m = n THEN called ELSE listeners[m]
  BY <1>1, <1>2, <1>3, ExceptSeq
<1>5. \A m \in 1..Len(listeners') : ListenerInv(listeners[m])'
  BY <1>1, <1>2, <1>3, <1>4 DEF ListenerInv
<1>6. ASSUME NEW i \in 1..Len(collectors), NEW k \in 1..Len(collectors[i].list)
      PROVE  Reported(i, collectors[i].list[k])'
  <2> DEFINE report == [code |-> collectors[i].list[k], heard |-> TRUE, collector |-> i]
  <2>1. PICK m \in 1..Len(listeners) : listeners[m] = report
    BY <1>1 DEF Reported
  <2>2. report.heard
    OBVIOUS
  <2> HIDE DEF report
  <2>3. m # n
    BY <1>2, <2>1, <2>2
  <2>4. listeners'[m] = report /\ m \in 1..Len(listeners')
    BY <1>4, <2>1, <2>3
  <2> QED
    BY <1>2, <2>4 DEF Reported, report
<1>7. /\ posted' \in Seq(Nat) /\ Len(posted) \in Nat /\ Len(posted') = Len(posted) + 1
      /\ \A k \in 1..Len(posted) : posted'[k] = posted[k]
      /\ posted'[Len(posted) + 1] = n
  <2>1. n \in Nat
    BY <1>1
  <2> QED
    BY <1>1, <1>2, <2>1, AppendProperties
<1>8. \A m \in 1..Len(listeners) : listeners[m].heard => listeners'[m].heard
  BY <1>2, <1>4
<1>9. n \in 1..Len(listeners') /\ listeners'[n].heard
  BY <1>1, <1>3, <1>4
<1>10. ASSUME NEW k \in 1..Len(posted')
       PROVE  posted'[k] \in 1..Len(listeners') /\ listeners'[posted'[k]].heard
  <2>1. CASE k \in 1..Len(posted)
    BY <1>1, <1>4, <1>7, <1>8, <2>1
  <2>2. CASE k = Len(posted) + 1
    BY <1>7, <1>9, <2>2
  <2> QED
    BY <1>7, <2>1, <2>2
<1>11. ListeningInv'
  <2>1. collectors' \in Seq(CollectorType)
    BY <1>2 DEF LInv, ListeningInv
  <2> QED
    BY <1>2, <1>4, <1>5, <1>6, <1>7, <1>10, <2>1 DEF ListeningInv
<1> QED
  BY <1>11, StoredStays, RowsStay, OpenedStays DEF FirstSnapshot, table, LInv

\* A callback for each listener that was called.
LEMMA ChangeInv ==
  ASSUME LInv, NEW c \in Code, Change(c)
  PROVE  LInv'
<1> DEFINE hearing == {n \in DOMAIN listeners : listeners[n].code = c /\ listeners[n].heard}
           calls == Ascending(hearing)
<1>1. /\ DOMAIN listeners = 1..Len(listeners) /\ Len(listeners) \in Nat
      /\ posted \in Seq(Nat)
      /\ \A k \in 1..Len(posted) : posted[k] \in 1..Len(listeners) /\ listeners[posted[k]].heard
  BY LenProperties DEF LInv, ListeningInv
<1>2. hearing \in SUBSET (1..Len(listeners))
  BY <1>1
<1>3. \A n \in hearing : n \in 1..Len(listeners) /\ listeners[n].heard
  BY <1>1
<1>4. posted' = posted \o calls /\ UNCHANGED <<listeners, collectors>>
  BY DEF Change
<1> HIDE DEF hearing
<1>5. calls \in Seq(hearing)
  BY <1>1, <1>2, AscendingFacts
<1> HIDE DEF calls
<1>6. \A k \in 1..Len(calls) : calls[k] \in hearing
  BY <1>5, ElementOfSeq
<1>7. calls \in Seq(Nat)
  <2>1. Len(calls) \in Nat /\ DOMAIN calls = 1..Len(calls) /\ calls = [k \in 1..Len(calls) |-> calls[k]]
    BY <1>5, LenProperties
  <2>2. \A k \in 1..Len(calls) : calls[k] \in Nat
    BY <1>3, <1>6
  <2>3. calls \in [1..Len(calls) -> Nat]
    BY <2>1, <2>2
  <2> QED
    BY <2>1, <2>3, FunctionIsSequence
<1>8. /\ posted \o calls \in Seq(Nat)
      /\ \A k \in 1..Len(posted) : (posted \o calls)[k] = posted[k]
      /\ \A k \in 1..Len(calls) : (posted \o calls)[Len(posted) + k] = calls[k]
      /\ \A k \in 1..Len(posted \o calls) :
           k \in 1..Len(posted) \/ \E m \in 1..Len(calls) : k = Len(posted) + m
  BY <1>1, <1>7, Joined
<1>9. ASSUME NEW k \in 1..Len(posted \o calls)
      PROVE  /\ (posted \o calls)[k] \in 1..Len(listeners)
             /\ listeners[(posted \o calls)[k]].heard
  <2>1. CASE k \in 1..Len(posted)
    BY <1>1, <1>8, <2>1
  <2>2. ASSUME NEW m \in 1..Len(calls), k = Len(posted) + m
        PROVE  /\ (posted \o calls)[k] \in 1..Len(listeners)
               /\ listeners[(posted \o calls)[k]].heard
    <3>1. (posted \o calls)[k] = calls[m] /\ calls[m] \in hearing
      BY <1>6, <1>8, <2>2
    <3> QED
      BY <1>3, <3>1
  <2> QED
    BY <1>8, <2>1, <2>2
<1>10. ListeningInv'
  <2>1. /\ posted' \in Seq(Nat)
        /\ \A k \in 1..Len(posted') : /\ posted'[k] \in 1..Len(listeners')
                                      /\ listeners'[posted'[k]].heard
    BY <1>4, <1>8, <1>9
  <2> QED
    BY <1>4, <2>1 DEF LInv, ListeningInv, ListenerInv, Reported
<1> QED
  BY <1>10, StoredStays, RowsStay, OpenedStays DEF Change, table, LInv

LEMMA VanishInv ==
  ASSUME LInv, NEW c \in Code, Vanish(c)
  PROVE  LInv'
<1>1. StoredInv'
  BY DEF Vanish, LInv, StoredInv
<1> QED
  BY <1>1, ListeningStays, RowsStay, OpenedStays DEF Vanish, table, LInv

\* Whatever visit a callback is of, the list it shows is one of its kind.
LEMMA CallbackInv ==
  ASSUME LInv, Callback
  PROVE  LInv'
<1> DEFINE n == Head(posted)
           i == listeners[n].collector
           c == listeners[n].code
           before == collectors[i].list
           list == Collected(before, c)
           kept == [collectors[i] EXCEPT !.list = list]
<1>1. /\ collectors \in Seq(CollectorType) /\ Len(collectors) \in Nat
      /\ listeners \in Seq(ListenerType)
      /\ \A m \in 1..Len(listeners) : ListenerInv(listeners[m])
      /\ \A j \in 1..Len(collectors) : \A k \in 1..Len(collectors[j].list) :
           Reported(j, collectors[j].list[k])
      /\ posted \in Seq(Nat) /\ posted # << >>
      /\ \A k \in 1..Len(posted) : posted[k] \in 1..Len(listeners) /\ listeners[posted[k]].heard
  BY DEF Callback, LInv, ListeningInv
<1>2. /\ posted' = Tail(posted)
      /\ collectors' = [collectors EXCEPT ![i] = kept]
      /\ rows' = [rows EXCEPT ![collectors[i].kind] = list]
      /\ displayed' = rows'
      /\ listeners' = listeners
  BY DEF Callback
<1>3. /\ Len(posted) \in Nat /\ Len(posted) >= 1 /\ n = posted[1]
      /\ Tail(posted) \in Seq(Nat)
      /\ Len(Tail(posted)) = Len(posted) - 1
      /\ \A k \in 1..Len(Tail(posted)) : Tail(posted)[k] = posted[k + 1]
  BY <1>1, HeadTailProperties, EmptySeq
<1>4. n \in 1..Len(listeners) /\ listeners[n].heard
  <2>1. 1 \in 1..Len(posted)
    BY <1>3
  <2> QED
    BY <1>1, <1>3, <2>1
<1> HIDE DEF n
<1>5. listeners[n] \in ListenerType /\ ListenerInv(listeners[n])
  BY <1>1, <1>4, ElementOfSeq
<1>6. /\ c \in Code /\ i \in 1..Len(collectors)
      /\ collectors[i].kind = "hosted" => c \in Mine
      /\ listeners[n] = [code |-> c, heard |-> TRUE, collector |-> i]
  BY <1>4, <1>5 DEF ListenerInv, ListenerType
<1> HIDE DEF i, c
<1>7. collectors[i] \in CollectorType
  BY <1>1, <1>6, ElementOfSeq
<1>8. before \in Seq(Code) /\ collectors[i].kind \in Kind
  BY <1>7 DEF CollectorType
<1>9. /\ list \in Seq(Code)
      /\ \A k \in 1..Len(list) : (k \in 1..Len(before) /\ list[k] = before[k]) \/ list[k] = c
  BY <1>6, <1>8, CollectedFacts
<1>10. kept \in CollectorType /\ kept.list = list /\ kept.kind = collectors[i].kind
  BY <1>7, <1>9 DEF CollectorType
<1>11. \A k \in 1..Len(before) : Reported(i, before[k])
  BY <1>1, <1>6
<1> HIDE DEF kept, list, before
<1>12. Reported(i, c)
  BY <1>4, <1>6 DEF Reported
<1>13. \A k \in 1..Len(list) : Reported(i, list[k])
  BY <1>9, <1>11, <1>12
<1>14. /\ collectors' \in Seq(CollectorType) /\ Len(collectors') = Len(collectors)
       /\ \A j \in 1..Len(collectors) : collectors'[j] = IF j = i THEN kept ELSE collectors[j]
  BY <1>1, <1>2, <1>6, <1>10, ExceptSeq
<1>15. \A j \in 1..Len(collectors) : collectors'[j].kind = collectors[j].kind
  BY <1>10, <1>14
<1>16. \A m \in 1..Len(listeners) : ListenerInv(listeners[m])'
  BY <1>1, <1>2, <1>14, <1>15 DEF ListenerInv
<1>17. ASSUME NEW j \in 1..Len(collectors'), NEW k \in 1..Len(collectors'[j].list)
       PROVE  Reported(j, collectors'[j].list[k])
  <2>1. CASE j = i
    BY <1>6, <1>10, <1>13, <1>14, <2>1
  <2>2. CASE j # i
    <3>1. collectors'[j] = collectors[j] /\ j \in 1..Len(collectors)
      BY <1>14, <2>2
    <3> QED
      BY <1>1, <3>1
  <2> QED
    BY <2>1, <2>2
<1>18. ASSUME NEW k \in 1..Len(Tail(posted))
       PROVE  /\ Tail(posted)[k] \in 1..Len(listeners)
              /\ listeners[Tail(posted)[k]].heard
  <2>1. k + 1 \in 1..Len(posted)
    BY <1>3
  <2> QED
    BY <1>1, <1>3, <2>1
<1>19. ListeningInv'
  BY <1>1, <1>2, <1>3, <1>14, <1>16, <1>17, <1>18 DEF ListeningInv, Reported
<1>20. Rows(collectors[i].kind, list)
  <2>1. ASSUME collectors[i].kind = "hosted", NEW k \in 1..Len(list)
        PROVE  list[k] \in Mine
    <3>1. PICK m \in 1..Len(listeners) :
            listeners[m] = [code |-> list[k], heard |-> TRUE, collector |-> i]
      BY <1>13 DEF Reported
    <3>2. listeners[m].code = list[k] /\ listeners[m].collector = i
      BY <3>1
    <3> QED
      BY <1>1, <2>1, <3>2 DEF ListenerInv
  <2> QED
    BY <1>9, <2>1 DEF Rows
<1>21. RowsInv'
  <2>1. /\ rows \in [Kind -> Seq(Code)]
        /\ \A kind \in Kind : Rows(kind, rows[kind])
    BY DEF LInv, RowsInv
  <2>2. /\ rows' \in [Kind -> Seq(Code)]
        /\ \A kind \in Kind : Rows(kind, rows'[kind])
    BY <1>2, <1>8, <1>9, <1>20, <2>1
  <2> QED
    BY <1>2, <2>2 DEF RowsInv, Rows, TouchedRowIsMeant
<1>22. OpenedInv'
  BY DEF Callback, LInv, OpenedInv, OnlyOwnAsHost
<1> QED
  BY <1>19, <1>21, <1>22, StoredStays DEF Callback, LInv

\* A hosted row is a tournament of this phone, and the flag was down.
LEMMA SelectInv ==
  ASSUME LInv, NEW kind \in Kind, NEW i \in DOMAIN displayed[kind], Select(kind, i)
  PROVE  LInv'
<1>1. CASE i \notin DOMAIN rows[kind]
  BY <1>1, CrashInv DEF Select
<1>2. CASE i \in DOMAIN rows[kind]
  <2>1. /\ phase = "shown" /\ phase' = "leaving"
        /\ host' = (host \/ kind = "hosted")
        /\ opened' = [code |-> rows[kind][i], host |-> host']
        /\ UNCHANGED <<stored, listening, rows, displayed>>
    BY <1>2 DEF Select
  <2>2. host = FALSE
    BY <2>1 DEF LInv, OpenedInv
  <2>3. host' \in BOOLEAN /\ opened'.host = host' /\ opened'.code = rows[kind][i]
    BY <2>1
  <2>4. host' => kind = "hosted"
    BY <2>1, <2>2
  <2>5. kind = "hosted" => rows[kind][i] \in Mine
    <3>1. Rows(kind, rows[kind])
      BY DEF LInv, RowsInv
    <3> QED
      BY <1>2, <3>1 DEF Rows
  <2>6. OpenedInv'
    BY <2>1, <2>3, <2>4, <2>5 DEF OpenedInv, OnlyOwnAsHost
  <2> QED
    BY <2>1, <2>6, StoredStays, ListeningStays, RowsStay DEF LInv
<1> QED
  BY <1>1, <1>2

\* What is swiped away is the row that is shown, and its code is forgotten.
LEMMA DeleteInv ==
  ASSUME LInv, NEW kind \in Kind, NEW i \in DOMAIN displayed[kind], Delete(kind, i)
  PROVE  LInv'
<1> DEFINE crash == i \notin DOMAIN rows[kind] \/ \E k \in Kind : Len(rows[k]) # Len(displayed[k])
<1>1. CASE crash
  BY <1>1, CrashInv DEF Delete
<1>2. CASE ~crash
  <2>1. /\ Forget(kind, rows[kind][i])
        /\ rows' = [rows EXCEPT ![kind] = RemoveAt(@, i)]
        /\ displayed' = [displayed EXCEPT ![kind] = RemoveAt(@, i)]
        /\ UNCHANGED <<listening, phase, host, opened>>
    BY <1>2 DEF Delete
  <2>2. /\ rows \in [Kind -> Seq(Code)] /\ displayed \in [Kind -> Seq(Code)]
        /\ \A k \in Kind : Rows(k, rows[k])
        /\ rows = displayed \/ rows = NoRows
    BY DEF LInv, RowsInv, TouchedRowIsMeant
  <2>3. i \in DOMAIN rows[kind]
    BY <1>2
  <2>4. rows = displayed
    BY <2>2, <2>3 DEF NoRows
  <2>5. Rows(kind, RemoveAt(rows[kind], i)) /\ RemoveAt(rows[kind], i) \in Seq(Code)
    BY <2>2, <2>3, RemoveAtRows DEF Rows
  <2>6. /\ rows' \in [Kind -> Seq(Code)] /\ rows' = displayed'
        /\ \A k \in Kind : Rows(k, rows'[k])
    BY <2>1, <2>2, <2>4, <2>5
  <2>7. RowsInv'
    BY <2>6 DEF RowsInv, Rows, TouchedRowIsMeant
  <2>8. StoredInv'
    <3> DEFINE list == codes[kind]
               less == Without(list, rows[kind][i])
    <3>1. /\ codes \in [Kind -> Seq(Code)] /\ list \in Seq(Code)
          /\ \A k \in 1..Len(codes["hosted"]) : codes["hosted"][k] \in Mine
      BY DEF LInv, StoredInv
    <3> HIDE DEF list
    <3>2. /\ less \in Seq(Code)
          /\ \A k \in 1..Len(less) : \E n \in 1..Len(list) : less[k] = list[n]
      BY <3>1, WithoutFacts
    <3> HIDE DEF less
    <3>3. codes' = [codes EXCEPT ![kind] = less]
      BY <2>1 DEF Forget, list, less
    <3>4. codes' \in [Kind -> Seq(Code)]
      BY <3>1, <3>2, <3>3
    <3>5. \A k \in 1..Len(codes'["hosted"]) : codes'["hosted"][k] \in Mine
      <4>1. CASE kind = "hosted"
        <5>1. codes'["hosted"] = less /\ list = codes["hosted"]
          BY <3>1, <3>3, <4>1 DEF list
        <5> QED
          BY <3>1, <3>2, <5>1
      <4>2. CASE kind # "hosted"
        <5>1. codes'["hosted"] = codes["hosted"]
          BY <3>1, <3>3, <4>2 DEF Kind
        <5> QED
          BY <3>1, <5>1
      <4> QED
        BY <4>1, <4>2
    <3>6. db' \in [Code -> {"none", "stored", "deleted"}]
      BY <2>1 DEF Forget, LInv, StoredInv
    <3> QED
      BY <3>4, <3>5, <3>6 DEF StoredInv
  <2> QED
    BY <2>1, <2>7, <2>8, ListeningStays, OpenedStays DEF LInv
<1> QED
  BY <1>1, <1>2
-----------------------------------------------------------------------------
LEMMA StepL == LInv /\ [Next]_vars => LInv'
<1> SUFFICES ASSUME LInv, [Next]_vars
             PROVE  LInv'
  OBVIOUS
<1>1. CASE UNCHANGED vars
  BY <1>1, StoredStays, ListeningStays, RowsStay, OpenedStays DEF vars, stored, listening, LInv
<1>2. CASE First
  BY <1>2, FirstSnapshotInv DEF First
<1>3. CASE Selection \/ Deletion
  BY <1>3, SelectInv, DeleteInv DEF Selection, Deletion
<1>4. CASE Tabs
  <2>1. \A c \in Mine : c \in Code
    BY DEF Code
  <2> QED
    BY <1>4, <2>1, TabsStored, AppearInv, DisappearInv, RestartInv DEF Tabs
<1>5. CASE Others
  <2>1. \A c \in Theirs : c \in Code
    BY DEF Code
  <2> QED
    BY <1>5, <2>1, ChangeInv, VanishInv DEF Others
<1> QED
  BY <1>1, <1>2, <1>3, <1>4, <1>5, CallbackInv DEF Next

LEMMA LInvAlways == Spec => []LInv
BY InitL, StepL, PTL DEF Spec

\* TypeOK: the database, the kept codes, the listeners, their lists, the
\* callbacks, and the two tables keep their types; in particular a callback
\* always is of a listener that exists and was called, and every tournament of a
\* list was reported by a listener of that list.
THEOREM ListsTypeCorrect == Spec => []TypeOK
<1>1. ASSUME LInv
      PROVE  TypeOK
  <2>1. /\ collectors \in Seq(CollectorType)
        /\ listeners \in Seq(ListenerType)
        /\ \A n \in 1..Len(listeners) : ListenerInv(listeners[n])
        /\ \A i \in 1..Len(collectors) : \A k \in 1..Len(collectors[i].list) :
             Reported(i, collectors[i].list[k])
        /\ posted \in Seq(Nat)
        /\ \A k \in 1..Len(posted) : posted[k] \in 1..Len(listeners) /\ listeners[posted[k]].heard
    BY <1>1 DEF LInv, ListeningInv
  <2>2. /\ DOMAIN collectors = 1..Len(collectors)
        /\ Len(listeners) \in Nat /\ DOMAIN listeners = 1..Len(listeners)
        /\ listeners = [n \in 1..Len(listeners) |-> listeners[n]]
        /\ Len(posted) \in Nat /\ posted = [k \in 1..Len(posted) |-> posted[k]]
    BY <2>1, LenProperties
  <2>3. ASSUME NEW i \in DOMAIN collectors
        PROVE  /\ collectors[i].kind \in Kind
               /\ \A c \in ToSet(collectors[i].list) : \E n \in DOMAIN listeners :
                    listeners[n] = [code |-> c, heard |-> TRUE, collector |-> i]
    <3>1. i \in 1..Len(collectors)
      BY <2>2
    <3>2. collectors[i] \in CollectorType
      BY <2>1, <3>1, ElementOfSeq
    <3>3. collectors[i].kind \in Kind /\ collectors[i].list \in Seq(Code)
      BY <3>2 DEF CollectorType
    <3>4. DOMAIN collectors[i].list = 1..Len(collectors[i].list)
      BY <3>3, LenProperties
    <3>5. \A k \in 1..Len(collectors[i].list) : Reported(i, collectors[i].list[k])
      BY <2>1, <3>1
    <3> QED
      BY <2>2, <3>3, <3>4, <3>5 DEF ToSet, Reported
  <2>4. listeners \in Seq([code : Code, heard : BOOLEAN, collector : DOMAIN collectors])
    <3> DEFINE listener == [code : Code, heard : BOOLEAN, collector : DOMAIN collectors]
    <3>1. ASSUME NEW n \in 1..Len(listeners)
          PROVE  listeners[n] \in listener
      <4>1. listeners[n] \in ListenerType /\ listeners[n].collector \in DOMAIN collectors
        BY <2>1, <2>2, ElementOfSeq DEF ListenerInv
      <4> QED
        BY <4>1 DEF ListenerType
    <3> HIDE DEF listener
    <3>2. listeners \in [1..Len(listeners) -> listener]
      BY <2>2, <3>1
    <3>3. listeners \in Seq(listener)
      BY <2>2, <3>2, FunctionIsSequence
    <3> QED
      BY <3>3 DEF listener
  <2>5. posted \in Seq({n \in DOMAIN listeners : listeners[n].heard})
    <3> DEFINE called == {n \in DOMAIN listeners : listeners[n].heard}
    <3>1. \A k \in 1..Len(posted) : posted[k] \in called
      BY <2>1, <2>2
    <3> HIDE DEF called
    <3>2. posted \in [1..Len(posted) -> called]
      BY <2>2, <3>1
    <3>3. posted \in Seq(called)
      BY <2>2, <3>2, FunctionIsSequence
    <3> QED
      BY <3>3 DEF called
  <2> QED
    BY <1>1, <2>3, <2>4, <2>5 DEF LInv, StoredInv, RowsInv, OpenedInv, TypeOK
<1> QED
  BY <1>1, LInvAlways, PTL

\* TouchedRowIsMeant: the lists are what the table view last loaded, or empty,
\* so a row that is touched or swiped is the tournament it shows, or none.
THEOREM TouchedRows == Spec => []TouchedRowIsMeant
<1>1. LInv => TouchedRowIsMeant
  BY DEF LInv, RowsInv
<1> QED
  BY <1>1, LInvAlways, PTL

\* OnlyOwnAsHost: whatever was opened before, and whichever visit's list is
\* shown, a bracket is only opened for its host on the phone that created it.
THEOREM OwnAsHost == Spec => []OnlyOwnAsHost
<1>1. LInv => OnlyOwnAsHost
  BY DEF LInv, OpenedInv
<1> QED
  BY <1>1, LInvAlways, PTL
=============================================================================
