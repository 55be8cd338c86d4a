------------------------- MODULE HostBracketProofs --------------------------
(***************************************************************************)
(* Proofs about HostBracket for every list of entrants, every height of    *)
(* the screen and every bound: it is type correct, and no version of the   *)
(* tournament loses or doubles a group.  First, what the operators of      *)
(* Tournament do to a list.                                                *)
(***************************************************************************)
EXTENDS HostBracket, BracketBackendProofs
-----------------------------------------------------------------------------
(* struct Tournament: what filtering a list, appending to it, setting ribbons *)
(* and padding a field give.                                                 *)

\* The positions of a set of indices are numbered from 1 without a gap: ranks
\* are distinct, and every number up to the size of the set is one.
LEMMA Ranks ==
  ASSUME NEW n \in Nat, NEW S \in SUBSET (1..n)
  PROVE  /\ IsFiniteSet(S)
         /\ Cardinality(S) \in Nat
         /\ \A i \in S : Rank(S, i) \in 1..Cardinality(S)
         /\ \A i, j \in S : Rank(S, i) = Rank(S, j) => i = j
         /\ \A k \in 1..Cardinality(S) : \E i \in S : Rank(S, i) = k
<1> DEFINE Upto(i) == {j \in S : j <= i}
           R == [i \in S |-> Rank(S, i)]
<1>1. IsFiniteSet(S) /\ Cardinality(S) \in Nat
  <2>1. IsFiniteSet(1..n)
    BY FS_Interval
  <2> QED
    BY <2>1, FS_Subset, FS_CardinalityType
<1>2. ASSUME NEW T \in SUBSET S
      PROVE  /\ IsFiniteSet(T)
             /\ Cardinality(T) \in Nat
             /\ Cardinality(T) <= Cardinality(S)
             /\ Cardinality(T) = 0 => T = {}
  BY <1>1, FS_Subset, FS_CardinalityType, FS_EmptySet
<1>3. ASSUME NEW i \in S
      PROVE  Rank(S, i) \in 1..Cardinality(S)
  <2>1. Upto(i) \in SUBSET S /\ i \in Upto(i)
    OBVIOUS
  <2> QED
    BY <1>1, <1>2, <2>1 DEF Rank
<1>4. ASSUME NEW i \in S, NEW j \in S, i < j
      PROVE  Rank(S, i) < Rank(S, j)
  <2>1. Upto(i) \in SUBSET Upto(j) /\ Upto(j) \in SUBSET S /\ Upto(i) \in SUBSET S
    <3>1. \A k \in S : k \in Int
      OBVIOUS
    <3>2. \A k \in S : k <= i => k <= j
      BY <1>4, <3>1
    <3> QED
      BY <3>2
  <2>2. j \in Upto(j) /\ j \notin Upto(i)
    BY <1>4
  <2>3. Cardinality(Upto(i)) <= Cardinality(Upto(j)) /\ Cardinality(Upto(i)) # Cardinality(Upto(j))
    BY <1>2, <2>1, <2>2, FS_Subset
  <2> QED
    BY <1>2, <2>1, <2>3 DEF Rank
<1>5. \A i, j \in S : Rank(S, i) = Rank(S, j) => i = j
  <2> SUFFICES ASSUME NEW i \in S, NEW j \in S, Rank(S, i) = Rank(S, j), i # j
               PROVE  FALSE
    OBVIOUS
  <2>1. i < j \/ j < i
    OBVIOUS
  <2>2. Rank(S, i) \in Int /\ Rank(S, j) \in Int
    BY <1>3
  <2> QED
    BY <1>4, <2>1, <2>2
<1>6. R \in Injection(S, 1..Cardinality(S))
  BY <1>3, <1>5 DEF Injection, IsInjective
<1>7. IsFiniteSet(1..Cardinality(S)) /\ Cardinality(1..Cardinality(S)) = Cardinality(S)
  BY <1>1, FS_Interval
<1>8. R \in Surjection(S, 1..Cardinality(S))
  BY <1>6, <1>7, FS_Injection
<1>9. \A k \in 1..Cardinality(S) : \E i \in S : Rank(S, i) = k
  BY <1>8 DEF Surjection
<1> QED
  BY <1>1, <1>3, <1>5, <1>9

\* filter { $0 != g } leaves a list of groups that has every name but g's, and
\* takes each of its elements from a position of its own.
LEMMA WithoutFacts ==
  ASSUME NEW list \in Seq(Group), NEW g \in Group
  PROVE  /\ Without(list, g) \in Seq(Group)
         /\ NamesOf(Without(list, g)) = NamesOf(list) \ {g.name}
         /\ \E from \in [DOMAIN Without(list, g) -> DOMAIN list] :
              /\ \A k \in DOMAIN Without(list, g) : Without(list, g)[k] = list[from[k]]
              /\ \A k, m \in DOMAIN Without(list, g) : from[k] = from[m] => k = m
<1> DEFINE S == Kept(list, g)
           size == Cardinality(S)
           at(k) == CHOOSE i \in S : Rank(S, i) = k
           from == [k \in 1..size |-> at(k)]
<1>1. S \in SUBSET (1..Len(list)) /\ Len(list) \in Nat /\ DOMAIN list = 1..Len(list)
  BY DEF Kept
<1>2. /\ size \in Nat
      /\ \A i \in S : Rank(S, i) \in 1..size
      /\ \A i, j \in S : Rank(S, i) = Rank(S, j) => i = j
      /\ \A k \in 1..size : \E i \in S : Rank(S, i) = k
  <2> HIDE DEF S
  <2> QED BY <1>1, Ranks
<1>3. \A k \in 1..size : at(k) \in S /\ Rank(S, at(k)) = k
  <2> HIDE DEF S
  <2> QED BY <1>2
<1>4. \A i \in S : at(Rank(S, i)) = i
  <2> HIDE DEF S, at
  <2> QED BY <1>2, <1>3
<1>5. Without(list, g) = [k \in 1..size |-> list[at(k)]]
  BY DEF Without
<1>6. \A i \in S : list[i] \in Group /\ list[i].name # g.name
  BY <1>1 DEF Kept
<1> HIDE DEF S, at, size
<1>7. Without(list, g) \in Seq(Group)
  BY <1>2, <1>3, <1>5, <1>6
<1>8. NamesOf(Without(list, g)) = NamesOf(list) \ {g.name}
  <2>1. ASSUME NEW x \in NamesOf(Without(list, g))
        PROVE  x \in NamesOf(list) \ {g.name}
    <3>1. PICK k \in DOMAIN Without(list, g) : Without(list, g)[k].name = x
      BY <2>1 DEF NamesOf
    <3>2. k \in 1..size /\ Without(list, g)[k] = list[at(k)]
      BY <1>5, <3>1
    <3>3. at(k) \in S /\ at(k) \in DOMAIN list
      BY <1>1, <1>3, <3>2
    <3>4. list[at(k)].name = x /\ list[at(k)].name # g.name
      BY <1>6, <3>1, <3>2, <3>3
    <3> QED
      BY <3>3, <3>4 DEF NamesOf
  <2>2. ASSUME NEW x \in NamesOf(list) \ {g.name}
        PROVE  x \in NamesOf(Without(list, g))
    <3>1. PICK i \in DOMAIN list : list[i].name = x
      BY DEF NamesOf
    <3>2. i \in S
      BY <2>2, <3>1 DEF S, Kept
    <3>3. Rank(S, i) \in DOMAIN Without(list, g) /\ Without(list, g)[Rank(S, i)] = list[i]
      BY <1>2, <1>4, <1>5, <3>2
    <3> QED
      BY <3>1, <3>3 DEF NamesOf
  <2> QED
    BY <2>1, <2>2
<1>9. /\ from \in [DOMAIN Without(list, g) -> DOMAIN list]
      /\ \A k \in DOMAIN Without(list, g) : Without(list, g)[k] = list[from[k]]
      /\ \A k, m \in DOMAIN Without(list, g) : from[k] = from[m] => k = m
  <2>1. DOMAIN Without(list, g) = 1..size
    BY <1>5
  <2>2. \A k \in 1..size : at(k) \in DOMAIN list
    BY <1>1, <1>3
  <2>3. \A k \in 1..size : Without(list, g)[k] = list[at(k)]
    BY <1>5
  <2>4. \A k, m \in 1..size : at(k) = at(m) => k = m
    BY <1>3
  <2> QED
    BY <2>1, <2>2, <2>3, <2>4
<1> QED
  BY <1>7, <1>8, <1>9

\* append unless contained: a list of groups with g's name among its names.
LEMMA WithFacts ==
  ASSUME NEW list \in Seq(Group), NEW g \in Group
  PROVE  /\ With(list, g) \in Seq(Group)
         /\ NamesOf(With(list, g)) = NamesOf(list) \cup {g.name}
<1>1. CASE g.name \in NamesOf(list)
  BY <1>1 DEF With
<1>2. CASE g.name \notin NamesOf(list)
  <2>1. With(list, g) = Append(list, g)
    BY <1>2 DEF With
  <2>2. /\ Append(list, g) \in Seq(Group)
        /\ DOMAIN Append(list, g) = (DOMAIN list) \cup {Len(list) + 1}
        /\ \A i \in DOMAIN list : Append(list, g)[i] = list[i]
        /\ Append(list, g)[Len(list) + 1] = g
    OBVIOUS
  <2>3. NamesOf(Append(list, g)) = NamesOf(list) \cup {g.name}
    <3> DEFINE longer == Append(list, g)
    <3> HIDE DEF longer
    <3>1. /\ DOMAIN longer = (DOMAIN list) \cup {Len(list) + 1}
          /\ \A i \in DOMAIN list : longer[i] = list[i]
          /\ longer[Len(list) + 1] = g
      BY <2>2 DEF longer
    <3>2. NamesOf(longer) = NamesOf(list) \cup {g.name}
      <4>1. \A x : x \in NamesOf(longer) => x \in NamesOf(list) \cup {g.name}
        BY <3>1 DEF NamesOf
      <4>2. \A x : x \in NamesOf(list) \cup {g.name} => x \in NamesOf(longer)
        BY <3>1 DEF NamesOf
      <4> QED
        BY <4>1, <4>2
    <3> QED
      BY <3>2 DEF longer
  <2> QED
    BY <2>1, <2>2, <2>3
<1> QED
  BY <1>1, <1>2

\* Setting ribbons changes no name and no position.
LEMMA SetStatusFacts ==
  ASSUME NEW list \in Seq(Group), NEW winner, NEW loser
  PROVE  /\ SetStatus(list, winner, loser) \in Seq(Group)
         /\ Len(SetStatus(list, winner, loser)) = Len(list)
         /\ NamesOf(SetStatus(list, winner, loser)) = NamesOf(list)
<1> DEFINE marked == SetStatus(list, winner, loser)
<1>1. /\ DOMAIN marked = DOMAIN list
      /\ \A i \in DOMAIN list : marked[i] \in Group /\ marked[i].name = list[i].name
  <2>1. \A i \in DOMAIN list : list[i] \in Group
    OBVIOUS
  <2> QED
    BY <2>1 DEF SetStatus, Group
<1>2. DOMAIN list = 1..Len(list) /\ Len(list) \in Nat
  OBVIOUS
<1>3. marked = [i \in 1..Len(list) |-> marked[i]]
  BY <1>2 DEF SetStatus
<1> HIDE DEF marked
<1>4. marked \in Seq(Group) /\ Len(marked) = Len(list)
  BY <1>1, <1>2, <1>3
<1>5. NamesOf(marked) = NamesOf(list)
  BY <1>1 DEF NamesOf
<1> QED
  BY <1>4, <1>5 DEF marked

\* generate stores a tournament in which everyone is a winner of round 1: a
\* padded list of groups, whose names are the entrants' and possibly FREE.
LEMMA GenerateFacts ==
  ASSUME NEW entrants \in Seq(Name)
  PROVE  LET t == Generate(entrants)
         IN  /\ t \in Document
             /\ t.winners = t.groups /\ t.losers = << >> /\ t.roundList = <<t.groups>>
             /\ Len(entrants) <= Len(t.groups)
             /\ \A i \in DOMAIN t.groups :
                  t.groups[i].name = IF i <= Len(entrants) THEN entrants[i] ELSE Free
<1> DEFINE size == PaddedSize(Len(entrants))
           groups == [i \in 1..size |-> [name |-> IF i <= Len(entrants) THEN entrants[i] ELSE Free,
                                         status |-> FALSE]]
           t == Generate(entrants)
<1>1. size \in Nat /\ Len(entrants) <= size
  <2> DEFINE n == Len(entrants)
             free == {s \in n..2*n : \A m \in n..s : ~IsPowerOfTwo(m)}
  <2>1. n \in Nat /\ IsFiniteSet(n..2*n)
    BY FS_Interval
  <2>2. free \in SUBSET (n..2*n)
    OBVIOUS
  <2> HIDE DEF free
  <2>3. Cardinality(free) \in Nat
    BY <2>1, <2>2, FS_Subset, FS_CardinalityType
  <2>4. size = n + Cardinality(free)
    BY DEF PaddedSize, free
  <2> QED
    BY <2>1, <2>3, <2>4
<1> HIDE DEF size
<1>2. groups \in Seq(Group) /\ Len(groups) = size
  <2>1. \A i \in 1..size : (IF i <= Len(entrants) THEN entrants[i] ELSE Free) \in Name
    BY <1>1, FreeAssumption
  <2> QED
    BY <1>1, <2>1 DEF Group
<1>3. t = [groups |-> groups, winners |-> groups, losers |-> << >>, roundList |-> <<groups>>]
  BY DEF Generate, size
<1>4. \A i \in DOMAIN groups : groups[i].name = IF i <= Len(entrants) THEN entrants[i] ELSE Free
  OBVIOUS
<1> HIDE DEF groups, t
<1>5. t \in Document
  BY <1>2, <1>3 DEF Document
<1>6. /\ t.winners = t.groups /\ t.losers = << >> /\ t.roundList = <<t.groups>>
      /\ Len(entrants) <= Len(t.groups)
      /\ \A i \in DOMAIN t.groups :
           t.groups[i].name = IF i <= Len(entrants) THEN entrants[i] ELSE Free
  BY <1>1, <1>2, <1>3, <1>4
<1> QED
  BY <1>5, <1>6 DEF t

\* What makeLoser and makeWinner leave: the two lists, and nothing else, changed.
LEMMA MakeLoserFields ==
  ASSUME NEW t \in Document, NEW g
  PROVE  MakeLoser(t, g) = [groups |-> t.groups, winners |-> Without(t.winners, g),
                            losers |-> With(t.losers, g), roundList |-> t.roundList]
<1> DEFINE W == Without(t.winners, g)
           L == With(t.losers, g)
           out == [t EXCEPT !.winners = W]
<1>1. t = [groups |-> t.groups, winners |-> t.winners, losers |-> t.losers,
           roundList |-> t.roundList]
  BY DEF Document
<1>2. MakeLoser(t, g) = [out EXCEPT !.losers = With(out.losers, g)]
  BY DEF MakeLoser
<1> HIDE DEF W
<1>3. out = [groups |-> t.groups, winners |-> W, losers |-> t.losers, roundList |-> t.roundList]
  BY <1>1
<1> HIDE DEF out
<1>4. MakeLoser(t, g) = [out EXCEPT !.losers = L]
  BY <1>2, <1>3
<1> HIDE DEF L
<1>5. [out EXCEPT !.losers = L]
        = [groups |-> t.groups, winners |-> W, losers |-> L, roundList |-> t.roundList]
  BY <1>3
<1> QED
  BY <1>4, <1>5 DEF W, L

LEMMA MakeWinnerFields ==
  ASSUME NEW t \in Document, NEW g
  PROVE  MakeWinner(t, g) = [groups |-> t.groups, winners |-> With(t.winners, g),
                             losers |-> Without(t.losers, g), roundList |-> t.roundList]
<1> DEFINE W == With(t.winners, g)
           L == Without(t.losers, g)
           out == [t EXCEPT !.losers = L]
<1>1. t = [groups |-> t.groups, winners |-> t.winners, losers |-> t.losers,
           roundList |-> t.roundList]
  BY DEF Document
<1>2. MakeWinner(t, g) = [out EXCEPT !.winners = With(out.winners, g)]
  BY DEF MakeWinner
<1> HIDE DEF L
<1>3. out = [groups |-> t.groups, winners |-> t.winners, losers |-> L, roundList |-> t.roundList]
  BY <1>1
<1> HIDE DEF out
<1>4. MakeWinner(t, g) = [out EXCEPT !.winners = W]
  BY <1>2, <1>3
<1> HIDE DEF W
<1>5. [out EXCEPT !.winners = W]
        = [groups |-> t.groups, winners |-> W, losers |-> L, roundList |-> t.roundList]
  BY <1>3
<1> QED
  BY <1>4, <1>5 DEF W, L
-----------------------------------------------------------------------------
(* The bracket screen.                                                       *)

FieldNames == NamesOf(Created.groups)

\* What is true of every version of the tournament.
DocumentInv(t) ==
  /\ t \in Document
  /\ t.groups = Created.groups
  /\ AccountedFor(t)
  /\ \A i \in DOMAIN t.roundList : NamesOf(t.roundList[i]) \subseteq FieldNames

TableInv(table) ==
  table.rows <= Len(table.groups) /\ NamesOf(table.groups) \subseteq FieldNames

ScreenInv(s) ==
  /\ s \in [initialized : BOOLEAN, tournament : Document, currRound : Nat, tables : Seq(Tables)]
  /\ \A i \in DOMAIN s.tables : TableInv(s.tables[i])
  /\ IF s.initialized THEN DocumentInv(s.tournament)
                      ELSE s.tables = << >> /\ s.currRound = 0

CellInv(cell) ==
  cell \in Cell /\ cell.group1.name \in FieldNames /\ cell.group2.name \in FieldNames

CellsInv ==
  /\ \A row \in DOMAIN shown : CellInv(shown[row])
  /\ DOMAIN shown # {} => HasTable(screen)
  /\ HasTable(screen) => DOMAIN shown \subseteq 1..CurrentTable(screen).rows
  /\ pool \in [BOOLEAN -> Nat]

AlertInv ==
  /\ winnerSelectedCount \in Nat
  /\ alert \in BOOLEAN
  /\ alert => winnerSelectedCount >= 1 /\ screen.initialized

NetworkInv ==
  /\ DocumentInv(server)
  /\ unsent \in Seq(Document)
  /\ \A i \in DOMAIN unsent : DocumentInv(unsent[i])
  /\ snapshots \in Seq(Document)
  /\ \A i \in DOMAIN snapshots : DocumentInv(snapshots[i])

\* The inductive invariant.  A press moves the groups of its cell between the
\* winners and losers of the screen's tournament, so it keeps the field
\* together only if cells hold groups of the field; cells are filled from
\* tables, and those from the lists of documents.
IInv ==
  /\ phase \in {"closed", "open", "crashed"}
  /\ ScreenInv(screen) /\ CellsInv /\ AlertInv /\ NetworkInv
-----------------------------------------------------------------------------
LEMMA MatchesType ==
  ASSUME NEW t \in Document
  PROVE  /\ Rounds(t) \in Nat
         /\ DOMAIN Matches(t) = 1..Rounds(t)
         /\ \A i \in 1..Rounds(t) : Matches(t)[i] \in Nat
<1>1. Len(t.groups) \in Nat
  BY DEF Document
<1>2. Rounds(t) \in Nat
  BY <1>1, RoundsType DEF Rounds
<1>3. Matches(t) = [i \in 1..Rounds(t) |-> 2^(Rounds(t) - i)]
  BY DEF Matches, GenerateMatches
<1>4. \A i \in 1..Rounds(t) : 2^(Rounds(t) - i) \in Nat
  BY <1>2, PowersType
<1> QED
  BY <1>2, <1>3, <1>4

\* Filtering keeps every entrant of a list single.
LEMMA OnceWithout ==
  ASSUME NEW list \in Seq(Group), NEW g \in Group, Once(list)
  PROVE  Once(Without(list, g))
<1>1. PICK from \in [DOMAIN Without(list, g) -> DOMAIN list] :
         /\ \A k \in DOMAIN Without(list, g) : Without(list, g)[k] = list[from[k]]
         /\ \A k, m \in DOMAIN Without(list, g) : from[k] = from[m] => k = m
  BY WithoutFacts
<1> QED
  BY <1>1 DEF Once

\* So does appending a group whose name is not there yet.
LEMMA OnceWith ==
  ASSUME NEW list \in Seq(Group), NEW g \in Group, Once(list)
  PROVE  Once(With(list, g))
<1>1. CASE g.name \in NamesOf(list)
  BY <1>1 DEF With
<1>2. CASE g.name \notin NamesOf(list)
  <2>1. /\ DOMAIN Append(list, g) = (DOMAIN list) \cup {Len(list) + 1}
        /\ \A i \in DOMAIN list : Append(list, g)[i] = list[i]
        /\ Append(list, g)[Len(list) + 1] = g
    OBVIOUS
  <2>2. \A i \in DOMAIN list : list[i].name # g.name
    BY <1>2 DEF NamesOf
  <2> DEFINE longer == Append(list, g)
  <2> HIDE DEF longer
  <2>3. Once(longer)
    BY <2>1, <2>2 DEF Once, longer
  <2> QED
    BY <1>2, <2>3 DEF With, longer
<1> QED
  BY <1>1, <1>2

\* A choice between two groups of the field keeps the field together.
LEMMA ChoiceKeepsField ==
  ASSUME NEW t, DocumentInv(t), NEW round \in Nat,
         NEW winner \in Group, winner.name \in FieldNames,
         NEW loser \in Group, loser.name \in FieldNames
  PROVE  LET marked == [t EXCEPT !.roundList[round] = SetStatus(@, winner, loser)]
         IN  DocumentInv(MakeWinner(MakeLoser(marked, loser), winner))
<1> DEFINE marked == [t EXCEPT !.roundList[round] = SetStatus(@, winner, loser)]
           result == MakeWinner(MakeLoser(marked, loser), winner)
           W1 == Without(t.winners, loser)
           L1 == With(t.losers, loser)
           L2 == Without(L1, winner)
           W2 == With(W1, winner)
           lists == [t.roundList EXCEPT ![round] = SetStatus(@, winner, loser)]
<1>1. /\ t \in Document /\ t.winners \in Seq(Group) /\ t.losers \in Seq(Group)
      /\ t.groups \in Seq(Group) /\ t.roundList \in Seq(Seq(Group))
  BY DEF DocumentInv, Document
<1>2. /\ lists \in Seq(Seq(Group))
      /\ \A i \in DOMAIN lists : NamesOf(lists[i]) \subseteq FieldNames
  <2>1. \A i \in DOMAIN t.roundList :
           t.roundList[i] \in Seq(Group) /\ NamesOf(t.roundList[i]) \subseteq FieldNames
    BY <1>1 DEF DocumentInv
  <2>2. \A i \in DOMAIN t.roundList :
           /\ SetStatus(t.roundList[i], winner, loser) \in Seq(Group)
           /\ NamesOf(SetStatus(t.roundList[i], winner, loser)) \subseteq FieldNames
    BY <2>1, SetStatusFacts
  <2>3. /\ lists = [i \in DOMAIN t.roundList |-> lists[i]]
        /\ \A i \in DOMAIN t.roundList :
             lists[i] = IF i = round THEN SetStatus(t.roundList[i], winner, loser)
                                     ELSE t.roundList[i]
    BY <1>1
  <2>4. DOMAIN t.roundList = 1..Len(t.roundList) /\ Len(t.roundList) \in Nat
    BY <1>1
  <2> HIDE DEF lists
  <2>5. \A i \in DOMAIN t.roundList : lists[i] \in Seq(Group) /\ NamesOf(lists[i]) \subseteq FieldNames
    BY <2>1, <2>2, <2>3
  <2>6. lists = [i \in 1..Len(t.roundList) |-> lists[i]]
    BY <2>3, <2>4
  <2>7. lists \in Seq(Seq(Group))
    BY <2>4, <2>5, <2>6
  <2>8. DOMAIN lists = DOMAIN t.roundList
    BY <2>3
  <2> QED
    BY <2>5, <2>7, <2>8
<1> HIDE DEF lists
<1>3. marked \in Document
      /\ marked = [groups |-> t.groups, winners |-> t.winners, losers |-> t.losers,
                   roundList |-> lists]
  <2>1. t = [groups |-> t.groups, winners |-> t.winners, losers |-> t.losers,
             roundList |-> t.roundList]
    BY <1>1 DEF Document
  <2>2. marked = [t EXCEPT !.roundList = lists]
    BY DEF lists
  <2> HIDE DEF marked
  <2>3. marked = [groups |-> t.groups, winners |-> t.winners, losers |-> t.losers,
                  roundList |-> lists]
    BY <2>1, <2>2
  <2> QED
    BY <1>1, <1>2, <2>3 DEF Document
<1> HIDE DEF marked
<1>4. /\ W1 \in Seq(Group) /\ NamesOf(W1) = NamesOf(t.winners) \ {loser.name} /\ Once(W1)
      /\ L1 \in Seq(Group) /\ NamesOf(L1) = NamesOf(t.losers) \cup {loser.name} /\ Once(L1)
  BY <1>1, WithoutFacts, WithFacts, OnceWithout, OnceWith DEF DocumentInv, AccountedFor
<1>5. /\ W2 \in Seq(Group) /\ NamesOf(W2) = NamesOf(W1) \cup {winner.name} /\ Once(W2)
      /\ L2 \in Seq(Group) /\ NamesOf(L2) = NamesOf(L1) \ {winner.name} /\ Once(L2)
  BY <1>4, WithoutFacts, WithFacts, OnceWithout, OnceWith
<1>6. result = [groups |-> t.groups, winners |-> W2, losers |-> L2, roundList |-> lists]
  <2> DEFINE middle == MakeLoser(marked, loser)
  <2>1. middle = [groups |-> t.groups, winners |-> W1, losers |-> L1, roundList |-> lists]
    BY <1>3, MakeLoserFields
  <2>2. middle \in Document
    BY <1>1, <1>2, <1>4, <2>1 DEF Document
  <2> HIDE DEF middle
  <2>3. MakeWinner(middle, winner)
          = [groups |-> t.groups, winners |-> W2, losers |-> L2, roundList |-> lists]
    BY <2>1, <2>2, MakeWinnerFields
  <2> QED
    BY <2>3 DEF middle
<1> HIDE DEF W1, L1, W2, L2, result
<1>7. /\ NamesOf(W2) \cup NamesOf(L2) = FieldNames
      /\ NamesOf(W2) \cap NamesOf(L2) = {}
  <2>1. /\ NamesOf(t.winners) \cup NamesOf(t.losers) = FieldNames
        /\ NamesOf(t.winners) \cap NamesOf(t.losers) = {}
    BY DEF DocumentInv, AccountedFor, FieldNames
  <2> QED
    BY <1>4, <1>5, <2>1
<1>8. result \in Document /\ result.groups = Created.groups
  BY <1>1, <1>2, <1>5, <1>6 DEF DocumentInv, Document
<1>9. AccountedFor(result)
  BY <1>5, <1>6, <1>7 DEF AccountedFor, FieldNames
<1>10. \A i \in DOMAIN result.roundList : NamesOf(result.roundList[i]) \subseteq FieldNames
  BY <1>2, <1>6
<1> QED
  BY <1>8, <1>9, <1>10 DEF DocumentInv, result, marked

\* Closing a round appends a list of groups of the field.
LEMMA CloseRoundKeepsField ==
  ASSUME NEW t, DocumentInv(t)
  PROVE  DocumentInv(CloseRound(t))
<1>1. t \in Document /\ t.winners \in Seq(Group) /\ t.roundList \in Seq(Seq(Group))
  BY DEF DocumentInv, Document
<1>2. NamesOf(t.winners) \subseteq FieldNames
  BY DEF DocumentInv, AccountedFor, FieldNames
<1> DEFINE lists == Append(t.roundList, t.winners)
<1>3. lists \in Seq(Seq(Group)) /\ \A i \in DOMAIN lists : NamesOf(lists[i]) \subseteq FieldNames
  BY <1>1, <1>2 DEF DocumentInv
<1>4. CloseRound(t) = [t EXCEPT !.roundList = lists]
  BY DEF CloseRound
<1> HIDE DEF lists
<1> QED
  BY <1>1, <1>3, <1>4 DEF DocumentInv, AccountedFor, Document
-----------------------------------------------------------------------------
\* The rounds a snapshot leads to.
LEMMA CurrentRoundFacts ==
  ASSUME NEW s, ScreenInv(s), NEW t, DocumentInv(t)
  PROVE  /\ CurrentRound(s, t) \in Nat
         /\ NewRounds(s, t) # {} => CurrentRound(s, t) <= Rounds(t)
         /\ Cardinality(NewRounds(s, t)) \in 0..CurrentRound(s, t)
         /\ Cardinality(NewRounds(s, t)) > 0 => NewRounds(s, t) # {}
<1> DEFINE cur == CurrentRound(s, t)
<1>1. /\ Rounds(t) \in Nat
      /\ RoundsLeft(t) \in SUBSET (1..Rounds(t))
  BY MatchesType DEF DocumentInv, RoundsLeft
<1>2. s.currRound \in Nat /\ s.initialized \in BOOLEAN /\ (~s.initialized => s.currRound = 0)
  BY DEF ScreenInv
<1>3. /\ RoundsLeft(t) # {} => cur \in 1..Rounds(t)
      /\ RoundsLeft(t) = {} => cur \in {Rounds(t), s.currRound}
  BY <1>1 DEF CurrentRound
<1>4. cur \in Nat
  BY <1>1, <1>2, <1>3
<1>5. NewRounds(s, t) \in {{}, {cur}, 1..cur}
  BY DEF NewRounds
<1>6. /\ Cardinality({}) = 0
      /\ Cardinality({cur}) = 1
      /\ Cardinality(1..cur) = cur
  <2>1. Cardinality({}) = 0
    BY FS_EmptySet
  <2>2. Cardinality({cur}) = 1
    BY FS_Singleton
  <2>3. Cardinality(1..cur) = cur
    <3> HIDE DEF cur
    <3>1. Cardinality(1..cur) = IF 1 > cur THEN 0 ELSE cur - 1 + 1
      BY <1>4, FS_Interval
    <3> QED
      BY <1>4, <3>1
  <2> QED
    BY <2>1, <2>2, <2>3
<1>7. NewRounds(s, t) = {cur} => cur >= 1
  BY <1>1, <1>3, <1>4 DEF NewRounds
<1>8. NewRounds(s, t) # {} => cur <= Rounds(t)
  BY <1>1, <1>2, <1>3 DEF NewRounds
<1> HIDE DEF cur
<1>9. Cardinality(NewRounds(s, t)) \in 0..cur
  BY <1>4, <1>5, <1>6, <1>7
<1>10. Cardinality(NewRounds(s, t)) > 0 => NewRounds(s, t) # {}
  <2> SUFFICES ASSUME NewRounds(s, t) = {}
               PROVE  ~(Cardinality(NewRounds(s, t)) > 0)
    OBVIOUS
  <2>1. Cardinality(NewRounds(s, t)) = 0
    BY <1>6
  <2> QED
    BY <2>1
<1> QED
  BY <1>4, <1>8, <1>9, <1>10 DEF cur

\* The tables of a snapshot that does not trap: the old ones, and then new ones.
LEMMA TablesMadeFacts ==
  ASSUME NEW s, ScreenInv(s), NEW t, DocumentInv(t), ~Traps(s, t)
  PROVE  /\ TablesMade(s, t) \in Seq(Tables)
         /\ DOMAIN s.tables \subseteq DOMAIN TablesMade(s, t)
         /\ \A i \in DOMAIN s.tables : TablesMade(s, t)[i] = s.tables[i]
         /\ \A i \in DOMAIN TablesMade(s, t) :
              NamesOf(TablesMade(s, t)[i].groups) \subseteq FieldNames
<1> DEFINE cur == CurrentRound(s, t)
           size == Cardinality(NewRounds(s, t))
           new == [k \in 1..size |-> Table(t, (cur - size) + k)]
<1>1. /\ cur \in Nat /\ size \in 0..cur
      /\ size > 0 => cur <= Rounds(t)
      /\ cur <= Len(t.roundList)
  BY CurrentRoundFacts DEF Traps, DocumentInv, Document
<1>2. TablesMade(s, t) = s.tables \o new
  BY DEF TablesMade
<1> HIDE DEF cur, size
<1>3. /\ Rounds(t) \in Nat
      /\ \A i \in 1..Rounds(t) : Matches(t)[i] \in Nat
      /\ t.roundList \in Seq(Seq(Group))
      /\ \A i \in DOMAIN t.roundList : NamesOf(t.roundList[i]) \subseteq FieldNames
  BY MatchesType DEF DocumentInv, Document
<1>4. ASSUME NEW k \in 1..size
      PROVE  Table(t, (cur - size) + k) \in Tables
             /\ NamesOf(Table(t, (cur - size) + k).groups) \subseteq FieldNames
  <2> DEFINE i == (cur - size) + k
  <2>1. i \in 1..cur /\ i \in 1..Rounds(t) /\ i \in DOMAIN t.roundList
    BY <1>1, <1>3
  <2> HIDE DEF i
  <2>2. Matches(t)[i] \in Nat /\ t.roundList[i] \in Seq(Group)
    BY <1>3, <2>1
  <2> QED
    BY <1>3, <2>1, <2>2 DEF Table, Tables, i
<1>5. new \in Seq(Tables) /\ Len(new) = size
  <2>1. size \in Nat
    BY <1>1
  <2> DEFINE entry(k) == Table(t, (cur - size) + k)
  <2>2. \A k \in 1..size : entry(k) \in Tables
    BY <1>4
  <2> HIDE DEF entry
  <2>3. [k \in 1..size |-> entry(k)] \in Seq(Tables)
        /\ Len([k \in 1..size |-> entry(k)]) = size
    BY <2>1, <2>2
  <2> QED
    BY <2>3 DEF entry
<1>6. \A k \in DOMAIN new : NamesOf(new[k].groups) \subseteq FieldNames
  BY <1>4
<1> HIDE DEF new
<1>7. s.tables \in Seq(Tables) /\ \A i \in DOMAIN s.tables : NamesOf(s.tables[i].groups) \subseteq FieldNames
  BY DEF ScreenInv, TableInv
<1> DEFINE old == s.tables
<1>8. /\ old \o new \in Seq(Tables)
      /\ Len(old \o new) = Len(old) + Len(new)
      /\ \A i \in DOMAIN old : (old \o new)[i] = old[i]
      /\ \A i \in 1..Len(old) + Len(new) : i > Len(old) => (old \o new)[i] = new[i - Len(old)]
  BY <1>5, <1>7
<1>9. DOMAIN (old \o new) = 1..Len(old) + Len(new) /\ DOMAIN old = 1..Len(old)
  BY <1>5, <1>7, <1>8
<1>10. \A i \in DOMAIN (old \o new) : NamesOf((old \o new)[i].groups) \subseteq FieldNames
  <2> SUFFICES ASSUME NEW i \in DOMAIN (old \o new)
               PROVE  NamesOf((old \o new)[i].groups) \subseteq FieldNames
    OBVIOUS
  <2>1. CASE i <= Len(old)
    BY <1>7, <1>8, <1>9, <2>1
  <2>2. CASE i > Len(old)
    <3>1. i - Len(old) \in DOMAIN new /\ (old \o new)[i] = new[i - Len(old)]
      BY <1>5, <1>7, <1>8, <1>9, <2>2
    <3> QED
      BY <1>6, <3>1
  <2> QED
    BY <1>7, <1>9, <2>1, <2>2
<1> QED
  BY <1>2, <1>7, <1>8, <1>9, <1>10

\* A snapshot that does not trap leaves a screen like the one before it, whose
\* earlier tables have as many rows as they had.
LEMMA SnapshotKeepsScreen ==
  ASSUME NEW s, ScreenInv(s), NEW t, DocumentInv(t), ~Traps(s, t)
  PROVE  /\ ScreenInv(AfterSnapshot(s, t))
         /\ AfterSnapshot(s, t).initialized
         /\ \A i \in DOMAIN s.tables :
              /\ i \in DOMAIN AfterSnapshot(s, t).tables
              /\ AfterSnapshot(s, t).tables[i].rows = s.tables[i].rows
<1> DEFINE made == TablesMade(s, t)
           cur == CurrentRound(s, t)
           tables == TablesRefreshed(s, t)
           entry(i) == IF s.initialized /\ i <= cur
                         THEN [made[i] EXCEPT !.groups = t.roundList[i]] ELSE made[i]
<1>1. /\ made \in Seq(Tables)
      /\ \A i \in DOMAIN s.tables : i \in DOMAIN made /\ made[i] = s.tables[i]
      /\ \A i \in DOMAIN made : NamesOf(made[i].groups) \subseteq FieldNames
  BY TablesMadeFacts
<1>2. /\ cur \in Nat /\ cur <= Len(t.roundList)
      /\ \A i \in DOMAIN tables : ~(tables[i].rows > Len(tables[i].groups))
  BY CurrentRoundFacts DEF Traps
<1>3. tables = [i \in DOMAIN made |-> entry(i)]
  BY DEF TablesRefreshed
<1>4. /\ t \in Document /\ t.roundList \in Seq(Seq(Group))
      /\ \A i \in DOMAIN t.roundList : NamesOf(t.roundList[i]) \subseteq FieldNames
  BY DEF DocumentInv, Document
<1> HIDE DEF made, cur, tables
<1>5. DOMAIN made = 1..Len(made) /\ Len(made) \in Nat
  BY <1>1
<1>6. ASSUME NEW i \in DOMAIN made
      PROVE  /\ entry(i) \in Tables
             /\ entry(i).rows = made[i].rows
             /\ NamesOf(entry(i).groups) \subseteq FieldNames
  <2>1. made[i] \in Tables /\ NamesOf(made[i].groups) \subseteq FieldNames
    BY <1>1
  <2>2. CASE s.initialized /\ i <= cur
    <3>1. i \in DOMAIN t.roundList /\ t.roundList[i] \in Seq(Group)
      BY <1>2, <1>4, <1>5, <2>2
    <3>2. entry(i) = [made[i] EXCEPT !.groups = t.roundList[i]]
      BY <2>2
    <3>3. NamesOf(t.roundList[i]) \subseteq FieldNames
      BY <1>4, <3>1
    <3> QED
      BY <2>1, <3>1, <3>2, <3>3 DEF Tables
  <2>3. CASE ~(s.initialized /\ i <= cur)
    BY <2>1, <2>3
  <2> QED
    BY <2>2, <2>3
<1> HIDE DEF entry
<1>7. tables \in Seq(Tables)
  BY <1>3, <1>5, <1>6
<1>8. \A i \in DOMAIN tables : TableInv(tables[i])
  <2> SUFFICES ASSUME NEW i \in DOMAIN tables
               PROVE  TableInv(tables[i])
    OBVIOUS
  <2>1. tables[i] = entry(i) /\ i \in DOMAIN made
    BY <1>3
  <2>2. tables[i].rows \in Nat /\ Len(tables[i].groups) \in Nat
    BY <1>6, <2>1 DEF Tables
  <2> QED
    BY <1>2, <1>6, <2>1, <2>2 DEF TableInv
<1>9. AfterSnapshot(s, t) = [initialized |-> TRUE, tournament |-> t, currRound |-> cur,
                             tables |-> tables]
  BY DEF AfterSnapshot, cur, tables
<1>10. ScreenInv(AfterSnapshot(s, t))
  BY <1>2, <1>4, <1>7, <1>8, <1>9 DEF ScreenInv
<1>11. \A i \in DOMAIN s.tables : i \in DOMAIN tables /\ tables[i].rows = s.tables[i].rows
  BY <1>1, <1>3, <1>6
<1> QED
  BY <1>9, <1>10, <1>11

\* So does a press: it only sets ribbons and moves the two groups.
LEMMA PressKeepsScreen ==
  ASSUME NEW s, ScreenInv(s), s.initialized, NEW round \in Nat,
         NEW winner \in Group, winner.name \in FieldNames,
         NEW loser \in Group, loser.name \in FieldNames
  PROVE  LET after == UpdateWinner(s, winner, loser, round)
         IN  /\ ScreenInv(after)
             /\ after.initialized /\ after.currRound = s.currRound
             /\ DOMAIN after.tables = DOMAIN s.tables
             /\ \A i \in DOMAIN s.tables : after.tables[i].rows = s.tables[i].rows
<1> DEFINE marked == [s.tournament EXCEPT !.roundList[round] = SetStatus(@, winner, loser)]
           t == MakeWinner(MakeLoser(marked, loser), winner)
           marks == [s.tables EXCEPT ![round].groups = SetStatus(@, winner, loser)]
           after == UpdateWinner(s, winner, loser, round)
<1>1. /\ s.currRound \in Nat /\ s.tables \in Seq(Tables)
      /\ DocumentInv(s.tournament)
      /\ \A i \in DOMAIN s.tables : TableInv(s.tables[i])
  BY DEF ScreenInv
<1>2. DocumentInv(t)
  BY <1>1, ChoiceKeepsField
<1> HIDE DEF t
<1>3. after = [[s EXCEPT !.tables = marks] EXCEPT !.tournament = t]
  BY DEF UpdateWinner, t
<1>4. /\ marks = [i \in DOMAIN s.tables |-> marks[i]]
      /\ \A i \in DOMAIN s.tables :
           marks[i] = IF i = round
                         THEN [s.tables[i] EXCEPT !.groups = SetStatus(@, winner, loser)]
                         ELSE s.tables[i]
  BY <1>1
<1> HIDE DEF marks, after
<1>5. ASSUME NEW i \in DOMAIN s.tables
      PROVE  marks[i] \in Tables /\ TableInv(marks[i]) /\ marks[i].rows = s.tables[i].rows
  <2> DEFINE table == s.tables[i]
             list == SetStatus(table.groups, winner, loser)
  <2>1. table \in Tables /\ TableInv(table) /\ table.groups \in Seq(Group)
    <3>1. s.tables[i] \in Tables /\ TableInv(s.tables[i])
      BY <1>1
    <3> QED
      BY <3>1 DEF Tables
  <2>2. list \in Seq(Group) /\ Len(list) = Len(table.groups) /\ NamesOf(list) = NamesOf(table.groups)
    BY <2>1, SetStatusFacts
  <2>3. marks[i] = IF i = round THEN [table EXCEPT !.groups = list] ELSE table
    BY <1>4
  <2> HIDE DEF list, table
  <2>4. /\ [table EXCEPT !.groups = list].rows = table.rows
        /\ [table EXCEPT !.groups = list].groups = list
        /\ [table EXCEPT !.groups = list] \in Tables
    BY <2>1, <2>2 DEF Tables
  <2>5. TableInv([table EXCEPT !.groups = list])
    BY <2>1, <2>2, <2>4 DEF TableInv
  <2> QED
    BY <2>1, <2>3, <2>4, <2>5 DEF table
<1>6. marks \in Seq(Tables) /\ DOMAIN marks = DOMAIN s.tables
  <2>1. DOMAIN s.tables = 1..Len(s.tables) /\ Len(s.tables) \in Nat
    BY <1>1
  <2>2. marks = [i \in 1..Len(s.tables) |-> marks[i]]
    BY <1>4, <2>1
  <2>3. \A i \in 1..Len(s.tables) : marks[i] \in Tables
    BY <1>5, <2>1
  <2> QED
    BY <2>1, <2>2, <2>3
<1>7. /\ after \in [initialized : BOOLEAN, tournament : Document, currRound : Nat,
                    tables : Seq(Tables)]
      /\ after.initialized = s.initialized /\ after.tournament = t
      /\ after.currRound = s.currRound /\ after.tables = marks
  <2>1. s \in [initialized : BOOLEAN, tournament : Document, currRound : Nat, tables : Seq(Tables)]
    BY DEF ScreenInv
  <2>2. t \in Document /\ marks \in Seq(Tables)
    BY <1>2, <1>6 DEF DocumentInv
  <2> QED
    BY <1>3, <2>1, <2>2
<1>8. ScreenInv(after)
  BY <1>2, <1>5, <1>6, <1>7 DEF ScreenInv
<1> QED
  BY <1>5, <1>6, <1>7, <1>8 DEF after

\* What a press makes of each field of the tournament and of the tables.
LEMMA UpdateWinnerFields ==
  ASSUME NEW s, ScreenInv(s), s.initialized, NEW round \in Nat,
         NEW winner \in Group, NEW loser \in Group
  PROVE  LET after == UpdateWinner(s, winner, loser, round)
         IN  /\ after.initialized /\ after.currRound = s.currRound
             /\ after.tournament.groups = s.tournament.groups
             /\ after.tournament.winners = With(Without(s.tournament.winners, loser), winner)
             /\ after.tournament.losers = Without(With(s.tournament.losers, loser), winner)
             /\ DOMAIN after.tournament.roundList = DOMAIN s.tournament.roundList
             /\ \A k \in DOMAIN s.tournament.roundList :
                  after.tournament.roundList[k]
                    = IF k = round THEN SetStatus(s.tournament.roundList[k], winner, loser)
                                   ELSE s.tournament.roundList[k]
             /\ DOMAIN after.tables = DOMAIN s.tables
             /\ \A i \in DOMAIN s.tables :
                  after.tables[i]
                    = IF i = round
                        THEN [rows |-> s.tables[i].rows,
                              groups |-> SetStatus(s.tables[i].groups, winner, loser)]
                        ELSE s.tables[i]
<1> DEFINE t == s.tournament
           lists == [t.roundList EXCEPT ![round] = SetStatus(@, winner, loser)]
           marked == [t EXCEPT !.roundList[round] = SetStatus(@, winner, loser)]
           middle == MakeLoser(marked, loser)
           result == MakeWinner(middle, winner)
           marks == [s.tables EXCEPT ![round].groups = SetStatus(@, winner, loser)]
           after == UpdateWinner(s, winner, loser, round)
<1>1. /\ s \in [initialized : BOOLEAN, tournament : Document, currRound : Nat, tables : Seq(Tables)]
      /\ t \in Document
  BY DEF ScreenInv
<1>2. t = [groups |-> t.groups, winners |-> t.winners, losers |-> t.losers,
           roundList |-> t.roundList]
      /\ t.roundList \in Seq(Seq(Group))
      /\ t.groups \in Seq(Group) /\ t.winners \in Seq(Group) /\ t.losers \in Seq(Group)
  BY <1>1 DEF Document
<1>3. lists \in Seq(Seq(Group))
  <2>1. \A i \in DOMAIN t.roundList : SetStatus(t.roundList[i], winner, loser) \in Seq(Group)
    BY <1>2, SetStatusFacts
  <2>2. DOMAIN t.roundList = 1..Len(t.roundList) /\ Len(t.roundList) \in Nat
    BY <1>2
  <2>3. DOMAIN lists = DOMAIN t.roundList
        /\ \A i \in DOMAIN t.roundList : lists[i] \in Seq(Group)
    BY <1>2, <2>1
  <2> HIDE DEF lists
  <2>4. \A i \in 1..Len(t.roundList) : lists[i] \in Seq(Group)
    BY <2>2, <2>3
  <2>5. lists = [i \in 1..Len(t.roundList) |-> lists[i]]
    BY <2>2, <2>3 DEF lists
  <2> QED
    BY <2>2, <2>4, <2>5
<1>4. marked = [groups |-> t.groups, winners |-> t.winners, losers |-> t.losers,
                roundList |-> lists]
      /\ marked \in Document
  <2>1. marked = [t EXCEPT !.roundList = lists]
    OBVIOUS
  <2> HIDE DEF lists, marked, t
  <2>2. marked = [groups |-> t.groups, winners |-> t.winners, losers |-> t.losers,
                  roundList |-> lists]
    BY <1>2, <2>1
  <2> QED
    BY <1>2, <1>3, <2>2 DEF Document
<1> HIDE DEF lists, marked
<1>5. /\ middle = [groups |-> t.groups, winners |-> Without(t.winners, loser),
                   losers |-> With(t.losers, loser), roundList |-> lists]
      /\ middle \in Document
  <2>1. middle = [groups |-> marked.groups, winners |-> Without(marked.winners, loser),
                  losers |-> With(marked.losers, loser), roundList |-> marked.roundList]
    BY <1>4, MakeLoserFields
  <2>2. Without(t.winners, loser) \in Seq(Group) /\ With(t.losers, loser) \in Seq(Group)
    BY <1>2, WithoutFacts, WithFacts
  <2> HIDE DEF middle, t
  <2>3. middle = [groups |-> t.groups, winners |-> Without(t.winners, loser),
                  losers |-> With(t.losers, loser), roundList |-> lists]
    BY <1>4, <2>1
  <2> QED
    BY <1>2, <1>3, <2>2, <2>3 DEF Document
<1> HIDE DEF middle
<1>6. result = [groups |-> t.groups, winners |-> With(Without(t.winners, loser), winner),
                losers |-> Without(With(t.losers, loser), winner), roundList |-> lists]
  <2>1. result = [groups |-> middle.groups, winners |-> With(middle.winners, winner),
                  losers |-> Without(middle.losers, winner), roundList |-> middle.roundList]
    BY <1>5, MakeWinnerFields
  <2> HIDE DEF result, t
  <2> QED
    BY <1>5, <2>1
<1> HIDE DEF result
<1>7. after = [[s EXCEPT !.tables = marks] EXCEPT !.tournament = result]
  BY DEF UpdateWinner, result, middle, marked
<1> HIDE DEF marks, after
<1>8. /\ after.initialized = s.initialized /\ after.currRound = s.currRound
      /\ after.tournament = result /\ after.tables = marks
  BY <1>1, <1>7
<1>9. marks = [i \in DOMAIN s.tables |->
                 IF i = round THEN [rows |-> s.tables[i].rows,
                                    groups |-> SetStatus(s.tables[i].groups, winner, loser)]
                              ELSE s.tables[i]]
  <2> DEFINE entry(i) == IF i = round
                           THEN [rows |-> s.tables[i].rows,
                                 groups |-> SetStatus(s.tables[i].groups, winner, loser)]
                           ELSE s.tables[i]
  <2>1. s.tables \in Seq(Tables)
    BY <1>1
  <2>2. \A table \in Tables : \A list :
           [table EXCEPT !.groups = list] = [rows |-> table.rows, groups |-> list]
    BY DEF Tables
  <2>3. round \in DOMAIN s.tables =>
           [s.tables[round] EXCEPT !.groups = SetStatus(@, winner, loser)]
             = [rows |-> s.tables[round].rows,
                groups |-> SetStatus(s.tables[round].groups, winner, loser)]
    BY <2>1, <2>2
  <2>4. DOMAIN marks = DOMAIN s.tables /\ marks = [i \in DOMAIN s.tables |-> marks[i]]
    BY <2>1 DEF marks
  <2>5. \A i \in DOMAIN s.tables : i # round => marks[i] = s.tables[i]
    BY <2>1 DEF marks
  <2>6. round \in DOMAIN s.tables =>
           marks[round] = [s.tables[round] EXCEPT !.groups = SetStatus(@, winner, loser)]
    BY <2>1 DEF marks
  <2>7. \A i \in DOMAIN s.tables : marks[i] = entry(i)
    BY <2>3, <2>5, <2>6
  <2> HIDE DEF entry
  <2>8. marks = [i \in DOMAIN s.tables |-> entry(i)]
    BY <2>4, <2>7
  <2> QED
    BY <2>8 DEF entry
<1>10. lists = [k \in DOMAIN t.roundList |->
                  IF k = round THEN SetStatus(t.roundList[k], winner, loser)
                               ELSE t.roundList[k]]
  BY <1>2 DEF lists
<1> HIDE DEF t
<1> QED
  BY <1>6, <1>8, <1>9, <1>10 DEF after, t
-----------------------------------------------------------------------------
\* The tournament as it is first stored.
LEMMA CreatedFacts == DocumentInv(Created)
<1> DEFINE groups == Created.groups
<1>1. /\ Created \in Document
      /\ Created.winners = groups /\ Created.losers = << >> /\ Created.roundList = <<groups>>
      /\ \A i \in DOMAIN groups :
           groups[i].name = IF i <= Len(Entrants) THEN Entrants[i] ELSE Free
  BY GenerateFacts, EntrantsAssumption DEF Created
<1>2. groups \in Seq(Group)
  BY <1>1 DEF Document
<1>3. Once(groups)
  <2> SUFFICES ASSUME NEW i \in DOMAIN groups, NEW j \in DOMAIN groups,
                      groups[i].name = groups[j].name, groups[i].name # Free
               PROVE  i = j
    BY DEF Once
  <2>1. i \in 1..Len(groups) /\ j \in 1..Len(groups) /\ Len(Entrants) \in Nat
    BY <1>2, EntrantsAssumption
  <2>2. i <= Len(Entrants) /\ j <= Len(Entrants)
    BY <1>1
  <2>3. i \in DOMAIN Entrants /\ j \in DOMAIN Entrants /\ Entrants[i] = Entrants[j]
    BY <1>1, <2>1, <2>2, EntrantsAssumption
  <2> QED
    BY <2>3, EntrantsAssumption
<1>4. NamesOf(<< >>) = {} /\ Once(<< >>)
  BY DEF NamesOf, Once
<1>5. AccountedFor(Created)
  BY <1>1, <1>3, <1>4 DEF AccountedFor
<1> QED
  BY <1>1, <1>5 DEF DocumentInv, FieldNames

LEMMA UpdateWinnerTables ==
  ASSUME NEW s, ScreenInv(s), s.initialized, NEW round \in Nat,
         NEW winner \in Group, NEW loser \in Group
  PROVE  /\ DOMAIN UpdateWinner(s, winner, loser, round).tables = DOMAIN s.tables
         /\ \A i \in DOMAIN s.tables :
              UpdateWinner(s, winner, loser, round).tables[i]
                = IF i = round
                    THEN [rows |-> s.tables[i].rows,
                          groups |-> SetStatus(s.tables[i].groups, winner, loser)]
                    ELSE s.tables[i]
<1> DEFINE after == UpdateWinner(s, winner, loser, round)
<1>1. DOMAIN after.tables = DOMAIN s.tables
  BY UpdateWinnerFields
<1>2. \A i \in DOMAIN s.tables :
        after.tables[i]
          = IF i = round
              THEN [rows |-> s.tables[i].rows,
                    groups |-> SetStatus(s.tables[i].groups, winner, loser)]
              ELSE s.tables[i]
  BY UpdateWinnerFields
<1> HIDE DEF after
<1> QED
  BY <1>1, <1>2 DEF after

\* What the client shows its listeners is a version of the tournament.
LEMMA LocalDocumentFacts ==
  ASSUME NetworkInv
  PROVE  DocumentInv(LocalDocument)
BY DEF NetworkInv, LocalDocument

\* A cell is filled with two groups of its table.
LEMMA SetMatchupFacts ==
  ASSUME NEW table \in Tables, TableInv(table), NEW row \in 1..table.rows,
         NEW flag \in BOOLEAN
  PROVE  CellInv(SetMatchup(flag, table, row))
<1> DEFINE other == Len(table.groups) + 1 - row
<1>1. table.rows \in Nat /\ table.groups \in Seq(Group) /\ table.rows <= Len(table.groups)
      /\ NamesOf(table.groups) \subseteq FieldNames
  BY DEF Tables, TableInv
<1>2. row \in DOMAIN table.groups /\ other \in DOMAIN table.groups
  BY <1>1
<1> HIDE DEF other
<1>3. \A i \in DOMAIN table.groups : table.groups[i] \in Group
  BY <1>1
<1>4. \A i \in DOMAIN table.groups : table.groups[i].status \in BOOLEAN
  BY <1>3 DEF Group
<1>5. \A i \in DOMAIN table.groups : table.groups[i].name \in FieldNames
  BY <1>1 DEF NamesOf
<1>6. SetMatchup(flag, table, row)
        = [winnerSelected |-> flag /\ (table.groups[row].status \/ table.groups[other].status),
           group1 |-> table.groups[row], group2 |-> table.groups[other]]
  BY DEF SetMatchup, First, Second, other
<1> QED
  BY <1>2, <1>3, <1>4, <1>5, <1>6 DEF CellInv, Cell

LEMMA CellsWithType ==
  ASSUME NEW f, IsFiniteSet(DOMAIN f), NEW flag
  PROVE  CellsWith(flag, f) \in Nat
<1> DEFINE rows == {row \in DOMAIN f : f[row] = flag}
<1>1. rows \in SUBSET DOMAIN f
  OBVIOUS
<1> HIDE DEF rows
<1>2. Cardinality(rows) \in Nat
  BY <1>1, FS_Subset, FS_CardinalityType
<1> QED
  BY <1>2 DEF CellsWith, rows

LEMMA ShownIsFinite ==
  ASSUME ScreenInv(screen), CellsInv
  PROVE  IsFiniteSet(DOMAIN shown)
<1>1. CASE DOMAIN shown = {}
  BY <1>1, FS_EmptySet
<1>2. CASE DOMAIN shown # {}
  <2>1. HasTable(screen) /\ DOMAIN shown \subseteq 1..CurrentTable(screen).rows
    BY <1>2 DEF CellsInv
  <2>2. CurrentTable(screen) \in Tables
    BY <2>1 DEF ScreenInv, HasTable, CurrentTable
  <2>3. IsFiniteSet(1..CurrentTable(screen).rows)
    BY <2>2, FS_Interval DEF Tables
  <2> QED
    BY <2>1, <2>3, FS_Subset
<1> QED
  BY <1>1, <1>2
-----------------------------------------------------------------------------
\* The app before the bracket is first opened.
LEMMA InitInv == Init => IInv
<1> SUFFICES ASSUME Init
             PROVE  IInv
  OBVIOUS
<1>1. NetworkInv
  BY CreatedFacts DEF Init, NetworkInv, DocumentInv
<1>2. ScreenInv(NewScreen)
  BY DEF ScreenInv, NewScreen, NoTournament, Document
<1>3. CellsInv
  BY DEF Init, CellsInv, HasTable, NewScreen, EmptyPool
<1>4. AlertInv
  BY DEF Init, AlertInv
<1> QED
  BY <1>1, <1>2, <1>3, <1>4 DEF Init, IInv

\* The network invariant rests on nothing but the network.
LEMMA NetworkStays ==
  ASSUME NetworkInv, UNCHANGED <<server, unsent, snapshots>>
  PROVE  NetworkInv'
BY DEF NetworkInv

\* Cells and screen as they were.
LEMMA ScreenStays ==
  ASSUME ScreenInv(screen), CellsInv, UNCHANGED <<screen, shown, pool>>
  PROVE  ScreenInv(screen') /\ CellsInv'
BY DEF CellsInv, HasTable, CurrentTable

LEMMA OpenInv ==
  ASSUME IInv, Open
  PROVE  IInv'
<1>1. DocumentInv(LocalDocument) /\ LocalDocument \in Document
  BY LocalDocumentFacts DEF IInv, DocumentInv
<1>2. NetworkInv'
  BY <1>1 DEF IInv, NetworkInv, Open, network
<1>3. ScreenInv(screen') /\ CellsInv'
  BY ScreenStays DEF IInv, Open, cells
<1> QED
  BY <1>2, <1>3 DEF IInv, Open, AlertInv

LEMMA CloseInv ==
  ASSUME IInv, Close
  PROVE  IInv'
<1>1. NetworkInv'
  BY DEF IInv, NetworkInv, Close, network
<1>2. ScreenInv(NewScreen)
  BY DEF ScreenInv, NewScreen, NoTournament, Document
<1>3. CellsInv'
  BY DEF Close, CellsInv, HasTable, NewScreen, EmptyPool
<1>4. AlertInv'
  BY DEF Close, AlertInv
<1> QED
  BY <1>1, <1>2, <1>3, <1>4 DEF Close, IInv

LEMMA CommitInv ==
  ASSUME IInv, Commit
  PROVE  IInv'
<1>1. /\ unsent # << >> /\ unsent \in Seq(Document)
      /\ \A i \in DOMAIN unsent : DocumentInv(unsent[i])
      /\ server' = Head(unsent) /\ unsent' = Tail(unsent)
  BY DEF Commit, IInv, NetworkInv
<1>2. /\ Head(unsent) = unsent[1] /\ 1 \in DOMAIN unsent
      /\ Tail(unsent) \in Seq(Document)
      /\ \A i \in DOMAIN Tail(unsent) : i + 1 \in DOMAIN unsent /\ Tail(unsent)[i] = unsent[i + 1]
  BY <1>1
<1>3. NetworkInv'
  BY <1>1, <1>2 DEF Commit, IInv, NetworkInv
<1>4. ScreenInv(screen') /\ CellsInv'
  BY ScreenStays DEF IInv, Commit, cells
<1> QED
  BY <1>3, <1>4 DEF IInv, Commit, AlertInv

\* No: the count is a number because the alert is only up after a choice.
LEMMA ReturnInv ==
  ASSUME IInv, ReturnToCurrentRound
  PROVE  IInv'
<1>1. NetworkInv' /\ ScreenInv(screen')
  BY NetworkStays DEF IInv, ReturnToCurrentRound, network
<1>2. AlertInv'
  <2>1. winnerSelectedCount \in Nat /\ winnerSelectedCount >= 1
    BY DEF IInv, ReturnToCurrentRound, AlertInv
  <2>2. winnerSelectedCount' = winnerSelectedCount - 1 /\ alert' = FALSE
    BY DEF ReturnToCurrentRound
  <2>3. winnerSelectedCount' \in Nat
    BY <2>1, <2>2
  <2> QED
    BY <2>2, <2>3 DEF AlertInv
<1>3. ASSUME NEW row \in DOMAIN shown
      PROVE  CellInv([shown[row] EXCEPT !.winnerSelected = FALSE])
  BY DEF IInv, CellsInv, CellInv, Cell
<1>4. CellsInv'
  BY <1>3 DEF IInv, ReturnToCurrentRound, CellsInv, HasTable, CurrentTable
<1> QED
  BY <1>1, <1>2, <1>4 DEF IInv, ReturnToCurrentRound

LEMMA NextRoundInv ==
  ASSUME IInv, NextRound
  PROVE  IInv'
<1> DEFINE t == CloseRound(screen.tournament)
<1>1. screen.initialized /\ DocumentInv(screen.tournament)
  BY DEF IInv, NextRound, AlertInv, ScreenInv
<1>2. DocumentInv(t) /\ t \in Document
  BY <1>1, CloseRoundKeepsField DEF DocumentInv
<1>3. /\ screen' = [screen EXCEPT !.tournament = t]
      /\ unsent' = Append(unsent, t) /\ snapshots' = Append(snapshots, t)
  BY DEF NextRound
<1> HIDE DEF t
<1>4. ScreenInv(screen')
  BY <1>1, <1>2, <1>3 DEF IInv, ScreenInv
<1>5. CellsInv'
  BY <1>3 DEF IInv, ScreenInv, CellsInv, HasTable, CurrentTable, NextRound, cells
<1>6. NetworkInv'
  <2>1. /\ unsent \in Seq(Document) /\ snapshots \in Seq(Document)
        /\ \A i \in DOMAIN unsent : DocumentInv(unsent[i])
        /\ \A i \in DOMAIN snapshots : DocumentInv(snapshots[i])
        /\ DocumentInv(server)
    BY DEF IInv, NetworkInv
  <2>2. unsent' \in Seq(Document) /\ \A i \in DOMAIN unsent' : DocumentInv(unsent'[i])
    BY <1>2, <1>3, <2>1
  <2>3. snapshots' \in Seq(Document) /\ \A i \in DOMAIN snapshots' : DocumentInv(snapshots'[i])
    BY <1>2, <1>3, <2>1
  <2> QED
    BY <2>1, <2>2, <2>3 DEF NetworkInv, NextRound
<1> QED
  BY <1>4, <1>5, <1>6 DEF IInv, NextRound, AlertInv
-----------------------------------------------------------------------------
\* Cells taken from a pool of cells, and the cells that stay in it.
LEMMA PoolStaysCounted ==
  ASSUME NEW available \in [BOOLEAN -> Nat], NEW flags, IsFiniteSet(DOMAIN flags),
         \A flag \in BOOLEAN : CellsWith(flag, flags) <= available[flag]
  PROVE  [flag \in BOOLEAN |-> available[flag] - CellsWith(flag, flags)] \in [BOOLEAN -> Nat]
<1>1. ASSUME NEW flag \in BOOLEAN
      PROVE  available[flag] - CellsWith(flag, flags) \in Nat
  <2>1. CellsWith(flag, flags) \in Nat /\ available[flag] \in Nat
    BY CellsWithType
  <2>2. CellsWith(flag, flags) <= available[flag]
    OBVIOUS
  <2> QED
    BY <2>1, <2>2
<1> QED
  BY <1>1

\* A reload in which the table of the screen is still the one shown.
LEMMA ReusedCellsInv ==
  ASSUME CellsInv, ScreenInv(screen), NEW table \in Tables, TableInv(table),
         DOMAIN shown \subseteq 1..table.rows, ReusedCells(table)
  PROVE  /\ DOMAIN shown' = DOMAIN shown
         /\ \A row \in DOMAIN shown' : CellInv(shown'[row])
         /\ pool' \in [BOOLEAN -> Nat]
<1> DEFINE before == [row \in DOMAIN shown |-> shown[row].winnerSelected]
           available == [flag \in BOOLEAN |-> pool[flag] + CellsWith(flag, before)]
<1>1. PICK flags \in [DOMAIN shown -> BOOLEAN] :
         /\ \A flag \in BOOLEAN : CellsWith(flag, flags) <= available[flag]
         /\ shown' = [row \in DOMAIN shown |-> SetMatchup(flags[row], table, row)]
         /\ pool' = [flag \in BOOLEAN |-> available[flag] - CellsWith(flag, flags)]
  BY DEF ReusedCells
<1>2. IsFiniteSet(DOMAIN shown)
  BY ShownIsFinite
<1>3. available \in [BOOLEAN -> Nat]
  <2>1. pool \in [BOOLEAN -> Nat]
    BY DEF CellsInv
  <2>2. IsFiniteSet(DOMAIN before)
    BY <1>2
  <2> HIDE DEF before
  <2>3. \A flag \in BOOLEAN : CellsWith(flag, before) \in Nat
    BY <2>2, CellsWithType
  <2> QED
    BY <2>1, <2>3
<1> HIDE DEF available, before
<1>4. pool' \in [BOOLEAN -> Nat]
  BY <1>1, <1>2, <1>3, PoolStaysCounted
<1>5. ASSUME NEW row \in DOMAIN shown
      PROVE  CellInv(SetMatchup(flags[row], table, row))
  <2>1. row \in 1..table.rows /\ flags[row] \in BOOLEAN
    OBVIOUS
  <2> QED
    BY <2>1, SetMatchupFacts
<1> QED
  BY <1>1, <1>4, <1>5

\* A table that is shown for the first time.
LEMMA NewCellsInv ==
  ASSUME NEW table \in Tables, TableInv(table), NewCells(table)
  PROVE  /\ DOMAIN shown' \subseteq 1..table.rows
         /\ \A row \in DOMAIN shown' : CellInv(shown'[row])
         /\ pool' \in [BOOLEAN -> Nat]
<1>1. ASSUME NEW row \in TopRows(table)
      PROVE  CellInv(SetMatchup(FALSE, table, row))
  BY SetMatchupFacts DEF TopRows
<1> QED
  BY <1>1 DEF NewCells, TopRows, EmptyPool

\* A table that was left and is shown again.
LEMMA EarlierCellsInv ==
  ASSUME NEW table \in Tables, TableInv(table), EarlierCells(table)
  PROVE  /\ DOMAIN shown' \subseteq 1..table.rows
         /\ \A row \in DOMAIN shown' : CellInv(shown'[row])
         /\ pool' \in [BOOLEAN -> Nat]
<1>1. PICK visible \in SUBSET (1..table.rows) :
        \E flags \in [visible -> BOOLEAN] :
          shown' = [row \in visible |-> SetMatchup(flags[row], table, row)]
  BY DEF EarlierCells
<1>2. PICK flags \in [visible -> BOOLEAN] :
        shown' = [row \in visible |-> SetMatchup(flags[row], table, row)]
  BY <1>1
<1>3. ASSUME NEW row \in visible
      PROVE  CellInv(SetMatchup(flags[row], table, row))
  <2>1. row \in 1..table.rows /\ flags[row] \in BOOLEAN
    BY <1>1, <1>2
  <2> QED
    BY <2>1, SetMatchupFacts
<1>4. pool' \in [BOOLEAN -> Nat]
  <2>1. pool' \in [BOOLEAN -> 0..1]
    BY DEF EarlierCells
  <2> QED
    BY <2>1
<1> QED
  BY <1>1, <1>2, <1>3, <1>4

\* A field of two or more has a round to play.
LEMMA HasRounds ==
  ASSUME NEW t, DocumentInv(t)
  PROVE  Rounds(t) \in Nat /\ Rounds(t) >= 1
<1> DEFINE g == Len(t.groups)
           powers == {m \in 2..g : IsPowerOfTwo(m)}
<1>1. g \in Nat /\ g >= 2
  BY GenerateFacts, EntrantsAssumption DEF DocumentInv, Document, Created
<1> HIDE DEF g
<1>2. IsPowerOfTwo(2)
  BY DEF IsPowerOfTwo
<1>3. 2 \in powers /\ powers \in SUBSET (2..g) /\ IsFiniteSet(2..g)
  BY <1>1, <1>2, FS_Interval
<1> HIDE DEF powers
<1>4. Cardinality(powers) \in Nat /\ Cardinality(powers) # 0
  BY <1>3, FS_Subset, FS_CardinalityType, FS_EmptySet
<1>5. Rounds(t) = Cardinality(powers)
  BY DEF Rounds, GenerateRounds, g, powers
<1> QED
  BY <1>4, <1>5

\* A screen that shows a table goes on showing one.
LEMMA SnapshotKeepsTable ==
  ASSUME NEW s, ScreenInv(s), HasTable(s), NEW t, DocumentInv(t), ~Traps(s, t)
  PROVE  HasTable(AfterSnapshot(s, t))
<1> DEFINE made == TablesMade(s, t)
           cur == CurrentRound(s, t)
<1>1. s.currRound \in Nat /\ s.currRound >= 1
  BY DEF ScreenInv, HasTable
<1>2. /\ Rounds(t) \in Nat /\ Rounds(t) >= 1
      /\ RoundsLeft(t) \in SUBSET (1..Rounds(t))
  BY HasRounds, MatchesType DEF DocumentInv, RoundsLeft
<1>3. cur \in Nat /\ cur >= 1
  BY <1>1, <1>2 DEF CurrentRound
<1>4. made \in Seq(Tables)
  BY TablesMadeFacts
<1>5. ~(cur > Len(made))
  BY DEF Traps
<1>6. AfterSnapshot(s, t).currRound = cur /\ DOMAIN AfterSnapshot(s, t).tables = DOMAIN made
  BY DEF AfterSnapshot, TablesRefreshed
<1> HIDE DEF made, cur
<1>7. cur \in DOMAIN made
  BY <1>3, <1>4, <1>5
<1> QED
  BY <1>6, <1>7 DEF HasTable

LEMMA SnapshotInv ==
  ASSUME IInv, Snapshot
  PROVE  IInv'
<1> DEFINE t == Head(snapshots)
<1>1. /\ ScreenInv(screen) /\ CellsInv
      /\ snapshots # << >> /\ snapshots \in Seq(Document)
      /\ \A i \in DOMAIN snapshots : DocumentInv(snapshots[i])
  BY DEF IInv, NetworkInv, Snapshot
<1>2. DocumentInv(t)
  <2>1. Head(snapshots) = snapshots[1] /\ 1 \in DOMAIN snapshots
    BY <1>1
  <2> QED
    BY <1>1, <2>1
<1>3. NetworkInv'
  <2>1. /\ Tail(snapshots) \in Seq(Document)
        /\ \A i \in DOMAIN Tail(snapshots) :
             i + 1 \in DOMAIN snapshots /\ Tail(snapshots)[i] = snapshots[i + 1]
    BY <1>1
  <2>2. snapshots' = Tail(snapshots) /\ UNCHANGED <<server, unsent>>
    BY DEF Snapshot, network
  <2> QED
    BY <1>1, <2>1, <2>2 DEF IInv, NetworkInv
<1>4. phase' \in {"closed", "open", "crashed"}
  BY DEF IInv, Snapshot
<1>5. CASE Traps(screen, t)
  <2>1. ScreenInv(screen') /\ CellsInv' /\ screen' = screen
    BY <1>1, <1>5, ScreenStays DEF Snapshot, cells
  <2>2. AlertInv'
    BY <2>1 DEF IInv, Snapshot, AlertInv
  <2> QED
    BY <1>3, <1>4, <2>1, <2>2 DEF IInv
<1>6. CASE ~Traps(screen, t)
  <2>1. screen' = AfterSnapshot(screen, t) /\ Reload
    BY <1>6 DEF Snapshot
  <2> HIDE DEF t
  <2>2. /\ ScreenInv(screen') /\ screen'.initialized
        /\ \A i \in DOMAIN screen.tables :
             i \in DOMAIN screen'.tables /\ screen'.tables[i].rows = screen.tables[i].rows
    BY <1>1, <1>2, <1>6, <2>1, SnapshotKeepsScreen
  <2>3. AlertInv'
    BY <2>2 DEF IInv, Snapshot, AlertInv
  <2> DEFINE table == CurrentTable(screen')
  <2>4. HasTable(screen') => table \in Tables /\ TableInv(table)
    BY <2>2 DEF ScreenInv, HasTable, CurrentTable
  <2>5. CellsInv'
    <3>1. CASE ~HasTable(screen')
      <4>1. ~HasTable(screen)
        BY <1>1, <1>2, <1>6, <2>1, <3>1, SnapshotKeepsTable
      <4>2. UNCHANGED <<shown, pool>>
        BY <2>1, <3>1 DEF Reload, cells
      <4> QED
        BY <1>1, <3>1, <4>1, <4>2 DEF CellsInv
    <3>2. CASE HasTable(screen') /\ screen.currRound = screen'.currRound
      <4>1. DOMAIN shown \subseteq 1..table.rows
        BY <1>1, <2>2, <3>2 DEF CellsInv, HasTable, CurrentTable
      <4>2. ReusedCells(table)
        BY <2>1, <3>2 DEF Reload
      <4> HIDE DEF table
      <4>3. /\ DOMAIN shown' = DOMAIN shown
            /\ \A row \in DOMAIN shown' : CellInv(shown'[row])
            /\ pool' \in [BOOLEAN -> Nat]
        BY <1>1, <2>4, <3>2, <4>1, <4>2, ReusedCellsInv
      <4> QED
        BY <3>2, <4>1, <4>3 DEF CellsInv, table
    <3>3. CASE HasTable(screen') /\ screen.currRound # screen'.currRound
      <4>1. NewCells(table) \/ EarlierCells(table)
        BY <2>1, <3>3 DEF Reload
      <4> HIDE DEF table
      <4>2. /\ DOMAIN shown' \subseteq 1..table.rows
            /\ \A row \in DOMAIN shown' : CellInv(shown'[row])
            /\ pool' \in [BOOLEAN -> Nat]
        BY <2>4, <3>3, <4>1, NewCellsInv, EarlierCellsInv
      <4> QED
        BY <3>3, <4>2 DEF CellsInv, table
    <3> QED
      BY <3>1, <3>2, <3>3
  <2> QED
    BY <1>3, <1>4, <2>2, <2>3, <2>5 DEF IInv
<1> QED
  BY <1>5, <1>6
-----------------------------------------------------------------------------
\* One row leaves the screen and another enters it.
LEMMA ScrollToInv ==
  ASSUME IInv, HasTable(screen), NEW leaving \in DOMAIN shown,
         NEW entering \in 1..CurrentTable(screen).rows, ScrollTo(leaving, entering)
  PROVE  /\ DOMAIN shown' = (DOMAIN shown \ {leaving}) \cup {entering}
         /\ \A row \in DOMAIN shown' : CellInv(shown'[row])
         /\ pool' \in [BOOLEAN -> Nat]
<1> DEFINE table == CurrentTable(screen)
           flagOut == shown[leaving].winnerSelected
           returned == [pool EXCEPT ![flagOut] = @ + 1]
           rows == (DOMAIN shown \ {leaving}) \cup {entering}
<1>1. table \in Tables /\ TableInv(table)
  BY DEF IInv, ScreenInv, HasTable, CurrentTable
<1>2. /\ \A row \in DOMAIN shown : CellInv(shown[row])
      /\ pool \in [BOOLEAN -> Nat]
  BY DEF IInv, CellsInv
<1>3. flagOut \in BOOLEAN
  BY <1>2 DEF CellInv, Cell
<1> HIDE DEF flagOut
<1>4. returned \in [BOOLEAN -> Nat]
  BY <1>2, <1>3
<1>5. PICK flag \in BOOLEAN :
        /\ shown' = [row \in rows |->
                       IF row = entering THEN SetMatchup(flag, table, row) ELSE shown[row]]
        /\ \/ pool' = returned
           \/ returned[flag] > 0 /\ pool' = [returned EXCEPT ![flag] = @ - 1]
  BY DEF ScrollTo, flagOut
<1> HIDE DEF returned
<1>6. pool' \in [BOOLEAN -> Nat]
  <2>1. CASE pool' = returned
    BY <1>4, <2>1
  <2>2. CASE returned[flag] > 0 /\ pool' = [returned EXCEPT ![flag] = @ - 1]
    <3>1. returned[flag] - 1 \in Nat
      BY <1>4, <2>2
    <3> QED
      BY <1>4, <2>2, <3>1
  <2> QED
    BY <1>5, <2>1, <2>2
<1>7. CellInv(SetMatchup(flag, table, entering))
  BY <1>1, SetMatchupFacts
<1> HIDE DEF table
<1>8. \A row \in rows : CellInv(shown'[row])
  BY <1>2, <1>5, <1>7
<1> QED
  BY <1>5, <1>6, <1>8

LEMMA ScrollInv ==
  ASSUME IInv, Scroll
  PROVE  IInv'
<1>1. /\ HasTable(screen) /\ DOMAIN shown \subseteq 1..CurrentTable(screen).rows
      /\ CurrentTable(screen).rows \in Nat
  <2>1. HasTable(screen) /\ CurrentTable(screen) \in Tables
    BY DEF IInv, Scroll, ScreenInv, HasTable, CurrentTable
  <2> QED
    BY <2>1 DEF IInv, CellsInv, Tables
<1>2. PICK top \in DOMAIN shown, bottom \in DOMAIN shown :
        \/ bottom < CurrentTable(screen).rows /\ ScrollTo(top, bottom + 1)
        \/ top > 1 /\ ScrollTo(bottom, top - 1)
  BY DEF Scroll
<1>3. PICK leaving \in DOMAIN shown, entering \in 1..CurrentTable(screen).rows :
        ScrollTo(leaving, entering)
  <2>1. top \in 1..CurrentTable(screen).rows /\ bottom \in 1..CurrentTable(screen).rows
    BY <1>1
  <2>2. CASE bottom < CurrentTable(screen).rows /\ ScrollTo(top, bottom + 1)
    <3>1. bottom + 1 \in 1..CurrentTable(screen).rows
      BY <1>1, <2>1, <2>2
    <3> QED
      BY <2>2, <3>1
  <2>3. CASE top > 1 /\ ScrollTo(bottom, top - 1)
    <3>1. top - 1 \in 1..CurrentTable(screen).rows
      BY <1>1, <2>1, <2>3
    <3> QED
      BY <2>3, <3>1
  <2> QED
    BY <1>2, <2>2, <2>3
<1>4. /\ DOMAIN shown' = (DOMAIN shown \ {leaving}) \cup {entering}
      /\ \A row \in DOMAIN shown' : CellInv(shown'[row])
      /\ pool' \in [BOOLEAN -> Nat]
  BY <1>1, <1>3, ScrollToInv
<1>5. screen' = screen
  BY DEF Scroll
<1>6. DOMAIN shown' \subseteq 1..CurrentTable(screen').rows
  BY <1>1, <1>4, <1>5
<1>7. CellsInv'
  BY <1>1, <1>4, <1>5, <1>6 DEF CellsInv
<1>8. NetworkInv'
  BY NetworkStays DEF IInv, Scroll, network
<1> QED
  BY <1>5, <1>7, <1>8 DEF IInv, Scroll, AlertInv

\* A press gives updateWinner the two groups its cell was filled with.
LEMMA SelectInv ==
  ASSUME IInv, NEW row \in DOMAIN shown,
         NEW winner \in Group, winner.name \in FieldNames,
         NEW loser \in Group, loser.name \in FieldNames,
         Select(row, winner, loser)
  PROVE  IInv'
<1>1. /\ ScreenInv(screen) /\ HasTable(screen)
      /\ DOMAIN shown \subseteq 1..CurrentTable(screen).rows
  BY DEF IInv, CellsInv
<1>2. screen.initialized /\ screen.currRound \in Nat
  BY <1>1 DEF ScreenInv, HasTable
<1>3. screen' = UpdateWinner(screen, winner, loser, screen.currRound)
  BY DEF Select
<1>4. /\ ScreenInv(screen') /\ screen'.initialized
      /\ screen'.currRound = screen.currRound
      /\ DOMAIN screen'.tables = DOMAIN screen.tables
      /\ \A i \in DOMAIN screen.tables : screen'.tables[i].rows = screen.tables[i].rows
  <2> DEFINE after == UpdateWinner(screen, winner, loser, screen.currRound)
  <2>1. /\ ScreenInv(after) /\ after.initialized
        /\ after.currRound = screen.currRound
        /\ DOMAIN after.tables = DOMAIN screen.tables
        /\ \A i \in DOMAIN screen.tables : after.tables[i].rows = screen.tables[i].rows
    <3> DEFINE round == screen.currRound
    <3>1. round \in Nat /\ ScreenInv(screen) /\ screen.initialized
      BY <1>1, <1>2
    <3>2. after = UpdateWinner(screen, winner, loser, round)
      OBVIOUS
    <3> HIDE DEF round, after
    <3>3. /\ ScreenInv(UpdateWinner(screen, winner, loser, round))
          /\ UpdateWinner(screen, winner, loser, round).initialized
          /\ UpdateWinner(screen, winner, loser, round).currRound = screen.currRound
          /\ DOMAIN UpdateWinner(screen, winner, loser, round).tables = DOMAIN screen.tables
          /\ \A i \in DOMAIN screen.tables :
               UpdateWinner(screen, winner, loser, round).tables[i].rows = screen.tables[i].rows
      BY <3>1, PressKeepsScreen
    <3> QED
      BY <3>2, <3>3 DEF round
  <2>2. screen' = after
    BY <1>3
  <2> HIDE DEF after
  <2> QED
    BY <2>1, <2>2
<1>5. HasTable(screen') /\ CurrentTable(screen').rows = CurrentTable(screen).rows
  BY <1>1, <1>4 DEF HasTable, CurrentTable
<1>6. CellsInv'
  <2>1. shown' = [shown EXCEPT ![row].winnerSelected = TRUE] /\ pool' = pool
    BY DEF Select
  <2>2. \A r \in DOMAIN shown : CellInv(shown[r])
    BY DEF IInv, CellsInv
  <2>3. CellInv([shown[row] EXCEPT !.winnerSelected = TRUE])
    BY <2>2 DEF CellInv, Cell
  <2>4. DOMAIN shown' = DOMAIN shown /\ \A r \in DOMAIN shown' : CellInv(shown'[r])
    BY <2>1, <2>2, <2>3
  <2> QED
    BY <1>1, <1>5, <2>1, <2>4 DEF IInv, CellsInv
<1>7. AlertInv'
  <2>1. winnerSelectedCount \in Nat /\ alert \in BOOLEAN /\ (alert => winnerSelectedCount >= 1)
    BY DEF IInv, AlertInv
  <2>2. CASE shown[row].winnerSelected
    BY <1>4, <2>1, <2>2 DEF Select, AlertInv
  <2>3. CASE ~shown[row].winnerSelected
    <3>1. winnerSelectedCount' = winnerSelectedCount + 1
      BY <2>3 DEF Select
    <3>2. alert' \in BOOLEAN
      BY <2>3 DEF Select
    <3>3. winnerSelectedCount' \in Nat /\ winnerSelectedCount' >= 1
      BY <2>1, <3>1
    <3> QED
      BY <1>4, <3>2, <3>3 DEF AlertInv
  <2> QED
    BY <2>2, <2>3
<1>8. NetworkInv'
  BY NetworkStays DEF IInv, Select, network
<1> QED
  BY <1>4, <1>6, <1>7, <1>8 DEF IInv, Select

LEMMA PressInv ==
  ASSUME IInv, Press
  PROVE  IInv'
<1>1. PICK row \in DOMAIN shown : Group1Button(row) \/ Group2Button(row)
  BY DEF Press
<1> DEFINE one == shown[row].group1
           two == shown[row].group2
<1>2. /\ one \in Group /\ one.name \in FieldNames
      /\ two \in Group /\ two.name \in FieldNames
  BY DEF IInv, CellsInv, CellInv, Cell
<1>3. Select(row, one, two) \/ Select(row, two, one)
  BY <1>1 DEF Group1Button, Group2Button
<1> HIDE DEF one, two
<1> QED
  BY <1>2, <1>3, SelectInv
-----------------------------------------------------------------------------
\* The invariant is inductive.
LEMMA StepInv == IInv /\ [Next]_vars => IInv'
<1> SUFFICES ASSUME IInv, [Next]_vars
             PROVE  IInv'
  OBVIOUS
<1>1. CASE Next
  BY <1>1, OpenInv, CloseInv, SnapshotInv, ScrollInv, PressInv, NextRoundInv, ReturnInv, CommitInv
     DEF Next
<1>2. CASE UNCHANGED vars
  <2>1. ScreenInv(screen') /\ CellsInv'
    BY <1>2, ScreenStays DEF IInv, vars
  <2>2. NetworkInv'
    BY <1>2, NetworkStays DEF IInv, vars
  <2> QED
    BY <1>2, <2>1, <2>2 DEF IInv, vars, AlertInv
<1> QED
  BY <1>1, <1>2

LEMMA InvAlways == Spec => []IInv
BY InitInv, StepInv, PTL DEF Spec

\* TypeOK: every variable keeps its type.
THEOREM TypeCorrect == Spec => []TypeOK
<1>1. IInv => TypeOK
  BY DEF IInv, ScreenInv, CellsInv, CellInv, AlertInv, NetworkInv, DocumentInv, TypeOK
<1> QED
  BY <1>1, InvAlways, PTL

LEMMA AccountedInv == IInv => EveryoneAccountedFor
<1> SUFFICES ASSUME IInv
             PROVE  EveryoneAccountedFor
  OBVIOUS
<1>1. DocumentInv(LocalDocument)
  BY LocalDocumentFacts DEF IInv
<1>2. \A t \in Versions : DocumentInv(t)
  BY <1>1 DEF IInv, NetworkInv, ScreenInv, Versions
<1> QED
  BY <1>2 DEF DocumentInv, EveryoneAccountedFor

\* EveryoneAccountedFor: no version of the tournament, stored, on its way or on
\* the screen, forgets a group of the field, lists an entrant twice, or counts
\* a group as winner and as loser.
THEOREM FieldIsKept == Spec => []EveryoneAccountedFor
BY AccountedInv, InvAlways, PTL
=============================================================================
