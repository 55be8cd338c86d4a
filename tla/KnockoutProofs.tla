--------------------------- MODULE KnockoutProofs ---------------------------
(***************************************************************************)
(* Proofs about a host who answers every "Complete round" with "Yes", for  *)
(* a field of any size whose first round fits on the screen: no handler    *)
(* traps, the ribbons tell who is still in, the host is only asked to end  *)
(* a round that is decided, what is stored is the history of a knockout,   *)
(* and the database implements Knockout.                                   *)
(*                                                                         *)
(* Both conditions matter: a cell that was reused, or was cleared by a     *)
(* "No", counts its matchup again (CellCountedTwice is a run of it), so    *)
(* that a round is ended undecided and the ribbons part from the lists.    *)
(***************************************************************************)
EXTENDS HostBracketProofs

\* No entrant is called FREE, and the rows of the first round, one for every
\* two groups, all fit on the screen.
FieldFits ==
  /\ \A i \in DOMAIN Entrants : Entrants[i] # Free
  /\ Len(Created.groups) <= 2 * VisibleRows

LastRound == Rounds(Created)
Seats(k) == IF k <= LastRound THEN 2^(LastRound + 1 - k) ELSE 1
Rows(k) == 2^(LastRound - k)

\* The round that a history of n lists is in: that of its last list, or the
\* final.
RoundOf(n) == IF n <= LastRound THEN n ELSE LastRound
-----------------------------------------------------------------------------
(* What is stored.                                                           *)

\* Nobody sits twice, and FREE groups only in second places.
Seated(list) == Once(list) /\ \A row \in 1..(Len(list) \div 2) : list[row].name # Free

NoRibbons(list) == \A i \in DOMAIN list : ~list[i].status

ListsFit(lists) ==
  \A k \in DOMAIN lists :
    /\ Len(lists[k]) = Seats(k)
    /\ Seated(lists[k])
    /\ k > 1 => /\ Free \notin NamesOf(lists[k])
                /\ NamesOf(lists[k]) \subseteq NamesOf(lists[RoundOf(k - 1)])

RoundsPlayed(lists) ==
  \A k \in 1..(Len(lists) - 1) :
    k <= LastRound =>
      PlayedOff(lists[k], lists[IF k = LastRound THEN Len(lists) ELSE k + 1])

\* A version of the tournament that the host has ended a round with, or the
\* first one.
StoredInv(t) ==
  /\ Len(t.roundList) >= 1
  /\ ListsFit(t.roundList)
  /\ RoundsPlayed(t.roundList)
  /\ t.winners = t.roundList[Len(t.roundList)]
  /\ Len(t.roundList) <= LastRound => NoRibbons(t.winners)

\* One version and the next have the same groups in the lists they share.
OneListMore(lists, next) ==
  /\ Len(next) = Len(lists) + 1
  /\ \A k \in DOMAIN lists : NamesOf(next[k]) = NamesOf(lists[k])

ClientInv ==
  /\ StoredInv(server)
  /\ \A i \in DOMAIN unsent :
       /\ StoredInv(unsent[i])
       /\ OneListMore((IF i = 1 THEN server ELSE unsent[i - 1]).roundList, unsent[i].roundList)
-----------------------------------------------------------------------------
(* What is on the screen.                                                    *)

RowDecided(list, row) == list[row].status \/ list[Len(list) + 1 - row].status

\* The ribbons of a round's list and the names of the winners.
Ribbons(list, names) ==
  \A row \in 1..(Len(list) \div 2) :
    LET one == list[row]
        two == list[Len(list) + 1 - row]
    IN /\ ~(one.status /\ two.status)
       /\ one.status => one.name \in names /\ two.name \notin names
       /\ two.status => two.name \in names /\ one.name \notin names /\ two.name # Free
       /\ ~one.status /\ ~two.status => one.name \in names /\ (two.name \in names \/ two.name = Free)

Playing == CurrentTable(screen).groups
Flagged == {row \in DOMAIN shown : shown[row].winnerSelected}

\* The tables, the ribbons and the cells of a screen that shows something.
BracketInv ==
  LET r == screen.currRound
  IN /\ r \in 1..LastRound
     /\ DOMAIN screen.tables = 1..r
     /\ \A i \in 1..r : screen.tables[i].rows = Rows(i)
     /\ Len(Playing) = Seats(r) /\ Seated(Playing)
     /\ NamesOf(screen.tournament.winners) \subseteq NamesOf(Playing)
     /\ Ribbons(Playing, NamesOf(screen.tournament.winners))

VisibleInv ==
  /\ DOMAIN shown = 1..Rows(screen.currRound)
  /\ pool = EmptyPool
  /\ \A row \in DOMAIN shown :
       /\ shown[row].group1.name = Playing[row].name
       /\ shown[row].group2.name = Playing[Len(Playing) + 1 - row].name
       /\ shown[row].winnerSelected => RowDecided(Playing, row)

\* The round is being played: the screen's tournament is the stored one but
\* for the ribbons of this round, and either every press so far is counted or,
\* once the champion is stored, none is any more.
PlayingInv ==
  LET r == screen.currRound
      lists == screen.tournament.roundList
      stored == LocalDocument.roundList
  IN /\ r = RoundOf(Len(stored))
     /\ lists[r] = Playing
     /\ Len(lists) = Len(stored)
     /\ \A k \in DOMAIN stored :
          /\ k # r => lists[k] = stored[k]
          /\ Len(lists[k]) = Len(stored[k])
          /\ \A i \in DOMAIN stored[k] : lists[k][i].name = stored[k][i].name
     /\ Len(stored) <= LastRound =>
          /\ NoRibbons(screen.tournament.winners)
          /\ \A row \in DOMAIN shown : ~shown[row].group1.status /\ ~shown[row].group2.status
     /\ \/ /\ winnerSelectedCount = Cardinality(Flagged)
           /\ alert = (winnerSelectedCount = Rows(r))
        \/ /\ Len(stored) > LastRound
           /\ Flagged = DOMAIN shown /\ winnerSelectedCount = 0 /\ ~alert

\* The round was ended, and its snapshot is on the way: nothing is counted.
EndedInv ==
  /\ snapshots = <<LocalDocument>>
  /\ Len(LocalDocument.roundList) > 1
  /\ screen.currRound = RoundOf(Len(LocalDocument.roundList) - 1)
  /\ Flagged = DOMAIN shown /\ winnerSelectedCount = 0 /\ ~alert

\* Nothing is shown yet, or (for a tournament that was deleted) ever.
BlankInv ==
  /\ snapshots \in {<< >>, <<LocalDocument>>}
  /\ phase = "closed" => snapshots = << >>
  /\ winnerSelectedCount = 0 /\ ~alert

ShownInv ==
  /\ phase = "open"
  /\ BracketInv
  /\ VisibleInv
  /\ IF snapshots = << >> THEN PlayingInv ELSE EndedInv

OInv ==
  /\ ClientInv
  /\ phase # "crashed"
  /\ IF screen.initialized THEN ShownInv ELSE BlankInv
-----------------------------------------------------------------------------
(* The numbers of a bracket.                                                 *)

LEMMA RoundNumbers ==
  /\ LastRound \in Nat /\ LastRound >= 1
  /\ Len(Created.groups) = 2^LastRound
  /\ 2^(LastRound - 1) < Len(Entrants)
<1> DEFINE n == Len(Entrants)
<1>1. n \in Nat /\ n >= 2
  BY EntrantsAssumption
<1> HIDE DEF n
<1>2. PICK k \in Nat : n <= 2^k /\ \A j \in Nat : j < k => 2^j < n
  BY <1>1, LeastPower
<1>3. PaddedSize(n) = 2^k
  BY <1>1, <1>2, PaddedTo
<1>4. k # 0
  <2>1. 2^0 = 1
    BY Doubling
  <2>2. ASSUME k = 0
        PROVE  2^k = 1
    BY <2>1, <2>2, Zenon
  <2> QED
    BY <1>1, <1>2, <2>2
<1>5. 2^(k + 1) = 2 * 2^k /\ 2^k \in Nat /\ 2^k >= 1
  BY Doubling, PowersType
<1> DEFINE p == 2^k
<1>6. p <= p /\ p < 2^(k + 1) /\ p \in Nat
  BY <1>5
<1> HIDE DEF p
<1>7. GenerateRounds(p) = k
  BY <1>6, RoundsOf DEF p
<1>8. Len(Created.groups) = p
  <2> DEFINE groups == [i \in 1..PaddedSize(Len(Entrants)) |->
                         [name |-> IF i <= Len(Entrants) THEN Entrants[i] ELSE Free, status |-> FALSE]]
  <2>1. Created.groups = groups
    BY DEF Created, Generate
  <2>2. DOMAIN groups = 1..p
    BY <1>3 DEF n, p
  <2>3. Created.groups \in Seq(Group)
    BY GenerateFacts, EntrantsAssumption DEF Created, Document
  <2> HIDE DEF groups
  <2> QED
    BY <1>6, <2>1, <2>2, <2>3
<1>9. LastRound = k
  BY <1>7, <1>8 DEF LastRound, Rounds
<1>10. k - 1 \in Nat /\ k - 1 < k /\ k >= 1
  BY <1>4
<1> QED
  BY <1>2, <1>8, <1>9, <1>10 DEF p, n

\* Each round has half as many rows as seats, and seats who is left of the
\* round before; no two rounds have as many rows.
LEMMA RowNumbers ==
  ASSUME NEW r \in 1..LastRound
  PROVE  /\ Rows(r) \in Nat /\ Rows(r) >= 1
         /\ Seats(r) = 2 * Rows(r) /\ Seats(r + 1) = Rows(r)
         /\ Seats(r) \div 2 = Rows(r)
         /\ 2 * Rows(r) <= Len(Created.groups)
         /\ \A i \in 1..LastRound : Rows(i) = Rows(r) => i = r
<1> DEFINE left == LastRound - r
<1>1. left \in Nat /\ r \in Nat /\ left + 1 = LastRound + 1 - r /\ left + 1 \in Nat
      /\ LastRound \in Nat /\ left + 1 <= LastRound
  BY RoundNumbers
<1> HIDE DEF left
<1>2. 2^left \in Nat /\ 2^left >= 1 /\ 2^(left + 1) = 2 * 2^left
  BY <1>1, PowersType, Doubling
<1>3. Rows(r) = 2^left
  BY DEF Rows, left
<1>4. Seats(r) = 2^(left + 1)
  BY <1>1 DEF Seats
<1>5. Seats(r + 1) = Rows(r)
  <2>1. CASE left = 0
    <3>1. Seats(r + 1) = 1
      BY <1>1, <2>1 DEF Seats, left
    <3>2. 2^0 = 1
      BY Doubling
    <3> QED
      BY <1>3, <2>1, <3>1, <3>2
  <2>2. CASE left # 0
    <3>1. r + 1 <= LastRound /\ LastRound + 1 - (r + 1) = left
      BY <1>1, <2>2 DEF left
    <3> QED
      BY <1>3, <3>1 DEF Seats
  <2> QED
    BY <2>1, <2>2
<1>6. 2^(left + 1) <= 2^LastRound
  BY <1>1, PowersKeepOrder
<1>7. ASSUME NEW i \in 1..LastRound, Rows(i) = Rows(r), i # r
      PROVE  FALSE
  <2> DEFINE other == LastRound - i
  <2>1. other \in Nat /\ (other < left \/ left < other)
    BY <1>1, <1>7 DEF left
  <2>2. Rows(i) = 2^other
    BY DEF Rows
  <2> HIDE DEF other
  <2>3. 2^other # 2^left
    BY <1>1, <1>2, <2>1, PowersGrow, PowersType
  <2> QED
    BY <1>3, <1>7, <2>2, <2>3
<1>8. Seats(r) \div 2 = Rows(r)
  BY <1>2, <1>3, <1>4
<1> QED
  BY <1>2, <1>3, <1>4, <1>5, <1>6, <1>7, <1>8, RoundNumbers

LEMMA RoundOfFacts ==
  ASSUME NEW n \in Nat, n >= 1
  PROVE  /\ RoundOf(n) \in 1..LastRound /\ RoundOf(n) <= n
         /\ n <= LastRound => RoundOf(n) = n
         /\ n > LastRound => RoundOf(n) = LastRound /\ Seats(n) = 1
         /\ Seats(n + 1) = Rows(RoundOf(n))
<1>1. LastRound \in Nat /\ LastRound >= 1
  BY RoundNumbers
<1>2. CASE n <= LastRound
  BY <1>1, <1>2, RowNumbers DEF RoundOf
<1>3. CASE n > LastRound
  <2>1. Seats(n) = 1 /\ Seats(n + 1) = 1 /\ Seats(LastRound + 1) = 1
    BY <1>1, <1>3 DEF Seats
  <2>2. Seats(LastRound + 1) = Rows(LastRound)
    BY <1>1, RowNumbers
  <2> QED
    BY <1>1, <1>3, <2>1, <2>2 DEF RoundOf
<1> QED
  BY <1>1, <1>2, <1>3

\* What the screen reads from the arithmetic, for any version of this bracket.
LEMMA MatchesOf ==
  ASSUME NEW t, t.groups = Created.groups
  PROVE  /\ Rounds(t) = LastRound
         /\ DOMAIN Matches(t) = 1..LastRound
         /\ \A i \in 1..LastRound : Matches(t)[i] = Rows(i)
BY DEF Rounds, LastRound, Matches, GenerateMatches, Rows
-----------------------------------------------------------------------------
(* The beginning.                                                            *)

LEMMA CreatedStored ==
  ASSUME FieldFits
  PROVE  StoredInv(Created)
<1> DEFINE groups == Created.groups
<1>1. /\ groups \in Seq(Group) /\ Created.winners = groups /\ Created.roundList = <<groups>>
      /\ \A i \in DOMAIN groups :
           groups[i].name = IF i <= Len(Entrants) THEN Entrants[i] ELSE Free
  BY GenerateFacts, EntrantsAssumption DEF Created, Document
<1>2. NoRibbons(groups)
  BY DEF NoRibbons, Created, Generate
<1>3. Once(groups)
  BY <1>1, CreatedFacts DEF DocumentInv, AccountedFor
<1> HIDE DEF groups
<1>4. 1 \in 1..LastRound /\ LastRound \in Nat
  BY RoundNumbers
<1>5. Len(groups) = Seats(1) /\ Len(groups) \in Nat /\ Len(groups) \div 2 = Rows(1)
  <2>1. LastRound + 1 - 1 = LastRound /\ 1 <= LastRound
    BY <1>4
  <2>2. Seats(1) = 2^LastRound
    BY <2>1 DEF Seats
  <2> QED
    BY <1>1, <1>4, <2>2, RoundNumbers, RowNumbers DEF groups
<1>6. Seated(groups)
  <2> SUFFICES ASSUME NEW row \in 1..(Len(groups) \div 2)
               PROVE  groups[row].name # Free
    BY <1>3 DEF Seated
  <2>1. Rows(1) < Len(Entrants) /\ Rows(1) \in Nat
    BY <1>4, RoundNumbers, RowNumbers DEF Rows
  <2>2. row <= Rows(1) /\ row \in Nat /\ Len(Entrants) \in Nat
    BY <1>5, <2>1, EntrantsAssumption
  <2>3. row <= Len(Entrants) /\ row \in DOMAIN Entrants
    BY <2>1, <2>2, EntrantsAssumption
  <2>4. row \in DOMAIN groups
    BY <1>1, <1>5, <2>2
  <2> QED
    BY <1>1, <2>3, <2>4 DEF FieldFits
<1>7. ListsFit(<<groups>>)
  BY <1>5, <1>6 DEF ListsFit
<1>8. RoundsPlayed(<<groups>>)
  BY DEF RoundsPlayed
<1> QED
  BY <1>1, <1>2, <1>7, <1>8 DEF StoredInv

LEMMA InitOrderly ==
  ASSUME FieldFits, Init
  PROVE  OInv
BY CreatedStored DEF Init, OInv, ClientInv, BlankInv, NewScreen
-----------------------------------------------------------------------------
(* Opening, closing, and the network.                                        *)

\* The document the client shows is one of those it knows.
LEMMA LocalStored ==
  ASSUME NetworkInv, ClientInv
  PROVE  StoredInv(LocalDocument) /\ DocumentInv(LocalDocument)
BY DEF NetworkInv, ClientInv, LocalDocument

LEMMA OpenOrderly ==
  ASSUME IInv, OInv, Open
  PROVE  OInv'
<1>1. ~screen.initialized
  BY DEF OInv, ShownInv, Open
<1>2. ClientInv'
  BY DEF OInv, ClientInv, Open, network
<1>3. BlankInv'
  BY <1>1 DEF OInv, BlankInv, Open, network, LocalDocument
<1> QED
  BY <1>1, <1>2, <1>3 DEF OInv, Open

LEMMA CloseOrderly ==
  ASSUME IInv, OInv, Close
  PROVE  OInv'
<1>1. ClientInv'
  BY DEF OInv, ClientInv, Close, network
<1>2. BlankInv'
  BY DEF BlankInv, Close
<1> QED
  BY <1>1, <1>2 DEF OInv, Close, NewScreen

LEMMA LastWrite ==
  ASSUME NEW list \in Seq(Document), list # << >>, Tail(list) = << >>
  PROVE  Len(list) = 1
<1> DEFINE all == Len(list)
           rest == Len(Tail(list))
<1>1. rest = all - 1 /\ all \in Nat
  OBVIOUS
<1>2. Len(<< >>) = 0
  OBVIOUS
<1>3. rest = 0
  BY <1>2, Zenon
<1> HIDE DEF all, rest
<1>4. all = 1
  BY <1>1, <1>3
<1> QED
  BY <1>4 DEF all

\* The network takes the oldest write: the versions stay one list apart, and
\* the newest of them the newest.
LEMMA CommitOrderly ==
  ASSUME IInv, OInv, Commit
  PROVE  OInv'
<1>1. /\ unsent \in Seq(Document) /\ unsent # << >>
      /\ server' = Head(unsent) /\ unsent' = Tail(unsent)
  BY DEF Commit, IInv, NetworkInv
<1>2. /\ Head(unsent) = unsent[1] /\ 1 \in DOMAIN unsent
      /\ \A i \in DOMAIN Tail(unsent) : i + 1 \in DOMAIN unsent /\ Tail(unsent)[i] = unsent[i + 1]
      /\ DOMAIN Tail(unsent) \subseteq Nat \ {0}
      /\ Len(Tail(unsent)) = Len(unsent) - 1 /\ Tail(unsent) \in Seq(Document)
      /\ DOMAIN unsent = 1..Len(unsent) /\ Len(unsent) \in Nat
      /\ \A i \in DOMAIN Tail(unsent) : i # 1 => i - 1 \in DOMAIN Tail(unsent)
  BY <1>1
<1>3. ClientInv'
  <2>1. StoredInv(server')
    BY <1>1, <1>2 DEF OInv, ClientInv
  <2>2. ASSUME NEW i \in DOMAIN unsent'
        PROVE  /\ StoredInv(unsent'[i])
               /\ OneListMore((IF i = 1 THEN server' ELSE unsent'[i - 1]).roundList, unsent'[i].roundList)
    <3>1. i \in DOMAIN Tail(unsent) /\ i + 1 \in DOMAIN unsent /\ i + 1 # 1 /\ (i + 1) - 1 = i
      BY <1>1, <1>2
    <3>2. unsent'[i] = unsent[i + 1]
      BY <1>1, <1>2, <3>1
    <3>3. (IF i = 1 THEN server' ELSE unsent'[i - 1]) = unsent[i]
      <4>1. CASE i = 1
        BY <1>1, <1>2, <4>1
      <4>2. CASE i # 1
        <5>1. i - 1 \in DOMAIN Tail(unsent) /\ (i - 1) + 1 = i
          BY <1>2, <3>1, <4>2
        <5>2. unsent'[i - 1] = unsent[(i - 1) + 1]
          BY <1>1, <1>2, <5>1
        <5> QED
          BY <4>2, <5>1, <5>2
      <4> QED
        BY <4>1, <4>2
    <3>4. StoredInv(unsent[i + 1]) /\ OneListMore(unsent[i].roundList, unsent[i + 1].roundList)
      BY <3>1 DEF OInv, ClientInv
    <3> QED
      BY <3>2, <3>3, <3>4
  <2> QED
    BY <2>1, <2>2 DEF ClientInv
<1>4. LocalDocument' = LocalDocument
  <2>1. CASE Tail(unsent) = << >>
    <3>1. Len(unsent) = 1
      BY <1>2, <2>1, LastWrite
    <3> QED
      BY <1>1, <1>2, <2>1, <3>1 DEF LocalDocument
  <2>2. CASE Tail(unsent) # << >>
    <3>1. Len(Tail(unsent)) \in DOMAIN Tail(unsent)
      BY <1>2, <2>2
    <3>2. Tail(unsent)[Len(Tail(unsent))] = unsent[Len(unsent)]
      BY <1>2, <3>1
    <3> QED
      BY <1>1, <2>2, <3>2 DEF LocalDocument
  <2> QED
    BY <2>1, <2>2
<1>5. UNCHANGED <<snapshots, phase, screen, shown, pool, winnerSelectedCount, alert>>
  BY DEF Commit, cells
<1>6. ShownInv => ShownInv'
  BY <1>4, <1>5 DEF ShownInv, BracketInv, VisibleInv, PlayingInv, EndedInv, Playing, Flagged,
     CurrentTable
<1>7. BlankInv => BlankInv'
  BY <1>4, <1>5 DEF BlankInv
<1> QED
  BY <1>3, <1>5, <1>6, <1>7 DEF OInv
-----------------------------------------------------------------------------
(* Choosing a winner.                                                        *)

LEMMA SetStatusAt ==
  ASSUME NEW list \in Seq(Group), NEW winner, NEW loser, NEW i \in DOMAIN list
  PROVE  /\ i \in DOMAIN SetStatus(list, winner, loser)
         /\ SetStatus(list, winner, loser)[i].name = list[i].name
         /\ list[i].name = winner.name => SetStatus(list, winner, loser)[i].status
         /\ list[i].name # winner.name /\ list[i].name = loser.name =>
              ~SetStatus(list, winner, loser)[i].status
         /\ list[i].name # winner.name /\ list[i].name # loser.name =>
              SetStatus(list, winner, loser)[i] = list[i]
<1>1. list[i] \in Group
  OBVIOUS
<1> QED
  BY <1>1 DEF SetStatus, Group

\* Choosing the group at one place of a matchup over the one at the other: the
\* ribbons and the winners change together, and no other row is touched, since
\* of its names only FREE can be one of these two.
LEMMA RibbonsAfterPress ==
  ASSUME NEW list \in Seq(Group), NEW rows \in Nat, Len(list) = 2 * rows, Seated(list),
         NEW names, Ribbons(list, names), names \subseteq NamesOf(list),
         NEW at \in 1..Len(list), NEW winner, NEW loser,
         list[at].name = winner.name, list[Len(list) + 1 - at].name = loser.name,
         winner.name # Free
  PROVE  /\ Ribbons(SetStatus(list, winner, loser), (names \ {loser.name}) \cup {winner.name})
         /\ (names \ {loser.name}) \cup {winner.name} \subseteq NamesOf(list)
         /\ \A row \in 1..rows :
              /\ RowDecided(list, row) => RowDecided(SetStatus(list, winner, loser), row)
              /\ row = at \/ row = Len(list) + 1 - at
                   => RowDecided(SetStatus(list, winner, loser), row)
<1> DEFINE marked == SetStatus(list, winner, loser)
           after == (names \ {loser.name}) \cup {winner.name}
           other == Len(list) + 1 - at
<1>1. /\ DOMAIN list = 1..2 * rows /\ Len(marked) = 2 * rows /\ Len(list) \div 2 = rows
      /\ other \in DOMAIN list /\ at \in DOMAIN list /\ other # at
  <2>1. Len(marked) = Len(list)
    BY SetStatusFacts
  <2> QED
    BY <2>1
<1>2. winner.name # loser.name
  BY <1>1 DEF Seated, Once
<1>3. ASSUME NEW i \in DOMAIN list
      PROVE  /\ marked[i].name = list[i].name
             /\ list[i].name = winner.name => marked[i].status
             /\ list[i].name # winner.name /\ list[i].name = loser.name => ~marked[i].status
             /\ list[i].name # winner.name /\ list[i].name # loser.name => marked[i] = list[i]
  BY SetStatusAt
<1> HIDE DEF marked
<1>4. after \subseteq NamesOf(list)
  BY <1>1 DEF NamesOf
<1>5. ASSUME NEW row \in 1..rows
      PROVE  LET one == marked[row]
                 two == marked[Len(marked) + 1 - row]
             IN /\ ~(one.status /\ two.status)
                /\ one.status => one.name \in after /\ two.name \notin after
                /\ two.status => two.name \in after /\ one.name \notin after /\ two.name # Free
                /\ ~one.status /\ ~two.status =>
                     one.name \in after /\ (two.name \in after \/ two.name = Free)
                /\ RowDecided(list, row) => RowDecided(marked, row)
                /\ row = at \/ row = other => RowDecided(marked, row)
  <2> DEFINE across == Len(list) + 1 - row
  <2>1. row \in DOMAIN list /\ across \in DOMAIN list /\ Len(marked) + 1 - row = across
    BY <1>1
  <2>2. CASE row = at
    <3>1. across = other
      BY <2>2
    <3>2. marked[row].status /\ ~marked[across].status
      BY <1>2, <1>3, <2>1, <2>2, <3>1
    <3> QED
      BY <1>2, <1>3, <2>1, <2>2, <3>1, <3>2 DEF RowDecided
  <2>3. CASE row = other
    <3>1. across = at
      BY <1>1, <2>3
    <3>2. ~marked[row].status /\ marked[across].status
      BY <1>2, <1>3, <2>1, <2>3, <3>1
    <3> QED
      BY <1>2, <1>3, <2>1, <2>3, <3>1, <3>2 DEF RowDecided
  <2>4. CASE row # at /\ row # other
    <3>1. across # at /\ across # other
      BY <1>1, <2>1, <2>4
    <3>2. list[row].name # winner.name /\ list[across].name # winner.name
      BY <1>1, <2>1, <2>4, <3>1 DEF Seated, Once
    <3>3. list[row].name # Free
      BY <1>1 DEF Seated
    <3>4. list[row].name # loser.name /\ (list[across].name = loser.name => list[across].name = Free)
      BY <1>1, <2>1, <2>4, <3>1, <3>3 DEF Seated, Once
    <3>5. /\ ~(list[row].status /\ list[across].status)
          /\ list[row].status => list[row].name \in names /\ list[across].name \notin names
          /\ list[across].status =>
               list[across].name \in names /\ list[row].name \notin names /\ list[across].name # Free
          /\ ~list[row].status /\ ~list[across].status =>
               list[row].name \in names /\ (list[across].name \in names \/ list[across].name = Free)
      BY <1>1 DEF Ribbons
    <3>6. marked[row].status = list[row].status /\ marked[row].name = list[row].name
      BY <1>3, <2>1, <3>2, <3>4
    <3>7. marked[across].name = list[across].name
      BY <1>3, <2>1
    <3>8. CASE list[across].name = loser.name
      <4>1. ~marked[across].status /\ ~list[across].status /\ list[across].name = Free
        BY <1>3, <2>1, <3>2, <3>4, <3>5, <3>8
      <4> QED
        BY <2>1, <2>4, <3>2, <3>4, <3>5, <3>6, <3>7, <4>1 DEF RowDecided
    <3>9. CASE list[across].name # loser.name
      <4>1. marked[across].status = list[across].status
        BY <1>3, <2>1, <3>2, <3>9
      <4> QED
        BY <2>1, <2>4, <3>2, <3>4, <3>5, <3>6, <3>7, <3>9, <4>1 DEF RowDecided
    <3> QED
      BY <3>8, <3>9
  <2> QED
    BY <2>2, <2>3, <2>4
<1>6. Ribbons(marked, after)
  BY <1>1, <1>5 DEF Ribbons
<1> QED
  BY <1>4, <1>5, <1>6 DEF marked

\* Ribbons do not move anybody.
LEMMA SeatedAfterPress ==
  ASSUME NEW list \in Seq(Group), NEW winner, NEW loser, Seated(list)
  PROVE  Seated(SetStatus(list, winner, loser))
<1> DEFINE marked == SetStatus(list, winner, loser)
<1>1. Len(marked) = Len(list) /\ DOMAIN marked = DOMAIN list /\ DOMAIN list = 1..Len(list) /\ Len(list) \in Nat
  BY SetStatusFacts
<1>2. \A i \in DOMAIN list : marked[i].name = list[i].name
  BY SetStatusAt
<1> HIDE DEF marked
<1>3. Seated(marked)
  BY <1>1, <1>2 DEF Seated, Once
<1> QED
  BY <1>3 DEF marked

\* The winners have no ribbons if neither they had nor the one who joins them.
LEMMA WinnersAfterPress ==
  ASSUME NEW list \in Seq(Group), NEW winner \in Group, NEW loser \in Group,
         NoRibbons(list), ~winner.status
  PROVE  NoRibbons(With(Without(list, loser), winner))
<1> DEFINE rest == Without(list, loser)
<1>1. /\ rest \in Seq(Group)
      /\ \E from \in [DOMAIN rest -> DOMAIN list] : \A k \in DOMAIN rest : rest[k] = list[from[k]]
  BY WithoutFacts
<1> HIDE DEF rest
<1>2. NoRibbons(rest)
  BY <1>1 DEF NoRibbons
<1>3. CASE winner.name \in NamesOf(rest)
  BY <1>2, <1>3 DEF With, rest
<1>4. CASE winner.name \notin NamesOf(rest)
  <2>1. With(rest, winner) = Append(rest, winner)
    BY <1>4 DEF With
  <2>2. NoRibbons(Append(rest, winner))
    BY <1>1, <1>2 DEF NoRibbons
  <2> QED
    BY <2>1, <2>2 DEF rest
<1> QED
  BY <1>3, <1>4

\* The rows whose press was counted, or would not count.
LEMMA FlaggedFacts ==
  ASSUME VisibleInv, screen.currRound \in 1..LastRound
  PROVE  /\ IsFiniteSet(Flagged) /\ Cardinality(Flagged) \in Nat
         /\ IsFiniteSet(DOMAIN shown) /\ Cardinality(DOMAIN shown) = Rows(screen.currRound)
         /\ Cardinality(Flagged) <= Rows(screen.currRound)
         /\ Cardinality(Flagged) = Rows(screen.currRound) => Flagged = DOMAIN shown
<1> DEFINE n == Rows(screen.currRound)
<1>1. n \in Nat /\ n >= 1
  BY RowNumbers
<1> HIDE DEF n
<1>2. IsFiniteSet(1..n) /\ Cardinality(1..n) = n
  BY <1>1, FS_Interval
<1>3. DOMAIN shown = 1..n /\ Flagged \subseteq 1..n
  BY DEF VisibleInv, Flagged, n
<1> HIDE DEF Flagged
<1>4. /\ IsFiniteSet(Flagged) /\ Cardinality(Flagged) <= Cardinality(1..n)
      /\ Cardinality(Flagged) = Cardinality(1..n) => Flagged = 1..n
  BY <1>2, <1>3, FS_Subset
<1> QED
  BY <1>2, <1>3, <1>4, FS_CardinalityType DEF n

\* Both places of a matchup are places of the list.
LEMMA BothPlaces ==
  ASSUME NEW list \in Seq(Group), NEW rows \in Nat, Len(list) = 2 * rows, NEW row \in 1..rows
  PROVE  row \in DOMAIN list /\ Len(list) + 1 - row \in DOMAIN list
OBVIOUS

\* What a screen that shows something has.
LEMMA PlayingFacts ==
  ASSUME IInv, OInv, screen.initialized
  PROVE  /\ ShownInv /\ ScreenInv(screen) /\ DocumentInv(screen.tournament)
         /\ screen.currRound \in 1..LastRound /\ screen.currRound \in Nat
         /\ screen.currRound \in DOMAIN screen.tables /\ HasTable(screen)
         /\ CurrentTable(screen) \in Tables
         /\ CurrentTable(screen) = screen.tables[screen.currRound]
         /\ CurrentTable(screen).rows = Rows(screen.currRound)
         /\ Playing \in Seq(Group)
         /\ Rows(screen.currRound) \in Nat /\ Rows(screen.currRound) >= 1
         /\ Len(Playing) = 2 * Rows(screen.currRound)
         /\ Len(Playing) \div 2 = Rows(screen.currRound)
<1> DEFINE r == screen.currRound
<1>1. ShownInv /\ ScreenInv(screen)
  BY DEF OInv, IInv
<1>2. /\ r \in 1..LastRound /\ r \in DOMAIN screen.tables
      /\ screen.tables[r].rows = Rows(r) /\ Len(Playing) = Seats(r)
  BY <1>1 DEF ShownInv, BracketInv
<1>3. screen.tables[r] \in Tables /\ DocumentInv(screen.tournament)
  BY <1>1, <1>2 DEF ScreenInv
<1>4. CurrentTable(screen) = screen.tables[r] /\ HasTable(screen)
  BY <1>2 DEF CurrentTable, HasTable
<1>5. Playing \in Seq(Group)
  BY <1>3, <1>4 DEF Playing, Tables
<1>6. /\ Rows(r) \in Nat /\ Rows(r) >= 1
      /\ Seats(r) = 2 * Rows(r) /\ Seats(r) \div 2 = Rows(r)
  BY <1>2, RowNumbers
<1> HIDE DEF r
<1>7. r \in Nat
  BY <1>2, RoundNumbers
<1> QED
  BY <1>1, <1>2, <1>3, <1>4, <1>5, <1>6, <1>7 DEF r

\* A press on a row's cell.
LEMMA SelectOrderly ==
  ASSUME IInv, IInv', OInv, screen.initialized, ~alert,
         NEW row \in DOMAIN shown, NEW at \in 1..Len(Playing),
         row = at \/ row = Len(Playing) + 1 - at,
         NEW winner \in Group, NEW loser \in Group,
         Playing[at].name = winner.name, Playing[Len(Playing) + 1 - at].name = loser.name,
         winner.name # Free,
         snapshots = << >> /\ Len(LocalDocument.roundList) <= LastRound => ~winner.status,
         Select(row, winner, loser)
  PROVE  OInv'
<1> DEFINE r == screen.currRound
           lists == screen.tournament.roundList
           W == screen.tournament.winners
           after == UpdateWinner(screen, winner, loser, r)
           marked == SetStatus(Playing, winner, loser)
<1>1. /\ ShownInv /\ ScreenInv(screen) /\ DocumentInv(screen.tournament)
      /\ r \in 1..LastRound /\ r \in Nat /\ r \in DOMAIN screen.tables
      /\ CurrentTable(screen) = screen.tables[r] /\ CurrentTable(screen).rows = Rows(r)
      /\ Playing \in Seq(Group) /\ Rows(r) \in Nat /\ Rows(r) >= 1 /\ Len(Playing) = 2 * Rows(r)
      /\ Len(Playing) \div 2 = Rows(r)
  BY PlayingFacts
<1>2. W \in Seq(Group) /\ lists \in Seq(Seq(Group))
  BY <1>1 DEF DocumentInv, Document
<1> HIDE DEF r
<1>3. /\ after.initialized /\ after.currRound = screen.currRound
      /\ after.tournament.groups = screen.tournament.groups
      /\ after.tournament.winners = With(Without(W, loser), winner)
      /\ DOMAIN after.tournament.roundList = DOMAIN lists
      /\ \A k \in DOMAIN lists :
           after.tournament.roundList[k] = IF k = r THEN SetStatus(lists[k], winner, loser) ELSE lists[k]
      /\ DOMAIN after.tables = DOMAIN screen.tables
      /\ \A i \in DOMAIN screen.tables :
           /\ after.tables[i].rows = screen.tables[i].rows
           /\ i = r => after.tables[i].groups = SetStatus(screen.tables[i].groups, winner, loser)
  <2> DEFINE s == screen
             pressed == UpdateWinner(s, winner, loser, r)
  <2>1. after = pressed
    OBVIOUS
  <2>2. ScreenInv(s) /\ s.initialized /\ r \in Nat
    BY <1>1
  <2>9. s = screen
    OBVIOUS
  <2> HIDE DEF s, after
  <2>3. /\ pressed.initialized /\ pressed.currRound = s.currRound
        /\ pressed.tournament.groups = s.tournament.groups
        /\ pressed.tournament.winners = With(Without(s.tournament.winners, loser), winner)
    <3>1. pressed.initialized /\ pressed.currRound = s.currRound
      BY <2>2, UpdateWinnerFields
    <3>2. pressed.tournament.groups = s.tournament.groups
      BY <2>2, UpdateWinnerFields
    <3>3. pressed.tournament.winners = With(Without(s.tournament.winners, loser), winner)
      BY <2>2, UpdateWinnerFields
    <3> QED
      BY <3>1, <3>2, <3>3
  <2>4. /\ DOMAIN pressed.tournament.roundList = DOMAIN s.tournament.roundList
        /\ \A k \in DOMAIN s.tournament.roundList :
             pressed.tournament.roundList[k]
               = IF k = r THEN SetStatus(s.tournament.roundList[k], winner, loser)
                          ELSE s.tournament.roundList[k]
    BY <2>2, UpdateWinnerFields
  <2>5. /\ DOMAIN pressed.tables = DOMAIN s.tables
        /\ \A i \in DOMAIN s.tables :
             pressed.tables[i]
               = IF i = r THEN [rows |-> s.tables[i].rows,
                                groups |-> SetStatus(s.tables[i].groups, winner, loser)]
                          ELSE s.tables[i]
    BY <2>2, UpdateWinnerTables
  <2> HIDE DEF pressed
  <2>6. \A i \in DOMAIN s.tables :
          /\ pressed.tables[i].rows = s.tables[i].rows
          /\ i = r => pressed.tables[i].groups = SetStatus(s.tables[i].groups, winner, loser)
    <3> SUFFICES ASSUME NEW i \in DOMAIN s.tables
                 PROVE  /\ pressed.tables[i].rows = s.tables[i].rows
                        /\ i = r => pressed.tables[i].groups = SetStatus(s.tables[i].groups, winner, loser)
      OBVIOUS
    <3>1. CASE i = r
      <4>1. pressed.tables[i] = [rows |-> s.tables[i].rows,
                                 groups |-> SetStatus(s.tables[i].groups, winner, loser)]
        BY <2>5, <3>1
      <4> QED
        BY <4>1
    <3>2. CASE i # r
      BY <2>5, <3>2
    <3> QED
      BY <3>1, <3>2
  <2> QED
    BY <2>1, <2>3, <2>4, <2>5, <2>6, <2>9
<1>4. screen' = after /\ UNCHANGED <<server, unsent, snapshots, phase, pool>>
  BY DEF Select, after, network, r
<1> HIDE DEF after
<1>5. screen'.currRound = r /\ screen'.initialized
  BY <1>3, <1>4 DEF r
<1>6. Playing = screen.tables[r].groups
  BY <1>1 DEF Playing
<1>7. Playing' = marked
  <2>1. screen'.tables[r].groups = SetStatus(screen.tables[r].groups, winner, loser)
    BY <1>1, <1>3, <1>4
  <2>2. Playing' = screen'.tables[screen'.currRound].groups
    BY DEF Playing, CurrentTable
  <2> QED
    BY <1>5, <1>6, <2>1, <2>2
<1>8. BracketInv
  BY <1>1 DEF ShownInv
<1> DEFINE names == NamesOf(W)
           newNames == (names \ {loser.name}) \cup {winner.name}
<1>9. NamesOf(screen'.tournament.winners) = newNames
  <2>1. Without(W, loser) \in Seq(Group) /\ NamesOf(Without(W, loser)) = names \ {loser.name}
    BY <1>2, WithoutFacts
  <2>2. NamesOf(With(Without(W, loser), winner)) = newNames
    BY <2>1, WithFacts
  <2> QED
    BY <1>3, <1>4, <2>2
<1>10. /\ Ribbons(marked, newNames) /\ newNames \subseteq NamesOf(Playing)
       /\ \A i \in 1..Rows(r) : RowDecided(Playing, i) => RowDecided(marked, i)
       /\ RowDecided(marked, row)
  <2>1. Seated(Playing) /\ names \subseteq NamesOf(Playing) /\ Ribbons(Playing, names)
    BY <1>8 DEF BracketInv
  <2>2. row \in 1..Rows(r)
    BY <1>1 DEF ShownInv, VisibleInv, r
  <2> DEFINE list == Playing
             rows == Rows(r)
  <2>3. rows \in Nat /\ Len(list) = 2 * rows /\ list \in Seq(Group)
    BY <1>1
  <2> HIDE DEF names, rows, list
  <2>4. /\ Ribbons(SetStatus(list, winner, loser), (names \ {loser.name}) \cup {winner.name})
        /\ (names \ {loser.name}) \cup {winner.name} \subseteq NamesOf(list)
        /\ \A i \in 1..rows :
             /\ RowDecided(list, i) => RowDecided(SetStatus(list, winner, loser), i)
             /\ i = at \/ i = Len(list) + 1 - at => RowDecided(SetStatus(list, winner, loser), i)
    BY <2>1, <2>3, RibbonsAfterPress DEF list
  <2> QED
    BY <2>2, <2>4 DEF rows, list
<1>11. /\ marked \in Seq(Group) /\ Len(marked) = Len(Playing) /\ NamesOf(marked) = NamesOf(Playing)
       /\ DOMAIN marked = DOMAIN Playing
  BY <1>1, SetStatusFacts
<1>12. \A i \in DOMAIN Playing : marked[i].name = Playing[i].name
  <2>1. Playing \in Seq(Group)
    BY <1>1
  <2> QED
    BY <2>1, SetStatusAt
<1>13. Seated(marked)
  BY <1>1, <1>8, SeatedAfterPress DEF BracketInv
<1> HIDE DEF marked
<1>14. BracketInv'
  <2>1. DOMAIN screen'.tables = 1..r /\ \A i \in 1..r : screen'.tables[i].rows = Rows(i)
    BY <1>3, <1>4, <1>8 DEF BracketInv, r
  <2>2. Len(Playing) = Seats(r)
    BY <1>8 DEF BracketInv, r
  <2> HIDE DEF names
  <2> QED
    BY <1>1, <1>5, <1>7, <1>9, <1>10, <1>11, <1>13, <2>1, <2>2 DEF BracketInv, LastRound, Rounds
<1>15. VisibleInv
  BY <1>1 DEF ShownInv
<1>16. /\ DOMAIN shown' = DOMAIN shown
       /\ \A i \in DOMAIN shown : /\ shown'[i].group1 = shown[i].group1
                                  /\ shown'[i].group2 = shown[i].group2
                                  /\ shown'[i].winnerSelected = IF i = row THEN TRUE ELSE shown[i].winnerSelected
  <2>1. shown' = [shown EXCEPT ![row].winnerSelected = TRUE]
    BY DEF Select
  <2>2. \A i \in DOMAIN shown : shown[i] \in Cell
    BY DEF IInv, CellsInv, CellInv
  <2> QED
    BY <2>1, <2>2 DEF Cell
<1>17. VisibleInv'
  <2>1. DOMAIN shown = 1..Rows(r) /\ pool = EmptyPool
    BY <1>15 DEF VisibleInv, r
  <2>2. ASSUME NEW i \in DOMAIN shown
        PROVE  /\ shown'[i].group1.name = marked[i].name
               /\ shown'[i].group2.name = marked[Len(marked) + 1 - i].name
               /\ shown'[i].winnerSelected => RowDecided(marked, i)
    <3>1. i \in DOMAIN Playing /\ Len(Playing) + 1 - i \in DOMAIN Playing
      <4>1. i \in 1..Rows(r)
        BY <2>1
      <4>2. Playing \in Seq(Group) /\ Rows(r) \in Nat /\ Len(Playing) = 2 * Rows(r)
        BY <1>1
      <4> QED
        BY <4>1, <4>2, BothPlaces
    <3>2. /\ shown[i].group1.name = Playing[i].name
          /\ shown[i].group2.name = Playing[Len(Playing) + 1 - i].name
          /\ shown[i].winnerSelected => RowDecided(Playing, i)
      BY <1>15 DEF VisibleInv
    <3> QED
      BY <1>10, <1>11, <1>12, <1>16, <2>1, <3>1, <3>2
  <2> QED
    BY <1>4, <1>5, <1>7, <1>16, <2>1, <2>2 DEF VisibleInv, Rows, LastRound, Rounds, Created
<1>18. Flagged' = Flagged \cup {row}
  BY <1>16 DEF Flagged
<1>19. LocalDocument' = LocalDocument
  BY <1>4 DEF LocalDocument
<1>20. ASSUME snapshots = << >>
       PROVE  PlayingInv'
  <2> DEFINE stored == LocalDocument.roundList
  <2>1. PlayingInv
    BY <1>1, <1>20 DEF ShownInv
  <2>2. /\ r = RoundOf(Len(stored)) /\ lists[r] = Playing /\ Len(lists) = Len(stored)
        /\ \A k \in DOMAIN stored :
             /\ k # r => lists[k] = stored[k]
             /\ Len(lists[k]) = Len(stored[k])
             /\ \A i \in DOMAIN stored[k] : lists[k][i].name = stored[k][i].name
        /\ Len(stored) <= LastRound =>
             /\ NoRibbons(W)
             /\ \A i \in DOMAIN shown : ~shown[i].group1.status /\ ~shown[i].group2.status
    BY <2>1 DEF PlayingInv, r
  <2>3. r \in DOMAIN lists /\ stored \in Seq(Seq(Group)) /\ DOMAIN lists = DOMAIN stored
    <3>1. NetworkInv /\ ClientInv
      BY DEF IInv, OInv
    <3>2. stored \in Seq(Seq(Group)) /\ Len(stored) >= 1
      BY <3>1, LocalStored DEF DocumentInv, Document, StoredInv
    <3>3. r <= Len(stored) /\ r >= 1
      <4> DEFINE n == Len(stored)
      <4>1. n \in Nat /\ n >= 1
        BY <3>2
      <4> HIDE DEF n
      <4>2. RoundOf(n) \in 1..LastRound /\ RoundOf(n) <= n
        BY <4>1, RoundOfFacts
      <4> QED
        BY <1>1, <2>2, <4>2 DEF n
    <3> HIDE DEF stored, lists
    <3> QED
      BY <1>1, <1>2, <2>2, <3>2, <3>3
  <2> DEFINE newLists == screen'.tournament.roundList
  <2>4. newLists[r] = marked /\ DOMAIN newLists = DOMAIN lists
    BY <1>3, <1>4, <2>2, <2>3 DEF marked
  <2>5. newLists \in Seq(Seq(Group))
    BY <1>5 DEF IInv, ScreenInv, DocumentInv, Document
  <2>6. Len(newLists) = Len(stored)
    BY <1>2, <2>2, <2>4, <2>5
  <2>7. \A k \in DOMAIN stored :
          /\ k # r => newLists[k] = stored[k]
          /\ Len(newLists[k]) = Len(stored[k])
          /\ \A i \in DOMAIN stored[k] : newLists[k][i].name = stored[k][i].name
    <3> SUFFICES ASSUME NEW k \in DOMAIN stored
                 PROVE  /\ k # r => newLists[k] = stored[k]
                        /\ Len(newLists[k]) = Len(stored[k])
                        /\ \A i \in DOMAIN stored[k] : newLists[k][i].name = stored[k][i].name
      OBVIOUS
    <3>1. /\ k # r => lists[k] = stored[k]
          /\ Len(lists[k]) = Len(stored[k])
          /\ \A i \in DOMAIN stored[k] : lists[k][i].name = stored[k][i].name
      BY <2>2
    <3>2. CASE k = r
      <4>1. stored[r] \in Seq(Group)
        BY <2>3, <3>2
      <4>2. DOMAIN stored[r] = DOMAIN Playing
        BY <1>1, <2>2, <3>1, <3>2, <4>1
      <4>3. newLists[k] = marked /\ lists[k] = Playing
        BY <2>2, <2>4, <3>2
      <4>4. Len(newLists[k]) = Len(stored[k])
        BY <1>11, <3>1, <4>3
      <4>5. \A i \in DOMAIN stored[k] : newLists[k][i].name = stored[k][i].name
        BY <1>12, <3>1, <3>2, <4>2, <4>3
      <4> QED
        BY <3>2, <4>4, <4>5
    <3>3. CASE k # r
      <4>1. newLists[k] = lists[k]
        BY <1>3, <1>4, <2>3, <3>3
      <4> QED
        BY <3>1, <3>3, <4>1
    <3> QED
      BY <3>2, <3>3
  <2>8. Len(stored) <= LastRound =>
          /\ NoRibbons(screen'.tournament.winners)
          /\ \A i \in DOMAIN shown' : ~shown'[i].group1.status /\ ~shown'[i].group2.status
    <3>1. screen'.tournament.winners = With(Without(W, loser), winner)
      BY <1>3, <1>4
    <3>2. Len(stored) <= LastRound => NoRibbons(With(Without(W, loser), winner))
      BY <1>2, <1>20, <2>2, WinnersAfterPress
    <3> QED
      BY <1>16, <2>2, <3>1, <3>2
  <2>9. \/ /\ winnerSelectedCount' = Cardinality(Flagged')
           /\ alert' = (winnerSelectedCount' = Rows(r))
        \/ /\ Len(stored) > LastRound
           /\ Flagged' = DOMAIN shown' /\ winnerSelectedCount' = 0 /\ ~alert'
    <3>1. \/ winnerSelectedCount = Cardinality(Flagged) /\ alert = (winnerSelectedCount = Rows(r))
          \/ Len(stored) > LastRound /\ Flagged = DOMAIN shown /\ winnerSelectedCount = 0 /\ ~alert
      BY <2>1 DEF PlayingInv, r
    <3>2. row \in Flagged <=> shown[row].winnerSelected
      BY DEF Flagged
    <3>3. CASE shown[row].winnerSelected
      <4>1. UNCHANGED <<winnerSelectedCount, alert>>
        BY <3>3 DEF Select
      <4>2. Flagged' = Flagged
        BY <1>18, <3>2, <3>3
      <4> QED
        BY <1>16, <3>1, <4>1, <4>2
    <3>4. CASE ~shown[row].winnerSelected
      <4>1. row \notin Flagged
        BY <3>2, <3>4
      <4>2. winnerSelectedCount = Cardinality(Flagged)
        BY <3>1, <4>1
      <4>3. /\ IsFiniteSet(Flagged) /\ Cardinality(Flagged) \in Nat
            /\ IsFiniteSet(DOMAIN shown) /\ Cardinality(DOMAIN shown) = Rows(r)
        BY <1>1, <1>15, FlaggedFacts DEF r
      <4>4. Cardinality(Flagged \cup {row}) = Cardinality(Flagged) + 1
        BY <4>1, <4>3, FS_AddElement
      <4>5. Flagged \cup {row} \subseteq DOMAIN shown
        BY DEF Flagged
      <4>6. Cardinality(Flagged \cup {row}) <= Rows(r)
        BY <4>3, <4>5, FS_Subset
      <4>7. winnerSelectedCount' = winnerSelectedCount + 1
        BY <3>4 DEF Select
      <4>8. alert' = (winnerSelectedCount + 1 >= Rows(r))
        <5>1. Matches(screen.tournament)[r] = Rows(r)
          BY <1>1, MatchesOf DEF DocumentInv
        <5> QED
          BY <3>4, <5>1 DEF Select, r
      <4> QED
        <5>1. winnerSelectedCount' = Cardinality(Flagged')
          BY <1>18, <4>2, <4>4, <4>7
        <5>2. alert' = (winnerSelectedCount' = Rows(r))
          <6> DEFINE count == Cardinality(Flagged)
          <6>1. /\ count \in Nat /\ Cardinality(Flagged \cup {row}) = count + 1
                /\ winnerSelectedCount' = count + 1 /\ alert' = (count + 1 >= Rows(r))
            BY <4>2, <4>3, <4>4, <4>7, <4>8
          <6> HIDE DEF count
          <6>2. Rows(r) \in Nat /\ count + 1 <= Rows(r)
            BY <1>1, <4>6, <6>1
          <6> QED
            BY <6>1, <6>2
        <5> QED
          BY <5>1, <5>2
    <3> QED
      BY <3>3, <3>4
  <2> QED
    BY <1>5, <1>7, <1>19, <2>2, <2>4, <2>6, <2>7, <2>8, <2>9
       DEF PlayingInv, LastRound, Rounds, Created, RoundOf, Rows
<1>21. ASSUME snapshots # << >>
       PROVE  EndedInv'
  <2>1. EndedInv
    BY <1>1, <1>21 DEF ShownInv
  <2>2. shown[row].winnerSelected
    BY <2>1 DEF EndedInv, Flagged
  <2>3. UNCHANGED <<winnerSelectedCount, alert>>
    BY <2>2 DEF Select
  <2>4. Flagged' = DOMAIN shown'
    BY <1>16, <1>18, <2>1 DEF EndedInv
  <2> QED
    BY <1>4, <1>5, <1>19, <2>1, <2>3, <2>4 DEF EndedInv, r, RoundOf, LastRound, Rounds, Created
<1>22. ClientInv'
  BY <1>4 DEF OInv, ClientInv
<1> QED
  BY <1>1, <1>4, <1>5, <1>14, <1>17, <1>20, <1>21, <1>22 DEF OInv, ShownInv

\* Neither button gives FREE a ribbon.
LEMMA PressOrderly ==
  ASSUME IInv, OInv, Press
  PROVE  OInv'
<1>1. PICK row \in DOMAIN shown : Group1Button(row) \/ Group2Button(row)
  BY DEF Press
<1>2. screen.initialized /\ IInv' /\ ~alert
  BY <1>1, PressInv DEF IInv, CellsInv, ScreenInv, HasTable, Group1Button, Group2Button
<1>3. /\ ShownInv /\ Playing \in Seq(Group) /\ Len(Playing) = 2 * Rows(screen.currRound)
      /\ Len(Playing) \div 2 = Rows(screen.currRound) /\ Rows(screen.currRound) \in Nat
  BY <1>2, PlayingFacts
<1> DEFINE one == shown[row].group1
           two == shown[row].group2
           across == Len(Playing) + 1 - row
<1>4. one \in Group /\ two \in Group
  BY DEF IInv, CellsInv, CellInv, Cell
<1>5. /\ row \in 1..Rows(screen.currRound)
      /\ one.name = Playing[row].name /\ two.name = Playing[across].name
  BY <1>3 DEF ShownInv, VisibleInv
<1>6. one.name # Free
  BY <1>3, <1>5 DEF ShownInv, BracketInv, Seated
<1>7. row \in 1..Len(Playing) /\ across \in 1..Len(Playing) /\ Len(Playing) + 1 - across = row
  <2> DEFINE n == Rows(screen.currRound)
  <2>1. n \in Nat /\ Len(Playing) = 2 * n /\ row \in 1..n
    BY <1>3, <1>5
  <2> HIDE DEF n
  <2> QED
    BY <2>1
<1>8. snapshots = << >> /\ Len(LocalDocument.roundList) <= LastRound => ~one.status /\ ~two.status
  BY <1>3 DEF ShownInv, PlayingInv
<1> HIDE DEF one, two
<1>9. CASE Group1Button(row)
  <2>1. Select(row, one, two)
    BY <1>9 DEF Group1Button, one, two
  <2> HIDE DEF across
  <2> QED
    BY <1>2, <1>4, <1>5, <1>6, <1>7, <1>8, <2>1, SelectOrderly DEF across
<1>10. CASE Group2Button(row)
  <2>1. Select(row, two, one) /\ two.name # Free
    BY <1>10 DEF Group2Button, one, two
  <2> DEFINE at == across
  <2>2. at \in 1..Len(Playing) /\ Len(Playing) + 1 - at = row /\ row = Len(Playing) + 1 - at
    BY <1>7
  <2>3. Playing[at].name = two.name /\ Playing[Len(Playing) + 1 - at].name = one.name
    BY <1>5, <2>2
  <2> HIDE DEF at
  <2> QED
    BY <1>2, <1>4, <1>8, <2>1, <2>2, <2>3, SelectOrderly
<1> QED
  BY <1>1, <1>9, <1>10
-----------------------------------------------------------------------------
(* Ending a round.                                                           *)

LEMMA UpTo ==
  ASSUME NEW n \in Nat
  PROVE  IsFiniteSet(1..n) /\ Cardinality(1..n) = n
BY FS_Interval

\* When every row of a list is decided, the winners are one group of each.
LEMMA WinnersFill ==
  ASSUME NEW list \in Seq(Group), NEW rows \in Nat, Len(list) = 2 * rows, Seated(list),
         NEW W \in Seq(Group), Once(W), NamesOf(W) \subseteq NamesOf(list),
         Ribbons(list, NamesOf(W)), \A row \in 1..rows : RowDecided(list, row)
  PROVE  Free \notin NamesOf(W) /\ Len(W) = rows /\ Seated(W) /\ PlayedOff(list, W)
<1> DEFINE across(i) == Len(list) + 1 - i
           at(row) == IF list[row].status THEN row ELSE across(row)
           names == NamesOf(W)
<1>1. /\ DOMAIN list = 1..2 * rows /\ Len(list) \div 2 = rows
      /\ DOMAIN W = 1..Len(W) /\ Len(W) \in Nat
  OBVIOUS
<1>2. ASSUME NEW row \in 1..rows
      PROVE  /\ list[row].status # list[across(row)].status
             /\ list[row].status = (list[row].name \in names)
             /\ list[across(row)].status = (list[across(row)].name \in names)
             /\ at(row) \in DOMAIN list
             /\ list[at(row)].name \in names /\ list[at(row)].name # Free
  <2>1. row \in DOMAIN list /\ across(row) \in DOMAIN list /\ row \in 1..(Len(list) \div 2)
    BY <1>1
  <2>2. list[row].status \in BOOLEAN /\ list[across(row)].status \in BOOLEAN
    <3>1. list[row] \in Group /\ list[across(row)] \in Group
      BY <2>1
    <3> QED
      BY <3>1 DEF Group
  <2>3. list[row].name # Free
    BY <2>1 DEF Seated
  <2>4. /\ ~(list[row].status /\ list[across(row)].status)
        /\ list[row].status => list[row].name \in names /\ list[across(row)].name \notin names
        /\ list[across(row)].status =>
             list[across(row)].name \in names /\ list[row].name \notin names /\ list[across(row)].name # Free
    BY <2>1 DEF Ribbons
  <2>5. list[row].status \/ list[across(row)].status
    BY DEF RowDecided
  <2> HIDE DEF names, across
  <2> QED
    BY <2>1, <2>2, <2>3, <2>4, <2>5
<1>3. ASSUME NEW i \in DOMAIN list, list[i].name \in names
      PROVE  list[i].name # Free /\ \E row \in 1..rows : at(row) = i
  <2>1. CASE i \in 1..rows
    <3>1. list[i].status
      BY <1>2, <1>3, <2>1
    <3> QED
      BY <1>2, <2>1, <3>1
  <2>2. CASE i \notin 1..rows
    <3>1. across(i) \in 1..rows /\ across(across(i)) = i
      BY <1>1, <2>2
    <3>2. list[i].status /\ ~list[across(i)].status
      BY <1>2, <1>3, <3>1
    <3>3. at(across(i)) = i
      BY <3>1, <3>2
    <3> QED
      BY <1>2, <3>1, <3>3
  <2> QED
    BY <2>1, <2>2
<1>4. Free \notin names
  BY <1>3 DEF NamesOf
<1>5. \A i, j \in DOMAIN W : W[i].name = W[j].name => i = j
  BY <1>4 DEF Once, NamesOf
<1> DEFINE seat == [row \in 1..rows |-> CHOOSE i \in DOMAIN W : W[i].name = list[at(row)].name]
<1>6. ASSUME NEW row \in 1..rows
      PROVE  seat[row] \in DOMAIN W /\ W[seat[row]].name = list[at(row)].name
  <2>1. \E i \in DOMAIN W : W[i].name = list[at(row)].name
    <3>1. list[at(row)].name \in names
      BY <1>2
    <3> HIDE DEF at
    <3> QED
      BY <3>1 DEF NamesOf
  <2> HIDE DEF at
  <2> QED
    BY <2>1
<1>7. ASSUME NEW row \in 1..rows, NEW row2 \in 1..rows, seat[row] = seat[row2]
      PROVE  row = row2
  <2>1. list[at(row)].name = list[at(row2)].name
    BY <1>6, <1>7
  <2>2. at(row) \in DOMAIN list /\ at(row2) \in DOMAIN list /\ list[at(row)].name # Free
    BY <1>2
  <2>3. at(row) = at(row2)
    <3> HIDE DEF at
    <3> QED
      BY <2>1, <2>2 DEF Seated, Once
  <2> QED
    BY <1>1, <2>3
<1>8. ASSUME NEW i \in DOMAIN W
      PROVE  \E row \in 1..rows : seat[row] = i
  <2>1. PICK j \in DOMAIN list : list[j].name = W[i].name
    BY DEF NamesOf
  <2>2. W[i].name \in names
    BY DEF NamesOf
  <2>3. PICK row \in 1..rows : at(row) = j
    BY <1>3, <2>1, <2>2
  <2>4. seat[row] \in DOMAIN W /\ W[seat[row]].name = list[at(row)].name
    BY <1>6
  <2> HIDE DEF seat, at
  <2> QED
    BY <1>5, <2>1, <2>3, <2>4
<1>9. seat \in [1..rows -> DOMAIN W]
  BY <1>6
<1> HIDE DEF seat
<1>10. seat \in Bijection(1..rows, 1..Len(W))
  BY <1>1, <1>7, <1>8, <1>9 DEF Bijection, Injection, Surjection, IsInjective
<1>11. Len(W) = rows
  <2> DEFINE n == Len(W)
  <2>1. n \in Nat
    OBVIOUS
  <2> HIDE DEF n
  <2>2. IsFiniteSet(1..rows) /\ Cardinality(1..rows) = rows
    BY UpTo
  <2>3. Cardinality(1..n) = n
    BY <2>1, UpTo
  <2> QED
    BY <1>10, <2>2, <2>3, FS_Bijection DEF ExistsBijection, n
<1>12. Seated(W)
  <2>1. \A i \in DOMAIN W : W[i].name # Free
    BY <1>4 DEF NamesOf
  <2>2. \A row \in 1..(Len(W) \div 2) : row \in DOMAIN W
    BY <1>1
  <2> QED
    BY <2>1, <2>2 DEF Seated
<1>13. PlayedOff(list, W)
  <2> HIDE DEF at
  <2> QED
    BY <1>2, <1>11 DEF PlayedOff
<1> QED
  BY <1>4, <1>11, <1>12, <1>13

\* A list is played off by the names in the next one.
LEMMA PlayedOffByNames ==
  ASSUME NEW before, NEW after, NEW same, PlayedOff(before, after),
         Len(same) = Len(after), NamesOf(same) = NamesOf(after)
  PROVE  PlayedOff(before, same)
BY DEF PlayedOff

\* The same names in the same seats.
LEMMA SameSeats ==
  ASSUME NEW list \in Seq(Group), NEW same \in Seq(Group), Len(same) = Len(list),
         \A i \in DOMAIN list : same[i].name = list[i].name
  PROVE  NamesOf(same) = NamesOf(list) /\ (Seated(list) => Seated(same))
<1>1. DOMAIN same = DOMAIN list /\ DOMAIN list = 1..Len(list) /\ Len(list) \in Nat
  OBVIOUS
<1>2. NamesOf(same) = NamesOf(list)
  BY <1>1 DEF NamesOf
<1>3. Seated(list) => Seated(same)
  BY <1>1 DEF Seated, Once
<1> QED
  BY <1>2, <1>3

LEMMA Appended ==
  ASSUME NEW T, NEW list \in Seq(T), NEW e \in T
  PROVE  /\ Len(Append(list, e)) = Len(list) + 1 /\ Append(list, e) \in Seq(T)
         /\ DOMAIN Append(list, e) = 1..(Len(list) + 1)
         /\ Append(list, e)[Len(list) + 1] = e
         /\ \A k \in 1..Len(list) : Append(list, e)[k] = list[k]
OBVIOUS

\* A tournament that differs from a stored one by the ribbons of its round and
\* by the winners that these name can be stored when the round is ended.
LEMMA EndedRoundStored ==
  ASSUME NEW d, StoredInv(d), DocumentInv(d), NEW t, DocumentInv(t),
         NEW r \in Nat, r = RoundOf(Len(d.roundList)),
         Len(t.roundList) = Len(d.roundList),
         \A k \in DOMAIN d.roundList :
           /\ k # r => t.roundList[k] = d.roundList[k]
           /\ Len(t.roundList[k]) = Len(d.roundList[k])
           /\ \A i \in DOMAIN d.roundList[k] : t.roundList[k][i].name = d.roundList[k][i].name,
         Len(t.winners) = Rows(r), Seated(t.winners), Free \notin NamesOf(t.winners),
         NamesOf(t.winners) \subseteq NamesOf(t.roundList[r]),
         PlayedOff(t.roundList[r], t.winners),
         Len(d.roundList) <= LastRound => NoRibbons(t.winners)
  PROVE  StoredInv(CloseRound(t)) /\ OneListMore(d.roundList, CloseRound(t).roundList)
<1> DEFINE old == d.roundList
           lists == t.roundList
           W == t.winners
           new == Append(lists, W)
           n == Len(old)
<1>1. old \in Seq(Seq(Group)) /\ lists \in Seq(Seq(Group)) /\ W \in Seq(Group)
  BY DEF DocumentInv, Document
<1>2. CloseRound(t).roundList = new /\ CloseRound(t).winners = W
  <2>1. t \in [groups : Seq(Group), winners : Seq(Group), losers : Seq(Group),
               roundList : Seq(Seq(Group))]
    BY DEF DocumentInv, Document
  <2> QED
    BY <2>1 DEF CloseRound
<1>3. n \in Nat /\ n >= 1 /\ DOMAIN old = 1..n /\ DOMAIN lists = 1..n /\ Len(lists) = n
  BY <1>1 DEF StoredInv
<1>4. /\ Len(new) = n + 1 /\ DOMAIN new = 1..(n + 1) /\ new[n + 1] = W
      /\ \A k \in 1..n : new[k] = lists[k]
  <2> HIDE DEF lists, W, n
  <2> QED
    BY <1>1, <1>3, Appended
<1>5. ListsFit(old) /\ RoundsPlayed(old)
  BY DEF StoredInv
<1>6. ASSUME NEW k \in 1..n
      PROVE  /\ k # r => lists[k] = old[k]
             /\ NamesOf(lists[k]) = NamesOf(old[k]) /\ Len(lists[k]) = Len(old[k])
             /\ Seated(lists[k])
  <2>1. /\ k # r => lists[k] = old[k]
        /\ Len(lists[k]) = Len(old[k])
        /\ \A i \in DOMAIN old[k] : lists[k][i].name = old[k][i].name
    BY <1>3
  <2>2. lists[k] \in Seq(Group) /\ old[k] \in Seq(Group)
    BY <1>1, <1>3
  <2>3. Seated(old[k])
    BY <1>3, <1>5 DEF ListsFit
  <2> DEFINE same == lists[k]
             list == old[k]
  <2> HIDE DEF same, list
  <2>4. NamesOf(same) = NamesOf(list) /\ Seated(same)
    <3>1. same \in Seq(Group) /\ list \in Seq(Group) /\ Len(same) = Len(list) /\ Seated(list)
          /\ \A i \in DOMAIN list : same[i].name = list[i].name
      BY <2>1, <2>2, <2>3 DEF same, list
    <3> QED
      BY <3>1, SameSeats
  <2> QED
    BY <2>1, <2>4 DEF same, list
<1>7. LastRound \in Nat /\ r \in 1..LastRound /\ r <= n /\ Rows(r) = Seats(n + 1)
      /\ (n <= LastRound => r = n) /\ (n > LastRound => r = LastRound)
  <2> HIDE DEF n
  <2>1. r = RoundOf(n)
    BY DEF n
  <2> QED
    BY <1>3, <2>1, RoundOfFacts, RoundNumbers
<1> HIDE DEF new, lists, old, n, W
<1>8. ASSUME NEW k \in 1..(n + 1)
      PROVE  /\ Len(new[k]) = Seats(k)
             /\ Seated(new[k])
             /\ k > 1 => /\ Free \notin NamesOf(new[k])
                         /\ NamesOf(new[k]) \subseteq NamesOf(new[RoundOf(k - 1)])
  <2>1. CASE k = n + 1
    <3>1. new[k] = W /\ k - 1 = n /\ RoundOf(k - 1) = r
      BY <1>3, <1>4, <2>1 DEF n, old
    <3>2. new[r] = lists[r]
      BY <1>3, <1>4, <1>7
    <3> QED
      BY <1>7, <2>1, <3>1, <3>2 DEF W, lists
  <2>2. CASE k # n + 1
    <3>1. k \in 1..n /\ new[k] = lists[k]
      BY <1>3, <1>4, <2>2
    <3>2. /\ Len(old[k]) = Seats(k)
          /\ k > 1 => /\ Free \notin NamesOf(old[k])
                      /\ NamesOf(old[k]) \subseteq NamesOf(old[RoundOf(k - 1)])
      BY <1>3, <1>5, <3>1 DEF ListsFit
    <3>3. k > 1 => RoundOf(k - 1) \in 1..n
      <4> DEFINE m == k - 1
      <4>1. ASSUME k > 1
            PROVE  m \in Nat /\ m >= 1 /\ m <= n
        BY <1>3, <3>1, <4>1
      <4> HIDE DEF m
      <4>2. ASSUME k > 1
            PROVE  RoundOf(m) \in 1..LastRound /\ RoundOf(m) <= m
        BY <4>1, <4>2, RoundOfFacts
      <4>3. ASSUME k > 1
            PROVE  RoundOf(m) \in 1..n
        BY <1>3, <1>7, <4>1, <4>2, <4>3
      <4> QED
        BY <4>3 DEF m
    <3>4. k > 1 => /\ new[RoundOf(k - 1)] = lists[RoundOf(k - 1)]
                   /\ NamesOf(lists[RoundOf(k - 1)]) = NamesOf(old[RoundOf(k - 1)])
      BY <1>4, <1>6, <3>3
    <3> QED
      BY <1>6, <3>1, <3>2, <3>4
  <2> QED
    BY <2>1, <2>2
<1>9. ASSUME NEW k \in 1..n, k <= LastRound
      PROVE  PlayedOff(new[k], new[IF k = LastRound THEN n + 1 ELSE k + 1])
  <2>1. CASE k = r
    <3>1. (IF k = LastRound THEN n + 1 ELSE k + 1) = n + 1
      BY <1>3, <1>7, <2>1
    <3>2. new[k] = lists[r] /\ new[n + 1] = W
      BY <1>4, <2>1
    <3> QED
      BY <3>1, <3>2 DEF lists, W
  <2>2. CASE k # r
    <3>1. k # LastRound /\ k + 1 \in 1..n /\ k \in 1..(n - 1)
      BY <1>3, <1>7, <1>9, <2>2
    <3>2. PlayedOff(old[k], old[k + 1])
      BY <1>5, <1>9, <3>1 DEF RoundsPlayed, n
    <3>3. new[k] = old[k] /\ new[k + 1] = lists[k + 1]
      BY <1>4, <1>6, <2>2, <3>1
    <3>4. NamesOf(lists[k + 1]) = NamesOf(old[k + 1]) /\ Len(lists[k + 1]) = Len(old[k + 1])
      BY <1>6, <3>1
    <3>5. PlayedOff(old[k], lists[k + 1])
      BY <3>2, <3>4, PlayedOffByNames
    <3> QED
      BY <3>1, <3>3, <3>5
  <2> QED
    BY <2>1, <2>2
<1>10. ListsFit(new)
  BY <1>4, <1>8 DEF ListsFit
<1>11. RoundsPlayed(new)
  <2>1. Len(new) - 1 = n
    BY <1>3, <1>4
  <2> QED
    BY <1>4, <1>9, <2>1 DEF RoundsPlayed
<1>12. n + 1 <= LastRound => NoRibbons(W)
  BY <1>3, <1>7 DEF n, old, W
<1>13. StoredInv(CloseRound(t))
  BY <1>2, <1>3, <1>4, <1>10, <1>11, <1>12 DEF StoredInv
<1>14. OneListMore(old, new)
  BY <1>3, <1>4, <1>6 DEF OneListMore, n
<1> QED
  BY <1>2, <1>13, <1>14 DEF old

\* One more write in the client's queue.
LEMMA StoreOrderly ==
  ASSUME NetworkInv, ClientInv, NEW t \in Document, StoredInv(t),
         OneListMore(LocalDocument.roundList, t.roundList),
         unsent' = Append(unsent, t), server' = server
  PROVE  ClientInv' /\ LocalDocument' = t
<1> DEFINE n == Len(unsent)
           new == Append(unsent, t)
<1>1. unsent \in Seq(Document) /\ n \in Nat /\ DOMAIN unsent = 1..n
  BY DEF NetworkInv
<1>2. /\ Len(new) = n + 1 /\ DOMAIN new = 1..(n + 1) /\ new[n + 1] = t
      /\ \A k \in 1..n : new[k] = unsent[k]
  BY <1>1, Appended
<1>3. unsent' = new
  OBVIOUS
<1> HIDE DEF new
<1>4. LocalDocument' = t
  BY <1>1, <1>2, <1>3 DEF LocalDocument
<1>5. ASSUME NEW i \in 1..(n + 1)
      PROVE  /\ StoredInv(new[i])
             /\ OneListMore((IF i = 1 THEN server ELSE new[i - 1]).roundList, new[i].roundList)
  <2>1. CASE i = n + 1
    <3>1. (IF i = 1 THEN server ELSE new[i - 1]) = LocalDocument
      <4>1. CASE n = 0
        BY <1>1, <2>1, <4>1 DEF LocalDocument
      <4>2. CASE n # 0
        BY <1>1, <1>2, <2>1, <4>2 DEF LocalDocument
      <4> QED
        BY <4>1, <4>2
    <3> QED
      BY <1>2, <2>1, <3>1
  <2>2. CASE i # n + 1
    <3>1. i \in 1..n /\ new[i] = unsent[i] /\ (i # 1 => new[i - 1] = unsent[i - 1])
      BY <1>1, <1>2, <2>2
    <3>2. /\ StoredInv(unsent[i])
          /\ OneListMore((IF i = 1 THEN server ELSE unsent[i - 1]).roundList, unsent[i].roundList)
      BY <1>1, <3>1 DEF ClientInv
    <3> QED
      BY <3>1, <3>2
  <2> QED
    BY <2>1, <2>2
<1>6. ClientInv'
  BY <1>2, <1>3, <1>5 DEF ClientInv
<1> QED
  BY <1>4, <1>6

\* The alert is up: every row has its winner, and the winners are one of each.
LEMMA AlertFacts ==
  ASSUME IInv, OInv, alert
  PROVE  /\ screen.initialized /\ snapshots = << >> /\ PlayingInv
         /\ Flagged = DOMAIN shown
         /\ \A row \in 1..Rows(screen.currRound) : RowDecided(Playing, row)
         /\ Free \notin NamesOf(screen.tournament.winners)
         /\ Len(screen.tournament.winners) = Rows(screen.currRound)
         /\ Seated(screen.tournament.winners)
         /\ PlayedOff(Playing, screen.tournament.winners)
<1> DEFINE W == screen.tournament.winners
           rows == Rows(screen.currRound)
<1>1. screen.initialized
  BY DEF IInv, AlertInv
<1>2. /\ ShownInv /\ DocumentInv(screen.tournament) /\ Playing \in Seq(Group)
      /\ screen.currRound \in 1..LastRound
      /\ rows \in Nat /\ Len(Playing) = 2 * rows
  BY <1>1, PlayingFacts
<1>3. snapshots = << >> /\ PlayingInv
  BY <1>2 DEF ShownInv, EndedInv
<1>4. Flagged = DOMAIN shown
  BY <1>2, <1>3, FlaggedFacts DEF PlayingInv, ShownInv
<1>5. \A row \in 1..rows : RowDecided(Playing, row)
  BY <1>2, <1>4 DEF ShownInv, VisibleInv, Flagged
<1>6. W \in Seq(Group) /\ Once(W)
  BY <1>2 DEF DocumentInv, Document, AccountedFor
<1>7. Seated(Playing) /\ NamesOf(W) \subseteq NamesOf(Playing) /\ Ribbons(Playing, NamesOf(W))
  BY <1>2 DEF ShownInv, BracketInv
<1> HIDE DEF W, rows
<1>8. Free \notin NamesOf(W) /\ Len(W) = rows /\ Seated(W) /\ PlayedOff(Playing, W)
  <2> DEFINE list == Playing
  <2>1. /\ list \in Seq(Group) /\ Len(list) = 2 * rows /\ Seated(list)
        /\ NamesOf(W) \subseteq NamesOf(list) /\ Ribbons(list, NamesOf(W))
        /\ \A row \in 1..rows : RowDecided(list, row)
    BY <1>2, <1>5, <1>7
  <2> HIDE DEF list
  <2>2. Free \notin NamesOf(W) /\ Len(W) = rows /\ Seated(W) /\ PlayedOff(list, W)
    BY <1>2, <1>6, <2>1, WinnersFill
  <2> QED
    BY <2>2 DEF list
<1> QED
  BY <1>1, <1>3, <1>4, <1>5, <1>8 DEF W, rows

LEMMA NextRoundOrderly ==
  ASSUME IInv, OInv, NextRound
  PROVE  OInv'
<1> DEFINE r == screen.currRound
           d == LocalDocument
           t == screen.tournament
           ended == CloseRound(t)
<1>1. alert /\ phase = "open"
  BY DEF NextRound
<1>2. /\ screen.initialized /\ snapshots = << >> /\ PlayingInv /\ Flagged = DOMAIN shown
      /\ Free \notin NamesOf(t.winners) /\ Len(t.winners) = Rows(r)
      /\ Seated(t.winners) /\ PlayedOff(Playing, t.winners)
  BY <1>1, AlertFacts
<1>3. ShownInv /\ DocumentInv(t) /\ r \in Nat
  BY <1>2, PlayingFacts
<1>4. NetworkInv /\ ClientInv /\ StoredInv(d) /\ DocumentInv(d)
  BY LocalStored DEF IInv, OInv
<1>5. ended \in Document
  BY <1>3, CloseRoundKeepsField DEF DocumentInv
<1>6. NamesOf(t.winners) \subseteq NamesOf(Playing)
  BY <1>3 DEF ShownInv, BracketInv
<1>7. /\ r = RoundOf(Len(d.roundList)) /\ t.roundList[r] = Playing
      /\ Len(t.roundList) = Len(d.roundList)
      /\ \A k \in DOMAIN d.roundList :
           /\ k # r => t.roundList[k] = d.roundList[k]
           /\ Len(t.roundList[k]) = Len(d.roundList[k])
           /\ \A i \in DOMAIN d.roundList[k] : t.roundList[k][i].name = d.roundList[k][i].name
      /\ Len(d.roundList) <= LastRound => NoRibbons(t.winners)
  BY <1>2 DEF PlayingInv
<1>8. StoredInv(ended) /\ OneListMore(d.roundList, ended.roundList)
  <2> HIDE DEF d, t, r
  <2>1. NamesOf(t.winners) \subseteq NamesOf(t.roundList[r]) /\ PlayedOff(t.roundList[r], t.winners)
    BY <1>2, <1>6, <1>7
  <2> QED
    BY <1>2, <1>3, <1>4, <1>7, <2>1, EndedRoundStored
<1>9. /\ screen' = [screen EXCEPT !.tournament = ended]
      /\ unsent' = Append(unsent, ended) /\ snapshots' = Append(snapshots, ended)
      /\ winnerSelectedCount' = 0 /\ alert' = FALSE
      /\ UNCHANGED <<server, phase, shown, pool>>
  BY DEF NextRound, cells
<1>10. ended.winners = t.winners
  <2>1. t \in [groups : Seq(Group), winners : Seq(Group), losers : Seq(Group),
               roundList : Seq(Seq(Group))]
    BY <1>3 DEF DocumentInv, Document
  <2> HIDE DEF t
  <2> QED
    BY <2>1 DEF CloseRound
<1> HIDE DEF ended
<1>11. ClientInv' /\ LocalDocument' = ended
  BY <1>4, <1>5, <1>8, <1>9, StoreOrderly
<1>12. /\ screen'.currRound = r /\ screen'.tables = screen.tables
       /\ screen'.tournament = ended /\ screen'.initialized
  BY <1>2, <1>3, <1>9, PlayingFacts DEF ScreenInv
<1>13. Playing' = Playing
  BY <1>12 DEF Playing, CurrentTable
<1>14. BracketInv'
  BY <1>3, <1>10, <1>12, <1>13
     DEF ShownInv, BracketInv, Seats, Rows, LastRound, Rounds, Created
<1>15. VisibleInv'
  BY <1>3, <1>9, <1>12, <1>13 DEF ShownInv, VisibleInv, Rows, LastRound, Rounds, Created
<1>16. EndedInv'
  <2>1. snapshots' = <<ended>>
    BY <1>2, <1>9
  <2>2. Len(ended.roundList) = Len(d.roundList) + 1 /\ Len(d.roundList) \in Nat
        /\ Len(d.roundList) >= 1
    BY <1>4, <1>8 DEF OneListMore, StoredInv, DocumentInv, Document
  <2> DEFINE n == Len(d.roundList)
             m == Len(ended.roundList)
  <2>3. r = RoundOf(m - 1) /\ m > 1
    <3>1. r = RoundOf(n) /\ m = n + 1 /\ n \in Nat /\ n >= 1
      BY <1>7, <2>2
    <3> HIDE DEF m, n, r
    <3>2. m - 1 = n
      BY <3>1
    <3> QED
      BY <3>1, <3>2
  <2>4. Flagged' = DOMAIN shown'
    BY <1>2, <1>9 DEF Flagged
  <2> HIDE DEF r, d
  <2> QED
    BY <1>9, <1>11, <1>12, <2>1, <2>3, <2>4 DEF EndedInv, RoundOf, LastRound, Rounds, Created
<1>17. snapshots' # << >>
  <2>1. snapshots' = <<ended>>
    BY <1>2, <1>9
  <2> QED
    BY <2>1
<1> QED
  BY <1>1, <1>9, <1>11, <1>12, <1>14, <1>15, <1>16, <1>17 DEF OInv, ShownInv
-----------------------------------------------------------------------------
(* A snapshot of a stored version.                                           *)

LEMMA CurrentRoundIs ==
  ASSUME NEW s, NEW t, StoredInv(t), DocumentInv(t)
  PROVE  /\ Len(t.roundList) \in Nat /\ Len(t.roundList) >= 1
         /\ CurrentRound(s, t) = RoundOf(Len(t.roundList))
         /\ Len(t.roundList) <= LastRound => RoundsLeft(t) = {Len(t.roundList)}
         /\ Len(t.roundList) > LastRound => RoundsLeft(t) = {}
<1> DEFINE n == Len(t.roundList)
           left == RoundsLeft(t)
<1>1. n \in Nat /\ n >= 1 /\ DOMAIN t.roundList = 1..n
  BY DEF StoredInv, DocumentInv, Document
<1>2. Len(t.winners) = Seats(n)
  BY <1>1 DEF StoredInv, ListsFit
<1> HIDE DEF n
<1>3. left = {i \in 1..LastRound : Seats(n) \div 2 = Rows(i)}
  <2>1. t.groups = Created.groups
    BY DEF DocumentInv
  <2>2. DOMAIN Matches(t) = 1..LastRound /\ \A i \in 1..LastRound : Matches(t)[i] = Rows(i)
    BY <2>1, MatchesOf
  <2> QED
    BY <1>2, <2>2 DEF RoundsLeft
<1>4. Rounds(t) = LastRound
  BY MatchesOf DEF DocumentInv
<1>5. LastRound \in Nat /\ LastRound >= 1
  BY RoundNumbers
<1>6. CurrentRound(s, t) = IF left # {} THEN CHOOSE i \in left : TRUE
                           ELSE IF Seats(n) = 1 THEN LastRound ELSE s.currRound
  BY <1>2, <1>4 DEF CurrentRound
<1> HIDE DEF left
<1>7. CASE n <= LastRound
  <2>1. n \in 1..LastRound
    BY <1>1, <1>5, <1>7
  <2>2. Seats(n) \div 2 = Rows(n) /\ \A i \in 1..LastRound : Rows(i) = Rows(n) => i = n
    BY <2>1, RowNumbers
  <2>3. left = {n}
    BY <1>3, <2>1, <2>2
  <2>4. CurrentRound(s, t) = n
    BY <1>6, <2>3
  <2> QED
    BY <1>1, <1>5, <1>7, <2>3, <2>4 DEF RoundOf, n, left
<1>8. CASE n > LastRound
  <2>1. Seats(n) = 1
    BY <1>1, <1>5, <1>8 DEF Seats
  <2>2. \A i \in 1..LastRound : Rows(i) >= 1 /\ Rows(i) \in Nat
    BY RowNumbers
  <2>3. 1 \div 2 = 0
    OBVIOUS
  <2>4. left = {}
    BY <1>3, <2>1, <2>2, <2>3
  <2>5. CurrentRound(s, t) = LastRound
    BY <1>6, <2>1, <2>4
  <2> QED
    BY <1>1, <1>5, <1>8, <2>4, <2>5 DEF RoundOf, n, left
<1> QED
  BY <1>1, <1>5, <1>7, <1>8

\* The list of the current round of a stored version: no ribbons before the
\* champion is stored, and then one in every row.
LEMMA StoredShows ==
  ASSUME NEW t, StoredInv(t), DocumentInv(t), NEW n, n = Len(t.roundList)
  PROVE  LET list == t.roundList[RoundOf(n)]
         IN  /\ Len(list) = Seats(RoundOf(n)) /\ Seated(list)
             /\ NamesOf(t.winners) \subseteq NamesOf(list)
             /\ Ribbons(list, NamesOf(t.winners))
             /\ n <= LastRound => NoRibbons(list)
             /\ n > LastRound => \A row \in 1..Rows(RoundOf(n)) : RowDecided(list, row)
<1> DEFINE r == RoundOf(n)
           list == t.roundList[r]
           names == NamesOf(t.winners)
<1>1. n \in Nat /\ n >= 1 /\ DOMAIN t.roundList = 1..n /\ t.roundList \in Seq(Seq(Group))
  BY DEF StoredInv, DocumentInv, Document
<1>2. /\ r \in 1..LastRound /\ r <= n /\ (n <= LastRound => r = n)
      /\ (n > LastRound => r = LastRound) /\ LastRound \in Nat
  BY <1>1, RoundOfFacts, RoundNumbers
<1> HIDE DEF r
<1>3. r \in 1..n /\ list \in Seq(Group)
  BY <1>1, <1>2
<1>4. Len(list) = Seats(r) /\ Seated(list) /\ t.winners = t.roundList[n]
  BY <1>1, <1>3 DEF StoredInv, ListsFit
<1>5. Seats(r) = 2 * Rows(r) /\ Seats(r) \div 2 = Rows(r) /\ Rows(r) \in Nat
  BY <1>2, RowNumbers
<1> HIDE DEF list
<1>6. DOMAIN list = 1..2 * Rows(r) /\ Len(list) \div 2 = Rows(r)
  BY <1>3, <1>4, <1>5
<1>7. CASE n <= LastRound
  <2>1. list = t.winners /\ NoRibbons(list)
    BY <1>2, <1>4, <1>7 DEF StoredInv, list
  <2>2. ASSUME NEW row \in 1..(Len(list) \div 2)
        PROVE  /\ ~list[row].status /\ ~list[Len(list) + 1 - row].status
               /\ list[row].name \in names /\ list[Len(list) + 1 - row].name \in names
    <3>1. row \in DOMAIN list /\ Len(list) + 1 - row \in DOMAIN list
      BY <1>4, <1>5, <1>6
    <3> QED
      BY <2>1, <3>1 DEF NoRibbons, NamesOf
  <2>3. Ribbons(list, names)
    BY <2>2 DEF Ribbons
  <2> QED
    BY <1>1, <1>2, <1>4, <1>7, <2>1, <2>3 DEF r, list
<1>8. CASE n > LastRound
  <2>1. r = LastRound /\ LastRound \in 1..(n - 1) /\ n > 1
    <3>1. r = LastRound
      BY <1>2, <1>8
    <3>2. LastRound >= 1
      BY <1>2
    <3> HIDE DEF r, list
    <3>3. LastRound \in 1..(n - 1) /\ n > 1
      BY <1>1, <1>2, <1>8, <3>2
    <3> QED
      BY <3>1, <3>3
  <2>2. PlayedOff(list, t.winners)
    <3>1. PlayedOff(t.roundList[LastRound], t.roundList[IF LastRound = LastRound THEN n ELSE LastRound + 1])
      BY <1>2, <2>1 DEF StoredInv, RoundsPlayed
    <3> QED
      BY <1>4, <2>1, <3>1 DEF list
  <2>3. Free \notin names /\ names \subseteq NamesOf(list)
    <3> DEFINE m == n - 1
    <3>1. m \in Nat /\ m >= 1 /\ m >= LastRound
      BY <1>1, <1>2, <2>1
    <3>2. n \in DOMAIN t.roundList
      BY <1>1
    <3>3. Free \notin names /\ names \subseteq NamesOf(t.roundList[RoundOf(m)])
      BY <1>4, <2>1, <3>2 DEF StoredInv, ListsFit
    <3> HIDE DEF m
    <3>4. RoundOf(m) = LastRound
      BY <1>2, <3>1 DEF RoundOf
    <3> QED
      BY <2>1, <3>3, <3>4 DEF list
  <2>4. ASSUME NEW row \in 1..Rows(r)
        PROVE  LET one == list[row]
                   two == list[Len(list) + 1 - row]
               IN /\ ~(one.status /\ two.status)
                  /\ one.status => one.name \in names /\ two.name \notin names
                  /\ two.status => two.name \in names /\ one.name \notin names /\ two.name # Free
                  /\ one.status \/ two.status
    <3>1. Len(t.winners) = Rows(r)
      <4>1. 2 * Len(t.winners) = 2 * Rows(r) /\ Len(t.winners) \in Nat
        BY <1>4, <1>5, <2>2 DEF PlayedOff, DocumentInv, Document
      <4> QED
        BY <1>5, <4>1
    <3> DEFINE one == list[row]
               two == list[Len(list) + 1 - row]
    <3>2. /\ one.status = (one.name \in names) /\ two.status = (two.name \in names)
          /\ one.status # two.status
      BY <2>2, <3>1 DEF PlayedOff
    <3>3. one.status \in BOOLEAN /\ two.status \in BOOLEAN
      <4>1. row \in DOMAIN list /\ Len(list) + 1 - row \in DOMAIN list
        BY <1>4, <1>5, <1>6
      <4>2. one \in Group /\ two \in Group
        BY <1>3, <4>1
      <4> QED
        BY <4>2 DEF Group
    <3> HIDE DEF one, two, names
    <3> QED
      BY <2>3, <3>2, <3>3 DEF one, two
  <2>5. Ribbons(list, names)
    BY <1>6, <2>3, <2>4 DEF Ribbons
  <2>6. \A row \in 1..Rows(r) : RowDecided(list, row)
    BY <2>4 DEF RowDecided
  <2> QED
    BY <1>1, <1>2, <1>4, <1>8, <2>3, <2>5, <2>6 DEF r, list
<1> QED
  BY <1>1, <1>2, <1>7, <1>8

LEMMA Joined ==
  ASSUME NEW T, NEW old \in Seq(T), NEW new \in Seq(T)
  PROVE  /\ Len(old \o new) = Len(old) + Len(new) /\ old \o new \in Seq(T)
         /\ \A i \in 1..Len(old) : (old \o new)[i] = old[i]
         /\ \A i \in 1..Len(old) + Len(new) : i > Len(old) => (old \o new)[i] = new[i - Len(old)]
OBVIOUS

\* A stored version does not trap a new screen, nor one that shows the rounds
\* before the version's last list, and then the screen has the version's tables.
LEMMA TablesAfter ==
  ASSUME NEW s, ScreenInv(s), NEW t, StoredInv(t), DocumentInv(t),
         NEW n, n = Len(t.roundList),
         s.initialized =>
           n > 1 /\ DOMAIN s.tables = 1..RoundOf(n - 1)
           /\ \A i \in DOMAIN s.tables : s.tables[i].rows = Rows(i)
  PROVE  /\ ~Traps(s, t)
         /\ LET after == AfterSnapshot(s, t)
            IN  /\ after.initialized /\ after.tournament = t
                /\ after.currRound = RoundOf(n)
                /\ DOMAIN after.tables = 1..RoundOf(n)
                /\ \A i \in 1..RoundOf(n) :
                     after.tables[i].rows = Rows(i) /\ after.tables[i].groups = t.roundList[i]
<1> DEFINE r == RoundOf(n)
           size == Cardinality(NewRounds(s, t))
           old == s.tables
           new == [k \in 1..size |-> Table(t, (r - size) + k)]
           made == TablesMade(s, t)
           tables == TablesRefreshed(s, t)
<1>1. /\ n \in Nat /\ n >= 1 /\ CurrentRound(s, t) = r
      /\ n <= LastRound => RoundsLeft(t) = {n}
      /\ n > LastRound => RoundsLeft(t) = {}
  BY CurrentRoundIs
<1>2. /\ r \in 1..LastRound /\ r <= n /\ (n <= LastRound => r = n)
      /\ (n > LastRound => r = LastRound) /\ LastRound \in Nat
  BY <1>1, RoundOfFacts, RoundNumbers
<1>3. /\ old \in Seq(Tables) /\ (~s.initialized => old = << >>) /\ s.initialized \in BOOLEAN
      /\ Len(old) \in Nat /\ DOMAIN old = 1..Len(old)
  BY DEF ScreenInv
<1>4. t.roundList \in Seq(Seq(Group)) /\ DOMAIN t.roundList = 1..n
  BY DEF DocumentInv, Document
<1>5. \A i \in 1..LastRound : Matches(t)[i] = Rows(i)
  BY MatchesOf DEF DocumentInv
<1>6. r - size = Len(old) /\ size \in 0..r
  <2> HIDE DEF r, old
  <2>1. CASE ~s.initialized
    <3>1. NewRounds(s, t) = 1..r
      BY <1>1, <2>1 DEF NewRounds
    <3>2. Cardinality(1..r) = r
      <4>1. r \in Nat
        BY <1>2
      <4> QED
        BY <4>1, UpTo
    <3>3. Len(old) = 0
      BY <1>3, <2>1
    <3> QED
      BY <1>2, <3>1, <3>2, <3>3
  <2>2. CASE s.initialized /\ n <= LastRound
    <3>1. RoundsLeft(t) = {n} /\ r = n
      BY <1>1, <1>2, <2>2
    <3>2. NewRounds(s, t) = {r}
      BY <1>1, <2>2, <3>1 DEF NewRounds
    <3>3. size = 1
      BY <3>2, FS_Singleton
    <3>4. DOMAIN old = 1..(n - 1) /\ n > 1
      <4> DEFINE m == n - 1
      <4>1. m <= LastRound
        BY <1>1, <1>2, <2>2
      <4>2. n > 1 /\ DOMAIN old = 1..RoundOf(m)
        BY <2>2 DEF old
      <4> HIDE DEF m
      <4>3. RoundOf(m) = m
        BY <4>1 DEF RoundOf
      <4> QED
        BY <4>2, <4>3 DEF m
    <3>5. Len(old) = n - 1
      <4> DEFINE l == Len(old)
      <4>1. 1..l = 1..(n - 1) /\ l \in Nat /\ n - 1 \in Nat
        BY <1>1, <1>3, <3>4
      <4> HIDE DEF l
      <4>2. l = n - 1
        BY <4>1
      <4> QED
        BY <4>2 DEF l
    <3> QED
      BY <1>1, <1>2, <3>1, <3>3, <3>5
  <2>3. CASE s.initialized /\ n > LastRound
    <3>1. RoundsLeft(t) = {} /\ r = LastRound
      BY <1>1, <1>2, <2>3
    <3>2. NewRounds(s, t) = {}
      BY <2>3, <3>1 DEF NewRounds
    <3>3. size = 0
      BY <3>2, FS_EmptySet
    <3>4. DOMAIN old = 1..r
      <4> DEFINE m == n - 1
      <4>1. m >= LastRound /\ m \in Nat
        BY <1>1, <1>2, <2>3
      <4>2. n > 1 /\ DOMAIN old = 1..RoundOf(m)
        BY <2>3 DEF old
      <4> HIDE DEF m
      <4>3. RoundOf(m) = LastRound
        BY <1>2, <4>1 DEF RoundOf
      <4> QED
        BY <3>1, <4>2, <4>3
    <3>5. Len(old) = r
      <4> DEFINE l == Len(old)
      <4>1. 1..l = 1..r /\ l \in Nat
        BY <1>3, <3>4
      <4>3. r \in Nat
        BY <1>2
      <4> HIDE DEF l
      <4>2. l = r
        BY <4>1, <4>3
      <4> QED
        BY <4>2 DEF l
    <3> QED
      BY <1>2, <3>3, <3>5
  <2> QED
    BY <1>1, <1>2, <1>3, <2>1, <2>2, <2>3
<1>7. made = old \o new
  BY <1>1 DEF TablesMade
<1> HIDE DEF r, size, made
<1>8. ASSUME NEW k \in 1..size
      PROVE  LET i == (r - size) + k
             IN  /\ i \in 1..r /\ i > Len(old) /\ i - Len(old) = k /\ Table(t, i) \in Tables
                 /\ Table(t, i).rows = Rows(i) /\ Table(t, i).groups = t.roundList[i]
  <2> DEFINE i == (r - size) + k
  <2>1. i \in 1..r /\ i \in 1..LastRound /\ i \in 1..n /\ i > Len(old) /\ i - Len(old) = k
    BY <1>1, <1>2, <1>3, <1>6
  <2> HIDE DEF i
  <2>2. Matches(t)[i] = Rows(i) /\ Rows(i) \in Nat
    BY <1>5, <2>1, RowNumbers
  <2>3. t.roundList[i] \in Seq(Group)
    BY <1>4, <2>1
  <2> QED
    BY <2>1, <2>2, <2>3 DEF Table, Tables, i
<1>9. new \in Seq(Tables) /\ Len(new) = size /\ \A k \in 1..size : new[k] = Table(t, (r - size) + k)
  <2> DEFINE entry(k) == Table(t, (r - size) + k)
  <2>1. \A k \in 1..size : entry(k) \in Tables
    BY <1>8
  <2>2. size \in Nat
    BY <1>2, <1>6
  <2> HIDE DEF entry
  <2>3. [k \in 1..size |-> entry(k)] \in Seq(Tables)
        /\ Len([k \in 1..size |-> entry(k)]) = size
    BY <2>1, <2>2
  <2> QED
    BY <2>3 DEF entry
<1> HIDE DEF new, old
<1>10. /\ Len(old \o new) = Len(old) + Len(new) /\ old \o new \in Seq(Tables)
       /\ \A i \in 1..Len(old) : (old \o new)[i] = old[i]
       /\ \A i \in 1..Len(old) + Len(new) : i > Len(old) => (old \o new)[i] = new[i - Len(old)]
  <2> DEFINE T == Tables
  <2>1. old \in Seq(T) /\ new \in Seq(T)
    BY <1>3, <1>9
  <2>2. old \o new \in Seq(T)
    <3> HIDE DEF T
    <3> QED
      BY <2>1, Joined
  <2> HIDE DEF T
  <2>3. Len(old \o new) = Len(old) + Len(new)
    BY <2>1, Joined
  <2>4. \A i \in 1..Len(old) : (old \o new)[i] = old[i]
    BY <2>1, Joined
  <2>5. \A i \in 1..Len(old) + Len(new) : i > Len(old) => (old \o new)[i] = new[i - Len(old)]
    BY <2>1, Joined
  <2> QED
    BY <2>2, <2>3, <2>4, <2>5 DEF T
<1>11. Len(made) = r /\ DOMAIN made = 1..r /\ made \in Seq(Tables)
  BY <1>2, <1>3, <1>6, <1>7, <1>9, <1>10
<1>12. ASSUME NEW i \in 1..r
       PROVE  /\ made[i] \in Tables /\ made[i].rows = Rows(i)
              /\ ~s.initialized => made[i].groups = t.roundList[i]
  <2>1. CASE i <= Len(old)
    <3>1. i \in DOMAIN old /\ i \in 1..Len(old)
      BY <1>2, <1>3, <2>1
    <3>2. s.initialized
      BY <1>3, <3>1
    <3>3. made[i] = old[i] /\ old[i].rows = Rows(i)
      BY <1>7, <1>10, <3>1, <3>2 DEF old
    <3> QED
      BY <1>3, <3>1, <3>2, <3>3
  <2>2. CASE i > Len(old)
    <3> DEFINE k == i - Len(old)
    <3>1. k \in 1..size /\ i = (r - size) + k /\ i \in 1..Len(old) + Len(new)
      BY <1>2, <1>3, <1>6, <1>9, <2>2
    <3>2. made[i] = new[k]
      BY <1>7, <1>10, <2>2, <3>1
    <3> HIDE DEF k
    <3>3. new[k] = Table(t, i)
      BY <1>9, <3>1
    <3> QED
      BY <1>8, <3>1, <3>2, <3>3
  <2> QED
    BY <1>2, <1>3, <2>1, <2>2
<1>13. ASSUME NEW i \in 1..r
       PROVE  tables[i].rows = Rows(i) /\ tables[i].groups = t.roundList[i]
  <2>1. tables[i] = IF s.initialized /\ i <= r THEN [made[i] EXCEPT !.groups = t.roundList[i]]
                                               ELSE made[i]
    BY <1>1, <1>11 DEF TablesRefreshed, made
  <2>2. i <= r
    BY <1>2
  <2>3. CASE s.initialized
    <3>1. tables[i] = [made[i] EXCEPT !.groups = t.roundList[i]]
      BY <2>1, <2>2, <2>3
    <3> HIDE DEF tables
    <3> QED
      BY <1>12, <3>1 DEF Tables
  <2>4. CASE ~s.initialized
    BY <1>12, <2>1, <2>4
  <2> QED
    BY <1>3, <2>3, <2>4
<1>14. DOMAIN tables = 1..r
  BY <1>11 DEF TablesRefreshed, made
<1>15. ~Traps(s, t)
  <2>1. \A i \in DOMAIN tables : ~(tables[i].rows > Len(tables[i].groups))
    <3> SUFFICES ASSUME NEW i \in 1..r
                 PROVE  ~(Rows(i) > Len(t.roundList[i]))
      BY <1>13, <1>14
    <3>1. i \in 1..LastRound /\ i \in DOMAIN t.roundList
      BY <1>1, <1>2, <1>4
    <3>2. Len(t.roundList[i]) = Seats(i) /\ Seats(i) = 2 * Rows(i) /\ Rows(i) \in Nat
      BY <3>1, RowNumbers DEF StoredInv, ListsFit
    <3> QED
      BY <3>2
  <2>2. ~(r > n) /\ ~(r > Len(made))
    BY <1>1, <1>2, <1>11
  <2> QED
    BY <1>1, <2>1, <2>2 DEF Traps, made
<1>16. AfterSnapshot(s, t) = [initialized |-> TRUE, tournament |-> t, currRound |-> r, tables |-> tables]
  BY <1>1 DEF AfterSnapshot
<1> HIDE DEF tables
<1> QED
  BY <1>13, <1>14, <1>15, <1>16 DEF r

\* Every row of a round fits on the screen.
LEMMA AllRowsFit ==
  ASSUME FieldFits, NEW r \in 1..LastRound, NEW table, table.rows = Rows(r)
  PROVE  TopRows(table) = 1..Rows(r)
<1>1. Rows(r) \in Nat /\ 2 * Rows(r) <= Len(Created.groups)
  BY RowNumbers
<1>2. Len(Created.groups) <= 2 * VisibleRows /\ VisibleRows \in Nat
  BY BoundsAssumption DEF FieldFits
<1>3. Len(Created.groups) \in Nat
  BY CreatedFacts DEF DocumentInv, Document
<1>4. Rows(r) <= VisibleRows
  BY <1>1, <1>2, <1>3
<1> QED
  BY <1>1, <1>2, <1>4 DEF TopRows

\* When every cell is flagged and none waits for reuse, every cell is taken
\* again, whatever the order UIKit takes them in.
LEMMA AllCellsFlagged ==
  ASSUME IsFiniteSet(DOMAIN shown), pool = EmptyPool,
         \A row \in DOMAIN shown : shown[row].winnerSelected = TRUE,
         NEW table, ReusedCells(table)
  PROVE  /\ shown' = [row \in DOMAIN shown |-> SetMatchup(TRUE, table, row)]
         /\ pool' = EmptyPool
<1> DEFINE before == [row \in DOMAIN shown |-> shown[row].winnerSelected]
           available == [flag \in BOOLEAN |-> pool[flag] + CellsWith(flag, before)]
           rows == DOMAIN shown
<1>1. PICK flags \in [rows -> BOOLEAN] :
         /\ \A flag \in BOOLEAN : CellsWith(flag, flags) <= available[flag]
         /\ shown' = [row \in rows |-> SetMatchup(flags[row], table, row)]
         /\ pool' = [flag \in BOOLEAN |-> available[flag] - CellsWith(flag, flags)]
  BY DEF ReusedCells
<1>2. DOMAIN before = rows /\ \A row \in rows : before[row] = TRUE
  OBVIOUS
<1>3. pool[TRUE] = 0 /\ pool[FALSE] = 0
  BY DEF EmptyPool
<1>4. available[TRUE] = CellsWith(TRUE, before) /\ available[FALSE] = CellsWith(FALSE, before)
  <2> HIDE DEF before
  <2>1. CellsWith(TRUE, before) \in Nat /\ CellsWith(FALSE, before) \in Nat
    BY <1>2, CellsWithType
  <2>2. available[TRUE] = pool[TRUE] + CellsWith(TRUE, before)
    OBVIOUS
  <2>3. available[FALSE] = pool[FALSE] + CellsWith(FALSE, before)
    OBVIOUS
  <2> DEFINE n == CellsWith(TRUE, before)
             m == CellsWith(FALSE, before)
  <2>4. available[TRUE] = 0 + n /\ available[FALSE] = 0 + m
    BY <1>3, <2>2, <2>3, Zenon
  <2>5. n \in Nat /\ m \in Nat
    BY <2>1
  <2> HIDE DEF n, m, available
  <2>6. 0 + n = n /\ 0 + m = m
    BY <2>5
  <2>7. available[TRUE] = n /\ available[FALSE] = m
    BY <2>4, <2>6, Zenon
  <2> QED
    BY <2>7 DEF n, m
<1> HIDE DEF before, available, rows
<1>5. CellsWith(FALSE, before) = 0
  <2>1. {row \in DOMAIN before : before[row] = FALSE} = {}
    BY <1>2
  <2> QED
    BY <2>1, FS_EmptySet DEF CellsWith
<1>6. flags = [row \in rows |-> TRUE]
  <2> DEFINE unflagged == {row \in DOMAIN flags : flags[row] = FALSE}
  <2>1. CellsWith(FALSE, flags) <= 0
    BY <1>1, <1>4, <1>5
  <2>2. IsFiniteSet(unflagged)
    <3>1. unflagged \in SUBSET rows /\ IsFiniteSet(rows)
      BY DEF rows
    <3> HIDE DEF unflagged
    <3> QED
      BY <3>1, FS_Subset
  <2>3. Cardinality(unflagged) = 0
    <3>1. Cardinality(unflagged) \in Nat
      <4> HIDE DEF unflagged
      <4> QED
        BY <2>2, FS_CardinalityType
    <3>2. CellsWith(FALSE, flags) = Cardinality(unflagged)
      BY DEF CellsWith
    <3> DEFINE n == Cardinality(unflagged)
    <3>3. n <= 0
      BY <2>1, <3>2, Zenon
    <3>4. n \in Nat
      BY <3>1
    <3> HIDE DEF n
    <3>5. n = 0
      BY <3>3, <3>4
    <3> QED
      BY <3>5 DEF n
  <2>4. unflagged = {}
    <3> HIDE DEF unflagged
    <3> QED
      BY <2>2, <2>3, FS_EmptySet
  <2> QED
    BY <2>4
<1>7. shown' = [row \in rows |-> SetMatchup(TRUE, table, row)]
  BY <1>1, <1>6
<1>8. CellsWith(TRUE, flags) = CellsWith(TRUE, before) /\ CellsWith(FALSE, flags) = CellsWith(FALSE, before)
  <2>1. before = flags
    BY <1>6 DEF before, rows
  <2> QED
    BY <2>1
<1>9. pool' = EmptyPool
  <2>1. IsFiniteSet(DOMAIN before)
    BY <1>2 DEF rows
  <2>2. CellsWith(TRUE, before) \in Nat
    BY <2>1, CellsWithType
  <2> DEFINE n == CellsWith(TRUE, before)
  <2>3. n \in Nat
    BY <2>2
  <2>4. /\ available[TRUE] - CellsWith(TRUE, flags) = n - n
        /\ available[FALSE] - CellsWith(FALSE, flags) = 0 - 0
    BY <1>4, <1>5, <1>8, Zenon
  <2> HIDE DEF n
  <2>5. n - n = 0 /\ 0 - 0 = 0
    BY <2>3
  <2>6. available[TRUE] - CellsWith(TRUE, flags) = 0 /\ available[FALSE] - CellsWith(FALSE, flags) = 0
    BY <2>4, <2>5, Zenon
  <2> QED
    BY <1>1, <2>6 DEF EmptyPool
<1> QED
  BY <1>7, <1>9 DEF rows

\* The snapshot that is waiting is of the latest version, and the screen shows
\* nothing or the rounds before that version's last list.
LEMMA SnapshotWaits ==
  ASSUME IInv, OInv, snapshots # << >>, phase = "open"
  PROVE  /\ snapshots = <<LocalDocument>>
         /\ screen.initialized =>
              /\ ShownInv /\ EndedInv
              /\ Len(LocalDocument.roundList) > 1
              /\ screen.currRound = RoundOf(Len(LocalDocument.roundList) - 1)
              /\ DOMAIN screen.tables = 1..RoundOf(Len(LocalDocument.roundList) - 1)
              /\ \A i \in DOMAIN screen.tables : screen.tables[i].rows = Rows(i)
<1>1. CASE screen.initialized
  BY <1>1 DEF OInv, ShownInv, BracketInv, EndedInv
<1>2. CASE ~screen.initialized
  BY <1>2 DEF OInv, BlankInv
<1>3. screen.initialized \in BOOLEAN
  BY DEF IInv, ScreenInv
<1> QED
  BY <1>1, <1>2, <1>3

LEMMA SnapshotOrderly ==
  ASSUME FieldFits, IInv, OInv, Snapshot
  PROVE  OInv'
<1> DEFINE d == LocalDocument
           n == Len(d.roundList)
           r == RoundOf(n)
           list == d.roundList[r]
<1>1. /\ snapshots # << >> /\ phase = "open" /\ snapshots' = Tail(snapshots)
      /\ UNCHANGED <<server, unsent, winnerSelectedCount, alert>>
  BY DEF Snapshot, network
<1>2. /\ snapshots = <<d>>
      /\ screen.initialized =>
           /\ ShownInv /\ EndedInv /\ n > 1
           /\ screen.currRound = RoundOf(n - 1)
           /\ DOMAIN screen.tables = 1..RoundOf(n - 1)
           /\ \A i \in DOMAIN screen.tables : screen.tables[i].rows = Rows(i)
  BY <1>1, SnapshotWaits
<1>3. snapshots' = << >> /\ Head(snapshots) = d
  BY <1>1, <1>2
<1>4. NetworkInv /\ ClientInv /\ StoredInv(d) /\ DocumentInv(d) /\ ScreenInv(screen)
  BY LocalStored DEF IInv, OInv
<1>5. ClientInv' /\ LocalDocument' = d
  BY <1>1, <1>4 DEF ClientInv, LocalDocument
<1>6. winnerSelectedCount = 0 /\ ~alert /\ screen.initialized \in BOOLEAN
  BY <1>2, <1>4 DEF OInv, EndedInv, BlankInv, ScreenInv
<1>7. n \in Nat /\ n >= 1
  BY <1>4, CurrentRoundIs
<1>8. /\ r \in 1..LastRound /\ r <= n /\ LastRound \in Nat
      /\ (n <= LastRound => r = n) /\ (n > LastRound => r = LastRound)
  <2> HIDE DEF n
  <2> QED
    BY <1>7, RoundOfFacts, RoundNumbers
<1> DEFINE after == AfterSnapshot(screen, d)
<1>9. /\ ~Traps(screen, d)
      /\ after.initialized /\ after.tournament = d /\ after.currRound = r
      /\ DOMAIN after.tables = 1..r
      /\ \A i \in 1..r : after.tables[i].rows = Rows(i) /\ after.tables[i].groups = d.roundList[i]
  <2> DEFINE s == screen
             t == d
  <2>1. /\ ScreenInv(s) /\ StoredInv(t) /\ DocumentInv(t) /\ n = Len(t.roundList)
        /\ s.initialized =>
             n > 1 /\ DOMAIN s.tables = 1..RoundOf(n - 1)
             /\ \A i \in DOMAIN s.tables : s.tables[i].rows = Rows(i)
    BY <1>2, <1>4
  <2> HIDE DEF s, t, n
  <2>2. ~Traps(s, t)
    BY <2>1, TablesAfter
  <2>3. /\ AfterSnapshot(s, t).initialized /\ AfterSnapshot(s, t).tournament = t
        /\ AfterSnapshot(s, t).currRound = RoundOf(n)
        /\ DOMAIN AfterSnapshot(s, t).tables = 1..RoundOf(n)
        /\ \A i \in 1..RoundOf(n) :
             /\ AfterSnapshot(s, t).tables[i].rows = Rows(i)
             /\ AfterSnapshot(s, t).tables[i].groups = t.roundList[i]
    BY <2>1, TablesAfter
  <2> QED
    BY <2>2, <2>3 DEF s, t
<1>10. screen' = after /\ Reload /\ phase' = "open"
  <2> HIDE DEF d
  <2> QED
    BY <1>1, <1>3, <1>9 DEF Snapshot
<1> HIDE DEF after
<1> DEFINE table == CurrentTable(screen')
<1>11. /\ screen'.initialized /\ screen'.tournament = d /\ screen'.currRound = r
       /\ DOMAIN screen'.tables = 1..r /\ \A i \in 1..r : screen'.tables[i].rows = Rows(i)
       /\ HasTable(screen') /\ table.rows = Rows(r) /\ table.groups = list
       /\ Playing' = list
  <2> HIDE DEF r
  <2>1. r \in 1..r
    BY <1>8
  <2> QED
    BY <1>9, <1>10, <2>1 DEF HasTable, CurrentTable, Playing
<1>12. /\ Len(list) = Seats(r) /\ Seated(list)
       /\ NamesOf(d.winners) \subseteq NamesOf(list)
       /\ Ribbons(list, NamesOf(d.winners))
       /\ n <= LastRound => NoRibbons(list)
       /\ n > LastRound => \A row \in 1..Rows(r) : RowDecided(list, row)
  <2> DEFINE m == n
  <2>1. m = Len(d.roundList)
    OBVIOUS
  <2> HIDE DEF m, d
  <2> QED
    BY <1>4, <2>1, StoredShows DEF m
<1>13. Rows(r) \in Nat /\ Rows(r) >= 1 /\ Len(list) = 2 * Rows(r) /\ list \in Seq(Group)
  <2>1. Rows(r) \in Nat /\ Rows(r) >= 1 /\ Seats(r) = 2 * Rows(r)
    BY <1>8, RowNumbers
  <2>2. d.roundList \in Seq(Seq(Group)) /\ r \in DOMAIN d.roundList
    BY <1>4, <1>7, <1>8 DEF DocumentInv, Document
  <2> QED
    BY <1>12, <2>1, <2>2
<1> HIDE DEF r, list, table
<1>14. BracketInv'
  <2>1. NamesOf(screen'.tournament.winners) = NamesOf(d.winners)
    BY <1>11
  <2> HIDE DEF d, n
  <2> QED
    BY <1>8, <1>11, <1>12, <2>1 DEF BracketInv, Seats, Rows, LastRound, Rounds, Created
<1>15. \A row \in 1..Rows(r) :
         /\ row \in DOMAIN list /\ Len(list) + 1 - row \in DOMAIN list
         /\ First(table, row) = list[row] /\ Second(table, row) = list[Len(list) + 1 - row]
  BY <1>11, <1>13 DEF First, Second
\* The cells: all new and unflagged, or of the final's table and all flagged.
<1> DEFINE CellsFilled ==
             /\ DOMAIN shown' = 1..Rows(r) /\ pool' = EmptyPool
             /\ \A row \in 1..Rows(r) :
                  /\ shown'[row].group1 = list[row]
                  /\ shown'[row].group2 = list[Len(list) + 1 - row]
                  /\ shown'[row].winnerSelected => RowDecided(list, row)
             /\ \/ \A row \in 1..Rows(r) : ~shown'[row].winnerSelected
                \/ n > LastRound /\ \A row \in 1..Rows(r) : shown'[row].winnerSelected
<1>16. CellsFilled
  <2>1. ASSUME NewCells(table)
        PROVE  /\ DOMAIN shown' = 1..Rows(r) /\ pool' = EmptyPool
               /\ \A row \in 1..Rows(r) : shown'[row] = SetMatchup(FALSE, table, row)
    <3>1. TopRows(table) = 1..Rows(r)
      BY <1>8, <1>11, AllRowsFit
    <3> QED
      BY <2>1, <3>1 DEF NewCells
  <2>2. ASSUME NEW flag, NEW row \in 1..Rows(r)
        PROVE  /\ SetMatchup(flag, table, row).group1 = list[row]
               /\ SetMatchup(flag, table, row).group2 = list[Len(list) + 1 - row]
               /\ SetMatchup(flag, table, row).winnerSelected
                    = (flag /\ (list[row].status \/ list[Len(list) + 1 - row].status))
    BY <1>15 DEF SetMatchup
  <2>3. ASSUME NewCells(table)
        PROVE  CellsFilled
    <3>1. \A row \in 1..Rows(r) : ~SetMatchup(FALSE, table, row).winnerSelected
      BY <2>2
    <3> QED
      <4>1. DOMAIN shown' = 1..Rows(r) /\ pool' = EmptyPool
        BY <2>1, <2>3
      <4>2. ASSUME NEW row \in 1..Rows(r)
            PROVE  /\ shown'[row].group1 = list[row]
                   /\ shown'[row].group2 = list[Len(list) + 1 - row]
                   /\ ~shown'[row].winnerSelected
        <5>1. shown'[row] = SetMatchup(FALSE, table, row)
          BY <2>1, <2>3
        <5> QED
          <6>1. /\ SetMatchup(FALSE, table, row).group1 = list[row]
                /\ SetMatchup(FALSE, table, row).group2 = list[Len(list) + 1 - row]
            BY <2>2
          <6>2. ~SetMatchup(FALSE, table, row).winnerSelected
            BY <3>1
          <6> QED
            BY <5>1, <6>1, <6>2
      <4> QED
        BY <4>1, <4>2
  <2>4. CASE ~screen.initialized
    <3>1. screen.tables = << >> /\ screen.currRound = 0
      BY <1>4, <2>4 DEF ScreenInv
    <3>2. screen.currRound # screen'.currRound
      BY <1>8, <1>11, <3>1
    <3>3. ~HasTable([screen EXCEPT !.currRound = screen'.currRound])
      BY <1>4, <3>1 DEF HasTable, ScreenInv
    <3>4. NewCells(table)
      BY <1>10, <1>11, <3>2, <3>3 DEF Reload, table
    <3> QED
      BY <2>3, <3>4
  <2>5. CASE screen.initialized /\ n <= LastRound
    <3>1. r = n /\ screen.currRound = n - 1 /\ DOMAIN screen.tables = 1..(n - 1)
      <4> DEFINE m == n - 1
      <4>1. m <= LastRound
        BY <1>7, <1>8, <2>5
      <4>2. screen.currRound = RoundOf(m) /\ DOMAIN screen.tables = 1..RoundOf(m) /\ r = n
        BY <1>2, <1>8, <2>5
      <4> HIDE DEF m
      <4>3. RoundOf(m) = m
        BY <4>1 DEF RoundOf
      <4> QED
        BY <4>2, <4>3 DEF m
    <3>2. screen.currRound # screen'.currRound /\ screen'.currRound \notin DOMAIN screen.tables
      <4> HIDE DEF n
      <4> QED
        BY <1>7, <1>11, <3>1
    <3>3. ~HasTable([screen EXCEPT !.currRound = screen'.currRound])
      BY <1>4, <3>2 DEF HasTable, ScreenInv
    <3>4. NewCells(table)
      BY <1>10, <1>11, <3>2, <3>3 DEF Reload, table
    <3> QED
      BY <2>3, <3>4
  <2>6. CASE screen.initialized /\ n > LastRound
    <3>1. screen.currRound = r /\ r = LastRound
      <4> DEFINE m == n - 1
      <4>1. m >= LastRound /\ m \in Nat
        BY <1>7, <1>8, <2>6
      <4>2. screen.currRound = RoundOf(m) /\ r = LastRound
        BY <1>2, <1>8, <2>6
      <4> HIDE DEF m
      <4>3. RoundOf(m) = LastRound
        BY <1>8, <4>1 DEF RoundOf
      <4> QED
        BY <4>2, <4>3
    <3>2. ReusedCells(table)
      BY <1>10, <1>11, <3>1 DEF Reload, table
    <3>3. VisibleInv /\ Flagged = DOMAIN shown
      BY <1>2, <2>6 DEF ShownInv, EndedInv
    <3>4. DOMAIN shown = 1..Rows(r) /\ pool = EmptyPool
      BY <3>1, <3>3 DEF VisibleInv
    <3>5. IsFiniteSet(DOMAIN shown)
      BY <1>13, <3>4, UpTo
    <3>6. \A row \in DOMAIN shown : shown[row].winnerSelected = TRUE
      <4> SUFFICES ASSUME NEW row \in DOMAIN shown
                   PROVE  shown[row].winnerSelected = TRUE
        OBVIOUS
      <4>1. shown[row].winnerSelected
        BY <3>3 DEF Flagged
      <4>2. shown[row].winnerSelected \in BOOLEAN
        BY DEF IInv, CellsInv, CellInv, Cell
      <4> QED
        BY <4>1, <4>2
    <3>7. shown' = [row \in DOMAIN shown |-> SetMatchup(TRUE, table, row)] /\ pool' = EmptyPool
      BY <3>2, <3>4, <3>5, <3>6, AllCellsFlagged
    <3>8. DOMAIN shown' = 1..Rows(r) /\ \A row \in 1..Rows(r) : shown'[row] = SetMatchup(TRUE, table, row)
      BY <3>4, <3>7
    <3>9. \A row \in 1..Rows(r) : RowDecided(list, row) /\ SetMatchup(TRUE, table, row).winnerSelected
      BY <1>12, <2>2, <2>6 DEF RowDecided
    <3> QED
      BY <2>2, <2>6, <3>7, <3>8, <3>9
  <2> QED
    BY <1>6, <1>7, <1>8, <2>4, <2>5, <2>6
<1>17. VisibleInv'
  BY <1>11, <1>16 DEF VisibleInv, RowDecided, Rows, LastRound, Rounds, Created
<1>18. PlayingInv'
  <2>1. \/ Flagged' = {}
        \/ n > LastRound /\ Flagged' = DOMAIN shown'
    BY <1>16 DEF Flagged
  <2>2. n <= LastRound =>
          /\ NoRibbons(d.winners)
          /\ \A row \in DOMAIN shown' : ~shown'[row].group1.status /\ ~shown'[row].group2.status
    <3> SUFFICES ASSUME n <= LastRound
                 PROVE  /\ NoRibbons(d.winners)
                        /\ \A row \in 1..Rows(r) :
                             ~list[row].status /\ ~list[Len(list) + 1 - row].status
      BY <1>16
    <3>1. NoRibbons(d.winners)
      BY <1>4 DEF StoredInv
    <3> QED
      BY <1>12, <1>15, <3>1 DEF NoRibbons
  <2>3. \/ /\ winnerSelectedCount' = Cardinality(Flagged')
           /\ alert' = (winnerSelectedCount' = Rows(r))
        \/ n > LastRound /\ Flagged' = DOMAIN shown' /\ winnerSelectedCount' = 0 /\ ~alert'
    <3>1. CASE Flagged' = {}
      <4>1. Cardinality(Flagged') = 0
        BY <3>1, FS_EmptySet
      <4>2. alert \in BOOLEAN
        BY DEF IInv, AlertInv
      <4> QED
        BY <1>1, <1>6, <1>13, <4>1, <4>2
    <3>2. CASE n > LastRound /\ Flagged' = DOMAIN shown'
      BY <1>1, <1>6, <3>2
    <3> QED
      BY <2>1, <3>1, <3>2
  <2>4. /\ screen'.currRound = RoundOf(n) /\ screen'.tournament.roundList = d.roundList
        /\ d.roundList[r] = Playing'
    BY <1>11 DEF r, list
  <2> HIDE DEF d
  <2> QED
    BY <1>5, <1>11, <2>2, <2>3, <2>4 DEF PlayingInv, RoundOf, LastRound, Rounds, Created, Rows
<1> QED
  BY <1>3, <1>5, <1>10, <1>11, <1>14, <1>17, <1>18 DEF OInv, ShownInv
-----------------------------------------------------------------------------
(* Every step of a host who never answers "No".                              *)

\* There is nothing to scroll to.
LEMMA NoScroll ==
  ASSUME IInv, OInv, Scroll
  PROVE  FALSE
<1>1. HasTable(screen)
  BY DEF Scroll
<1>2. screen.initialized
  BY <1>1 DEF IInv, ScreenInv, HasTable
<1> DEFINE rows == Rows(screen.currRound)
<1>3. /\ DOMAIN shown = 1..rows /\ CurrentTable(screen).rows = rows
      /\ rows \in Nat /\ rows >= 1
  BY <1>2, PlayingFacts DEF ShownInv, VisibleInv
<1>4. PICK top \in DOMAIN shown, bottom \in DOMAIN shown :
        DOMAIN shown = top..bottom /\ (bottom < CurrentTable(screen).rows \/ top > 1)
  BY DEF Scroll
<1> HIDE DEF rows
<1>5. top \in 1..rows /\ bottom \in 1..rows /\ 1..rows = top..bottom /\ (bottom < rows \/ top > 1)
  BY <1>3, <1>4
<1>6. 1 \in 1..rows /\ rows \in 1..rows
  BY <1>3
<1>7. 1 \in top..bottom /\ rows \in top..bottom
  BY <1>5, <1>6
<1> QED
  BY <1>3, <1>5, <1>7

LEMMA StaysOrderly ==
  ASSUME OInv, UNCHANGED vars
  PROVE  OInv'
<1>1. UNCHANGED <<server, unsent, snapshots, phase, screen, shown, pool, winnerSelectedCount, alert>>
  BY DEF vars
<1>2. ClientInv' /\ LocalDocument' = LocalDocument
  BY <1>1 DEF OInv, ClientInv, LocalDocument
<1>3. ShownInv => ShownInv'
  BY <1>1, <1>2 DEF ShownInv, BracketInv, VisibleInv, PlayingInv, EndedInv, Playing, Flagged,
     CurrentTable
<1>4. BlankInv => BlankInv'
  BY <1>1, <1>2 DEF BlankInv
<1> QED
  BY <1>1, <1>2, <1>3, <1>4 DEF OInv

LEMMA StepOrderly ==
  ASSUME FieldFits, IInv, OInv, [Next /\ ~ReturnToCurrentRound]_vars
  PROVE  IInv' /\ OInv'
<1>1. IInv'
  BY StepInv
<1>2. CASE UNCHANGED vars
  BY <1>1, <1>2, StaysOrderly
<1>3. CASE Next /\ ~ReturnToCurrentRound
  <2>1. CASE Open
    BY <1>1, <2>1, OpenOrderly
  <2>2. CASE Close
    BY <1>1, <2>2, CloseOrderly
  <2>3. CASE Snapshot
    BY <1>1, <2>3, SnapshotOrderly
  <2>4. CASE Scroll
    BY <2>4, NoScroll
  <2>5. CASE Press
    BY <1>1, <2>5, PressOrderly
  <2>6. CASE NextRound
    BY <1>1, <2>6, NextRoundOrderly
  <2>7. CASE Commit
    BY <1>1, <2>7, CommitOrderly
  <2> QED
    BY <1>3, <2>1, <2>2, <2>3, <2>4, <2>5, <2>6, <2>7 DEF Next
<1> QED
  BY <1>2, <1>3

LEMMA OrderlyAlways ==
  ASSUME FieldFits
  PROVE  SpecWithoutNo => [](IInv /\ OInv)
<1>1. Init => IInv /\ OInv
  BY InitInv, InitOrderly
<1>2. IInv /\ OInv /\ [Next /\ ~ReturnToCurrentRound]_vars => (IInv /\ OInv)'
  BY StepOrderly
<1> QED
  BY <1>1, <1>2, PTL DEF SpecWithoutNo

\* NeverTraps: no snapshot makes the host's screen index past the end of an
\* array.
THEOREM OrderlyHostNeverTraps ==
  ASSUME FieldFits
  PROVE  SpecWithoutNo => []NeverTraps
<1>1. IInv /\ OInv => NeverTraps
  BY DEF OInv, NeverTraps
<1> QED
  BY <1>1, OrderlyAlways, PTL

LEMMA OrderlyAlert ==
  ASSUME IInv, OInv
  PROVE  AlertMeansRoundDecided
<1> SUFFICES ASSUME alert, NEW row \in 1..CurrentTable(screen).rows
             PROVE  \/ First(CurrentTable(screen), row).status
                    \/ Second(CurrentTable(screen), row).status
  BY DEF AlertMeansRoundDecided
<1>1. screen.initialized /\ \A i \in 1..Rows(screen.currRound) : RowDecided(Playing, i)
  BY AlertFacts
<1>2. CurrentTable(screen).rows = Rows(screen.currRound)
  BY <1>1, PlayingFacts
<1>3. RowDecided(Playing, row)
  BY <1>1, <1>2
<1> QED
  BY <1>3 DEF RowDecided, Playing, First, Second

\* AlertMeansRoundDecided: the "Complete round" alert only comes up when every
\* matchup of the round has a winner.
THEOREM AlertOnlyWhenDecided ==
  ASSUME FieldFits
  PROVE  SpecWithoutNo => []AlertMeansRoundDecided
<1>1. IInv /\ OInv => AlertMeansRoundDecided
  BY OrderlyAlert
<1> QED
  BY <1>1, OrderlyAlways, PTL

LEMMA OrderlyRibbons ==
  ASSUME IInv, OInv
  PROVE  RibbonsAgree
<1> DEFINE table == CurrentTable(screen)
           names == NamesOf(screen.tournament.winners)
<1> SUFFICES ASSUME HasTable(screen), NEW row \in 1..table.rows
             PROVE  LET one == First(table, row)
                        two == Second(table, row)
                    IN /\ ~(one.status /\ two.status)
                       /\ one.status => one.name \in names /\ two.name \notin names
                       /\ two.status => two.name \in names /\ one.name \notin names
                       /\ ~one.status /\ ~two.status =>
                            one.name \in names /\ (two.name \in names \/ two.name = Free)
  BY DEF RibbonsAgree
<1>1. screen.initialized
  BY DEF IInv, ScreenInv, HasTable
<1>2. ShownInv /\ table.rows = Rows(screen.currRound) /\ Len(Playing) \div 2 = Rows(screen.currRound)
  BY <1>1, PlayingFacts
<1>3. Ribbons(Playing, names)
  BY <1>2 DEF ShownInv, BracketInv
<1>4. row \in 1..(Len(Playing) \div 2)
  BY <1>2
<1>5. First(table, row) = Playing[row] /\ Second(table, row) = Playing[Len(Playing) + 1 - row]
  BY DEF First, Second, Playing
<1> HIDE DEF table, names
<1> QED
  BY <1>3, <1>4, <1>5 DEF Ribbons

\* RibbonsAgree: in every matchup on the screen the group with the ribbon is a
\* winner and its opponent is not, and without a ribbon both still are.
THEOREM RibbonsTellWhoIsIn ==
  ASSUME FieldFits
  PROVE  SpecWithoutNo => []RibbonsAgree
<1>1. IInv /\ OInv => RibbonsAgree
  BY OrderlyRibbons
<1> QED
  BY <1>1, OrderlyAlways, PTL

LEMMA OrderlyHistory ==
  ASSUME OInv
  PROVE  StoredRoundsPlayedOff
<1>1. RoundsPlayed(server.roundList)
  BY DEF OInv, ClientInv, StoredInv
<1> QED
  BY <1>1 DEF RoundsPlayed, StoredRoundsPlayedOff, LastRound

\* StoredRoundsPlayedOff: in the database each list of roundList was played off,
\* matchup by matchup, to give the next.
THEOREM StoredHistoryIsPlayedOff ==
  ASSUME FieldFits
  PROVE  SpecWithoutNo => []StoredRoundsPlayedOff
<1>1. IInv /\ OInv => StoredRoundsPlayedOff
  BY OrderlyHistory
<1> QED
  BY <1>1, OrderlyAlways, PTL
-----------------------------------------------------------------------------
(* The database implements Knockout.                                         *)

\* A list that names nobody twice and no FREE group has as many names as seats.
LEMMA NamesCount ==
  ASSUME NEW list \in Seq(Group), Once(list), Free \notin NamesOf(list)
  PROVE  Cardinality(NamesOf(list)) = Len(list)
<1> DEFINE n == Len(list)
           name == [i \in 1..n |-> list[i].name]
           names == NamesOf(list)
<1>1. n \in Nat /\ DOMAIN list = 1..n
  OBVIOUS
<1>2. \A i, j \in 1..n : list[i].name = list[j].name => i = j
  BY <1>1 DEF Once, NamesOf
<1>3. name \in Bijection(1..n, names)
  <2>1. name \in [1..n -> names]
    BY <1>1 DEF NamesOf
  <2>2. \A x \in names : \E i \in 1..n : name[i] = x
    BY <1>1 DEF NamesOf
  <2>3. \A i, j \in 1..n : name[i] = name[j] => i = j
    BY <1>2
  <2> HIDE DEF name, names
  <2> QED
    BY <2>1, <2>2, <2>3 DEF Bijection, Injection, Surjection, IsInjective
<1> HIDE DEF name, names, n
<1>4. IsFiniteSet(1..n) /\ Cardinality(1..n) = n
  BY <1>1, UpTo
<1>5. Cardinality(names) = n
  BY <1>3, <1>4, FS_Bijection DEF ExistsBijection
<1> QED
  BY <1>5 DEF n, names

\* Knockout takes its Cardinality from its own instance of FiniteSets.
LEMMA KnockoutCardinality ==
  ASSUME NEW S
  PROVE  Public!Cardinality(S) = Cardinality(S)
BY DEF Public!Cardinality, Cardinality

\* One more list is one more step of the knockout.
LEMMA OneListMoreIsAStep ==
  ASSUME IInv, OInv, Commit
  PROVE  Public!KNext
<1> DEFINE old == server.roundList
           new == server'.roundList
           n == Len(old)
           history == [k \in DOMAIN old |-> NamesOf(old[k])]
           historyNext == [k \in DOMAIN new |-> NamesOf(new[k])]
<1>1. /\ NetworkInv /\ ClientInv
      /\ unsent \in Seq(Document) /\ unsent # << >> /\ server' = Head(unsent)
  BY DEF Commit, IInv, OInv, NetworkInv
<1>2. server' = unsent[1] /\ 1 \in DOMAIN unsent
  BY <1>1
<1>3. /\ StoredInv(server) /\ DocumentInv(server)
      /\ StoredInv(server') /\ DocumentInv(server') /\ OneListMore(old, new)
  BY <1>1, <1>2 DEF ClientInv, NetworkInv
<1>4. /\ old \in Seq(Seq(Group)) /\ new \in Seq(Seq(Group))
      /\ n \in Nat /\ n >= 1 /\ Len(new) = n + 1
      /\ DOMAIN old = 1..n /\ DOMAIN new = 1..(n + 1)
      /\ \A k \in 1..n : NamesOf(new[k]) = NamesOf(old[k])
  BY <1>3 DEF StoredInv, DocumentInv, Document, OneListMore
<1>5. ListsFit(old) /\ ListsFit(new)
  BY <1>3 DEF StoredInv
<1> DEFINE last == new[n + 1]
<1>6. /\ last \in Seq(Group) /\ n + 1 \in DOMAIN new /\ n + 1 > 1
      /\ Len(last) = Seats(n + 1) /\ Seated(last)
      /\ Free \notin NamesOf(last)
      /\ NamesOf(last) \subseteq NamesOf(old[RoundOf(n)])
  <2>1. n + 1 \in DOMAIN new /\ n + 1 > 1 /\ (n + 1) - 1 = n
    BY <1>4
  <2>2. RoundOf(n) \in 1..n
    <3> HIDE DEF n
    <3>1. RoundOf(n) \in 1..LastRound /\ RoundOf(n) <= n /\ LastRound \in Nat
      BY <1>4, RoundOfFacts, RoundNumbers
    <3> QED
      BY <1>4, <3>1
  <2>3. /\ Len(last) = Seats(n + 1) /\ Seated(last) /\ Free \notin NamesOf(last)
        /\ NamesOf(last) \subseteq NamesOf(new[RoundOf(n)])
    BY <1>5, <2>1 DEF ListsFit
  <2>4. NamesOf(new[RoundOf(n)]) = NamesOf(old[RoundOf(n)])
    BY <1>4, <2>2
  <2>5. last \in Seq(Group)
    BY <1>4, <2>1
  <2> HIDE DEF last, new, old, n
  <2> QED
    BY <2>1, <2>3, <2>4, <2>5
<1>7. Cardinality(NamesOf(last)) = Seats(n + 1)
  <2> HIDE DEF last
  <2> QED
    BY <1>6, NamesCount DEF Seated
<1>8. /\ LastRound \in Nat
      /\ n <= LastRound => RoundOf(n) = n /\ Seats(n + 1) = 2^(LastRound - n)
      /\ n > LastRound => RoundOf(n) = LastRound /\ Seats(n + 1) = 1 /\ LastRound \in 1..n
  <2> HIDE DEF n
  <2>1. LastRound \in Nat /\ LastRound >= 1
    BY RoundNumbers
  <2>2. ASSUME n <= LastRound
        PROVE  RoundOf(n) = n /\ Seats(n + 1) = 2^(LastRound - n)
    <3>1. n \in 1..LastRound
      BY <1>4, <2>1, <2>2
    <3> QED
      BY <2>2, <3>1, RowNumbers DEF RoundOf, Rows
  <2>3. ASSUME n > LastRound
        PROVE  RoundOf(n) = LastRound /\ Seats(n + 1) = 1 /\ LastRound \in 1..n
    BY <1>4, <2>1, <2>3 DEF RoundOf, Seats
  <2> QED
    BY <2>1, <2>2, <2>3
<1> DEFINE names == NamesOf(last)
<1>9. Len(history) = n /\ \A k \in 1..n : history[k] = NamesOf(old[k])
  BY <1>4
<1>10. historyNext = Append(history, names)
  <2>1. history \in Seq(SUBSET Name) /\ names \in SUBSET Name
    <3>1. ASSUME NEW list \in Seq(Group)
          PROVE  NamesOf(list) \in SUBSET Name
      <4>1. \A i \in DOMAIN list : list[i] \in Group
        OBVIOUS
      <4> QED
        BY <4>1 DEF NamesOf, Group
    <3>2. \A k \in 1..n : NamesOf(old[k]) \in SUBSET Name
      BY <1>4, <3>1
    <3>3. names \in SUBSET Name
      BY <1>6, <3>1
    <3> QED
      BY <1>4, <3>2, <3>3
  <2> DEFINE longer == Append(history, names)
  <2>2. DOMAIN longer = 1..(n + 1) /\ longer[n + 1] = names
        /\ \A k \in 1..n : longer[k] = history[k]
    <3> HIDE DEF history, names, n
    <3> QED
      BY <1>9, <2>1, Appended
  <2>3. longer = [k \in 1..(n + 1) |-> longer[k]]
    <3>1. longer \in Seq(SUBSET Name)
      <4> HIDE DEF history, names
      <4> QED
        BY <2>1
    <3> HIDE DEF longer
    <3> QED
      BY <2>2, <3>1
  <2>4. historyNext = [k \in 1..(n + 1) |-> NamesOf(new[k])]
    BY <1>4
  <2>5. \A k \in 1..(n + 1) : longer[k] = NamesOf(new[k])
    <3> SUFFICES ASSUME NEW k \in 1..(n + 1)
                 PROVE  longer[k] = NamesOf(new[k])
      OBVIOUS
    <3> HIDE DEF longer
    <3>1. CASE k = n + 1
      BY <2>2, <3>1
    <3>2. CASE k # n + 1
      <4>1. k \in 1..n
        BY <1>4, <3>2
      <4> QED
        BY <1>4, <1>9, <2>2, <4>1
    <3> QED
      BY <3>1, <3>2
  <2> HIDE DEF longer
  <2> QED
    BY <2>3, <2>4, <2>5 DEF longer
<1> HIDE DEF last, names, history, historyNext, n, old, new
<1>11. CASE n <= LastRound
  <2>1. Len(history) <= LastRound
    BY <1>9, <1>11
  <2>2. names \in SUBSET (history[Len(history)] \ {Free})
    BY <1>4, <1>6, <1>8, <1>9, <1>11 DEF names
  <2>3. Cardinality(names) = 2^(LastRound - Len(history))
    BY <1>7, <1>8, <1>9, <1>11 DEF names
  <2>4. /\ Len(history) <= LastRound
        /\ \E through \in SUBSET (history[Len(history)] \ {Free}) :
             /\ Cardinality(through) = 2^(LastRound - Len(history))
             /\ historyNext = Append(history, through)
    BY <1>10, <2>1, <2>2, <2>3
  <2> QED
    BY <2>4, KnockoutCardinality
       DEF Public!KNext, Public!PlayRound, Public!Latest, LastRound, history, historyNext, old, new
<1>12. CASE n > LastRound
  <2> DEFINE champion == last[1].name
  <2>1. names = {champion}
    <3>1. Len(last) = 1 /\ last \in Seq(Group)
      BY <1>6, <1>8, <1>12
    <3> QED
      BY <3>1 DEF names, NamesOf
  <2>2. Len(history) > LastRound
    BY <1>9, <1>12
  <2>3. champion \in history[LastRound] \ {Free}
    BY <1>6, <1>8, <1>9, <1>12, <2>1 DEF names
  <2> HIDE DEF champion
  <2>4. historyNext = Append(history, {champion})
    BY <1>10, <2>1
  <2> QED
    BY <2>2, <2>3, <2>4
       DEF Public!KNext, Public!Redecide, LastRound, history, historyNext, old, new
<1> QED
  BY <1>4, <1>8, <1>11, <1>12

\* PublicKnockout: whatever an orderly host presses, leaves, reopens or sends
\* late, every change of the document in the database is one step of a
\* knockout.
THEOREM DatabaseIsAKnockout ==
  ASSUME FieldFits
  PROVE  SpecWithoutNo => PublicKnockout
<1>1. Init => Public!KInit
  <2> SUFFICES ASSUME Init
               PROVE  Public!KInit
    OBVIOUS
  <2>1. server.roundList = <<Created.groups>>
    BY GenerateFacts, EntrantsAssumption DEF Init, Created
  <2>2. [k \in DOMAIN server.roundList |-> NamesOf(server.roundList[k])]
          = <<NamesOf(Created.groups)>>
    BY <2>1
  <2> QED
    BY <2>2 DEF Public!KInit
<1>2. IInv /\ OInv /\ [Next /\ ~ReturnToCurrentRound]_vars
        => [Public!KNext]_([k \in DOMAIN server.roundList |-> NamesOf(server.roundList[k])])
  <2> SUFFICES ASSUME IInv, OInv, [Next /\ ~ReturnToCurrentRound]_vars
               PROVE  Public!KNext \/ server' = server
    OBVIOUS
  <2>1. CASE Commit
    BY <2>1, OneListMoreIsAStep
  <2>2. CASE ~Commit
    <3>1. \/ UNCHANGED vars
          \/ Open \/ Close \/ Snapshot \/ Scroll \/ Press \/ NextRound
      BY <2>2 DEF Next
    <3> QED
      BY <3>1 DEF vars, Open, Close, Snapshot, Scroll, Press, Group1Button, Group2Button, Select,
         NextRound, network
  <2> QED
    BY <2>1, <2>2
<1> QED
  BY <1>1, <1>2, OrderlyAlways, PTL DEF SpecWithoutNo, PublicKnockout, Public!KSpec
=============================================================================
