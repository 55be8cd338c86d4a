--------------------------- MODULE BracketScreen ----------------------------
(***************************************************************************)
(* What one BracketController shows and how a snapshot changes it: the     *)
(* closure of viewDidLoad with make_roundsHost.  The host's phone and a    *)
(* viewer's phone run this same code.                                      *)
(*                                                                         *)
(* A screen keeps the tournament of the last snapshot, the current round,  *)
(* and one table per round, each with the number of rows it was made with  *)
(* and the list of groups its cells are filled from (bracketViewArr,       *)
(* bracketViewDict, bracketViewGroupDict).                                 *)
(***************************************************************************)
EXTENDS Tournament

NoTournament == [groups |-> << >>, winners |-> << >>, losers |-> << >>, roundList |-> << >>]
NewScreen ==
  [initialized |-> FALSE, tournament |-> NoTournament, currRound |-> 0, tables |-> << >>]

Rounds(t) == GenerateRounds(Len(t.groups))
Matches(t) == GenerateMatches(Rounds(t))

\* The round whose matchups are half the winners; none if no round has so many.
RoundsLeft(t) == {i \in DOMAIN Matches(t) : Len(t.winners) \div 2 = Matches(t)[i]}

CurrentRound(s, t) ==
  IF RoundsLeft(t) # {} THEN CHOOSE i \in RoundsLeft(t) : TRUE
  ELSE IF Len(t.winners) = 1 THEN Rounds(t)
  ELSE s.currRound

\* The rounds make_roundsHost adds a table for: all the rounds so far on a new
\* screen, the current one (again) later, none once there is a champion.
NewRounds(s, t) ==
  IF s.initialized
    THEN IF RoundsLeft(t) = {} THEN {} ELSE {CurrentRound(s, t)}
    ELSE 1..CurrentRound(s, t)

Table(t, i) == [rows |-> Matches(t)[i], groups |-> t.roundList[i]]

\* The tables after make_roundsHost, before any list is refreshed.
TablesMade(s, t) ==
  LET new == NewRounds(s, t)
      before == CurrentRound(s, t) - Cardinality(new)
  IN s.tables \o [k \in 1..Cardinality(new) |-> Table(t, before + k)]

\* Mutant of TablesRefreshed: tables keep the lists they were made with.
TablesNotRefreshed(s, t) == TablesMade(s, t)

\* On a screen that already showed something the lists of all the rounds so
\* far are replaced.
TablesRefreshed(s, t) ==
  LET made == TablesMade(s, t)
      last == CurrentRound(s, t)
  IN [i \in DOMAIN made |->
        IF s.initialized /\ i <= last THEN [made[i] EXCEPT !.groups = t.roundList[i]]
                                      ELSE made[i]]

\* An array index is out of range and the process traps: the document has no
\* list for one of the rounds so far, one of them has no table, or a row of a
\* table has no group in its list.
Traps(s, t) ==
  \/ CurrentRound(s, t) > Len(t.roundList)
  \/ CurrentRound(s, t) > Len(TablesMade(s, t))
  \/ LET tables == TablesRefreshed(s, t)
     IN \E i \in DOMAIN tables : tables[i].rows > Len(tables[i].groups)

\* The whole callback, when it does not trap.
AfterSnapshot(s, t) ==
  [initialized |-> TRUE, tournament |-> t,
   currRound |-> CurrentRound(s, t), tables |-> TablesRefreshed(s, t)]

\* cellForRowAt: row i of a table plays the first group of the list that is
\* left against the last one.
First(table, row) == table.groups[row]
Second(table, row) == table.groups[Len(table.groups) + 1 - row]

\* Mutant of UpdateWinner: the ribbons never reach the tournament.
UpdateWinnerOnScreen(s, winner, loser, round) ==
  LET ribbons == [s EXCEPT !.tables[round].groups = SetStatus(@, winner, loser)]
  IN [ribbons EXCEPT !.tournament = MakeWinner(MakeLoser(s.tournament, loser), winner)]

\* updateWinner in a round: ribbons on the round's lists, then the two lists of
\* the tournament.
UpdateWinner(s, winner, loser, round) ==
  LET marked == [s.tournament EXCEPT !.roundList[round] = SetStatus(@, winner, loser)]
      ribbons == [s EXCEPT !.tables[round].groups = SetStatus(@, winner, loser)]
  IN [ribbons EXCEPT !.tournament = MakeWinner(MakeLoser(marked, loser), winner)]

\* Mutant of CloseRound: the next round gets no list.
CloseRoundWithoutList(t) == t

\* nextRound before it stores: the winners become the next round's list.
CloseRound(t) == [t EXCEPT !.roundList = Append(@, t.winners)]
=============================================================================
