----------------------------- MODULE Tournament -----------------------------
(***************************************************************************)
(* The values the program works on: struct Group and struct Tournament,    *)
(* which is also what a Firestore document holds (store writes every field *)
(* and getTournament reads every field back).  A group is its name and its *)
(* status; the seed, the title and the description never decide anything.  *)
(***************************************************************************)
EXTENDS BracketBackend, Sequences

CONSTANTS
  Name,   \* the names a group can have
  Free    \* the name of the groups generate pads a field with
ASSUME FreeAssumption == Free \in Name

Group == [name : Name, status : BOOLEAN]
Document == [groups : Seq(Group), winners : Seq(Group), losers : Seq(Group),
             roundList : Seq(Seq(Group))]

NamesOf(list) == {list[i].name : i \in DOMAIN list}

\* list.filter { $0 != g }: groups are equal when their names are.  The kth
\* element that stays is the one at the position with k kept positions up to it.
Kept(list, g) == {i \in DOMAIN list : list[i].name # g.name}
Rank(S, i) == Cardinality({j \in S : j <= i})
Without(list, g) ==
  LET kept == Kept(list, g)
  IN [k \in 1..Cardinality(kept) |-> list[CHOOSE i \in kept : Rank(kept, i) = k]]

\* if !list.contains { $0 == g } { list.append(g) }
With(list, g) == IF g.name \in NamesOf(list) THEN list ELSE Append(list, g)

\* Mutant of MakeLoser: the loser stays among the winners.
MakeLoserOfTwo(t, g) == [t EXCEPT !.losers = With(@, g)]

MakeLoser(t, g) ==
  LET without == [t EXCEPT !.winners = Without(@, g)]
  IN [without EXCEPT !.losers = With(@, g)]

\* Mutant of MakeWinner: the winner stays among the losers.
MakeWinnerOfTwo(t, g) == [t EXCEPT !.winners = With(@, g)]

MakeWinner(t, g) ==
  LET without == [t EXCEPT !.losers = Without(@, g)]
  IN [without EXCEPT !.winners = With(@, g)]

\* Mutant of SetStatus: the loser keeps the ribbon of an earlier choice.
SetStatusOfWinner(list, winner, loser) ==
  [i \in DOMAIN list |->
     IF list[i].name = winner.name THEN [list[i] EXCEPT !.status = TRUE] ELSE list[i]]

\* list.map { the winner's status becomes true, the loser's false }
SetStatus(list, winner, loser) ==
  [i \in DOMAIN list |->
     IF list[i].name = winner.name THEN [list[i] EXCEPT !.status = TRUE]
     ELSE IF list[i].name = loser.name THEN [list[i] EXCEPT !.status = FALSE]
     ELSE list[i]]

\* The tournament generate stores for a list of entrants, which it pads with
\* groups that are all called FREE.
Generate(entrants) ==
  LET groups == [i \in 1..PaddedSize(Len(entrants)) |->
                   [name |-> IF i <= Len(entrants) THEN entrants[i] ELSE Free,
                    status |-> FALSE]]
  IN [groups |-> groups, winners |-> groups, losers |-> << >>, roundList |-> <<groups>>]
=============================================================================
