---------------------------- MODULE HostBracket -----------------------------
(***************************************************************************)
(* The host's phone running one tournament: the bracket screen with its    *)
(* reusable MatchUpHost cells, the "Complete round" alert, and the         *)
(* Firestore client between the screen and the database.  Everything on    *)
(* the phone runs on the main thread, so each handler is one step; what    *)
(* interleaves are the host's touches, the snapshots posted to the main    *)
(* queue, the answers to the alert, and the network.                       *)
(***************************************************************************)
EXTENDS BracketScreen

CONSTANTS
  Entrants,     \* the names the host entered, in seed order
  VisibleRows,  \* how many rows of a table fit on the host's screen
  MaxLists,     \* bound: the host closes no round of a longer history
  MaxUnsent     \* bound: stores that may wait for the network

\* AddGroupsController refuses a name twice, and fewer than two groups.
ASSUME EntrantsAssumption ==
  /\ Entrants \in Seq(Name)
  /\ Len(Entrants) >= 2
  /\ \A i, j \in DOMAIN Entrants : Entrants[i] = Entrants[j] => i = j
ASSUME BoundsAssumption ==
  VisibleRows \in Nat \ {0} /\ MaxLists \in Nat /\ MaxUnsent \in Nat

VARIABLES
  server,               \* the tournament's document in the database
  unsent,               \* the client's queue of writes the server has not taken
  snapshots,            \* documents posted to the main queue for the listener
  phase,                \* the bracket screen: "closed", "open" or "crashed"
  screen,               \* the BracketController
  shown,                \* the visible cells of the current round's table, by row
  pool,                 \* the cells that table can reuse, by their winnerSelected
  winnerSelectedCount,
  alert                 \* the "Complete round" alert is up

Created == Generate(Entrants)    \* the tournament as it was first stored

network == <<server, unsent>>
cells == <<shown, pool>>
vars == <<server, unsent, snapshots, phase, screen, shown, pool,
          winnerSelectedCount, alert>>

Tables == [rows : Nat, groups : Seq(Group)]
Cell == [winnerSelected : BOOLEAN, group1 : Group, group2 : Group]
EmptyPool == [flag \in BOOLEAN |-> 0]

\* What the client shows its listeners: the last local write, sent or not.
LocalDocument == IF unsent = << >> THEN server ELSE unsent[Len(unsent)]

CurrentTable(s) == s.tables[s.currRound]
HasTable(s) == s.currRound \in DOMAIN s.tables

\* setMatchup: the cell takes the groups of its row; its flag is cleared when
\* neither group has a ribbon, and never set.
SetMatchup(flag, table, row) ==
  [winnerSelected |-> flag /\ (First(table, row).status \/ Second(table, row).status),
   group1 |-> First(table, row), group2 |-> Second(table, row)]
-----------------------------------------------------------------------------
Init ==
  /\ server = Created
  /\ unsent = << >>
  /\ snapshots = << >>
  /\ phase = "closed"
  /\ screen = NewScreen
  /\ shown = << >>
  /\ pool = EmptyPool
  /\ winnerSelectedCount = 0
  /\ alert = FALSE

\* A new controller, whose listener is first given the client's document.
Open ==
  /\ phase = "closed"
  /\ phase' = "open"
  /\ snapshots' = <<LocalDocument>>
  /\ UNCHANGED <<network, screen, cells, winnerSelectedCount, alert>>

\* The host leaves the bracket, or the app is killed, or it has crashed: the
\* controller is gone with all it had not stored; the client's queue survives.
Close ==
  /\ phase # "closed"
  /\ phase' = "closed"
  /\ snapshots' = << >>
  /\ screen' = NewScreen
  /\ shown' = << >>
  /\ pool' = EmptyPool
  /\ winnerSelectedCount' = 0
  /\ alert' = FALSE
  /\ UNCHANGED network
-----------------------------------------------------------------------------
(* Cells.  reloadData puts every visible cell of a table into its pool and   *)
(* takes the cells of the same rows from there, in an order UIKit does not   *)
(* promise; a table that was just made has no cells to reuse.                *)
CellsWith(flag, flags) == Cardinality({row \in DOMAIN flags : flags[row] = flag})

\* The rows of a new table that fit on the screen.
TopRows(table) == {row \in 1..table.rows : row <= VisibleRows}

NewCells(table) ==
  /\ shown' = [row \in TopRows(table) |-> SetMatchup(FALSE, table, row)]
  /\ pool' = EmptyPool

ReusedCells(table) ==
  LET before == [row \in DOMAIN shown |-> shown[row].winnerSelected]
      available == [flag \in BOOLEAN |-> pool[flag] + CellsWith(flag, before)]
  IN \E flags \in [DOMAIN shown -> BOOLEAN] :
       /\ \A flag \in BOOLEAN : CellsWith(flag, flags) <= available[flag]
       /\ shown' = [row \in DOMAIN shown |-> SetMatchup(flags[row], table, row)]
       /\ pool' = [flag \in BOOLEAN |-> available[flag] - CellsWith(flag, flags)]

\* A table of an earlier round is where it was left, and so are its cells: which
\* rows are visible and what flags the cells had is not kept here, and any.  (At
\* most one cell waits for reuse, when a table can be scrolled by a row.)
EarlierCells(table) ==
  /\ \E top \in 1..table.rows :
       LET visible == {row \in 1..table.rows : row \in top..(top + VisibleRows - 1)}
       IN /\ top > 1 => Cardinality(visible) = VisibleRows
          /\ \E flags \in [visible -> BOOLEAN] :
               shown' = [row \in visible |-> SetMatchup(flags[row], table, row)]
  /\ pool' \in [BOOLEAN -> 0..1]
  /\ \E flag \in BOOLEAN : pool'[flag] = 0
  /\ table.rows <= VisibleRows => pool' = EmptyPool

Reload ==
  IF ~HasTable(screen') THEN UNCHANGED cells
  ELSE IF screen.currRound = screen'.currRound THEN ReusedCells(CurrentTable(screen'))
  ELSE IF HasTable([screen EXCEPT !.currRound = screen'.currRound])
    THEN EarlierCells(CurrentTable(screen'))
  ELSE NewCells(CurrentTable(screen'))

\* The listener's callback, or the trap in it.
Snapshot ==
  /\ phase = "open"
  /\ snapshots # << >>
  /\ snapshots' = Tail(snapshots)
  /\ IF Traps(screen, Head(snapshots))
       THEN /\ phase' = "crashed"
            /\ UNCHANGED <<screen, cells>>
       ELSE /\ screen' = AfterSnapshot(screen, Head(snapshots))
            /\ Reload
            /\ UNCHANGED phase
  /\ UNCHANGED <<network, winnerSelectedCount, alert>>

\* Scrolling the current table by a row: one cell leaves at one end, another
\* row's cell comes in at the other, from the pool (where the leaving cell may
\* already be) or new if nothing is there to reuse.
ScrollTo(leaving, entering) ==
  LET flagOut == shown[leaving].winnerSelected
      returned == [pool EXCEPT ![flagOut] = @ + 1]
      table == CurrentTable(screen)
      Now(flag, newPool) ==
        /\ shown' = [row \in (DOMAIN shown \ {leaving}) \cup {entering} |->
                       IF row = entering THEN SetMatchup(flag, table, row) ELSE shown[row]]
        /\ pool' = newPool
  IN \/ \E flag \in BOOLEAN :
          returned[flag] > 0 /\ Now(flag, [returned EXCEPT ![flag] = @ - 1])
     \/ pool = EmptyPool /\ Now(FALSE, returned)

Scroll ==
  /\ phase = "open"
  /\ ~alert
  /\ HasTable(screen)
  /\ \E top, bottom \in DOMAIN shown :
       /\ DOMAIN shown = top..bottom
       /\ \/ bottom < CurrentTable(screen).rows /\ ScrollTo(top, bottom + 1)
          \/ top > 1 /\ ScrollTo(bottom, top - 1)
  /\ UNCHANGED <<network, snapshots, phase, screen, winnerSelectedCount, alert>>
-----------------------------------------------------------------------------
(* Choosing winners and closing the round.                                   *)
\* Mutant of Select: every press counts.
SelectAlwaysCounts(row, winner, loser) ==
  /\ winnerSelectedCount' = winnerSelectedCount + 1
  /\ alert' = (winnerSelectedCount + 1 >= Matches(screen.tournament)[screen.currRound])
  /\ shown' = [shown EXCEPT ![row].winnerSelected = TRUE]
  /\ screen' = UpdateWinner(screen, winner, loser, screen.currRound)
  /\ UNCHANGED <<network, snapshots, phase, pool>>

\* A press on a cell: the first one since its flag was cleared counts, and all
\* the round's matchups counted bring up the alert.
Select(row, winner, loser) ==
  /\ IF shown[row].winnerSelected
       THEN UNCHANGED <<winnerSelectedCount, alert>>
       ELSE /\ winnerSelectedCount' = winnerSelectedCount + 1
            /\ alert' = (winnerSelectedCount + 1 >= Matches(screen.tournament)[screen.currRound])
  /\ shown' = [shown EXCEPT ![row].winnerSelected = TRUE]
  /\ screen' = UpdateWinner(screen, winner, loser, screen.currRound)
  /\ UNCHANGED <<network, snapshots, phase, pool>>

Group1Button(row) ==
  /\ phase = "open" /\ ~alert
  /\ Select(row, shown[row].group1, shown[row].group2)

Group2Button(row) ==
  /\ phase = "open" /\ ~alert
  /\ shown[row].group2.name # Free
  /\ Select(row, shown[row].group2, shown[row].group1)

\* Mutant of NextRound: the tournament is not stored.
NextRoundWithoutStore ==
  /\ phase = "open" /\ alert
  /\ Len(screen.tournament.roundList) < MaxLists
  /\ screen' = [screen EXCEPT !.tournament = CloseRound(screen.tournament)]
  /\ winnerSelectedCount' = 0
  /\ alert' = FALSE
  /\ UNCHANGED <<network, snapshots, phase, cells>>

\* "Yes" ends the round: the winners are the next list, and the tournament is
\* written locally, which at once posts a snapshot of it to the listener.
NextRound ==
  /\ phase = "open" /\ alert
  /\ Len(screen.tournament.roundList) < MaxLists
  /\ Len(unsent) < MaxUnsent
  /\ LET t == CloseRound(screen.tournament)
     IN /\ screen' = [screen EXCEPT !.tournament = t]
        /\ unsent' = Append(unsent, t)
        /\ snapshots' = Append(snapshots, t)
  /\ winnerSelectedCount' = 0
  /\ alert' = FALSE
  /\ UNCHANGED <<server, phase, cells>>

\* Mutant of ReturnToCurrentRound: runs without the alert.
ReturnToCurrentRoundAnytime ==
  /\ phase = "open"
  /\ alert' = FALSE
  /\ winnerSelectedCount' = winnerSelectedCount - 1
  /\ shown' = [row \in DOMAIN shown |-> [shown[row] EXCEPT !.winnerSelected = FALSE]]
  /\ UNCHANGED <<network, snapshots, phase, screen, pool>>

\* "No" goes back to the round.
ReturnToCurrentRound ==
  /\ phase = "open" /\ alert
  /\ alert' = FALSE
  /\ winnerSelectedCount' = winnerSelectedCount - 1
  /\ shown' = [row \in DOMAIN shown |-> [shown[row] EXCEPT !.winnerSelected = FALSE]]
  /\ UNCHANGED <<network, snapshots, phase, screen, pool>>

\* Mutant of Commit: the newest write goes first.
CommitNewestFirst ==
  /\ unsent # << >>
  /\ server' = unsent[Len(unsent)]
  /\ unsent' = SubSeq(unsent, 1, Len(unsent) - 1)
  /\ UNCHANGED <<snapshots, phase, screen, cells, winnerSelectedCount, alert>>

\* The network takes the oldest write.  The document it echoes is the one the
\* listener has seen, so nothing is posted.
Commit ==
  /\ unsent # << >>
  /\ server' = Head(unsent)
  /\ unsent' = Tail(unsent)
  /\ UNCHANGED <<snapshots, phase, screen, cells, winnerSelectedCount, alert>>
-----------------------------------------------------------------------------
Press == \E row \in DOMAIN shown : Group1Button(row) \/ Group2Button(row)

Next ==
  \/ Open \/ Close \/ Snapshot \/ Scroll
  \/ Press \/ NextRound \/ ReturnToCurrentRound \/ Commit

\* The oldest callback leaves the main queue: Snapshot runs it, unless the screen
\* is closed first.
Dequeue == phase = "open" /\ snapshots # << >> /\ snapshots' = Tail(snapshots)

\* The main queue runs what is posted to it and the client retries its writes;
\* nobody promises what the host does.
Fairness == WF_snapshots(Dequeue) /\ WF_vars(Commit)

Spec == Init /\ [][Next]_vars /\ Fairness

\* A host who never answers "No".
SpecWithoutNo == Init /\ [][Next /\ ~ReturnToCurrentRound]_vars /\ Fairness
-----------------------------------------------------------------------------
(* Properties.                                                               *)

TypeOK ==
  /\ server \in Document
  /\ unsent \in Seq(Document)
  /\ snapshots \in Seq(Document)
  /\ phase \in {"closed", "open", "crashed"}
  /\ screen.initialized \in BOOLEAN /\ screen.tournament \in Document
  /\ screen.currRound \in Nat
  /\ screen.tables \in Seq(Tables)
  /\ \A row \in DOMAIN shown : shown[row] \in Cell
  /\ pool \in [BOOLEAN -> Nat]
  /\ winnerSelectedCount \in Nat
  /\ alert \in BOOLEAN

\* Every version of the tournament there is: in the database, on its way
\* there or to the screen, and on the screen.
Versions ==
  {server, LocalDocument} \cup {unsent[i] : i \in DOMAIN unsent}
    \cup {snapshots[i] : i \in DOMAIN snapshots}
    \cup (IF screen.initialized THEN {screen.tournament} ELSE {})

Once(list) ==
  \A i, j \in DOMAIN list : list[i].name = list[j].name /\ list[i].name # Free => i = j

AccountedFor(t) ==
  /\ NamesOf(t.winners) \cup NamesOf(t.losers) = NamesOf(Created.groups)
  /\ NamesOf(t.winners) \cap NamesOf(t.losers) = {}
  /\ Once(t.winners) /\ Once(t.losers)

\* Winners and losers divide the field: whatever is pressed, stored, delivered
\* late or lost, no version of the tournament forgets a group, counts it as
\* both winner and loser, or lists an entrant twice (makeWinner, makeLoser).
EveryoneAccountedFor == \A t \in Versions : AccountedFor(t)

\* The ribbons of the current round tell who is still in: with one ribbon in a
\* matchup that group is a winner and its opponent a loser, with none both are
\* still winners (FREE is out as soon as one opponent of it is chosen), and
\* there are never two.
RibbonsAgree ==
  phase = "open" /\ HasTable(screen) =>
    \A row \in 1..CurrentTable(screen).rows :
      LET one == First(CurrentTable(screen), row)
          two == Second(CurrentTable(screen), row)
          winners == NamesOf(screen.tournament.winners)
      IN /\ ~(one.status /\ two.status)
         /\ one.status => one.name \in winners /\ two.name \notin winners
         /\ two.status => two.name \in winners /\ one.name \notin winners
         /\ ~one.status /\ ~two.status =>
              one.name \in winners /\ (two.name \in winners \/ two.name = Free)

\* The host is only asked to end a round whose matchups all have a winner
\* (incrementWinnerSelectedCount counts cells' flags, not matchups).
AlertMeansRoundDecided ==
  alert => \A row \in 1..CurrentTable(screen).rows :
             First(CurrentTable(screen), row).status \/ Second(CurrentTable(screen), row).status

\* One group of every matchup of a list, and the one with the ribbon, is in
\* the list after it.
PlayedOff(before, after) ==
  /\ 2 * Len(after) = Len(before)
  /\ \A row \in 1..Len(after) :
       LET one == before[row]
           two == before[Len(before) + 1 - row]
       IN /\ one.status = (one.name \in NamesOf(after))
          /\ two.status = (two.name \in NamesOf(after))
          /\ one.status # two.status

\* The stored history is the history of a knockout: each list of roundList was
\* played off, matchup by matchup, to give the next, and the list of the final
\* to give the last.
StoredRoundsPlayedOff ==
  LET lists == server.roundList
  IN \A k \in 1..(Len(lists) - 1) :
       k <= Rounds(Created) =>
         PlayedOff(lists[k], lists[IF k = Rounds(Created) THEN Len(lists) ELSE k + 1])

\* No handler of the host's screen indexes past the end of an array.
NeverTraps == phase # "crashed"

\* Ending a round on screen leads to the next one (or to the champion of the
\* last): the write comes back as a snapshot with another table in it.
YesOpensNextRound ==
  \A r \in 1..Rounds(Created) :
    (phase = "open" /\ screen.currRound = r /\ Len(screen.tournament.roundList) > r)
      ~> (phase # "open" \/ screen.currRound > r \/ Len(screen.tournament.winners) = 1)
\* The database holds a knockout: every change of its document is one step of
\* it, whatever the host presses, flips, leaves, reopens or sends late.
Public == INSTANCE Knockout WITH
  Field <- NamesOf(Created.groups), Length <- Rounds(Created),
  history <- [k \in DOMAIN server.roundList |-> NamesOf(server.roundList[k])]
PublicKnockout == Public!KSpec

\* winnerSelectedCount only goes up when a matchup without a winner gets one
\* (MatchUpHost.group1ButtonAction and group2ButtonAction).
Decided == {row \in 1..CurrentTable(screen).rows :
              First(CurrentTable(screen), row).status \/ Second(CurrentTable(screen), row).status}
OnlyNewWinnersCount ==
  [][winnerSelectedCount' > winnerSelectedCount => Decided # Decided']_vars
=============================================================================
