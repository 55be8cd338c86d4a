------------------------ MODULE RefusedWritesProofs -------------------------
(***************************************************************************)
(* Writes that are refused do not lose or double a group either: what the  *)
(* client falls back to is a document of the same field, so the inductive  *)
(* invariant of HostBracketProofs is kept.  And the bracket on the host's  *)
(* screen follows the document, forwards and back.                         *)
(***************************************************************************)
EXTENDS RefusedWrites, HostBracketProofs

LEMMA RefuseInv ==
  ASSUME IInv, Refuse
  PROVE  IInv'
<1>1. /\ unsent # << >> /\ unsent \in Seq(Document)
      /\ \A i \in DOMAIN unsent : DocumentInv(unsent[i])
      /\ server' = server /\ unsent' = Tail(unsent) /\ DocumentInv(server)
  BY DEF Refuse, IInv, NetworkInv
<1>2. /\ Tail(unsent) \in Seq(Document)
      /\ \A i \in DOMAIN Tail(unsent) : i + 1 \in DOMAIN unsent /\ Tail(unsent)[i] = unsent[i + 1]
  BY <1>1
<1>3. snapshots' \in Seq(Document) /\ \A i \in DOMAIN snapshots' : DocumentInv(snapshots'[i])
  <2>1. /\ snapshots \in Seq(Document) /\ \A i \in DOMAIN snapshots : DocumentInv(snapshots[i])
        /\ server \in Document
    BY <1>1 DEF IInv, NetworkInv, DocumentInv
  <2>2. CASE snapshots' = snapshots
    BY <2>1, <2>2
  <2>3. CASE snapshots' = Append(snapshots, server)
    BY <1>1, <2>1, <2>3
  <2> QED
    BY <2>2, <2>3 DEF Refuse
<1>4. NetworkInv'
  BY <1>1, <1>2, <1>3 DEF NetworkInv
<1>5. ScreenInv(screen') /\ CellsInv'
  BY ScreenStays DEF IInv, Refuse, cells
<1> QED
  BY <1>4, <1>5 DEF IInv, Refuse, AlertInv

-----------------------------------------------------------------------------
(* The screen follows the document.                                          *)

SameRounds(t, u) == NamesInRounds(t) = NamesInRounds(u)

\* What an open bracket will have heard last, once the main queue has run, has
\* the rounds of the document the client shows.  A "Yes" changes the screen, the
\* document and the queue alike; it is a refusal that must tell the listener.
FollowInv ==
  phase = "open" =>
    IF snapshots # << >> THEN SameRounds(snapshots[Len(snapshots)], LocalDocument)
    ELSE screen.initialized => SameRounds(screen.tournament, LocalDocument)

\* A press only moves ribbons in the lists.
LEMMA SelectKeepsRounds ==
  ASSUME IInv, NEW row \in DOMAIN shown, NEW winner \in Group, NEW loser \in Group,
         Select(row, winner, loser)
  PROVE  SameRounds(screen'.tournament, screen.tournament)
<1> DEFINE before == screen.tournament.roundList
           after == screen'.tournament.roundList
<1>1. ScreenInv(screen) /\ screen.initialized /\ screen.currRound \in Nat
  BY DEF IInv, CellsInv, ScreenInv, HasTable
<1>2. before \in Seq(Seq(Group))
  BY <1>1 DEF ScreenInv, Document
<1>3. /\ DOMAIN after = DOMAIN before
      /\ \A k \in DOMAIN before : after[k] = before[k] \/ after[k] = SetStatus(before[k], winner, loser)
  <2> DEFINE s == screen
             round == screen.currRound
             pressed == UpdateWinner(screen, winner, loser, round)
  <2>1. screen' = pressed
    BY DEF Select
  <2>2. ScreenInv(s) /\ s.initialized /\ round \in Nat
    BY <1>1
  <2> HIDE DEF s, round
  <2> DEFINE lists == UpdateWinner(s, winner, loser, round).tournament.roundList
  <2>3. /\ DOMAIN lists = DOMAIN s.tournament.roundList
        /\ \A k \in DOMAIN s.tournament.roundList :
             lists[k] = IF k = round THEN SetStatus(s.tournament.roundList[k], winner, loser)
                                     ELSE s.tournament.roundList[k]
    BY <2>2, UpdateWinnerFields
  <2> QED
    BY <2>1, <2>3 DEF round, s
<1> HIDE DEF before, after
<1>4. \A k \in DOMAIN before : NamesOf(after[k]) = NamesOf(before[k])
  <2>1. \A k \in DOMAIN before : before[k] \in Seq(Group)
    BY <1>2
  <2> QED
    BY <1>3, <2>1, SetStatusFacts
<1> QED
  BY <1>3, <1>4 DEF SameRounds, NamesInRounds, before, after

\* The last of a queue stays the last until it is taken.
LEMMA LastOfQueue ==
  ASSUME NEW S, NEW queue \in Seq(S), queue # << >>
  PROVE  /\ Tail(queue) = << >> => Len(queue) = 1 /\ Head(queue) = queue[Len(queue)]
         /\ Tail(queue) # << >> => /\ Len(queue) # 1
                                   /\ Tail(queue)[Len(Tail(queue))] = queue[Len(queue)]
<1>1. /\ Len(queue) \in Nat /\ Len(queue) >= 1 /\ Head(queue) = queue[1]
      /\ Tail(queue) \in Seq(S) /\ Len(Tail(queue)) = Len(queue) - 1
      /\ \A i \in 1..(Len(queue) - 1) : Tail(queue)[i] = queue[i + 1]
  OBVIOUS
<1> DEFINE rest == Tail(queue)
<1>2. rest \in Seq(S)
  BY <1>1
<1> HIDE DEF rest
<1>3. rest = << >> <=> Len(rest) = 0
  BY <1>2
<1> QED
  BY <1>1, <1>3 DEF rest

LEMMA FollowSnapshot ==
  ASSUME IInv, FollowInv, Snapshot
  PROVE  FollowInv'
<1>1. /\ phase = "open" /\ snapshots # << >> /\ snapshots \in Seq(Document)
      /\ snapshots' = Tail(snapshots) /\ LocalDocument' = LocalDocument
  BY DEF Snapshot, IInv, NetworkInv, network, LocalDocument
<1>2. SameRounds(snapshots[Len(snapshots)], LocalDocument)
  BY <1>1 DEF FollowInv
<1> SUFFICES ASSUME phase' = "open"
             PROVE  FollowInv'
  BY DEF FollowInv
<1>3. screen'.tournament = Head(snapshots)
  BY DEF Snapshot, AfterSnapshot
<1>4. CASE Tail(snapshots) = << >>
  <2>1. Len(snapshots) = 1 /\ Head(snapshots) = snapshots[Len(snapshots)]
    BY <1>1, <1>4, LastOfQueue
  <2> QED
    BY <1>1, <1>2, <1>3, <1>4, <2>1 DEF FollowInv
<1>5. CASE Tail(snapshots) # << >>
  <2>1. Tail(snapshots)[Len(Tail(snapshots))] = snapshots[Len(snapshots)]
    BY <1>1, <1>5, LastOfQueue
  <2> QED
    BY <1>1, <1>2, <1>5, <2>1 DEF FollowInv
<1> QED
  BY <1>4, <1>5

LEMMA FollowStep ==
  ASSUME IInv, FollowInv, Next
  PROVE  FollowInv'
<1>1. unsent \in Seq(Document) /\ snapshots \in Seq(Document)
  BY DEF IInv, NetworkInv
<1>2. CASE Open
  <2>1. snapshots' = <<LocalDocument>> /\ LocalDocument' = LocalDocument
    BY <1>2 DEF Open, network, LocalDocument
  <2> QED
    BY <2>1 DEF FollowInv, SameRounds
<1>3. CASE Close
  BY <1>3 DEF Close, FollowInv
<1>4. CASE Snapshot
  BY <1>4, FollowSnapshot
<1>5. CASE Scroll \/ ReturnToCurrentRound
  BY <1>5 DEF Scroll, ReturnToCurrentRound, FollowInv, LocalDocument, network
<1>6. CASE Press
  <2>1. PICK row \in DOMAIN shown : Group1Button(row) \/ Group2Button(row)
    BY <1>6 DEF Press
  <2>2. shown[row].group1 \in Group /\ shown[row].group2 \in Group
    BY DEF IInv, CellsInv, CellInv, Cell
  <2>3. PICK winner \in Group, loser \in Group : Select(row, winner, loser)
    BY <2>1, <2>2 DEF Group1Button, Group2Button
  <2>4. SameRounds(screen'.tournament, screen.tournament)
    BY <2>3, SelectKeepsRounds
  <2>5. screen.initialized
    BY DEF IInv, CellsInv, ScreenInv, HasTable
  <2> QED
    BY <2>3, <2>4, <2>5 DEF Select, FollowInv, SameRounds, LocalDocument, network
<1>7. CASE NextRound
  <2>1. PICK t : unsent' = Append(unsent, t) /\ snapshots' = Append(snapshots, t)
    BY <1>7 DEF NextRound
  <2>2. /\ snapshots' # << >> /\ snapshots'[Len(snapshots')] = t
        /\ unsent' # << >> /\ unsent'[Len(unsent')] = t
    <3>1. \A list \in Seq(Document) : /\ Append(list, t) # << >>
                                      /\ Append(list, t)[Len(Append(list, t))] = t
      OBVIOUS
    <3> QED
      BY <1>1, <2>1, <3>1, Zenon
  <2> QED
    BY <2>2 DEF FollowInv, SameRounds, LocalDocument
<1>8. CASE Commit
  <2>1. LocalDocument' = LocalDocument
    BY <1>1, <1>8, LastOfQueue DEF Commit, LocalDocument
  <2> QED
    BY <1>8, <2>1 DEF Commit, FollowInv
<1> QED
  BY <1>2, <1>3, <1>4, <1>5, <1>6, <1>7, <1>8 DEF Next

\* A refused write is taken back; the listener is told of the document before
\* it when no later write hides it, unless the two are the same.
LEMMA FollowRefuse ==
  ASSUME IInv, FollowInv, Refuse
  PROVE  FollowInv'
<1>1. /\ unsent \in Seq(Document) /\ snapshots \in Seq(Document) /\ server \in Document
      /\ unsent # << >> /\ unsent' = Tail(unsent)
      /\ server' = server /\ phase' = phase /\ screen' = screen
  BY DEF IInv, NetworkInv, DocumentInv, Refuse
<1> SUFFICES ASSUME phase = "open"
             PROVE  FollowInv'
  BY <1>1 DEF FollowInv
<1>2. CASE Len(unsent) = 1 /\ server # Head(unsent)
  <2>1. snapshots' = Append(snapshots, server) /\ LocalDocument' = server
    BY <1>1, <1>2 DEF Refuse, LocalDocument
  <2>2. snapshots' # << >> /\ snapshots'[Len(snapshots')] = server
    BY <1>1, <2>1
  <2> QED
    BY <2>1, <2>2 DEF FollowInv, SameRounds
<1>3. CASE ~(Len(unsent) = 1 /\ server # Head(unsent))
  <2>1. snapshots' = snapshots /\ LocalDocument' = LocalDocument
    BY <1>1, <1>3, LastOfQueue DEF Refuse, LocalDocument
  <2> QED
    BY <1>1, <2>1 DEF FollowInv
<1> QED
  BY <1>2, <1>3

LEMMA RefusingInvAlways == SpecRefusing => [](IInv /\ FollowInv)
<1>1. InitRefusing => IInv /\ FollowInv
  <2>1. Init => FollowInv
    BY DEF Init, FollowInv
  <2> QED
    BY <2>1, InitInv DEF InitRefusing
<1>2. IInv /\ FollowInv /\ [NextRefusing]_<<vars, refused>> => (IInv /\ FollowInv)'
  <2>1. ASSUME IInv, FollowInv, NextRefusing
        PROVE  (IInv /\ FollowInv)'
    BY <2>1, StepInv, RefuseInv, FollowStep, FollowRefuse DEF NextRefusing
  <2>2. ASSUME IInv, FollowInv, UNCHANGED <<vars, refused>>
        PROVE  (IInv /\ FollowInv)'
    BY <2>2, StepInv DEF vars, FollowInv, LocalDocument
  <2> QED
    BY <2>1, <2>2
<1> QED
  BY <1>1, <1>2, PTL DEF SpecRefusing

\* EveryoneAccountedFor, when the database may refuse any number of writes at
\* any time: no version of the tournament, taken back or not, forgets a group,
\* lists an entrant twice, or counts a group as winner and as loser.
THEOREM RefusalKeepsField == SpecRefusing => []EveryoneAccountedFor
<1>1. IInv => EveryoneAccountedFor
  BY AccountedInv
<1> QED
  BY <1>1, RefusingInvAlways, PTL

\* ScreenIsOfTheDocument, for every field, height of the screen and number of
\* refusals: with nothing left on the main queue, an open bracket shows the
\* rounds of the document the client has, so no round that was taken back is
\* played on.
THEOREM ScreenFollows == SpecRefusing => []ScreenIsOfTheDocument
<1>1. FollowInv => ScreenIsOfTheDocument
  BY DEF FollowInv, ScreenIsOfTheDocument, SameRounds
<1> QED
  BY <1>1, RefusingInvAlways, PTL
=============================================================================
