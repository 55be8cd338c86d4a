---------------------------- MODULE RefusedWrites ---------------------------
(***************************************************************************)
(* The host's phone when the database may refuse a write.  The client      *)
(* takes a refused write back, tells store's completion, which only prints *)
(* the error, and shows its listeners the document without that write: a   *)
(* bracket that is open goes back a round.                                 *)
(***************************************************************************)
EXTENDS HostBracket

CONSTANT MaxRefused    \* bound: the writes that are refused
ASSUME MaxRefusedAssumption == MaxRefused \in Nat

VARIABLE refused    \* how many were

\* Mutant of Refuse: the listeners are not told.
RefuseSilently ==
  /\ unsent # << >>
  /\ refused < MaxRefused
  /\ refused' = refused + 1
  /\ unsent' = Tail(unsent)
  /\ UNCHANGED <<server, snapshots, phase, screen, cells, winnerSelectedCount, alert>>

\* The oldest write is refused.  A later one writes the whole document, so what
\* the client shows only changes when there is none.
Refuse ==
  /\ unsent # << >>
  /\ refused < MaxRefused
  /\ refused' = refused + 1
  /\ unsent' = Tail(unsent)
  /\ snapshots' = IF phase = "open" /\ Len(unsent) = 1 /\ server # Head(unsent)
                    THEN Append(snapshots, server) ELSE snapshots
  /\ UNCHANGED <<server, phase, screen, cells, winnerSelectedCount, alert>>

InitRefusing == Init /\ refused = 0
NextRefusing == (Next /\ UNCHANGED refused) \/ Refuse
SpecRefusing == InitRefusing /\ [][NextRefusing]_<<vars, refused>> /\ Fairness
-----------------------------------------------------------------------------
NamesInRounds(t) == [k \in DOMAIN t.roundList |-> NamesOf(t.roundList[k])]

\* The host never goes on with rounds that were taken back: once the main queue
\* has run, the rounds on an open screen are those of the document that is
\* stored or on its way, picks of the current round aside.
ScreenIsOfTheDocument ==
  phase = "open" /\ screen.initialized /\ snapshots = << >> =>
    NamesInRounds(screen.tournament) = NamesInRounds(LocalDocument)

\* A host who ends rounds and stays ends up with the rounds the database has,
\* taken or refused, as long as not every write is refused.
HostLearnsTheOutcome ==
  phase = "open"
    ~> (phase = "open" => NamesInRounds(screen.tournament) = NamesInRounds(server))
=============================================================================
