------------------------------ MODULE Knockout ------------------------------
(***************************************************************************)
(* What a tournament promises everyone who watches its document: a history *)
(* of fields, in which each round lets exactly half of its seats through,  *)
(* nobody comes back, and no FREE group gets past its first matchup.  The  *)
(* one thing that may be corrected is the champion.                        *)
(***************************************************************************)
EXTENDS Integers, Sequences, FiniteSets

CONSTANTS
  Field,    \* the names that enter
  Free,     \* the name of the groups that only fill seats
  Length    \* how many rounds there are: 2^seats in the first

VARIABLE history    \* the names in each round's list, the first to the latest

KInit == history = <<Field>>

Latest == history[Len(history)]

PlayRound ==
  /\ Len(history) <= Length
  /\ \E through \in SUBSET (Latest \ {Free}) :
       /\ Cardinality(through) = 2^(Length - Len(history))
       /\ history' = Append(history, through)

\* The final is decided once more.
Redecide ==
  /\ Len(history) > Length
  /\ \E champion \in history[Length] \ {Free} : history' = Append(history, {champion})

KNext == PlayRound \/ Redecide
KSpec == KInit /\ [][KNext]_history
=============================================================================
