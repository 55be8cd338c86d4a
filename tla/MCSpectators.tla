---------------------------- MODULE MCSpectators ----------------------------
(* A host and one or two viewers of a small tournament for TLC. *)
EXTENDS Spectators

Two == <<"A", "B">>
Three == <<"A", "B", "C">>
Four == <<"A", "B", "C", "D">>
Five == <<"A", "B", "C", "D", "E">>
Names == {"A", "B", "C", "D", "E", "FREE"}
=============================================================================
