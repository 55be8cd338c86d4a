-------------------------- MODULE MCRefusedWrites ---------------------------
(* A tournament with two rounds for TLC. *)
EXTENDS RefusedWrites

Three == <<"A", "B", "C">>
Five == <<"A", "B", "C", "D", "E">>
Names == {"A", "B", "C", "D", "E", "FREE"}
=============================================================================
