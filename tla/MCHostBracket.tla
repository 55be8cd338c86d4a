--------------------------- MODULE MCHostBracket ----------------------------
(* Small tournaments for TLC. *)
EXTENDS HostBracket

Three == <<"A", "B", "C">>
Four == <<"A", "B", "C", "D">>
Five == <<"A", "B", "C", "D", "E">>
Names == {"A", "B", "C", "D", "E", "F", "G", "H", "FREE"}
=============================================================================
