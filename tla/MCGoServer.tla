----------------------------- MODULE MCGoServer -----------------------------
(* Instances of GoServer for TLC. *)
EXTENDS GoServer

CONSTANTS a, m

ListOfA == {<<a>>}
=============================================================================
