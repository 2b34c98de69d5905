--------------------------- MODULE MCClientCalls ---------------------------
(* Two calls of each client over two connections, with and without AUTH. *)
EXTENDS ClientCalls

TwoCalls == 1..2
TwoConns == 1..2
=============================================================================
