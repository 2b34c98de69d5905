---------------------------- MODULE MCStateStore ----------------------------
(* Instances of StateStore for TLC. *)
EXTENDS StateStore

CONSTANTS w1, w2, k1, k2, v1, v2

OneWriter == {w1}
TwoWriters == {w1, w2}
OneKey == {k1}
TwoKeys == {k1, k2}
OneValue == {v1}
TwoValues == {v1, v2}
=============================================================================
