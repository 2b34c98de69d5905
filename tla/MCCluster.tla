----------------------------- MODULE MCCluster -----------------------------
(* Two nodes, one with a log directory, and one key. *)
EXTENDS Cluster

CONSTANTS a, b, k1, v1, v2

TwoNodes == {a, b}
OneKey == {k1}
TwoValues == {v1, v2}
OneLogs == {a}
=============================================================================
