----------------------------- MODULE MCWritePool -----------------------------
(* An instance of WritePool for TLC: two tasks send to one session through a *)
(* pool of two workers; one message cannot be encoded.                       *)
EXTENDS WritePool

CONSTANTS s1, s2, w1, w2, h1

MCSenders == {s1, s2}
MCWorkers == {w1, w2}
MCHandles == {h1}
MCUnencodable == {<<s1, 1>>}
=============================================================================
