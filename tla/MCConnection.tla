---------------------------- MODULE MCConnection ----------------------------
(* Two connections for one place, half-second ticks.                         *)
EXTENDS Connection, TLC

CONSTANTS c1, c2

TwoConns == {c1, c2}
Symmetric == Permutations(TwoConns)

SomeTokens ==
    {[good |-> TRUE, exp |-> 2], [good |-> TRUE, exp |-> 0], [good |-> FALSE, exp |-> 2]}

OnePerSec == [o \in Ops |-> 1]
=============================================================================
