---------------------------- MODULE VersionedStore ----------------------------
(***************************************************************************)
(* What the StateStore promises (state.rs:74-81): a map from keys to       *)
(* versioned values in which an apply increments the counter, replaces the *)
(* value and records the change in one step.                               *)
(***************************************************************************)
EXTENDS Naturals, Sequences

CONSTANTS Keys, Values, Absent, MaxDeltaLog

VARIABLES store,   \* key -> [version, value], or Absent
          clock,   \* the version counter
          deltas   \* key -> the most recent changes, oldest first

vars == <<store, clock, deltas>>

Init ==
    /\ store = [k \in Keys |-> Absent]
    /\ clock = 0
    /\ deltas = [k \in Keys |-> <<>>]

ValueOf(k) == IF store[k] = Absent THEN Absent ELSE store[k].value

\* Record a change of key k, keeping the last MaxDeltaLog ones.
Recorded(k, d) ==
    LET l == Append(deltas[k], d)
    IN [deltas EXCEPT ![k] = IF Len(l) > MaxDeltaLog THEN Tail(l) ELSE l]

Apply(k, v) ==
    /\ clock' = clock + 1
    /\ store' = [store EXCEPT ![k] = [version |-> clock + 1, value |-> v]]
    /\ deltas' = IF ValueOf(k) = v THEN deltas
                 ELSE Recorded(k, [version |-> clock + 1, from |-> ValueOf(k),
                                   to |-> v])

Delete(k) ==
    /\ store[k] # Absent
    /\ clock' = clock + 1
    /\ store' = [store EXCEPT ![k] = Absent]
    /\ deltas' = Recorded(k, [version |-> clock + 1, from |-> ValueOf(k),
                              to |-> Absent])

Next == \E k \in Keys : Delete(k) \/ \E v \in Values : Apply(k, v)

Spec == Init /\ [][Next]_vars
=============================================================================
