----------------------------- MODULE MCWatchSync -----------------------------
(* Instances of WatchSync for TLC: who calls what, and who watches. *)
EXTENDS WatchSync

CONSTANTS theWriter, theWatcher, theKey, fx, fy

CallOf(type, f, put) ==
    [NoRequest EXCEPT !.type = type, !.key = theKey, !.field = f, !.put = put]
Put(f, v) == [g \in {f} |-> v]

\* the writer patches or deletes the key
PatchOrDelete ==
    [c \in Clients |-> IF c = theWriter
        THEN {CallOf("patch", Null, Put(fy, 1)), CallOf("delete", Null, Null)}
        ELSE {}]
\* everyone has a presence path and may patch another member
PresenceOrPatch ==
    [c \in Clients |-> {CallOf("presence", fx, Put(fx, 1)),
                        CallOf("patch", Null, Put(fy, 1))}]

\* <<calls, losses, watch operations>>
SyncBudgets == {<<2, 1, 1>>}
StaleBudgets == {<<2, 0, 1>>}
CallBudgets == {<<0, 1, 4>>, <<1, 0, 3>>, <<1, 1, 1>>, <<2, 1, 0>>}

AllWatch == [c \in Clients |-> Keys]
OnlyA == [c \in Clients |-> IF c = theWatcher THEN Keys ELSE {}]
=============================================================================
