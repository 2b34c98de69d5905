------------------------------ MODULE WatchSync ------------------------------
(***************************************************************************)
(* The server of module Server and the TypeScript client (client-ts) that  *)
(* keeps a local copy of the keys it watches.                              *)
(*                                                                         *)
(* A client has at most one connection.  Each connection is a session of   *)
(* the server, used once; the server may notice the loss of a connection   *)
(* long after the client has opened the next.  Deliver stands for the      *)
(* write task, the socket and the client's onmessage: a frame stays in the *)
(* session's channel until the client handles it.                          *)
(***************************************************************************)
EXTENDS Server

CONSTANTS Clients,
          Requests,      \* client -> the CALLs it may make
          Watchable,     \* client -> the keys it may watch
          Unreliable,    \* the clients whose connections fail
          Rejects,       \* the types of the requests the server may refuse
          Rewatches,     \* whether watchMany may name a key already watched
          Unsubscribes,  \* whether callbacks are removed
          Budgets        \* bounds <<calls, losses, watch operations>>

VARIABLES conn,          \* client -> its session, 0 when it has none
          view,          \* SodpClient.watches: key -> entry, or NoEntry
          streamToKey,   \* SodpClient.streamToKey: <<stream, key>> pairs
          skipped,       \* history: the keys onReady left out for want of callbacks
          calls, losses, watched    \* how much of the bounds is used

\* The CALLs a client can make, and the entries it keeps.
CallRequest ==
    [type : {"set", "delete"}, key : Keys, field : Fields \cup {Null},
     put : Value, since : {0}]
    \cup [type : {"patch", "set_in", "presence"}, key : Keys,
          field : Fields \cup {Null}, put : Objects, since : {0}]
ViewEntry == [version : Nat, value : Value, initialized : BOOLEAN,
              listening : BOOLEAN]

ASSUME WatchSyncAssumption ==
    /\ \A c \in Clients : Watchable[c] \subseteq Keys /\ Requests[c] \subseteq CallRequest
    /\ Null \notin ViewEntry

clientVars == <<conn, view, streamToKey, skipped>>
bounds == <<calls, losses, watched>>
vars == <<serverVars, clientVars, bounds>>

\* A behaviour stays within one of the budgets.
Within(a, b, c) == \E m \in Budgets : a <= m[1] /\ b <= m[2] /\ c <= m[3]

NoEntry == Null
\* listening: the entry has callbacks
NewEntry == [version |-> 0, value |-> Null, initialized |-> FALSE,
             listening |-> TRUE]

Init ==
    /\ ServerInit
    /\ conn = [c \in Clients |-> 0]
    /\ view = [c \in Clients |-> [k \in Keys |-> NoEntry]]
    /\ streamToKey = [c \in Clients |-> {}]
    /\ skipped = [c \in Clients |-> {}]
    /\ calls = 0 /\ losses = 0 /\ watched = 0

-----------------------------------------------------------------------------
(* delta.ts *)

ApplyOps(v, ops) ==
    CASE ops.kind = "root" -> ops.put
      [] ops.kind = "remove" -> Null
      [] ops.kind = "fields" -> Without(Merge(v, ops.put), ops.del)

-----------------------------------------------------------------------------
(* The client's connection *)

Request(type, k, since) ==
    [NoRequest EXCEPT !.type = type, !.key = k, !.since = since]

\* onReady: RESUME what has a version, WATCH what has none, and skip what has
\* no callbacks
Resubscribe(c, k) ==
    IF view[c][k].version > 0 THEN Request("RESUME", k, view[c][k].version)
    ELSE Request("WATCH", k, 0)

\* The entries onReady passes over.
Deaf(c) == {k \in Keys : view[c][k] # NoEntry /\ ~view[c][k].listening}

\* a set in some order, as the client's Map lists its keys
Listings(S) == UNION {Bijection(1..n, S) : n \in 0..Cardinality(Keys)}

ConnectResumesOnly(c) ==
    /\ conn[c] = 0
    /\ \E s \in Sessions :
          /\ phase[s] = "none" /\ \A u \in Sessions : phase[u] = "none" => s <= u
          /\ conn' = [conn EXCEPT ![c] = s]
          /\ phase' = [phase EXCEPT ![s] = "open"]
          /\ \E ks \in Listings({k \in Keys : view[c][k] # NoEntry
                              /\ view[c][k].listening /\ view[c][k].version > 0}) :
                inbox' = [inbox EXCEPT ![s] =
                             [i \in DOMAIN ks |-> Resubscribe(c, ks[i])]]
    /\ skipped' = [skipped EXCEPT ![c] = Deaf(c)]
    /\ UNCHANGED <<storeVars, subscriptions, watches, presence, next_stream, at,
                   peer_gone, channelVars, writer, history, view, streamToKey,
                   bounds>>

\* connect, the server's accept, HELLO and onReady
Connect(c) ==
    /\ conn[c] = 0
    /\ \E s \in Sessions :
          /\ phase[s] = "none" /\ \A u \in Sessions : phase[u] = "none" => s <= u
          /\ conn' = [conn EXCEPT ![c] = s]
          /\ phase' = [phase EXCEPT ![s] = "open"]
          /\ \E ks \in Listings({k \in Keys : view[c][k] # NoEntry
                                                /\ view[c][k].listening}) :
                inbox' = [inbox EXCEPT ![s] =
                             [i \in DOMAIN ks |-> Resubscribe(c, ks[i])]]
    /\ skipped' = [skipped EXCEPT ![c] = Deaf(c)]
    /\ UNCHANGED <<storeVars, subscriptions, watches, presence, next_stream, at,
                   peer_gone, channelVars, writer, history, view, streamToKey,
                   bounds>>

\* onDisconnect keeps the entries and forgets the streams
Disconnected(c) ==
    /\ peer_gone' = [peer_gone EXCEPT ![conn[c]] = TRUE]
    /\ conn' = [conn EXCEPT ![c] = 0]
    /\ streamToKey' = [streamToKey EXCEPT ![c] = {}]
    /\ UNCHANGED <<storeVars, subscriptions, sessionVars, channelVars, writer,
                   history, view, skipped, calls, watched>>

\* the network loses the connection
Lose(c) ==
    /\ c \in Unreliable /\ conn[c] # 0 /\ Within(calls, losses + 1, watched)
    /\ losses' = losses + 1
    /\ Disconnected(c)

\* the server closed it
OnClose(c) ==
    /\ conn[c] # 0 /\ writer[conn[c]] = "stopped"
    /\ Disconnected(c)
    /\ UNCHANGED losses

-----------------------------------------------------------------------------
(* The client's requests *)

\* send: dropped when there is no connection
ToServer(c, r) ==
    inbox' = IF conn[c] = 0 THEN inbox
             ELSE [inbox EXCEPT ![conn[c]] = Append(@, r)]

\* watch: a second call for the key shares the entry and sends nothing
Watch(c, k) ==
    /\ Within(calls, losses, watched + 1) /\ watched' = watched + 1
    /\ \/ /\ view[c][k] = NoEntry
          /\ view' = [view EXCEPT ![c][k] = NewEntry]
          /\ ToServer(c, Request("WATCH", k, 0))
       \/ /\ view[c][k] # NoEntry /\ ~view[c][k].listening
          /\ view' = [view EXCEPT ![c][k].listening = TRUE]
          /\ UNCHANGED inbox
    /\ UNCHANGED <<storeVars, subscriptions, phase, watches, presence,
                   next_stream, at, peer_gone, channelVars, writer, history,
                   conn, streamToKey, skipped, calls, losses>>

\* watchMany sends WATCH for every key it is given
WatchMany(c, k) ==
    /\ Rewatches /\ Within(calls, losses, watched + 1) /\ watched' = watched + 1
    /\ view' = [view EXCEPT ![c][k] = IF @ = NoEntry THEN NewEntry
                                      ELSE [@ EXCEPT !.listening = TRUE]]
    /\ ToServer(c, Request("WATCH", k, 0))
    /\ skipped' = [skipped EXCEPT ![c] = @ \ {k}]
    /\ UNCHANGED <<storeVars, subscriptions, phase, watches, presence,
                   next_stream, at, peer_gone, channelVars, writer, history,
                   conn, streamToKey, calls, losses>>

\* the function watch returns, called for the last callback
Unsubscribe(c, k) ==
    /\ Unsubscribes /\ Within(calls, losses, watched + 1) /\ watched' = watched + 1
    /\ view[c][k] # NoEntry
    /\ view[c][k].listening
    /\ view' = [view EXCEPT ![c][k].listening = FALSE]
    /\ UNCHANGED <<serverVars, conn, streamToKey, skipped, calls, losses>>

\* unwatch forgets the entry and one stream
ClientUnwatch(c, k) ==
    /\ Within(calls, losses, watched + 1) /\ watched' = watched + 1
    /\ view[c][k] # NoEntry
    /\ ToServer(c, Request("UNWATCH", k, 0))
    /\ view' = [view EXCEPT ![c][k] = NoEntry]
    /\ LET sts == {w \in streamToKey[c] : w[2] = k}
       IN \/ \E w \in sts : streamToKey' = [streamToKey EXCEPT ![c] = @ \ {w}]
          \/ sts = {} /\ UNCHANGED streamToKey
    /\ skipped' = [skipped EXCEPT ![c] = @ \ {k}]
    /\ UNCHANGED <<storeVars, subscriptions, phase, watches, presence,
                   next_stream, at, peer_gone, channelVars, writer, history,
                   conn, calls, losses>>

Call(c) ==
    /\ conn[c] # 0 /\ Within(calls + 1, losses, watched) /\ calls' = calls + 1
    /\ \E r \in Requests[c] : ToServer(c, r)
    /\ UNCHANGED <<storeVars, subscriptions, phase, watches, presence,
                   next_stream, at, peer_gone, channelVars, writer, history,
                   clientVars, losses, watched>>

-----------------------------------------------------------------------------
(* The client's frames *)

\* routed by key; binds the stream
OnStateInit(c, f) ==
    IF view[c][f.key] = NoEntry THEN UNCHANGED <<view, streamToKey>>
    ELSE /\ streamToKey' = [streamToKey EXCEPT ![c] = @ \cup {<<f.stream, f.key>>}]
         /\ view' = [view EXCEPT ![c][f.key] =
                [@ EXCEPT !.version = f.version, !.value = f.value,
                          !.initialized = f.version > 0]]

\* routed by stream; ignored before the stream is bound
OnDelta(c, f) ==
    LET ks == {w[2] : w \in {x \in streamToKey[c] : x[1] = f.stream}}
    IN /\ view' = [view EXCEPT ![c] = [k \in Keys |->
              LET e == view[c][k]
              IN IF k \in ks /\ e # NoEntry
                 THEN [e EXCEPT !.version = f.version,
                                !.value = ApplyOps(e.value, f.ops),
                                !.initialized = f.ops.kind # "remove"]
                 ELSE e]]
       /\ UNCHANGED streamToKey

Deliver(c) ==
    /\ conn[c] # 0 /\ writer[conn[c]] = "run" /\ out[conn[c]] # <<>>
    /\ LET f == Head(out[conn[c]])
       IN CASE f.type = "STATE_INIT" -> OnStateInit(c, f)
            [] f.type = "DELTA" -> OnDelta(c, f)
            [] OTHER -> UNCHANGED <<view, streamToKey>>
    /\ out' = [out EXCEPT ![conn[c]] = Tail(@)]
    /\ UNCHANGED <<storeVars, subscriptions, sessionVars, peer_gone, cancelled,
                   writer, history, conn, skipped, bounds>>

-----------------------------------------------------------------------------
SessionTask(s) == (Handler(s) \/ Exit(s)) /\ UNCHANGED <<clientVars, bounds>>
WriteTask(s) == StopWriter(s) /\ UNCHANGED <<clientVars, bounds>>

Refuse(s) ==
    /\ Reject(s) /\ Head(inbox[s]).type \in Rejects
    /\ UNCHANGED <<clientVars, bounds>>

Timeout(s) ==
    /\ \E c \in Unreliable : conn[c] = s
    /\ Within(calls, losses + 1, watched) /\ losses' = losses + 1
    /\ Expire(s) /\ UNCHANGED <<clientVars, calls, watched>>

ClientStep(c) ==
    \/ Connect(c) \/ Lose(c) \/ OnClose(c) \/ Deliver(c) \/ Call(c)
    \/ \E k \in Watchable[c] : Watch(c, k) \/ WatchMany(c, k) \/ Unsubscribe(c, k)
                                \/ ClientUnwatch(c, k)

Next ==
    \/ \E s \in Sessions : SessionTask(s) \/ WriteTask(s) \/ Refuse(s) \/ Timeout(s)
    \/ \E c \in Clients : ClientStep(c)

Spec == Init /\ [][Next]_vars

\* Tasks are scheduled, sockets move and clients reconnect.
FairSpec ==
    /\ Spec
    /\ \A s \in Sessions : WF_vars(SessionTask(s)) /\ WF_vars(WriteTask(s))
    /\ \A c \in Clients : WF_vars(Connect(c)) /\ WF_vars(OnClose(c))
                          /\ WF_vars(Deliver(c))

-----------------------------------------------------------------------------
(* Properties *)

\* A session that is past the read of STATE_INIT for the stream.
Live(s, st) ==
    ~(at[s].stream = st /\ at[s].pc \in {"missed", "replay", "get"})

\* Version v of key k is still on its way to the subscribers.
InFlight(k, v) ==
    \E u \in Sessions :
       /\ Key(u) = k /\ at[u].version = v
       /\ at[u].pc \in {"log", "snapshot", "send", "direct"}

\* A frame on stream st told session s of version v, or the DELTA of its own
\* call did, on one of its streams for the key.
Knows(s, st, v) == <<st, v>> \in known[s] \/ <<0, v>> \in known[s]

\* subscribe_key registers the subscription before it reads the entry: every
\* change to a watched key is in the STATE_INIT the session read, or has a
\* DELTA in its channel (on the subscription's stream, or on one of its streams
\* if the session made the change itself), or its writer is still at the
\* fan-out.  Holds for every session that is not being evicted, whatever else
\* runs.
NoMissedUpdate ==
    \A k \in Keys : \A x \in Range(subscriptions[k]) :
       (~cancelled[x.session] /\ Live(x.session, x.stream)) =>
          \A v \in changes[k] :
             Knows(x.session, x.stream, v) \/ InFlight(k, v)

\* handle_call sends the caller's own DELTA before RESULT: a RESULT in the
\* channel of a session that watches the key follows the DELTA of its version.
\* The DELTA is on one of the session's streams for the key, not on each.
DeltaBeforeResult ==
    \A s \in Sessions, k \in Keys : ~cancelled[s] =>
       \A i \in DOMAIN out[s] :
          (out[s][i].type = "RESULT" /\ out[s][i].version \in changes[k]) =>
             \A st \in StreamsOf(s, k) :
                Live(s, st) => Knows(s, st, out[s][i].version)

\* handle_connection ends with remove_session: no subscription outlives its
\* session, although broadcasts of other sessions still hold copies of it.
NoLeak ==
    \A k \in Keys : \A x \in Range(subscriptions[k]) : phase[x.session] # "closed"

\* Nothing is on its way to client c.
Settled(c) ==
    /\ conn[c] # 0 /\ phase[conn[c]] = "open" /\ ~cancelled[conn[c]]
    /\ writer[conn[c]] = "run"
    /\ \A s \in Sessions : At(s, "idle")
    /\ inbox[conn[c]] = <<>> /\ out[conn[c]] = <<>>

\* The client has had an answer to its watch of key k.
Bound(c, k) == view[c][k] # NoEntry /\ \E p \in streamToKey[c] : p[2] = k

\* onDelta ignores a stream the client has not bound, so every stream the
\* fan-out still serves has to be bound: once nothing is on its way, the client
\* has bound each subscription of its session to a key it has an entry for.
\* Holds although the key may be watched twice, when one UNWATCH drops every
\* subscription, one of the session's streams and one of the client's.
SubscribedIsBound ==
    \A c \in Clients, k \in Keys : (Settled(c) /\ view[c][k] # NoEntry) =>
       \A x \in Range(subscriptions[k]) :
          x.session = conn[c] => <<x.stream, k>> \in streamToKey[c]

InSync(c, k) ==
    /\ view[c][k].value = entries[k].value
    /\ view[c][k].initialized = (entries[k] # Absent)

\* A client that has everything the server sent it holds the server's value.
Converges ==
    \A c \in Clients, k \in Keys :
       (Settled(c) /\ Bound(c, k)) => InSync(c, k)

\* The same, unless a DELTA overtook the STATE_INIT of the client's stream:
\* with one writer, who does not watch the key itself, this is the only way the
\* copies can differ, through lost connections, evictions, RESUME and deletes.
ConvergesUnlessRaced ==
    \A c \in Clients, k \in Keys :
       (Settled(c) /\ Bound(c, k)
           /\ \A st \in StreamsOf(conn[c], k) : st \notin raced[conn[c]]) =>
          InSync(c, k)

\* Session s has registered the path, or is running the call that does.
Owns(s, p) ==
    /\ phase[s] # "closed"
    /\ \/ p \in Range(presence[s])
       \/ at[s].req.type = "presence" /\ p = <<Key(s), at[s].req.field>>

\* handle_connection removes the presence paths of the session before it ends:
\* a path some closed session owned is gone, unless another session owns it or a
\* call put the member back without registering it.  A call that read the value
\* before the removal and inserts after it does so, as does a plain write.
PresenceCleared ==
    \A s \in Sessions : phase[s] = "closed" =>
       \A p \in Range(presence[s]) :
          p[2] \in Members(entries[p[1]].value) =>
             p[2] \in loose[p[1]] \/ \E u \in Sessions : Owns(u, p)

\* The client hears of updates of key k: a subscription of its session is on a
\* stream it has bound.
Hears(c, k) ==
    \E x \in Range(subscriptions[k]) :
       x.session = conn[c] /\ <<x.stream, k>> \in streamToKey[c]

\* Every watch of a client that keeps its connection hears of updates in the
\* end: requests that are not refused are answered, evicted clients reconnect
\* and onReady resumes their keys.  Except for an entry onReady passed over
\* because it had no callbacks: a later watch adds one and sends nothing.
EventuallyWatching ==
    <>[](\A c \in Clients, k \in Keys :
            (conn[c] # 0 /\ view[c][k] # NoEntry /\ view[c][k].listening
                /\ k \notin skipped[c]) => Hears(c, k))
=============================================================================
