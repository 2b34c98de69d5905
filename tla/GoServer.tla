------------------------------ MODULE GoServer ------------------------------
(***************************************************************************)
(* The Go server (sodp-go): the store, the asynchronous fan-out with one   *)
(* goroutine per key, the bounded Send channel of a session, the handlers  *)
(* of WATCH, RESUME, UNWATCH and CALL, and the TypeScript client.          *)
(*                                                                         *)
(* A version names the write it was given to.  The value of a key is Nil   *)
(* or the sequence of the writes it consists of: state.set, patch and      *)
(* set_in leave a new value, state.append adds an element, and the client  *)
(* applies the delta of each to the value it holds.  store runs under its  *)
(* RWMutex, so its operations are single steps; the steps of a handler are *)
(* the points where another goroutine can come between.                    *)
(*                                                                         *)
(* ses, bus, store and client are records of the fields of a session, of   *)
(* the FanoutBus entry of a key, of a key's entry and ring, and of         *)
(* SodpClient.  sent, spoiled and hist are history.                        *)
(***************************************************************************)
EXTENDS Naturals, Sequences, FiniteSets, SequencesExt

CONSTANTS Keys, Sessions, Mutators, Nil,
          Mutations,      \* what the application does: "set", "append", ...
          Methods,        \* what the client calls, the same
          Watchable,      \* the keys the client watches and calls
          WatchLists,     \* the arguments of watchMany
          Refused,        \* the types of the requests that may be refused
          LogCap,         \* logCap
          JobCap,         \* capacity of a fan-out channel
          Backpressure,   \* capacity of Send
          WatchLimit,     \* maxWatches
          MaxMutations, MaxRequests, MaxLosses, MaxReaps

VARIABLES store, global, bus, ses, at, client, hist, used

vars == <<store, global, bus, ses, at, client, hist, used>>

Actors == Sessions \cup Mutators
FirstStreamID == 10

\* Where a goroutine is: the key and delta it works on, the keys and deltas
\* still to do, and the channel, stream or version it has read.
Idle == [pc |-> "idle", key |-> Nil, delta |-> Nil, keys |-> <<>>, stream |-> 0,
         first |-> TRUE, deltas |-> <<>>, since |-> 0, asof |-> 0, value |-> Nil,
         version |-> 0, ch |-> 0]

Init ==
    /\ store = [k \in Keys |-> [value |-> Nil, version |-> 0, ring |-> <<>>]]
    /\ global = 0
    /\ bus = [k \in Keys |-> [subs |-> <<>>, alive |-> FALSE, ch |-> 0,
                              jobs |-> <<>>, job |-> Nil, todo |-> <<>>]]
    /\ ses = [s \in Sessions |->
                 [phase |-> "none", watches |-> {}, nextStream |-> FirstStreamID,
                  inbox |-> <<>>, send |-> <<>>,
                  sent |-> [k \in Keys |-> 0], spoiled |-> {}]]
    /\ at = [a \in Actors |-> Idle]
    /\ client = [conn |-> 0, view |-> [k \in Keys |-> Nil], streamToKey |-> {},
                 nextStreamId |-> FirstStreamID]
    /\ hist = [k \in Keys |-> <<>>]
    /\ used = [mutations |-> 0, requests |-> 0, losses |-> 0, reaps |-> 0]

Goto(a, pc) == at' = [at EXCEPT ![a].pc = pc]
Done(a) == at' = [at EXCEPT ![a] = Idle]

-----------------------------------------------------------------------------
(* The store *)

\* What a delta does to the value it is applied to.
ApplyOp(v, d) ==
    CASE d.op = "set" -> <<d.version>>
      [] d.op = "append" -> Append(IF v = Nil THEN <<>> ELSE v, d.version)
      [] d.op = "delete" -> Nil

\* ringLog.push
RingPush(ring, d) ==
    IF Len(ring) < LogCap THEN Append(ring, d) ELSE Append(Tail(ring), d)

DeltasSinceUnchecked(k, n) ==
    SelectSeq(store[k].ring, LAMBDA d : d.version > n)

\* DeltasSince: nil, here <<>>, when the ring does not reach back to n
DeltasSince(k, n) ==
    IF store[k].ring = <<>> \/ store[k].ring[1].version > n + 1 THEN <<>>
    ELSE SelectSeq(store[k].ring, LAMBDA d : d.version > n)

LastVersion(k) == IF hist[k] = <<>> THEN 0 ELSE Last(hist[k]).version

\* Apply, Append and Delete; the delta is Nil for a value that is there already
\* (or a new key above maxKeys) and for the deletion of a key that is not.  next
\* is where the caller goes on with a delta and without.
Mutate(a, k, m, next) ==
    LET none == m = "same" \/ (m = "delete" /\ store[k].version = 0)
        d == [key |-> k, version |-> global + 1, op |-> m]
    IN /\ at' = [at EXCEPT ![a] = [Idle EXCEPT !.pc = IF none THEN next[2] ELSE next[1],
                                               !.key = k,
                                               !.delta = IF none THEN Nil ELSE d]]
       /\ IF none THEN UNCHANGED <<store, global, hist>>
          ELSE /\ global' = global + 1
               /\ store' = [store EXCEPT ![k] =
                     [value |-> ApplyOp(@.value, d),
                      version |-> IF m = "delete" THEN 0 ELSE global + 1,
                      ring |-> RingPush(@.ring, d)]]
               /\ hist' = [hist EXCEPT ![k] = Append(@, d)]

-----------------------------------------------------------------------------
(* WritePool.Send: a frame that finds the channel full is dropped *)

\* n is the version up to which the frame brings the key.  A key is spoiled when
\* a frame of it was dropped, is older than one before it, or repeats an append.
Push(x, f, n) ==
    LET full == Len(x.send) >= Backpressure
        late == \/ n < x.sent[f.key]
                \/ f.type = "DELTA" /\ f.op = "append" /\ n = x.sent[f.key]
    IN IF f.type \in {"RESULT", "ERROR"}
       THEN [x EXCEPT !.send = IF full THEN @ ELSE Append(@, f)]
       ELSE [x EXCEPT !.send = IF full THEN @ ELSE Append(@, f),
                      !.sent[f.key] = IF full \/ late THEN @ ELSE n,
                      !.spoiled = IF full \/ late THEN @ \cup {f.key} ELSE @]

DeltaFrame(st, d) ==
    [type |-> "DELTA", stream |-> st, key |-> d.key, version |-> d.version,
     op |-> d.op]
Reply(type) == [type |-> type]

-----------------------------------------------------------------------------
(* The fan-out *)

SubscribersOf(k) == {x.session : x \in Range(bus[k].subs)}

\* The delta of actor a reaches no subscriber of k but a itself, which has its own.
Lost(a, k) ==
    ses' = [s \in Sessions |->
               IF s \in SubscribersOf(k) \ {a}
               THEN [ses[s] EXCEPT !.spoiled = @ \cup {k}] ELSE ses[s]]

\* Subscribe starts the goroutine of the key if there is none.
Subscribed(k, s, st) ==
    [bus EXCEPT ![k].subs = Append(@, [session |-> s, stream |-> st]),
                ![k].alive = TRUE]

\* Broadcast reads the channel of the key under the lock ...
Broadcast(a) ==
    /\ at[a].pc = "broadcast"
    /\ IF bus[at[a].key].alive
       THEN /\ at' = [at EXCEPT ![a].pc = "push", ![a].ch = bus[at[a].key].ch]
            /\ UNCHANGED ses
       ELSE Done(a) /\ Lost(a, at[a].key)
    /\ UNCHANGED <<store, global, bus, client, hist, used>>

\* ... and sends on it without; nobody reads a channel that was reaped
PushJob(a) ==
    LET b == bus[at[a].key]
    IN /\ at[a].pc = "push"
       /\ IF b.alive /\ b.ch = at[a].ch /\ Len(b.jobs) < JobCap
          THEN /\ bus' = [bus EXCEPT ![at[a].key].jobs =
                             Append(@, [delta |-> at[a].delta, sender |-> a])]
               /\ UNCHANGED ses
          ELSE UNCHANGED bus /\ Lost(a, at[a].key)
       /\ Done(a)
       /\ UNCHANGED <<store, global, client, hist, used>>

\* fanoutWorker takes a job and deliver copies the list of subscribers
TakeJob(k) ==
    /\ bus[k].alive /\ bus[k].job = Nil /\ bus[k].jobs # <<>>
    /\ bus' = [bus EXCEPT ![k].job = Head(bus[k].jobs).delta,
                 ![k].jobs = Tail(@),
                 ![k].todo = SelectSeq(bus[k].subs,
                     LAMBDA x : x.session # Head(bus[k].jobs).sender)]
    /\ UNCHANGED <<store, global, ses, at, client, hist, used>>

DeliverNextBlocking(k) ==
    /\ bus[k].job # Nil
    /\ IF bus[k].todo = <<>>
       THEN bus' = [bus EXCEPT ![k].job = Nil] /\ UNCHANGED ses
       ELSE LET x == Head(bus[k].todo)
            IN /\ Len(ses[x.session].send) < Backpressure
               /\ ses' = [ses EXCEPT ![x.session] =
                     Push(@, DeltaFrame(x.stream, bus[k].job), bus[k].job.version)]
               /\ bus' = [bus EXCEPT ![k].todo = Tail(@)]
    /\ UNCHANGED <<store, global, at, client, hist, used>>

\* deliver sends to the copied subscribers in turn
DeliverNext(k) ==
    /\ bus[k].job # Nil
    /\ IF bus[k].todo = <<>>
       THEN bus' = [bus EXCEPT ![k].job = Nil] /\ UNCHANGED ses
       ELSE LET x == Head(bus[k].todo)
            IN /\ ses' = [ses EXCEPT ![x.session] =
                     Push(@, DeltaFrame(x.stream, bus[k].job), bus[k].job.version)]
               /\ bus' = [bus EXCEPT ![k].todo = Tail(@)]
    /\ UNCHANGED <<store, global, at, client, hist, used>>

\* fanoutIdleTimeout: the goroutine ends, whether or not there are subscribers
Reap(k) ==
    /\ bus[k].alive /\ bus[k].job = Nil /\ bus[k].jobs = <<>>
    /\ used.reaps < MaxReaps /\ used' = [used EXCEPT !.reaps = @ + 1]
    /\ bus' = [bus EXCEPT ![k].alive = FALSE, ![k].ch = @ + 1]
    /\ UNCHANGED <<store, global, ses, at, client, hist>>
-----------------------------------------------------------------------------
(* The handlers of a session: readPump runs one at a time *)

\* A request is taken from the socket.
Takes(s, type) ==
    /\ at[s].pc = "idle" /\ ses[s].phase \in {"open", "gone"}
    /\ ses[s].inbox # <<>> /\ Head(ses[s].inbox).type = type
Taken(s) == [ses EXCEPT ![s].inbox = Tail(@)]
Request(s) == Head(ses[s].inbox)

\* A bad frame or key, authorizeKey, CheckRate: one ERROR, whatever was asked.
Refuse(s) ==
    /\ \E type \in Refused : Takes(s, type)
    /\ ses' = [ses EXCEPT ![s] = Push([@ EXCEPT !.inbox = Tail(@)], Reply("ERROR"), 0)]
    /\ UNCHANGED <<store, global, bus, at, client, hist, used>>

HandleWatch(s) ==
    /\ Takes(s, "WATCH")
    /\ at' = [at EXCEPT ![s] = [Idle EXCEPT !.pc = "watch", !.keys = Request(s).keys,
                                            !.stream = Request(s).stream]]
    /\ ses' = Taken(s)
    /\ UNCHANGED <<store, global, bus, client, hist, used>>

\* The first key of a frame has the stream the client gave, the others get the
\* next of the session's own.
StreamFor(s) == IF at[s].first THEN at[s].stream ELSE ses[s].nextStream

Registered(s, k, st) ==
    [ses[s] EXCEPT !.watches = {w \in @ : w[1] # st} \cup {<<st, k>>},
                   !.nextStream = IF at[s].first THEN @ ELSE @ + 1]

\* AddWatch overwrites the stream's entry; then Subscribe
AddWatch(s) ==
    LET k == Head(at[s].keys)
        st == StreamFor(s)
    IN /\ at[s].pc = "watch"
       /\ IF Cardinality(ses[s].watches) >= WatchLimit
          THEN /\ ses' = [ses EXCEPT ![s] = Push(@, Reply("ERROR"), 0)]
               /\ Done(s) /\ UNCHANGED bus
          ELSE /\ ses' = [ses EXCEPT ![s] = Registered(s, k, st)]
               /\ bus' = Subscribed(k, s, st)
               /\ at' = [at EXCEPT ![s].pc = "get", ![s].key = k, ![s].ch = st]
       /\ UNCHANGED <<store, global, client, hist, used>>

Get(s) ==
    /\ at[s].pc = "get"
    /\ at' = [at EXCEPT ![s].pc = "init", ![s].value = store[at[s].key].value,
                        ![s].version = store[at[s].key].version,
                        ![s].asof = LastVersion(at[s].key)]
    /\ UNCHANGED <<store, global, bus, ses, client, hist, used>>

SendInit(s) ==
    /\ at[s].pc = "init"
    /\ ses' = [ses EXCEPT ![s] =
          Push(@, [type |-> "STATE_INIT", stream |-> at[s].ch, key |-> at[s].key,
                   version |-> at[s].version, value |-> at[s].value], at[s].asof)]
    /\ at' = [at EXCEPT ![s] =
          IF Len(@.keys) = 1 THEN Idle
          ELSE [Idle EXCEPT !.pc = "watch", !.keys = Tail(at[s].keys), !.first = FALSE]]
    /\ UNCHANGED <<store, global, bus, client, hist, used>>

\* handleResume reads the deltas first; without any it goes on as handleWatch.
\* since_version is taken from a 64-bit encoding only: a number in a shorter one
\* decodes to another type and counts as 0.
HandleResume(s) ==
    /\ Takes(s, "RESUME")
    /\ \E n \in {0, Request(s).since} :
          LET k == Request(s).keys[1]
          IN at' = [at EXCEPT ![s] =
                [Idle EXCEPT !.pc = IF DeltasSince(k, n) = <<>> THEN "watch"
                                    ELSE "resubscribe",
                             !.keys = <<k>>, !.key = k, !.since = n,
                             !.stream = Request(s).stream, !.asof = LastVersion(k),
                             !.deltas = DeltasSince(k, n)]]
    /\ ses' = Taken(s)
    /\ UNCHANGED <<store, global, bus, client, hist, used>>

Resubscribe(s) ==
    /\ at[s].pc = "resubscribe"
    /\ IF Cardinality(ses[s].watches) >= WatchLimit
       THEN /\ ses' = [ses EXCEPT ![s] = Push(@, Reply("ERROR"), 0)]
            /\ Done(s) /\ UNCHANGED bus
       ELSE /\ ses' = [ses EXCEPT ![s] = Registered(s, at[s].key, at[s].stream)]
            /\ bus' = Subscribed(at[s].key, s, at[s].stream)
            /\ Goto(s, "replay")
    /\ UNCHANGED <<store, global, client, hist, used>>

Replay(s) ==
    /\ at[s].pc = "replay"
    /\ LET d == Head(at[s].deltas)
       IN ses' = [ses EXCEPT ![s] = Push(@, DeltaFrame(at[s].stream, d), d.version)]
    /\ at' = [at EXCEPT ![s] = IF Len(@.deltas) = 1 THEN Idle
                               ELSE [@ EXCEPT !.deltas = Tail(@)]]
    /\ UNCHANGED <<store, global, bus, client, hist, used>>

\* Unsubscribe: the last subscriber takes the place of the one removed
Unsubscribed(k, s, st) ==
    LET subs == bus[k].subs
        i == SelectInSeq(subs, LAMBDA x : x = [session |-> s, stream |-> st])
    IN IF i = 0 THEN bus
       ELSE [bus EXCEPT ![k].subs = Front([subs EXCEPT ![i] = Last(subs)])]

\* The client sends UNWATCH with stream 0: StreamForKey picks a watch of the key.
HandleUnwatch(s) ==
    LET k == Request(s).keys[1]
        mine == {w \in ses[s].watches : w[2] = k}
    IN /\ Takes(s, "UNWATCH")
       /\ IF mine = {} THEN ses' = Taken(s) /\ UNCHANGED bus
          ELSE \E w \in mine :
                 /\ ses' = [Taken(s) EXCEPT ![s].watches = @ \ {w}]
                 /\ bus' = Unsubscribed(k, s, w[1])
       /\ UNCHANGED <<store, global, at, client, hist, used>>

HandleCall(s) ==
    /\ Takes(s, "CALL")
    /\ Mutate(s, Request(s).keys[1], Request(s).method, <<"result", "result">>)
    /\ ses' = Taken(s)
    /\ UNCHANGED <<bus, client, used>>

SendResult(s) ==
    /\ at[s].pc = "result"
    /\ ses' = [ses EXCEPT ![s] = Push(@, Reply("RESULT"), 0)]
    /\ IF at[s].delta = Nil THEN Done(s) ELSE Goto(s, "direct")
    /\ UNCHANGED <<store, global, bus, client, hist, used>>

SendDeltaDirectSkips(s) ==
    /\ at[s].pc = "direct"
    /\ Goto(s, "broadcast")
    /\ UNCHANGED <<store, global, bus, ses, client, hist, used>>

\* The fan-out skips the caller, who gets the DELTA on one stream of the key.
SendDeltaDirect(s) ==
    LET mine == {w \in ses[s].watches : w[2] = at[s].key}
        d == at[s].delta
    IN /\ at[s].pc = "direct"
       /\ IF mine = {} THEN UNCHANGED ses
          ELSE \E w \in mine : ses' = [ses EXCEPT ![s] =
                  Push(@, DeltaFrame(w[1], d), d.version)]
       /\ Goto(s, "broadcast")
       /\ UNCHANGED <<store, global, bus, client, hist, used>>

\* Mutate, MutateAppend and MutateDelete, called by the application
ServerMutate(m) ==
    /\ at[m].pc = "idle" /\ used.mutations < MaxMutations
    /\ used' = [used EXCEPT !.mutations = @ + 1]
    /\ \E k \in Keys, method \in Mutations : Mutate(m, k, method, <<"broadcast", "idle">>)
    /\ UNCHANGED <<bus, ses, client>>

RemoveSession(s) ==
    [k \in Keys |-> [bus[k] EXCEPT !.subs = SelectSeq(@, LAMBDA x : x.session # s)]]

CloseEarly(s) ==
    /\ \/ ses[s].phase = "gone" /\ UNCHANGED used
       \/ /\ ses[s].phase = "open" /\ used.losses < MaxLosses
          /\ used' = [used EXCEPT !.losses = @ + 1]
    /\ ses' = [ses EXCEPT ![s].phase = "closed", ![s].inbox = <<>>, ![s].send = <<>>]
    /\ bus' = RemoveSession(s)
    /\ UNCHANGED <<store, global, at, client, hist>>

\* readPump ends, on a lost connection or a missed pong, and HandleWS cleans up
Close(s) ==
    /\ at[s].pc = "idle"
    /\ \/ ses[s].phase = "gone" /\ UNCHANGED used
       \/ /\ ses[s].phase = "open" /\ used.losses < MaxLosses
          /\ used' = [used EXCEPT !.losses = @ + 1]
    /\ ses' = [ses EXCEPT ![s].phase = "closed", ![s].inbox = <<>>, ![s].send = <<>>]
    /\ bus' = RemoveSession(s)
    /\ UNCHANGED <<store, global, at, client, hist>>
-----------------------------------------------------------------------------
(* The client (client-ts); streamToKey is a set of <<stream, key>> pairs *)

NewEntry == [version |-> 0, value |-> Nil]
Frame(type, ks, st, n, m) ==
    [type |-> type, keys |-> ks, stream |-> st, since |-> n, method |-> m]
Watched == {k \in Keys : client.view[k] # Nil}

\* connect and onReady: RESUME the keys with a version, WATCH the others
Connect ==
    /\ client.conn = 0
    /\ \E s \in Sessions :
          /\ ses[s].phase = "none" /\ \A u \in Sessions : ses[u].phase = "none" => s <= u
          /\ LET ks == SetToSeq(Watched)
                 Again(i) ==
                    Frame(IF client.view[ks[i]].version > 0 THEN "RESUME" ELSE "WATCH",
                          <<ks[i]>>, FirstStreamID + i - 1,
                          client.view[ks[i]].version, Nil)
             IN /\ ses' = [ses EXCEPT ![s].phase = "open",
                                      ![s].inbox = [i \in DOMAIN ks |-> Again(i)]]
                /\ client' = [client EXCEPT !.conn = s,
                                 !.nextStreamId = FirstStreamID + Len(ks)]
    /\ UNCHANGED <<store, global, bus, at, hist, used>>

Disconnected == client' = [client EXCEPT !.conn = 0, !.streamToKey = {},
                                         !.nextStreamId = FirstStreamID]

\* The network loses the connection.
Lose ==
    /\ client.conn # 0 /\ used.losses < MaxLosses
    /\ used' = [used EXCEPT !.losses = @ + 1]
    /\ ses' = [ses EXCEPT ![client.conn].phase = IF @ = "open" THEN "gone" ELSE @]
    /\ Disconnected
    /\ UNCHANGED <<store, global, bus, at, hist>>

OnClose ==
    /\ client.conn # 0 /\ ses[client.conn].phase = "closed"
    /\ Disconnected
    /\ UNCHANGED <<store, global, bus, ses, at, hist, used>>

\* The client sends a request; its copies and streams become c.
Sends(f, c) ==
    /\ client.conn # 0 /\ used.requests < MaxRequests
    /\ used' = [used EXCEPT !.requests = @ + 1]
    /\ ses' = [ses EXCEPT ![client.conn].inbox =
                  IF ses[client.conn].phase = "open" THEN Append(@, f) ELSE @]
    /\ client' = c
    /\ UNCHANGED <<store, global, bus, at, hist>>

Watching(ks) ==
    [client EXCEPT !.nextStreamId = @ + 1,
        !.view = [k \in Keys |-> IF k \in Range(ks) /\ @[k] = Nil THEN NewEntry ELSE @[k]]]

Watch(k) ==
    /\ client.view[k] = Nil
    /\ Sends(Frame("WATCH", <<k>>, client.nextStreamId, 0, Nil), Watching(<<k>>))

WatchMany(ks) ==
    Sends(Frame("WATCH", ks, client.nextStreamId, 0, Nil), Watching(ks))

Unwatch(k) ==
    LET bound == {p \in client.streamToKey : p[2] = k}
    IN /\ client.view[k] # Nil
       /\ \E gone \in IF bound = {} THEN {{}} ELSE {{p} : p \in bound} :
             Sends(Frame("UNWATCH", <<k>>, 0, 0, Nil),
                   [client EXCEPT !.view[k] = Nil, !.streamToKey = @ \ gone])

Call(k, m) == Sends(Frame("CALL", <<k>>, 0, 0, m), client)

OnStateInit(f) ==
    IF client.view[f.key] = Nil THEN UNCHANGED client
    ELSE client' = [client EXCEPT
            !.streamToKey = {p \in @ : p[1] # f.stream} \cup {<<f.stream, f.key>>},
            !.view[f.key] = [version |-> f.version, value |-> f.value]]

\* routed by the stream; ignored when it is not bound to a watched key
OnDelta(f) ==
    LET ks == {p[2] : p \in {x \in client.streamToKey : x[1] = f.stream}} \cap Watched
    IN client' = [client EXCEPT !.view = [k \in Keys |->
          IF k \in ks THEN [version |-> f.version, value |-> ApplyOp(@[k].value, f)]
          ELSE @[k]]]

\* drain writes the next frame of Send and the client handles it
Receive ==
    LET s == client.conn
    IN /\ s # 0 /\ ses[s].send # <<>>
       /\ LET f == Head(ses[s].send)
          IN CASE f.type = "STATE_INIT" -> OnStateInit(f)
               [] f.type = "DELTA" -> OnDelta(f)
               [] OTHER -> UNCHANGED client
       /\ ses' = [ses EXCEPT ![s].send = Tail(@)]
       /\ UNCHANGED <<store, global, bus, at, hist, used>>

-----------------------------------------------------------------------------
Handler(s) ==
    \/ HandleWatch(s) \/ AddWatch(s) \/ Get(s) \/ SendInit(s)
    \/ HandleResume(s) \/ Resubscribe(s) \/ Replay(s) \/ HandleUnwatch(s)
    \/ HandleCall(s) \/ SendResult(s) \/ SendDeltaDirect(s)
    \/ Broadcast(s) \/ PushJob(s)
FanoutWorker(k) == TakeJob(k) \/ DeliverNext(k)

Next ==
    \/ \E s \in Sessions : Handler(s) \/ Refuse(s) \/ Close(s)
    \/ \E m \in Mutators : ServerMutate(m) \/ Broadcast(m) \/ PushJob(m)
    \/ \E k \in Keys : FanoutWorker(k) \/ Reap(k)
    \/ Connect \/ Lose \/ OnClose \/ Receive
    \/ \E k \in Watchable :
          Watch(k) \/ Unwatch(k) \/ \E method \in Methods : Call(k, method)
    \/ \E ks \in WatchLists : WatchMany(ks)

Spec == Init /\ [][Next]_vars
\* Goroutines are scheduled.  Nothing is assumed of the client or the network.
FairSpec ==
    /\ Spec
    /\ \A s \in Sessions : WF_vars(Handler(s))
    /\ \A m \in Mutators : WF_vars(Broadcast(m) \/ PushJob(m))
    /\ \A k \in Keys : WF_vars(FanoutWorker(k))

-----------------------------------------------------------------------------
(* Properties *)

\* DeltasSince (state.go:229-231) returns nil or everything: what RESUME replays
\* is each change of the key since the client's version, although the ring has
\* dropped old ones and versions of one key are not consecutive.
ReplayComplete ==
    \A s \in Sessions : at[s].pc = "resubscribe" =>
        at[s].deltas = SelectSeq(hist[at[s].key], LAMBDA d :
                          d.version > at[s].since /\ d.version <= at[s].asof)

\* HandleWS ends with RemoveSession, after the last handler of the session: no
\* subscription outlives its session, although deliver still holds copies.
NoLeak ==
    \A s \in Sessions : ses[s].phase = "closed" =>
        \A k \in Keys : s \notin SubscribersOf(k)

Busy(k) == bus[k].jobs # <<>> \/ bus[k].job # Nil

\* Nothing is on its way to the client.
Settled ==
    /\ client.conn # 0 /\ ses[client.conn].phase = "open"
    /\ ses[client.conn].inbox = <<>> /\ ses[client.conn].send = <<>>
    /\ \A a \in Actors : at[a].pc = "idle"
    /\ \A k \in Keys : ~Busy(k)

Bound(k) == client.view[k] # Nil /\ \E p \in client.streamToKey : p[2] = k

\* A client that has everything the server sent it, on a stream it knows, holds
\* the value of the server (SPECIFICATION.md:636-638), unless a frame of the key
\* was dropped, lost with a goroutine that was reaped, or overtaken by another:
\* with asynchronous fan-out, direct DELTAs and reconnects these are the only ways
\* the copies can differ.
ConvergesUnlessSpoiled ==
    \A k \in Keys :
        (Settled /\ Bound(k) /\ k \notin ses[client.conn].spoiled) =>
            client.view[k].value = store[k].value

\* deliver never waits for a subscriber (fanout.go:226-234): the goroutine of a
\* key works off its jobs even when a client no longer reads.
FanoutNeverStalls == \A k \in Keys : []<>~Busy(k)
=============================================================================
