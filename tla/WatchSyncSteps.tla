--------------------------- MODULE WatchSyncSteps ---------------------------
(***************************************************************************)
(* The inductive invariant of WatchSync, what a step of any kind keeps of  *)
(* it, and the steps of the clients, of the sessions that watch, and of a  *)
(* write before it changes its key.                                        *)
(* WatchSyncProofs has the other steps and the theorems.                   *)
(***************************************************************************)
EXTENDS WatchSync, SeqFilterProofs

-----------------------------------------------------------------------------
(* Types *)

Entry == [version : Nat, value : Value]
Ops == [kind : {"root"}, put : Value, del : {{}}]
       \cup [kind : {"remove"}, put : {Null}, del : {{}}]
       \cup [kind : {"fields"}, put : Objects, del : SUBSET Fields]
Delta == [version : Nat, ops : Ops]
Subscriber == [session : Sessions, stream : Nat]
Path == Keys \X (Fields \cup {Null})

WatchRequest == [type : {"WATCH", "RESUME", "UNWATCH"}, key : Keys, field : {Null},
                 put : {Null}, since : Nat]
Frame == WatchRequest \cup CallRequest
OutFrame ==
    [type : {"STATE_INIT"}, stream : Nat, key : Keys, version : Nat, value : Value]
    \cup [type : {"DELTA"}, stream : Nat, version : Nat, ops : Ops]
    \cup [type : {"RESULT"}, version : Nat]
    \cup [type : {"ERROR"}]

Running == [type : {"none", "cleanup", "WATCH", "RESUME", "set", "delete", "patch",
                    "set_in", "presence"},
            key : Keys \cup {Null}, field : Fields \cup {Null}, put : Value, since : Nat]
WritePCs == {"version", "diff", "insert", "log", "snapshot", "send"}
HandlerPCs == {"subscribe", "missed", "replay", "get", "init", "read", "remove",
               "bump", "direct", "result"} \cup WritePCs
PCs == HandlerPCs \cup {"idle", "next"}
Todo == Seq(Delta) \cup Seq(Path)
HandlerState ==
    [pc : PCs, req : Running, stream : Nat, value : Value, version : Nat, ops : Ops,
     todo : Todo, targets : Seq(Subscriber), slow : SUBSET Sessions]

StoreType ==
    /\ global_version \in Nat /\ entries \in [Keys -> Entry]
    /\ log \in [Keys -> Seq(Delta)] /\ changes \in [Keys -> SUBSET Nat]
    /\ loose \in [Keys -> SUBSET Fields]
TableType ==
    /\ subscriptions \in [Keys -> Seq(Subscriber)]
    /\ watches \in [Sessions -> SUBSET (Nat \X Keys)]
    /\ presence \in [Sessions -> Seq(Path)] /\ next_stream \in [Sessions -> Nat]
    /\ phase \in [Sessions -> {"none", "open", "cleanup", "closed"}]
ChannelType ==
    /\ inbox \in [Sessions -> Seq(Frame)] /\ out \in [Sessions -> Seq(OutFrame)]
    /\ cancelled \in [Sessions -> BOOLEAN] /\ peer_gone \in [Sessions -> BOOLEAN]
    /\ writer \in [Sessions -> {"run", "stopped"}]
    /\ known \in [Sessions -> SUBSET (Nat \X Nat)] /\ raced \in [Sessions -> SUBSET Nat]
ClientType ==
    /\ conn \in [Clients -> Sessions \cup {0}]
    /\ view \in [Clients -> [Keys -> ViewEntry \cup {NoEntry}]]
    /\ streamToKey \in [Clients -> SUBSET (Nat \X Keys)]
    /\ skipped \in [Clients -> SUBSET Keys]
    /\ calls \in Nat /\ losses \in Nat /\ watched \in Nat
AtType == at \in [Sessions -> HandlerState]
TypeOK == StoreType /\ TableType /\ ChannelType /\ ClientType /\ AtType

\* Where a session's task can be in each phase, and what its handler holds there.
HandlerOK(s) ==
    /\ at[s].pc \in HandlerPCs => Key(s) \in Keys
    /\ at[s].pc = "read" => at[s].req.put \in Objects
    /\ at[s].pc = "replay" => at[s].todo \in Seq(Delta)
    /\ at[s].pc = "remove" => at[s].version = 0
    /\ phase[s] \in {"none", "closed"} => at[s].pc = "idle"
    /\ phase[s] = "open" => at[s].pc # "next"
    /\ phase[s] = "cleanup" =>
          at[s].pc \in WritePCs \cup {"next"} /\ at[s].todo \in Seq(Path)

-----------------------------------------------------------------------------
(* The inductive invariant *)

\* A subscription belongs to a live session and has its entry in the session's
\* own table; the streams of a session are all different.
Registered ==
    /\ \A k \in Keys : \A x \in Range(subscriptions[k]) :
          /\ <<x.stream, k>> \in watches[x.session]
          /\ phase[x.session] \in {"open", "cleanup"}
    /\ \A s \in Sessions : \A w \in watches[s] : w[1] < next_stream[s]
    /\ \A s \in Sessions : \A w, z \in watches[s] : w[1] = z[1] => w = z
    /\ \A s \in Sessions : at[s].pc \in {"missed", "replay", "get", "init"} =>
          <<at[s].stream, Key(s)>> \in watches[s]
    /\ \A s \in Sessions : \A u \in at[s].slow : cancelled[u]

\* Session u still has to tell x of version v of key k.
OnItsWay(u, k, v, x) ==
    /\ Key(u) = k /\ at[u].version = v
    /\ \/ at[u].pc \in {"log", "snapshot"}
       \/ at[u].pc = "send"
          /\ (x \in Range(at[u].targets) \/ (x.session = u /\ ~Cleaning(u)))
       \/ at[u].pc = "direct" /\ x.session = u

Told(k, x) ==
    \A v \in changes[k] :
       Knows(x.session, x.stream, v) \/ \E u \in Sessions : OnItsWay(u, k, v, x)

AllTold ==
    \A k \in Keys : \A x \in Range(subscriptions[k]) :
       (~cancelled[x.session] /\ Live(x.session, x.stream)) => Told(k, x)

Inv == TypeOK /\ (\A s \in Sessions : HandlerOK(s)) /\ Registered /\ AllTold

\* Holders of a version that has not changed anything yet.
Holds(u) == at[u].pc \in {"diff", "insert"}
Issued(v) == v \in 0..global_version /\ \A u \in Sessions : Holds(u) => at[u].version # v

VersionsOK ==
    /\ \A k \in Keys : \A v \in changes[k] : v > 0 /\ Issued(v)
    /\ \A k, l \in Keys : k # l => changes[k] \cap changes[l] = {}
    /\ \A u \in Sessions : Holds(u) => at[u].version > 0 /\ at[u].version <= global_version
    /\ \A u, w \in Sessions : (Holds(u) /\ Holds(w) /\ at[u].version = at[w].version) => u = w
    /\ \A s \in Sessions : at[s].pc \in {"log", "snapshot", "send", "direct"} =>
          at[s].version \in changes[Key(s)]

\* Session s has been told of version v, by the DELTA of its own call or on all
\* its live streams for the key that changed.
Heard(s, v) ==
    \A k \in Keys : (v \in changes[k] /\ ~cancelled[s]) =>
       \A st \in StreamsOf(s, k) : Live(s, st) => Knows(s, st, v)
Answered ==
    /\ \A s \in Sessions : at[s].pc = "result" =>
          Issued(at[s].version) /\ Heard(s, at[s].version)
    /\ \A s \in Sessions : \A f \in Range(out[s]) : f.type = "RESULT" =>
          Issued(f.version) /\ Heard(s, f.version)

Inv0 == TypeOK /\ \A s \in Sessions : HandlerOK(s)

-----------------------------------------------------------------------------
(* Values, deltas and frames are what they are taken for *)

LEMMA EmptyRange == Range(<<>>) = {}
BY SMT, Z3 DEF Range

LEMMA PairParts ==
    ASSUME NEW A, NEW B, NEW w \in A \X B
    PROVE  w = <<w[1], w[2]>>
BY SMT, Z3

LEMMA PairSets ==
    ASSUME NEW n \in Nat, NEW S, S \in SUBSET Nat
    PROVE  /\ {<<n, v>> : v \in S} \in SUBSET (Nat \X Nat)
           /\ {<<v, n>> : v \in S} \in SUBSET (Nat \X Nat)
BY SMT, Z3

LEMMA OnePair ==
    ASSUME NEW m \in Nat, NEW n \in Nat
    PROVE  {<<m, n>>} \in SUBSET (Nat \X Nat)
BY SMT, Z3

LEMMA NextNumber ==
    ASSUME NEW n \in Nat
    PROVE  n + 1 \in Nat /\ n + 1 \notin 0..n /\ 0..n \subseteq 0..(n + 1)
BY SMT, Z3

LEMMA Objects1 ==
    ASSUME NEW D \in SUBSET Fields, NEW v, v \in [D -> Vals]
    PROVE  v \in Objects
BY Zenon DEF Objects

LEMMA EmptyType == Empty \in Objects
<1>1. {} \in SUBSET Fields /\ Empty \in [{} -> Vals]
  BY ZenonT(30) DEF Empty
<1> QED  BY <1>1, Objects1, Zenon

LEMMA ObjectShape ==
    ASSUME NEW v \in Objects
    PROVE  DOMAIN v \in SUBSET Fields /\ v \in [DOMAIN v -> Vals]
<1>1. PICK D \in SUBSET Fields : v \in [D -> Vals]
  BY Zenon DEF Objects
<1>2. DOMAIN v = D
  BY <1>1, Zenon
<1> QED  BY <1>1, <1>2, Zenon

LEMMA MergeType ==
    ASSUME NEW base \in Value, NEW patch \in Objects
    PROVE  Merge(base, patch) \in Objects
<1> DEFINE b == IF base = Null THEN Empty ELSE base
           m == Merge(base, patch)
<1>1. b \in Objects
  BY EmptyType, Zenon DEF Value
<1> HIDE DEF b
<1>2. /\ DOMAIN b \in SUBSET Fields /\ b \in [DOMAIN b -> Vals]
      /\ DOMAIN patch \in SUBSET Fields /\ patch \in [DOMAIN patch -> Vals]
  BY <1>1, ObjectShape, Zenon
<1>3. m = [f \in DOMAIN b \cup DOMAIN patch |->
              IF f \in DOMAIN patch THEN patch[f] ELSE b[f]]
  BY Zenon DEF Merge, b
<1> HIDE DEF m
<1>4. m \in [DOMAIN b \cup DOMAIN patch -> Vals]
  BY <1>2, <1>3, ZenonT(30)
<1>5. DOMAIN b \cup DOMAIN patch \in SUBSET Fields
  BY <1>2, Zenon
<1>6. m \in Objects
  BY <1>4, <1>5, Objects1, Zenon
<1> QED  BY <1>6, Zenon DEF m

LEMMA WithoutType ==
    ASSUME NEW v \in Value, NEW fs
    PROVE  Without(v, fs) \in Value
<1>1. CASE v = Null
  BY <1>1, Zenon DEF Without, Value
<1>2. CASE v # Null
  <2>1. v \in Objects
    BY <1>2, Zenon DEF Value
  <2>2. DOMAIN v \in SUBSET Fields /\ v \in [DOMAIN v -> Vals]
    BY <2>1, ObjectShape, Zenon
  <2>3. Without(v, fs) = [f \in DOMAIN v \ fs |-> v[f]]
    BY <1>2, Zenon DEF Without
  <2>4. Without(v, fs) \in [DOMAIN v \ fs -> Vals]
    BY <2>2, <2>3, ZenonT(30)
  <2>5. DOMAIN v \ fs \in SUBSET Fields
    BY <2>2, Zenon
  <2> QED  BY <2>4, <2>5, Objects1, Zenon DEF Value
<1> QED  BY <1>1, <1>2, Zenon

LEMMA OpsTypes ==
    /\ RemoveOps \in Ops /\ NoOps \in Ops
    /\ \A v \in Value : RootOps(v) \in Ops
    /\ \A put \in Objects, del \in SUBSET Fields : FieldOps(put, del) \in Ops
<1>1. \A put \in Objects, del \in SUBSET Fields : FieldOps(put, del) \in Ops
  BY ZenonT(30) DEF FieldOps, Ops
<1>2. NoOps \in Ops
  BY <1>1, EmptyType, Zenon DEF NoOps
<1>3. \A v \in Value : RootOps(v) \in Ops
  BY Zenon DEF RootOps, Ops
<1>4. RemoveOps \in Ops
  BY ZenonT(30) DEF RemoveOps, Ops
<1> QED  BY <1>1, <1>2, <1>3, <1>4, Zenon

LEMMA DiffType ==
    ASSUME NEW old \in Value, NEW new \in Value
    PROVE  Diff(old, new) \in Ops
<1>1. CASE old # Null /\ new # Null
  <2>1. old \in Objects /\ new \in Objects
    BY <1>1, Zenon DEF Value
  <2>2. /\ DOMAIN old \in SUBSET Fields
        /\ DOMAIN new \in SUBSET Fields /\ new \in [DOMAIN new -> Vals]
    BY <2>1, ObjectShape, Zenon
  <2> DEFINE D == {g \in DOMAIN new : g \in DOMAIN old => old[g] # new[g]}
  <2>3. D \subseteq DOMAIN new /\ D \in SUBSET Fields /\ DOMAIN old \ DOMAIN new \in SUBSET Fields
    BY <2>2, Zenon
  <2>4. Diff(old, new) = FieldOps([f \in D |-> new[f]], DOMAIN old \ DOMAIN new)
    BY <1>1, Zenon DEF Diff
  <2> HIDE DEF D
  <2>5. [f \in D |-> new[f]] \in [D -> Vals]
    BY <2>2, <2>3, ZenonT(30)
  <2>6. [f \in D |-> new[f]] \in Objects
    BY <2>3, <2>5, Objects1, Zenon
  <2> QED  BY <2>3, <2>4, <2>6, OpsTypes, Zenon
<1>2. CASE ~(old # Null /\ new # Null)
  <2>1. Diff(old, new) = IF old = new THEN NoOps ELSE RootOps(new)
    BY <1>2, Zenon DEF Diff
  <2> QED  BY <2>1, OpsTypes, Zenon
<1> QED  BY <1>1, <1>2, Zenon

LEMMA ApplyOpsType ==
    ASSUME NEW v \in Value, NEW ops \in Ops
    PROVE  ApplyOps(v, ops) \in Value
<1>1. \/ ops.kind = "root" /\ ops.put \in Value
      \/ ops.kind = "remove"
      \/ ops.kind = "fields" /\ ops.put \in Objects
  BY ZenonT(30) DEF Ops
<1>2. CASE ops.kind = "root" /\ ops.put \in Value
  <2>1. ApplyOps(v, ops) = ops.put
    BY <1>2, ZenonT(30) DEF ApplyOps
  <2> QED  BY <1>2, <2>1, Zenon
<1>3. CASE ops.kind = "remove"
  <2>1. ApplyOps(v, ops) = Null
    BY <1>3, ZenonT(30) DEF ApplyOps
  <2> QED  BY <2>1, Zenon DEF Value
<1>4. CASE ops.kind = "fields" /\ ops.put \in Objects
  <2>1. ApplyOps(v, ops) = Without(Merge(v, ops.put), ops.del)
    BY <1>4, ZenonT(30) DEF ApplyOps
  <2>2. Merge(v, ops.put) \in Value
    BY <1>4, MergeType, Zenon DEF Value
  <2> QED  BY <2>1, <2>2, WithoutType, Zenon
<1> QED  BY <1>1, <1>2, <1>3, <1>4, Zenon

LEMMA FrameTypes ==
    /\ \A st \in Nat, k \in Keys, v \in Nat, val \in Value :
          [type |-> "STATE_INIT", stream |-> st, key |-> k, version |-> v, value |-> val]
             \in OutFrame
    /\ \A st \in Nat, d \in Delta : DeltaFrame(st, d) \in OutFrame
    /\ \A v \in Nat : ResultFrame(v) \in OutFrame
    /\ ErrorFrame \in OutFrame
<1>1. ErrorFrame \in OutFrame
  BY Zenon DEF ErrorFrame, OutFrame
<1>2. \A v \in Nat : ResultFrame(v) \in OutFrame
  BY Zenon DEF ResultFrame, OutFrame
<1>3. \A st \in Nat, d \in Delta : DeltaFrame(st, d) \in OutFrame
  BY Zenon DEF DeltaFrame, OutFrame, Delta
<1>4. \A st \in Nat, k \in Keys, v \in Nat, val \in Value :
         [type |-> "STATE_INIT", stream |-> st, key |-> k, version |-> v, value |-> val]
            \in OutFrame
  BY Zenon DEF OutFrame
<1> QED  BY <1>1, <1>2, <1>3, <1>4, Zenon

LEMMA IdleType ==
    /\ Idle \in HandlerState /\ NoRequest \in Running
    /\ Idle.pc = "idle" /\ Idle.req = NoRequest /\ Idle.stream = 0 /\ Idle.version = 0
    /\ Idle.todo = <<>> /\ Idle.targets = <<>> /\ Idle.slow = {}
    /\ Idle.value = Null /\ Idle.ops = NoOps
<1>1. Null \in Value /\ NoOps \in Ops
  BY OpsTypes, Zenon DEF Value
<1>2. NoRequest \in Running
  BY <1>1, Zenon DEF NoRequest, Running
<1>3. <<>> \in Todo /\ <<>> \in Seq(Subscriber) /\ "idle" \in PCs
  BY SMT, Z3 DEF Todo, PCs
<1>4. Idle \in HandlerState
  BY <1>1, <1>2, <1>3, ZenonT(30) DEF Idle, HandlerState
<1> QED  BY <1>2, <1>4, ZenonT(30) DEF Idle

LEMMA FirstAccessType ==
    ASSUME NEW r \in Frame, r.type # "UNWATCH"
    PROVE  /\ FirstAccess(r) \in {"subscribe", "version", "read", "remove"}
           /\ FirstAccess(r) = "subscribe" <=> r.type \in {"WATCH", "RESUME"}
           /\ FirstAccess(r) = "read" => r.put \in Objects
           /\ r.key \in Keys /\ r \in Running
<1>1. /\ r.type \in {"WATCH", "RESUME", "set", "delete", "patch", "set_in", "presence"}
      /\ r.key \in Keys /\ r.put \in Value
      /\ r.type \in {"patch", "set_in", "presence"} => r.put \in Objects
  BY Zenon DEF Frame, WatchRequest, CallRequest, Value
<1>2. r \in Running
  BY <1>1, SMT, Z3 DEF Frame, WatchRequest, CallRequest, Running
<1>3. /\ FirstAccess(r) \in {"subscribe", "version", "read", "remove"}
      /\ FirstAccess(r) = "subscribe" <=> r.type \in {"WATCH", "RESUME"}
      /\ FirstAccess(r) = "read" => r.put \in Objects
  BY <1>1, Zenon DEF FirstAccess
<1> QED  BY <1>1, <1>2, <1>3, Zenon

-----------------------------------------------------------------------------
(* What each step does to the handler it belongs to *)

LEMMA Update ==
    ASSUME NEW S, NEW T, NEW f \in [S -> T], NEW a \in S, NEW b \in T,
           NEW g, g = [f EXCEPT ![a] = b]
    PROVE  g \in [S -> T] /\ g[a] = b /\ \A c \in S : c # a => g[c] = f[c]
BY Zenon

Becomes(s, pc, key, stream, version, todo, targets, slow) ==
    /\ AtType'
    /\ \A u \in Sessions : u # s => at'[u] = at[u]
    /\ at'[s].pc = pc /\ Key(s)' = key
    /\ at'[s].stream = stream /\ at'[s].version = version
    /\ at'[s].todo = todo /\ at'[s].targets = targets /\ at'[s].slow = slow

LEMMA BecomesRule ==
    ASSUME AtType, NEW s \in Sessions, NEW h \in HandlerState, at' = [at EXCEPT ![s] = h]
    PROVE  /\ Becomes(s, h.pc, h.req.key, h.stream, h.version, h.todo, h.targets, h.slow)
           /\ at'[s] = h
<1>1. AtType' /\ at'[s] = h /\ \A u \in Sessions : u # s => at'[u] = at[u]
  BY ZenonT(30) DEF AtType
<1> QED  BY <1>1, Zenon DEF Becomes, Key

LEMMA SinceType ==
    ASSUME StoreType, NEW k \in Keys, NEW v
    PROVE  DeltasSince(k, v) \in Seq(Delta)
<1>1. log[k] \in Seq(Delta)
  BY Zenon DEF StoreType
<1> QED  BY <1>1, OmitRange, Zenon DEF DeltasSince

LEMMA HeadTail ==
    ASSUME NEW T, NEW q \in Seq(T), q # <<>>
    PROVE  /\ Head(q) \in T /\ Tail(q) \in Seq(T)
           /\ Range(q) = {Head(q)} \cup Range(Tail(q))
<1>1. Head(q) \in T /\ Tail(q) \in Seq(T)
  BY SMT, Z3
<1>2. /\ DOMAIN q = 1..Len(q) /\ Len(q) \in Nat \ {0} /\ Head(q) = q[1]
      /\ DOMAIN Tail(q) = 1..(Len(q) - 1)
      /\ \A i \in 1..(Len(q) - 1) : Tail(q)[i] = q[i + 1]
  BY SMT, Z3
<1>3. \A i \in 1..Len(q) : i = 1 \/ (i - 1 \in 1..(Len(q) - 1) /\ (i - 1) + 1 = i)
  BY <1>2, SMT, Z3
<1>4. \A i \in 1..(Len(q) - 1) : i + 1 \in 1..Len(q)
  BY <1>2, SMT, Z3
<1>5. 1 \in 1..Len(q)
  BY <1>2, SMT, Z3
<1>6. ASSUME NEW y \in Range(q) PROVE y \in {Head(q)} \cup Range(Tail(q))
  <2>1. PICK i \in 1..Len(q) : y = q[i]
    BY <1>2, Zenon DEF Range
  <2>2. CASE i = 1
    BY <1>2, <2>1, <2>2, Zenon
  <2>3. CASE i - 1 \in 1..(Len(q) - 1) /\ (i - 1) + 1 = i
    <3>1. Tail(q)[i - 1] = q[i]
      BY <1>2, <2>3, Zenon
    <3> QED  BY <1>2, <2>1, <2>3, <3>1, Zenon DEF Range
  <2> QED  BY <1>3, <2>2, <2>3, Zenon
<1>7. {Head(q)} \cup Range(Tail(q)) \subseteq Range(q)
  BY <1>2, <1>4, <1>5, Zenon DEF Range
<1> QED  BY <1>1, <1>6, <1>7, Zenon

LEMMA OfOthersType ==
    ASSUME NEW subs \in Seq(Subscriber), NEW s
    PROVE  OfOthers(subs, s) \in Seq(Subscriber)
           /\ Range(OfOthers(subs, s)) = {x \in Range(subs) : x.session # s}
<1> DEFINE D == {x \in Range(subs) : x.session = s}
<1>1. Omit(subs, D) \in Seq(Subscriber) /\ Range(Omit(subs, D)) = Range(subs) \ D
  <2> HIDE DEF D
  <2> QED  BY OmitRange, Zenon
<1>2. Range(subs) \ D = {x \in Range(subs) : x.session # s}
  BY Zenon
<1> QED  BY <1>1, <1>2, Zenon DEF OfOthers

LEMMA IdleAt ==
    ASSUME AtType, NEW s \in Sessions, at' = [at EXCEPT ![s] = Idle]
    PROVE  Becomes(s, "idle", Null, 0, 0, <<>>, <<>>, {})
<1>1. NoRequest.key = Null
  BY ZenonT(30) DEF NoRequest
<1> QED  BY <1>1, IdleType, BecomesRule, Zenon

LEMMA LeaveAt ==
    ASSUME AtType, NEW s \in Sessions, Leave(s), presence[s] \in Seq(Path)
    PROVE  Becomes(s, "next", Null, 0, 0, presence[s], <<>>, {})
<1> DEFINE h == [Idle EXCEPT !.pc = "next", !.todo = presence[s]]
<1>t. "next" \in PCs /\ presence[s] \in Todo
  BY ZenonT(30) DEF PCs, HandlerPCs, WritePCs, Todo
<1>1. h \in HandlerState
  BY <1>t, IdleType, Zenon DEF HandlerState
<1>2. /\ h.pc = "next" /\ h.req = NoRequest /\ h.stream = 0 /\ h.version = 0
      /\ h.todo = presence[s] /\ h.targets = <<>> /\ h.slow = {}
  BY ZenonT(30) DEF Idle
<1>3. at' = [at EXCEPT ![s] = h]
  BY ZenonT(30) DEF Leave
<1>4. NoRequest.key = Null
  BY ZenonT(30) DEF NoRequest
<1> HIDE DEF h
<1> QED  BY <1>1, <1>2, <1>3, <1>4, BecomesRule, Zenon

-----------------------------------------------------------------------------
(* What sending a frame does *)

Sent(s, frame) ==
    /\ out' \in [Sessions -> Seq(OutFrame)] /\ cancelled' \in [Sessions -> BOOLEAN]
    /\ \A u \in Sessions : u # s => out'[u] = out[u] /\ cancelled'[u] = cancelled[u]
    /\ Range(out'[s]) \subseteq Range(out[s]) \cup {frame}
    /\ cancelled[s] => cancelled'[s]
    /\ ~Room(s) => cancelled'[s]

LEMMA SendSent ==
    ASSUME ChannelType, NEW s \in Sessions, NEW frame \in OutFrame, Send(s, frame)
    PROVE  Sent(s, frame)
<1>1. out \in [Sessions -> Seq(OutFrame)] /\ cancelled \in [Sessions -> BOOLEAN]
  BY Zenon DEF ChannelType
<1>2. out[s] \in Seq(OutFrame)
  BY <1>1, Zenon
<1>3. CASE Room(s)
  <2>1. out' = [out EXCEPT ![s] = Append(@, frame)] /\ cancelled' = cancelled
    BY <1>3, ZenonT(30) DEF Send
  <2>2. Append(out[s], frame) \in Seq(OutFrame)
    BY <1>2, SMT, Z3
  <2>3. Range(Append(out[s], frame)) = Range(out[s]) \cup {frame}
    BY <1>2, RangeAppend, Zenon
  <2>4. /\ out' \in [Sessions -> Seq(OutFrame)] /\ out'[s] = Append(out[s], frame)
        /\ \A u \in Sessions : u # s => out'[u] = out[u]
    BY <1>1, <2>1, <2>2, ZenonT(30)
  <2> QED  BY <1>1, <1>3, <2>1, <2>3, <2>4, Zenon DEF Sent
<1>4. CASE ~Room(s)
  <2>1. cancelled' = [cancelled EXCEPT ![s] = TRUE] /\ out' = out
    BY <1>4, ZenonT(30) DEF Send
  <2>2. /\ cancelled' \in [Sessions -> BOOLEAN] /\ cancelled'[s] = TRUE
        /\ \A u \in Sessions : u # s => cancelled'[u] = cancelled[u]
    BY <1>1, <2>1, ZenonT(30)
  <2> QED  BY <1>1, <1>4, <2>1, <2>2, Zenon DEF Sent
<1> QED  BY <1>3, <1>4, Zenon

LEMMA TellsType ==
    ASSUME ChannelType, NEW s \in Sessions, NEW pairs \in SUBSET (Nat \X Nat),
           known' = Tells(s, pairs)
    PROVE  /\ known' \in [Sessions -> SUBSET (Nat \X Nat)]
           /\ \A u \in Sessions : known[u] \subseteq known'[u]
           /\ Room(s) => pairs \subseteq known'[s]
<1>1. known \in [Sessions -> SUBSET (Nat \X Nat)]
  BY Zenon DEF ChannelType
<1>2. CASE Room(s)
  <2>1. known' = [known EXCEPT ![s] = @ \cup pairs]
    BY <1>2, Zenon DEF Tells
  <2> QED  BY <1>1, <2>1, ZenonT(30)
<1>3. CASE ~Room(s)
  BY <1>1, <1>3, Zenon DEF Tells
<1> QED  BY <1>2, <1>3, Zenon

-----------------------------------------------------------------------------
(* Types, and where a session's task can be *)

LEMMA HandlerOthers ==
    ASSUME NEW s \in Sessions, \A u \in Sessions : HandlerOK(u),
           \A u \in Sessions : u # s => at'[u] = at[u] /\ phase'[u] = phase[u],
           HandlerOK(s)'
    PROVE  \A u \in Sessions : HandlerOK(u)'
BY Zenon DEF HandlerOK, Key

LEMMA HandlerStays ==
    ASSUME \A u \in Sessions : HandlerOK(u), at' = at, phase' = phase
    PROVE  \A u \in Sessions : HandlerOK(u)'
BY Zenon DEF HandlerOK, Key

LEMMA HandlerKeeps ==
    ASSUME NEW s \in Sessions, \A u \in Sessions : HandlerOK(u), phase' = phase,
           NEW st, NEW v, NEW tg, NEW sl, NEW todo, NEW pc,
           at[s].pc \in HandlerPCs, Becomes(s, pc, Key(s), st, v, todo, tg, sl),
           pc \in HandlerPCs \cup {"next"}, pc \notin {"read", "replay", "remove"},
           pc = "next" => Cleaning(s),
           Cleaning(s) => pc \in WritePCs \cup {"next"} /\ todo \in Seq(Path)
    PROVE  \A u \in Sessions : HandlerOK(u)'
<1>1. Key(s) \in Keys /\ at[s].pc # "idle"
  BY Zenon DEF HandlerOK, HandlerPCs, WritePCs
<1>2. /\ at'[s].pc = pc /\ Key(s)' = Key(s) /\ at'[s].todo = todo /\ phase'[s] = phase[s]
      /\ \A u \in Sessions : u # s => at'[u] = at[u] /\ phase'[u] = phase[u]
  BY Zenon DEF Becomes
<1>3. ~(phase[s] \in {"none", "closed"})
  BY <1>1, Zenon DEF HandlerOK
<1>4. (phase[s] = "open") => pc # "next"
  BY Zenon DEF Cleaning
<1>5. (phase[s] = "cleanup") => pc \in WritePCs \cup {"next"} /\ todo \in Seq(Path)
  BY Zenon DEF Cleaning
<1>6. HandlerOK(s)'
  BY <1>1, <1>2, <1>3, <1>4, <1>5, Zenon DEF HandlerOK
<1> QED  BY <1>2, <1>6, HandlerOthers, Zenon

LEMMA StoreFrame ==
    ASSUME StoreType, UNCHANGED <<global_version, entries, log, changes, loose>>
    PROVE  StoreType'
BY ZenonT(30) DEF StoreType

LEMMA TableFrame ==
    ASSUME TableType, UNCHANGED <<subscriptions, watches, presence, next_stream, phase>>
    PROVE  TableType'
BY ZenonT(30) DEF TableType

LEMMA ChannelFrame ==
    ASSUME ChannelType, UNCHANGED <<inbox, out, cancelled, peer_gone, writer, known, raced>>
    PROVE  ChannelType'
BY ZenonT(30) DEF ChannelType

\* A step of the server changes no variable of a client.
ServerStep == UNCHANGED <<clientVars, bounds>>

LEMMA ClientFrame ==
    ASSUME ClientType, ServerStep
    PROVE  ClientType'
BY ZenonT(30) DEF ClientType, ServerStep, clientVars, bounds

LEMMA SentChannelType ==
    ASSUME ChannelType, NEW s \in Sessions, NEW f, Sent(s, f),
           UNCHANGED <<inbox, peer_gone, writer>>,
           known' \in [Sessions -> SUBSET (Nat \X Nat)], raced' \in [Sessions -> SUBSET Nat]
    PROVE  ChannelType'
BY Zenon DEF ChannelType, Sent

LEMMA HandlerIdle ==
    ASSUME NEW s \in Sessions, \A u \in Sessions : HandlerOK(u),
           Becomes(s, "idle", Null, 0, 0, <<>>, <<>>, {}), phase'[s] # "cleanup",
           \A u \in Sessions : u # s => phase'[u] = phase[u]
    PROVE  \A u \in Sessions : HandlerOK(u)'
<1>1. at'[s].pc = "idle" /\ at'[s].pc \notin HandlerPCs
  BY ZenonT(30) DEF Becomes, HandlerPCs, WritePCs
<1>2. HandlerOK(s)'
  BY <1>1, ZenonT(30) DEF HandlerOK
<1>3. \A u \in Sessions : u # s => at'[u] = at[u] /\ phase'[u] = phase[u]
  BY Zenon DEF Becomes
<1> QED  BY <1>2, <1>3, HandlerOthers, Zenon

\* Taking a frame from the inbox keeps its type.
LEMMA InboxTail ==
    ASSUME ChannelType, NEW s \in Sessions, inbox[s] # <<>>,
           inbox' = [inbox EXCEPT ![s] = Tail(@)]
    PROVE  inbox' \in [Sessions -> Seq(Frame)] /\ Head(inbox[s]) \in Frame
<1>1. inbox \in [Sessions -> Seq(Frame)]
  BY Zenon DEF ChannelType
<1>2. inbox[s] \in Seq(Frame)
  BY <1>1, Zenon
<1>3. Head(inbox[s]) \in Frame /\ Tail(inbox[s]) \in Seq(Frame)
  BY <1>2, HeadTail, Zenon
<1> QED  BY <1>1, <1>3, Update, Zenon

LEMMA ExpireSends ==
    ASSUME ChannelType, NEW s \in Sessions, Send(s, ErrorFrame) \/ UNCHANGED channelVars
    PROVE  /\ out' \in [Sessions -> Seq(OutFrame)] /\ cancelled' \in [Sessions -> BOOLEAN]
           /\ \A u \in Sessions : cancelled[u] => cancelled'[u]
           /\ \A u \in Sessions : Range(out'[u]) \subseteq Range(out[u]) \cup {ErrorFrame}
<1>1. CASE Send(s, ErrorFrame)
  <2>1. Sent(s, ErrorFrame)
    BY <1>1, FrameTypes, SendSent, Zenon
  <2> QED  BY <2>1, Zenon DEF Sent
<1>2. CASE UNCHANGED channelVars
  <2>1. out' = out /\ cancelled' = cancelled
    BY <1>2, ZenonT(30) DEF channelVars
  <2> QED  BY <2>1, Zenon DEF ChannelType
<1> QED  BY <1>1, <1>2, Zenon

LEMMA LeaveInv0 ==
    ASSUME Inv0, NEW s \in Sessions, Leave(s), ClientType',
           out' \in [Sessions -> Seq(OutFrame)], cancelled' \in [Sessions -> BOOLEAN]
    PROVE  Inv0'
<1>1. TypeOK /\ HandlerOK(s) /\ \A u \in Sessions : HandlerOK(u)
  BY Zenon DEF Inv0
<1>2. /\ UNCHANGED <<global_version, entries, log, changes, loose>>
      /\ UNCHANGED <<subscriptions, watches, presence, next_stream>>
      /\ UNCHANGED <<peer_gone, writer, known, raced>>
      /\ inbox' = [inbox EXCEPT ![s] = <<>>]
      /\ phase' = [phase EXCEPT ![s] = "cleanup"]
  BY ZenonT(30) DEF Leave, storeVars, history
<1>3. /\ phase \in [Sessions -> {"none", "open", "cleanup", "closed"}]
      /\ inbox \in [Sessions -> Seq(Frame)] /\ presence[s] \in Seq(Path)
  BY <1>1, Zenon DEF TypeOK, TableType, ChannelType
<1>4. "cleanup" \in {"none", "open", "cleanup", "closed"} /\ <<>> \in Seq(Frame)
  BY SMT, Z3
<1>5. inbox' \in [Sessions -> Seq(Frame)]
  BY <1>2, <1>3, <1>4, Update, Zenon
<1>6. /\ phase' \in [Sessions -> {"none", "open", "cleanup", "closed"}]
      /\ phase'[s] = "cleanup" /\ \A u \in Sessions : u # s => phase'[u] = phase[u]
  BY <1>2, <1>3, <1>4, Update, Zenon
<1>7. TableType'
  BY <1>1, <1>2, <1>6, Zenon DEF TypeOK, TableType
<1>8. ChannelType'
  BY <1>1, <1>2, <1>5, Zenon DEF TypeOK, ChannelType
<1>9. Becomes(s, "next", Null, 0, 0, presence[s], <<>>, {})
  BY <1>1, <1>3, LeaveAt, Zenon DEF TypeOK
<1>10. TypeOK'
  BY <1>1, <1>2, <1>7, <1>8, <1>9, StoreFrame, Zenon DEF TypeOK, Becomes
<1>11. /\ at'[s].pc = "next" /\ at'[s].todo = presence[s]
       /\ \A u \in Sessions : u # s => at'[u] = at[u] /\ phase'[u] = phase[u]
  BY <1>6, <1>9, Zenon DEF Becomes
<1>12. HandlerOK(s)'
  BY <1>3, <1>6, <1>11, ZenonT(30) DEF HandlerOK, HandlerPCs, WritePCs
<1> QED  BY <1>1, <1>10, <1>11, <1>12, HandlerOthers, Zenon DEF Inv0

LEMMA TimeoutInv0 ==
    ASSUME Inv0, NEW s \in Sessions, Timeout(s)
    PROVE  Inv0'
<1>1. ClientType /\ ChannelType
  BY Zenon DEF Inv0, TypeOK
<1>2. ClientType'
  BY <1>1, SMT, Z3 DEF ClientType, Timeout, clientVars
<1> QED  BY <1>1, <1>2, ExpireSends, LeaveInv0, Zenon DEF Expire, Timeout

-----------------------------------------------------------------------------
(* Subscriptions, and who is still to be told *)

Waiting == {"missed", "replay", "get"}
Fanning == {"log", "snapshot", "send", "direct"}

\* Nothing a session was told is forgotten, and an eviction is not taken back.
Grows == \A u \in Sessions : known[u] \subseteq known'[u] /\ (cancelled[u] => cancelled'[u])

\* No subscription is added, and the ones that stay belong to live sessions.
Shrinks == \A k \in Keys : \A x \in Range(subscriptions'[k]) :
              /\ x \in Range(subscriptions[k]) /\ x.session \in Sessions
              /\ phase'[x.session] \in {"open", "cleanup"}

\* A task between the subscription and STATE_INIT was there before, and one
\* before the read stays there.
SameTask(u) ==
    at'[u].pc \in Waiting \cup {"init"} =>
       /\ at[u].pc \in Waiting \cup {"init"}
       /\ at'[u].stream = at[u].stream /\ Key(u)' = Key(u)
SameStream(u) == SameTask(u) /\ (at[u].pc \in Waiting => at'[u].pc \in Waiting)

LEMMA RegisteredStep ==
    ASSUME Registered, UNCHANGED <<watches, next_stream>>, Grows, Shrinks,
           \A u \in Sessions : SameTask(u),
           \A u \in Sessions : \A z \in at'[u].slow : z \in at[u].slow \/ cancelled'[z],
           \A u \in Sessions : at[u].slow \subseteq Sessions
    PROVE  Registered'
<1>1. \A k \in Keys : \A x \in Range(subscriptions'[k]) :
         <<x.stream, k>> \in watches'[x.session] /\ phase'[x.session] \in {"open", "cleanup"}
  BY Zenon DEF Registered, Shrinks
<1>2. /\ \A s \in Sessions : \A w \in watches'[s] : w[1] < next_stream'[s]
      /\ \A s \in Sessions : \A w, z \in watches'[s] : w[1] = z[1] => w = z
  BY Zenon DEF Registered
<1>3. \A s \in Sessions : at'[s].pc \in {"missed", "replay", "get", "init"} =>
         <<at'[s].stream, Key(s)'>> \in watches'[s]
  BY Zenon DEF Registered, SameTask, Waiting
<1>4. \A s \in Sessions : \A u \in at'[s].slow : cancelled'[u]
  BY Zenon DEF Registered, Grows
<1> QED  BY <1>1, <1>2, <1>3, <1>4, Zenon DEF Registered

LEMMA AllToldStep ==
    ASSUME AllTold, changes' = changes, Grows, Shrinks, \A u \in Sessions : SameStream(u),
           \A u \in Sessions, k \in Keys : \A x \in Range(subscriptions'[k]), v \in changes[k] :
              (OnItsWay(u, k, v, x) /\ ~cancelled'[x.session]) =>
                 OnItsWay(u, k, v, x)' \/ Knows(x.session, x.stream, v)'
    PROVE  AllTold'
<1> SUFFICES ASSUME NEW k \in Keys, NEW x \in Range(subscriptions'[k]),
                    ~cancelled'[x.session], Live(x.session, x.stream)',
                    NEW v \in changes[k]
             PROVE  \/ Knows(x.session, x.stream, v)'
                    \/ \E u \in Sessions : OnItsWay(u, k, v, x)'
  BY Zenon DEF AllTold, Told
<1>1. x \in Range(subscriptions[k]) /\ x.session \in Sessions
  BY Zenon DEF Shrinks
<1>2. ~cancelled[x.session] /\ known[x.session] \subseteq known'[x.session]
  BY <1>1, Zenon DEF Grows
<1>3. Live(x.session, x.stream)
  BY <1>1, ZenonT(30) DEF Live, SameStream, SameTask, Waiting
<1>4. Knows(x.session, x.stream, v) \/ \E u \in Sessions : OnItsWay(u, k, v, x)
  BY <1>1, <1>2, <1>3, Zenon DEF AllTold, Told
<1> QED  BY <1>2, <1>4, Zenon DEF Knows

\* A step that leaves the fan-outs alone.
LEMMA QuietStep ==
    ASSUME Inv, UNCHANGED <<watches, next_stream, changes>>, Grows, Shrinks,
           \A u \in Sessions : SameStream(u),
           \A u \in Sessions : \A z \in at'[u].slow : z \in at[u].slow \/ cancelled'[z],
           \A u \in Sessions : at[u].pc \in Fanning => at'[u] = at[u] /\ phase'[u] = phase[u]
    PROVE  Registered' /\ AllTold'
<1>1. TypeOK /\ Registered /\ AllTold
  BY Zenon DEF Inv
<1>2. \A u \in Sessions : at[u].slow \subseteq Sessions
  BY <1>1, Zenon DEF TypeOK, AtType, HandlerState
<1>3. ASSUME NEW u \in Sessions, NEW k \in Keys, NEW x, NEW v, OnItsWay(u, k, v, x)
      PROVE  OnItsWay(u, k, v, x)'
  <2>1. at[u].pc \in Fanning
    BY <1>3, ZenonT(30) DEF OnItsWay, Fanning
  <2>2. at'[u] = at[u] /\ phase'[u] = phase[u]
    BY <2>1, Zenon
  <2> QED  BY <1>3, <2>2, Zenon DEF OnItsWay, Key, Cleaning
<1>4. Registered'
  BY <1>1, <1>2, RegisteredStep, Zenon DEF SameStream
<1>5. AllTold'
  BY <1>1, <1>3, AllToldStep, Zenon
<1> QED  BY <1>4, <1>5, Zenon

\* Without a change of the tables the subscriptions stay where they are.
LEMMA SubscriberSession ==
    ASSUME TypeOK, NEW k \in Keys, NEW x \in Range(subscriptions[k])
    PROVE  x \in Subscriber /\ x.session \in Sessions /\ x.stream \in Nat
<1>1. subscriptions[k] \in Seq(Subscriber)
  BY Zenon DEF TypeOK, TableType
<1>2. x \in Subscriber
  BY <1>1, SMT, Z3 DEF Range
<1> QED  BY <1>2, Zenon DEF Subscriber

LEMMA SameTables ==
    ASSUME TypeOK, Registered, UNCHANGED <<subscriptions, phase>>
    PROVE  Shrinks
<1>1. \A k \in Keys : \A x \in Range(subscriptions[k]) : x.session \in Sessions
  BY SubscriberSession, Zenon
<1> QED  BY <1>1, Zenon DEF Shrinks, Registered

LEMMA SubsetTables ==
    ASSUME TypeOK, Registered, phase' = phase,
           \A k \in Keys : Range(subscriptions'[k]) \subseteq Range(subscriptions[k])
    PROVE  Shrinks
<1>1. \A k \in Keys : \A x \in Range(subscriptions[k]) : x.session \in Sessions
  BY SubscriberSession, Zenon
<1> QED  BY <1>1, Zenon DEF Shrinks, Registered

\* One session's task moves, outside the fan-out.
LEMMA TaskStep ==
    ASSUME Inv, NEW s \in Sessions, NEW pc, NEW key, NEW st, NEW v, NEW todo, NEW tg, NEW sl,
           Becomes(s, pc, key, st, v, todo, tg, sl), at[s].pc \notin Fanning,
           pc \in Waiting \cup {"init"} => at[s].pc \in Waiting /\ key = Key(s)
                                           /\ st = at[s].stream,
           at[s].pc \in Waiting => pc \in Waiting,
           sl \subseteq at[s].slow, Grows,
           UNCHANGED <<subscriptions, watches, next_stream, changes, phase>>
    PROVE  Registered' /\ AllTold'
<1>1. /\ \A u \in Sessions : u # s => at'[u] = at[u]
      /\ at'[s].pc = pc /\ Key(s)' = key /\ at'[s].stream = st /\ at'[s].slow = sl
  BY Zenon DEF Becomes
<1>2. ASSUME NEW u \in Sessions
      PROVE  SameStream(u)
  <2>1. CASE u # s
    BY <1>1, <2>1, Zenon DEF SameStream, SameTask, Key
  <2>2. CASE u = s
    BY <1>1, <2>2, Zenon DEF SameStream, SameTask, Key
  <2> QED  BY <2>1, <2>2, Zenon
<1>3. \A u \in Sessions : \A z \in at'[u].slow : z \in at[u].slow \/ cancelled'[z]
  BY <1>1, Zenon
<1>4. \A u \in Sessions : at[u].pc \in Fanning => at'[u] = at[u] /\ phase'[u] = phase[u]
  BY <1>1, Zenon
<1>5. Shrinks
  BY SameTables, Zenon DEF Inv
<1> QED  BY <1>2, <1>3, <1>4, <1>5, QuietStep, Zenon

LEMMA GrowsSame ==
    ASSUME UNCHANGED <<known, cancelled>>
    PROVE  Grows
BY Zenon DEF Grows

-----------------------------------------------------------------------------
(* Versions, and what a caller has heard when it is answered *)

Answers == VersionsOK /\ Answered

\* No RESULT is sent.
NoResult == \A u \in Sessions : \A f \in Range(out'[u]) : f.type = "RESULT" => f \in Range(out[u])

\* What a step leaves alone: tasks that wait for their value, versions held before
\* the change, fan-outs, answers, and what was heard.
StaysWaiting ==
    \A u \in Sessions : at[u].pc \in Waiting =>
       at'[u].pc \in Waiting /\ at'[u].stream = at[u].stream
StaysHeld == \A u \in Sessions : Holds(u)' => Holds(u) /\ at'[u].version = at[u].version
StaysFanning ==
    \A u \in Sessions : at'[u].pc \in Fanning =>
       at[u].pc \in Fanning /\ at'[u].version = at[u].version /\ Key(u)' = Key(u)
ResultsHeard ==
    \A u \in Sessions : at'[u].pc = "result" =>
       \/ at[u].pc = "result" /\ at'[u].version = at[u].version
       \/ (Issued(at[u].version) /\ Heard(u, at[u].version))'
OwnResults ==
    \A u \in Sessions : \A f \in Range(out'[u]) : f.type = "RESULT" =>
       f \in Range(out[u]) \/ (at[u].pc = "result" /\ f.version = at[u].version)
HeardStays == \A u \in Sessions : \A v : (Issued(v) /\ Heard(u, v)) => Heard(u, v)'

\* What a session has heard it does not forget.
LEMMA HeardStep ==
    ASSUME Grows, StaysWaiting,
           \A u \in Sessions : watches'[u] \subseteq watches[u],
           NEW s \in Sessions, NEW v, Heard(s, v),
           \A k \in Keys : v \in changes'[k] => v \in changes[k]
    PROVE  Heard(s, v)'
<1> USE DEF StaysWaiting
<1> SUFFICES ASSUME NEW k \in Keys, v \in changes'[k], ~cancelled'[s],
                    NEW st \in StreamsOf(s, k)', Live(s, st)'
             PROVE  Knows(s, st, v)'
  BY Zenon DEF Heard
<1>1. st \in StreamsOf(s, k)
  BY ZenonT(30) DEF StreamsOf
<1>2. Live(s, st)
  BY ZenonT(30) DEF Live, Waiting
<1>3. ~cancelled[s] /\ known[s] \subseteq known'[s]
  BY Zenon DEF Grows
<1> QED  BY <1>1, <1>2, <1>3, Zenon DEF Heard, Knows

LEMMA AnsweredStep ==
    ASSUME Answered, \A v : Issued(v) => Issued(v)', HeardStays, ResultsHeard, OwnResults
    PROVE  Answered'
<1> USE DEF ResultsHeard, OwnResults, HeardStays
<1>1. \A u \in Sessions : at'[u].pc = "result" =>
         (Issued(at[u].version) /\ Heard(u, at[u].version))'
  BY Zenon DEF Answered
<1>2. \A u \in Sessions : \A f \in Range(out'[u]) : f.type = "RESULT" =>
         Issued(f.version)' /\ Heard(u, f.version)'
  BY Zenon DEF Answered
<1> QED  BY <1>1, <1>2, Zenon DEF Answered

LEMMA AnswersHeard ==
    ASSUME Answers, UNCHANGED <<global_version, changes>>, HeardStays, StaysHeld, StaysFanning, ResultsHeard, OwnResults
    PROVE  Answers'
<1>VersionsStep. ASSUME VersionsOK,
                        \A u \in Sessions : at'[u].pc \in Fanning => at'[u].version \in changes[Key(u)']
                 PROVE  VersionsOK' /\ \A v : Issued(v) => Issued(v)'
  <2> USE <1>VersionsStep
  <2> USE DEF StaysHeld
  <2>1. \A v : Issued(v) => Issued(v)'
    BY Zenon DEF Issued
  <2>2. \A k \in Keys : \A v \in changes'[k] : v > 0 /\ Issued(v)'
    BY <2>1, Zenon DEF VersionsOK
  <2>3. \A k, l \in Keys : k # l => changes'[k] \cap changes'[l] = {}
    BY Zenon DEF VersionsOK
  <2>4. \A u \in Sessions : Holds(u)' => at'[u].version > 0 /\ at'[u].version <= global_version'
    BY Zenon DEF VersionsOK
  <2>5. \A u, w \in Sessions : (Holds(u)' /\ Holds(w)' /\ at'[u].version = at'[w].version) => u = w
    BY Zenon DEF VersionsOK
  <2>6. \A s \in Sessions : at'[s].pc \in {"log", "snapshot", "send", "direct"} =>
            at'[s].version \in changes'[Key(s)']
    BY Zenon DEF Fanning
  <2> QED  BY <2>1, <2>2, <2>3, <2>4, <2>5, <2>6, Zenon DEF VersionsOK
<1> USE DEF StaysHeld, StaysFanning, ResultsHeard, OwnResults, HeardStays
<1>1. VersionsOK /\ Answered
  BY Zenon DEF Answers
<1>2. \A u \in Sessions : at'[u].pc \in Fanning => at'[u].version \in changes[Key(u)']
  BY <1>1, Zenon DEF VersionsOK, Fanning
<1>3. VersionsOK' /\ \A v : Issued(v) => Issued(v)'
  BY <1>1, <1>2, <1>VersionsStep, Zenon DEF StaysHeld
<1>4. Answered'
  BY <1>1, <1>3, AnsweredStep, Zenon DEF ResultsHeard, OwnResults, HeardStays
<1> QED  BY <1>3, <1>4, Zenon DEF Answers

\* A step that draws no version, changes no key and ends no call.
LEMMA AnswersStep ==
    ASSUME Answers, UNCHANGED <<global_version, changes>>, Grows, StaysWaiting,
           \A u \in Sessions : watches'[u] \subseteq watches[u], StaysHeld, StaysFanning, ResultsHeard, OwnResults
    PROVE  Answers'
<1> USE DEF StaysWaiting, StaysHeld, StaysFanning, ResultsHeard, OwnResults
<1>1. \A u \in Sessions : \A v : (Issued(v) /\ Heard(u, v)) => Heard(u, v)'
  BY HeardStep, Zenon DEF StaysWaiting
<1> QED  BY <1>1, AnswersHeard, Zenon DEF StaysHeld, StaysFanning, ResultsHeard, OwnResults, HeardStays

LEMMA TaskAnswers ==
    ASSUME Answers, NEW s \in Sessions, NEW pc, NEW key, NEW st, NEW v, NEW todo, NEW tg, NEW sl,
           Becomes(s, pc, key, st, v, todo, tg, sl),
           at[s].pc \in Waiting => pc \in Waiting /\ st = at[s].stream,
           pc \in {"diff", "insert"} => at[s].pc \in {"diff", "insert"} /\ v = at[s].version,
           pc \in Fanning => at[s].pc \in Fanning /\ v = at[s].version /\ key = Key(s),
           pc # "result", Grows, NoResult, UNCHANGED <<global_version, changes, watches>>
    PROVE  Answers'
<1>1. /\ \A u \in Sessions : u # s => at'[u] = at[u]
      /\ at'[s].pc = pc /\ Key(s)' = key /\ at'[s].stream = st /\ at'[s].version = v
  BY Zenon DEF Becomes
<1>2. \A u \in Sessions : at[u].pc \in Waiting =>
         at'[u].pc \in Waiting /\ at'[u].stream = at[u].stream
  BY <1>1, Zenon
<1>3. \A u \in Sessions : watches'[u] \subseteq watches[u]
  BY Zenon
<1>4. \A u \in Sessions : Holds(u)' => Holds(u) /\ at'[u].version = at[u].version
  BY <1>1, Zenon DEF Holds
<1>5. \A u \in Sessions : at'[u].pc \in Fanning =>
         at[u].pc \in Fanning /\ at'[u].version = at[u].version /\ Key(u)' = Key(u)
  BY <1>1, Zenon DEF Key
<1>6. \A u \in Sessions : at'[u].pc = "result" =>
         at[u].pc = "result" /\ at'[u].version = at[u].version
  BY <1>1, Zenon
<1> QED  BY <1>2, <1>3, <1>4, <1>5, <1>6, AnswersStep, Zenon DEF NoResult, StaysWaiting, StaysHeld, StaysFanning, ResultsHeard, OwnResults

LEMMA StillAnswers ==
    ASSUME Answers, at' = at, \A u \in Sessions : watches'[u] \subseteq watches[u], Grows, NoResult,
           UNCHANGED <<global_version, changes>>
    PROVE  Answers'
BY AnswersStep, Zenon DEF NoResult, Holds, Key, StaysWaiting, StaysHeld, StaysFanning, ResultsHeard, OwnResults

LEMMA SentNoResult ==
    ASSUME NEW s \in Sessions, NEW f, Sent(s, f), f.type # "RESULT"
    PROVE  NoResult
BY Zenon DEF Sent, NoResult

LEMMA OutSame ==
    ASSUME out' = out
    PROVE  NoResult
BY Zenon DEF NoResult

-----------------------------------------------------------------------------
(* The steps outside the fan-out *)

\* What a step keeps of the invariant.
Kept == Registered' /\ AllTold' /\ (Answers => Answers')

\* A task moves outside the fan-out, and the call it runs is not answered.
LEMMA PlainStep ==
    ASSUME Inv, NEW s \in Sessions, NEW pc, NEW key, NEW st, NEW v, NEW todo, NEW tg, NEW sl,
           Becomes(s, pc, key, st, v, todo, tg, sl), at[s].pc \notin Fanning,
           pc \in Waiting \cup {"init"} => at[s].pc \in Waiting /\ key = Key(s)
                                           /\ st = at[s].stream,
           at[s].pc \in Waiting => pc \in Waiting,
           sl \subseteq at[s].slow, Grows, NoResult,
           pc \notin Fanning \cup {"diff", "insert", "result"},
           UNCHANGED <<subscriptions, watches, next_stream, changes, phase, global_version>>
    PROVE  Kept
\* A task that is outside the fan-out before and after the step.
<1>PlainAnswers. ASSUME Answers, at[s].pc \in Waiting => pc \in Waiting /\ st = at[s].stream,
                        pc \notin Fanning \cup {"diff", "insert", "result"},
                        NoResult, UNCHANGED <<global_version, changes, watches>>
                 PROVE  Answers'
  <2> USE <1>PlainAnswers
  <2>1. pc \notin Fanning /\ pc \notin {"diff", "insert"} /\ pc # "result"
    BY Zenon
  <2> QED  BY <2>1, TaskAnswers, Zenon
<1>1. Registered' /\ AllTold'
  BY TaskStep, Zenon
<1>2. ASSUME Answers
      PROVE  Answers'
  BY <1>2, <1>PlainAnswers, Zenon
<1> QED  BY <1>1, <1>2, Zenon DEF Kept

LEMMA FreshStep ==
    ASSUME Inv, NEW s \in Sessions, NEW pc, NEW key, NEW todo,
           Becomes(s, pc, key, 0, 0, todo, <<>>, {}), at[s].pc \notin Fanning,
           pc \notin Waiting \cup {"init"}, at[s].pc \notin Waiting, Grows, NoResult,
           pc \notin Fanning \cup {"diff", "insert", "result"},
           UNCHANGED <<subscriptions, watches, next_stream, changes, phase, global_version>>
    PROVE  Kept
<1> DEFINE none == {}
           no == <<>>
<1>1. Becomes(s, pc, key, 0, 0, todo, no, none) /\ none \subseteq at[s].slow
  BY Zenon
<1> HIDE DEF none, no
<1> QED  BY <1>1, PlainStep, Zenon

LEMMA SentGrows ==
    ASSUME ChannelType, NEW s \in Sessions, NEW f, Sent(s, f),
           \A u \in Sessions : known[u] \subseteq known'[u]
    PROVE  Grows
BY Zenon DEF Grows, Sent

LEMMA FrameKinds ==
    /\ \A st, d : DeltaFrame(st, d).type # "RESULT"
    /\ \A st, k, e : StateInit(st, k, e).type # "RESULT"
    /\ ErrorFrame.type # "RESULT"
BY ZenonT(30) DEF DeltaFrame, StateInit, ErrorFrame

\* No task moves.
LEMMA TasksStay ==
    ASSUME at' = at
    PROVE  /\ \A u \in Sessions : SameStream(u)
           /\ \A u \in Sessions : \A z \in at'[u].slow : z \in at[u].slow \/ cancelled'[z]
BY Zenon DEF SameStream, SameTask, Key

LEMMA StillStep ==
    ASSUME Inv, UNCHANGED <<at, subscriptions, watches, next_stream, changes, phase, global_version>>,
           Grows, NoResult
    PROVE  Kept
<1>1. Shrinks
  BY SameTables, Zenon DEF Inv
<1>2. Registered' /\ AllTold'
  BY <1>1, TasksStay, QuietStep, Zenon
<1>3. Answers => Answers'
  BY StillAnswers, Zenon
<1> QED  BY <1>2, <1>3, Zenon DEF Kept

\* A session's task ends its work, and its phase changes with it.
LEMMA TaskEnds ==
    ASSUME Inv, NEW s \in Sessions, UNCHANGED <<watches, next_stream, changes, global_version>>,
           Grows, Shrinks, NoResult,
           \A u \in Sessions : u # s => at'[u] = at[u] /\ phase'[u] = phase[u],
           at[s].pc \notin Fanning, at[s].pc \notin Waiting,
           at'[s].pc \in {"idle", "next"}, at'[s].slow = {}
    PROVE  Kept
<1>t. at'[s].pc \notin Waiting \cup {"init"}
  BY ZenonT(30) DEF Waiting
<1>1. ASSUME NEW u \in Sessions
      PROVE  SameStream(u)
  <2>1. CASE u # s
    BY <2>1, Zenon DEF SameStream, SameTask, Key
  <2>2. CASE u = s
    BY <1>t, <2>2, Zenon DEF SameStream, SameTask
  <2> QED  BY <2>1, <2>2, Zenon
<1>2. \A u \in Sessions : \A z \in at'[u].slow : z \in at[u].slow \/ cancelled'[z]
  BY Zenon
<1>3. \A u \in Sessions : at[u].pc \in Fanning => at'[u] = at[u] /\ phase'[u] = phase[u]
  BY Zenon
<1>4. Registered' /\ AllTold'
  BY <1>1, <1>2, <1>3, QuietStep, Zenon
<1>5. ASSUME Answers
      PROVE  Answers'
  <2>1. \A u \in Sessions : at[u].pc \in Waiting =>
           at'[u].pc \in Waiting /\ at'[u].stream = at[u].stream
    BY Zenon
  <2>2. \A u \in Sessions : Holds(u)' => Holds(u) /\ at'[u].version = at[u].version
    BY ZenonT(30) DEF Holds
  <2>3. \A u \in Sessions : at'[u].pc \in Fanning =>
           at[u].pc \in Fanning /\ at'[u].version = at[u].version /\ Key(u)' = Key(u)
    BY ZenonT(30) DEF Fanning, Key
  <2>4. \A u \in Sessions : at'[u].pc = "result" =>
           at[u].pc = "result" /\ at'[u].version = at[u].version
    BY ZenonT(30)
  <2>5. \A u \in Sessions : watches'[u] \subseteq watches[u]
    BY Zenon
  <2> QED  BY <1>5, <2>1, <2>2, <2>3, <2>4, <2>5, AnswersStep, ZenonT(30) DEF NoResult, StaysWaiting, StaysHeld, StaysFanning, ResultsHeard, OwnResults
<1> QED  BY <1>4, <1>5, Zenon DEF Kept

LEMMA LeaveTold ==
    ASSUME Inv, NEW s \in Sessions, Leave(s), \A u \in Sessions : cancelled[u] => cancelled'[u], NoResult
    PROVE  Kept
<1>1. TypeOK /\ Registered
  BY Zenon DEF Inv
<1>2. /\ UNCHANGED <<subscriptions, watches, next_stream, changes, known, global_version>>
      /\ phase' = [phase EXCEPT ![s] = "cleanup"]
      /\ at[s].pc = "idle" /\ at[s].pc \notin Fanning /\ at[s].pc \notin Waiting
  BY ZenonT(30) DEF Leave, At, Fanning, Waiting, storeVars, history
<1>3. /\ phase \in [Sessions -> {"none", "open", "cleanup", "closed"}]
      /\ presence[s] \in Seq(Path)
  BY <1>1, Zenon DEF TypeOK, TableType
<1>4. phase'[s] = "cleanup" /\ \A u \in Sessions : u # s => phase'[u] = phase[u]
  BY <1>2, <1>3, Zenon
<1>5. Shrinks
  <2> SUFFICES ASSUME NEW k \in Keys, NEW x \in Range(subscriptions[k])
               PROVE  x.session \in Sessions /\ phase'[x.session] \in {"open", "cleanup"}
    BY <1>2, Zenon DEF Shrinks
  <2>1. x.session \in Sessions /\ phase[x.session] \in {"open", "cleanup"}
    BY <1>1, SubscriberSession, Zenon DEF Registered
  <2> QED  BY <1>4, <2>1, Zenon
<1>6. Becomes(s, "next", Null, 0, 0, presence[s], <<>>, {})
  BY <1>1, <1>3, LeaveAt, Zenon DEF TypeOK
<1>7. /\ \A u \in Sessions : u # s => at'[u] = at[u] /\ phase'[u] = phase[u]
      /\ at'[s].pc = "next" /\ at'[s].slow = {}
  BY <1>4, <1>6, Zenon DEF Becomes
<1>9. Grows
  BY <1>2, Zenon DEF Grows
<1> QED  BY <1>2, <1>4, <1>5, <1>7, <1>9, TaskEnds, ZenonT(30)

LEMMA TimeoutTold ==
    ASSUME Inv, NEW s \in Sessions, Timeout(s)
    PROVE  Kept
<1>1. ChannelType
  BY Zenon DEF Inv, TypeOK
<1>2. Leave(s) /\ (Send(s, ErrorFrame) \/ UNCHANGED <<cancelled, out>>)
  BY ZenonT(30) DEF Timeout, Expire, channelVars
<1>3. NoResult
  BY <1>1, <1>2, FrameTypes, FrameKinds, SendSent, SentNoResult, OutSame, ZenonT(30)
<1> QED  BY <1>1, <1>2, <1>3, ExpireSends, LeaveTold, Zenon DEF Timeout, Expire

-----------------------------------------------------------------------------
(* The steps of a client *)

LEMMA ConnType ==
    ASSUME ClientType, NEW c \in Clients
    PROVE  /\ conn[c] \in Sessions \cup {0} /\ 0 \notin Sessions
           /\ conn[c] # 0 => conn[c] \in Sessions
           /\ \A k \in Keys : view[c][k] # NoEntry => view[c][k] \in ViewEntry
<1>1. conn[c] \in Sessions \cup {0} /\ view[c] \in [Keys -> ViewEntry \cup {NoEntry}]
  BY Zenon DEF ClientType
<1>2. 0 \notin Sessions
  BY ServerAssumption, ZenonT(30)
<1> QED  BY <1>1, <1>2, Zenon

LEMMA DeliverOut ==
    ASSUME Inv0, NEW c \in Clients, Deliver(c)
    PROVE  /\ conn[c] \in Sessions /\ Head(out[conn[c]]) \in OutFrame
           /\ out' \in [Sessions -> Seq(OutFrame)]
           /\ \A u \in Sessions : Range(out'[u]) \subseteq Range(out[u])
<1> DEFINE s == conn[c]
<1>1. out \in [Sessions -> Seq(OutFrame)] /\ ClientType
  BY Zenon DEF Inv0, TypeOK, ChannelType
<1>2. s \in Sessions /\ out[s] # <<>> /\ out' = [out EXCEPT ![s] = Tail(out[s])]
  BY <1>1, ConnType, Zenon DEF Deliver
<1> HIDE DEF s
<1>3. out[s] \in Seq(OutFrame)
  BY <1>1, <1>2, Zenon
<1>4. Head(out[s]) \in OutFrame /\ Tail(out[s]) \in Seq(OutFrame)
  BY <1>2, <1>3, HeadTail, Zenon
<1>5. Range(Tail(out[s])) \subseteq Range(out[s])
  BY <1>2, <1>3, SMT, Z3 DEF Range
<1>6. /\ out' \in [Sessions -> Seq(OutFrame)] /\ out'[s] = Tail(out[s])
      /\ \A u \in Sessions : u # s => out'[u] = out[u]
  BY <1>1, <1>2, <1>4, Update, Zenon
<1>7. \A u \in Sessions : Range(out'[u]) \subseteq Range(out[u])
  BY <1>5, <1>6, Zenon
<1> QED  BY <1>2, <1>4, <1>6, <1>7, Zenon DEF s

LEMMA ClientInv0 ==
    ASSUME Inv0,
           \/ \E c \in Clients : Connect(c) \/ Lose(c) \/ OnClose(c) \/ Deliver(c) \/ Call(c)
           \/ \E c \in Clients, k \in Keys :
                 Watch(c, k) \/ WatchMany(c, k) \/ Unsubscribe(c, k) \/ ClientUnwatch(c, k)
    PROVE  Inv0'
<1>ClientKeeps. ASSUME UNCHANGED <<global_version, entries, log, changes, loose, at, phase>>,
                       UNCHANGED <<subscriptions, watches, presence, next_stream>>, ChannelType',
                       ClientType'
                PROVE  Inv0'
  <2> USE <1>ClientKeeps
  <2>1. TypeOK /\ \A u \in Sessions : HandlerOK(u)
    BY Zenon DEF Inv0
  <2>2. AtType'
    BY <2>1, Zenon DEF TypeOK, AtType
  <2>3. TypeOK'
    BY <2>1, <2>2, StoreFrame, TableFrame, Zenon DEF TypeOK
  <2> QED  BY <2>1, <2>3, HandlerStays, Zenon DEF Inv0
<1>ToServerType. ASSUME ChannelType, ClientType, NEW c \in Clients, NEW r \in Frame,
                        ToServer(c, r)
                 PROVE  inbox' \in [Sessions -> Seq(Frame)]
  <2> USE <1>ToServerType
  <2>1. inbox \in [Sessions -> Seq(Frame)]
    BY Zenon DEF ChannelType
  <2>2. CASE conn[c] = 0
    BY <2>1, <2>2, Zenon DEF ToServer
  <2>3. CASE conn[c] # 0
    <3>1. conn[c] \in Sessions
      BY <2>3, ConnType, Zenon
    <3>2. inbox[conn[c]] \in Seq(Frame)
      BY <2>1, <3>1, Zenon
    <3>3. Append(inbox[conn[c]], r) \in Seq(Frame)
      BY <3>2, SMT, Z3
    <3>4. inbox' = [inbox EXCEPT ![conn[c]] = Append(inbox[conn[c]], r)]
      BY <2>3, Zenon DEF ToServer
    <3> QED  BY <2>1, <3>1, <3>3, <3>4, Update, Zenon
  <2> QED  BY <2>2, <2>3, Zenon
<1>RequestType. ASSUME NEW type \in {"WATCH", "RESUME", "UNWATCH"}, NEW k \in Keys, NEW n \in Nat
                PROVE  /\ Request(type, k, n) \in Frame /\ Request(type, k, n).type = type
                       /\ Request(type, k, n).key = k
  BY <1>RequestType, Zenon DEF Request, NoRequest, Frame, WatchRequest
<1>ViewUpdate. ASSUME ClientType, NEW c \in Clients, NEW k \in Keys, NEW e,
                      e \in ViewEntry \cup {NoEntry},
                      view' = [view EXCEPT ![c][k] = e]
               PROVE  /\ view' \in [Clients -> [Keys -> ViewEntry \cup {NoEntry}]]
                      /\ view'[c][k] = e
                      /\ \A l \in Keys : l # k => view'[c][l] = view[c][l]
                      /\ \A d \in Clients : d # c => view'[d] = view[d]
  <2> USE <1>ViewUpdate
  <2> DEFINE row == [view[c] EXCEPT ![k] = e]
  <2>1. /\ view \in [Clients -> [Keys -> ViewEntry \cup {NoEntry}]]
        /\ view[c] \in [Keys -> ViewEntry \cup {NoEntry}]
    BY Zenon DEF ClientType
  <2>2. /\ row \in [Keys -> ViewEntry \cup {NoEntry}] /\ row[k] = e
        /\ \A l \in Keys : l # k => row[l] = view[c][l]
    BY <2>1, Update, Zenon
  <2>3. view' = [view EXCEPT ![c] = row]
    BY Zenon
  <2> DEFINE Rows == [Keys -> ViewEntry \cup {NoEntry}]
  <2>4. view \in [Clients -> Rows] /\ row \in Rows
    BY <2>1, <2>2, Zenon
  <2> HIDE DEF row, Rows
  <2>5. /\ view' \in [Clients -> Rows] /\ view'[c] = row
        /\ \A d \in Clients : d # c => view'[d] = view[d]
    BY <2>3, <2>4, Zenon
  <2> QED  BY <2>2, <2>5, Zenon DEF Rows
<1>NewEntryType. NewEntry \in ViewEntry
  BY ZenonT(30) DEF NewEntry, ViewEntry, Value
\* A step of a client that changes its view, its bindings and what it sent.
<1>ClientChanges. ASSUME UNCHANGED <<global_version, entries, log, changes, loose, at, phase>>,
                         UNCHANGED <<subscriptions, watches, presence, next_stream>>,
                         UNCHANGED <<cancelled, peer_gone, writer, known, raced, conn>>,
                         inbox' \in [Sessions -> Seq(Frame)], out' \in [Sessions -> Seq(OutFrame)],
                         view' \in [Clients -> [Keys -> ViewEntry \cup {NoEntry}]],
                         streamToKey' \in [Clients -> SUBSET (Nat \X Keys)],
                         skipped' \in [Clients -> SUBSET Keys],
                         calls' \in Nat, losses' \in Nat, watched' \in Nat
                  PROVE  Inv0'
  <2> USE <1>ClientChanges
  <2>1. ChannelType /\ ClientType
    BY Zenon DEF Inv0, TypeOK
  <2>2. ChannelType'
    BY <2>1, Zenon DEF ChannelType
  <2>3. ClientType'
    BY <2>1, Zenon DEF ClientType
  <2> QED  BY <2>2, <2>3, <1>ClientKeeps, Zenon
<1>ConnectInbox. ASSUME ClientType, NEW c \in Clients, NEW ks,
                        ks \in Listings({k \in Keys : view[c][k] # NoEntry /\ view[c][k].listening}),
                        NEW q, q = [i \in DOMAIN ks |-> Resubscribe(c, ks[i])]
                 PROVE  /\ q \in Seq(Frame) /\ DOMAIN q = DOMAIN ks
                        /\ \A i \in DOMAIN q : /\ ks[i] \in Keys /\ view[c][ks[i]] # NoEntry
                                               /\ q[i].key = ks[i] /\ q[i].type \in {"WATCH", "RESUME"}
                        /\ \A i, j \in DOMAIN q : ks[i] = ks[j] => i = j
  <2> USE <1>ConnectInbox
  <2> DEFINE S == {k \in Keys : view[c][k] # NoEntry /\ view[c][k].listening}
  <2>1. PICK n \in 0..Cardinality(Keys) : ks \in Bijection(1..n, S)
    BY Zenon DEF Listings
  <2>2. n \in Nat
    BY SMT, Z3
  <2>3. \A k \in S : k \in Keys /\ view[c][k] # NoEntry
    BY Zenon
  <2> HIDE DEF S
  <2>4. ks \in [1..n -> S] /\ \A i, j \in 1..n : ks[i] = ks[j] => i = j
    BY <2>1, Zenon DEF Bijection, Injection, IsInjective
  <2>5. \A k \in S : Resubscribe(c, k) \in Frame /\ Resubscribe(c, k).key = k
                     /\ Resubscribe(c, k).type \in {"WATCH", "RESUME"}
    <3> TAKE k \in S
    <3>1. view[c][k] \in ViewEntry
      BY <2>3, ConnType, Zenon
    <3>2. view[c][k].version \in Nat /\ 0 \in Nat
      BY <3>1, ZenonT(30) DEF ViewEntry
    <3>3. CASE view[c][k].version > 0
      <4>1. Resubscribe(c, k) = Request("RESUME", k, view[c][k].version)
        BY <3>3, Zenon DEF Resubscribe
      <4>2. LET r == Request("RESUME", k, view[c][k].version)
            IN r \in Frame /\ r.type = "RESUME" /\ r.key = k
        BY <2>3, <3>2, <1>RequestType, Zenon
      <4> QED  BY <4>1, <4>2, ZenonT(30)
    <3>4. CASE ~(view[c][k].version > 0)
      <4>1. Resubscribe(c, k) = Request("WATCH", k, 0)
        BY <3>4, Zenon DEF Resubscribe
      <4>2. LET r == Request("WATCH", k, 0)
            IN r \in Frame /\ r.type = "WATCH" /\ r.key = k
        BY <2>3, <3>2, <1>RequestType, SMTT(30), Z3T(30)
      <4> QED  BY <4>1, <4>2, ZenonT(30)
    <3> QED  BY <3>3, <3>4, Zenon
  <2>6. DOMAIN ks = 1..n /\ \A i \in 1..n : ks[i] \in S
    BY <2>4, Zenon
  <2>7. DOMAIN q = 1..n /\ \A i \in 1..n : q[i] = Resubscribe(c, ks[i])
    BY <2>6, Zenon
  <2>8. \A i \in 1..n : q[i] \in Frame
    BY <2>5, <2>6, <2>7, Zenon
  <2>9. q \in [1..n -> Frame]
    BY <2>6, <2>8, Zenon
  <2>10. q \in Seq(Frame)
    BY <2>2, <2>9, SMT, Z3
  <2>11. \A i \in DOMAIN q : /\ ks[i] \in Keys /\ view[c][ks[i]] # NoEntry
                             /\ q[i].key = ks[i] /\ q[i].type \in {"WATCH", "RESUME"}
    BY <2>3, <2>5, <2>6, <2>7, Zenon
  <2>12. \A i, j \in DOMAIN q : ks[i] = ks[j] => i = j
    BY <2>4, <2>7, Zenon
  <2> QED  BY <2>6, <2>7, <2>10, <2>11, <2>12, ZenonT(30)
<1>Connect. ASSUME NEW c \in Clients, Connect(c)
            PROVE  Inv0'
  <2> USE <1>Connect
  <2>1. TypeOK /\ \A u \in Sessions : HandlerOK(u)
    BY ZenonT(30) DEF Inv0
  <2>2. /\ UNCHANGED <<global_version, entries, log, changes, loose>>
        /\ UNCHANGED <<subscriptions, watches, presence, next_stream, at>>
        /\ UNCHANGED <<out, cancelled, peer_gone, writer, known, raced>>
        /\ UNCHANGED <<view, streamToKey, calls, losses, watched>>
    BY ZenonT(30) DEF Connect, storeVars, channelVars, history, bounds
  <2>3. PICK s \in Sessions :
           /\ phase[s] = "none"
           /\ conn' = [conn EXCEPT ![c] = s]
           /\ phase' = [phase EXCEPT ![s] = "open"]
           /\ \E ks \in Listings({k \in Keys : view[c][k] # NoEntry /\ view[c][k].listening}) :
                 inbox' = [inbox EXCEPT ![s] = [i \in DOMAIN ks |-> Resubscribe(c, ks[i])]]
    BY Zenon DEF Connect
  <2>4. PICK ks \in Listings({k \in Keys : view[c][k] # NoEntry /\ view[c][k].listening}) :
           inbox' = [inbox EXCEPT ![s] = [i \in DOMAIN ks |-> Resubscribe(c, ks[i])]]
    BY <2>3, Zenon
  <2> DEFINE q == [i \in DOMAIN ks |-> Resubscribe(c, ks[i])]
  <2>5. q \in Seq(Frame)
    BY <2>1, <1>ConnectInbox, Zenon DEF TypeOK
  <2>6. inbox' = [inbox EXCEPT ![s] = q]
    BY <2>4, Zenon
  <2> HIDE DEF q
  <2>7. /\ inbox \in [Sessions -> Seq(Frame)] /\ conn \in [Clients -> Sessions \cup {0}]
        /\ phase \in [Sessions -> {"none", "open", "cleanup", "closed"}]
    BY <2>1, Zenon DEF TypeOK, TableType, ChannelType, ClientType
  <2>8. inbox' \in [Sessions -> Seq(Frame)]
    BY <2>5, <2>6, <2>7, Update, Zenon
  <2>9. conn' \in [Clients -> Sessions \cup {0}]
    BY <2>3, <2>7, Zenon
  <2>10. "open" \in {"none", "open", "cleanup", "closed"}
    BY ZenonT(30)
  <2>11. /\ phase' \in [Sessions -> {"none", "open", "cleanup", "closed"}]
         /\ phase'[s] = "open" /\ \A u \in Sessions : u # s => phase'[u] = phase[u]
    BY <2>3, <2>7, <2>10, Update, Zenon
  <2>12. ChannelType'
    BY <2>1, <2>2, <2>8, Zenon DEF TypeOK, ChannelType
  <2>13. ClientType'
    <3>1. skipped \in [Clients -> SUBSET Keys] /\ Deaf(c) \in SUBSET Keys
      BY <2>1, Zenon DEF TypeOK, ClientType, Deaf
    <3>2. skipped' \in [Clients -> SUBSET Keys]
      BY <3>1, Update, Zenon DEF Connect
    <3> QED  BY <2>1, <2>2, <2>9, <3>2, Zenon DEF TypeOK, ClientType
  <2>14. TableType'
    BY <2>1, <2>2, <2>11, Zenon DEF TypeOK, TableType
  <2>15. AtType'
    BY <2>1, <2>2, Zenon DEF TypeOK, AtType
  <2>16. TypeOK'
    BY <2>1, <2>2, <2>12, <2>13, <2>14, <2>15, StoreFrame, ZenonT(30) DEF TypeOK
  <2>17. at'[s].pc = "idle" /\ \A u \in Sessions : u # s => at'[u] = at[u] /\ phase'[u] = phase[u]
    BY <2>1, <2>2, <2>3, <2>11, ZenonT(30) DEF HandlerOK
  <2>18. HandlerOK(s)'
    BY <2>11, <2>17, ZenonT(30) DEF HandlerOK, HandlerPCs, WritePCs
  <2> QED  BY <2>1, <2>16, <2>17, <2>18, HandlerOthers, ZenonT(30) DEF Inv0
<1>Disconnected. ASSUME NEW c \in Clients, conn[c] # 0, Disconnected(c), losses' \in Nat
                 PROVE  Inv0'
  <2> USE <1>Disconnected
  <2>1. ChannelType /\ ClientType
    BY Zenon DEF Inv0, TypeOK
  <2>2. /\ UNCHANGED <<global_version, entries, log, changes, loose, at, phase>>
        /\ UNCHANGED <<subscriptions, watches, presence, next_stream>>
        /\ UNCHANGED <<inbox, out, cancelled, writer, known, raced, view, skipped, calls, watched>>
    BY ZenonT(30) DEF Disconnected, storeVars, sessionVars, channelVars, history
  <2>3. /\ peer_gone' = [peer_gone EXCEPT ![conn[c]] = TRUE]
        /\ conn' = [conn EXCEPT ![c] = 0]
        /\ streamToKey' = [streamToKey EXCEPT ![c] = {}]
    BY ZenonT(30) DEF Disconnected
  <2>4. ChannelType'
    <3>1. peer_gone' \in [Sessions -> BOOLEAN]
      BY <2>1, <2>3, ConnType, Zenon DEF ChannelType
    <3> QED  BY <2>1, <2>2, <3>1, Zenon DEF ChannelType
  <2>5. ClientType'
    <3>1. conn' \in [Clients -> Sessions \cup {0}] /\ streamToKey' \in [Clients -> SUBSET (Nat \X Keys)]
      BY <2>1, <2>3, Zenon DEF ClientType
    <3> QED  BY <2>1, <2>2, <3>1, Zenon DEF ClientType
  <2> QED  BY <2>2, <2>4, <2>5, <1>ClientKeeps, ZenonT(30)
<1>Lose. ASSUME NEW c \in Clients, Lose(c)
         PROVE  Inv0'
  <2> USE <1>Lose
  <2>1. losses' \in Nat
    BY SMT, Z3 DEF Inv0, TypeOK, ClientType, Lose
  <2> QED  BY <2>1, <1>Disconnected, ZenonT(30) DEF Lose
<1>OnClose. ASSUME NEW c \in Clients, OnClose(c)
            PROVE  Inv0'
  <2> USE <1>OnClose
  <2>1. losses' \in Nat
    BY Zenon DEF Inv0, TypeOK, ClientType, OnClose
  <2> QED  BY <2>1, <1>Disconnected, Zenon DEF OnClose
\* What a client's entry for a key becomes, and what it sends with it.
<1>EntryChanges. ASSUME NEW c \in Clients, NEW k \in Keys, NEW e,
                        e \in ViewEntry \cup {NoEntry},
                        view' = [view EXCEPT ![c][k] = e], NEW r \in Frame,
                        ToServer(c, r) \/ UNCHANGED inbox,
                        UNCHANGED <<global_version, entries, log, changes, loose, at, phase>>,
                        UNCHANGED <<subscriptions, watches, presence, next_stream>>,
                        UNCHANGED <<out, cancelled, peer_gone, writer, known, raced, conn>>,
                        streamToKey' \in [Clients -> SUBSET (Nat \X Keys)],
                        UNCHANGED skipped \/ skipped' = [skipped EXCEPT ![c] = @ \ {k}],
                        UNCHANGED <<calls, losses>>, watched' = watched + 1
                 PROVE  Inv0'
  <2> USE <1>EntryChanges
  <2>1. ChannelType /\ ClientType
    BY Zenon DEF Inv0, TypeOK
  <2>2. calls' \in Nat /\ losses' \in Nat /\ watched' \in Nat
    BY <2>1, SMT, Z3 DEF ClientType
  <2>3. inbox' \in [Sessions -> Seq(Frame)] /\ out' \in [Sessions -> Seq(OutFrame)]
    BY <2>1, <1>ToServerType, Zenon DEF ChannelType
  <2>4. view' \in [Clients -> [Keys -> ViewEntry \cup {NoEntry}]]
    BY <2>1, <1>ViewUpdate, Zenon
  <2>5. skipped' \in [Clients -> SUBSET Keys]
    <3>1. skipped \in [Clients -> SUBSET Keys] /\ skipped[c] \ {k} \in SUBSET Keys
      BY <2>1, Zenon DEF ClientType
    <3>2. CASE skipped' = [skipped EXCEPT ![c] = @ \ {k}]
      BY <3>1, <3>2, ZenonT(30)
    <3>3. CASE UNCHANGED skipped
      BY <3>1, <3>3, Zenon
    <3> QED  BY <3>2, <3>3, Zenon
  <2> QED  BY <2>2, <2>3, <2>4, <2>5, <1>ClientChanges, ZenonT(30)
<1>ListeningType. ASSUME ClientType, NEW c \in Clients, NEW k \in Keys, view[c][k] # NoEntry,
                         NEW b \in BOOLEAN
                  PROVE  [view[c][k] EXCEPT !.listening = b] \in ViewEntry
  <2> USE <1>ListeningType
  <2>1. view[c][k] \in ViewEntry
    BY ConnType, Zenon
  <2> QED  BY <2>1, Zenon DEF ViewEntry
<1>Watch. ASSUME NEW c \in Clients, NEW k \in Keys, Watch(c, k) \/ WatchMany(c, k)
          PROVE  Inv0'
  <2> USE <1>Watch
  <2>1. ClientType
    BY Zenon DEF Inv0, TypeOK
  <2>2. /\ UNCHANGED <<global_version, entries, log, changes, loose, at, phase>>
        /\ UNCHANGED <<subscriptions, watches, presence, next_stream>>
        /\ UNCHANGED <<out, cancelled, peer_gone, writer, known, raced, conn>>
        /\ UNCHANGED <<calls, losses, streamToKey>> /\ watched' = watched + 1
        /\ UNCHANGED skipped \/ skipped' = [skipped EXCEPT ![c] = @ \ {k}]
    BY ZenonT(30) DEF Watch, WatchMany, storeVars, channelVars, history
  <2>3. streamToKey' \in [Clients -> SUBSET (Nat \X Keys)]
    BY <2>1, <2>2, Zenon DEF ClientType
  <2>4. Request("WATCH", k, 0) \in Frame
    BY <1>RequestType, ZenonT(30)
  <2>5. ToServer(c, Request("WATCH", k, 0)) \/ UNCHANGED inbox
    BY Zenon DEF Watch, WatchMany
  <2>6. PICK e \in ViewEntry \cup {NoEntry} : view' = [view EXCEPT ![c][k] = e]
    <3>1. CASE Watch(c, k) /\ view[c][k] = NoEntry
      BY <3>1, <1>NewEntryType, Zenon DEF Watch
    <3>2. CASE Watch(c, k) /\ view[c][k] # NoEntry
      <4>1. view' = [view EXCEPT ![c][k] = [view[c][k] EXCEPT !.listening = TRUE]]
        BY <3>2, Zenon DEF Watch
      <4> QED  BY <2>1, <3>2, <4>1, <1>ListeningType, ZenonT(30)
    <3>3. CASE WatchMany(c, k)
      <4>1. view' = [view EXCEPT ![c][k] = IF view[c][k] = NoEntry THEN NewEntry
                                           ELSE [view[c][k] EXCEPT !.listening = TRUE]]
        BY <3>3, Zenon DEF WatchMany
      <4> QED  BY <2>1, <4>1, <1>ListeningType, <1>NewEntryType, ZenonT(30)
    <3> QED  BY <3>1, <3>2, <3>3, Zenon
  <2> QED  BY <2>2, <2>3, <2>4, <2>5, <2>6, <1>EntryChanges, ZenonT(30)
<1>Unsubscribe. ASSUME NEW c \in Clients, NEW k \in Keys, Unsubscribe(c, k)
                PROVE  Inv0'
  <2> USE <1>Unsubscribe
  <2>1. ClientType
    BY Zenon DEF Inv0, TypeOK
  <2>2. /\ UNCHANGED <<global_version, entries, log, changes, loose, at, phase>>
        /\ UNCHANGED <<subscriptions, watches, presence, next_stream>>
        /\ UNCHANGED <<out, cancelled, peer_gone, writer, known, raced, conn>>
        /\ UNCHANGED <<calls, losses, streamToKey, skipped, inbox>> /\ watched' = watched + 1
    BY ZenonT(30) DEF Unsubscribe, serverVars, storeVars, sessionVars, channelVars, history
  <2>3. streamToKey' \in [Clients -> SUBSET (Nat \X Keys)]
    BY <2>1, <2>2, Zenon DEF ClientType
  <2>4. Request("WATCH", k, 0) \in Frame
    BY <1>RequestType, ZenonT(30)
  <2>5. view' = [view EXCEPT ![c][k] = [view[c][k] EXCEPT !.listening = FALSE]]
    BY Zenon DEF Unsubscribe
  <2>6. [view[c][k] EXCEPT !.listening = FALSE] \in ViewEntry \cup {NoEntry}
    BY <2>1, <1>ListeningType, Zenon DEF Unsubscribe
  <2> QED  BY <2>2, <2>3, <2>4, <2>5, <2>6, <1>EntryChanges, ZenonT(30)
<1>ClientUnwatch. ASSUME NEW c \in Clients, NEW k \in Keys, ClientUnwatch(c, k)
                  PROVE  Inv0'
  <2> USE <1>ClientUnwatch
  <2>1. ClientType
    BY Zenon DEF Inv0, TypeOK
  <2>2. /\ UNCHANGED <<global_version, entries, log, changes, loose, at, phase>>
        /\ UNCHANGED <<subscriptions, watches, presence, next_stream>>
        /\ UNCHANGED <<out, cancelled, peer_gone, writer, known, raced, conn>>
        /\ UNCHANGED <<calls, losses>> /\ watched' = watched + 1
        /\ skipped' = [skipped EXCEPT ![c] = @ \ {k}]
    BY ZenonT(30) DEF ClientUnwatch, storeVars, channelVars, history
  <2>3. streamToKey' \in [Clients -> SUBSET (Nat \X Keys)]
    <3>1. streamToKey \in [Clients -> SUBSET (Nat \X Keys)]
      BY <2>1, Zenon DEF ClientType
    <3>2. CASE UNCHANGED streamToKey
      BY <3>1, <3>2, Zenon
    <3>3. ASSUME NEW w, streamToKey' = [streamToKey EXCEPT ![c] = streamToKey[c] \ {w}]
          PROVE  streamToKey' \in [Clients -> SUBSET (Nat \X Keys)]
      <4>1. streamToKey[c] \ {w} \in SUBSET (Nat \X Keys)
        BY <3>1, Zenon
      <4> QED  BY <3>1, <3>3, <4>1, Update, Zenon
    <3> QED  BY <3>2, <3>3, Zenon DEF ClientUnwatch
  <2>4. Request("UNWATCH", k, 0) \in Frame
    BY <1>RequestType, ZenonT(30)
  <2>5. ToServer(c, Request("UNWATCH", k, 0)) /\ view' = [view EXCEPT ![c][k] = NoEntry]
    BY Zenon DEF ClientUnwatch
  <2> QED  BY <2>2, <2>3, <2>4, <2>5, <1>EntryChanges, ZenonT(30)
<1>Call. ASSUME NEW c \in Clients, Call(c)
         PROVE  Inv0'
  <2> USE <1>Call
  <2>1. ChannelType /\ ClientType
    BY Zenon DEF Inv0, TypeOK
  <2>2. /\ UNCHANGED <<global_version, entries, log, changes, loose, at, phase>>
        /\ UNCHANGED <<subscriptions, watches, presence, next_stream>>
        /\ UNCHANGED <<out, cancelled, peer_gone, writer, known, raced>>
        /\ UNCHANGED <<conn, view, streamToKey, skipped, losses, watched>> /\ calls' = calls + 1
    BY ZenonT(30) DEF Call, storeVars, channelVars, history, clientVars
  <2>3. PICK r \in Requests[c] : ToServer(c, r)
    BY Zenon DEF Call
  <2>4. r \in Frame
    BY WatchSyncAssumption, Zenon DEF Frame
  <2>5. inbox' \in [Sessions -> Seq(Frame)]
    BY <2>1, <2>3, <2>4, <1>ToServerType, Zenon
  <2>6. ChannelType'
    BY <2>1, <2>2, <2>5, ZenonT(30) DEF ChannelType
  <2>7. ClientType'
    BY <2>1, <2>2, SMTT(30), Z3T(30) DEF ClientType
  <2> QED  BY <2>2, <2>6, <2>7, <1>ClientKeeps, Zenon
<1>EntryUpdate. ASSUME NEW e \in ViewEntry, NEW v \in Nat, NEW val \in Value, NEW b \in BOOLEAN
                PROVE  [e EXCEPT !.version = v, !.value = val, !.initialized = b] \in ViewEntry
  BY <1>EntryUpdate, Zenon DEF ViewEntry
<1>OnDeltaType. ASSUME ClientType, NEW c \in Clients, NEW f \in OutFrame, f.type = "DELTA",
                       OnDelta(c, f)
                PROVE  /\ view' \in [Clients -> [Keys -> ViewEntry \cup {NoEntry}]]
                       /\ streamToKey' \in [Clients -> SUBSET (Nat \X Keys)]
                       /\ \A d \in Clients, k \in Keys : view[d][k] = NoEntry <=> view'[d][k] = NoEntry
  <2> USE <1>OnDeltaType
  <2> DEFINE ks == {w[2] : w \in {x \in streamToKey[c] : x[1] = f.stream}}
             e(k) == [view[c][k] EXCEPT !.version = f.version,
                                        !.value = ApplyOps(view[c][k].value, f.ops),
                                        !.initialized = f.ops.kind # "remove"]
             row == [k \in Keys |-> IF k \in ks /\ view[c][k] # NoEntry THEN e(k) ELSE view[c][k]]
             Rows == [Keys -> ViewEntry \cup {NoEntry}]
  <2>1. f.version \in Nat /\ f.ops \in Ops
    BY ZenonT(30) DEF OutFrame
  <2>2. ASSUME NEW k \in Keys, view[c][k] # NoEntry
        PROVE  e(k) \in ViewEntry
    <3> DEFINE val == ApplyOps(view[c][k].value, f.ops)
               set == f.ops.kind # "remove"
    <3>1. view[c][k] \in ViewEntry
      BY <2>2, ConnType, Zenon
    <3>2. view[c][k].value \in Value
      BY <3>1, Zenon DEF ViewEntry
    <3>3. val \in Value
      BY <2>1, <3>2, ApplyOpsType, Zenon
    <3>4. e(k) = [view[c][k] EXCEPT !.version = f.version, !.value = val, !.initialized = set]
      BY Zenon
    <3>5. set \in BOOLEAN
      BY Zenon
    <3> HIDE DEF e, val, set
    <3>6. [view[c][k] EXCEPT !.version = f.version, !.value = val, !.initialized = set] \in ViewEntry
      BY <2>1, <3>1, <3>3, <3>5, <1>EntryUpdate, Zenon
    <3> QED  BY <3>4, <3>6, Zenon
  <2>3. view[c] \in Rows /\ view \in [Clients -> Rows]
    BY Zenon DEF ClientType
  <2>4. view' = [view EXCEPT ![c] = row] /\ streamToKey' = streamToKey
    BY Zenon DEF OnDelta
  <2> HIDE DEF e, ks
  <2>5. row \in Rows
    BY <2>2, <2>3, Zenon
  <2>6. \A k \in Keys : view[c][k] = NoEntry <=> row[k] = NoEntry
    <3> TAKE k \in Keys
    <3>1. row[k] = IF k \in ks /\ view[c][k] # NoEntry THEN e(k) ELSE view[c][k]
      BY Zenon
    <3>2. NoEntry \notin ViewEntry
      BY WatchSyncAssumption, Zenon DEF NoEntry
    <3> QED  BY <2>2, <3>1, <3>2, Zenon
  <2> HIDE DEF row, Rows
  <2>7. /\ view' \in [Clients -> Rows] /\ view'[c] = row
        /\ \A d \in Clients : d # c => view'[d] = view[d]
    BY <2>3, <2>4, <2>5, Update, Zenon
  <2>8. streamToKey' \in [Clients -> SUBSET (Nat \X Keys)]
    BY <2>4, Zenon DEF ClientType
  <2>9. \A d \in Clients, k \in Keys : view[d][k] = NoEntry <=> view'[d][k] = NoEntry
    BY <2>6, <2>7, Zenon
  <2> QED  BY <2>7, <2>8, <2>9, ZenonT(30) DEF Rows
<1>OnStateInitType. ASSUME ClientType, NEW c \in Clients,
                           NEW f \in OutFrame, f.type = "STATE_INIT", OnStateInit(c, f)
                    PROVE  /\ view' \in [Clients -> [Keys -> ViewEntry \cup {NoEntry}]]
                           /\ streamToKey' \in [Clients -> SUBSET (Nat \X Keys)]
                           /\ \A d \in Clients, k \in Keys : view[d][k] = NoEntry <=> view'[d][k] = NoEntry
  <2> USE <1>OnStateInitType
  <2>1. f.version \in Nat /\ f.value \in Value /\ f.stream \in Nat /\ f.key \in Keys
    BY ZenonT(30) DEF OutFrame
  <2>2. CASE view[c][f.key] = NoEntry
    <3>1. view' = view /\ streamToKey' = streamToKey
      BY <2>2, Zenon DEF OnStateInit
    <3> QED  BY <3>1, Zenon DEF ClientType
  <2>3. CASE view[c][f.key] # NoEntry
    <3> DEFINE set == f.version > 0
               e == [view[c][f.key] EXCEPT !.version = f.version, !.value = f.value,
                                           !.initialized = set]
    <3>1. /\ view' = [view EXCEPT ![c][f.key] = e]
          /\ streamToKey' = [streamToKey EXCEPT ![c] = streamToKey[c] \cup {<<f.stream, f.key>>}]
      BY <2>3, Zenon DEF OnStateInit
    <3>2. view[c][f.key] \in ViewEntry
      BY <2>1, <2>3, ConnType, Zenon
    <3>3. set \in BOOLEAN
      BY <2>1, SMT, Z3
    <3> HIDE DEF set
    <3>5. e \in ViewEntry
      BY <2>1, <3>2, <3>3, <1>EntryUpdate, Zenon
    <3> HIDE DEF e
    <3>6. NoEntry \notin ViewEntry
      BY WatchSyncAssumption, Zenon DEF NoEntry
    <3>7. /\ view' \in [Clients -> [Keys -> ViewEntry \cup {NoEntry}]]
          /\ view'[c][f.key] = e
          /\ \A l \in Keys : l # f.key => view'[c][l] = view[c][l]
          /\ \A d \in Clients : d # c => view'[d] = view[d]
      BY <2>1, <3>1, <3>5, <1>ViewUpdate, Zenon
    <3>8. \A d \in Clients, k \in Keys : view[d][k] = NoEntry <=> view'[d][k] = NoEntry
      BY <2>3, <3>5, <3>6, <3>7, Zenon
    <3>9. streamToKey \in [Clients -> SUBSET (Nat \X Keys)]
      BY Zenon DEF ClientType
    <3>10. streamToKey[c] \cup {<<f.stream, f.key>>} \in SUBSET (Nat \X Keys)
      BY <2>1, <3>9, SMTT(30), Z3T(30)
    <3>11. streamToKey' \in [Clients -> SUBSET (Nat \X Keys)]
      BY <3>1, <3>9, <3>10, Update, Zenon
    <3> QED  BY <3>7, <3>8, <3>11, Zenon
  <2> QED  BY <2>2, <2>3, ZenonT(30)
<1>Deliver. ASSUME NEW c \in Clients, Deliver(c)
            PROVE  /\ Inv0'
                   /\ \A d \in Clients, k \in Keys : view[d][k] = NoEntry <=> view'[d][k] = NoEntry
  <2> USE <1>Deliver
  <2> DEFINE f == Head(out[conn[c]])
  <2>1. ClientType
    BY Zenon DEF Inv0, TypeOK
  <2>2. f \in OutFrame /\ out' \in [Sessions -> Seq(OutFrame)]
    BY DeliverOut, Zenon
  <2>3. /\ UNCHANGED <<global_version, entries, log, changes, loose, at, phase>>
        /\ UNCHANGED <<subscriptions, watches, presence, next_stream>>
        /\ UNCHANGED <<cancelled, peer_gone, writer, known, raced, conn>>
        /\ UNCHANGED <<inbox, skipped, calls, losses, watched>>
    BY ZenonT(30) DEF Deliver, storeVars, sessionVars, history, bounds
  <2>4. /\ view' \in [Clients -> [Keys -> ViewEntry \cup {NoEntry}]]
        /\ streamToKey' \in [Clients -> SUBSET (Nat \X Keys)]
        /\ \A d \in Clients, k \in Keys : view[d][k] = NoEntry <=> view'[d][k] = NoEntry
    <3>1. \/ f.type = "STATE_INIT" /\ OnStateInit(c, f)
          \/ f.type = "DELTA" /\ OnDelta(c, f)
          \/ UNCHANGED <<view, streamToKey>>
      BY Zenon DEF Deliver
    <3> HIDE DEF f
    <3>2. CASE f.type = "STATE_INIT" /\ OnStateInit(c, f)
      BY <2>1, <2>2, <3>2, <1>OnStateInitType, ZenonT(30)
    <3>3. CASE f.type = "DELTA" /\ OnDelta(c, f)
      BY <2>1, <2>2, <3>3, <1>OnDeltaType, Zenon
    <3>4. CASE UNCHANGED <<view, streamToKey>>
      <4>1. view' = view /\ streamToKey' = streamToKey
        BY <3>4, ZenonT(30)
      <4> QED  BY <2>1, <4>1, Zenon DEF ClientType
    <3> QED  BY <3>1, <3>2, <3>3, <3>4, Zenon
  <2>5. inbox' \in [Sessions -> Seq(Frame)] /\ skipped' \in [Clients -> SUBSET Keys] /\ calls' \in Nat /\ losses' \in Nat /\ watched' \in Nat
    BY <2>3, Zenon DEF Inv0, TypeOK, ChannelType, ClientType
  <2>6. Inv0'
    BY <2>2, <2>3, <2>4, <2>5, <1>ClientChanges, Zenon
  <2> QED  BY <2>4, <2>6, Zenon
<1> QED  BY <1>Connect, <1>Lose, <1>OnClose, <1>Deliver, <1>Call, <1>Watch, <1>Unsubscribe,
     <1>ClientUnwatch, Zenon

LEMMA ConnectTold ==
    ASSUME Inv, NEW c \in Clients, Connect(c)
    PROVE  Kept
<1>1. TypeOK /\ Registered /\ \A u \in Sessions : HandlerOK(u)
  BY Zenon DEF Inv
<1>2. UNCHANGED <<at, subscriptions, watches, next_stream, changes, known, cancelled,
                global_version, out>>
  BY ZenonT(30) DEF Connect, storeVars, channelVars, history
<1>3. PICK s \in Sessions : phase[s] = "none" /\ phase' = [phase EXCEPT ![s] = "open"]
  BY Zenon DEF Connect
<1>4. phase \in [Sessions -> {"none", "open", "cleanup", "closed"}]
  BY <1>1, Zenon DEF TypeOK, TableType
<1>5. phase'[s] = "open" /\ \A u \in Sessions : u # s => phase'[u] = phase[u]
  BY <1>3, <1>4, Zenon
<1>6. Shrinks
  <2> SUFFICES ASSUME NEW k \in Keys, NEW x \in Range(subscriptions[k])
               PROVE  x.session \in Sessions /\ phase'[x.session] \in {"open", "cleanup"}
    BY <1>2, Zenon DEF Shrinks
  <2>1. x.session \in Sessions /\ phase[x.session] \in {"open", "cleanup"}
    BY <1>1, SubscriberSession, Zenon DEF Registered
  <2> QED  BY <1>5, <2>1, Zenon
<1>7. at[s].pc = "idle"
  BY <1>1, <1>3, Zenon DEF HandlerOK
<1>8. at[s].pc \notin Fanning
  BY <1>7, ZenonT(30) DEF Fanning
<1>9. \A u \in Sessions : at[u].pc \in Fanning => at'[u] = at[u] /\ phase'[u] = phase[u]
  BY <1>2, <1>5, <1>8, Zenon
<1>10. /\ \A u \in Sessions : SameStream(u)
       /\ \A u \in Sessions : \A z \in at'[u].slow : z \in at[u].slow \/ cancelled'[z]
  BY <1>2, TasksStay, Zenon
<1>11. Registered' /\ AllTold'
  BY <1>2, <1>6, <1>9, <1>10, GrowsSame, QuietStep, Zenon
<1>12. Answers => Answers'
  BY <1>2, GrowsSame, OutSame, StillAnswers, Zenon
<1> QED  BY <1>11, <1>12, Zenon DEF Kept

LEMMA ClientStepTold ==
    ASSUME Inv, NEW c \in Clients, Lose(c) \/ OnClose(c) \/ Deliver(c) \/ Call(c)
    PROVE  Kept
<1>1. UNCHANGED <<at, subscriptions, watches, next_stream, changes, phase, known, cancelled,
                global_version>>
  <2>1. CASE Lose(c) \/ OnClose(c)
    BY <2>1, Zenon DEF Lose, OnClose, Disconnected, storeVars, sessionVars, channelVars, history
  <2>2. CASE Deliver(c) \/ Call(c)
    BY <2>2, ZenonT(30) DEF Deliver, Call, storeVars, sessionVars, channelVars, history
  <2> QED  BY <2>1, <2>2, Zenon
<1>2. NoResult
  <2>1. CASE Deliver(c)
    <3>1. \A u \in Sessions : Range(out'[u]) \subseteq Range(out[u])
      BY <2>1, DeliverOut, Zenon DEF Inv, Inv0
    <3> QED  BY <3>1, Zenon DEF NoResult
  <2>2. CASE Lose(c) \/ OnClose(c)
    BY <2>2, OutSame, ZenonT(30) DEF Lose, OnClose, Disconnected, channelVars
  <2>3. CASE Call(c)
    BY <2>3, OutSame, ZenonT(30) DEF Call, channelVars
  <2> QED  BY <2>1, <2>2, <2>3, Zenon
<1> QED  BY <1>1, <1>2, GrowsSame, StillStep, Zenon

LEMMA WatchTold ==
    ASSUME Inv, NEW c \in Clients, NEW k \in Keys,
           Watch(c, k) \/ WatchMany(c, k) \/ Unsubscribe(c, k) \/ ClientUnwatch(c, k)
    PROVE  Kept
<1>1. UNCHANGED <<at, subscriptions, watches, next_stream, changes, phase, known, cancelled,
                global_version, out>>
  <2>1. CASE Watch(c, k) \/ WatchMany(c, k)
    BY <2>1, Zenon DEF Watch, WatchMany, storeVars, channelVars, history
  <2>2. CASE Unsubscribe(c, k) \/ ClientUnwatch(c, k)
    BY <2>2, ZenonT(30) DEF Unsubscribe, ClientUnwatch, serverVars, storeVars, sessionVars, channelVars, history
  <2> QED  BY <2>1, <2>2, Zenon
<1> QED  BY <1>1, GrowsSame, OutSame, StillStep, Zenon

-----------------------------------------------------------------------------
(* WATCH, RESUME and UNWATCH *)

LEMMA Readers ==
    ASSUME Inv, NEW s \in Sessions, ServerStep,
           Receive(s) \/ Unwatch(s) \/ Subscribe(s) \/ Missed(s) \/ Replay(s) \/ Get(s)
           \/ SendInit(s)
    PROVE  Inv0' /\ Kept
<1> /\ Inv0 /\ TypeOK /\ HandlerOK(s) /\ Registered /\ AllTold
    /\ \A u \in Sessions : HandlerOK(u)
  BY Zenon DEF Inv, Inv0
<1>Receive. ASSUME Receive(s)
            PROVE  Inv0' /\ Kept
  <2> USE <1>Receive
  <2>At. ASSUME AtType, Head(inbox[s]) \in Frame
         PROVE  /\ Becomes(s, FirstAccess(Head(inbox[s])), Head(inbox[s]).key, 0, 0, <<>>, <<>>, {})
                /\ at'[s].req = Head(inbox[s])
    <3> USE <2>At
    <3> DEFINE r == Head(inbox[s])
               h == [Idle EXCEPT !.req = r, !.pc = FirstAccess(r)]
    <3>1. FirstAccess(r) \in {"subscribe", "version", "read", "remove"} /\ r \in Running
      BY FirstAccessType, Zenon DEF Receive
    <3>2. at' = [at EXCEPT ![s] = h]
      BY ZenonT(30) DEF Receive
    <3> HIDE DEF r
    <3>t. FirstAccess(r) \in PCs
      BY <3>1, ZenonT(30) DEF PCs, HandlerPCs, WritePCs, Todo
    <3>3. h \in HandlerState
      BY <3>t, <3>1, IdleType, Zenon DEF HandlerState
    <3>4. /\ h.pc = FirstAccess(r) /\ h.req = r /\ h.stream = 0 /\ h.version = 0
          /\ h.todo = <<>> /\ h.targets = <<>> /\ h.slow = {}
      BY ZenonT(30) DEF Idle
    <3> HIDE DEF h
    <3>5. Becomes(s, FirstAccess(r), r.key, 0, 0, <<>>, <<>>, {}) /\ at'[s].req = r
      BY <3>2, <3>3, <3>4, BecomesRule, Zenon
    <3> QED  BY <3>5, Zenon DEF r
  <2>Inv0. Inv0'
    <3> DEFINE r == Head(inbox[s])
    <3>2. /\ UNCHANGED <<global_version, entries, log, changes, loose>>
          /\ UNCHANGED <<subscriptions, watches, presence, next_stream, phase>>
          /\ UNCHANGED <<out, cancelled, peer_gone, writer, known, raced>>
          /\ inbox[s] # <<>> /\ inbox' = [inbox EXCEPT ![s] = Tail(@)]
          /\ phase[s] = "open" /\ r.type # "UNWATCH"
      BY ZenonT(30) DEF Receive, storeVars, channelVars, history
    <3>3. inbox' \in [Sessions -> Seq(Frame)] /\ r \in Frame
      BY <3>2, InboxTail, Zenon DEF TypeOK
    <3>4. Becomes(s, FirstAccess(r), r.key, 0, 0, <<>>, <<>>, {}) /\ at'[s].req = r
      BY <3>3, <2>At, Zenon DEF TypeOK
    <3>5. /\ FirstAccess(r) \in {"subscribe", "version", "read", "remove"}
          /\ FirstAccess(r) = "read" => r.put \in Objects
          /\ r.key \in Keys
      BY <3>2, <3>3, FirstAccessType, Zenon
    <3> HIDE DEF r
    <3>6. ChannelType'
      BY <3>2, <3>3, Zenon DEF TypeOK, ChannelType
    <3>7. TypeOK'
      BY <3>2, <3>4, <3>6, StoreFrame, TableFrame, ClientFrame, ZenonT(30) DEF TypeOK, Becomes
    <3>8. /\ at'[s].pc = FirstAccess(r) /\ Key(s)' = r.key /\ at'[s].version = 0 /\ phase'[s] = "open"
          /\ at'[s].req.put = r.put
          /\ \A u \in Sessions : u # s => at'[u] = at[u] /\ phase'[u] = phase[u]
      BY <3>2, <3>4, ZenonT(30) DEF Becomes
    <3>9. HandlerOK(s)'
      BY <3>5, <3>8, ZenonT(30) DEF HandlerOK
    <3> QED  BY <3>7, <3>8, <3>9, HandlerOthers, ZenonT(30) DEF Inv0
  <2>Told. Kept
    <3> DEFINE r == Head(inbox[s])
    <3>2. at[s].pc = "idle" /\ at[s].pc \notin Fanning /\ at[s].pc \notin Waiting /\ r.type # "UNWATCH"
      BY ZenonT(30) DEF Receive, At, Fanning, Waiting
    <3>3. r \in Frame
      BY InboxTail, Zenon DEF TypeOK, Receive
    <3>4. Becomes(s, FirstAccess(r), r.key, 0, 0, <<>>, <<>>, {})
      BY <3>3, <2>At, Zenon DEF TypeOK
    <3>5. UNCHANGED <<subscriptions, watches, next_stream, changes, phase, known, cancelled,
                    global_version, out>>
      BY ZenonT(30) DEF Receive, storeVars, channelVars, history
    <3>6. FirstAccess(r) \in {"subscribe", "version", "read", "remove"}
      BY <3>2, <3>3, FirstAccessType, Zenon
    <3>7. /\ FirstAccess(r) \notin Waiting \cup {"init"}
          /\ FirstAccess(r) \notin Fanning \cup {"diff", "insert", "result"}
      BY <3>6, ZenonT(30) DEF Waiting, Fanning
    <3> HIDE DEF r
    <3> QED  BY <3>2, <3>4, <3>5, <3>7, GrowsSame, OutSame, FreshStep, ZenonT(30)
  <2> QED  BY <2>Inv0, <2>Told, Zenon
<1>Unwatch. ASSUME Unwatch(s)
            PROVE  Inv0' /\ Kept
  <2> USE <1>Unwatch
  <2>Inv0. Inv0'
    <3> DEFINE k == Head(inbox[s]).key
    <3>2. /\ UNCHANGED <<global_version, entries, log, changes, loose>>
          /\ UNCHANGED <<presence, next_stream, phase>>
          /\ UNCHANGED <<out, cancelled, peer_gone, writer, known, raced, at>>
          /\ inbox[s] # <<>> /\ inbox' = [inbox EXCEPT ![s] = Tail(@)]
      BY Zenon DEF Unwatch, storeVars, channelVars, history
    <3>3. inbox' \in [Sessions -> Seq(Frame)] /\ Head(inbox[s]) \in Frame
      BY <3>2, InboxTail, Zenon DEF TypeOK
    <3>4. k \in Keys
      BY <3>3, ZenonT(30) DEF Frame, WatchRequest, CallRequest
    <3>5. /\ subscriptions \in [Keys -> Seq(Subscriber)]
          /\ watches \in [Sessions -> SUBSET (Nat \X Keys)]
      BY Zenon DEF TypeOK, TableType
    <3>6. subscriptions' \in [Keys -> Seq(Subscriber)] /\ watches' \in [Sessions -> SUBSET (Nat \X Keys)]
      <4>1. CASE UNCHANGED <<watches, subscriptions>>
        BY <3>5, <4>1, Zenon
      <4>2. ASSUME NEW st, watches' = [watches EXCEPT ![s] = @ \ {<<st, k>>}],
                   subscriptions' = [subscriptions EXCEPT ![k] = OfOthers(@, s)]
            PROVE  /\ subscriptions' \in [Keys -> Seq(Subscriber)]
                   /\ watches' \in [Sessions -> SUBSET (Nat \X Keys)]
        <5> HIDE DEF k
        <5>1. subscriptions[k] \in Seq(Subscriber)
          BY <3>4, <3>5, Zenon
        <5>2. OfOthers(subscriptions[k], s) \in Seq(Subscriber)
          BY <5>1, OfOthersType, Zenon
        <5>3. watches[s] \ {<<st, k>>} \in SUBSET (Nat \X Keys)
          BY <3>5, Zenon
        <5>4. subscriptions' \in [Keys -> Seq(Subscriber)]
          BY <3>4, <3>5, <4>2, <5>2, Update, Zenon
        <5> QED  BY <3>5, <4>2, <5>3, <5>4, Update, Zenon
      <4> QED  BY <4>1, <4>2, Zenon DEF Unwatch
    <3>7. TableType'
      BY <3>2, <3>6, Zenon DEF TypeOK, TableType
    <3>8. ChannelType' /\ AtType'
      BY <3>2, <3>3, ZenonT(30) DEF TypeOK, ChannelType, AtType
    <3>9. TypeOK'
      BY <3>2, <3>7, <3>8, StoreFrame, ClientFrame, Zenon DEF TypeOK
    <3> QED  BY <3>2, <3>9, HandlerStays, Zenon DEF Inv0
  \* UNWATCH removes every subscription of the session for the key.
  <2>Told. Kept
    <3> DEFINE k == Head(inbox[s]).key
    <3>2. /\ UNCHANGED <<at, next_stream, changes, phase, known, cancelled, global_version, out>>
          /\ at[s].pc = "idle"
      BY Zenon DEF Unwatch, At, storeVars, channelVars, history
    <3>3. Head(inbox[s]) \in Frame
      BY InboxTail, ZenonT(30) DEF TypeOK, Unwatch
    <3>4. k \in Keys
      BY <3>3, ZenonT(30) DEF Frame, WatchRequest, CallRequest
    <3>5. CASE UNCHANGED <<watches, subscriptions>>
      BY <3>2, <3>5, GrowsSame, OutSame, StillStep, Zenon
    <3>6. ASSUME NEW st, watches' = [watches EXCEPT ![s] = @ \ {<<st, k>>}],
                 subscriptions' = [subscriptions EXCEPT ![k] = OfOthers(@, s)]
          PROVE  Kept
      <4>1. /\ subscriptions \in [Keys -> Seq(Subscriber)]
            /\ watches \in [Sessions -> SUBSET (Nat \X Keys)]
        BY Zenon DEF TypeOK, TableType
      <4> HIDE DEF k
      <4>2. Range(OfOthers(subscriptions[k], s)) = {x \in Range(subscriptions[k]) : x.session # s}
        BY <3>4, <4>1, OfOthersType, Zenon
      <4>3. \A l \in Keys : Range(subscriptions'[l]) \subseteq Range(subscriptions[l])
        BY <3>4, <3>6, <4>1, <4>2, Zenon
      <4>4. \A x \in Range(subscriptions'[k]) : x.session # s
        BY <3>4, <3>6, <4>1, <4>2, Zenon
      <4>5. /\ \A u \in Sessions : watches'[u] \subseteq watches[u]
            /\ \A u \in Sessions : u # s => watches'[u] = watches[u]
            /\ \A w \in watches[s] : w # <<st, k>> => w \in watches'[s]
        BY <3>6, <4>1, Zenon
      <4>6. Shrinks
        BY <3>2, <4>3, SubsetTables, Zenon
      <4>7. AllTold'
        <5>1. \A u \in Sessions : SameStream(u)
          BY <3>2, TasksStay, Zenon
        <5>2. ASSUME NEW u \in Sessions, NEW l \in Keys, NEW x, NEW v, OnItsWay(u, l, v, x)
              PROVE  OnItsWay(u, l, v, x)'
          BY <3>2, <5>2, Zenon DEF OnItsWay, Key, Cleaning
        <5> QED  BY <3>2, <4>6, <5>1, <5>2, GrowsSame, AllToldStep, ZenonT(30)
      <4>8. ASSUME NEW l \in Keys, NEW x \in Range(subscriptions'[l])
            PROVE  /\ <<x.stream, l>> \in watches'[x.session]
                   /\ phase'[x.session] \in {"open", "cleanup"}
        <5>1. /\ x \in Range(subscriptions[l]) /\ x.session \in Sessions
              /\ phase'[x.session] \in {"open", "cleanup"}
          BY <4>6, <4>8, Zenon DEF Shrinks
        <5>2. <<x.stream, l>> \in watches[x.session]
          BY <5>1, Zenon DEF Registered
        <5>3. CASE x.session = s
          <6>1. l # k
            BY <4>4, <4>8, <5>3, Zenon
          <6>2. <<x.stream, l>> # <<st, k>>
            BY <6>1, ZenonT(30)
          <6> QED  BY <4>5, <5>1, <5>2, <5>3, <6>2, Zenon
        <5> QED  BY <4>5, <5>1, <5>2, <5>3, Zenon
      <4>9. /\ \A u \in Sessions : \A w \in watches'[u] : w[1] < next_stream'[u]
            /\ \A u \in Sessions : \A w, z \in watches'[u] : w[1] = z[1] => w = z
        BY <3>2, <4>5, ZenonT(30) DEF Registered
      <4>10. \A u \in Sessions : at'[u].pc \in {"missed", "replay", "get", "init"} =>
                u # s /\ <<at'[u].stream, Key(u)'>> \in watches[u]
        BY <3>2, ZenonT(30) DEF Registered, Key
      <4>11. \A u \in Sessions : \A z \in at'[u].slow : cancelled'[z]
        BY <3>2, Zenon DEF Registered
      <4>12. Registered'
        BY <4>5, <4>8, <4>9, <4>10, <4>11, Zenon DEF Registered
      <4>13. Answers => Answers'
        BY <3>2, <4>5, GrowsSame, OutSame, StillAnswers, Zenon
      <4> QED  BY <4>7, <4>12, <4>13, Zenon DEF Kept
    <3> QED  BY <3>5, <3>6, ZenonT(30) DEF Unwatch
  <2> QED  BY <2>Inv0, <2>Told, Zenon
<1>Subscribe. ASSUME Subscribe(s)
              PROVE  Inv0' /\ Kept
  <2> USE <1>Subscribe
  <2>At. ASSUME AtType, Subscribe(s),
                next_stream[s] \in Nat
         PROVE  Becomes(s, (IF at[s].req.since > 0 THEN "missed" ELSE "get"), Key(s), next_stream[s], at[s].version, at[s].todo, at[s].targets, at[s].slow)
    <3> USE <2>At
    <3> DEFINE h == [at[s] EXCEPT !.stream = next_stream[s], !.pc = (IF at[s].req.since > 0 THEN "missed" ELSE "get")]
    <3>1. at[s] \in HandlerState
      BY Zenon DEF AtType
    <3>t. (IF at[s].req.since > 0 THEN "missed" ELSE "get") \in PCs
      BY ZenonT(30) DEF PCs, HandlerPCs, WritePCs, Todo
    <3>2. h \in HandlerState
      BY <3>t, <3>1, Zenon DEF HandlerState
    <3>3. at' = [at EXCEPT ![s] = h]
      BY Zenon DEF Subscribe, AtType, Goto
    <3>4. /\ h.pc = (IF at[s].req.since > 0 THEN "missed" ELSE "get") /\ h.req = at[s].req /\ h.stream = next_stream[s] /\ h.version = at[s].version
          /\ h.todo = at[s].todo /\ h.targets = at[s].targets /\ h.slow = at[s].slow
      BY <3>1, ZenonT(30) DEF HandlerState
    <3> HIDE DEF h
    <3> QED  BY <3>2, <3>3, <3>4, BecomesRule, Zenon DEF Key
  <2>Inv0. Inv0'
    <3>2. at[s].pc = "subscribe" /\ at[s].pc \in HandlerPCs
      BY SMT, Z3 DEF Subscribe, At, HandlerPCs, WritePCs
    <3>3. Key(s) \in Keys
      BY <3>2, Zenon DEF HandlerOK
    <3>4. next_stream[s] \in Nat
      BY Zenon DEF TypeOK, TableType
    <3>5. Becomes(s, (IF at[s].req.since > 0 THEN "missed" ELSE "get"), Key(s), next_stream[s], at[s].version, at[s].todo, at[s].targets, at[s].slow)
      BY <3>3, <3>4, <2>At, Zenon DEF TypeOK
    <3>6. /\ UNCHANGED <<global_version, entries, log, changes, loose>>
          /\ phase' = phase
          /\ UNCHANGED <<inbox, out, cancelled, peer_gone, writer, known, raced>>
      BY SMT, Z3 DEF Subscribe, storeVars, channelVars, history
    <3>7. StoreType'
      BY <3>6, StoreFrame, Zenon DEF TypeOK
    <3>8. TableType'
      <4> DEFINE x == [session |-> s, stream |-> next_stream[s]]
      <4>1. /\ subscriptions \in [Keys -> Seq(Subscriber)]
            /\ watches \in [Sessions -> SUBSET (Nat \X Keys)]
            /\ next_stream \in [Sessions -> Nat]
        BY Zenon DEF TypeOK, TableType
      <4>2. x \in Subscriber
        BY <3>4, SMTT(30), Z3T(30) DEF Subscriber
      <4>3. subscriptions' = [subscriptions EXCEPT ![Key(s)] = Append(@, x)]
        BY SMT, Z3 DEF Subscribe
      <4> HIDE DEF x
      <4>4. subscriptions[Key(s)] \in Seq(Subscriber)
        BY <3>3, <4>1, Zenon
      <4>5. Append(subscriptions[Key(s)], x) \in Seq(Subscriber)
        BY <4>2, <4>4, SMTT(30), Z3T(30)
      <4>6. subscriptions' \in [Keys -> Seq(Subscriber)]
        BY <4>1, <4>3, <4>5, Zenon
      <4>7. <<next_stream[s], Key(s)>> \in Nat \X Keys
        BY <3>3, <3>4, Zenon
      <4>8. watches' \in [Sessions -> SUBSET (Nat \X Keys)]
        BY <4>1, <4>7, Zenon DEF Subscribe
      <4>9. next_stream' \in [Sessions -> Nat]
        BY <4>1, SMTT(30), Z3T(30) DEF Subscribe
      <4>10. UNCHANGED <<presence, phase>>
        BY SMT, Z3 DEF Subscribe
      <4> QED  BY <4>6, <4>8, <4>9, <4>10, Zenon DEF TypeOK, TableType
    <3>9. ChannelType'
      BY <3>6, ChannelFrame, Zenon DEF TypeOK
    <3>10. TypeOK'
      BY <3>5, <3>7, <3>8, <3>9, ClientFrame, ZenonT(30) DEF TypeOK, Becomes
    <3> DEFINE p == (IF at[s].req.since > 0 THEN "missed" ELSE "get")
    <3>11. /\ p \in HandlerPCs \cup {"next"} /\ p \notin {"read", "replay", "remove"}
           /\ p = "next" => Cleaning(s)
      BY ZenonT(30) DEF HandlerPCs, WritePCs
    <3>12. Cleaning(s) => p \in WritePCs \cup {"next"} /\ at[s].todo \in Seq(Path)
      BY <3>2, SMT, Z3 DEF HandlerOK, Cleaning, WritePCs
    <3>13. Becomes(s, p, Key(s), next_stream[s], at[s].version, at[s].todo, at[s].targets, at[s].slow)
      BY <3>5, Zenon
    <3> HIDE DEF p
    <3>14. \A u \in Sessions : HandlerOK(u)'
      BY <3>2, <3>6, <3>11, <3>12, <3>13, HandlerKeeps, ZenonT(30)
    <3> QED  BY <3>10, <3>14, Zenon DEF Inv0
  <2>Told. Registered' /\ AllTold'
    <3> DEFINE p == IF at[s].req.since > 0 THEN "missed" ELSE "get"
               n == next_stream[s]
               new == [session |-> s, stream |-> n]
    <3>2. /\ at[s].pc = "subscribe" /\ at[s].pc \notin Fanning /\ at[s].pc \notin Waiting
          /\ p \in Waiting
      BY ZenonT(30) DEF Subscribe, At, Fanning, Waiting
    <3>3. Key(s) \in Keys /\ phase[s] = "open"
      BY <3>2, SMT, Z3 DEF HandlerOK, HandlerPCs, WritePCs, TypeOK, TableType
    <3>4. /\ next_stream \in [Sessions -> Nat] /\ n \in Nat
          /\ watches \in [Sessions -> SUBSET (Nat \X Keys)]
          /\ subscriptions \in [Keys -> Seq(Subscriber)]
      BY Zenon DEF TypeOK, TableType
    <3>5. Becomes(s, p, Key(s), n, at[s].version, at[s].todo, at[s].targets, at[s].slow)
      BY <3>4, <2>At, Zenon DEF TypeOK
    <3>6. /\ UNCHANGED <<phase, known, cancelled, changes>>
          /\ watches' = [watches EXCEPT ![s] = watches[s] \cup {<<n, Key(s)>>}]
          /\ subscriptions' = [subscriptions EXCEPT ![Key(s)] = Append(subscriptions[Key(s)], new)]
          /\ next_stream' = [next_stream EXCEPT ![s] = n + 1]
      BY ZenonT(30) DEF Subscribe, channelVars, history
    <3>7. new.session = s /\ new.stream = n
      BY Zenon
    <3> HIDE DEF p, n, new
    <3>8. /\ \A u \in Sessions : u # s => at'[u] = at[u]
          /\ at'[s].pc = p /\ Key(s)' = Key(s) /\ at'[s].slow = at[s].slow
          /\ at'[s].stream = n
      BY <3>5, Zenon DEF Becomes
    <3>9. /\ watches'[s] = watches[s] \cup {<<n, Key(s)>>}
          /\ \A u \in Sessions : u # s => watches'[u] = watches[u]
          /\ \A u \in Sessions : watches[u] \subseteq watches'[u]
      BY <3>4, <3>6, Zenon
    <3>10. /\ next_stream'[s] = n + 1
           /\ \A u \in Sessions : u # s => next_stream'[u] = next_stream[u]
      BY <3>4, <3>6, Zenon
    <3>11. ASSUME NEW k \in Keys, NEW x \in Range(subscriptions'[k])
           PROVE  x \in Range(subscriptions[k]) \/ (x = new /\ k = Key(s))
      <4>1. CASE k = Key(s)
        <5>1. subscriptions[k] \in Seq(Subscriber) /\ subscriptions'[k] = Append(subscriptions[k], new)
          BY <3>3, <3>4, <3>6, <4>1, ZenonT(30)
        <5>2. Range(subscriptions'[k]) = Range(subscriptions[k]) \cup {new}
          BY <5>1, RangeAppend, Zenon
        <5> QED  BY <3>11, <4>1, <5>2, Zenon
      <4>2. CASE k # Key(s)
        BY <3>3, <3>4, <3>6, <3>11, <4>2, ZenonT(30)
      <4> QED  BY <4>1, <4>2, Zenon
    <3>12. ASSUME NEW k \in Keys, NEW x \in Range(subscriptions'[k])
           PROVE  /\ <<x.stream, k>> \in watches'[x.session]
                  /\ phase'[x.session] \in {"open", "cleanup"}
      <4>1. CASE x \in Range(subscriptions[k])
        <5>1. x.session \in Sessions
          BY <4>1, SubscriberSession, Zenon
        <5> QED  BY <3>6, <3>9, <4>1, <5>1, ZenonT(30) DEF Registered
      <4>2. CASE x = new /\ k = Key(s)
        BY <3>3, <3>6, <3>7, <3>9, <4>2, ZenonT(30)
      <4> QED  BY <3>11, <3>12, <4>1, <4>2, ZenonT(30)
    <3>13. \A u \in Sessions : \A w \in watches[u] : w[1] \in Nat /\ w[1] < next_stream[u]
      <4>1. \A u \in Sessions : \A w \in watches[u] : w[1] < next_stream[u]
        BY Zenon DEF Registered
      <4>2. \A u \in Sessions : \A w \in watches[u] : w \in Nat \X Keys
        BY <3>4, Zenon
      <4>3. \A w \in Nat \X Keys : w[1] \in Nat
        BY SMT, Z3
      <4> QED  BY <4>1, <4>2, <4>3, Zenon
    <3>14. \A u \in Sessions : \A w \in watches'[u] : w[1] < next_stream'[u]
      <4>1. \A w \in watches[s] : w[1] < n + 1
        BY <3>4, <3>13, SMTT(30), Z3T(30) DEF n
      <4>2. <<n, Key(s)>>[1] < n + 1
        BY <3>4, SMT, Z3
      <4> QED  BY <3>9, <3>10, <3>13, <4>1, <4>2, ZenonT(30)
    <3>15. \A u \in Sessions : \A w, z \in watches'[u] : w[1] = z[1] => w = z
      <4>1. \A w \in watches[s] : w[1] # n
        BY <3>4, <3>13, SMTT(30), Z3T(30) DEF n
      <4>2. <<n, Key(s)>>[1] = n
        BY Zenon
      <4>3. \A u \in Sessions : \A w, z \in watches[u] : w[1] = z[1] => w = z
        BY Zenon DEF Registered
      <4>4. \A w, z \in watches'[s] : w[1] = z[1] => w = z
        BY <3>9, <4>1, <4>2, <4>3, Zenon
      <4> QED  BY <3>9, <4>3, <4>4, ZenonT(30)
    <3>16. ASSUME NEW u \in Sessions, at'[u].pc \in {"missed", "replay", "get", "init"}
           PROVE  <<at'[u].stream, Key(u)'>> \in watches'[u]
      <4>1. CASE u = s
        BY <3>8, <3>9, <4>1, Zenon
      <4>2. CASE u # s
        <5>1. at'[u] = at[u] /\ watches'[u] = watches[u]
          BY <3>8, <3>9, <4>2, Zenon
        <5> QED  BY <3>16, <5>1, Zenon DEF Registered, Key
      <4> QED  BY <4>1, <4>2, Zenon
    <3>17. \A u \in Sessions : \A z \in at'[u].slow : cancelled'[z]
      BY <3>6, <3>8, Zenon DEF Registered
    <3>18. Registered'
      BY <3>12, <3>14, <3>15, <3>16, <3>17, ZenonT(30) DEF Registered
    <3>19. AllTold'
      <4> SUFFICES ASSUME NEW k \in Keys, NEW x \in Range(subscriptions'[k]),
                          ~cancelled'[x.session], Live(x.session, x.stream)',
                          NEW w \in changes[k]
                   PROVE  \/ Knows(x.session, x.stream, w)'
                          \/ \E u \in Sessions : OnItsWay(u, k, w, x)'
        BY <3>6, Zenon DEF AllTold, Told
      <4>1. x \in Range(subscriptions[k])
        <5>1. CASE x = new
          BY <3>2, <3>7, <3>8, <5>1, Zenon DEF Live, Waiting
        <5> QED  BY <3>11, <5>1, Zenon
      <4>2. x.session \in Sessions
        BY <4>1, SubscriberSession, Zenon
      <4>3. Live(x.session, x.stream)
        BY <3>2, <3>8, <4>2, Zenon DEF Live
      <4>4. Knows(x.session, x.stream, w) \/ \E u \in Sessions : OnItsWay(u, k, w, x)
        BY <3>6, <4>1, <4>3, Zenon DEF AllTold, Told
      <4>5. ASSUME NEW u \in Sessions, OnItsWay(u, k, w, x)
            PROVE  OnItsWay(u, k, w, x)'
        <5>1. at[u].pc \in Fanning
          BY <4>5, ZenonT(30) DEF OnItsWay, Fanning
        <5>2. at'[u] = at[u]
          BY <3>2, <3>8, <5>1, ZenonT(30)
        <5> QED  BY <3>6, <4>5, <5>2, ZenonT(30) DEF OnItsWay, Key, Cleaning
      <4> QED  BY <3>6, <4>4, <4>5, Zenon DEF Knows
    <3> QED  BY <3>18, <3>19, Zenon
  \* A new stream is not live before its value is read.
  <2>Answers. ASSUME Answers
              PROVE  Answers'
    <3> USE <2>Answers
    <3> DEFINE p == IF at[s].req.since > 0 THEN "missed" ELSE "get"
               n == next_stream[s]
    <3>2. /\ at[s].pc = "subscribe" /\ p \in {"missed", "get"}
      BY ZenonT(30) DEF Subscribe, At
    <3>3. n \in Nat /\ watches \in [Sessions -> SUBSET (Nat \X Keys)]
      BY Zenon DEF TypeOK, TableType
    <3>4. Becomes(s, p, Key(s), n, at[s].version, at[s].todo, at[s].targets, at[s].slow)
      BY <3>3, <2>At, Zenon DEF TypeOK
    <3>5. /\ UNCHANGED <<known, cancelled, changes, global_version, out>>
          /\ watches' = [watches EXCEPT ![s] = watches[s] \cup {<<n, Key(s)>>}]
      BY ZenonT(30) DEF Subscribe, storeVars, channelVars, history
    <3> HIDE DEF p, n
    <3>6. /\ \A u \in Sessions : u # s => at'[u] = at[u]
          /\ at'[s].pc \in {"missed", "get"} /\ at'[s].stream = n
      BY <3>2, <3>4, Zenon DEF Becomes
    <3>7. /\ watches'[s] = watches[s] \cup {<<n, Key(s)>>}
          /\ \A u \in Sessions : u # s => watches'[u] = watches[u]
      BY <3>3, <3>5, Zenon
    <3>8. ASSUME NEW u \in Sessions, NEW v, Heard(u, v)
          PROVE  Heard(u, v)'
      <4> SUFFICES ASSUME NEW k \in Keys, v \in changes[k], ~cancelled[u],
                          NEW st \in StreamsOf(u, k)', Live(u, st)'
                   PROVE  Knows(u, st, v)
        BY <3>5, Zenon DEF Heard, Knows
      <4>1. st \in StreamsOf(u, k) /\ Live(u, st)
        <5>1. CASE u # s
          BY <3>6, <3>7, <5>1, Zenon DEF StreamsOf, Live
        <5>2. CASE u = s
          <6>1. st # n
            BY <3>6, <5>2, Zenon DEF Live
          <6>2. st \in StreamsOf(u, k)
            <7>1. <<n, Key(s)>>[1] = n
              BY Zenon
            <7> QED  BY <3>7, <5>2, <6>1, <7>1, ZenonT(30) DEF StreamsOf
          <6>3. Live(u, st)
            BY <3>2, <5>2, Zenon DEF Live
          <6> QED  BY <6>2, <6>3, ZenonT(30)
        <5> QED  BY <5>1, <5>2, Zenon
      <4> QED  BY <3>8, <4>1, Zenon DEF Heard
    <3>9. \A u \in Sessions : Holds(u)' => Holds(u) /\ at'[u].version = at[u].version
      BY <3>6, Zenon DEF Holds
    <3>10. \A u \in Sessions : at'[u].pc \in Fanning =>
              at[u].pc \in Fanning /\ at'[u].version = at[u].version /\ Key(u)' = Key(u)
      BY <3>6, ZenonT(30) DEF Fanning, Key
    <3>11. \A u \in Sessions : at'[u].pc = "result" =>
              at[u].pc = "result" /\ at'[u].version = at[u].version
      BY <3>6, ZenonT(30)
    <3> QED  BY <3>5, <3>8, <3>9, <3>10, <3>11, AnswersHeard, ZenonT(30) DEF StaysHeld, StaysFanning, ResultsHeard, OwnResults, HeardStays
  <2> QED  BY <2>Inv0, <2>Told, <2>Answers, Zenon DEF Kept
<1>Missed. ASSUME Missed(s)
           PROVE  Inv0' /\ Kept
  <2> USE <1>Missed
  <2>At. ASSUME AtType, DeltasSince(Key(s), at[s].req.since) \in Seq(Delta)
         PROVE  Becomes(s, "replay", Key(s), at[s].stream, at[s].version, DeltasSince(Key(s), at[s].req.since), at[s].targets, at[s].slow)
    <3> USE <2>At
    <3> DEFINE h == [at[s] EXCEPT !.todo = DeltasSince(Key(s), at[s].req.since), !.pc = "replay"]
    <3>1. at[s] \in HandlerState
      BY ZenonT(30) DEF AtType
    <3>t. "replay" \in PCs /\ DeltasSince(Key(s), at[s].req.since) \in Todo
      BY ZenonT(30) DEF PCs, HandlerPCs, WritePCs, Todo
    <3>2. h \in HandlerState
      BY <3>t, <3>1, Zenon DEF HandlerState
    <3>3. at' = [at EXCEPT ![s] = h]
      BY Zenon DEF Missed, AtType, Goto
    <3>4. /\ h.pc = "replay" /\ h.req = at[s].req /\ h.stream = at[s].stream /\ h.version = at[s].version
          /\ h.todo = DeltasSince(Key(s), at[s].req.since) /\ h.targets = at[s].targets /\ h.slow = at[s].slow
      BY <3>1, ZenonT(30) DEF HandlerState
    <3> HIDE DEF h
    <3> QED  BY <3>2, <3>3, <3>4, BecomesRule, ZenonT(30) DEF Key
  <2>Inv0. Inv0'
    <3>2. at[s].pc = "missed"
      BY ZenonT(30) DEF Missed, At
    <3>3. Key(s) \in Keys
      BY <3>2, Zenon DEF HandlerOK, HandlerPCs
    <3>4. DeltasSince(Key(s), at[s].req.since) \in Seq(Delta)
      BY <3>3, SinceType, Zenon DEF TypeOK
    <3>5. Becomes(s, "replay", Key(s), at[s].stream, at[s].version, DeltasSince(Key(s), at[s].req.since), at[s].targets, at[s].slow)
      BY <3>4, <2>At, Zenon DEF TypeOK
    <3>6. /\ UNCHANGED <<global_version, entries, log, changes, loose>>
          /\ UNCHANGED <<subscriptions, watches, presence, next_stream, phase>>
          /\ UNCHANGED <<inbox, out, cancelled, peer_gone, writer, known, raced>>
      BY ZenonT(30) DEF Missed, storeVars, channelVars, history
    <3>7. TypeOK'
      BY <3>5, <3>6, StoreFrame, TableFrame, ChannelFrame, ClientFrame, ZenonT(30) DEF TypeOK, Becomes
    <3>8. phase[s] = "open" /\ phase'[s] = phase[s] /\ phase[s] \notin {"none", "closed", "cleanup"}
      BY <3>2, <3>6, ZenonT(30) DEF HandlerOK, WritePCs, TypeOK, TableType
    <3>9. HandlerOK(s)'
      BY <3>3, <3>4, <3>5, <3>8, ZenonT(30) DEF HandlerOK, Becomes
    <3>10. \A u \in Sessions : u # s => at'[u] = at[u] /\ phase'[u] = phase[u]
      BY <3>5, <3>6, Zenon DEF Becomes
    <3> QED  BY <3>7, <3>9, <3>10, HandlerOthers, ZenonT(30) DEF Inv0
  <2>Told. Kept
    <3>2. at[s].pc = "missed" /\ at[s].pc \notin Fanning
      BY ZenonT(30) DEF Missed, At, Fanning
    <3>3. Key(s) \in Keys
      BY <3>2, ZenonT(30) DEF HandlerOK, HandlerPCs
    <3>4. DeltasSince(Key(s), at[s].req.since) \in Seq(Delta)
      BY <3>3, SinceType, Zenon DEF TypeOK
    <3>5. Becomes(s, "replay", Key(s), at[s].stream, at[s].version,
                  DeltasSince(Key(s), at[s].req.since), at[s].targets, at[s].slow)
      BY <3>4, <2>At, Zenon DEF TypeOK
    <3>6. UNCHANGED <<subscriptions, watches, next_stream, changes, phase, known, cancelled,
                    global_version, out>>
      BY ZenonT(30) DEF Missed, storeVars, channelVars, history
    <3>7. /\ at[s].pc \in Waiting /\ "replay" \in Waiting
          /\ "replay" \notin Fanning \cup {"diff", "insert", "result"}
      BY <3>2, ZenonT(30) DEF Waiting, Fanning
    <3> QED  BY <3>2, <3>5, <3>6, <3>7, GrowsSame, OutSame, PlainStep, ZenonT(30)
  <2> QED  BY <2>Inv0, <2>Told, Zenon
<1>Replay. ASSUME Replay(s)
           PROVE  Inv0' /\ Kept
  <2> USE <1>Replay
  <2>At. ASSUME AtType, HandlerOK(s)
         PROVE  \/ /\ at[s].todo # <<>> /\ Tail(at[s].todo) \in Seq(Delta)
                   /\ Becomes(s, "replay", Key(s), at[s].stream, at[s].version, Tail(at[s].todo),
                              at[s].targets, at[s].slow)
                \/ /\ at[s].todo = <<>>
                   /\ Becomes(s, "get", Key(s), at[s].stream, at[s].version, at[s].todo,
                              at[s].targets, at[s].slow)
    <3> USE <2>At
    <3>1. at[s] \in HandlerState
      BY ZenonT(30) DEF AtType
    <3>2. at[s].pc = "replay" /\ at[s].todo \in Seq(Delta)
      BY Zenon DEF Replay, At, HandlerOK
    <3>3. CASE at[s].todo # <<>>
      <4> DEFINE h == [at[s] EXCEPT !.todo = Tail(at[s].todo)]
      <4>1. Tail(at[s].todo) \in Seq(Delta)
        BY <3>2, <3>3, HeadTail, Zenon
      <4>2. Tail(at[s].todo) \in Todo
        BY <4>1, Zenon DEF Todo
      <4>3. h \in HandlerState
        BY <3>1, <4>2, Zenon DEF HandlerState
      <4>4. at' = [at EXCEPT ![s] = h]
        BY <3>3, ZenonT(30) DEF Replay, AtType
      <4>5. /\ h.pc = at[s].pc /\ h.req = at[s].req /\ h.stream = at[s].stream /\ h.version = at[s].version
            /\ h.todo = Tail(at[s].todo) /\ h.targets = at[s].targets /\ h.slow = at[s].slow
        BY <3>1, SMT, Z3 DEF HandlerState
      <4> HIDE DEF h
      <4> QED  BY <3>2, <3>3, <4>1, <4>3, <4>4, <4>5, BecomesRule, ZenonT(30) DEF Key
    <3>4. CASE at[s].todo = <<>>
      <4> DEFINE h == [at[s] EXCEPT !.pc = "get"]
      <4>1. "get" \in PCs
        BY ZenonT(30) DEF PCs, HandlerPCs
      <4>2. h \in HandlerState
        BY <3>1, <4>1, Zenon DEF HandlerState
      <4>3. at' = [at EXCEPT ![s] = h]
        BY <3>4, Zenon DEF Replay, AtType, Goto
      <4>4. /\ h.pc = "get" /\ h.req = at[s].req /\ h.stream = at[s].stream /\ h.version = at[s].version
            /\ h.todo = at[s].todo /\ h.targets = at[s].targets /\ h.slow = at[s].slow
        BY <3>1, ZenonT(30) DEF HandlerState
      <4> HIDE DEF h
      <4> QED  BY <3>4, <4>2, <4>3, <4>4, BecomesRule, ZenonT(30) DEF Key
    <3> QED  BY <3>3, <3>4, Zenon
  <2>Inv0. Inv0'
    <3>2. at[s].pc = "replay" /\ at[s].todo \in Seq(Delta) /\ Key(s) \in Keys
      BY Zenon DEF Replay, At, HandlerOK, HandlerPCs
    <3>3. /\ UNCHANGED <<global_version, entries, log, changes, loose>>
          /\ UNCHANGED <<subscriptions, watches, presence, next_stream, phase>>
          /\ UNCHANGED <<inbox, peer_gone, writer, raced>>
      BY SMT, Z3 DEF Replay, storeVars
    <3>4. ChannelType'
      <4>1. CASE at[s].todo # <<>>
        <5> DEFINE d == Head(at[s].todo)
        <5>1. d \in Delta /\ at[s].stream \in Nat
          BY <3>2, <4>1, HeadTail, Zenon DEF TypeOK, AtType, HandlerState
        <5>2. Send(s, DeltaFrame(at[s].stream, d)) /\ known' = Tells(s, {<<at[s].stream, d.version>>})
          BY <4>1, Zenon DEF Replay
        <5>3. DeltaFrame(at[s].stream, d) \in OutFrame
          BY <5>1, FrameTypes, ZenonT(30)
        <5>4. {<<at[s].stream, d.version>>} \in SUBSET (Nat \X Nat)
          BY <5>1, SMT, Z3 DEF Delta
        <5> HIDE DEF d
        <5>5. known' \in [Sessions -> SUBSET (Nat \X Nat)]
          BY <5>2, <5>4, TellsType, Zenon DEF TypeOK
        <5>6. Sent(s, DeltaFrame(at[s].stream, d))
          BY <5>2, <5>3, SendSent, Zenon DEF TypeOK
        <5> QED  BY <3>3, <5>5, <5>6, SentChannelType, ZenonT(30) DEF TypeOK, ChannelType
      <4>2. CASE at[s].todo = <<>>
        <5>1. UNCHANGED <<out, cancelled, known>>
          BY <4>2, Zenon DEF Replay, channelVars
        <5> QED  BY <3>3, <5>1, ChannelFrame, Zenon DEF TypeOK
      <4> QED  BY <4>1, <4>2, Zenon
    <3>5. \/ /\ at[s].todo # <<>> /\ Tail(at[s].todo) \in Seq(Delta)
             /\ Becomes(s, "replay", Key(s), at[s].stream, at[s].version, Tail(at[s].todo),
                        at[s].targets, at[s].slow)
          \/ /\ at[s].todo = <<>>
             /\ Becomes(s, "get", Key(s), at[s].stream, at[s].version, at[s].todo,
                        at[s].targets, at[s].slow)
      BY <2>At, Zenon DEF TypeOK
    <3>6. TypeOK'
      BY <3>3, <3>4, <3>5, StoreFrame, TableFrame, ClientFrame, ZenonT(30) DEF TypeOK, Becomes
    <3>7. /\ \A u \in Sessions : u # s => at'[u] = at[u] /\ phase'[u] = phase[u]
          /\ at'[s].pc \in {"replay", "get"} /\ Key(s)' \in Keys
          /\ at'[s].pc = "replay" => at'[s].todo \in Seq(Delta)
      BY <3>2, <3>3, <3>5, ZenonT(30) DEF Becomes
    <3>8. phase'[s] \notin {"none", "closed", "cleanup"}
      BY <3>2, <3>3, Zenon DEF HandlerOK, WritePCs
    <3>9. HandlerOK(s)'
      BY <3>7, <3>8, Zenon DEF HandlerOK
    <3> QED  BY <3>6, <3>7, <3>9, HandlerOthers, ZenonT(30) DEF Inv0
  <2>Told. Kept
    <3>2. at[s].pc = "replay" /\ at[s].pc \notin Fanning /\ at[s].pc \in Waiting
      BY Zenon DEF Replay, At, Fanning, Waiting
    <3>3. UNCHANGED <<subscriptions, watches, next_stream, changes, phase, global_version>>
      BY Zenon DEF Replay, storeVars
    <3>4. /\ "replay" \in Waiting /\ "replay" \notin Fanning \cup {"diff", "insert", "result"}
          /\ "get" \in Waiting /\ "get" \notin Fanning \cup {"diff", "insert", "result"}
      BY ZenonT(30) DEF Waiting, Fanning
    <3>5. CASE at[s].todo # <<>>
      <4> DEFINE d == Head(at[s].todo)
      <4>1. Becomes(s, "replay", Key(s), at[s].stream, at[s].version, Tail(at[s].todo),
                    at[s].targets, at[s].slow)
        BY <3>5, <2>At, Zenon DEF TypeOK
      <4>2. at[s].todo \in Seq(Delta) /\ at[s].stream \in Nat
        BY <3>2, Zenon DEF HandlerOK, TypeOK, AtType, HandlerState
      <4>3. d \in Delta
        BY <3>5, <4>2, HeadTail, ZenonT(30)
      <4>4. Send(s, DeltaFrame(at[s].stream, d)) /\ known' = Tells(s, {<<at[s].stream, d.version>>})
        BY <3>5, Zenon DEF Replay
      <4> HIDE DEF d
      <4>5. d.version \in Nat
        BY <4>3, Zenon DEF Delta
      <4>6. {<<at[s].stream, d.version>>} \in SUBSET (Nat \X Nat)
        BY <4>2, <4>5, OnePair, Zenon
      <4>7. \A u \in Sessions : known[u] \subseteq known'[u]
        BY <4>4, <4>6, TellsType, Zenon DEF TypeOK
      <4>8. Sent(s, DeltaFrame(at[s].stream, d))
        BY <4>2, <4>3, <4>4, FrameTypes, SendSent, ZenonT(30) DEF TypeOK
      <4>9. Grows
        BY <4>7, <4>8, SentGrows, Zenon DEF TypeOK
      <4>10. NoResult
        BY <4>8, FrameKinds, SentNoResult, Zenon
      <4> QED  BY <3>2, <3>3, <3>4, <4>1, <4>9, <4>10, PlainStep, ZenonT(30)
    <3>6. CASE at[s].todo = <<>>
      <4>1. Becomes(s, "get", Key(s), at[s].stream, at[s].version, at[s].todo, at[s].targets,
                    at[s].slow)
        BY <3>6, <2>At, Zenon DEF TypeOK
      <4>2. UNCHANGED <<known, cancelled, out>>
        BY <3>6, SMT, Z3 DEF Replay, channelVars
      <4> QED  BY <3>2, <3>3, <3>4, <4>1, <4>2, GrowsSame, OutSame, PlainStep, ZenonT(30)
    <3> QED  BY <3>5, <3>6, Zenon
  <2> QED  BY <2>Inv0, <2>Told, Zenon
<1>Get. ASSUME Get(s)
        PROVE  Inv0' /\ Kept
  <2> USE <1>Get
  <2>At. ASSUME AtType, Get(s),
                entries[Key(s)] \in Entry
         PROVE  Becomes(s, "init", Key(s), at[s].stream, entries[Key(s)].version, at[s].todo, at[s].targets, at[s].slow)
    <3> USE <2>At
    <3> DEFINE h == [at[s] EXCEPT !.value = entries[Key(s)].value, !.version = entries[Key(s)].version, !.pc = "init"]
    <3>1. at[s] \in HandlerState
      BY Zenon DEF AtType
    <3>0. entries[Key(s)].value \in Value /\ entries[Key(s)].version \in Nat
      BY Zenon DEF Entry
    <3>t. "init" \in PCs
      BY ZenonT(30) DEF PCs, HandlerPCs, WritePCs, Todo
    <3>2. h \in HandlerState
      BY <3>t, <3>0, <3>1, Zenon DEF HandlerState
    <3>3. at' = [at EXCEPT ![s] = h]
      BY Zenon DEF Get, AtType, Goto
    <3>4. /\ h.pc = "init" /\ h.req = at[s].req /\ h.stream = at[s].stream /\ h.version = entries[Key(s)].version
          /\ h.todo = at[s].todo /\ h.targets = at[s].targets /\ h.slow = at[s].slow
      BY <3>1, Zenon DEF HandlerState
    <3> HIDE DEF h
    <3> QED  BY <3>2, <3>3, <3>4, BecomesRule, Zenon DEF Key
  <2>Inv0. Inv0'
    <3>2. at[s].pc = "get" /\ at[s].pc \in HandlerPCs
      BY SMT, Z3 DEF Get, At, HandlerPCs, WritePCs
    <3>3. Key(s) \in Keys
      BY <3>2, Zenon DEF HandlerOK
    <3>4. entries[Key(s)] \in Entry
      BY <3>3, Zenon DEF TypeOK, StoreType
    <3>5. Becomes(s, "init", Key(s), at[s].stream, entries[Key(s)].version, at[s].todo, at[s].targets, at[s].slow)
      BY <3>3, <3>4, <2>At, Zenon DEF TypeOK
    <3>6. /\ UNCHANGED <<global_version, entries, log, changes, loose>>
          /\ UNCHANGED <<subscriptions, watches, presence, next_stream, phase>>
      BY ZenonT(30) DEF Get, storeVars, channelVars, history
    <3>7. StoreType'
      BY <3>6, StoreFrame, Zenon DEF TypeOK
    <3>8. TableType'
      BY <3>6, TableFrame, Zenon DEF TypeOK
    <3>9. ChannelType'
      <4>1. changes[Key(s)] \in SUBSET Nat /\ at[s].stream \in Nat
        BY <3>3, Zenon DEF TypeOK, StoreType, AtType, HandlerState
      <4>2. {<<at[s].stream, v>> : v \in changes[Key(s)]} \in SUBSET (Nat \X Nat)
        BY <4>1, PairSets, Zenon
      <4>3. known \in [Sessions -> SUBSET (Nat \X Nat)]
        BY Zenon DEF TypeOK, ChannelType
      <4>4. known' = [known EXCEPT ![s] = @ \cup {<<at[s].stream, v>> : v \in changes[Key(s)]}]
        BY ZenonT(30) DEF Get
      <4>5. known' \in [Sessions -> SUBSET (Nat \X Nat)]
        BY <4>2, <4>3, <4>4, ZenonT(30)
      <4>6. UNCHANGED <<inbox, out, cancelled, peer_gone, writer, raced>>
        BY Zenon DEF Get, channelVars
      <4> QED  BY <4>5, <4>6, Zenon DEF TypeOK, ChannelType
    <3>10. TypeOK'
      BY <3>5, <3>7, <3>8, <3>9, ClientFrame, ZenonT(30) DEF TypeOK, Becomes
    <3> DEFINE p == "init"
    <3>11. /\ p \in HandlerPCs \cup {"next"} /\ p \notin {"read", "replay", "remove"}
           /\ p = "next" => Cleaning(s)
      BY Zenon DEF HandlerPCs, WritePCs
    <3>12. Cleaning(s) => p \in WritePCs \cup {"next"} /\ at[s].todo \in Seq(Path)
      BY <3>2, Zenon DEF HandlerOK, Cleaning, WritePCs
    <3>13. Becomes(s, p, Key(s), at[s].stream, entries[Key(s)].version, at[s].todo, at[s].targets, at[s].slow)
      BY <3>5, Zenon
    <3> HIDE DEF p
    <3>14. \A u \in Sessions : HandlerOK(u)'
      BY <3>2, <3>6, <3>11, <3>12, <3>13, HandlerKeeps, ZenonT(30)
    <3> QED  BY <3>10, <3>14, Zenon DEF Inv0
  \* STATE_INIT is read after the subscription: it tells of every change so far.
  <2>Told. Registered' /\ AllTold'
    <3> DEFINE pairs == {<<at[s].stream, v>> : v \in changes[Key(s)]}
    <3>2. /\ at[s].pc = "get" /\ at[s].pc \notin Fanning
          /\ at[s].pc \in Waiting \cup {"init"} /\ "init" \notin Waiting
      BY ZenonT(30) DEF Get, At, Fanning, Waiting
    <3>3. Key(s) \in Keys
      BY <3>2, Zenon DEF HandlerOK, HandlerPCs
    <3>4. entries[Key(s)] \in Entry
      BY <3>3, Zenon DEF TypeOK, StoreType
    <3>5. Becomes(s, "init", Key(s), at[s].stream, entries[Key(s)].version, at[s].todo,
                  at[s].targets, at[s].slow)
      BY <3>4, <2>At, Zenon DEF TypeOK
    <3>6. /\ UNCHANGED <<subscriptions, watches, next_stream, phase, changes, cancelled>>
          /\ known' = [known EXCEPT ![s] = known[s] \cup pairs]
      BY ZenonT(30) DEF Get, channelVars
    <3>7. /\ \A u \in Sessions : u # s => at'[u] = at[u]
          /\ at'[s].pc = "init" /\ Key(s)' = Key(s) /\ at'[s].slow = at[s].slow
          /\ at'[s].stream = at[s].stream
      BY <3>5, Zenon DEF Becomes
    <3>8. \A v \in changes[Key(s)] : <<at[s].stream, v>> \in pairs
      BY Zenon
    <3> HIDE DEF pairs
    <3>9. known \in [Sessions -> SUBSET (Nat \X Nat)]
      BY Zenon DEF TypeOK, ChannelType
    <3>10. /\ \A u \in Sessions : known[u] \subseteq known'[u]
           /\ pairs \subseteq known'[s]
      BY <3>6, <3>9, Zenon
    <3>11. Grows
      BY <3>6, <3>10, Zenon DEF Grows
    <3>12. Shrinks
      BY <3>6, SameTables, Zenon
    <3>13. \A u \in Sessions : at[u].slow \subseteq Sessions
      BY Zenon DEF TypeOK, AtType, HandlerState
    <3>14. \A u \in Sessions : \A z \in at'[u].slow : z \in at[u].slow \/ cancelled'[z]
      BY <3>7, Zenon
    <3>15. ASSUME NEW u \in Sessions
           PROVE  SameTask(u)
      <4>1. CASE u # s
        BY <3>7, <4>1, Zenon DEF SameTask, Key
      <4>2. CASE u = s
        BY <3>2, <3>7, <4>2, Zenon DEF SameTask
      <4> QED  BY <4>1, <4>2, Zenon
    <3>16. Registered'
      BY <3>6, <3>11, <3>12, <3>13, <3>14, <3>15, RegisteredStep, ZenonT(30)
    <3>17. AllTold'
      <4> SUFFICES ASSUME NEW k \in Keys, NEW x \in Range(subscriptions'[k]),
                          ~cancelled'[x.session], Live(x.session, x.stream)',
                          NEW w \in changes[k]
                   PROVE  \/ Knows(x.session, x.stream, w)'
                          \/ \E u \in Sessions : OnItsWay(u, k, w, x)'
        BY <3>6, Zenon DEF AllTold, Told
      <4>1. x \in Range(subscriptions[k]) /\ x.session \in Sessions
        BY <3>12, Zenon DEF Shrinks
      <4>2. CASE x.session = s /\ x.stream = at[s].stream
        <5>1. <<at[s].stream, k>> \in watches[s]
          BY <4>1, <4>2, Zenon DEF Registered
        <5>2. <<at[s].stream, Key(s)>> \in watches[s]
          BY <3>2, ZenonT(30) DEF Registered
        <5>3. <<at[s].stream, k>> = <<at[s].stream, Key(s)>>
          BY <5>1, <5>2, Zenon DEF Registered
        <5>4. k = Key(s)
          BY <5>3, Zenon
        <5> QED  BY <3>8, <3>10, <4>2, <5>4, ZenonT(30) DEF Knows
      <4>3. CASE ~(x.session = s /\ x.stream = at[s].stream)
        <5>1. Live(x.session, x.stream)
          BY <3>7, <4>1, <4>3, Zenon DEF Live
        <5>2. Knows(x.session, x.stream, w) \/ \E u \in Sessions : OnItsWay(u, k, w, x)
          BY <3>6, <4>1, <5>1, Zenon DEF AllTold, Told
        <5>3. ASSUME NEW u \in Sessions, OnItsWay(u, k, w, x)
              PROVE  OnItsWay(u, k, w, x)'
          <6>1. at[u].pc \in Fanning
            BY <5>3, Zenon DEF OnItsWay, Fanning
          <6>2. at'[u] = at[u]
            BY <3>2, <3>7, <6>1, Zenon
          <6> QED  BY <3>6, <5>3, <6>2, ZenonT(30) DEF OnItsWay, Key, Cleaning
        <5> QED  BY <3>10, <4>1, <5>2, <5>3, ZenonT(30) DEF Knows
      <4> QED  BY <4>2, <4>3, Zenon
    <3> QED  BY <3>16, <3>17, Zenon
  \* A stream becomes live when the read has told it of every change.
  <2>Answers. ASSUME Answers
              PROVE  Answers'
    <3> USE <2>Answers
    <3> DEFINE pairs == {<<at[s].stream, v>> : v \in changes[Key(s)]}
    <3>2. at[s].pc = "get"
      BY Zenon DEF Get, At
    <3>3. Key(s) \in Keys
      BY <3>2, Zenon DEF HandlerOK, HandlerPCs
    <3>4. entries[Key(s)] \in Entry
      BY <3>3, Zenon DEF TypeOK, StoreType
    <3>5. Becomes(s, "init", Key(s), at[s].stream, entries[Key(s)].version, at[s].todo,
                  at[s].targets, at[s].slow)
      BY <3>4, <2>At, Zenon DEF TypeOK
    <3>6. /\ UNCHANGED <<watches, changes, cancelled, global_version, out>>
          /\ known' = [known EXCEPT ![s] = known[s] \cup pairs]
      BY ZenonT(30) DEF Get, storeVars, channelVars
    <3>7. /\ \A u \in Sessions : u # s => at'[u] = at[u]
          /\ at'[s].pc = "init" /\ at'[s].stream = at[s].stream
      BY <3>5, Zenon DEF Becomes
    <3>8. \A v \in changes[Key(s)] : <<at[s].stream, v>> \in pairs
      BY Zenon
    <3> HIDE DEF pairs
    <3>9. known \in [Sessions -> SUBSET (Nat \X Nat)]
      BY Zenon DEF TypeOK, ChannelType
    <3>10. /\ \A u \in Sessions : known[u] \subseteq known'[u]
           /\ pairs \subseteq known'[s]
      BY <3>6, <3>9, Zenon
    <3>11. ASSUME NEW u \in Sessions, NEW v, Heard(u, v)
           PROVE  Heard(u, v)'
      <4> SUFFICES ASSUME NEW k \in Keys, v \in changes[k], ~cancelled[u], NEW st \in StreamsOf(u, k)
                   PROVE  Live(u, st)' => Knows(u, st, v)'
        BY <3>6, Zenon DEF Heard, StreamsOf
      <4>1. CASE u = s /\ st = at[s].stream
        <5>w. PICK w \in watches[s] : w[1] = at[s].stream /\ w[2] = k
          BY <4>1, Zenon DEF StreamsOf
        <5>t. w \in Nat \X Keys
          BY ZenonT(30) DEF TypeOK, TableType
        <5>1. <<at[s].stream, k>> \in watches[s]
          BY <5>w, <5>t, PairParts, Zenon
        <5>2. <<at[s].stream, Key(s)>> \in watches[s]
          BY <3>2, Zenon DEF Registered
        <5>3. <<at[s].stream, k>> = <<at[s].stream, Key(s)>>
          BY <5>1, <5>2, ZenonT(30) DEF Registered
        <5>4. k = Key(s)
          BY <5>3, Zenon
        <5> QED  BY <3>8, <3>10, <4>1, <5>4, ZenonT(30) DEF Knows
      <4>2. CASE ~(u = s /\ st = at[s].stream)
        <5>1. Live(u, st)' => Live(u, st)
          BY <3>7, <4>2, Zenon DEF Live
        <5>2. Live(u, st) => Knows(u, st, v)
          BY <3>11, Zenon DEF Heard
        <5> QED  BY <3>10, <5>1, <5>2, Zenon DEF Knows
      <4> QED  BY <4>1, <4>2, Zenon
    <3>12. \A u \in Sessions : Holds(u)' => Holds(u) /\ at'[u].version = at[u].version
      BY <3>7, Zenon DEF Holds
    <3>13. \A u \in Sessions : at'[u].pc \in Fanning =>
              at[u].pc \in Fanning /\ at'[u].version = at[u].version /\ Key(u)' = Key(u)
      BY <3>7, Zenon DEF Fanning, Key
    <3>14. \A u \in Sessions : at'[u].pc = "result" =>
              at[u].pc = "result" /\ at'[u].version = at[u].version
      BY <3>7, ZenonT(30)
    <3> QED  BY <3>6, <3>11, <3>12, <3>13, <3>14, AnswersHeard, ZenonT(30) DEF StaysHeld, StaysFanning, ResultsHeard, OwnResults, HeardStays
  <2> QED  BY <2>Inv0, <2>Told, <2>Answers, Zenon DEF Kept
<1>SendInit. ASSUME SendInit(s)
             PROVE  Inv0' /\ Kept
  <2> USE <1>SendInit
  <2>Inv0. Inv0'
    <3>2. at[s].pc = "init" /\ Key(s) \in Keys
      BY Zenon DEF SendInit, At, HandlerOK, HandlerPCs
    <3>3. /\ UNCHANGED <<global_version, entries, log, changes, loose>>
          /\ UNCHANGED <<subscriptions, watches, presence, next_stream, phase>>
          /\ UNCHANGED <<inbox, peer_gone, writer, known, raced>>
          /\ at' = [at EXCEPT ![s] = Idle]
      BY ZenonT(30) DEF SendInit, storeVars, history
    <3>4. ChannelType'
      <4>1. at[s].stream \in Nat /\ at[s].version \in Nat /\ at[s].value \in Value
        BY Zenon DEF TypeOK, AtType, HandlerState
      <4>2. StateInit(at[s].stream, Key(s), at[s]) \in OutFrame
        BY <3>2, <4>1, FrameTypes, Zenon DEF StateInit
      <4>3. Sent(s, StateInit(at[s].stream, Key(s), at[s]))
        BY <4>2, SendSent, Zenon DEF TypeOK, SendInit
      <4> QED  BY <3>3, <4>3, SentChannelType, ZenonT(30) DEF TypeOK, ChannelType
    <3>5. Becomes(s, "idle", Null, 0, 0, <<>>, <<>>, {})
      BY <3>3, IdleAt, Zenon DEF TypeOK
    <3>6. TypeOK'
      BY <3>3, <3>4, <3>5, StoreFrame, TableFrame, ClientFrame, ZenonT(30) DEF TypeOK, Becomes
    <3>7. phase'[s] # "cleanup"
      BY <3>2, <3>3, ZenonT(30) DEF HandlerOK, WritePCs
    <3> QED  BY <3>3, <3>5, <3>6, <3>7, HandlerIdle, ZenonT(30) DEF Inv0
  <2>Told. Kept
    <3>2. at[s].pc = "init" /\ at[s].pc \notin Fanning /\ at[s].pc \notin Waiting
      BY ZenonT(30) DEF SendInit, At, Fanning, Waiting
    <3>3. Key(s) \in Keys
      BY <3>2, Zenon DEF HandlerOK, HandlerPCs
    <3>4. at[s].stream \in Nat /\ at[s].version \in Nat /\ at[s].value \in Value
      BY Zenon DEF TypeOK, AtType, HandlerState
    <3>5. StateInit(at[s].stream, Key(s), at[s]) \in OutFrame
      BY <3>3, <3>4, FrameTypes, ZenonT(30) DEF StateInit
    <3>6. /\ UNCHANGED <<subscriptions, watches, next_stream, changes, phase, known, global_version>>
          /\ Send(s, StateInit(at[s].stream, Key(s), at[s])) /\ at' = [at EXCEPT ![s] = Idle]
      BY ZenonT(30) DEF SendInit, storeVars, history
    <3>7. Sent(s, StateInit(at[s].stream, Key(s), at[s]))
      BY <3>5, <3>6, SendSent, Zenon DEF TypeOK
    <3>8. Grows /\ NoResult
      BY <3>6, <3>7, FrameKinds, SentGrows, SentNoResult, ZenonT(30) DEF TypeOK
    <3>9. Becomes(s, "idle", Null, 0, 0, <<>>, <<>>, {})
      BY <3>6, IdleAt, Zenon DEF TypeOK
    <3>10. "idle" \notin Waiting \cup {"init"} /\ "idle" \notin Fanning \cup {"diff", "insert", "result"}
      BY ZenonT(30) DEF Waiting, Fanning
    <3> QED  BY <3>2, <3>6, <3>8, <3>9, <3>10, FreshStep, ZenonT(30)
  <2> QED  BY <2>Inv0, <2>Told, Zenon
<1> QED  BY <1>Receive, <1>Unwatch, <1>Subscribe, <1>Missed, <1>Replay, <1>Get, <1>SendInit,
     Zenon

-----------------------------------------------------------------------------
(* A write, up to its delta *)

LEMMA Drafts ==
    ASSUME Inv, NEW s \in Sessions, ServerStep,
           Read(s) \/ Version(s) \/ ComputeDiff(s)
    PROVE  Inv0' /\ Kept
<1> /\ Inv0 /\ TypeOK /\ HandlerOK(s) /\ Registered /\ AllTold
    /\ \A u \in Sessions : HandlerOK(u)
  BY Zenon DEF Inv, Inv0
<1>Read. ASSUME Read(s)
         PROVE  Inv0' /\ Kept
  <2> USE <1>Read
  <2>At. ASSUME AtType, HandlerOK(s), StoreType
         PROVE  Becomes(s, "version", Key(s), at[s].stream, at[s].version, at[s].todo, at[s].targets, at[s].slow)
    <3> USE <2>At
    <3> DEFINE put == Merge(entries[Key(s)].value, at[s].req.put)
               req == [at[s].req EXCEPT !.put = put]
               h == [at[s] EXCEPT !.req = req, !.pc = "version"]
    <3>1. at[s] \in HandlerState
      BY ZenonT(30) DEF AtType
    <3>2. at[s].req.put \in Objects /\ Key(s) \in Keys
      BY Zenon DEF Read, At, HandlerOK, HandlerPCs
    <3>3. entries[Key(s)] \in Entry
      BY <3>2, Zenon DEF StoreType
    <3>4. entries[Key(s)].value \in Value
      BY <3>3, ZenonT(30) DEF Entry
    <3>5. put \in Value
      BY <3>2, <3>4, MergeType, Zenon DEF Value
    <3>6. at' = [at EXCEPT ![s] = h]
      BY Zenon DEF Read, AtType
    <3> HIDE DEF put
    <3>7. at[s].req \in Running
      BY <3>1, ZenonT(30) DEF HandlerState
    <3>8. req \in Running /\ req.key = at[s].req.key
      BY <3>5, <3>7, ZenonT(30) DEF Running
    <3> HIDE DEF req
    <3>t. "version" \in PCs
      BY ZenonT(30) DEF PCs, HandlerPCs, WritePCs, Todo
    <3>9. h \in HandlerState
      BY <3>t, <3>1, <3>8, Zenon DEF HandlerState
    <3>10. /\ h.pc = "version" /\ h.req = req /\ h.stream = at[s].stream /\ h.version = at[s].version
           /\ h.todo = at[s].todo /\ h.targets = at[s].targets /\ h.slow = at[s].slow
      BY <3>1, ZenonT(30) DEF HandlerState
    <3> HIDE DEF h
    <3> QED  BY <3>6, <3>8, <3>9, <3>10, BecomesRule, ZenonT(30) DEF Key
  <2>Inv0. Inv0'
    <3>2. at[s].pc = "read" /\ at[s].pc \in HandlerPCs
      BY ZenonT(30) DEF Read, At, HandlerPCs, WritePCs
    <3>3. Key(s) \in Keys
      BY <3>2, Zenon DEF HandlerOK
    <3>5. Becomes(s, "version", Key(s), at[s].stream, at[s].version, at[s].todo, at[s].targets, at[s].slow)
      BY <3>3, <2>At, Zenon DEF TypeOK
    <3>6. /\ UNCHANGED <<global_version, entries, log, changes, loose>>
          /\ UNCHANGED <<subscriptions, watches, presence, next_stream, phase>>
          /\ UNCHANGED <<inbox, out, cancelled, peer_gone, writer, known, raced>>
      BY ZenonT(30) DEF Read, storeVars, channelVars, history
    <3>7. StoreType'
      BY <3>6, StoreFrame, Zenon DEF TypeOK
    <3>8. TableType'
      BY <3>6, TableFrame, Zenon DEF TypeOK
    <3>9. ChannelType'
      BY <3>6, ChannelFrame, Zenon DEF TypeOK
    <3>10. TypeOK'
      BY <3>5, <3>7, <3>8, <3>9, ClientFrame, ZenonT(30) DEF TypeOK, Becomes
    <3> DEFINE p == "version"
    <3>11. /\ p \in HandlerPCs \cup {"next"} /\ p \notin {"read", "replay", "remove"}
           /\ p = "next" => Cleaning(s)
      BY ZenonT(30) DEF HandlerPCs, WritePCs
    <3>12. Cleaning(s) => p \in WritePCs \cup {"next"} /\ at[s].todo \in Seq(Path)
      BY <3>2, ZenonT(30) DEF HandlerOK, Cleaning, WritePCs
    <3>13. Becomes(s, p, Key(s), at[s].stream, at[s].version, at[s].todo, at[s].targets, at[s].slow)
      BY <3>5, Zenon
    <3> HIDE DEF p
    <3>14. \A u \in Sessions : HandlerOK(u)'
      BY <3>2, <3>6, <3>11, <3>12, <3>13, HandlerKeeps, ZenonT(30)
    <3> QED  BY <3>10, <3>14, ZenonT(30) DEF Inv0
  <2>Told. Kept
    <3>2. at[s].pc = "read" /\ at[s].pc \notin Fanning
      BY ZenonT(30) DEF Read, At, Fanning
    <3>3. Becomes(s, "version", Key(s), at[s].stream, at[s].version, at[s].todo, at[s].targets, at[s].slow)
      BY <2>At, Zenon DEF TypeOK
    <3>4. UNCHANGED <<subscriptions, watches, next_stream, changes, phase, known, cancelled,
                    global_version, out>>
      BY Zenon DEF Read, storeVars, channelVars, history
    <3>5. /\ at[s].pc \notin Waiting /\ "version" \notin Waiting \cup {"init"}
          /\ "version" \notin Fanning \cup {"diff", "insert", "result"}
      BY <3>2, ZenonT(30) DEF Waiting, Fanning
    <3> QED  BY <3>2, <3>3, <3>4, <3>5, GrowsSame, OutSame, PlainStep, ZenonT(30)
  <2> QED  BY <2>Inv0, <2>Told, Zenon
<1>Version. ASSUME Version(s)
            PROVE  Inv0' /\ Kept
  <2> USE <1>Version
  <2>At. ASSUME AtType, Version(s),
                global_version \in Nat
         PROVE  Becomes(s, "diff", Key(s), at[s].stream, global_version + 1, at[s].todo, at[s].targets, at[s].slow)
    <3> USE <2>At
    <3> DEFINE h == [at[s] EXCEPT !.version = global_version + 1, !.pc = "diff"]
    <3>1. at[s] \in HandlerState
      BY ZenonT(30) DEF AtType
    <3>t. "diff" \in PCs /\ global_version + 1 \in Nat
      BY SMT, Z3 DEF PCs, HandlerPCs, WritePCs, Todo
    <3>2. h \in HandlerState
      BY <3>t, <3>1, Zenon DEF HandlerState
    <3>3. at' = [at EXCEPT ![s] = h]
      BY Zenon DEF Version, AtType, Goto
    <3>4. /\ h.pc = "diff" /\ h.req = at[s].req /\ h.stream = at[s].stream /\ h.version = global_version + 1
          /\ h.todo = at[s].todo /\ h.targets = at[s].targets /\ h.slow = at[s].slow
      BY <3>1, ZenonT(30) DEF HandlerState
    <3> HIDE DEF h
    <3> QED  BY <3>2, <3>3, <3>4, BecomesRule, ZenonT(30) DEF Key
  <2>Inv0. Inv0'
    <3>2. at[s].pc = "version" /\ at[s].pc \in HandlerPCs
      BY ZenonT(30) DEF Version, At, HandlerPCs, WritePCs
    <3>3. Key(s) \in Keys
      BY <3>2, Zenon DEF HandlerOK
    <3>4. global_version \in Nat
      BY Zenon DEF TypeOK, StoreType
    <3>5. Becomes(s, "diff", Key(s), at[s].stream, global_version + 1, at[s].todo, at[s].targets, at[s].slow)
      BY <3>3, <3>4, <2>At, Zenon DEF TypeOK
    <3>6. /\ UNCHANGED <<subscriptions, watches, presence, next_stream, phase>>
          /\ UNCHANGED <<inbox, out, cancelled, peer_gone, writer, known, raced>>
      BY ZenonT(30) DEF Version, storeVars, channelVars, history
    <3>7. StoreType'
      <4>1. global_version' \in Nat /\ UNCHANGED <<entries, log, changes, loose>>
        BY <3>4, SMT, Z3 DEF Version, history
      <4> QED  BY <4>1, ZenonT(30) DEF TypeOK, StoreType
    <3>8. TableType'
      BY <3>6, TableFrame, Zenon DEF TypeOK
    <3>9. ChannelType'
      BY <3>6, ChannelFrame, Zenon DEF TypeOK
    <3>10. TypeOK'
      BY <3>5, <3>7, <3>8, <3>9, ClientFrame, ZenonT(30) DEF TypeOK, Becomes
    <3> DEFINE p == "diff"
    <3>11. /\ p \in HandlerPCs \cup {"next"} /\ p \notin {"read", "replay", "remove"}
           /\ p = "next" => Cleaning(s)
      BY ZenonT(30) DEF HandlerPCs, WritePCs
    <3>12. Cleaning(s) => p \in WritePCs \cup {"next"} /\ at[s].todo \in Seq(Path)
      BY <3>2, ZenonT(30) DEF HandlerOK, Cleaning, WritePCs
    <3>13. Becomes(s, p, Key(s), at[s].stream, global_version + 1, at[s].todo, at[s].targets, at[s].slow)
      BY <3>5, Zenon
    <3> HIDE DEF p
    <3>14. \A u \in Sessions : HandlerOK(u)'
      BY <3>2, <3>6, <3>11, <3>12, <3>13, HandlerKeeps, ZenonT(30)
    <3> QED  BY <3>10, <3>14, Zenon DEF Inv0
  <2>Told. Registered' /\ AllTold'
    <3>2. at[s].pc = "version" /\ at[s].pc \notin Fanning
      BY ZenonT(30) DEF Version, At, Fanning
    <3>3. Key(s) \in Keys
      BY <3>2, Zenon DEF HandlerOK, HandlerPCs, WritePCs
    <3>4. global_version \in Nat
      BY <3>3, Zenon DEF TypeOK, StoreType
    <3>5. Becomes(s, "diff", Key(s), at[s].stream, global_version + 1, at[s].todo, at[s].targets,
                  at[s].slow)
      BY <3>4, <2>At, Zenon DEF TypeOK
    <3>6. UNCHANGED <<subscriptions, watches, next_stream, changes, phase, known, cancelled>>
      BY Zenon DEF Version, channelVars, history
    <3>7. at[s].pc \notin Waiting /\ "diff" \notin Waiting \cup {"init"}
      BY <3>2, ZenonT(30) DEF Waiting
    <3> QED  BY <3>2, <3>5, <3>6, <3>7, GrowsSame, TaskStep, ZenonT(30)
  \* A version that is drawn is new: nothing has it yet.
  <2>Answers. ASSUME Answers
              PROVE  Answers'
    <3> USE <2>Answers
    <3>1. TypeOK /\ VersionsOK /\ Answered
      BY Zenon DEF Inv, Answers
    <3>2. global_version \in Nat /\ \A u \in Sessions : at[u].version \in Nat
      BY <3>1, Zenon DEF TypeOK, StoreType, AtType, HandlerState
    <3>3. Becomes(s, "diff", Key(s), at[s].stream, global_version + 1, at[s].todo, at[s].targets,
                  at[s].slow)
      BY <3>1, <3>2, <2>At, Zenon DEF TypeOK
    <3>4. /\ \A u \in Sessions : u # s => at'[u] = at[u]
          /\ at'[s].pc = "diff" /\ at'[s].version = global_version + 1
      BY <3>3, Zenon DEF Becomes
    <3>5. /\ global_version' = global_version + 1 /\ at[s].pc = "version"
          /\ UNCHANGED <<watches, changes, known, cancelled, out>>
      BY ZenonT(30) DEF Version, At, channelVars, history
    <3>6. \A u \in Sessions : u # s => (Holds(u)' <=> Holds(u)) /\ Key(u)' = Key(u)
      BY <3>4, Zenon DEF Holds, Key
    <3>7. \A v : Issued(v) => Issued(v)'
      BY <3>2, <3>4, <3>5, <3>6, NextNumber, ZenonT(30) DEF Issued
    <3>n. /\ global_version + 1 > 0 /\ global_version + 1 <= global_version + 1
          /\ \A n \in Nat : n <= global_version => n <= global_version + 1 /\ n # global_version + 1
      BY <3>2, SMT, Z3
    <3>8. \A u \in Sessions : Holds(u)' => at'[u].version > 0 /\ at'[u].version <= global_version'
      BY <3>1, <3>2, <3>4, <3>5, <3>6, <3>n, ZenonT(30) DEF VersionsOK
    <3>9. \A u, w \in Sessions : (Holds(u)' /\ Holds(w)' /\ at'[u].version = at'[w].version) => u = w
      BY <3>1, <3>2, <3>4, <3>5, <3>6, <3>n, ZenonT(30) DEF VersionsOK
    <3>10. \A u \in Sessions : at'[u].pc \in {"log", "snapshot", "send", "direct"} =>
              at'[u].version \in changes'[Key(u)']
      BY <3>1, <3>4, <3>5, <3>6, Zenon DEF VersionsOK
    <3>11. VersionsOK'
      BY <3>1, <3>5, <3>7, <3>8, <3>9, <3>10, ZenonT(30) DEF VersionsOK
    <3>12. \A u \in Sessions : at[u].pc \in Waiting =>
              at'[u].pc \in Waiting /\ at'[u].stream = at[u].stream
      BY <3>4, <3>5, Zenon DEF Waiting
    <3>13. \A u \in Sessions : watches'[u] \subseteq watches[u]
      BY <3>5, Zenon
    <3>14. \A u \in Sessions : \A v : (Issued(v) /\ Heard(u, v)) => Heard(u, v)'
      BY <3>5, <3>12, <3>13, GrowsSame, HeardStep, ZenonT(30) DEF StaysWaiting
    <3>15. \A u \in Sessions : at'[u].pc = "result" =>
              at[u].pc = "result" /\ at'[u].version = at[u].version
      BY <3>4, ZenonT(30)
    <3>16. Answered'
      BY <3>1, <3>5, <3>7, <3>14, <3>15, AnsweredStep, ZenonT(30) DEF ResultsHeard, OwnResults, HeardStays
    <3> QED  BY <3>11, <3>16, Zenon DEF Answers
  <2> QED  BY <2>Inv0, <2>Told, <2>Answers, Zenon DEF Kept
<1>ComputeDiff. ASSUME ComputeDiff(s)
                PROVE  Inv0' /\ Kept
  <2> USE <1>ComputeDiff
  <2>At. ASSUME AtType, HandlerOK(s), StoreType
         PROVE  Becomes(s, "insert", Key(s), at[s].stream, at[s].version, at[s].todo, at[s].targets, at[s].slow)
    <3> USE <2>At
    <3> DEFINE old == entries[Key(s)]
               new == at[s].req.put
               ops == IF old = Absent THEN RootOps(new) ELSE Diff(old.value, new)
               h == [at[s] EXCEPT !.ops = ops, !.pc = "insert"]
    <3>1. at[s] \in HandlerState
      BY ZenonT(30) DEF AtType
    <3>2. Key(s) \in Keys
      BY Zenon DEF ComputeDiff, At, HandlerOK, HandlerPCs, WritePCs
    <3>3. old \in Entry
      BY <3>2, Zenon DEF StoreType
    <3>4. old.value \in Value
      BY <3>3, Zenon DEF Entry
    <3>5. at[s].req \in Running
      BY <3>1, ZenonT(30) DEF HandlerState
    <3>6. new \in Value
      BY <3>5, ZenonT(30) DEF Running
    <3>7. at' = [at EXCEPT ![s] = h]
      BY Zenon DEF ComputeDiff, AtType
    <3>8. ops \in Ops
      <4> HIDE DEF old, new
      <4> QED  BY <3>4, <3>6, OpsTypes, DiffType, ZenonT(30)
    <3> HIDE DEF ops
    <3>t. "insert" \in PCs
      BY ZenonT(30) DEF PCs, HandlerPCs, WritePCs, Todo
    <3>9. h \in HandlerState
      BY <3>t, <3>1, <3>8, Zenon DEF HandlerState
    <3>10. /\ h.pc = "insert" /\ h.req = at[s].req /\ h.stream = at[s].stream /\ h.version = at[s].version
           /\ h.todo = at[s].todo /\ h.targets = at[s].targets /\ h.slow = at[s].slow
      BY <3>1, ZenonT(30) DEF HandlerState
    <3> HIDE DEF h
    <3> QED  BY <3>7, <3>9, <3>10, BecomesRule, ZenonT(30) DEF Key
  <2>Inv0. Inv0'
    <3>2. at[s].pc = "diff" /\ at[s].pc \in HandlerPCs
      BY ZenonT(30) DEF ComputeDiff, At, HandlerPCs, WritePCs
    <3>3. Key(s) \in Keys
      BY <3>2, Zenon DEF HandlerOK
    <3>5. Becomes(s, "insert", Key(s), at[s].stream, at[s].version, at[s].todo, at[s].targets, at[s].slow)
      BY <3>3, <2>At, Zenon DEF TypeOK
    <3>6. /\ UNCHANGED <<global_version, entries, log, changes, loose>>
          /\ UNCHANGED <<subscriptions, watches, presence, next_stream, phase>>
          /\ UNCHANGED <<inbox, out, cancelled, peer_gone, writer, known, raced>>
      BY ZenonT(30) DEF ComputeDiff, storeVars, channelVars, history
    <3>7. StoreType'
      BY <3>6, StoreFrame, Zenon DEF TypeOK
    <3>8. TableType'
      BY <3>6, TableFrame, Zenon DEF TypeOK
    <3>9. ChannelType'
      BY <3>6, ChannelFrame, Zenon DEF TypeOK
    <3>10. TypeOK'
      BY <3>5, <3>7, <3>8, <3>9, ClientFrame, ZenonT(30) DEF TypeOK, Becomes
    <3> DEFINE p == "insert"
    <3>11. /\ p \in HandlerPCs \cup {"next"} /\ p \notin {"read", "replay", "remove"}
           /\ p = "next" => Cleaning(s)
      BY ZenonT(30) DEF HandlerPCs, WritePCs
    <3>12. Cleaning(s) => p \in WritePCs \cup {"next"} /\ at[s].todo \in Seq(Path)
      BY <3>2, ZenonT(30) DEF HandlerOK, Cleaning, WritePCs
    <3>13. Becomes(s, p, Key(s), at[s].stream, at[s].version, at[s].todo, at[s].targets, at[s].slow)
      BY <3>5, Zenon
    <3> HIDE DEF p
    <3>14. \A u \in Sessions : HandlerOK(u)'
      BY <3>2, <3>6, <3>11, <3>12, <3>13, HandlerKeeps, ZenonT(30)
    <3> QED  BY <3>10, <3>14, Zenon DEF Inv0
  <2>Told. Kept
    <3>2. at[s].pc = "diff" /\ at[s].pc \notin Fanning
      BY ZenonT(30) DEF ComputeDiff, At, Fanning
    <3>3. Becomes(s, "insert", Key(s), at[s].stream, at[s].version, at[s].todo, at[s].targets, at[s].slow)
      BY <2>At, Zenon DEF TypeOK
    <3>4. UNCHANGED <<subscriptions, watches, next_stream, changes, phase, known, cancelled,
                    global_version, out>>
      BY Zenon DEF ComputeDiff, storeVars, channelVars, history
    <3>5. /\ at[s].pc \notin Waiting /\ "insert" \notin Waiting \cup {"init"}
          /\ "insert" \notin Fanning /\ "insert" # "result"
      BY <3>2, ZenonT(30) DEF Waiting, Fanning
    <3>6. Registered' /\ AllTold'
      BY <3>2, <3>3, <3>4, <3>5, GrowsSame, TaskStep, ZenonT(30)
    <3>7. ASSUME Answers
          PROVE  Answers'
      BY <3>2, <3>3, <3>4, <3>5, <3>7, GrowsSame, OutSame, TaskAnswers, ZenonT(30)
    <3> QED  BY <3>6, <3>7, Zenon DEF Kept
  <2> QED  BY <2>Inv0, <2>Told, Zenon
<1> QED  BY <1>Read, <1>Version, <1>ComputeDiff, Zenon
=============================================================================
