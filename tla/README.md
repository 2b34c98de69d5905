# TLA+ verification of SODP

SODP (State-Oriented Data Protocol) keeps versioned JSON values under string
keys on a server and streams structural deltas to the clients that watch them,
in MessagePack frames over a WebSocket. The repository holds a Rust server
(`src/`), a middleware crate (`sodp-middleware/`), a Go server (`sodp-go/`), a
TypeScript server (`server-ts/`) and clients in TypeScript, Python, Java and
React. This directory models the Rust server in depth, the parts of the Go and
TypeScript servers that change values or deliver them, and the clients as far as
connections, calls, watches and deltas go.

`PROJECT.json` lists the components with what is and is not modelled, the runs,
the source lines behind every definition, the hazards and the theorems.

## The system and its modules

A client sends WATCH, RESUME, UNWATCH and CALL frames. The server's session task
handles them one after the other; a CALL changes the `StateStore`, which gives
the change a version, diffs old and new value, and logs the delta in memory and
on disk. `FanoutBus` sends the delta to the subscribed sessions through bounded
channels; a session whose channel is full is evicted, reconnects and resumes. In
a cluster a spawned task stores the entry in Redis and publishes the delta, and
the subscriber of every other node hands it to the watchers there.

| Module | Models | State and actions |
|---|---|---|
| `StateStore` | `src/state.rs` | `entries`, `global_version`, `log`, one pc per writer; an action per access to shared state of `apply`, `delete`, `compact_plog`, and `Recover` for `open` |
| `SegmentedLog` | `src/log.rs` | the segment files, what is flushed, the open segment; an action per file operation of `append`, `rotate`, `compact`, each of which can crash or fail |
| `VersionedStore` | the promise in the comment on `StateStore` | an atomic store; `StateStore` implements it for one writer |
| `Server` | `server.rs` handlers, `fanout.rs`, `session.rs`, task mode of `write_pool.rs` | sessions with inbox, channel, watches, presence; `at[s]` is where the handler stands, with an action per access to store, registry or channel |
| `WatchSync` | `Server` composed with the TypeScript client (`client-ts/src/index.ts`) | connect, resubscribe, watch, unwatch, STATE_INIT and DELTA handling, lost connections |
| `WritePool` | `src/write_pool.rs`, pool mode | `q`, `pending`, `in_pool`, the pool's queue, the socket; an action per atomic operation or await of `send`, `pool_enqueue`, the worker and `pool_drain`; the Release store that clears `in_pool` may land after the Acquire load that follows |
| `Cluster` | `src/cluster.rs`, start-up in `main.rs`, `load_entries` | stores and counters of the nodes, the Redis hash, the sync tasks, the Pub/Sub connections, watchers' views; failed commands, lost connections, crashes |
| `Connection` | `listen`, handshake and timers of `server.rs`, both rate limiters, shutdown in `main.rs` | a clock in ticks; per connection its phase, limiters, token expiry, ping timer |
| `Delta` | `delta.rs`, `sodp-go/delta.go`, `server-ts/src/jsonpointer.ts`, the appliers of the three clients, the JSON helpers of `server.rs` | operators only |
| `Schema`, `Acl` | `schema.rs`; `acl.rs` and `sodp-middleware/src/acl.rs` | operators only, with a declarative reference definition of what a rule file grants |
| `Mirror` | one key of a Rust, Go or TypeScript server and the copies of its clients | every state-changing method of each server, composed from `Delta`, `Schema`, `Acl` |
| `GoServer` | `sodp-go` server, session, state, fan-out, write pool, with the TypeScript client | like `WatchSync`; the fan-out of a key is a goroutine with a job channel that is reaped when idle |
| `SeqFilter` | `Vec::retain` and `filter`, as `fanout.rs`, `state.rs` and the clients' tables of pending calls use them | the operator `Omit(s, D)`: a sequence without the elements of a set |
| `ClientCalls` | the call queues of the TypeScript, Python and Java clients | queue, pending calls, timers, connection; the server's handshake and answers |

`MC*` modules give small values to the constants; `*Proofs` modules, and
`WatchSyncSteps`, hold the theorems and lemmas.

### How data is abstracted

Values are opaque where only identity matters (`StateStore`, `Cluster`), maps
from a few fields where merging matters (`Server`), and JSON trees where diffs
and paths matter (`Delta`, `Mirror`). Frames are records. A key that does not
exist has version 0 and reads as null. In `Delta` a path is the sequence of its
characters, split and escaped as the code does it, because properties depend on
it. In `Acl` a key is the sequence of its segments for the server and of its
characters for the middleware, whose globs ignore the dots; characters are one
byte long, so the byte offsets of the middleware's `glob_match`
(`sodp-middleware/src/acl.rs:170`) are always at a boundary.

A scalar of `Delta` has a type and a printed text, because the Go server compares
what values print (`delta.go:169`), and an op of the Go server goes through the
encoding of `DeltaOp`, which leaves out a value that is zero or empty
(`delta.go:22`).

A failed write of `SegmentedLog` leaves nothing in the file: its records are
smaller than the buffer of the `BufWriter`. `Connection` has one clock, so wall
and monotonic time agree, and a token is validated and its expiry computed in one
instant (`server.rs:522-527`, `:357`). `Accept` tests and raises the counter in
one step, since only the accept loop raises it.

Constants named `Max...`, `...Limit` and `...Cap` are either limits of the code
(`MaxDeltaLog`, `Backpressure`, `MaxConnections`) or, where the comment says
"bound", limits on the exploration.

### History variables

Several properties hold except after an event the code does not handle. Rather
than leave such an event out, the model records it and the property excuses
exactly what it touches: `late` in `WritePool` (a delayed store), `raced` in
`Server` (a DELTA sent between the read and the send of a STATE_INIT), `loose` in
`Server` (a member that a call wrote without registering it as presence, also by
writing back what it had read), `skipped` in `WatchSync` (entries that `onReady`
passed over), `missed` and `astray` in `Cluster`, the spoiled streams of
`GoServer`, `mixed` in `ClientCalls`. In every other
interleaving the property is unconditional. These exceptions are listed under
Observations.

## Runs

| Run | Instance | States | Checks |
|---|---|---|---|
| `write_pool` | 1 handle, 2 senders, 2 workers, channel of 2, 2 messages, socket stuck once | 1.1 M | types; `pending` exact; one drainer; nothing stranded; order; overflow evicts; every message to a healthy socket is taken |
| `store_crash` | 1 writer, 2 keys, 4 calls, 2 crashes, a record per segment, compaction after 2 | 333 k | an acknowledged write survives; memory equals what a restart would show; the delta log is a chain; refinement of `VersionedStore` |
| `store_race` | 2 writers, 1 key, 3 calls, 1 crash or I/O error, compaction after 1 segment | 1.0 M | a version on disk stands for one write; every call returns |
| `store_compact_race` | 2 writers, 2 keys, 3 calls | - | **violation** of `AckedSurvive` |
| `watch_sync` | writer and watcher, 3 sessions, channel of 2, delta log of 1, 2 calls, 1 loss | 1.5 M | no update is missed; nothing of a closed session stays; the watcher ends with the server's value |
| `watch_calls` | 1 client with patch and presence, 2 sessions, channel of 1; up to 2 calls, 1 loss and 4 watch operations, not all at once (`CallBudgets`) | 587 k | DELTA before RESULT; a subscription is bound at the client; presence is cleared; a watch hears of updates in the end |
| `watch_stale` | 2 clients, no losses | - | **violation** of `Converges` |
| `delta` | eight workloads: Rust, typed, access, Go, Go texts, Go appends, TypeScript, TypeScript presence | 156 k | clients hold the server's value; a typed key stays valid; access is what the rules say |
| `go_server` | 1 key, 2 sessions, 1 mutator, all capacities 1 or 2, 1 loss, 1 reap | 1.0 M | no gap in a replay; nothing leaks; the client ends with the server's value; a slow session does not stall the fan-out |
| `client_calls` | 2 calls, 2 connections, each client, with and without AUTH | 447 k | at most once; a refusal reaches its caller; lost stays lost; every call settles |
| `cluster` | 2 nodes, 1 with a log, 1 key, 2 values, 2 mutations, 1 fault, 1 crash | 445 k | counter above versions; no delta twice; Redis current; watchers converge |
| `connection` | 2 connections, limit 1, ping 1 s, 2 ticks per second, lag 1, 7 ticks, 3 requests, rate 1, 3 tokens | 1.0 M | counter exact; at most twice the rate; limiters agree; open means alive; a ping has its period |

The bounds are the least at which the interesting cases occur: a second writer
for races; a segment of one record so that rotation and compaction start within
the calls; a delta log of one or two so that eviction happens before a RESUME; a
channel of one or two so that it overflows; a lost connection so that a client
resumes; two ticks to a second so that a token, a window and a timer are not in
step. The watch operations of `watch_calls` are enough for WATCH, WATCH, UNWATCH,
WATCH of one key on one connection, and for watch, unsubscribe, reconnect, watch;
its two calls for a path that is registered again, or a value that is patched,
while the old session is still to clean up. `cluster` also passed with three mutations and one crash (5.3 M states).
Each property has a mutant of the code in `PROJECT.json`, a plausible bug, under
which TLC reports it violated: the instances are large enough to see it.

Every cfg says `CHECK_DEADLOCK FALSE`: the bounds, or the end of all calls, let
each of these systems stop.

### Fairness

* `write_pool`: weak fairness of senders and workers, which are tokio tasks that
  are polled while they can run. A socket that is stuck may stay so.
* `store_race`: of a writer's steps, of file operations and of recovery; not of
  crashes or errors.
* `watch_calls`: of session tasks, write tasks, and the client's connect, close
  and delivery, since the client retries with a back-off for ever. Losses are
  bounded: a network that loses every connection keeps no promise.
* `go_server`: of handlers, the mutator and the fan-out goroutine.
* `client_calls`: of the call timers only. Nothing is assumed of the network.
* `cluster`: that some sync task makes a step and that a subscriber handles what
  it was sent. A node that crashed may stay down.

## Proofs

TLAPS proves these for all values of the constants.

A leaf names the backend that proves it. Where arithmetic or sequences need
the SMT solver it says `SMT, Z3`, a first and a second attempt: tlapm limits
the time of its own translation and, in a long module, sometimes exceeds it.

**`WritePoolProofs`** (any finite senders, workers, handles). `TypeCorrect`,
`PendingIsExact`, `OneDrainer`, `NothingStranded`, `BackpressureTheorem`,
`InOrderTheorem`. The inductive invariant is
`TypeOK /\ ControlOK /\ PendingExact /\ SingleDrainer`. `ControlOK` ties a
thread's pc to what it holds: without it nothing says that the thread that is
about to clear `in_pool` is the one that won the compare-and-swap. `NoStranded`
follows from the same invariant, since a message in a channel is counted, and a
count that is not zero has a holder of `in_pool` who will read it. `EvictInv`
adds, for the capacity and the evictions, that a sender on its way back from
`try_send` has its message in `sent` or the session cancelled. For the order,
`OneDrainer` is what matters: it makes the message in hand unique, so that
`wire`, that message and the channel can be put side by side; `Encoded` says
that a message on its way to `feed` has an encoding.

**`WatchSyncSteps`, `WatchSyncProofs`** (any sessions, keys, fields, clients, requests, channel and
log sizes; `watchMany` included). `NoLeakTheorem`, `NoMissedUpdateTheorem`,
`DeltaBeforeResultTheorem`, and `TypeCorrect` for all variables of server and
clients. The invariant `Inv` has four parts. `TypeOK`. `HandlerOK`: what a
session's task holds at each step, and at which steps it can be in each phase.
`Registered`: a subscription has its entry in the table of a session that is not
closed, no two streams of a session are the same, and a session that a fan-out
found slow is cancelled, so that `Evict` takes only the subscriptions of sessions
that reconnect. `AllTold`: a subscriber has heard of each version of its key, or
the fan-out of that version stands before the step that will tell this subscriber
(`OnItsWay`); `NoMissedUpdate` itself is too weak to be kept, since it does not
say that the fan-out still has the subscriber on its list. `DeltaBeforeResult`
needs `Answers` besides: a version belongs to one change of one key
(`VersionsOK`: versions in the hands of writers are different and in no key's
history yet), and a session at the RESULT step, or with a RESULT in its channel,
has heard of that version if it watches the key (`Answered`). What a session has
heard of is in `known`, by stream; its own call's DELTA goes to one of its streams
only, whichever `watch_stream_id` finds, and is noted for that stream and, as
stream 0, for the session. So of one's own change both theorems say that it was
sent on one of the streams, not on each. The first
module has the invariant, what any step keeps of it, and the steps of clients,
subscriptions and drafts of a write; the second has the change and its fan-out,
the end of a session, and the theorems.

**`SeqFilterProofs`** has what the modules about `WatchSync` and `ClientCalls` use of `Omit`: it keeps the
other elements in their order, distributes over `Append` and `\o`, and its range
is the rest. `SeqInduction` is the induction over prefixes that they rest on,
derived from the least element of a set of naturals.

**`StateStoreProofs`** (any writers, keys, values, any crashes and I/O errors).
`VersionsAgree`: two records of one version that a restart reads are one write.
The invariant is `Typed /\ OneWrite /\ NoneAbove`: every record on disk, in a
buffer, in a snapshot or in a writer's hand that has a version agrees with the
others on it, and none is above `global_version`. It has to speak of all of
these places because compaction and crashes move records between them.

The same module proves what one writer can rely on (`Solitary`: `Writers` is a
singleton; two writers break each of these, see Findings and Observations).
`RefinementTheorem`: between two restarts the store implements `VersionedStore`,
with crashes and I/O errors at any point. The mapping shows a call at its insert
(or removal): the counter is ahead of a delete that has not taken its version
(`bump`) and behind a set that has not inserted, and the delta log has the delta
that is still to be appended. `SoloInv` says what the writer holds at each of
its steps; above all, that the value `apply` diffed against is still the entry
when it inserts. `AckedSurviveTheorem` and `MemoryMatchesDiskTheorem` assume
besides that no I/O error happens (`MaxIoErrors = 0`), since a failed append is
acknowledged. Their invariant, `Durable`, follows the files through every step of
a rotation and a compaction: only the record being written can be torn, and it
ends the last file (`Files`); the records of a key do not go down from one file to
the next (`Ordered`), so that removing the oldest file first, as `compact` does,
never leaves an older value than it found; until the old files are gone, the
snapshot and what is left to write of it hold each entry of memory (`Copied`);
and what a restart would show is what memory holds, but for the key of a call
whose record is not yet in the file (`AllCurrent`).

**`ClusterProofs`** (any nodes, keys, values, faults, crashes). `CounterAhead`:
a running node's counter is at least each of its entries' versions.
`NoDeltaTwice`: no watcher gets a delta twice. `HashIsCurrent`: `RedisCurrent`.
The invariant is `Typed /\ Versions /\ Silent /\ Stamps /\ Once`. `Versions` adds the loading
phase (entries up to the maximum of counter and `max_version`); `Stamps` and
`Once` say that a mutation is in one place on its way to a node: with its
task, on the connection, or delivered; `Silent` says that a node that is not
subscribed has an empty connection. For the hash, `Hash` adds that of each key
that is not excused either the hash has the last mutation, or the command of that
mutation is the newest that has yet to run.

**`ConnectionProofs`** (any connections, limits, periods, tokens, clock grain,
lag). `CounterIsExact`, `TwiceTheRate`, `LimitersAnswerAlike`, `SessionsAlive`,
`PeersGetAPeriod`. The invariant is `Handled /\ Counts`. Its two ideas: both
limiters are always in the same window, the server's count being the minimum of
the middleware's and the rate; and every timer is at most one period ahead of
the event it was set from, which bounds the clock through the guard of `Tick`.
For `AtMostTwice`, `AllSpaced` says that a request and the one that is twice the
rate later in the list of those let through are a second apart, with what the
current window has to say of its own requests to keep that up; what is left is to
count an interval of indices.

**`ClientCallsProofs`** (any calls, any connections, the three clients).
`PerformedOnce`: the server performs a call at most once, and a RESULT is true.
`LostForGood`: a call reported as lost is not sent on a later connection.
`RefusalsMatch`: `RightCallRejected`. The invariant of the first two is `Types /\ OnePlace /\ Unmade /\ Answered /\ Future /\ Gone`.
`CallsOnce` alone says nothing of frames that are still to be handled;
`OnePlace` says that the frame of a call is in one place at a time (the
hands of one of the callers, the queue, the outbox, one wire, what was performed) and once
there, and `Unmade` that a call nobody made is in none, so that a new one is
fresh. For lost calls, `Gone` keeps them out of the queue and `Future` says that
the TypeScript client has no other place to send from and that nothing is on a
connection before it is opened. `RightCallRejected` needs the order of all frames
(`InTurn`): while nothing has broken it, the calls handled, on the wire, in the
outbox and in the queue of a connection that is ready follow one another as they
were made, every answer on its way is of a pending call, the one that stands at
its place from the end of what was handled (`Due`), and every pending call is
answered, or on its way, unless the connection broke. So the first answer is of
the oldest pending call, the one that `onError` takes.

The assumptions on constants (`ClusterAssumption`, `ConnectionAssumption` and so
on) say only that numbers are naturals, that the distinguished values are
distinct, that the requests and watched keys of a client are requests and keys
(`WatchSyncAssumption`) and, for `ClientCalls`, which three clients there are.
TLC evaluates them in the runs of their modules.

### Only model-checked

Liveness (`Drains`, `CallsReturn`, `EventuallyWatching`, `FanoutNeverStalls`,
`EverySettles`, `EventuallyConverge`), the properties of `Delta`, `Schema` and
`Acl` and of `Mirror`, which uses them (recursive operators, about which the
prover cannot reason), and the convergence properties of `WatchSync` and
`GoServer` are checked on the instances above. So are `PresenceCleared` and
`SubscribedIsBound` of `WatchSync` (the latter is about all the frames in transit
between a client and its session);
`NoLeak` and `ReplayComplete` of `GoServer`; and `DeltaChain` of `StateStore`,
which would need a second invariant, on the records that carry ops, from one
file to the next and through the log that `open` rebuilds from them.

## Findings

* **A compaction can undo a delete** (`store_compact_race`, `src/state.rs:274`).
  `compact_plog` reads the entries before it takes the log's mutex. A delete
  that runs, is logged and returns in between is lost: the old segments go, the
  snapshot still has the key.
* **A DELTA can overtake the STATE_INIT that lacks it** (`watch_stale`,
  `src/server.rs:709`). The entry is read, then another session broadcasts, then
  STATE_INIT is sent. The client drops the DELTA of a stream it has not bound
  and keeps the old value until the next change.

## Observations

What modelling showed besides; no run states the opposite.

Store and log
* The delta log is in insertion order, not version order, with concurrent writers
  (`state.rs:173`, comment at `:34`), and the entry of the lower version may be
  the one that stays (`state.rs:162`).
* A deleted key is there again, as null, after a restart (`state.rs:119`), and
  versions of writes that changed nothing are given out again (`state.rs:115`).
* A RESUME below the oldest logged delta gets the deltas that are left, not an
  empty replay (`state.rs:65`, comment at `:20`). STATE_INIT follows and repairs it.
* A failed append is only logged; the call is acknowledged (`state.rs:184`).

Sessions
* patch, set_in and presence read, merge and write in separate steps: of two
  concurrent ones one is lost (`server.rs:1106`; "atomically" at `:1071`).
* Presence clean-up of an old session removes what the reconnected client
  registered in the meantime, and asks no schema (`server.rs:445-450`).
* A call that read a value before a clean-up and writes it back after brings the
  path of the closed session back, for good (`server.rs:1106`; SPECIFICATION.md:667
  and `session.rs:20` promise its removal).
* On shutdown `main` returns without awaiting the session tasks, so clean-up may
  be cut off (`server.rs:292`, `main.rs:107`; `session.rs:20`).
* The handshake has neither a timeout nor a shutdown arm.
* Two WATCHes of a key by one session, then one UNWATCH: both subscriptions go,
  one watch stays (`server.rs:746`). After another WATCH the DELTA of the
  session's own call may go to the stream that stayed, which its client has
  unbound (`index.ts:621-623`), so the client drops it.
* In the TypeScript client an entry without callbacks is skipped on reconnection
  and a callback added later sends no WATCH and hears nothing (`index.ts:325`,
  `:460-472`).
* In pool mode a message can wait for the next send to its session, if the store
  of `in_pool = false` lands after `pending` was read (`write_pool.rs:190`).

Clustering
* `handle_pubsub_message` does not update the peer's store: a WATCH or a write
  there starts from the old value, and a write that equals it changes nothing
  (`cluster.rs:246`; `docs/clustering.md:274-276` says the nodes converge).
* Sync tasks are not ordered and HSET compares no versions: an older one may
  overwrite a newer one (`cluster.rs:109`; SPECIFICATION.md:1079 says "The higher
  version always wins in conflict resolution").
* When Redis is down at start the node never joins (`main.rs:66-70`).

Limits and access
* The middleware documents a sliding window; it is a fixed one, as the server's,
  with up to twice the rate across a boundary (`sodp-middleware/src/rate.rs`).
* The middleware reads the same rule files differently: `{sub}` is expanded, not
  captured, `*` matches within a segment, and nobody without a `sub` is let in.
* A rule file that cannot be loaded leaves the server without access control.

Deltas
* A name with a slash arrives as a nested field (`delta.rs:91`); a patch is
  merged at every level (`server.rs:1415-1429`), where the comment at `:992` and
  SPECIFICATION.md:664 say it is shallow.
* Go: a value that prints like the old one is not sent (`delta.go:169`), and not
  stored either when nothing else changed (`state.go:96-102`); 0, "", false and
  empty containers arrive as null (`delta.go:22`), and a client that is then sent a
  field with a numeric name below such a null builds an array; set_in
  splits its path at dots and is no JSON pointer (`server.go:1000`); append to an array above `max_len` trims
  more on the server than at the clients (`state.go:131`).
* TypeScript server: an UPDATE past the end of an array leaves a hole that the
  clients do not have (`jsonpointer.ts:80`), and a write into a scalar throws
  where the clients replace the scalar (`:88`).

Go server
* A RESUME that replays sends no STATE_INIT (`server.go:780`), and a delta between
  `DeltasSince` and `Subscribe` is lost (`:758`).
* A mutation between `Subscribe` and `Get` is delivered twice, which an append
  shows as one element too many (`:587`).
* A full channel drops a frame and keeps the session (`writepool.go:61`).
* An idle key's goroutine is reaped and only a new WATCH starts it again
  (`fanout.go:186`).
* Stream ids that the client chose and those the session allocates can be the
  same (`server.go:566`); a multi-key WATCH ends at the first refused key (`:562`).

Clients
* An ERROR without a call_id rejects the oldest pending call (`index.ts:396`,
  `client.py:335`), also when it was for a WATCH.
* Python's send queue outlives a connection (`client.py:215`).
* Java publishes `authenticated` before it flushes the queue, so calls overtake
  (`SodpClient.java:202`), and `close` leaves pending futures open.

## Not modelled

* Sessions, hydration, RESUME and removal of the TypeScript server; only what its
  methods do to a value is. It is a third server of the same protocol on one
  thread; its hazards at awaits (`session.ts:301`) are listed without a property.
* Persistence of the Go and TypeScript servers, clustering of both.
* Access control and schemas of the Go and TypeScript servers.
* MessagePack encoding (`frame.rs` and its counterparts), signatures of JWTs,
  metrics, health endpoints, environment and arguments: no state, or library code.
* ACK and HEARTBEAT frames, which change nothing another part reads.
* Limits that are not set (`None`): they switch a check off.
* Watch tables of the Python and Java clients, analogues of the TypeScript one.
* What a WebSocket delivers after the TypeScript client called `close`: nothing, as
  in a browser. Java goes on receiving, and `ClientCalls` has it so.
* React bindings, benchmarks, load generators and the demo: users of the protocol.
