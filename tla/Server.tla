------------------------------- MODULE Server -------------------------------
(***************************************************************************)
(* The Rust server's sessions (server.rs, session.rs), the subscription    *)
(* registry (fanout.rs) and the in-memory store (state.rs) they share.     *)
(*                                                                         *)
(* A session is one task: it takes a frame from its socket, runs the       *)
(* handler to the end and takes the next.  Handlers of different sessions  *)
(* interleave, so each access to shared state (the version counter, the    *)
(* entries, the delta log, the registry, another session's channel) is an  *)
(* action, and at[s].pc is the access that comes next.                     *)
(*                                                                         *)
(* A JSON value is Null or an object with scalar members, a function from  *)
(* a subset of Fields.  An entry with version 0 is an absent key.  The     *)
(* disk log is left to StateStore, the channels of pool mode to WritePool; *)
(* here a session's write task delivers its channel in order.              *)
(***************************************************************************)
EXTENDS Naturals, Sequences, FiniteSets, Functions, SeqFilter

CONSTANTS Sessions, Keys, Fields, Vals, Null,
          Backpressure,   \* backpressure_limit
          MaxDeltaLog     \* MAX_DELTA_LOG_ENTRIES_PER_KEY

ASSUME ServerAssumption ==
    /\ Backpressure \in Nat \ {0} /\ MaxDeltaLog \in Nat \ {0}
    /\ Sessions \subseteq Nat \ {0}

VARIABLES global_version, entries, log,   \* StateStore
          subscriptions,                  \* FanoutBus: key -> subscribers
          phase,       \* of a session: "none", "open", "cleanup", "closed"
          watches,     \* Session.watches: the <<stream, key>> pairs
          presence,    \* Session.presence: <<key, field>> in order
          next_stream, \* Session.next_stream_id
          at,          \* the running handler
          inbox,       \* frames the socket still holds for the session
          peer_gone,   \* the socket is closed or broken on the client's side
          out,         \* the bounded outbound channel
          cancelled,   \* slow_cancel
          writer,      \* write_task: "run" or "stopped"
          changes,     \* history: versions that changed a key
          known,       \* history: <<stream, version>> a session's frames tell;
                       \* stream 0 stands for the DELTA of the session's own call
          raced,       \* history: streams whose STATE_INIT came after a newer DELTA
          loose        \* history: members an entry has without a registration

storeVars == <<global_version, entries, log>>
sessionVars == <<phase, watches, presence, next_stream, at, inbox>>
channelVars == <<out, cancelled>>
history == <<changes, known, raced, loose>>
serverVars == <<storeVars, subscriptions, sessionVars, peer_gone, channelVars,
                writer, history>>

-----------------------------------------------------------------------------
(* Values and deltas *)

Objects == UNION {[D -> Vals] : D \in SUBSET Fields}
Value == Objects \cup {Null}
Empty == [f \in {} |-> Null]

\* json_merge and json_set_in: members of patch replace those of base
Merge(base, patch) ==
    LET b == IF base = Null THEN Empty ELSE base
    IN [f \in DOMAIN b \cup DOMAIN patch |->
           IF f \in DOMAIN patch THEN patch[f] ELSE b[f]]

Without(v, fs) == IF v = Null THEN Null ELSE [f \in DOMAIN v \ fs |-> v[f]]

\* A delta replaces the root, removes it, or puts and deletes members.
RootOps(v) == [kind |-> "root", put |-> v, del |-> {}]
RemoveOps == [kind |-> "remove", put |-> Null, del |-> {}]
FieldOps(put, del) == [kind |-> "fields", put |-> put, del |-> del]
NoOps == FieldOps(Empty, {})

\* delta.rs, on the values above
Diff(old, new) ==
    IF old # Null /\ new # Null
    THEN FieldOps([f \in {g \in DOMAIN new : g \in DOMAIN old => old[g] # new[g]}
                       |-> new[f]],
                  DOMAIN old \ DOMAIN new)
    ELSE IF old = new THEN NoOps ELSE RootOps(new)

Absent == [version |-> 0, value |-> Null]

\* DeltaLog::append and DeltaLog::since
Logged(deltas, d) ==
    LET all == Append(deltas, d)
    IN IF Len(all) > MaxDeltaLog THEN Tail(all) ELSE all
DeltasSince(k, v) == Omit(log[k], {d \in Range(log[k]) : d.version <= v})

-----------------------------------------------------------------------------
(* Frames and channels *)

StateInit(st, k, e) ==
    [type |-> "STATE_INIT", stream |-> st, key |-> k, version |-> e.version,
     value |-> e.value]
DeltaFrame(st, d) ==
    [type |-> "DELTA", stream |-> st, version |-> d.version, ops |-> d.ops]
ResultFrame(v) == [type |-> "RESULT", version |-> v]
ErrorFrame == [type |-> "ERROR"]

Room(s) == writer[s] = "run" /\ Len(out[s]) < Backpressure

SendDropping(s, frame) ==
    /\ out' = IF Room(s) THEN [out EXCEPT ![s] = Append(@, frame)] ELSE out
    /\ UNCHANGED cancelled

\* WriteHandle::send in task mode: a full or closed channel cancels the session
Send(s, frame) ==
    IF Room(s)
    THEN /\ out' = [out EXCEPT ![s] = Append(@, frame)]
         /\ UNCHANGED cancelled
    ELSE /\ cancelled' = [cancelled EXCEPT ![s] = TRUE]
         /\ UNCHANGED out

\* what the frame tells its reader, once it is in the channel
Tells(s, pairs) == IF Room(s) THEN [known EXCEPT ![s] = @ \cup pairs] ELSE known

-----------------------------------------------------------------------------
(* The handler a session runs *)

NoRequest ==
    [type |-> "none", key |-> Null, field |-> Null, put |-> Null, since |-> 0]
Idle == [pc |-> "idle", req |-> NoRequest, stream |-> 0, value |-> Null,
         version |-> 0, ops |-> NoOps, todo |-> <<>>, targets |-> <<>>,
         slow |-> {}]

ServerInit ==
    /\ global_version = 0
    /\ entries = [k \in Keys |-> Absent] /\ log = [k \in Keys |-> <<>>]
    /\ subscriptions = [k \in Keys |-> <<>>]
    /\ phase = [s \in Sessions |-> "none"]
    /\ watches = [s \in Sessions |-> {}] /\ presence = [s \in Sessions |-> <<>>]
    /\ next_stream = [s \in Sessions |-> 10]
    /\ at = [s \in Sessions |-> Idle]
    /\ inbox = [s \in Sessions |-> <<>>]
    /\ peer_gone = [s \in Sessions |-> FALSE]
    /\ out = [s \in Sessions |-> <<>>]
    /\ cancelled = [s \in Sessions |-> FALSE]
    /\ writer = [s \in Sessions |-> "run"]
    /\ changes = [k \in Keys |-> {}]
    /\ known = [s \in Sessions |-> {}] /\ raced = [s \in Sessions |-> {}]
    /\ loose = [k \in Keys |-> {}]

At(s, pc) == at[s].pc = pc
Goto(s, pc) == at' = [at EXCEPT ![s].pc = pc]
Key(s) == at[s].req.key
Cleaning(s) == phase[s] = "cleanup"

\* The session's current stream for a key: any of them, as HashMap::find picks.
StreamsOf(s, k) == {w[1] : w \in {x \in watches[s] : x[2] = k}}

\* handle_frame dispatches a frame; the first shared access of its handler
FirstAccess(r) ==
    CASE r.type \in {"WATCH", "RESUME"} -> "subscribe"
      [] r.type = "set" -> "version"
      [] r.type \in {"patch", "set_in", "presence"} -> "read"
      [] r.type = "delete" -> "remove"

Receive(s) ==
    /\ phase[s] = "open" /\ At(s, "idle") /\ inbox[s] # <<>>
    /\ Head(inbox[s]).type # "UNWATCH"
    /\ at' = [at EXCEPT ![s] = [Idle EXCEPT !.req = Head(inbox[s]),
                                            !.pc = FirstAccess(Head(inbox[s]))]]
    /\ inbox' = [inbox EXCEPT ![s] = Tail(@)]
    /\ UNCHANGED <<storeVars, subscriptions, phase, watches, presence,
                   next_stream, peer_gone, channelVars, writer, history>>

\* The rate limiter, the ACL, the schema or the argument checks refuse it.
Reject(s) ==
    /\ phase[s] = "open" /\ At(s, "idle") /\ inbox[s] # <<>>
    /\ Head(inbox[s]).type # "UNWATCH"
    /\ inbox' = [inbox EXCEPT ![s] = Tail(@)]
    /\ Send(s, ErrorFrame)
    /\ UNCHANGED <<storeVars, subscriptions, phase, watches, presence,
                   next_stream, at, peer_gone, writer, history>>

-----------------------------------------------------------------------------
(* WATCH, RESUME, UNWATCH *)

\* allocate_stream, add_watch and FanoutBus::subscribe
Subscribe(s) ==
    /\ At(s, "subscribe")
    /\ watches' = [watches EXCEPT ![s] = @ \cup {<<next_stream[s], Key(s)>>}]
    /\ subscriptions' = [subscriptions EXCEPT ![Key(s)] =
           Append(@, [session |-> s, stream |-> next_stream[s]])]
    /\ next_stream' = [next_stream EXCEPT ![s] = @ + 1]
    /\ at' = [at EXCEPT ![s].stream = next_stream[s],
                        ![s].pc = IF at[s].req.since > 0 THEN "missed" ELSE "get"]
    /\ UNCHANGED <<storeVars, phase, presence, inbox, peer_gone, channelVars,
                   writer, history>>

\* handle_resume: read the deltas the client missed ...
Missed(s) ==
    /\ At(s, "missed")
    /\ at' = [at EXCEPT ![s].todo = DeltasSince(Key(s), at[s].req.since),
                        ![s].pc = "replay"]
    /\ UNCHANGED <<storeVars, subscriptions, phase, watches, presence,
                   next_stream, inbox, peer_gone, channelVars, writer, history>>

\* ... send them one by one ...
Replay(s) ==
    /\ At(s, "replay")
    /\ \/ /\ at[s].todo # <<>>
          /\ Send(s, DeltaFrame(at[s].stream, Head(at[s].todo)))
          /\ known' = Tells(s, {<<at[s].stream, Head(at[s].todo).version>>})
          /\ at' = [at EXCEPT ![s].todo = Tail(@)]
       \/ /\ at[s].todo = <<>>
          /\ Goto(s, "get")
          /\ UNCHANGED <<channelVars, known>>
    /\ UNCHANGED <<storeVars, subscriptions, phase, watches, presence,
                   next_stream, inbox, peer_gone, writer, changes,
                   raced, loose>>

\* ... and conclude as WATCH does: read the entry ...
Get(s) ==
    /\ At(s, "get")
    /\ at' = [at EXCEPT ![s].value = entries[Key(s)].value,
                        ![s].version = entries[Key(s)].version,
                        ![s].pc = "init"]
    /\ known' = [known EXCEPT ![s] = @ \cup
                    {<<at[s].stream, v>> : v \in changes[Key(s)]}]
    /\ UNCHANGED <<storeVars, subscriptions, phase, watches, presence,
                   next_stream, inbox, peer_gone, channelVars, writer, changes,
                   raced, loose>>

\* ... and send STATE_INIT
SendInit(s) ==
    /\ At(s, "init")
    /\ Send(s, StateInit(at[s].stream, Key(s), at[s]))
    /\ at' = [at EXCEPT ![s] = Idle]
    /\ UNCHANGED <<storeVars, subscriptions, phase, watches, presence,
                   next_stream, inbox, peer_gone, writer, history>>

OfOthers(subs, s) == Omit(subs, {x \in Range(subs) : x.session = s})

UnwatchKeepsSubscription(s) ==
    /\ phase[s] = "open" /\ At(s, "idle") /\ inbox[s] # <<>>
    /\ Head(inbox[s]).type = "UNWATCH"
    /\ watches' = [watches EXCEPT ![s] = {w \in @ : w[2] # Head(inbox[s]).key}]
    /\ inbox' = [inbox EXCEPT ![s] = Tail(@)]
    /\ UNCHANGED <<storeVars, subscriptions, phase, presence, next_stream, at,
                   peer_gone, channelVars, writer, history>>

\* handle_unwatch: one watch goes, and every subscription of the session
Unwatch(s) ==
    /\ phase[s] = "open" /\ At(s, "idle") /\ inbox[s] # <<>>
    /\ Head(inbox[s]).type = "UNWATCH"
    /\ LET k == Head(inbox[s]).key
       IN \/ \E st \in StreamsOf(s, k) :
                /\ watches' = [watches EXCEPT ![s] = @ \ {<<st, k>>}]
                /\ subscriptions' = [subscriptions EXCEPT ![k] = OfOthers(@, s)]
          \/ /\ StreamsOf(s, k) = {}
             /\ UNCHANGED <<watches, subscriptions>>
    /\ inbox' = [inbox EXCEPT ![s] = Tail(@)]
    /\ UNCHANGED <<storeVars, phase, presence, next_stream, at, peer_gone,
                   channelVars, writer, history>>

-----------------------------------------------------------------------------
(* CALL: StateStore::apply and delete *)

\* state.patch, state.set_in and state.presence read the current value first
Read(s) ==
    /\ At(s, "read")
    /\ at' = [at EXCEPT ![s].req.put = Merge(entries[Key(s)].value, @),
                        ![s].pc = "version"]
    /\ UNCHANGED <<storeVars, subscriptions, phase, watches, presence,
                   next_stream, inbox, peer_gone, channelVars, writer, history>>

Version(s) ==
    /\ At(s, "version")
    /\ global_version' = global_version + 1
    /\ at' = [at EXCEPT ![s].version = global_version + 1, ![s].pc = "diff"]
    /\ UNCHANGED <<entries, log, subscriptions, phase, watches, presence,
                   next_stream, inbox, peer_gone, channelVars, writer, history>>

ComputeDiff(s) ==
    /\ At(s, "diff")
    /\ LET old == entries[Key(s)]
           new == at[s].req.put
       IN at' = [at EXCEPT
                    ![s].ops = IF old = Absent THEN RootOps(new)
                               ELSE Diff(old.value, new),
                    ![s].pc = "insert"]
    /\ UNCHANGED <<storeVars, subscriptions, phase, watches, presence,
                   next_stream, inbox, peer_gone, channelVars, writer, history>>

Members(v) == IF v = Null THEN {} ELSE DOMAIN v

\* What Insert leaves in the entry without a registration: members it puts onto
\* an entry that lacks them, as a plain write or from an older read, and those
\* that were so before.
Unregistered(s) ==
    {f \in Members(at[s].req.put) :
        /\ f \in Members(entries[Key(s)].value) => f \in loose[Key(s)]
        /\ ~(at[s].req.type = "presence" /\ at[s].req.field = f)}

\* an unchanged value is stored with its new version and nothing is sent
Insert(s) ==
    /\ At(s, "insert")
    /\ entries' = [entries EXCEPT ![Key(s)] =
                      [version |-> at[s].version, value |-> at[s].req.put]]
    /\ changes' = IF at[s].ops = NoOps THEN changes
                  ELSE [changes EXCEPT ![Key(s)] = @ \cup {at[s].version}]
    /\ loose' = [loose EXCEPT ![Key(s)] = Unregistered(s)]
    /\ Goto(s, IF at[s].ops # NoOps THEN "log"
               ELSE IF Cleaning(s) THEN "next" ELSE "result")
    /\ UNCHANGED <<global_version, log, subscriptions, phase, watches, presence,
                   next_stream, inbox, peer_gone, channelVars, writer, known,
                   raced>>

\* delete of an absent key is answered with version 0
RemoveEntry(s) ==
    /\ At(s, "remove")
    /\ entries' = [entries EXCEPT ![Key(s)] = Absent]
    /\ loose' = [loose EXCEPT ![Key(s)] = {}]
    /\ Goto(s, IF entries[Key(s)] = Absent THEN "result" ELSE "bump")
    /\ UNCHANGED <<global_version, log, subscriptions, phase, watches, presence,
                   next_stream, inbox, peer_gone, channelVars, writer, changes,
                   known, raced>>

Bump(s) ==
    /\ At(s, "bump")
    /\ global_version' = global_version + 1
    /\ changes' = [changes EXCEPT ![Key(s)] = @ \cup {global_version + 1}]
    /\ at' = [at EXCEPT ![s].version = global_version + 1,
                        ![s].ops = RemoveOps, ![s].pc = "log"]
    /\ UNCHANGED <<entries, log, subscriptions, phase, watches, presence,
                   next_stream, inbox, peer_gone, channelVars, writer, known,
                   raced, loose>>

TheDelta(s) == [version |-> at[s].version, ops |-> at[s].ops]

LogDelta(s) ==
    /\ At(s, "log")
    /\ log' = [log EXCEPT ![Key(s)] = Logged(@, TheDelta(s))]
    /\ Goto(s, "snapshot")
    /\ UNCHANGED <<global_version, entries, subscriptions, phase, watches,
                   presence, next_stream, inbox, peer_gone, channelVars, writer,
                   history>>

-----------------------------------------------------------------------------
(* CALL: fan-out and answer *)

SnapshotReady(s) ==
    /\ At(s, "snapshot")
    /\ LET subs == subscriptions[Key(s)]
       IN at' = [at EXCEPT ![s].targets = Omit(subs, {x \in Range(subs) :
                              x.session = s \/ at[x.session].stream = x.stream}),
                           ![s].slow = {}, ![s].pc = "send"]
    /\ UNCHANGED <<storeVars, subscriptions, phase, watches, presence,
                   next_stream, inbox, peer_gone, channelVars, writer, history>>

\* broadcast_encoded copies the subscribers, all but the caller's own ...
Snapshot(s) ==
    /\ At(s, "snapshot")
    /\ LET subs == subscriptions[Key(s)]
       IN at' = [at EXCEPT ![s].targets = IF Cleaning(s) THEN subs
                                          ELSE OfOthers(subs, s),
                           ![s].slow = {}, ![s].pc = "send"]
    /\ UNCHANGED <<storeVars, subscriptions, phase, watches, presence,
                   next_stream, inbox, peer_gone, channelVars, writer, history>>

\* ... sends to each of them ...
SendDelta(s) ==
    /\ At(s, "send") /\ at[s].targets # <<>>
    /\ LET x == Head(at[s].targets)
       IN /\ Send(x.session, DeltaFrame(x.stream, TheDelta(s)))
          /\ known' = Tells(x.session, {<<x.stream, at[s].version>>})
          /\ raced' = IF At(x.session, "init") /\ at[x.session].stream = x.stream
                      THEN [raced EXCEPT ![x.session] = @ \cup {x.stream}]
                      ELSE raced
          /\ at' = [at EXCEPT ![s].targets = Tail(@),
                              ![s].slow = IF Room(x.session) THEN @
                                          ELSE @ \cup {x.session}]
    /\ UNCHANGED <<storeVars, subscriptions, phase, watches, presence,
                   next_stream, inbox, peer_gone, writer, changes, loose>>

EvictSkipsDirect(s) ==
    /\ At(s, "send") /\ at[s].targets = <<>>
    /\ Goto(s, IF Cleaning(s) THEN "next" ELSE "result")
    /\ UNCHANGED <<storeVars, subscriptions, phase, watches, presence,
                   next_stream, inbox, peer_gone, channelVars, writer, history>>

\* ... and drops the slow ones from the key's list
Evict(s) ==
    /\ At(s, "send") /\ at[s].targets = <<>>
    /\ subscriptions' = [subscriptions EXCEPT ![Key(s)] =
           Omit(@, {x \in Range(@) : x.session \in at[s].slow})]
    /\ Goto(s, IF Cleaning(s) THEN "next" ELSE "direct")
    /\ UNCHANGED <<storeVars, phase, watches, presence, next_stream, inbox,
                   peer_gone, channelVars, writer, history>>

\* the caller's own copy, on one of its streams for the key, whichever
\* HashMap::find meets first
Direct(s) ==
    /\ At(s, "direct")
    /\ \/ \E st \in StreamsOf(s, Key(s)) :
             /\ Send(s, DeltaFrame(st, TheDelta(s)))
             /\ known' = Tells(s, {<<st, at[s].version>>, <<0, at[s].version>>})
       \/ /\ StreamsOf(s, Key(s)) = {}
          /\ UNCHANGED <<channelVars, known>>
    /\ Goto(s, "result")
    /\ UNCHANGED <<storeVars, subscriptions, phase, watches, presence,
                   next_stream, inbox, peer_gone, writer, changes,
                   raced, loose>>

\* add_presence, without duplicates, and RESULT
Result(s) ==
    /\ At(s, "result")
    /\ presence' =
          LET own == <<Key(s), at[s].req.field>>
          IN IF at[s].req.type = "presence" /\ own \notin Range(presence[s])
             THEN [presence EXCEPT ![s] = Append(@, own)] ELSE presence
    /\ Send(s, ResultFrame(at[s].version))
    /\ at' = [at EXCEPT ![s] = Idle]
    /\ UNCHANGED <<storeVars, subscriptions, phase, watches, next_stream, inbox,
                   peer_gone, writer, changes, known, raced, loose>>

-----------------------------------------------------------------------------
(* The end of a session *)

LeaveUncleaned(s) ==
    /\ phase[s] = "open" /\ At(s, "idle")
    /\ phase' = [phase EXCEPT ![s] = "cleanup"]
    /\ at' = [at EXCEPT ![s] = [Idle EXCEPT !.pc = "next"]]
    /\ inbox' = [inbox EXCEPT ![s] = <<>>]
    /\ UNCHANGED <<storeVars, subscriptions, watches, presence, next_stream,
                   peer_gone, writer, history>>

Leave(s) ==
    /\ phase[s] = "open" /\ At(s, "idle")
    /\ phase' = [phase EXCEPT ![s] = "cleanup"]
    /\ at' = [at EXCEPT ![s] = [Idle EXCEPT !.pc = "next", !.todo = presence[s]]]
    /\ inbox' = [inbox EXCEPT ![s] = <<>>]
    /\ UNCHANGED <<storeVars, subscriptions, watches, presence, next_stream,
                   peer_gone, writer, history>>

\* the event loop breaks: the peer is gone, or the session is too slow
Exit(s) ==
    /\ peer_gone[s] \/ cancelled[s]
    /\ Leave(s)
    /\ UNCHANGED channelVars

\* ... or the token expires, after a last frame, or a ping is not answered
Expire(s) ==
    /\ Leave(s)
    /\ Send(s, ErrorFrame) \/ UNCHANGED channelVars

\* presence cleanup reads the next key, and skips one that is gone
CleanupNext(s) ==
    /\ At(s, "next") /\ at[s].todo # <<>>
    /\ LET k == Head(at[s].todo)[1]
           f == Head(at[s].todo)[2]
       IN at' = [at EXCEPT ![s].todo = Tail(@),
                           ![s].req = [Idle.req EXCEPT !.type = "cleanup", !.key = k,
                                          !.put = Without(entries[k].value, {f})],
                           ![s].pc = IF entries[k] = Absent THEN "next"
                                     ELSE "version"]
    /\ UNCHANGED <<storeVars, subscriptions, phase, watches, presence,
                   next_stream, inbox, peer_gone, channelVars, writer, history>>

RemoveSessionLeaks(s) ==
    /\ At(s, "next") /\ at[s].todo = <<>>
    /\ phase' = [phase EXCEPT ![s] = "closed"]
    /\ at' = [at EXCEPT ![s] = Idle]
    /\ UNCHANGED <<storeVars, subscriptions, watches, presence, next_stream,
                   inbox, peer_gone, channelVars, writer, history>>

\* FanoutBus::remove_session ends it.  It visits the keys one after the other;
\* the session adds no subscription any more, so the order is not visible.
RemoveSession(s) ==
    /\ At(s, "next") /\ at[s].todo = <<>>
    /\ subscriptions' = [k \in Keys |-> OfOthers(subscriptions[k], s)]
    /\ phase' = [phase EXCEPT ![s] = "closed"]
    /\ at' = [at EXCEPT ![s] = Idle]
    /\ UNCHANGED <<storeVars, watches, presence, next_stream, inbox, peer_gone,
                   channelVars, writer, history>>

\* write_task: cancelled, the socket fails, or nothing is left to send
StopWriter(s) ==
    /\ phase[s] # "none" /\ writer[s] = "run"
    /\ cancelled[s] \/ peer_gone[s] \/ (phase[s] = "closed" /\ out[s] = <<>>)
    /\ writer' = [writer EXCEPT ![s] = "stopped"]
    /\ out' = [out EXCEPT ![s] = <<>>]
    /\ UNCHANGED <<storeVars, subscriptions, sessionVars, peer_gone, cancelled,
                   history>>

Handler(s) ==
    \/ Receive(s) \/ Unwatch(s)
    \/ Subscribe(s) \/ Missed(s) \/ Replay(s) \/ Get(s) \/ SendInit(s)
    \/ Read(s) \/ Version(s) \/ ComputeDiff(s) \/ Insert(s) \/ RemoveEntry(s)
    \/ Bump(s) \/ LogDelta(s)
    \/ Snapshot(s) \/ SendDelta(s) \/ Evict(s) \/ Direct(s) \/ Result(s)
    \/ CleanupNext(s) \/ RemoveSession(s)
=============================================================================
