------------------------------ MODULE Cluster ------------------------------
(***************************************************************************)
(* Rust servers that share a Redis (cluster.rs, the start-up in main.rs,   *)
(* StateStore::load_entries).                                              *)
(*                                                                         *)
(* A mutation changes the node's own store, reaches the node's own         *)
(* watchers and spawns a task that stores the entry in the Redis hash and  *)
(* then publishes the delta; nobody waits for the task and an error of     *)
(* either command is only logged.  The subscriber of a peer hands the      *)
(* delta to the peer's watchers and leaves the peer's store as it is.  How *)
(* the steps of one apply interleave on one node is the subject of         *)
(* StateStore and WatchSync: here a mutation is one step.                  *)
(*                                                                         *)
(* A value is opaque and Null stands for the null a client shows for a key *)
(* that does not exist.  An entry that does not exist has version 0.       *)
(***************************************************************************)
EXTENDS Naturals, Sequences, FiniteSets, Functions

CONSTANTS Nodes, Keys, Values, Null,
          Unwatched,      \* the view of a node without a watcher of the key
          Persistent,     \* the nodes that have a log directory
          MaxMutations,   \* bound: mutations
          MaxFaults,      \* bound: failed Redis commands, lost connections
          MaxCrashes      \* bound: crashes of a node

ASSUME ClusterAssumption ==
    /\ MaxMutations \in Nat /\ MaxFaults \in Nat /\ MaxCrashes \in Nat
    /\ Null \notin Values /\ Unwatched \notin Values \cup {Null}
    /\ Persistent \subseteq Nodes

VARIABLES phase,          \* node -> "down", "load" or "run"
          node_id,        \* node -> the uuid of its connection to Redis
          store,          \* node -> key -> entry of the StateStore
          global_version, \* node -> its version counter
          disk, top,      \* node -> the entries, the highest version logged
          entries,        \* node -> what load_state returned, still to load
          max_version,    \* node -> the highest version loaded so far
          cluster,        \* node -> is server.cluster set?
          redis,          \* key -> entry of the hash sodp:state
          tasks,          \* the sync and sync_delete tasks that run
          subscribed,     \* node -> is its Pub/Sub connection up?
          channel,        \* node -> messages on that connection
          view,           \* node -> key -> what a watcher of the key shows
          last,           \* history: key -> stamp and value of the last
                          \* mutation, stamp of the last one that reached Redis
          missed,         \* history: the keys whose Redis entry may be old
          astray,         \* history: the watchers that may show an old value
          delivered,      \* history: node -> stamps given to its watchers
          stamp, faults, crashes

localVars == <<store, global_version, disk, top>>
loadVars == <<phase, node_id, entries, max_version, cluster>>
subVars == <<subscribed, channel>>
histVars == <<last, missed, astray, delivered>>
countVars == <<stamp, faults, crashes>>
vars == <<localVars, loadVars, subVars, redis, tasks, view, histVars, countVars>>

NoEntry == [version |-> 0, value |-> Null]
NoEntries == [k \in Keys |-> NoEntry]

Init ==
    /\ phase = [n \in Nodes |-> "run"] /\ node_id = [n \in Nodes |-> <<n, 0>>]
    /\ store = [n \in Nodes |-> NoEntries] /\ disk = store
    /\ global_version = [n \in Nodes |-> 0] /\ top = global_version
    /\ entries = [n \in Nodes |-> {}] /\ max_version = global_version
    /\ cluster = [n \in Nodes |-> TRUE]
    /\ redis = NoEntries /\ tasks = {}
    /\ subscribed = [n \in Nodes |-> TRUE] /\ channel = [n \in Nodes |-> <<>>]
    /\ view = [n \in Nodes |-> [k \in Keys |-> Unwatched]]
    /\ last = [k \in Keys |-> [stamp |-> 0, value |-> Null, stored |-> 0]]
    /\ missed = {} /\ astray = {} /\ delivered = [n \in Nodes |-> <<>>]
    /\ stamp = 0 /\ faults = 0 /\ crashes = 0

Others(n) == Nodes \ {n}

\* Deltas of k from elsewhere that are still on their way to n.
OnTheWay(n, k) ==
    \/ \E t \in tasks : t.key = k /\ t.sender # node_id[n]
    \/ \E i \in DOMAIN channel[n] :
          channel[n][i].key = k /\ channel[n][i].sender # node_id[n]

-----------------------------------------------------------------------------
(* Clients of a node *)

\* WATCH: the watcher shows the local value.  History: it may come to show an
\* old one if the last mutation was made elsewhere or is still on its way.
Watch(n, k) ==
    /\ phase[n] = "run" /\ view[n][k] = Unwatched
    /\ view' = [view EXCEPT ![n][k] = store[n][k].value]
    /\ astray' = IF store[n][k].value # last[k].value \/ OnTheWay(n, k)
                 THEN astray \cup {<<n, k>>} ELSE astray \ {<<n, k>>}
    /\ UNCHANGED <<localVars, loadVars, subVars, redis, tasks, last, missed,
                   delivered, countVars>>

\* FanoutBus::broadcast_encoded on node n
Broadcast(n, k, v, s) ==
    /\ view' = [view EXCEPT ![n][k] = IF @ = Unwatched THEN @ ELSE v]
    /\ delivered' = [delivered EXCEPT ![n] = Append(@, s)]

\* The store of n after a mutation of k, and its log.
Mutated(n, k, e) ==
    /\ global_version' = [global_version EXCEPT ![n] = @ + 1]
    /\ store' = [store EXCEPT ![n][k] = e]

Logged(n, k, v) ==
    /\ disk' = IF n \notin Persistent THEN disk
               ELSE [disk EXCEPT ![n][k] =
                        [version |-> global_version[n] + 1, value |-> v]]
    /\ top' = IF n \notin Persistent THEN top
              ELSE [top EXCEPT ![n] = global_version[n] + 1]

SyncTask(n, k, op, v) ==
    [sender |-> node_id[n], stamp |-> stamp + 1, key |-> k, op |-> op,
     version |-> global_version[n] + 1, value |-> v, at |-> "store",
     orphan |-> FALSE]

\* A mutation with a delta: log, broadcast, cluster.sync.  History: the node
\* diffs against its own value, so a mutation made elsewhere that it does not
\* have, or that is still on its way, sets every watcher astray.
Change(n, k, op, v) ==
    LET blind == store[n][k].value # last[k].value \/ OnTheWay(n, k)
    IN /\ Logged(n, k, v)
       /\ Broadcast(n, k, v, stamp + 1)
       /\ tasks' = IF cluster[n] THEN tasks \cup {SyncTask(n, k, op, v)} ELSE tasks
       /\ missed' = IF cluster[n] THEN missed ELSE missed \cup {k}
       /\ astray' = astray \cup
             (IF blind THEN Nodes \X {k}
              ELSE IF cluster[n] THEN {} ELSE Others(n) \X {k})

\* Only a delta is logged, broadcast and synced.  History: a write that equals
\* the old value of its node but not the last one goes unseen.
SetUnchanged(n, k, v) ==
    LET unseen == v # last[k].value
    IN /\ missed' = IF unseen THEN missed \cup {k} ELSE missed
       /\ astray' = IF unseen THEN astray \cup Nodes \X {k} ELSE astray
       /\ UNCHANGED <<disk, top, view, delivered, tasks>>

\* state.set, state.patch, state.set_in, state.presence and its clean-up
Set(n, k, v) ==
    /\ phase[n] = "run" /\ stamp < MaxMutations
    /\ Mutated(n, k, [version |-> global_version[n] + 1, value |-> v])
    /\ IF store[n][k].value = v THEN SetUnchanged(n, k, v)
       ELSE Change(n, k, "set", v)
    /\ last' = [last EXCEPT ![k].stamp = stamp + 1, ![k].value = v]
    /\ stamp' = stamp + 1
    /\ UNCHANGED <<loadVars, subVars, redis, faults, crashes>>

\* state.delete
Delete(n, k) ==
    /\ phase[n] = "run" /\ stamp < MaxMutations
    /\ store[n][k].version > 0
    /\ Mutated(n, k, NoEntry)
    /\ Change(n, k, "delete", Null)
    /\ last' = [last EXCEPT ![k].stamp = stamp + 1, ![k].value = Null]
    /\ stamp' = stamp + 1
    /\ UNCHANGED <<loadVars, subVars, redis, faults, crashes>>

-----------------------------------------------------------------------------
(* The task of RedisCluster::sync and ::sync_delete *)

\* The command of t ran; the task goes on to PUBLISH, unless its node is gone.
Onward(t) ==
    tasks' = (tasks \ {t}) \cup
             (IF t.orphan THEN {} ELSE {[t EXCEPT !.at = "publish"]})

StoreOnlySets(t) ==
    /\ t.at = "store"
    /\ redis' = IF t.op = "delete" THEN redis
                ELSE [redis EXCEPT ![t.key] =
                         [version |-> t.version, value |-> t.value]]
    /\ last' = [last EXCEPT ![t.key].stored = IF t.stamp > @ THEN t.stamp ELSE @]
    /\ missed' = IF t.stamp < last[t.key].stored THEN missed \cup {t.key}
                 ELSE IF t.stamp = last[t.key].stamp THEN missed \ {t.key}
                 ELSE missed
    /\ Onward(t)
    /\ UNCHANGED <<localVars, loadVars, subVars, view, astray, delivered,
                   countVars>>

\* HSET or HDEL.  History: an older mutation may overwrite a newer one.
StoreEntry(t) ==
    /\ t.at = "store"
    /\ redis' = [redis EXCEPT ![t.key] =
          IF t.op = "set" THEN [version |-> t.version, value |-> t.value]
          ELSE NoEntry]
    /\ last' = [last EXCEPT ![t.key].stored = IF t.stamp > @ THEN t.stamp ELSE @]
    /\ missed' = IF t.stamp < last[t.key].stored THEN missed \cup {t.key}
                 ELSE IF t.stamp = last[t.key].stamp THEN missed \ {t.key}
                 ELSE missed
    /\ Onward(t)
    /\ UNCHANGED <<localVars, loadVars, subVars, view, astray, delivered,
                   countVars>>

StoreFailureReturns(t) ==
    /\ t.at = "store" /\ faults < MaxFaults
    /\ faults' = faults + 1
    /\ missed' = missed \cup {t.key}
    /\ tasks' = tasks \ {t}
    /\ UNCHANGED <<localVars, loadVars, subVars, redis, view, last, astray,
                   delivered, stamp, crashes>>

StoreFails(t) ==
    /\ t.at = "store" /\ faults < MaxFaults
    /\ faults' = faults + 1
    /\ missed' = missed \cup {t.key}
    /\ Onward(t)
    /\ UNCHANGED <<localVars, loadVars, subVars, redis, view, last, astray,
                   delivered, stamp, crashes>>

\* the nodes for which t is not a message of their own
Elsewhere(t) == {n \in Nodes : node_id[n] # t.sender}

\* PUBLISH to every connected subscriber.  History: astray are the watchers
\* of a node that is not subscribed, and all of them when an earlier delta of
\* the sender is still to come.
Publish(t) ==
    LET overtakes == \E u \in tasks : u.sender = t.sender /\ u.key = t.key
                                      /\ u.stamp < t.stamp
        deaf == {n \in Elsewhere(t) : overtakes \/ ~subscribed[n]}
    IN /\ t.at = "publish"
       /\ channel' = [n \in Nodes |->
             IF subscribed[n]
             THEN Append(channel[n], [sender |-> t.sender, key |-> t.key,
                                      value |-> t.value, stamp |-> t.stamp])
             ELSE channel[n]]
       /\ astray' = astray \cup deaf \X {t.key}
       /\ tasks' = tasks \ {t}
       /\ UNCHANGED <<localVars, loadVars, subscribed, redis, view, last, missed,
                      delivered, countVars>>

PublishFails(t) ==
    /\ t.at = "publish" /\ faults < MaxFaults
    /\ faults' = faults + 1
    /\ astray' = astray \cup Elsewhere(t) \X {t.key}
    /\ tasks' = tasks \ {t}
    /\ UNCHANGED <<localVars, loadVars, subVars, redis, view, last, missed,
                   delivered, stamp, crashes>>

SyncStep(t) == StoreEntry(t) \/ Publish(t)
SyncFault(t) == StoreFails(t) \/ PublishFails(t)

-----------------------------------------------------------------------------
(* The subscriber *)

\* run_subscriber_loop, again 2 seconds after it returned
Subscribe(n) ==
    /\ phase[n] = "run" /\ cluster[n] /\ ~subscribed[n]
    /\ subscribed' = [subscribed EXCEPT ![n] = TRUE]
    /\ UNCHANGED <<localVars, loadVars, channel, redis, tasks, view, histVars,
                   countVars>>

\* stream.next() = None: what was on the connection is gone
StreamEnds(n) ==
    /\ subscribed[n] /\ faults < MaxFaults
    /\ faults' = faults + 1
    /\ subscribed' = [subscribed EXCEPT ![n] = FALSE]
    /\ channel' = [channel EXCEPT ![n] = <<>>]
    /\ astray' = astray \cup {<<n, channel[n][i].key>> : i \in DOMAIN channel[n]}
    /\ UNCHANGED <<localVars, loadVars, redis, tasks, view, last, missed,
                   delivered, stamp, crashes>>

HandleOwnToo(n) ==
    /\ channel[n] # <<>>
    /\ channel' = [channel EXCEPT ![n] = Tail(@)]
    /\ LET m == Head(channel[n]) IN Broadcast(n, m.key, m.value, m.stamp)
    /\ UNCHANGED <<localVars, loadVars, subscribed, redis, tasks, last, missed,
                   astray, countVars>>

\* handle_pubsub_message: the node's own messages were delivered already
HandlePubsubMessage(n) ==
    /\ channel[n] # <<>>
    /\ channel' = [channel EXCEPT ![n] = Tail(@)]
    /\ LET m == Head(channel[n])
       IN IF m.sender = node_id[n] THEN UNCHANGED <<view, delivered>>
          ELSE Broadcast(n, m.key, m.value, m.stamp)
    /\ UNCHANGED <<localVars, loadVars, subscribed, redis, tasks, last, missed,
                   astray, countVars>>

-----------------------------------------------------------------------------
(* A node stops and starts again *)

\* A task is gone with its node, but the command it is waiting for may be on
\* its way to Redis.
Crash(n) ==
    /\ phase[n] # "down" /\ crashes < MaxCrashes
    /\ crashes' = crashes + 1
    /\ phase' = [phase EXCEPT ![n] = "down"]
    /\ store' = [store EXCEPT ![n] = NoEntries]
    /\ global_version' = [global_version EXCEPT ![n] = 0]
    /\ entries' = [entries EXCEPT ![n] = {}]
    /\ max_version' = [max_version EXCEPT ![n] = 0]
    /\ cluster' = [cluster EXCEPT ![n] = FALSE]
    /\ subscribed' = [subscribed EXCEPT ![n] = FALSE]
    /\ channel' = [channel EXCEPT ![n] = <<>>]
    /\ view' = [view EXCEPT ![n] = [k \in Keys |-> Unwatched]]
    /\ delivered' = [delivered EXCEPT ![n] = <<>>]
    /\ LET mine == {t \in tasks : t.sender = node_id[n] /\ ~t.orphan}
       IN \E sent \in SUBSET mine :
            /\ tasks' = (tasks \ mine) \cup {[t EXCEPT !.orphan = TRUE] : t \in sent}
            /\ missed' = missed \cup
                  {t.key : t \in {u \in mine \ sent : u.at = "store"}}
            /\ astray' = astray \cup Nodes \X
                  {t.key : t \in {u \in mine : u \notin sent \/ u.at = "store"}}
    /\ UNCHANGED <<node_id, disk, top, redis, last, stamp, faults>>

\* StateStore::open, then RedisCluster::connect and load_state
Start(n) ==
    /\ phase[n] = "down"
    /\ store' = [store EXCEPT ![n] = disk[n]]
    /\ global_version' = [global_version EXCEPT ![n] = top[n]]
    /\ phase' = [phase EXCEPT ![n] = "load"]
    /\ node_id' = [node_id EXCEPT ![n] = <<n, crashes>>]
    /\ entries' = [entries EXCEPT ![n] =
          {[key |-> k, entry |-> redis[k]] : k \in {j \in Keys : redis[j].version > 0}}]
    /\ UNCHANGED <<disk, top, max_version, cluster, subVars, redis, tasks, view,
                   histVars, countVars>>

\* connect or load_state fails: the server runs on without Redis
StartAlone(n) ==
    /\ phase[n] = "down" /\ faults < MaxFaults
    /\ faults' = faults + 1
    /\ store' = [store EXCEPT ![n] = disk[n]]
    /\ global_version' = [global_version EXCEPT ![n] = top[n]]
    /\ phase' = [phase EXCEPT ![n] = "run"]
    /\ UNCHANGED <<disk, top, node_id, entries, max_version, cluster, subVars,
                   redis, tasks, view, histVars, stamp, crashes>>

LoadAnyEntry(n, e) ==
    /\ phase[n] = "load" /\ e \in entries[n]
    /\ entries' = [entries EXCEPT ![n] = @ \ {e}]
    /\ store' = [store EXCEPT ![n][e.key] = e.entry]
    /\ UNCHANGED <<global_version, disk, top, phase, node_id, max_version, cluster,
                   subVars, redis, tasks, view, histVars, countVars>>

\* load_entries: an entry wins if its version is higher than the local one
LoadEntry(n, e) ==
    /\ phase[n] = "load" /\ e \in entries[n]
    /\ entries' = [entries EXCEPT ![n] = @ \ {e}]
    /\ max_version' = [max_version EXCEPT ![n] =
          IF e.entry.version > @ THEN e.entry.version ELSE @]
    /\ store' = IF e.entry.version > store[n][e.key].version
                THEN [store EXCEPT ![n][e.key] = e.entry] ELSE store
    /\ UNCHANGED <<global_version, disk, top, phase, node_id, cluster, subVars,
                   redis, tasks, view, histVars, countVars>>

\* The counter moves up to max_version; spawn_subscriber; the server listens.
Loaded(n) ==
    /\ phase[n] = "load" /\ entries[n] = {}
    /\ global_version' = [global_version EXCEPT ![n] =
          IF max_version[n] > @ THEN max_version[n] ELSE @]
    /\ cluster' = [cluster EXCEPT ![n] = TRUE]
    /\ phase' = [phase EXCEPT ![n] = "run"]
    /\ UNCHANGED <<store, disk, top, node_id, entries, max_version, subVars, redis,
                   tasks, view, histVars, countVars>>

-----------------------------------------------------------------------------
Next ==
    \/ \E n \in Nodes :
          \/ \E k \in Keys : Watch(n, k) \/ Delete(n, k)
                             \/ \E v \in Values : Set(n, k, v)
          \/ Subscribe(n) \/ StreamEnds(n) \/ HandlePubsubMessage(n)
          \/ Crash(n) \/ Start(n) \/ StartAlone(n) \/ Loaded(n)
          \/ \E e \in entries[n] : LoadEntry(n, e)
    \/ \E t \in tasks : SyncStep(t) \/ SyncFault(t)

Spec == Init /\ [][Next]_vars

\* Tasks run and Redis answers; a node that crashed may stay down.
FairSpec ==
    /\ Spec
    /\ WF_vars(\E t \in tasks : SyncStep(t))
    /\ \A n \in Nodes : WF_vars(HandlePubsubMessage(n))

-----------------------------------------------------------------------------
(* Properties *)

\* Every entry of a node has a version its counter has passed, so the next
\* mutation has a version above the one it replaces: also after a restart from
\* a log and a Redis of different ages (state.rs:257-261).
VersionsBelowCounter ==
    \A n \in Nodes, k \in Keys :
        phase[n] = "run" => store[n][k].version <= global_version[n]

\* No watcher is given a delta twice, by the local broadcast and by way of
\* Redis (cluster.rs:239-242).
DeliveredOnce == \A n \in Nodes : IsInjective(delivered[n])

\* When the tasks of a key are done, the Redis hash has the value of the last
\* mutation of any node, unless a command failed, its node crashed or had no
\* Redis, the node held that value already, or the HSET of an older mutation
\* ran after it: the tasks of two mutations are not ordered (cluster.rs:88-127).
RedisCurrent ==
    \A k \in Keys \ missed :
        (\A t \in tasks : t.key # k) => redis[k].value = last[k].value

\* Every watcher in the cluster comes to show the value of the last mutation,
\* except those that a lost message, an overtaken delta, a WATCH of a stale
\* store or a mutation made on a stale store has set astray (cluster.rs:212-247,
\* docs/clustering.md:277-280).
EventuallyConverge ==
    <>[](\A n \in Nodes, k \in Keys :
            view[n][k] # Unwatched /\ <<n, k>> \notin astray
              => view[n][k] = last[k].value)
=============================================================================
