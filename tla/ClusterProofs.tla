--------------------------- MODULE ClusterProofs ---------------------------
(***************************************************************************)
(* For any number of nodes, keys, values and mutations, with failed        *)
(* commands, lost connections and crashes at any point: the counter of a   *)
(* node is never behind its entries, no watcher is given a delta twice,    *)
(* and the hash comes to hold the last mutation unless a command of it was *)
(* lost or overtaken.                                                      *)
(*                                                                         *)
(* The first rests on what the log and the hash hold when a node starts,   *)
(* the second on where the stamp of a mutation can be: in one task, or in  *)
(* the channels the task has published to, and in the deltas of a node     *)
(* only if it is the node's own or has left the channel.  The third is     *)
(* about the newest command of a key that has not run.                     *)
(***************************************************************************)
EXTENDS Cluster, TLAPS

AllValues == Values \cup {Null}
Entry == [version : Nat, value : AllValues]
Task == [sender : Nodes \X Nat, stamp : Nat, key : Keys, op : {"set", "delete"},
         version : Nat, value : AllValues, at : {"store", "publish"},
         orphan : BOOLEAN]
Message == [sender : Nodes \X Nat, key : Keys, value : AllValues, stamp : Nat]

Typed ==
    /\ phase \in [Nodes -> {"down", "load", "run"}]
    /\ node_id \in [Nodes -> Nodes \X Nat]
    /\ store \in [Nodes -> [Keys -> Entry]] /\ disk \in [Nodes -> [Keys -> Entry]]
    /\ global_version \in [Nodes -> Nat] /\ top \in [Nodes -> Nat]
    /\ max_version \in [Nodes -> Nat]
    /\ entries \in [Nodes -> SUBSET [key : Keys, entry : Entry]]
    /\ redis \in [Keys -> Entry] /\ tasks \subseteq Task
    /\ channel \in [Nodes -> Seq(Message)] /\ delivered \in [Nodes -> Seq(Nat)]
    /\ stamp \in Nat /\ crashes \in Nat

\* A node that loads has the versions of its log, or has counted them in
\* max_version.
VersionsOf(n) ==
    /\ \A k \in Keys : disk[n][k].version <= top[n]
    /\ phase[n] # "down" => top[n] <= global_version[n]
    /\ phase[n] = "run" => \A k \in Keys : store[n][k].version <= global_version[n]
    /\ phase[n] = "load" =>
          \A k \in Keys : \/ store[n][k].version <= global_version[n]
                          \/ store[n][k].version <= max_version[n]
Versions == \A n \in Nodes : VersionsOf(n)

\* A stamp is in one task, or on the connections the task has published to, once
\* on each.
TaskStamps ==
    /\ \A t \in tasks : t.stamp <= stamp
    /\ \A t, u \in tasks : t.stamp = u.stamp => t = u
ChannelStamps(n) ==
    \A i \in DOMAIN channel[n] :
        /\ channel[n][i].stamp <= stamp
        /\ \A t \in tasks : t.stamp # channel[n][i].stamp
        /\ \A j \in DOMAIN channel[n] :
              channel[n][i].stamp = channel[n][j].stamp => i = j
Stamps == TaskStamps /\ \A n \in Nodes : ChannelStamps(n)

\* What is still to come from elsewhere has not been delivered.
OnceAt(n) ==
    /\ \A i \in DOMAIN delivered[n] : delivered[n][i] <= stamp
    /\ IsInjective(delivered[n])
    /\ phase[n] = "down" => delivered[n] = <<>>
    /\ \A t \in tasks : t.sender # node_id[n] =>
          \A i \in DOMAIN delivered[n] : delivered[n][i] # t.stamp
    /\ \A j \in DOMAIN channel[n] : channel[n][j].sender # node_id[n] =>
          \A i \in DOMAIN delivered[n] : delivered[n][i] # channel[n][j].stamp
Once == \A n \in Nodes : OnceAt(n)

\* A node that is down has no connection.
Silent ==
    /\ DOMAIN subscribed = Nodes
    /\ \A n \in Nodes : phase[n] = "down" => ~subscribed[n] /\ channel[n] = <<>>

IndInv == Typed /\ Versions /\ Silent /\ Stamps /\ Once

-----------------------------------------------------------------------------
(* Types *)

LEMMA InitTyped == Init => Typed
BY ClusterAssumption, SMT, Z3 DEF Init, Typed, NoEntries, NoEntry, Entry, AllValues, Task, Message

\* A mutation, of either kind, keeps the types of what both kinds touch.
LEMMA ChangeTyped ==
    ASSUME Typed, NEW n \in Nodes, NEW k \in Keys, NEW v \in AllValues,
           NEW op \in {"set", "delete"}, Change(n, k, op, v)
    PROVE  /\ disk' \in [Nodes -> [Keys -> Entry]] /\ top' \in [Nodes -> Nat]
           /\ tasks' \subseteq Task /\ delivered' \in [Nodes -> Seq(Nat)]
<1>1. [version |-> global_version[n] + 1, value |-> v] \in Entry
  BY SMT, Z3 DEF Typed, Entry
<1>2. disk' \in [Nodes -> [Keys -> Entry]] /\ top' \in [Nodes -> Nat]
  BY <1>1, SMT, Z3 DEF Typed, Change, Logged
<1>3. SyncTask(n, k, op, v) \in Task
  BY SMT, Z3 DEF Typed, SyncTask, Task
<1>4. tasks' \subseteq Task
  BY <1>3, Zenon DEF Typed, Change
<1>5. delivered' \in [Nodes -> Seq(Nat)]
  <2>1. Append(delivered[n], stamp + 1) \in Seq(Nat)
    BY SMT, Z3 DEF Typed
  <2> QED  BY <2>1, Zenon DEF Typed, Change, Broadcast
<1> QED  BY <1>2, <1>4, <1>5, Zenon

LEMMA OnwardTyped ==
    ASSUME tasks \subseteq Task, NEW t \in tasks, Onward(t)
    PROVE  tasks' \subseteq Task
BY ZenonT(30) DEF Onward, Task

\* What a crash leaves of the tasks: some of them, some of these orphaned.
LEMMA CrashTasks ==
    ASSUME NEW n \in Nodes, Crash(n)
    PROVE  \E sent \in SUBSET tasks : \A t \in tasks' :
              \/ t \in tasks \ sent
              \/ \E u \in sent : t = [u EXCEPT !.orphan = TRUE]
<1> DEFINE mine == {t \in tasks : t.sender = node_id[n] /\ ~t.orphan}
<1>1. PICK sent \in SUBSET mine :
          tasks' = (tasks \ mine) \cup {[t EXCEPT !.orphan = TRUE] : t \in sent}
  BY Zenon DEF Crash
<1> QED  BY <1>1, ZenonT(60)

LEMMA NextTyped == Typed /\ [Next]_vars => Typed'
<1> SUFFICES ASSUME Typed, [Next]_vars PROVE Typed'
  BY Zenon
<1>1. ASSUME NEW n \in Nodes, NEW k \in Keys, Watch(n, k) PROVE Typed'
  BY <1>1, Zenon DEF Watch, Typed, localVars, loadVars, subVars, countVars
<1>2. ASSUME NEW n \in Nodes, NEW k \in Keys, Delete(n, k) PROVE Typed'
  <2>1. /\ disk' \in [Nodes -> [Keys -> Entry]] /\ top' \in [Nodes -> Nat]
        /\ tasks' \subseteq Task /\ delivered' \in [Nodes -> Seq(Nat)]
    BY <1>2, ChangeTyped, Zenon DEF Delete, AllValues
  <2>2. /\ store' \in [Nodes -> [Keys -> Entry]] /\ global_version' \in [Nodes -> Nat]
    BY <1>2, SMTT(30), Z3T(30) DEF Delete, Mutated, Typed, NoEntry, Entry, AllValues
  <2>3. /\ UNCHANGED <<phase, node_id, entries, max_version, subscribed, channel, redis,
                       crashes>>
        /\ stamp' = stamp + 1
    BY <1>2, Zenon DEF Delete, loadVars, subVars
  <2> QED  BY <2>1, <2>2, <2>3, SMTT(30), Z3T(30) DEF Typed
<1>3. ASSUME NEW n \in Nodes, NEW k \in Keys, NEW v \in Values, Set(n, k, v) PROVE Typed'
  <2>1. /\ disk' \in [Nodes -> [Keys -> Entry]] /\ top' \in [Nodes -> Nat]
        /\ tasks' \subseteq Task /\ delivered' \in [Nodes -> Seq(Nat)]
    <3>1. CASE Change(n, k, "set", v)
      BY <3>1, ChangeTyped, Zenon DEF AllValues
    <3>2. CASE SetUnchanged(n, k, v)
      BY <3>2, Zenon DEF SetUnchanged, Typed
    <3> QED  BY <1>3, <3>1, <3>2, Zenon DEF Set
  <2>2. /\ store' \in [Nodes -> [Keys -> Entry]] /\ global_version' \in [Nodes -> Nat]
    BY <1>3, SMTT(30), Z3T(30) DEF Set, Mutated, Typed, Entry, AllValues
  <2>3. /\ UNCHANGED <<phase, node_id, entries, max_version, subscribed, channel, redis,
                       crashes>>
        /\ stamp' = stamp + 1
    BY <1>3, Zenon DEF Set, loadVars, subVars
  <2> QED  BY <2>1, <2>2, <2>3, SMTT(30), Z3T(30) DEF Typed
<1>4. ASSUME NEW n \in Nodes, Subscribe(n) PROVE Typed'
  BY <1>4, Zenon DEF Subscribe, Typed, localVars, loadVars, histVars, countVars
<1>5. ASSUME NEW n \in Nodes, StreamEnds(n) PROVE Typed'
  BY <1>5, SMTT(30), Z3T(30) DEF StreamEnds, Typed, localVars, loadVars
<1>6. ASSUME NEW n \in Nodes, HandlePubsubMessage(n) PROVE Typed'
  <2>1. Tail(channel[n]) \in Seq(Message) /\ Head(channel[n]) \in Message
    BY <1>6, SMT, Z3 DEF HandlePubsubMessage, Typed
  <2>2. Append(delivered[n], Head(channel[n]).stamp) \in Seq(Nat)
    <3>1. Head(channel[n]).stamp \in Nat /\ delivered[n] \in Seq(Nat)
      BY <2>1, Zenon DEF Typed, Message
    <3> QED  BY <3>1, SMT, Z3
  <2> QED
    BY <1>6, <2>1, <2>2, Zenon DEF HandlePubsubMessage, Broadcast, Typed, localVars, loadVars,
       countVars
<1>7. ASSUME NEW n \in Nodes, Crash(n) PROVE Typed'
  <2>1. tasks' \subseteq Task
    <3>1. \A u \in Task : [u EXCEPT !.orphan = TRUE] \in Task
      BY Zenon DEF Task
    <3> QED  BY <1>7, <3>1, CrashTasks, ZenonT(30) DEF Typed
  <2> QED  BY <1>7, <2>1, ClusterAssumption, SMTT(30), Z3T(30)
           DEF Crash, Typed, NoEntries, NoEntry, Entry, AllValues
<1>8. ASSUME NEW n \in Nodes, Start(n) PROVE Typed'
  BY <1>8, SMTT(30), Z3T(30) DEF Start, Typed, subVars, histVars, countVars
<1>9. ASSUME NEW n \in Nodes, StartAlone(n) PROVE Typed'
  BY <1>9, Zenon DEF StartAlone, Typed, subVars, histVars
<1>10. ASSUME NEW n \in Nodes, Loaded(n) PROVE Typed'
  BY <1>10, Zenon DEF Loaded, Typed, subVars, histVars, countVars
<1>11. ASSUME NEW n \in Nodes, NEW e \in entries[n], LoadEntry(n, e) PROVE Typed'
  <2>1. e.key \in Keys /\ e.entry \in Entry /\ e.entry.version \in Nat
    BY SMT, Z3 DEF Typed, Entry
  <2> QED  BY <1>11, <2>1, Zenon DEF LoadEntry, Typed, subVars, histVars, countVars
<1>12. ASSUME NEW t \in tasks, SyncStep(t) \/ SyncFault(t) PROVE Typed'
  <2>0. t \in Task
    BY Zenon DEF Typed
  <2>1. CASE StoreEntry(t)
    <3>1. redis' \in [Keys -> Entry]
      BY <2>0, <2>1, ClusterAssumption, Zenon DEF StoreEntry, Typed, Task, NoEntry, Entry, AllValues
    <3>2. tasks' \subseteq Task
      BY <2>1, OnwardTyped, Zenon DEF StoreEntry, Typed
    <3> QED  BY <2>1, <3>1, <3>2, Zenon DEF StoreEntry, Typed, localVars, loadVars, subVars, countVars
  <2>2. CASE StoreFails(t)
    <3>1. tasks' \subseteq Task
      BY <2>2, OnwardTyped, Zenon DEF StoreFails, Typed
    <3> QED  BY <2>2, <3>1, Zenon DEF StoreFails, Typed, localVars, loadVars, subVars
  <2>3. CASE Publish(t)
    <3> DEFINE m == [sender |-> t.sender, key |-> t.key, value |-> t.value,
                     stamp |-> t.stamp]
    <3>1. m \in Message
      BY <2>0, Zenon DEF Task, Message
    <3>2. \A n \in Nodes : Append(channel[n], m) \in Seq(Message)
      BY <3>1, SMT, Z3 DEF Typed
    <3>3. channel' \in [Nodes -> Seq(Message)]
      BY <2>3, <3>2, Zenon DEF Publish, Typed
    <3> QED  BY <2>3, <3>3, Zenon DEF Publish, Typed, localVars, loadVars, countVars
  <2>4. CASE PublishFails(t)
    BY <2>4, Zenon DEF PublishFails, Typed, localVars, loadVars, subVars
  <2> QED  BY <1>12, <2>1, <2>2, <2>3, <2>4, Zenon DEF SyncStep, SyncFault
<1>13. CASE UNCHANGED vars
  BY <1>13, Zenon DEF vars, Typed, localVars, loadVars, subVars, histVars, countVars
<1> QED
  BY <1>1, <1>2, <1>3, <1>4, <1>5, <1>6, <1>7, <1>8, <1>9, <1>10, <1>11, <1>12, <1>13, Zenon
  DEF Next
-----------------------------------------------------------------------------
(* Versions *)

LEMMA EntryVersions ==
    ASSUME Typed, NEW n \in Nodes
    PROVE  /\ store[n] \in [Keys -> Entry] /\ disk[n] \in [Keys -> Entry]
           /\ top[n] \in Nat /\ global_version[n] \in Nat /\ max_version[n] \in Nat
           /\ \A k \in Keys : store[n][k].version \in Nat /\ disk[n][k].version \in Nat
<1>1. /\ store[n] \in [Keys -> Entry] /\ disk[n] \in [Keys -> Entry]
      /\ top[n] \in Nat /\ global_version[n] \in Nat /\ max_version[n] \in Nat
  BY Zenon DEF Typed
<1>2. \A e \in Entry : e.version \in Nat
  BY Zenon DEF Entry
<1> QED  BY <1>1, <1>2, Zenon

LEMMA MutationVersions ==
    ASSUME Typed, Versions, NEW n \in Nodes, NEW k \in Keys, NEW v \in AllValues,
           NEW e \in Entry, e.version <= global_version[n] + 1, phase[n] = "run",
           Mutated(n, k, e), Logged(n, k, v) \/ UNCHANGED <<disk, top>>,
           UNCHANGED <<phase, max_version>>
    PROVE  Versions'
<1> SUFFICES ASSUME NEW m \in Nodes PROVE VersionsOf(m)'
  BY Zenon DEF Versions
<1>1. CASE m # n
  BY <1>1, Zenon DEF Typed, Versions, VersionsOf, Mutated, Logged
<1>2. CASE m = n
  <2>1. /\ global_version'[n] = global_version[n] + 1
        /\ \A j \in Keys : store'[n][j] = IF j = k THEN e ELSE store[n][j]
    <3>1. store' = [store EXCEPT ![n] = [store[n] EXCEPT ![k] = e]]
      BY Zenon DEF Mutated
    <3>2. global_version' = [global_version EXCEPT ![n] = @ + 1]
      BY Zenon DEF Mutated
    <3>3. n \in DOMAIN store /\ n \in DOMAIN global_version /\ DOMAIN store[n] = Keys
      BY EntryVersions, Zenon DEF Typed
    <3> QED  BY <3>1, <3>2, <3>3, Zenon
  <2>2. /\ global_version[n] \in Nat /\ top[n] \in Nat
        /\ \A j \in Keys : /\ store[n][j].version \in Nat /\ disk[n][j].version \in Nat
    BY EntryVersions, Zenon
  <2>3. \A j \in Keys : store'[n][j].version <= global_version'[n]
    <3>1. e.version \in Nat
      BY Zenon DEF Entry
    <3> QED  BY <2>1, <2>2, <3>1, SMT, Z3 DEF Versions, VersionsOf
  <2>4. CASE UNCHANGED <<disk, top>>
    <3>1. VersionsOf(n) /\ phase'[n] = "run"
      BY Zenon DEF Versions
    <3>2. top'[n] <= global_version'[n]
      BY <2>1, <2>2, <2>4, <3>1, SMT, Z3 DEF VersionsOf
    <3> QED  BY <1>2, <2>3, <2>4, <3>1, <3>2, ZenonT(30) DEF VersionsOf
  <2>5. CASE Logged(n, k, v)
    <3>1. CASE n \notin Persistent
      BY <2>4, <2>5, <3>1, Zenon DEF Logged
    <3>2. CASE n \in Persistent
      <4>1. /\ top'[n] = global_version[n] + 1
            /\ \A j \in Keys : disk'[n][j] =
                  IF j = k THEN [version |-> global_version[n] + 1, value |-> v]
                  ELSE disk[n][j]
        <5>1. /\ top' = [top EXCEPT ![n] = global_version[n] + 1]
              /\ disk' = [disk EXCEPT ![n] = [disk[n] EXCEPT ![k] =
                             [version |-> global_version[n] + 1, value |-> v]]]
          BY <2>5, <3>2, Zenon DEF Logged
        <5>2. n \in DOMAIN disk /\ n \in DOMAIN top /\ DOMAIN disk[n] = Keys
          BY EntryVersions, Zenon DEF Typed
        <5> QED  BY <5>1, <5>2, Zenon
      <4>2. \A j \in Keys : disk'[n][j].version <= top'[n]
        BY <2>2, <4>1, SMTT(30), Z3T(30) DEF Versions, VersionsOf
      <4> QED  BY <1>2, <2>1, <2>3, <4>1, <4>2, SMT, Z3 DEF Typed, VersionsOf
    <3> QED  BY <3>1, <3>2, ZenonT(30)
  <2> QED  BY <2>4, <2>5, Zenon
<1> QED  BY <1>1, <1>2, Zenon

LEMMA NextVersions == Typed /\ Versions /\ [Next]_vars => Versions'
<1> SUFFICES ASSUME Typed, Versions, [Next]_vars PROVE Versions'
  BY Zenon
<1>1. ASSUME UNCHANGED <<disk, top, phase, global_version, store, max_version>>
      PROVE  Versions'
  BY <1>1, ZenonT(30) DEF Versions, VersionsOf
<1>2. ASSUME NEW n \in Nodes, NEW k \in Keys, Delete(n, k) PROVE Versions'
  <2>1. Null \in AllValues /\ NoEntry \in Entry /\ NoEntry.version <= global_version[n] + 1
    BY SMT, Z3 DEF AllValues, NoEntry, Entry, Typed
  <2> QED  BY <1>2, <2>1, MutationVersions, Zenon DEF Delete, Change, loadVars
<1>3. ASSUME NEW n \in Nodes, NEW k \in Keys, NEW v \in Values, Set(n, k, v)
      PROVE  Versions'
  <2> DEFINE e == [version |-> global_version[n] + 1, value |-> v]
  <2>1. v \in AllValues /\ e \in Entry /\ e.version <= global_version[n] + 1
    BY SMT, Z3 DEF AllValues, Entry, Typed
  <2>2. /\ phase[n] = "run" /\ Mutated(n, k, e) /\ UNCHANGED <<phase, max_version>>
        /\ Logged(n, k, v) \/ UNCHANGED <<disk, top>>
    BY <1>3, Zenon DEF Set, SetUnchanged, Change, loadVars
  <2> QED  BY <2>1, <2>2, MutationVersions, Zenon
<1>4. ASSUME NEW n \in Nodes, Crash(n) PROVE Versions'
  BY <1>4, Zenon DEF Crash, Typed, Versions, VersionsOf
<1>5. ASSUME NEW n \in Nodes, Start(n) \/ StartAlone(n) PROVE Versions'
  <2> SUFFICES ASSUME NEW m \in Nodes PROVE VersionsOf(m)'
    BY Zenon DEF Versions
  <2>1. /\ UNCHANGED <<disk, top, max_version>>
        /\ store' = [store EXCEPT ![n] = disk[n]]
        /\ global_version' = [global_version EXCEPT ![n] = top[n]]
        /\ phase' \in {[phase EXCEPT ![n] = "load"], [phase EXCEPT ![n] = "run"]}
    BY <1>5, Zenon DEF Start, StartAlone
  <2>2. top[n] \in Nat
    BY EntryVersions, Zenon
  <2> QED  BY <2>1, <2>2, SMT, Z3 DEF Typed, Versions, VersionsOf
<1>6. ASSUME NEW n \in Nodes, NEW e \in entries[n], LoadEntry(n, e) PROVE Versions'
  <2> SUFFICES ASSUME NEW m \in Nodes PROVE VersionsOf(m)'
    BY Zenon DEF Versions
  <2>1. e.key \in Keys /\ e.entry \in Entry /\ e.entry.version \in Nat
    BY SMTT(30), Z3T(30) DEF Typed, Entry
  <2>2. CASE m # n
    BY <1>6, <2>2, ZenonT(30) DEF LoadEntry, Typed, Versions, VersionsOf
  <2>3. CASE m = n
    <3>1. /\ max_version'[n] >= max_version[n] /\ max_version'[n] >= e.entry.version
          /\ max_version'[n] \in Nat
      BY <1>6, <2>1, SMTT(30), Z3T(30) DEF LoadEntry, Typed
    <3>2. \A k \in Keys : \/ store'[n][k] = store[n][k]
                          \/ store'[n][k] = e.entry
      <4>1. store' \in {store, [store EXCEPT ![n] = [store[n] EXCEPT ![e.key] = e.entry]]}
        BY <1>6, Zenon DEF LoadEntry
      <4>2. n \in DOMAIN store /\ DOMAIN store[n] = Keys
        BY EntryVersions, Zenon DEF Typed
      <4> QED  BY <4>1, <4>2, SMT, Z3
    <3>3. \A k \in Keys : store[n][k].version \in Nat
      BY EntryVersions, Zenon
    <3>4. phase[n] = "load" /\ UNCHANGED <<phase, global_version, disk, top>>
      BY <1>6, Zenon DEF LoadEntry
    <3>5. VersionsOf(n) /\ phase'[n] = "load" /\ max_version[n] \in Nat
      BY <3>4, EntryVersions, Zenon DEF Versions
    <3>6. \A k \in Keys : \/ store'[n][k].version <= global_version'[n]
                          \/ store'[n][k].version <= max_version'[n]
      BY <2>1, <3>1, <3>2, <3>3, <3>4, <3>5, SMT, Z3 DEF VersionsOf
    <3> QED  BY <2>3, <3>4, <3>5, <3>6, Zenon DEF VersionsOf
  <2> QED  BY <2>2, <2>3, Zenon
<1>7. ASSUME NEW n \in Nodes, Loaded(n) PROVE Versions'
  <2>1. \A k \in Keys : store[n][k].version \in Nat
    BY SMT, Z3 DEF Typed, Entry
  <2> QED  BY <1>7, <2>1, SMT, Z3 DEF Loaded, Typed, Versions, VersionsOf
<1>8. ASSUME NEW n \in Nodes, NEW k \in Keys, Watch(n, k) PROVE Versions'
  BY <1>1, <1>8, ZenonT(30) DEF Watch, localVars, loadVars
<1>9. ASSUME NEW n \in Nodes, Subscribe(n) \/ StreamEnds(n) \/ HandlePubsubMessage(n)
      PROVE  Versions'
  BY <1>1, <1>9, ZenonT(60) DEF Subscribe, StreamEnds, HandlePubsubMessage, localVars, loadVars
<1>10. ASSUME NEW t \in tasks, SyncStep(t) \/ SyncFault(t) PROVE Versions'
  BY <1>1, <1>10, ZenonT(30) DEF SyncStep, SyncFault, StoreEntry, Publish, StoreFails, PublishFails,
     localVars, loadVars
<1>11. CASE UNCHANGED vars
  BY <1>1, <1>11, Zenon DEF vars, localVars, loadVars
<1> QED
  BY <1>2, <1>3, <1>4, <1>5, <1>6, <1>7, <1>8, <1>9, <1>10, <1>11, ZenonT(30) DEF Next

-----------------------------------------------------------------------------
(* Stamps *)

\* Every task was there before, up to the progress it has made.
Kept ==
    /\ \A t \in tasks' : \E u \in tasks : t.stamp = u.stamp /\ t.sender = u.sender
    /\ \A t, u \in tasks' : t.stamp = u.stamp => t = u

\* A connection moves on, or ends.
Drained(n) ==
    channel'[n] \in {channel[n], <<>>} \/ (channel[n] # <<>> /\ channel'[n] = Tail(channel[n]))

LEMMA StampTypes ==
    ASSUME Typed
    PROVE  /\ stamp \in Nat /\ \A t \in tasks : t.stamp \in Nat
           /\ \A n \in Nodes : /\ channel[n] \in Seq(Message) /\ delivered[n] \in Seq(Nat)
                               /\ \A i \in DOMAIN channel[n] : channel[n][i].stamp \in Nat
<1>1. stamp \in Nat /\ tasks \subseteq Task
  BY Zenon DEF Typed
<1>2. ASSUME NEW n \in Nodes
      PROVE  channel[n] \in Seq(Message) /\ delivered[n] \in Seq(Nat)
  BY Zenon DEF Typed
<1>3. ASSUME NEW n \in Nodes, NEW i \in DOMAIN channel[n]
      PROVE  channel[n][i].stamp \in Nat
  <2>1. channel[n][i] \in Message
    BY <1>2, SMT, Z3
  <2> QED  BY <2>1, Zenon DEF Message
<1> QED  BY <1>1, <1>2, <1>3, Zenon DEF Task

LEMMA SubsetKept ==
    ASSUME TaskStamps, tasks' \subseteq tasks PROVE Kept
BY Zenon DEF TaskStamps, Kept

LEMMA OnwardKept ==
    ASSUME Typed, TaskStamps, NEW t \in tasks, Onward(t) PROVE Kept
<1>1. t \in Task
  BY Zenon DEF Typed
<1>2. /\ [t EXCEPT !.at = "publish"].stamp = t.stamp
      /\ [t EXCEPT !.at = "publish"].sender = t.sender
  BY <1>1, Zenon DEF Task
<1> DEFINE p == [t EXCEPT !.at = "publish"]
<1>3. \A x \in tasks' : x = p \/ x \in tasks \ {t}
  BY Zenon DEF Onward
<1> HIDE DEF p
<1>4. p.stamp = t.stamp /\ p.sender = t.sender
  BY <1>2, Zenon DEF p
<1>5. \A x, y \in tasks' : x.stamp = y.stamp => x = y
  BY <1>3, <1>4, Zenon DEF TaskStamps
<1> QED  BY <1>3, <1>4, <1>5, Zenon DEF Kept

LEMMA CrashKept ==
    ASSUME Typed, TaskStamps, NEW n \in Nodes, Crash(n) PROVE Kept
<1> DEFINE Orphan(u) == [u EXCEPT !.orphan = TRUE]
<1>1. PICK sent \in SUBSET tasks : \A t \in tasks' :
              t \in tasks \ sent \/ \E u \in sent : t = Orphan(u)
  BY CrashTasks, ZenonT(30)
<1>2. \A u \in tasks : Orphan(u).stamp = u.stamp /\ Orphan(u).sender = u.sender
  BY SMT, Z3 DEF Typed, Task
<1> HIDE DEF Orphan
<1>3. \A t \in tasks' : \E u \in tasks : t.stamp = u.stamp /\ t.sender = u.sender
  BY <1>1, <1>2, ZenonT(30)
<1>4. ASSUME NEW t \in tasks', NEW w \in tasks', t.stamp = w.stamp PROVE t = w
  <2>1. PICK u \in tasks : /\ t.stamp = u.stamp
                           /\ (u \notin sent /\ t = u) \/ (u \in sent /\ t = Orphan(u))
    BY <1>1, <1>2, SMT, Z3
  <2>2. PICK x \in tasks : /\ w.stamp = x.stamp
                           /\ (x \notin sent /\ w = x) \/ (x \in sent /\ w = Orphan(x))
    BY <1>1, <1>2, SMT, Z3
  <2>3. u = x
    BY <1>4, <2>1, <2>2, Zenon DEF TaskStamps
  <2> QED  BY <2>1, <2>2, <2>3, Zenon
<1> QED  BY <1>3, <1>4, Zenon DEF Kept

\* What a drained connection holds it held before.
LEMMA DrainedIndex ==
    ASSUME Typed, NEW n \in Nodes, Drained(n)
    PROVE  \E d \in {0, 1} : \A i \in DOMAIN channel'[n] :
              /\ i \in Nat /\ i + d \in DOMAIN channel[n]
              /\ channel'[n][i] = channel[n][i + d]
<1>1. channel[n] \in Seq(Message)
  BY StampTypes, Zenon
<1>2. CASE channel'[n] = channel[n]
  BY <1>1, <1>2, SMT, Z3
<1>3. CASE channel'[n] = <<>>
  BY <1>3, SMT, Z3
<1>4. CASE channel[n] # <<>> /\ channel'[n] = Tail(channel[n])
  BY <1>1, <1>4, SMT, Z3
<1> QED  BY <1>2, <1>3, <1>4, Zenon DEF Drained

LEMMA KeptStamps ==
    ASSUME Typed, Stamps, Kept, stamp' = stamp, \A n \in Nodes : Drained(n)
    PROVE  Stamps'
<1>1. TaskStamps'
  BY StampTypes, Zenon DEF Stamps, TaskStamps, Kept
<1>2. ASSUME NEW n \in Nodes PROVE ChannelStamps(n)'
  <2>1. PICK d \in {0, 1} : \A i \in DOMAIN channel'[n] :
              /\ i \in Nat /\ i + d \in DOMAIN channel[n]
              /\ channel'[n][i] = channel[n][i + d]
    BY DrainedIndex, Zenon
  <2>2. ASSUME NEW i \in DOMAIN channel'[n]
        PROVE  /\ channel'[n][i].stamp <= stamp
               /\ \A t \in tasks' : t.stamp # channel'[n][i].stamp
    BY <2>1, SMT, Z3 DEF Stamps, ChannelStamps, Kept
  <2>3. ASSUME NEW i \in DOMAIN channel'[n], NEW j \in DOMAIN channel'[n],
               channel'[n][i].stamp = channel'[n][j].stamp
        PROVE  i = j
    <3>1. i + d = j + d
      BY <2>1, <2>3, SMT, Z3 DEF Stamps, ChannelStamps
    <3>2. i \in Nat /\ j \in Nat
      BY <2>1, Zenon
    <3> QED  BY <3>1, <3>2, SMT, Z3
  <2> QED  BY <2>2, <2>3, Zenon DEF ChannelStamps
<1> QED  BY <1>1, <1>2, Zenon DEF Stamps

LEMMA NextStamps == Typed /\ Stamps /\ [Next]_vars => Stamps'
<1> SUFFICES ASSUME Typed, Stamps, [Next]_vars PROVE Stamps'
  BY Zenon
<1>1. ASSUME UNCHANGED <<tasks, channel, stamp>> PROVE Stamps'
  BY <1>1, SMT, Z3 DEF Stamps, TaskStamps, ChannelStamps
<1>2. ASSUME UNCHANGED channel, stamp' = stamp + 1, NEW x, x.stamp = stamp + 1,
             tasks' \subseteq tasks \cup {x}
      PROVE  Stamps'
  BY <1>2, StampTypes, SMT, Z3 DEF Stamps, TaskStamps, ChannelStamps
<1>3. ASSUME NEW n \in Nodes, NEW k \in Keys, NEW v, NEW op, Change(n, k, op, v),
             UNCHANGED channel, stamp' = stamp + 1
      PROVE  Stamps'
  <2>1. SyncTask(n, k, op, v).stamp = stamp + 1
    BY Zenon DEF SyncTask
  <2> QED  BY <1>2, <1>3, <2>1, Zenon DEF Change
<1>4. ASSUME NEW n \in Nodes, NEW k \in Keys, Delete(n, k) PROVE Stamps'
  BY <1>3, <1>4, ZenonT(30) DEF Delete, subVars
<1>5. ASSUME NEW n \in Nodes, NEW k \in Keys, NEW v \in Values, Set(n, k, v)
      PROVE  Stamps'
  <2>1. UNCHANGED channel /\ stamp' = stamp + 1
    BY <1>5, Zenon DEF Set, subVars
  <2>2. CASE Change(n, k, "set", v)
    BY <1>3, <2>1, <2>2, ZenonT(30)
  <2>3. CASE SetUnchanged(n, k, v)
    <3>1. UNCHANGED tasks /\ [stamp |-> stamp + 1].stamp = stamp + 1
      BY <2>3, Zenon DEF SetUnchanged
    <3> QED  BY <1>2, <2>1, <3>1, Zenon
  <2> QED  BY <1>5, <2>2, <2>3, SMT, Z3 DEF Set
<1>6. ASSUME NEW n \in Nodes, StreamEnds(n) \/ HandlePubsubMessage(n) PROVE Stamps'
  <2>1. stamp' = stamp /\ tasks' = tasks /\ \A m \in Nodes : Drained(m)
    BY <1>6, Zenon DEF StreamEnds, HandlePubsubMessage, Drained, countVars, Typed
  <2> QED  BY <2>1, SubsetKept, KeptStamps, ZenonT(30) DEF Stamps
<1>7. ASSUME NEW n \in Nodes, Crash(n) PROVE Stamps'
  <2>1. stamp' = stamp /\ \A m \in Nodes : Drained(m)
    BY <1>7, Zenon DEF Crash, Drained, Typed
  <2> QED  BY <1>7, <2>1, CrashKept, KeptStamps, Zenon DEF Stamps
<1>8. ASSUME NEW t \in tasks, SyncStep(t) \/ SyncFault(t) PROVE Stamps'
  <2>1. CASE StoreEntry(t) \/ StoreFails(t)
    <3>1. Onward(t) /\ stamp' = stamp /\ channel' = channel
      BY <2>1, Zenon DEF StoreEntry, StoreFails, countVars, subVars
    <3> QED  BY <3>1, OnwardKept, KeptStamps, ZenonT(30) DEF Stamps, Drained
  <2>2. CASE PublishFails(t)
    <3>1. tasks' \subseteq tasks /\ stamp' = stamp /\ channel' = channel
      BY <2>2, SMT, Z3 DEF PublishFails, subVars
    <3> QED  BY <3>1, SubsetKept, KeptStamps, Zenon DEF Stamps, Drained
  <2>3. CASE Publish(t)
    <3>1. tasks' = tasks \ {t} /\ stamp' = stamp
      BY <2>3, ZenonT(30) DEF Publish, countVars
    <3>2. TaskStamps'
      BY <3>1, Zenon DEF Stamps, TaskStamps
    <3>3. ASSUME NEW n \in Nodes PROVE ChannelStamps(n)'
      <4>1. CASE channel'[n] = channel[n]
        BY <3>1, <4>1, Zenon DEF Stamps, ChannelStamps
      <4>2. CASE channel'[n] = Append(channel[n],
                    [sender |-> t.sender, key |-> t.key, value |-> t.value,
                     stamp |-> t.stamp])
        <5>1. channel[n] \in Seq(Message)
          BY StampTypes, Zenon
        <5>2. \A i \in DOMAIN channel'[n] :
                 \/ i \in DOMAIN channel[n] /\ channel'[n][i] = channel[n][i]
                 \/ i = Len(channel[n]) + 1 /\ channel'[n][i].stamp = t.stamp
          BY <4>2, <5>1, SMT, Z3
        <5>3. Len(channel[n]) + 1 \notin DOMAIN channel[n]
          BY <5>1, SMT, Z3
        <5>4. \A i \in DOMAIN channel[n] : t.stamp # channel[n][i].stamp
          BY Zenon DEF Stamps, ChannelStamps
        <5>5. t.stamp <= stamp /\ \A u \in tasks' : u.stamp # t.stamp
          BY <3>1, Zenon DEF Stamps, TaskStamps
        <5> QED  BY <3>1, <5>2, <5>3, <5>4, <5>5, SMT, Z3 DEF Stamps, ChannelStamps
      <4> QED  BY <2>3, <4>1, <4>2, Zenon DEF Publish
    <3> QED  BY <3>2, <3>3, Zenon DEF Stamps
  <2> QED  BY <1>8, <2>1, <2>2, <2>3, ZenonT(30) DEF SyncStep, SyncFault
<1>9. ASSUME NEW n \in Nodes, \/ Subscribe(n) \/ Start(n) \/ StartAlone(n) \/ Loaded(n)
                              \/ \E k \in Keys : Watch(n, k)
                              \/ \E e \in entries[n] : LoadEntry(n, e)
      PROVE  Stamps'
  BY <1>1, <1>9, ZenonT(30) DEF Subscribe, Start, StartAlone, Loaded, Watch, LoadEntry, subVars, countVars
<1>10. CASE UNCHANGED vars
  BY <1>1, <1>10, Zenon DEF vars, subVars, countVars
<1> QED  BY <1>4, <1>5, <1>6, <1>7, <1>8, <1>9, <1>10, ZenonT(60) DEF Next

-----------------------------------------------------------------------------
(* Deliveries *)

LEMMA AppendInjective ==
    ASSUME NEW d \in Seq(Nat), IsInjective(d), NEW s \in Nat, \A i \in DOMAIN d : d[i] # s
    PROVE  /\ IsInjective(Append(d, s))
           /\ \A i \in DOMAIN Append(d, s) :
                 Append(d, s)[i] = s \/ (i \in DOMAIN d /\ Append(d, s)[i] = d[i])
<1>1. \A i \in DOMAIN Append(d, s) :
         \/ i = Len(d) + 1 /\ Append(d, s)[i] = s
         \/ i \in DOMAIN d /\ Append(d, s)[i] = d[i]
  BY SMT, Z3
<1> QED  BY <1>1, Zenon DEF IsInjective

LEMMA NothingDelivered ==
    ASSUME NEW n \in Nodes, delivered'[n] = <<>> PROVE OnceAt(n)'
BY SMT, Z3 DEF OnceAt, IsInjective

LEMMA KeptOnce ==
    ASSUME Typed, Once, Kept, stamp' = stamp, NEW n \in Nodes, Drained(n),
           delivered'[n] = delivered[n], phase'[n] = "down" => phase[n] = "down",
           node_id'[n] = node_id[n] \/ phase[n] = "down"
    PROVE  OnceAt(n)'
<1>1. CASE phase[n] = "down"
  BY <1>1, NothingDelivered, Zenon DEF Once, OnceAt
<1>2. CASE phase[n] # "down"
  <2>1. PICK d \in {0, 1} : \A i \in DOMAIN channel'[n] :
            /\ i \in Nat /\ i + d \in DOMAIN channel[n]
            /\ channel'[n][i] = channel[n][i + d]
    BY DrainedIndex, ZenonT(60)
  <2>2. OnceAt(n)
    BY Zenon DEF Once
  <2>3. node_id'[n] = node_id[n] /\ delivered'[n] = delivered[n] /\ phase'[n] # "down"
    BY <1>2, Zenon
  <2>4. \A t \in tasks' : t.sender # node_id'[n] =>
           \A i \in DOMAIN delivered'[n] : delivered'[n][i] # t.stamp
    <3>1. \A u \in tasks : u.sender # node_id[n] =>
             \A i \in DOMAIN delivered[n] : delivered[n][i] # u.stamp
      BY <2>2, Zenon DEF OnceAt
    <3>2. \A t \in tasks' : \E u \in tasks : t.stamp = u.stamp /\ t.sender = u.sender
      BY Zenon DEF Kept
    <3> SUFFICES ASSUME NEW t \in tasks', t.sender # node_id[n], NEW i \in DOMAIN delivered[n]
                 PROVE  delivered[n][i] # t.stamp
      BY <2>3, Zenon
    <3>3. PICK u \in tasks : t.stamp = u.stamp /\ t.sender = u.sender
      BY <3>2, Zenon
    <3> QED  BY <3>1, <3>3, Zenon
  <2>5. \A j \in DOMAIN channel'[n] : channel'[n][j].sender # node_id'[n] =>
           \A i \in DOMAIN delivered'[n] : delivered'[n][i] # channel'[n][j].stamp
    BY <2>1, <2>2, <2>3, ZenonT(60) DEF OnceAt
  <2> QED  BY <2>2, <2>3, <2>4, <2>5, Zenon DEF OnceAt
<1> QED  BY <1>1, <1>2, Zenon

\* A mutation: its stamp is new, and its task is the node's own.
LEMMA ChangeOnce ==
    ASSUME Typed, Stamps, Once, NEW n \in Nodes, NEW k \in Keys, NEW v, NEW op,
           Change(n, k, op, v), phase[n] = "run", stamp' = stamp + 1,
           UNCHANGED <<channel, node_id, phase>>
    PROVE  Once'
<1> SUFFICES ASSUME NEW m \in Nodes PROVE OnceAt(m)'
  BY Zenon DEF Once
<1>1. \A t \in tasks' : t \in tasks \/ (t.sender = node_id[n] /\ t.stamp = stamp + 1)
  <2>1. tasks' \subseteq tasks \cup {SyncTask(n, k, op, v)}
    BY Zenon DEF Change
  <2>2. SyncTask(n, k, op, v).sender = node_id[n] /\ SyncTask(n, k, op, v).stamp = stamp + 1
    BY Zenon DEF SyncTask
  <2> QED  BY <2>1, <2>2, Zenon
<1>2. /\ stamp \in Nat /\ delivered[m] \in Seq(Nat)
      /\ \A t \in tasks : t.stamp \in Nat /\ t.stamp <= stamp
      /\ \A i \in DOMAIN channel[m] :
            channel[m][i].stamp \in Nat /\ channel[m][i].stamp <= stamp
  BY StampTypes, Zenon DEF Stamps, TaskStamps, ChannelStamps
<1>3. /\ OnceAt(m)
      /\ \A i \in DOMAIN delivered[m] :
            delivered[m][i] \in Nat /\ delivered[m][i] <= stamp
  <2>1. OnceAt(m)
    BY Zenon DEF Once
  <2>2. \A i \in DOMAIN delivered[m] : delivered[m][i] <= stamp
    BY <2>1, Zenon DEF OnceAt
  <2>3. \A i \in DOMAIN delivered[m] : delivered[m][i] \in Nat
    BY <1>2, SMT, Z3
  <2> QED  BY <2>1, <2>2, <2>3, Zenon
<1>f. /\ \A i \in DOMAIN delivered[m] :
            delivered[m][i] # stamp + 1 /\ delivered[m][i] <= stamp + 1
      /\ \A t \in tasks : t.stamp # stamp + 1
      /\ \A j \in DOMAIN channel[m] : channel[m][j].stamp # stamp + 1
  <2>1. \A x \in Nat : x <= stamp => x # stamp + 1 /\ x <= stamp + 1
    BY <1>2, SMT, Z3
  <2> QED  BY <1>2, <1>3, <2>1, Zenon
<1>o. /\ IsInjective(delivered[m])
      /\ phase[m] = "down" => delivered[m] = <<>>
      /\ \A t \in tasks : t.sender # node_id[m] =>
            \A i \in DOMAIN delivered[m] : delivered[m][i] # t.stamp
      /\ \A j \in DOMAIN channel[m] : channel[m][j].sender # node_id[m] =>
            \A i \in DOMAIN delivered[m] : delivered[m][i] # channel[m][j].stamp
  BY <1>3, Zenon DEF OnceAt
<1>4. CASE m # n
  <2>1. delivered'[m] = delivered[m]
    BY <1>4, Zenon DEF Change, Broadcast, Typed
  <2>2. \A i \in DOMAIN delivered'[m] : delivered'[m][i] <= stamp'
    BY <1>f, <2>1, Zenon
  <2>3. \A t \in tasks' : t.sender # node_id[m] =>
           \A i \in DOMAIN delivered[m] : delivered[m][i] # t.stamp
    BY <1>1, <1>f, <1>o, Zenon
  <2> QED  BY <1>o, <2>1, <2>2, <2>3, ZenonT(60) DEF OnceAt
<1>5. CASE m = n
  <2>1. delivered'[n] = Append(delivered[n], stamp + 1)
    BY Zenon DEF Change, Broadcast, Typed
  <2>2. /\ IsInjective(delivered'[n])
        /\ \A i \in DOMAIN delivered'[n] :
              \/ delivered'[n][i] = stamp + 1
              \/ i \in DOMAIN delivered[n] /\ delivered'[n][i] = delivered[n][i]
    <3>1. /\ delivered[n] \in Seq(Nat) /\ IsInjective(delivered[n]) /\ stamp + 1 \in Nat
          /\ \A i \in DOMAIN delivered[n] : delivered[n][i] # stamp + 1
      <4>1. stamp + 1 \in Nat
        BY <1>2, SMT, Z3
      <4> QED  BY <1>2, <1>5, <1>f, <1>o, <4>1, Zenon
    <3> DEFINE d == delivered[n]
               s == stamp + 1
    <3>2. delivered'[n] = Append(d, s)
      BY <2>1, ZenonT(30)
    <3> HIDE DEF d, s
    <3>3. /\ IsInjective(Append(d, s))
          /\ \A i \in DOMAIN Append(d, s) :
                Append(d, s)[i] = s \/ (i \in DOMAIN d /\ Append(d, s)[i] = d[i])
      BY <3>1, AppendInjective, ZenonT(60) DEF d, s
    <3> QED  BY <3>2, <3>3, ZenonT(60) DEF d, s
  <2>3. \A i \in DOMAIN delivered'[n] : delivered'[n][i] <= stamp'
    <3>1. stamp + 1 <= stamp + 1
      BY <1>2, SMT, Z3
    <3> QED  BY <1>5, <1>f, <2>2, <3>1, ZenonT(60)
  <2>4. \A t \in tasks' : t.sender # node_id[n] =>
           \A i \in DOMAIN delivered'[n] : delivered'[n][i] # t.stamp
    BY <1>1, <1>5, <1>f, <1>o, <2>2, ZenonT(60)
  <2>5. \A j \in DOMAIN channel[n] : channel[n][j].sender # node_id[n] =>
           \A i \in DOMAIN delivered'[n] : delivered'[n][i] # channel[n][j].stamp
    BY <1>5, <1>f, <1>o, <2>2, ZenonT(60)
  <2> QED  BY <1>5, <2>2, <2>3, <2>4, <2>5, Zenon DEF OnceAt
<1> QED  BY <1>4, <1>5, ZenonT(30)

LEMMA NextSilent == Typed /\ Silent /\ [Next]_vars => Silent'
<1> SUFFICES ASSUME Typed, Silent, [Next]_vars PROVE Silent'
  BY Zenon
<1>1. ASSUME UNCHANGED <<phase, subscribed, channel>> PROVE Silent'
  BY <1>1, ZenonT(30) DEF Silent
<1>2. ASSUME NEW n \in Nodes, StreamEnds(n) \/ Subscribe(n) \/ Crash(n) PROVE Silent'
  BY <1>2, Zenon DEF StreamEnds, Subscribe, Crash, loadVars, Typed, Silent
<1>3. ASSUME NEW n \in Nodes, HandlePubsubMessage(n) PROVE Silent'
  BY <1>3, ZenonT(60) DEF HandlePubsubMessage, loadVars, Typed, Silent
<1>4. ASSUME NEW n \in Nodes, Start(n) \/ StartAlone(n) \/ Loaded(n) PROVE Silent'
  BY <1>4, ZenonT(60) DEF Start, StartAlone, Loaded, subVars, Typed, Silent
<1>5. ASSUME NEW t \in tasks, Publish(t) PROVE Silent'
  BY <1>5, Zenon DEF Publish, loadVars, Silent
<1>6. ASSUME NEW n \in Nodes, NEW k \in Keys,
             Watch(n, k) \/ Delete(n, k) \/ \E v \in Values : Set(n, k, v)
      PROVE  Silent'
  BY <1>1, <1>6, Zenon DEF Watch, Delete, Set, subVars, loadVars
<1>7. ASSUME NEW n \in Nodes, NEW e \in entries[n], LoadEntry(n, e) PROVE Silent'
  BY <1>1, <1>7, Zenon DEF LoadEntry, subVars
<1>8. ASSUME NEW t \in tasks, StoreEntry(t) \/ StoreFails(t) \/ PublishFails(t)
      PROVE  Silent'
  BY <1>1, <1>8, Zenon DEF StoreEntry, StoreFails, PublishFails, subVars, loadVars
<1>9. CASE UNCHANGED vars
  BY <1>1, <1>9, ZenonT(30) DEF vars, subVars, loadVars
<1> QED
  BY <1>2, <1>3, <1>4, <1>5, <1>6, <1>7, <1>8, <1>9, Zenon DEF Next, SyncStep, SyncFault

LEMMA NextOnce == Typed /\ Silent /\ Stamps /\ Once /\ [Next]_vars => Once'
<1> SUFFICES ASSUME Typed, Silent, Stamps, Once, [Next]_vars PROVE Once'
  BY Zenon
<1>1. ASSUME Kept, stamp' = stamp, \A m \in Nodes : Drained(m), delivered' = delivered,
             \A m \in Nodes : /\ phase'[m] = "down" => phase[m] = "down"
                              /\ node_id'[m] = node_id[m] \/ phase[m] = "down"
      PROVE  Once'
  BY <1>1, KeptOnce, Zenon DEF Once
<1>2. ASSUME NEW n \in Nodes, NEW k \in Keys, Delete(n, k) PROVE Once'
  BY <1>2, ChangeOnce, Zenon DEF Delete, subVars, loadVars
<1>3. ASSUME NEW n \in Nodes, NEW k \in Keys, NEW v \in Values, Set(n, k, v)
      PROVE  Once'
  <2>1. /\ phase[n] = "run" /\ stamp' = stamp + 1
        /\ UNCHANGED <<channel, node_id, phase>>
    BY <1>3, ZenonT(30) DEF Set, subVars, loadVars
  <2>2. CASE Change(n, k, "set", v)
    BY <2>1, <2>2, ChangeOnce, Zenon
  <2>3. CASE SetUnchanged(n, k, v)
    <3>1. UNCHANGED <<tasks, delivered>>
      BY <2>3, Zenon DEF SetUnchanged
    <3>2. \A m \in Nodes : \A i \in DOMAIN delivered[m] : delivered[m][i] \in Nat
      BY StampTypes, SMT, Z3
    <3> QED  BY <2>1, <3>1, <3>2, StampTypes, SMT, Z3 DEF Once, OnceAt
  <2> QED  BY <1>3, <2>2, <2>3, ZenonT(30) DEF Set
<1>4. ASSUME NEW n \in Nodes, StreamEnds(n) PROVE Once'
  <2>1. /\ stamp' = stamp /\ tasks' = tasks /\ \A m \in Nodes : Drained(m)
        /\ UNCHANGED <<delivered, phase, node_id>>
    BY <1>4, Zenon DEF StreamEnds, Drained, loadVars, Typed
  <2> QED  BY <1>1, <2>1, SubsetKept, Zenon DEF Stamps
<1>5. ASSUME NEW n \in Nodes, HandlePubsubMessage(n) PROVE Once'
  <2> DEFINE x == Head(channel[n])
  <2>1. /\ stamp' = stamp /\ tasks' = tasks /\ \A m \in Nodes : Drained(m)
        /\ UNCHANGED <<phase, node_id>> /\ channel[n] # <<>>
    BY <1>5, ZenonT(60) DEF HandlePubsubMessage, Drained, loadVars, countVars, Typed
  <2>2. Kept
    BY <2>1, SubsetKept, Zenon DEF Stamps
  <2>3. CASE x.sender = node_id[n]
    <3>1. delivered' = delivered
      BY <1>5, <2>3, ZenonT(60) DEF HandlePubsubMessage
    <3> QED  BY <1>1, <2>1, <2>2, <3>1, Zenon
  <2>4. CASE x.sender # node_id[n]
    <3>1. delivered' = [delivered EXCEPT ![n] = Append(@, x.stamp)]
      BY <1>5, <2>4, Zenon DEF HandlePubsubMessage, Broadcast
    <3>2. ASSUME NEW m \in Nodes, m # n PROVE OnceAt(m)'
      <4>1. delivered'[m] = delivered[m]
        BY <3>1, <3>2, Zenon DEF Typed
      <4> QED  BY <2>1, <2>2, <4>1, KeptOnce, ZenonT(30)
    <3>3. OnceAt(n)'
      <4>1. channel[n] \in Seq(Message) /\ delivered[n] \in Seq(Nat)
        BY StampTypes, Zenon
      <4>2. /\ 1 \in DOMAIN channel[n] /\ x = channel[n][1]
            /\ channel'[n] = Tail(channel[n])
        <5>1. 1 \in DOMAIN channel[n] /\ Head(channel[n]) = channel[n][1]
          BY <2>1, <4>1, SMT, Z3
        <5>2. channel' = [channel EXCEPT ![n] = Tail(@)] /\ n \in DOMAIN channel
          BY <1>5, Zenon DEF HandlePubsubMessage, Typed
        <5> QED  BY <5>1, <5>2, Zenon
      <4>3. /\ x.stamp \in Nat /\ x.stamp <= stamp
            /\ \A t \in tasks : t.stamp # x.stamp
            /\ \A i \in DOMAIN delivered[n] : delivered[n][i] # x.stamp
            /\ \A j \in DOMAIN channel[n] : channel[n][j].stamp = x.stamp => j = 1
        BY <2>4, <4>2, StampTypes, SMTT(30), Z3T(30) DEF Stamps, ChannelStamps, Once, OnceAt
      <4>4. /\ IsInjective(delivered'[n])
            /\ \A i \in DOMAIN delivered'[n] :
                  \/ delivered'[n][i] = x.stamp
                  \/ i \in DOMAIN delivered[n] /\ delivered'[n][i] = delivered[n][i]
        <5>1. delivered'[n] = Append(delivered[n], x.stamp)
          BY <3>1, Zenon DEF Typed
        <5>2. IsInjective(delivered[n])
          BY Zenon DEF Once, OnceAt
        <5> HIDE DEF x
        <5> QED  BY <4>1, <4>3, <5>1, <5>2, AppendInjective, SMT, Z3
      <4>5. \A i \in DOMAIN channel'[n] :
               /\ i + 1 \in DOMAIN channel[n] /\ i + 1 # 1
               /\ channel'[n][i] = channel[n][i + 1]
        BY <4>1, <4>2, SMT, Z3
      <4>6. phase'[n] # "down"
        BY <2>1, Zenon DEF Silent
      <4> HIDE DEF x
      <4> QED  BY <2>1, <4>3, <4>4, <4>5, <4>6, SMT, Z3 DEF Once, OnceAt
    <3> QED  BY <3>2, <3>3, Zenon DEF Once
  <2> QED  BY <2>3, <2>4, Zenon
<1>6. ASSUME NEW n \in Nodes, Crash(n) PROVE Once'
  <2>1. /\ stamp' = stamp /\ Kept /\ \A m \in Nodes : Drained(m)
        /\ UNCHANGED node_id /\ delivered'[n] = <<>>
        /\ \A m \in Nodes \ {n} : delivered'[m] = delivered[m] /\ phase'[m] = phase[m]
    BY <1>6, CrashKept, Zenon DEF Crash, Drained, Typed, Stamps
  <2> QED  BY <2>1, NothingDelivered, KeptOnce, Zenon DEF Once
<1>7. ASSUME NEW n \in Nodes, Start(n) \/ StartAlone(n) \/ Loaded(n) PROVE Once'
  <2>1. /\ stamp' = stamp /\ tasks' = tasks /\ channel' = channel
        /\ delivered' = delivered
        /\ \A m \in Nodes : /\ phase'[m] = "down" => phase[m] = "down"
                            /\ node_id'[m] = node_id[m] \/ phase[m] = "down"
    BY <1>7, Zenon DEF Start, StartAlone, Loaded, subVars, histVars, countVars, Typed
  <2> QED  BY <1>1, <2>1, SubsetKept, Zenon DEF Stamps, Drained
<1>8. ASSUME NEW t \in tasks, StoreEntry(t) \/ StoreFails(t) \/ PublishFails(t)
      PROVE  Once'
  <2>1. stamp' = stamp /\ UNCHANGED <<channel, delivered, phase, node_id>>
    BY <1>8, ZenonT(30) DEF StoreEntry, StoreFails, PublishFails, countVars, subVars, loadVars
  <2>2. Kept
    BY <1>8, OnwardKept, SubsetKept, Zenon DEF StoreEntry, StoreFails, PublishFails, Stamps
  <2> QED  BY <1>1, <2>1, <2>2, Zenon DEF Drained
<1>9. ASSUME NEW t \in tasks, Publish(t) PROVE Once'
  <2> SUFFICES ASSUME NEW n \in Nodes PROVE OnceAt(n)'
    BY Zenon DEF Once
  <2>1. /\ stamp' = stamp /\ tasks' \subseteq tasks
        /\ UNCHANGED <<delivered, phase, node_id>>
    BY <1>9, Zenon DEF Publish, countVars, loadVars
  <2>2. channel[n] \in Seq(Message)
    BY StampTypes, Zenon
  <2>3. \A j \in DOMAIN channel'[n] :
           \/ j \in DOMAIN channel[n] /\ channel'[n][j] = channel[n][j]
           \/ channel'[n][j].sender = t.sender /\ channel'[n][j].stamp = t.stamp
    <3> DEFINE m == [sender |-> t.sender, key |-> t.key, value |-> t.value,
                     stamp |-> t.stamp]
    <3>1. channel'[n] = channel[n] \/ channel'[n] = Append(channel[n], m)
      BY <1>9, Zenon DEF Publish
    <3>2. m.sender = t.sender /\ m.stamp = t.stamp
      BY ZenonT(30)
    <3> HIDE DEF m
    <3> QED  BY <2>2, <3>1, <3>2, SMT, Z3
  <2> QED  BY <2>1, <2>3, SMT, Z3 DEF Once, OnceAt
<1>10. ASSUME NEW n \in Nodes, \/ Subscribe(n) \/ \E k \in Keys : Watch(n, k)
                               \/ \E e \in entries[n] : LoadEntry(n, e)
       PROVE  Once'
  <2>1. UNCHANGED <<delivered, phase, node_id, tasks, channel, stamp>>
    BY <1>10, Zenon DEF Subscribe, Watch, LoadEntry, subVars, loadVars, histVars, countVars
  <2> QED  BY <2>1, ZenonT(60) DEF Once, OnceAt
<1>11. CASE UNCHANGED vars
  <2>1. UNCHANGED <<delivered, phase, node_id, tasks, channel, stamp>>
    BY <1>11, ZenonT(30) DEF vars, subVars, loadVars, histVars, countVars
  <2> QED  BY <2>1, ZenonT(60) DEF Once, OnceAt
<1> QED
  BY <1>2, <1>3, <1>4, <1>5, <1>6, <1>7, <1>8, <1>9, <1>10, <1>11, Zenon
  DEF Next, SyncStep, SyncFault

-----------------------------------------------------------------------------
(* The Redis hash *)

\* Mutations of k whose command is still to run
ToStore(k) == {t \in tasks : t.key = k /\ t.at = "store"}

\* The hash has the value of the last mutation and what is still to be stored
\* is older than what was; or that value is the newest of what is to be stored.
Stored(k) ==
    /\ redis[k].value = last[k].value
    /\ \A t \in ToStore(k) : t.stamp < last[k].stored
Newest(k, t) ==
    /\ t.value = last[k].value /\ last[k].stored < t.stamp
    /\ \A u \in ToStore(k) : u.stamp <= t.stamp

HashOf(k) ==
    /\ last[k].stored <= last[k].stamp /\ last[k].stamp <= stamp
    /\ \A t \in tasks : t.key = k =>
          /\ t.stamp <= last[k].stamp
          /\ t.stamp = last[k].stamp => t.value = last[k].value
          /\ t.op = "delete" => t.value = Null
          /\ t.at = "store" => t.stamp # last[k].stored
    /\ k \in missed \/ Stored(k) \/ \E t \in ToStore(k) : Newest(k, t)

LastTyped == last \in [Keys -> [stamp : Nat, value : AllValues, stored : Nat]]
Hash == LastTyped /\ \A k \in Keys : HashOf(k)

LEMMA HashTypes ==
    ASSUME Typed, LastTyped, NEW k \in Keys
    PROVE  /\ last[k].stored \in Nat /\ last[k].stamp \in Nat /\ stamp \in Nat
           /\ \A t \in tasks : t.stamp \in Nat
BY StampTypes, Zenon DEF LastTyped

\* The same mutation, possibly further on
SameAs(t, u) ==
    /\ t.key = u.key /\ t.stamp = u.stamp /\ t.value = u.value /\ t.op = u.op
    /\ t.at = "store" => u.at = "store"

\* A step that stores nothing for k and loses no command of k, unless k is missed.
LEMMA HashKept ==
    ASSUME Typed, Typed', LastTyped, NEW k \in Keys, HashOf(k),
           redis'[k] = redis[k], last'[k] = last[k], stamp <= stamp',
           k \in missed => k \in missed',
           \A t \in tasks' : t.key = k => \E u \in tasks : SameAs(t, u),
           k \in missed' \/ \A u \in ToStore(k) :
                                \E t \in tasks' : SameAs(t, u) /\ t.at = "store"
    PROVE  HashOf(k)'
<1>1. /\ last[k].stamp \in Nat /\ last[k].stamp <= stamp /\ stamp \in Nat /\ stamp' \in Nat
      /\ last[k].stored <= last[k].stamp
  BY HashTypes, Zenon DEF Typed, HashOf
<1>2. last'[k].stored <= last'[k].stamp /\ last'[k].stamp <= stamp'
  BY <1>1, SMT, Z3
<1>3. ASSUME NEW t \in tasks', t.key = k
      PROVE  /\ t.stamp <= last'[k].stamp
             /\ t.stamp = last'[k].stamp => t.value = last'[k].value
             /\ t.op = "delete" => t.value = Null
             /\ t.at = "store" => t.stamp # last'[k].stored
  <2>1. PICK u \in tasks : SameAs(t, u)
    BY <1>3, ZenonT(30)
  <2> QED  BY <1>3, <2>1, ZenonT(30) DEF HashOf, SameAs
<1>4. \A t \in ToStore(k)' : \E u \in ToStore(k) : SameAs(t, u)
  <2> SUFFICES ASSUME NEW t \in tasks', t.key = k, t.at = "store"
               PROVE  \E u \in ToStore(k) : SameAs(t, u)
    BY Zenon DEF ToStore
  <2>1. PICK u \in tasks : SameAs(t, u)
    BY ZenonT(30)
  <2> QED  BY <2>1, Zenon DEF ToStore, SameAs
<1>5. CASE Stored(k)
  <2>1. Stored(k)'
    BY <1>4, <1>5, Zenon DEF Stored, SameAs
  <2> QED  BY <1>2, <1>3, <2>1, Zenon DEF HashOf
<1>6. ASSUME k \notin missed', NEW u \in ToStore(k), Newest(k, u)
      PROVE  HashOf(k)'
  <2>1. PICK t \in tasks' : SameAs(t, u) /\ t.at = "store"
    BY <1>6, ZenonT(30)
  <2>2. t \in ToStore(k)' /\ Newest(k, t)'
    BY <1>4, <1>6, <2>1, Zenon DEF ToStore, Newest, SameAs
  <2> QED  BY <1>2, <1>3, <2>2, Zenon DEF HashOf
<1>7. CASE k \in missed'
  BY <1>2, <1>3, <1>7, Zenon DEF HashOf
<1> QED  BY <1>5, <1>6, <1>7, Zenon DEF HashOf

\* A mutation of k: its command is the newest one, or k is missed.
LEMMA ChangeHash ==
    ASSUME Typed, LastTyped, NEW k \in Keys, HashOf(k), NEW n \in Nodes,
           NEW op \in {"set", "delete"}, NEW v \in AllValues, op = "delete" => v = Null,
           Change(n, k, op, v), stamp' = stamp + 1,
           last'[k].stamp = stamp + 1, last'[k].value = v, last'[k].stored = last[k].stored
    PROVE  HashOf(k)'
<1>x. PICK x : x = SyncTask(n, k, op, v)
  BY ZenonT(30)
<1>1. /\ last[k].stamp \in Nat /\ last[k].stamp <= stamp /\ stamp \in Nat
      /\ last[k].stored <= last[k].stamp /\ last[k].stored \in Nat
      /\ \A t \in tasks : t.stamp \in Nat /\ (t.key = k => t.stamp <= last[k].stamp)
  BY HashTypes, Zenon DEF HashOf
<1>2. /\ last[k].stored <= stamp + 1 /\ last[k].stored < stamp + 1 /\ stamp + 1 <= stamp + 1
      /\ stamp + 1 # last[k].stored
  BY <1>1, SMTT(30), Z3T(30)
<1>3. \A t \in tasks : t.key = k => t.stamp <= stamp + 1 /\ t.stamp # stamp + 1
  BY <1>1, SMTT(30), Z3T(30)
<1>4. x.key = k /\ x.stamp = stamp + 1 /\ x.value = v /\ x.op = op /\ x.at = "store"
  BY <1>x, Zenon DEF SyncTask
<1>5. ASSUME NEW t \in tasks', t.key = k
      PROVE  /\ t.stamp <= last'[k].stamp
             /\ t.stamp = last'[k].stamp => t.value = last'[k].value
             /\ t.op = "delete" => t.value = Null
             /\ t.at = "store" => t.stamp # last'[k].stored
  <2>1. t \in tasks \/ t = x
    BY <1>x, Zenon DEF Change
  <2>2. CASE t = x
    BY <1>2, <1>4, <2>2, Zenon
  <2>3. CASE t \in tasks
    BY <1>3, <1>5, <2>3, Zenon DEF HashOf
  <2> QED  BY <2>1, <2>2, <2>3, ZenonT(30)
<1>6. CASE ~cluster[n]
  <2>1. k \in missed'
    BY <1>6, Zenon DEF Change
  <2> QED  BY <1>2, <1>5, <2>1, Zenon DEF HashOf
<1>7. CASE cluster[n]
  <2>1. tasks' = tasks \cup {x}
    BY <1>x, <1>7, Zenon DEF Change
  <2>2. x \in ToStore(k)'
    BY <1>4, <2>1, Zenon DEF ToStore
  <2>3. Newest(k, x)'
    BY <1>2, <1>3, <1>4, <2>1, ZenonT(30) DEF Newest, ToStore
  <2> QED  BY <1>2, <1>5, <2>2, <2>3, Zenon DEF HashOf
<1> QED  BY <1>6, <1>7, ZenonT(30)

\* HSET or HDEL for k
LEMMA StoreHash ==
    ASSUME Typed, TaskStamps, LastTyped, NEW t \in tasks, HashOf(t.key), StoreEntry(t)
    PROVE  HashOf(t.key)'
<1> DEFINE k == t.key
           p == [t EXCEPT !.at = "publish"]
<1>1. /\ t \in Task /\ k \in Keys /\ t.op \in {"set", "delete"} /\ t.stamp \in Nat
      /\ t.at = "store" /\ stamp' = stamp
  BY Zenon DEF Typed, Task, StoreEntry, countVars
<1>2. /\ last[k].stored \in Nat /\ last[k].stamp \in Nat /\ stamp \in Nat
      /\ \A u \in tasks : u.stamp \in Nat
  BY <1>1, HashTypes, Zenon
<1>3. redis'[k].value = t.value
  <2>1. redis'[k] = IF t.op = "set" THEN [version |-> t.version, value |-> t.value] ELSE NoEntry
    BY <1>1, Zenon DEF StoreEntry, Typed
  <2>2. t.op # "set" => t.value = Null
    BY <1>1, Zenon DEF HashOf
  <2>3. NoEntry.value = Null
    BY ZenonT(30) DEF NoEntry
  <2> QED  BY <2>1, <2>2, <2>3, SMT, Z3
<1>4. /\ last'[k].value = last[k].value /\ last'[k].stamp = last[k].stamp
      /\ last'[k].stored = IF t.stamp > last[k].stored THEN t.stamp ELSE last[k].stored
  <2> DEFINE s == IF t.stamp > last[k].stored THEN t.stamp ELSE last[k].stored
  <2>1. last' = [last EXCEPT ![k] = [last[k] EXCEPT !.stored = s]]
    BY Zenon DEF StoreEntry
  <2> HIDE DEF s
  <2>2. last'[k] = [last[k] EXCEPT !.stored = s] /\ last[k] \in [stamp : Nat, value : AllValues, stored : Nat]
    BY <1>1, <2>1, Zenon DEF LastTyped
  <2>3. last'[k].value = last[k].value /\ last'[k].stamp = last[k].stamp /\ last'[k].stored = s
    BY <2>2, Zenon
  <2> QED  BY <2>3, Zenon DEF s
<1>5. p.stamp = t.stamp /\ p.key = k /\ p.value = t.value /\ p.op = t.op /\ p.at # "store"
  BY <1>1, ZenonT(30) DEF Task
<1>6. \A u \in tasks' : u = p \/ (u \in tasks /\ u # t)
  BY Zenon DEF StoreEntry, Onward
<1>7. \A u \in tasks : u # t => u \in tasks' /\ u.stamp # t.stamp
  BY Zenon DEF StoreEntry, Onward, TaskStamps
<1> HIDE DEF k, p
<1>8. /\ last[k].stored <= last[k].stamp /\ last[k].stamp <= stamp
      /\ t.stamp <= last[k].stamp /\ t.stamp # last[k].stored
      /\ t.stamp = last[k].stamp => t.value = last[k].value
  BY <1>1, Zenon DEF HashOf, k
<1>9. last'[k].stored <= last'[k].stamp /\ last'[k].stamp <= stamp'
  BY <1>1, <1>2, <1>4, <1>8, ZenonT(30)
<1>10. ASSUME NEW u \in tasks', u.key = k
       PROVE  /\ u.stamp <= last'[k].stamp
              /\ u.stamp = last'[k].stamp => u.value = last'[k].value
              /\ u.op = "delete" => u.value = Null
              /\ u.at = "store" => u.stamp # last'[k].stored
  <2>1. CASE u = p
    BY <1>4, <1>5, <1>8, <2>1, Zenon DEF HashOf, k
  <2>2. CASE u \in tasks /\ u # t
    BY <1>4, <1>7, <1>10, <2>2, Zenon DEF HashOf, k
  <2> QED  BY <1>6, <2>1, <2>2, ZenonT(30)
<1>11. SUFFICES k \in missed' \/ Stored(k)' \/ \E u \in ToStore(k)' : Newest(k, u)'
  BY <1>9, <1>10, Zenon DEF HashOf, k
<1>12. CASE t.stamp < last[k].stored
  BY <1>12, Zenon DEF StoreEntry, k
<1>13. CASE ~(t.stamp < last[k].stored)
  <2>1. t.stamp > last[k].stored /\ last'[k].stored = t.stamp
    BY <1>1, <1>2, <1>4, <1>8, <1>13, SMT, Z3
  \* What is left of k to store, if none of it is newer than t
  <2>2. ASSUME t.value = last[k].value, \A u \in ToStore(k) : u.stamp <= t.stamp
        PROVE  Stored(k)'
    <3>1. ASSUME NEW u \in ToStore(k)' PROVE u.stamp < last'[k].stored
      <4>1. u \in tasks /\ u # t /\ u \in ToStore(k)
        BY <1>5, <1>6, Zenon DEF ToStore
      <4>2. u.stamp <= t.stamp /\ u.stamp # t.stamp /\ u.stamp \in Nat
        BY <1>2, <1>7, <2>2, <4>1, Zenon
      <4> QED  BY <1>1, <2>1, <4>2, SMT, Z3
    <3> QED  BY <1>3, <1>4, <2>2, <3>1, Zenon DEF Stored, k
  <2>3. CASE t.stamp = last[k].stamp
    <3>1. \A u \in ToStore(k) : u.stamp <= t.stamp
      BY <2>3, Zenon DEF ToStore, HashOf, k
    <3> QED  BY <1>8, <2>2, <2>3, <3>1, Zenon
  <2>4. CASE t.stamp # last[k].stamp
    <3>1. k \in missed => k \in missed'
      BY <1>13, <2>4, Zenon DEF StoreEntry, k
    <3>2. t \in ToStore(k)
      BY <1>1, Zenon DEF ToStore, k
    <3>3. ~Stored(k)
      BY <1>13, <3>2, Zenon DEF Stored
    <3>4. ASSUME NEW w \in ToStore(k), Newest(k, w)
          PROVE  Stored(k)' \/ \E u \in ToStore(k)' : Newest(k, u)'
      <4>1. CASE w = t
        BY <2>2, <3>4, <4>1, Zenon DEF Newest
      <4>2. CASE w # t
        <5>1. w \in tasks /\ w.stamp # t.stamp /\ t.stamp <= w.stamp /\ w.stamp \in Nat
          BY <1>2, <1>7, <3>2, <3>4, <4>2, Zenon DEF ToStore, Newest
        <5>2. last'[k].stored < w.stamp
          BY <1>1, <2>1, <5>1, SMT, Z3
        <5>3. w \in ToStore(k)' /\ \A u \in ToStore(k)' : u \in ToStore(k)
          BY <1>5, <1>6, <1>7, <3>4, <4>2, Zenon DEF ToStore
        <5>4. Newest(k, w)'
          BY <1>4, <3>4, <5>2, <5>3, Zenon DEF Newest
        <5> QED  BY <5>3, <5>4, ZenonT(30)
      <4> QED  BY <4>1, <4>2, ZenonT(30)
    <3> QED  BY <3>1, <3>3, <3>4, Zenon DEF HashOf, k
  <2> QED  BY <2>3, <2>4, Zenon
<1> QED  BY <1>12, <1>13, ZenonT(30)

LEMMA NextHash == Typed /\ Typed' /\ Stamps /\ Hash /\ [Next]_vars => Hash'
<1> SUFFICES ASSUME Typed, Typed', Stamps, Hash, [Next]_vars PROVE Hash'
  BY Zenon
<1>t. LastTyped /\ stamp \in Nat /\ \A k \in Keys : HashOf(k)
  BY Zenon DEF Hash, Typed
<1>i. \A t \in tasks : SameAs(t, t)
  BY ZenonT(30) DEF SameAs
\* Nothing is stored, and no command is lost unless its key is missed.
<1>1. ASSUME UNCHANGED <<redis, last>>, stamp' = stamp, missed \subseteq missed',
             \A t \in tasks' : \E u \in tasks : SameAs(t, u),
             \A k \in Keys \ missed' : \A u \in ToStore(k) :
                 \E t \in tasks' : SameAs(t, u) /\ t.at = "store"
      PROVE  Hash'
  <2>1. stamp <= stamp'
    BY <1>t, <1>1, SMT, Z3
  <2>2. LastTyped' /\ redis' = redis /\ last' = last
    BY <1>t, <1>1, Zenon DEF LastTyped
  <2>3. ASSUME NEW k \in Keys PROVE HashOf(k)'
    BY <1>t, <1>1, <2>1, <2>2, HashKept, Zenon
  <2> QED  BY <2>2, <2>3, Zenon DEF Hash
<1>2. ASSUME UNCHANGED <<redis, last, stamp, missed, tasks>> PROVE Hash'
  <2>1. \A k \in Keys \ missed' : \A u \in ToStore(k) :
            \E t \in tasks' : SameAs(t, u) /\ t.at = "store"
    BY <1>2, <1>i, Zenon DEF ToStore
  <2>2. /\ UNCHANGED <<redis, last>> /\ stamp' = stamp /\ missed \subseteq missed'
        /\ tasks' = tasks
    BY <1>2, Zenon
  <2> QED  BY <1>1, <1>i, <2>1, <2>2, Zenon
\* A mutation
<1>3. ASSUME NEW n \in Nodes, NEW k \in Keys, NEW v \in AllValues,
             Set(n, k, v) \/ (Delete(n, k) /\ v = Null)
      PROVE  Hash'
  <2> DEFINE e == [last[k] EXCEPT !.stamp = stamp + 1, !.value = v]
  <2>1. /\ last' = [last EXCEPT ![k] = e] /\ redis' = redis /\ stamp' = stamp + 1
        /\ \/ Change(n, k, "set", v) \/ (Change(n, k, "delete", v) /\ v = Null)
           \/ SetUnchanged(n, k, v)
    BY <1>3, Zenon DEF Set, Delete
  <2>2. stamp + 1 \in Nat /\ stamp <= stamp + 1
    BY <1>t, SMT, Z3
  <2>3. /\ e \in [stamp : Nat, value : AllValues, stored : Nat]
        /\ e.stamp = stamp + 1 /\ e.value = v /\ e.stored = last[k].stored
    <3> DEFINE s == stamp + 1
    <3>1. s \in Nat /\ last[k] \in [stamp : Nat, value : AllValues, stored : Nat]
      BY <1>t, <2>2, Zenon DEF LastTyped
    <3> HIDE DEF s
    <3>2. LET f == [last[k] EXCEPT !.stamp = s, !.value = v]
          IN /\ f \in [stamp : Nat, value : AllValues, stored : Nat]
             /\ f.stamp = s /\ f.value = v /\ f.stored = last[k].stored
      BY <3>1, Zenon
    <3> QED  BY <3>2, ZenonT(30) DEF s
  <2> HIDE DEF e
  <2>4. LastTyped' /\ last'[k] = e /\ \A j \in Keys : j # k => last'[j] = last[j]
    BY <1>t, <2>1, <2>3, Zenon DEF LastTyped
  <2>5. ASSUME NEW j \in Keys, j # k PROVE HashOf(j)'
    <3>1. /\ tasks \subseteq tasks' /\ (j \in missed => j \in missed')
          /\ \A t \in tasks' : t.key = j => t \in tasks
      <4>1. \A op : SyncTask(n, k, op, v).key = k
        BY ZenonT(30) DEF SyncTask
      <4>2. CASE SetUnchanged(n, k, v)
        <5>1. tasks' = tasks /\ missed \subseteq missed'
          BY <4>2, Zenon DEF SetUnchanged
        <5> QED  BY <5>1, Zenon
      <4>3. ASSUME NEW op, Change(n, k, op, v)
            PROVE  /\ tasks \subseteq tasks' /\ missed \subseteq missed'
                   /\ \A t \in tasks' : t \in tasks \/ t = SyncTask(n, k, op, v)
        BY <4>3, Zenon DEF Change
      <4>4. ASSUME NEW op, Change(n, k, op, v)
            PROVE  /\ tasks \subseteq tasks' /\ (j \in missed => j \in missed')
                   /\ \A t \in tasks' : t.key = j => t \in tasks
        <5>1. SyncTask(n, k, op, v).key # j
          BY <2>5, <4>1, Zenon
        <5> QED  BY <4>3, <4>4, <5>1, Zenon
      <4> QED  BY <2>1, <4>2, <4>4, Zenon
    <3>2. \A u \in ToStore(j) : \E t \in tasks' : SameAs(t, u) /\ t.at = "store"
      BY <1>i, <3>1, Zenon DEF ToStore
    <3>3. /\ redis'[j] = redis[j] /\ last'[j] = last[j] /\ stamp <= stamp'
          /\ \A t \in tasks' : t.key = j => \E u \in tasks : SameAs(t, u)
      BY <1>i, <2>1, <2>2, <2>4, <2>5, <3>1, Zenon
    <3> QED  BY <1>t, <3>1, <3>2, <3>3, HashKept, Zenon
  <2>6. HashOf(k)'
    <3>1. /\ last'[k].stamp = stamp + 1 /\ last'[k].value = v
          /\ last'[k].stored = last[k].stored
      BY <2>3, <2>4, Zenon
    <3>2. CASE Change(n, k, "set", v) \/ (Change(n, k, "delete", v) /\ v = Null)
      <4>1. "set" \in {"set", "delete"} /\ "delete" \in {"set", "delete"} /\ "set" # "delete"
        BY ZenonT(30)
      <4> QED  BY <1>t, <2>1, <3>1, <3>2, <4>1, ChangeHash, Zenon
    <3>3. CASE SetUnchanged(n, k, v)
      <4>1. /\ tasks' = tasks /\ missed \subseteq missed'
            /\ v = last[k].value \/ k \in missed'
        BY <3>3, Zenon DEF SetUnchanged
      <4>2. /\ last[k].stamp \in Nat /\ last[k].stamp <= stamp /\ last[k].stored \in Nat
            /\ last[k].stored <= last[k].stamp
            /\ \A t \in tasks : t.stamp \in Nat /\ (t.key = k => t.stamp <= last[k].stamp)
        BY <1>t, HashTypes, Zenon DEF HashOf
      <4>3. /\ last[k].stored <= stamp + 1 /\ stamp + 1 <= stamp + 1
            /\ \A t \in tasks : t.key = k => t.stamp <= stamp + 1 /\ t.stamp # stamp + 1
        BY <1>t, <4>2, SMT, Z3
      <4>4. /\ last'[k].stored <= last'[k].stamp /\ last'[k].stamp <= stamp'
            /\ \A t \in tasks' : t.key = k =>
                  /\ t.stamp <= last'[k].stamp
                  /\ t.stamp = last'[k].stamp => t.value = last'[k].value
                  /\ t.op = "delete" => t.value = Null
                  /\ t.at = "store" => t.stamp # last'[k].stored
        BY <1>t, <2>1, <3>1, <4>1, <4>3, Zenon DEF HashOf
      <4>5. k \in missed' \/ Stored(k)' \/ \E t \in ToStore(k)' : Newest(k, t)'
        <5>1. CASE v = last[k].value
          <6>1. Stored(k) => Stored(k)'
            BY <2>1, <3>1, <4>1, <5>1, Zenon DEF Stored, ToStore
          <6>2. \A t \in ToStore(k) : t \in ToStore(k)' /\ (Newest(k, t) => Newest(k, t)')
            BY <3>1, <4>1, <5>1, Zenon DEF Newest, ToStore
          <6> QED  BY <1>t, <4>1, <6>1, <6>2, Zenon DEF HashOf
        <5> QED  BY <4>1, <5>1, ZenonT(30)
      <4> QED  BY <4>4, <4>5, Zenon DEF HashOf
    <3> QED  BY <2>1, <3>2, <3>3, ZenonT(30)
  <2> QED  BY <2>4, <2>5, <2>6, Zenon DEF Hash
\* The tasks
<1>4. ASSUME NEW t \in tasks, StoreEntry(t) PROVE Hash'
  <2> DEFINE k == t.key
             e == [last[k] EXCEPT !.stored = IF t.stamp > @ THEN t.stamp ELSE @]
  <2>1. k \in Keys /\ t.stamp \in Nat /\ t \in Task /\ t.at = "store"
    BY <1>4, Zenon DEF Typed, Task, StoreEntry
  <2>2. /\ last' = [last EXCEPT ![k] = e] /\ stamp' = stamp
        /\ \A j \in Keys : j # k => redis'[j] = redis[j] /\ (j \in missed => j \in missed')
    BY <1>4, Zenon DEF StoreEntry, countVars, Typed
  <2>3. e \in [stamp : Nat, value : AllValues, stored : Nat]
    BY <1>t, <2>1, Zenon DEF LastTyped
  <2> HIDE DEF e
  <2>4. LastTyped' /\ \A j \in Keys : j # k => last'[j] = last[j]
    BY <1>t, <2>1, <2>2, <2>3, Zenon DEF LastTyped
  <2>5. ASSUME NEW j \in Keys, j # k PROVE HashOf(j)'
    <3>1. [t EXCEPT !.at = "publish"].key = k
      BY <2>1, Zenon DEF Task
    <3>2. /\ \A u \in tasks' : u.key = j => u \in tasks
          /\ \A u \in tasks : u.key = j => u \in tasks'
      BY <1>4, <2>5, <3>1, Zenon DEF StoreEntry, Onward
    <3>3. /\ \A u \in ToStore(j) : \E x \in tasks' : SameAs(x, u) /\ x.at = "store"
          /\ \A u \in tasks' : u.key = j => \E x \in tasks : SameAs(u, x)
      BY <1>i, <3>2, Zenon DEF ToStore
    <3>4. stamp <= stamp'
      BY <1>t, <2>2, SMT, Z3
    <3> QED  BY <1>t, <2>2, <2>4, <2>5, <3>3, <3>4, HashKept, Zenon
  <2>6. HashOf(k)'
    BY <1>t, <1>4, <2>1, StoreHash, Zenon DEF Stamps
  <2> QED  BY <2>4, <2>5, <2>6, Zenon DEF Hash
<1>5. ASSUME NEW t \in tasks, StoreFails(t) PROVE Hash'
  <2> DEFINE p == [t EXCEPT !.at = "publish"]
  <2>1. t \in Task /\ UNCHANGED <<redis, last>> /\ stamp' = stamp /\ missed' = missed \cup {t.key}
    BY <1>5, Zenon DEF Typed, StoreFails
  <2>2. SameAs(p, t) /\ p.key = t.key
    BY <2>1, ZenonT(30) DEF Task, SameAs
  <2>3. (\A u \in tasks' : u = p \/ u \in tasks) /\ \A u \in tasks : u # t => u \in tasks'
    BY <1>5, Zenon DEF StoreFails, Onward
  <2> HIDE DEF p
  <2>4. \A u \in tasks' : \E x \in tasks : SameAs(u, x)
    BY <1>i, <2>2, <2>3, Zenon
  <2>5. \A k \in Keys \ missed' : \A u \in ToStore(k) :
            \E x \in tasks' : SameAs(x, u) /\ x.at = "store"
    BY <1>i, <2>1, <2>3, Zenon DEF ToStore
  <2> QED  BY <1>1, <2>1, <2>4, <2>5, Zenon
<1>6. ASSUME NEW t \in tasks, Publish(t) \/ PublishFails(t) PROVE Hash'
  <2>1. /\ UNCHANGED <<redis, last>> /\ stamp' = stamp /\ missed' = missed
        /\ tasks' = tasks \ {t} /\ t.at = "publish"
    BY <1>6, Zenon DEF Publish, PublishFails, countVars
  <2>2. t.at # "store"
    BY <2>1, ZenonT(30)
  <2>3. \A k \in Keys \ missed' : \A u \in ToStore(k) :
            \E x \in tasks' : SameAs(x, u) /\ x.at = "store"
    BY <1>i, <2>1, <2>2, Zenon DEF ToStore
  <2> QED  BY <1>1, <1>i, <2>1, <2>3, Zenon
<1>7. ASSUME NEW n \in Nodes, Crash(n) PROVE Hash'
  <2> DEFINE mine == {t \in tasks : t.sender = node_id[n] /\ ~t.orphan}
             Orphan(u) == [u EXCEPT !.orphan = TRUE]
  <2>1. PICK sent \in SUBSET mine :
            /\ tasks' = (tasks \ mine) \cup {Orphan(t) : t \in sent}
            /\ missed' = missed \cup {t.key : t \in {u \in mine \ sent : u.at = "store"}}
    BY <1>7, Zenon DEF Crash
  <2>2. \A u \in Task : SameAs(Orphan(u), u) /\ Orphan(u).at = u.at
    BY ZenonT(30) DEF Task, SameAs
  <2>3. UNCHANGED <<redis, last>> /\ stamp' = stamp /\ tasks \subseteq Task
    BY <1>7, Zenon DEF Crash, Typed
  <2> HIDE DEF Orphan
  <2>4. \A t \in tasks' : \E u \in tasks : SameAs(t, u)
    BY <1>i, <2>1, <2>2, <2>3, Zenon
  <2>5. ASSUME NEW k \in Keys \ missed', NEW u \in ToStore(k)
        PROVE  \E t \in tasks' : SameAs(t, u) /\ t.at = "store"
    <3>1. u \in tasks /\ u.at = "store" /\ u.key = k /\ u \in Task
      BY <2>3, Zenon DEF ToStore
    <3>2. CASE u \notin mine
      <4>1. u \in tasks'
        BY <2>1, <3>1, <3>2, Zenon
      <4> QED  BY <1>i, <3>1, <4>1, Zenon
    <3>3. CASE u \in mine
      <4>1. u \in sent
        BY <2>1, <3>1, <3>3, Zenon
      <4>2. Orphan(u) \in tasks'
        BY <2>1, <4>1, Zenon
      <4> QED  BY <2>2, <3>1, <4>2, Zenon
    <3> QED  BY <3>2, <3>3, ZenonT(30)
  <2> QED  BY <1>1, <2>1, <2>3, <2>4, <2>5, Zenon
<1>8. ASSUME NEW n \in Nodes,
             \/ Subscribe(n) \/ StreamEnds(n) \/ HandlePubsubMessage(n) \/ Start(n)
             \/ StartAlone(n) \/ Loaded(n) \/ \E k \in Keys : Watch(n, k)
             \/ \E e \in entries[n] : LoadEntry(n, e)
      PROVE  Hash'
  <2>1. UNCHANGED <<redis, last, stamp, missed, tasks>>
    BY <1>8, ZenonT(30) DEF Subscribe, StreamEnds, HandlePubsubMessage, Start, StartAlone,
       Loaded, Watch, LoadEntry, histVars, countVars
  <2> QED  BY <1>2, <2>1, ZenonT(30)
<1>9. CASE UNCHANGED vars
  BY <1>2, <1>9, Zenon DEF vars, histVars, countVars
<1>v. Null \in AllValues /\ Values \subseteq AllValues
  BY ZenonT(30) DEF AllValues
<1>10. CASE Next
  BY <1>3, <1>4, <1>5, <1>6, <1>7, <1>8, <1>10, <1>v, ZenonT(60) DEF Next, SyncStep, SyncFault
<1> QED  BY <1>9, <1>10, Zenon

-----------------------------------------------------------------------------
LEMMA Invariance == Spec => []IndInv
<1>1. Init => IndInv
  <2>1. Init => Typed
    BY InitTyped, Zenon
  <2>2. Init => Versions
    BY SMT, Z3 DEF Init, Versions, VersionsOf, NoEntries, NoEntry
  <2>3. Init => Stamps
    BY SMTT(30), Z3T(30) DEF Init, Stamps, TaskStamps, ChannelStamps
  <2>4. Init => Once
    BY SMT, Z3 DEF Init, Once, OnceAt, IsInjective
  <2>5. Init => Silent
    BY Zenon DEF Init, Silent
  <2> QED  BY <2>1, <2>2, <2>3, <2>4, <2>5, ZenonT(30) DEF IndInv
<1>2. IndInv /\ [Next]_vars => IndInv'
  BY NextTyped, NextVersions, NextSilent, NextStamps, NextOnce, Zenon DEF IndInv
<1> QED  BY <1>1, <1>2, PTL DEF Spec

\* The counter of a node that serves clients is never behind an entry of its store,
\* whatever its log and Redis held when it started (state.rs:257-261).
THEOREM CounterAhead == Spec => []VersionsBelowCounter
<1>1. IndInv => VersionsBelowCounter
  BY Zenon DEF IndInv, Versions, VersionsOf, VersionsBelowCounter
<1> QED  BY <1>1, Invariance, PTL

\* However tasks, connections and restarts interleave, no watcher is given a delta
\* by the local broadcast and again by way of Redis (cluster.rs:239-242).
THEOREM NoDeltaTwice == Spec => []DeliveredOnce
<1>1. IndInv => DeliveredOnce
  BY Zenon DEF IndInv, Once, OnceAt, DeliveredOnce
<1> QED  BY <1>1, Invariance, PTL

\* When the tasks of a key are done the hash has the value of the last mutation,
\* but for the exceptions that RedisCurrent names (cluster.rs:88-127).
THEOREM HashIsCurrent == Spec => []RedisCurrent
<1>1. Init => Hash
  <2> SUFFICES ASSUME Init PROVE Hash
    BY Zenon
  <2>1. /\ tasks = {} /\ stamp = 0 /\ missed = {} /\ redis = NoEntries
        /\ last = [k \in Keys |-> [stamp |-> 0, value |-> Null, stored |-> 0]]
    BY Zenon DEF Init
  <2>2. LastTyped
    BY <2>1, Zenon DEF LastTyped, AllValues
  <2>3. ASSUME NEW k \in Keys PROVE HashOf(k)
    BY <2>1, SMT, Z3 DEF HashOf, Stored, ToStore, NoEntries, NoEntry
  <2> QED  BY <2>2, <2>3, Zenon DEF Hash
<1>2. IndInv /\ IndInv' /\ Hash /\ [Next]_vars => Hash'
  BY NextHash, Zenon DEF IndInv
<1>3. Hash => RedisCurrent
  <2> SUFFICES ASSUME Hash, NEW k \in Keys \ missed, \A t \in tasks : t.key # k
               PROVE  redis[k].value = last[k].value
    BY Zenon DEF RedisCurrent
  <2>1. HashOf(k) /\ ToStore(k) = {}
    BY Zenon DEF Hash, ToStore
  <2> QED  BY <2>1, Zenon DEF HashOf, Stored
<1> QED  BY <1>1, <1>2, <1>3, Invariance, PTL DEF Spec
=============================================================================
