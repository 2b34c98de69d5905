----------------------------- MODULE StateStore -----------------------------
(***************************************************************************)
(* The versioned state store of the Rust server (state.rs) on top of its   *)
(* segmented log.                                                          *)
(*                                                                         *)
(* Writers are the sessions' tasks.  Each runs StateStore::apply or        *)
(* ::delete to completion before its next call, and tasks run in parallel; *)
(* no lock spans an apply, only the single operations on the DashMaps and  *)
(* the counter are atomic, and the persistent log has a mutex.  A value is *)
(* opaque: diff(old, new) is empty when they are equal and otherwise the   *)
(* record of what it was computed from and to.  Crash loses the memory of  *)
(* the process; StateStore::open rebuilds it from the log.                 *)
(***************************************************************************)
EXTENDS SegmentedLog, SeqFilter

CONSTANTS Writers,      \* tasks that call apply and delete
          Keys, Values,
          Null,         \* JSON null, the value a delete is logged with
          Absent,       \* no entry
          MaxDeltaLog,  \* MAX_DELTA_LOG_ENTRIES_PER_KEY
          MaxCalls,     \* bound: calls of apply and delete
          MaxFaults,   \* bound: crashes and I/O errors
          MaxIoErrors   \* bound: I/O errors

AllValues == Values \cup {Null}

\* The entries of memory and of a compaction's snapshot, the deltas, and the
\* records of the persistent log.
Entries == [version : Nat, value : AllValues]
Deltas == [version : Nat, from : AllValues \cup {Absent}, to : AllValues \cup {Absent}]
Records == [key : Keys, version : Nat, ops : Seq(Deltas), value : AllValues]

ASSUME StateStoreAssumption ==
    /\ MaxDeltaLog \in Nat \ {0} /\ MaxCalls \in Nat /\ MaxFaults \in Nat
    /\ MaxIoErrors \in Nat
    /\ Absent \notin AllValues /\ Torn # Absent
    /\ {Absent, Torn} \cap Records = {} /\ Absent \notin Entries

VARIABLES entries,         \* key -> StateEntry or Absent
          global_version,
          log,             \* DeltaLog: key -> [version, from, to], in order
          pc,              \* control point of each writer
          call,            \* the call a writer runs (see Began)
          snap, unread,    \* compact_plog: entries read, keys still to read
          owner,           \* the writer that holds the plog mutex
          up,              \* is the process running?
          possible,        \* history: the values a restart may show for a key
          calls, crashes, errors

memVars == <<entries, global_version, log>>
ctlVars == <<pc, call, snap, unread, owner>>
histVars == <<up, possible, calls, crashes, errors>>
vars == <<logVars, memVars, ctlVars, histVars>>

NoCall == [op |-> "none", key |-> Absent, value |-> Absent, version |-> 0,
           from |-> Absent, alone |-> TRUE]
NoOne == Absent

Init ==
    /\ LogInit
    /\ entries = [k \in Keys |-> Absent] /\ global_version = 0
    /\ log = [k \in Keys |-> <<>>]
    /\ pc = [w \in Writers |-> "idle"] /\ call = [w \in Writers |-> NoCall]
    /\ snap = [w \in Writers |-> {}] /\ unread = [w \in Writers |-> {}]
    /\ owner = NoOne
    /\ possible = [k \in Keys |-> {Absent}]
    /\ up = TRUE /\ calls = 0 /\ crashes = 0 /\ errors = 0

ValueOf(e) == IF e = Absent THEN Absent ELSE e.value

\* DeltaLog::append: push, then drop the oldest beyond the cap.
DeltaAppend(l, d) ==
    LET m == Append(l, d)
    IN IF Len(m) > MaxDeltaLog THEN SubSeq(m, Len(m) - MaxDeltaLog + 1, Len(m))
       ELSE m

\* DeltaLog::since
Since(l, n) == Omit(l, {d \in Range(l) : d.version <= n})

Goto(w, label) == pc' = [pc EXCEPT ![w] = label]

\* A call begins.  The field alone is history: whether no other call on the key
\* overlaps this one.
Began(w, op, k, v, n, old) ==
    LET others == {u \in Writers \ {w} : call[u].key = k}
    IN [u \in Writers |->
           IF u = w THEN [op |-> op, key |-> k, value |-> v, version |-> n,
                          from |-> old, alone |-> others = {}]
           ELSE IF u \in others THEN [call[u] EXCEPT !.alone = FALSE]
           ELSE call[u]]

-----------------------------------------------------------------------------
(* StateStore::apply *)

\* global_version.fetch_add(1)
Apply(w, k, v) ==
    /\ up /\ pc[w] = "idle" /\ calls < MaxCalls
    /\ calls' = calls + 1
    /\ global_version' = global_version + 1
    /\ call' = Began(w, "set", k, v, global_version + 1, Absent)
    /\ possible' = [possible EXCEPT ![k] = @ \cup {v}]
    /\ Goto(w, "diff")
    /\ UNCHANGED <<logVars, entries, log, snap, unread, owner, up, crashes,
                   errors>>

\* entries.get(key), and diff against what it returned
Diff(w) ==
    /\ up /\ pc[w] = "diff"
    /\ call' = [call EXCEPT ![w].from = ValueOf(entries[call[w].key])]
    /\ Goto(w, "insert")
    /\ UNCHANGED <<logVars, memVars, snap, unread, owner, histVars>>

InsertAlwaysLogs(w) ==
    /\ up /\ pc[w] = "insert"
    /\ entries' = [entries EXCEPT ![call[w].key] =
                      [version |-> call[w].version, value |-> call[w].value]]
    /\ Goto(w, "delta")
    /\ UNCHANGED <<logVars, global_version, log, call, snap, unread, owner,
                   histVars>>

\* entries.insert(key, StateEntry{version, value}); nothing more if ops is empty
Insert(w) ==
    /\ up /\ pc[w] = "insert"
    /\ entries' = [entries EXCEPT ![call[w].key] =
                      [version |-> call[w].version, value |-> call[w].value]]
    /\ Goto(w, IF call[w].from = call[w].value THEN "return" ELSE "delta")
    /\ UNCHANGED <<logVars, global_version, log, call, snap, unread, owner,
                   histVars>>

-----------------------------------------------------------------------------
(* StateStore::delete *)

\* entries.remove(key); None, and no version, when there was no entry
Delete(w, k) ==
    /\ up /\ pc[w] = "idle" /\ calls < MaxCalls
    /\ calls' = calls + 1
    /\ call' = Began(w, "delete", k, Null, 0, ValueOf(entries[k]))
    /\ possible' = [possible EXCEPT ![k] = @ \cup {Absent, Null}]
    /\ entries' = [entries EXCEPT ![k] = Absent]
    /\ Goto(w, IF entries[k] = Absent THEN "return" ELSE "bump")
    /\ UNCHANGED <<logVars, global_version, log, snap, unread, owner, up, crashes,
                   errors>>

Bump(w) ==
    /\ up /\ pc[w] = "bump"
    /\ global_version' = global_version + 1
    /\ call' = [call EXCEPT ![w].version = global_version + 1]
    /\ Goto(w, "delta")
    /\ UNCHANGED <<logVars, entries, log, snap, unread, owner, histVars>>

-----------------------------------------------------------------------------
(* The tail both share: delta log, persistent log, compaction *)

Change(w) == [version |-> call[w].version, from |-> call[w].from,
              to |-> IF call[w].op = "delete" THEN Absent ELSE call[w].value]

\* log.append(key, version, ops)
LogDelta(w) ==
    /\ up /\ pc[w] = "delta"
    /\ log' = [log EXCEPT ![call[w].key] = DeltaAppend(@, Change(w))]
    /\ Goto(w, "plog")
    /\ UNCHANGED <<logVars, entries, global_version, call, snap, unread, owner,
                   up, possible, calls, crashes, errors>>

LogEntry(k, n, ops, v) == [key |-> k, version |-> n, ops |-> ops, value |-> v]

\* plog.lock(), append(&log_entry)
LogAppend(w) ==
    /\ up /\ pc[w] = "plog" /\ owner = NoOne
    /\ owner' = w
    /\ AppendStart(LogEntry(call[w].key, call[w].version, <<Change(w)>>,
                            call[w].value))
    /\ Goto(w, "append")
    /\ UNCHANGED <<memVars, call, snap, unread, histVars>>

LogAppendedKeepsLock(w) ==
    /\ up /\ pc[w] = "append" /\ stage = "appended"
    /\ stage' = "none"
    /\ owner' = IF NeedsCompact THEN w ELSE NoOne
    /\ unread' = [unread EXCEPT ![w] = IF NeedsCompact THEN Keys ELSE {}]
    /\ Goto(w, IF NeedsCompact THEN "snap" ELSE "return")
    /\ UNCHANGED <<disk, current_seg, wseg, wbuf, entry_count, segment_count,
                   arg, todo, old_segs, memVars, call, snap, histVars>>

\* guard.needs_compact(), and the guard is dropped
LogAppended(w) ==
    /\ up /\ pc[w] = "append" /\ stage = "appended"
    /\ stage' = "none" /\ owner' = NoOne
    /\ unread' = [unread EXCEPT ![w] = IF NeedsCompact THEN Keys ELSE {}]
    /\ Goto(w, IF NeedsCompact THEN "snap" ELSE "return")
    /\ UNCHANGED <<disk, current_seg, wseg, wbuf, entry_count, segment_count,
                   arg, todo, old_segs, memVars, call, snap, histVars>>

\* compact_plog: entries.iter() visits the keys one shard at a time, without
\* the plog mutex
SnapshotKey(w) ==
    /\ up /\ pc[w] = "snap"
    /\ \E k \in unread[w] :
         /\ unread' = [unread EXCEPT ![w] = @ \ {k}]
         /\ snap' = [snap EXCEPT ![w] = @ \cup
               IF entries[k] = Absent THEN {}
               ELSE {LogEntry(k, entries[k].version, <<>>, entries[k].value)}]
    /\ UNCHANGED <<logVars, memVars, pc, call, owner, histVars>>

\* plog.lock(), compact(&snapshot)
Compact(w) ==
    /\ up /\ pc[w] = "snap" /\ unread[w] = {} /\ owner = NoOne
    /\ owner' = w
    /\ CompactStart(snap[w])
    /\ snap' = [snap EXCEPT ![w] = {}]
    /\ Goto(w, "compact")
    /\ UNCHANGED <<memVars, call, unread, histVars>>

Compacted(w) ==
    /\ up /\ pc[w] = "compact" /\ stage = "compacted"
    /\ stage' = "none" /\ owner' = NoOne
    /\ Goto(w, "return")
    /\ UNCHANGED <<disk, current_seg, wseg, wbuf, entry_count, segment_count,
                   arg, todo, old_segs, memVars, call, snap, unread, histVars>>

\* The call returns (version, ops) to its handler.  When no other call on the
\* key overlapped it, a restart from now on may only show its effect.
Return(w) ==
    LET k == call[w].key
        after == IF call[w].op = "set" THEN {call[w].value} ELSE {Absent, Null}
    IN /\ up /\ pc[w] = "return"
       /\ possible' = [possible EXCEPT ![k] =
             IF call[w].alone THEN after ELSE @]
       /\ call' = [call EXCEPT ![w] = NoCall]
       /\ Goto(w, "idle")
       /\ UNCHANGED <<logVars, memVars, snap, unread, owner, up, calls, crashes,
                      errors>>

\* A step of the log operation run by the holder of the mutex.
LogOp ==
    /\ up /\ LogStep
    /\ UNCHANGED <<memVars, ctlVars, histVars>>

LogError ==
    /\ up /\ errors < MaxIoErrors /\ crashes + errors < MaxFaults
    /\ IoError
    /\ errors' = errors + 1
    /\ UNCHANGED <<memVars, ctlVars, up, possible, calls, crashes>>

-----------------------------------------------------------------------------
(* Crash and StateStore::open *)

Crash ==
    /\ up /\ crashes + errors < MaxFaults
    /\ up' = FALSE /\ crashes' = crashes + 1
    /\ pc' = [w \in Writers |-> "idle"] /\ call' = [w \in Writers |-> NoCall]
    /\ snap' = [w \in Writers |-> {}] /\ unread' = [w \in Writers |-> {}]
    /\ owner' = NoOne
    /\ UNCHANGED <<logVars, memVars, possible, calls, errors>>

\* The replayed record of k with the highest version, the one that wins after
\* the sort by version, or Absent.
RecordsOf(k) == {r \in Replayed : r.key = k}
Latest(k) ==
    IF RecordsOf(k) = {} THEN Absent
    ELSE CHOOSE r \in RecordsOf(k) : \A s \in RecordsOf(k) : s.version <= r.version

\* sort_unstable_by_key
SortedByVersion(S) ==
    CHOOSE f \in [1..Cardinality(S) -> S] :
       Range(f) = S /\ \A i, j \in DOMAIN f : i < j => f[i].version <= f[j].version

RebuiltLogKeepsOldest(k) ==
    LET ds == {r.ops[1] : r \in {x \in RecordsOf(k) : x.ops # <<>>}}
        sorted == SortedByVersion(ds)
    IN SubSeq(sorted, 1, Min({MaxDeltaLog, Len(sorted)}))

\* The delta log rebuilt from the replayed records of k that carry ops.
RebuiltLog(k) ==
    LET ds == {r.ops[1] : r \in {x \in RecordsOf(k) : x.ops # <<>>}}
        sorted == SortedByVersion(ds)
    IN SubSeq(sorted, Max({1, Len(sorted) - MaxDeltaLog + 1}), Len(sorted))

RecoverLastSegment ==
    /\ ~up /\ up' = TRUE
    /\ Open
    /\ entries' = [k \in Keys |->
          IF Latest(k) = Absent THEN Absent
          ELSE [version |-> Latest(k).version, value |-> Latest(k).value]]
    /\ global_version' =
          Max({0} \cup {r.version : r \in Range(ReplaySegment(disk[Max(DOMAIN disk)]))})
    /\ log' = [k \in Keys |-> RebuiltLog(k)]
    /\ UNCHANGED <<ctlVars, possible, calls, crashes, errors>>

RecoverOldest ==
    /\ ~up /\ up' = TRUE
    /\ Open
    /\ entries' = [k \in Keys |->
          IF Latest(k) = Absent THEN Absent
          ELSE LET r == CHOOSE x \in RecordsOf(k) :
                           \A y \in RecordsOf(k) : x.version <= y.version
               IN [version |-> r.version, value |-> r.value]]
    /\ global_version' = Max({0} \cup {r.version : r \in Replayed})
    /\ log' = [k \in Keys |-> RebuiltLog(k)]
    /\ UNCHANGED <<ctlVars, possible, calls, crashes, errors>>

\* StateStore::open: replay, keep the latest record of every key, continue from
\* the highest version
Recover ==
    /\ ~up /\ up' = TRUE
    /\ Open
    /\ entries' = [k \in Keys |->
          IF Latest(k) = Absent THEN Absent
          ELSE [version |-> Latest(k).version, value |-> Latest(k).value]]
    /\ global_version' = Max({0} \cup {r.version : r \in Replayed})
    /\ log' = [k \in Keys |-> RebuiltLog(k)]
    /\ UNCHANGED <<ctlVars, possible, calls, crashes, errors>>

WriterStep(w) ==
    \/ Diff(w) \/ Insert(w) \/ Bump(w) \/ LogDelta(w) \/ LogAppend(w)
    \/ LogAppended(w) \/ SnapshotKey(w) \/ Compact(w) \/ Compacted(w) \/ Return(w)

Next ==
    \/ \E w \in Writers :
          \/ WriterStep(w)
          \/ \E k \in Keys : Delete(w, k) \/ \E v \in AllValues : Apply(w, k, v)
    \/ LogOp \/ LogError \/ Crash \/ Recover

Spec == Init /\ [][Next]_vars

\* A runnable task runs, an operation under the mutex makes progress, and a
\* crashed server is restarted.
FairSpec ==
    /\ Spec
    /\ \A w \in Writers : WF_vars(WriterStep(w))
    /\ WF_vars(LogOp) /\ WF_vars(Recover)

-----------------------------------------------------------------------------
(* Properties *)

Quiet == up /\ \A w \in Writers : pc[w] = "idle"

\* A write that returned survives a crash at any later moment, in the middle of
\* a rotation or a compaction included: what a restart would show for a key is
\* the last write that returned, or one that was cut short or overlapped it.
AckedSurvive ==
    \A k \in Keys : ValueOf(Latest(k)) \in possible[k]

\* Between calls, a restart would show the values that memory holds; a deleted
\* key has no record or a null one (state.rs:100-105).
MemoryMatchesDisk ==
    Quiet => \A k \in Keys :
                IF entries[k] = Absent THEN ValueOf(Latest(k)) \in {Absent, Null}
                ELSE ValueOf(Latest(k)) = entries[k].value

\* Two records with one version are the same write, so the order in which
\* sort_unstable_by_key (state.rs:111) leaves equal versions does not matter.
DiskVersionsAgree ==
    \A r, s \in Replayed :
        r.version = s.version => r.key = s.key /\ r.value = s.value

\* What a client that applied a delta or was told of a delete shows.
View(x) == IF x = Absent THEN Null ELSE x

\* The delta log of a key is a chain: every delta was computed from the value
\* the one before it left, and the last one leaves the current value, so that
\* replaying since(n) on the value at n gives the current one.
DeltaChain ==
    Quiet => \A k \in Keys :
        /\ \A i \in 1..(Len(log[k]) - 1) :
              /\ Since(log[k], log[k][i].version)
                    = SubSeq(log[k], i + 1, Len(log[k]))
              /\ View(log[k][i].to) = View(log[k][i + 1].from)
        /\ log[k] # <<>> => View(log[k][Len(log[k])].to) = View(ValueOf(entries[k]))

\* Every call returns, unless the process crashes under it: compaction takes
\* the plog mutex that the append before it has released (state.rs:182-191).
CallsReturn == \A w \in Writers : []<>(pc[w] = "idle")

\* With one writer the store implements VersionedStore from one restart to the
\* next, whatever open rebuilt: apply takes effect when it inserts the entry,
\* delete when it removes it (state.rs:74-81).  Until then, and from then on, the
\* counter and the delta log are those of the calls that have taken effect.
ClockBar ==
    global_version + Cardinality({w \in Writers : pc[w] = "bump"})
                   - Cardinality({w \in Writers : pc[w] \in {"diff", "insert"}})
Unlogged(k) == {w \in Writers : call[w].key = k /\ pc[w] \in {"bump", "delta"}}
Stamped(d) ==
    IF d.version # 0 THEN d ELSE [d EXCEPT !.version = global_version + 1]
DeltasBar ==
    [k \in Keys |->
        IF Unlogged(k) = {} THEN log[k]
        ELSE DeltaAppend(log[k], Stamped(Change(CHOOSE w \in Unlogged(k) : TRUE)))]

Abstract == INSTANCE VersionedStore WITH
    Values <- AllValues, store <- entries, clock <- ClockBar, deltas <- DeltasBar
ImplementsVersionedStore ==
    Abstract!Init /\ [][up /\ up' => Abstract!Next]_(Abstract!vars)
=============================================================================
