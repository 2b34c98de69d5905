------------------------------ MODULE WritePool ------------------------------
(***************************************************************************)
(* The pool-mode write path of the Rust server (write_pool.rs).            *)
(*                                                                         *)
(* A session's WriteHandle owns a bounded channel (q), a counter of        *)
(* messages announced but not yet received (pending), and a flag (in_pool) *)
(* that is meant to be TRUE while the handle is queued for, or being       *)
(* drained by, a pool worker.  Senders are the tasks that call             *)
(* WriteHandle::send (the session's own task and every task that           *)
(* broadcasts to it); workers run the loop of WritePool::new.  Every       *)
(* atomic operation and every await is a step of its own.                  *)
(*                                                                         *)
(* in_pool is cleared by a Release store that is followed by an Acquire    *)
(* load of pending.  Release/Acquire does not order a store before a later *)
(* load of another location, so the store goes to the worker's store       *)
(* buffer (buf) and lands at once or after that load; read-modify-write    *)
(* operations (the CAS, the mutex acquisitions) drain the buffer.          *)
(***************************************************************************)
EXTENDS Naturals, Sequences, FiniteSets, SeqFilter

CONSTANTS Senders,        \* tasks that call send
          Workers,        \* pool workers
          Handles,        \* sessions' write handles
          Capacity,       \* backpressure limit: capacity of a handle's channel
          MaxMsgs,        \* bound: messages one sender sends
          MaxStuck,       \* bound: sockets that accept no bytes at one time
          Unencodable     \* messages to_ws_msg cannot encode

ASSUME WritePoolAssumption ==
    /\ Senders \cap Workers = {}
    /\ IsFiniteSet(Senders) /\ IsFiniteSet(Workers) /\ IsFiniteSet(Handles)
    /\ Capacity \in Nat \ {0} /\ MaxMsgs \in Nat /\ MaxStuck \in Nat

VARIABLES q,         \* outbound channel of each handle
          pending,   \* PoolFields.pending
          in_pool,   \* PoolFields.in_pool
          cancelled, \* WriteHandle.cancel
          sock,      \* "ok", "stuck" (peer reads nothing) or "broken"
          poolq,     \* the pool's queue of handles
          pc, at,    \* control point of a thread and the handle it works on
          msg,       \* the message a thread holds
          buf,       \* workers whose store of in_pool is still buffered
          late,      \* history: handles whose pending was loaded before the
                     \* store of in_pool that precedes the load had landed
          count,     \* messages each sender has sent
          sent,      \* history: messages the channel accepted, in order
          wire       \* history: messages the socket accepted, in order

vars == <<q, pending, in_pool, cancelled, sock, poolq, pc, at, msg, buf,
          late, count, sent, wire>>

Threads == Senders \cup Workers
Msgs == Senders \X (1..MaxMsgs)

Init ==
    /\ q = [h \in Handles |-> <<>>]
    /\ pending = [h \in Handles |-> 0]
    /\ in_pool = [h \in Handles |-> FALSE]
    /\ cancelled = [h \in Handles |-> FALSE]
    /\ sock = [h \in Handles |-> "ok"]
    /\ poolq = <<>>
    /\ pc = [t \in Threads |-> "idle"]
    /\ at \in [Threads -> Handles]
    /\ msg \in [Threads -> Msgs]
    /\ \A s, t \in Threads : at[s] = at[t] /\ msg[s] = msg[t]
    /\ buf = {} /\ late = {}
    /\ count = [s \in Senders |-> 0]
    /\ sent = [h \in Handles |-> <<>>]
    /\ wire = [h \in Handles |-> <<>>]

Goto(t, label) == pc' = [pc EXCEPT ![t] = label]

-----------------------------------------------------------------------------
(* WriteHandle::send, pool arm *)

SendUncounted(s, h) ==
    /\ pc[s] = "idle" /\ count[s] < MaxMsgs
    /\ count' = [count EXCEPT ![s] = @ + 1]
    /\ at' = [at EXCEPT ![s] = h]
    /\ msg' = [msg EXCEPT ![s] = <<s, count[s] + 1>>]
    /\ Goto(s, "try")
    /\ UNCHANGED <<q, pending, in_pool, cancelled, sock, poolq, buf, sent,
                   wire, late>>

\* pending.fetch_add(1)
Send(s, h) ==
    /\ pc[s] = "idle" /\ count[s] < MaxMsgs
    /\ count' = [count EXCEPT ![s] = @ + 1]
    /\ at' = [at EXCEPT ![s] = h]
    /\ msg' = [msg EXCEPT ![s] = <<s, count[s] + 1>>]
    /\ pending' = [pending EXCEPT ![h] = @ + 1]
    /\ Goto(s, "try")
    /\ UNCHANGED <<q, in_pool, cancelled, sock, poolq, buf, sent, wire, late>>

TrySendUnbounded(s) ==
    /\ pc[s] = "try"
    /\ q' = [q EXCEPT ![at[s]] = Append(@, msg[s])]
    /\ sent' = [sent EXCEPT ![at[s]] = Append(@, msg[s])]
    /\ Goto(s, "cas")
    /\ UNCHANGED <<pending, in_pool, cancelled, sock, poolq, at, msg, buf,
                   count, wire, late>>

\* outbound_tx.try_send(msg)
TrySend(s) ==
    /\ pc[s] = "try"
    /\ IF Len(q[at[s]]) < Capacity
       THEN /\ q' = [q EXCEPT ![at[s]] = Append(@, msg[s])]
            /\ sent' = [sent EXCEPT ![at[s]] = Append(@, msg[s])]
            /\ Goto(s, "cas")
       ELSE Goto(s, "undo") /\ UNCHANGED <<q, sent>>
    /\ UNCHANGED <<pending, in_pool, cancelled, sock, poolq, at, msg, buf,
                   count, wire, late>>

OverflowKeepsPending(s) ==
    /\ pc[s] = "undo"
    /\ cancelled' = [cancelled EXCEPT ![at[s]] = TRUE]
    /\ Goto(s, "idle")
    /\ UNCHANGED <<q, pending, in_pool, sock, poolq, at, msg, buf, count, sent,
                   wire, late>>

\* pending.fetch_sub(1), cancel.cancel(), return false
Overflow(s) ==
    /\ pc[s] = "undo"
    /\ pending' = [pending EXCEPT ![at[s]] = @ - 1]
    /\ cancelled' = [cancelled EXCEPT ![at[s]] = TRUE]
    /\ Goto(s, "idle")
    /\ UNCHANGED <<q, in_pool, sock, poolq, at, msg, buf, count, sent, wire,
                   late>>

-----------------------------------------------------------------------------
(* pool_enqueue, called by send and by pool_drain *)

CasAlwaysWins(t) ==
    /\ pc[t] = "cas" /\ t \notin buf
    /\ in_pool' = [in_pool EXCEPT ![at[t]] = TRUE]
    /\ Goto(t, "push")
    /\ UNCHANGED <<q, pending, cancelled, sock, poolq, at, msg, buf, count,
                   sent, wire, late>>

\* in_pool.compare_exchange(false, true); a read-modify-write waits for the
\* thread's own buffered store to reach memory
Cas(t) ==
    /\ pc[t] = "cas" /\ t \notin buf
    /\ in_pool' = [in_pool EXCEPT ![at[t]] = TRUE]
    /\ Goto(t, IF in_pool[at[t]] THEN "idle" ELSE "push")
    /\ UNCHANGED <<q, pending, cancelled, sock, poolq, at, msg, buf, count,
                   sent, wire, late>>

\* pool_queue_tx.send(handle)
Push(t) ==
    /\ pc[t] = "push"
    /\ poolq' = Append(poolq, at[t])
    /\ Goto(t, "idle")
    /\ UNCHANGED <<q, pending, in_pool, cancelled, sock, at, msg, buf, count,
                   sent, wire, late>>

-----------------------------------------------------------------------------
(* The worker loop and pool_drain *)

\* rx.lock().await; recv().await
Take(w) ==
    /\ pc[w] = "idle" /\ w \notin buf /\ poolq # <<>>
    /\ at' = [at EXCEPT ![w] = Head(poolq)]
    /\ poolq' = Tail(poolq)
    /\ Goto(w, "lock")
    /\ UNCHANGED <<q, pending, in_pool, cancelled, sock, msg, buf, count, sent,
                   wire, late>>

Draining == {"recv", "sub", "feed", "flush"}

LockFree(w) ==
    /\ pc[w] = "lock"
    /\ Goto(w, "recv")
    /\ UNCHANGED <<q, pending, in_pool, cancelled, sock, poolq, at, msg, buf,
                   count, sent, wire, late>>

\* outbound_rx.lock().await and ws_tx.lock().await, held until after flush
Lock(w) ==
    /\ pc[w] = "lock"
    /\ \A v \in Workers \ {w} : at[v] = at[w] => pc[v] \notin Draining
    /\ Goto(w, "recv")
    /\ UNCHANGED <<q, pending, in_pool, cancelled, sock, poolq, at, msg, buf,
                   count, sent, wire, late>>

\* rx.try_recv()
TryRecv(w) ==
    /\ pc[w] = "recv"
    /\ IF q[at[w]] = <<>>
       THEN Goto(w, "flush") /\ UNCHANGED <<q, msg>>
       ELSE /\ msg' = [msg EXCEPT ![w] = Head(q[at[w]])]
            /\ q' = [q EXCEPT ![at[w]] = Tail(@)]
            /\ Goto(w, "sub")
    /\ UNCHANGED <<pending, in_pool, cancelled, sock, poolq, at, buf, count,
                   sent, wire, late>>

\* pending.fetch_sub(1); to_ws_msg drops a message it cannot encode
SubPending(w) ==
    /\ pc[w] = "sub"
    /\ pending' = [pending EXCEPT ![at[w]] = @ - 1]
    /\ Goto(w, IF msg[w] \in Unencodable THEN "recv" ELSE "feed")
    /\ UNCHANGED <<q, in_pool, cancelled, sock, poolq, at, msg, buf, count,
                   sent, wire, late>>

FeedSwallowsError(w) ==
    /\ pc[w] = "feed" /\ sock[at[w]] # "stuck"
    /\ Goto(w, "flush")
    /\ UNCHANGED <<q, pending, in_pool, cancelled, sock, poolq, at, msg, buf,
                   count, sent, wire, late>>

\* ws.feed(m).await: blocks on a stuck socket, ends the loop on a broken one
Feed(w) ==
    /\ pc[w] = "feed" /\ sock[at[w]] # "stuck"
    /\ IF sock[at[w]] = "broken"
       THEN Goto(w, "flush") /\ UNCHANGED wire
       ELSE /\ wire' = [wire EXCEPT ![at[w]] = Append(@, msg[w])]
            /\ Goto(w, "recv")
    /\ UNCHANGED <<q, pending, in_pool, cancelled, sock, poolq, at, msg, buf,
                   count, sent, late>>

\* ws.flush().await (its result is ignored), then both guards are dropped
Flush(w) ==
    /\ pc[w] = "flush" /\ sock[at[w]] # "stuck"
    /\ Goto(w, "clear")
    /\ UNCHANGED <<q, pending, in_pool, cancelled, sock, poolq, at, msg, buf,
                   count, sent, wire, late>>

ClearForgotten(w) ==
    /\ pc[w] = "clear"
    /\ Goto(w, "check")
    /\ UNCHANGED <<q, pending, in_pool, cancelled, sock, poolq, at, msg, buf,
                   count, sent, wire, late>>

\* in_pool.store(false, Release)
Clear(w) ==
    /\ pc[w] = "clear"
    /\ buf' = buf \cup {w}
    /\ Goto(w, "check")
    /\ UNCHANGED <<q, pending, in_pool, cancelled, sock, poolq, at, msg, count,
                   sent, wire, late>>

\* the buffered store reaches memory
StoreLands(w) ==
    /\ w \in buf
    /\ in_pool' = [in_pool EXCEPT ![at[w]] = FALSE]
    /\ buf' = buf \ {w}
    /\ UNCHANGED <<q, pending, cancelled, sock, poolq, pc, at, msg, count,
                   sent, wire, late>>

CheckForgotten(w) ==
    /\ pc[w] = "check"
    /\ Goto(w, "idle")
    /\ UNCHANGED <<q, pending, in_pool, cancelled, sock, poolq, at, msg, buf,
                   count, sent, wire, late>>

\* pending.load(Acquire) > 0: enqueue the handle again
Check(w) ==
    /\ pc[w] = "check"
    /\ Goto(w, IF pending[at[w]] > 0 THEN "cas" ELSE "idle")
    /\ late' = IF w \in buf THEN late \cup {at[w]} ELSE late
    /\ UNCHANGED <<q, pending, in_pool, cancelled, sock, poolq, at, msg, buf,
                   count, sent, wire>>

-----------------------------------------------------------------------------
(* The peers *)

Stuck == {h \in Handles : sock[h] = "stuck"}

\* a peer stops or resumes reading, or its connection fails
SocketChanges(h) ==
    /\ \E s \in {"ok", "stuck", "broken"} :
          /\ sock[h] # "broken" /\ s # sock[h]
          /\ s = "stuck" => Cardinality(Stuck) < MaxStuck
          /\ sock' = [sock EXCEPT ![h] = s]
    /\ UNCHANGED <<q, pending, in_pool, cancelled, poolq, pc, at, msg, buf,
                   count, sent, wire, late>>

SendStep(s) == TrySend(s) \/ Overflow(s) \/ Cas(s) \/ Push(s)
DrainStep(w) == Lock(w) \/ TryRecv(w) \/ SubPending(w) \/ Feed(w) \/ Flush(w)
WorkerStep(w) ==
    Take(w) \/ DrainStep(w) \/ Clear(w) \/ StoreLands(w) \/ Check(w)
    \/ Cas(w) \/ Push(w)

Next ==
    \/ \E s \in Senders : SendStep(s) \/ \E h \in Handles : Send(s, h)
    \/ \E w \in Workers : WorkerStep(w)
    \/ \E h \in Handles : SocketChanges(h)

Spec == Init /\ [][Next]_vars

\* tokio runs every runnable task; nothing makes a peer read, and no one is
\* obliged to send.
FairSpec ==
    /\ Spec
    /\ \A s \in Senders : WF_vars(SendStep(s))
    /\ \A w \in Workers : WF_vars(WorkerStep(w))

-----------------------------------------------------------------------------
(* Properties *)

PCs == {"idle", "try", "undo", "cas", "push", "lock", "recv", "sub", "feed",
        "flush", "clear", "check"}

\* Every variable has its type; in particular pending, an AtomicUsize, never
\* wraps below zero (write_pool.rs:68 and :178 subtract unconditionally).
TypeOK ==
    /\ q \in [Handles -> Seq(Msgs)]
    /\ pending \in [Handles -> Nat]
    /\ in_pool \in [Handles -> BOOLEAN]
    /\ cancelled \in [Handles -> BOOLEAN]
    /\ sock \in [Handles -> {"ok", "stuck", "broken"}]
    /\ poolq \in Seq(Handles)
    /\ pc \in [Threads -> PCs]
    /\ at \in [Threads -> Handles]
    /\ msg \in [Threads -> Msgs]
    /\ buf \subseteq Workers /\ late \subseteq Handles
    /\ count \in [Senders -> 0..MaxMsgs]
    /\ sent \in [Handles -> Seq(Msgs)]
    /\ wire \in [Handles -> Seq(Msgs)]

\* The threads that have counted a message in pending which is not in the
\* channel: a sender before try_send or its undo, a worker after try_recv.
Counted(h) ==
    {t \in Threads : at[t] = h /\ pc[t] \in {"try", "undo", "sub"}}

\* pending is exact: the messages in the channel plus those in transit to or
\* from it (write_pool.rs:66-68 and :177-178).
PendingExact ==
    \A h \in Handles : pending[h] = Len(q[h]) + Cardinality(Counted(h))

\* The threads that carry the handle's single in_pool token: the winner of the
\* CAS up to its push, and the worker that took the handle, until its store of
\* false reaches memory.
Holds(t, h) ==
    /\ at[t] = h
    /\ pc[t] \in {"push", "lock", "recv", "sub", "feed", "flush", "clear"}
       \/ t \in buf
Holders(h) == {t \in Threads : Holds(t, h)}
Queued(h) == {i \in 1..Len(poolq) : poolq[i] = h}

\* A handle is in the pool's queue, or with a thread that queues or drains it,
\* at most once, and exactly when in_pool says so: compare_exchange
\* (write_pool.rs:80-85) admits one entry and one drainer at a time.
SingleDrainer ==
    \A h \in Handles :
        /\ \A t, u \in Holders(h) : t = u
        /\ \A i, j \in Queued(h) : i = j
        /\ Holders(h) = {} \/ Queued(h) = {}
        /\ in_pool[h] <=> (Holders(h) # {} \/ Queued(h) # {})

Attended(h) ==
    \/ Queued(h) # {}
    \/ \E t \in Threads : at[t] = h /\ pc[t] \notin {"idle", "try", "undo"}

\* A message in the channel is never left without someone who will look at the
\* channel again: the handle is queued, or a thread is on its way to queue it,
\* drain it, or re-check pending (write_pool.rs:190-193).  Holds for every
\* handle on which no load of pending has overtaken the store of in_pool.
NoStranded ==
    \A h \in Handles : h \notin late /\ q[h] # <<>> => Attended(h)

\* Until its connection fails, a socket is fed exactly the encodable messages
\* the channel accepted, in the order it accepted them, and none is lost.
Feeding(h) == {w \in Workers : at[w] = h /\ pc[w] \in {"sub", "feed"}}
InHand(h) ==
    IF Feeding(h) = {} THEN <<>> ELSE <<msg[CHOOSE w \in Feeding(h) : TRUE]>>
DeliveredInOrder ==
    \A h \in Handles :
        sock[h] # "broken" =>
            Omit(sent[h], Unencodable)
            = wire[h] \o Omit(InHand(h) \o q[h], Unencodable)

\* The backpressure limit bounds what a session's peer can make the server
\* hold, and a send that is refused for it has cancelled the session by the
\* time it returns (SPECIFICATION.md 12.3): a sender that has sent all its
\* messages has each of them in sent, or the handle is cancelled.
BackpressureEvicts ==
    /\ \A h \in Handles : Len(q[h]) <= Capacity
    /\ \A s \in Senders :
         pc[s] = "idle" /\ count[s] > 0 =>
             cancelled[at[s]]
             \/ \E i \in 1..Len(sent[at[s]]) : sent[at[s]][i] = msg[s]

\* A peer that reads is served: a message accepted for a healthy socket is
\* taken from the channel, whatever happens to the socket on the way, unless
\* a load of pending overtook the store of in_pool (write_pool.rs:190-193).
Drains ==
    \A h \in Handles :
        []<>(q[h] = <<>> \/ sock[h] # "ok" \/ h \in late)
=============================================================================
