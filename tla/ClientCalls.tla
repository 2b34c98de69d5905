---------------------------- MODULE ClientCalls ----------------------------
(***************************************************************************)
(* The calls of the TypeScript, Python and Java clients over connections   *)
(* that fail: when a CALL is queued, sent, answered, timed out or given    *)
(* up, against a server (Rust) that answers in order with RESULT or, when  *)
(* it refuses, with an ERROR that does not name the call.                  *)
(*                                                                         *)
(* Calls are numbered in the order they are made; 0 is the AUTH frame.     *)
(* queue holds the calls made before authentication (callQueue,            *)
(* _call_queue, sendQueue).  Python and Java send through outbox           *)
(* (_send_queue, outbound) and a sender of its own; the TypeScript client  *)
(* writes to the socket.  wire and back are the two directions of each     *)
(* connection.  A connection that broke stays until the client notices.    *)
(***************************************************************************)
EXTENDS Naturals, Sequences, Functions, SeqFilter

CONSTANTS Calls, Conns,     \* 1..n and 1..m
          Kinds,            \* which of "ts", "py" and "java"
          MaxStrayErrors    \* ERRORs that answer no call, and failed attempts

ASSUME ClientAssumption ==
    /\ Calls \subseteq Nat \ {0} /\ Conns \subseteq Nat \ {0}
    /\ Kinds \subseteq {"ts", "py", "java"}

VARIABLES kind, auth,       \* the client, and whether the server wants AUTH
          link,             \* "down", "open" (a socket), "ready" (authenticated)
          conn, broken,     \* the current connection; it is dead, not yet closed
          closed,           \* "no", "closed" by close, or "gave up" (Java, 401)
          pending,          \* pendingCalls, oldest first
          queue, outbox, sender,
          tokens,           \* TypeScript: onHello calls waiting for the token
          callers,          \* Java: calls between their test and their enqueue
          flushing,         \* Java: authenticated, queue not yet flushed
          wire, back, session,
          outcome,          \* what the caller was told
          lostIn,           \* history: the connection a "lost" call died with
          handled, performed, refused,    \* history: what the server did
          mixed,            \* history: an ERROR or a timeout broke the order
          strays

clientVars == <<kind, auth, link, conn, broken, closed, pending, queue, outbox,
                sender, tokens, callers, flushing, outcome, lostIn>>
serverVars == <<session, handled, performed, refused>>
vars == <<clientVars, wire, back, serverVars, mixed, strays>>

AUTH == 0
HELLO == <<"HELLO", 0>>
AUTH_OK == <<"AUTH_OK", 0>>
ERROR == <<"ERROR", 0>>
RESULT(c) == <<"RESULT", c>>

Init ==
    /\ kind \in Kinds /\ auth \in BOOLEAN
    /\ link = "down" /\ conn = 0 /\ broken = FALSE /\ closed = "no"
    /\ pending = <<>> /\ queue = <<>> /\ outbox = <<>> /\ sender = FALSE
    /\ tokens = 0 /\ callers = {} /\ flushing = FALSE
    /\ wire = [g \in Conns |-> <<>>] /\ back = [g \in Conns |-> <<>>]
    /\ session = [g \in Conns |-> "none"]
    /\ outcome = [c \in Calls |-> "none"] /\ lostIn = [c \in Calls |-> 0]
    /\ handled = [g \in Conns |-> <<>>] /\ performed = <<>> /\ refused = {}
    /\ mixed = FALSE /\ strays = 0

\* pendingCalls once call c has been taken out
Without(c) == Omit(pending, {c})

Told(cs, what) == [c \in Calls |-> IF c \in cs THEN what ELSE outcome[c]]

-----------------------------------------------------------------------------
(* Sending *)

\* The frames that leave for the server now, if the connection is alive.
Wired(fs) ==
    IF link = "down" \/ broken THEN wire ELSE [wire EXCEPT ![conn] = @ \o fs]

\* send, _send_raw, enqueue
Sent(fs) ==
    IF kind = "ts" THEN wire' = Wired(fs) /\ UNCHANGED outbox
    ELSE outbox' = outbox \o fs /\ UNCHANGED wire

\* _sender and the sender thread.  A failed send ends the Python sender; Java
\* discards what it takes while there is no socket.
Sender ==
    /\ outbox # <<>> /\ outbox' = Tail(outbox)
    /\ \/ kind = "py" /\ sender /\ sender' \in {TRUE, ~broken}
       \/ kind = "java" /\ closed # "closed" /\ UNCHANGED sender
    /\ wire' = Wired(<<Head(outbox)>>)
    /\ mixed' = (mixed \/ Head(outbox) \notin {AUTH} \cup Range(pending))
    /\ UNCHANGED <<kind, auth, link, conn, broken, closed, pending, queue, tokens,
                   callers, flushing, outcome, lostIn, back, serverVars, strays>>

NextCall(c) == outcome[c] = "none" /\ \A d \in Calls : d < c => outcome[d] # "none"

\* call.  In Java the test of authenticated and the enqueue are two steps, other
\* threads may call in between, and the frames of the server arrive on another
\* thread; after close it throws.
Call(c) ==
    /\ NextCall(c)
    /\ kind = "java" => closed # "closed"
    /\ outcome' = [outcome EXCEPT ![c] = "pending"]
    /\ pending' = Append(pending, c)
    /\ IF kind = "java"
       THEN /\ callers' = callers \cup {[call |-> c, authenticated |-> link = "ready"]}
            /\ UNCHANGED <<queue, wire, outbox>>
       ELSE /\ IF link = "ready" THEN Sent(<<c>>) /\ UNCHANGED queue
               ELSE queue' = Append(queue, c) /\ UNCHANGED <<wire, outbox>>
            /\ UNCHANGED callers
    /\ UNCHANGED <<kind, auth, link, conn, broken, closed, sender, tokens,
                   flushing, lostIn, back, serverVars, mixed, strays>>

Enqueue ==
    /\ \E x \in callers :
          /\ callers' = callers \ {x}
          /\ IF x.authenticated THEN outbox' = Append(outbox, x.call) /\ UNCHANGED queue
             ELSE queue' = Append(queue, x.call) /\ UNCHANGED outbox
    /\ UNCHANGED <<kind, auth, link, conn, broken, closed, pending, sender, tokens,
                   flushing, outcome, lostIn, wire, back, serverVars, mixed, strays>>

\* The 30 s timer of a call; Java's close stops the timers.
Timeout(c) ==
    /\ kind = "java" => closed # "closed"
    /\ c \in Range(pending)
    /\ pending' = Without(c)
    /\ outcome' = Told({c}, "timeout")
    /\ mixed' = TRUE
    /\ UNCHANGED <<kind, auth, link, conn, broken, closed, queue, outbox, sender,
                   tokens, callers, flushing, lostIn, wire, back, serverVars,
                   strays>>

-----------------------------------------------------------------------------
(* Connections *)

Open ==
    /\ link = "down" /\ closed = "no" /\ conn + 1 \in Conns
    /\ link' = "open" /\ conn' = conn + 1 /\ broken' = FALSE /\ sender' = TRUE
    /\ back' = [back EXCEPT ![conn + 1] = <<HELLO>>]
    /\ session' = [session EXCEPT ![conn + 1] = IF auth THEN "new" ELSE "in"]
    /\ UNCHANGED <<kind, auth, closed, pending, queue, outbox, tokens, callers,
                   flushing, outcome, lostIn, wire, handled, performed, refused,
                   mixed, strays>>

GiveUpSilently ==
    /\ pending' = <<>> /\ queue' = <<>>
    /\ UNCHANGED <<outcome, lostIn>>

GiveUpKeepsQueue ==
    /\ pending' = <<>> /\ UNCHANGED queue
    /\ outcome' = Told(Range(pending), "lost")
    /\ lostIn' = [c \in Calls |-> IF c \in Range(pending) THEN conn ELSE lostIn[c]]

\* Every pending call is told that the connection is lost.
GiveUp ==
    /\ pending' = <<>> /\ queue' = <<>>
    /\ outcome' = Told(Range(pending), "lost")
    /\ lostIn' = [c \in Calls |-> IF c \in Range(pending) THEN conn ELSE lostIn[c]]

\* A failed attempt closes the TypeScript socket; the other two only wait.
OpenFails ==
    /\ kind = "ts" /\ link = "down" /\ closed = "no" /\ strays < MaxStrayErrors
    /\ strays' = strays + 1
    /\ GiveUp
    /\ UNCHANGED <<kind, auth, link, conn, broken, closed, outbox, sender, tokens,
                   callers, flushing, wire, back, serverVars, mixed>>

\* The connection dies with a part of what was sent.
Lose ==
    /\ link # "down" /\ ~broken /\ broken' = TRUE
    /\ \E n \in 0..Len(wire[conn]) :
          wire' = [wire EXCEPT ![conn] = SubSeq(@, 1, n)]
    /\ UNCHANGED <<kind, auth, link, conn, closed, pending, queue, outbox, sender,
                   tokens, callers, flushing, outcome, lostIn, back, serverVars,
                   mixed, strays>>

\* close.  A WebSocket of the browser drops what arrives after that, Python cancels
\* its receiver; Java goes on receiving until the server closes too.
Close ==
    /\ closed = "no" /\ closed' = "closed"
    /\ broken' = IF link # "down" /\ kind # "java" THEN TRUE ELSE broken
    /\ UNCHANGED <<kind, auth, link, conn, pending, queue, outbox, sender, tokens,
                   callers, flushing, outcome, lostIn, wire, back, serverVars,
                   mixed, strays>>

\* onDisconnect, the finally block of _run, handleDisconnect
OnDisconnect ==
    /\ link # "down" /\ ~flushing
    /\ broken \/ closed = "closed" \/ (session[conn] = "ended" /\ back[conn] = <<>>)
    /\ link' = "down" /\ sender' = FALSE
    /\ IF kind = "java" THEN UNCHANGED <<pending, queue, outcome, lostIn>>
       ELSE GiveUp
    /\ UNCHANGED <<kind, auth, conn, broken, closed, outbox, tokens, callers,
                   flushing, wire, back, serverVars, mixed, strays>>

-----------------------------------------------------------------------------
(* Frames of the server *)

\* onReady: flush the queue.  becomeAuthenticated first lets other threads see
\* that it is authenticated, and flushes in a later step.
Ready ==
    /\ link' = "ready" /\ UNCHANGED <<pending, outcome, tokens, closed>>
    /\ IF kind = "java" THEN flushing' = TRUE /\ UNCHANGED <<queue, wire, outbox>>
       ELSE queue' = <<>> /\ UNCHANGED flushing /\ Sent(queue)

FlushKeepsQueue ==
    /\ flushing /\ flushing' = FALSE
    /\ outbox' = outbox \o queue
    /\ UNCHANGED <<queue, kind, auth, link, conn, broken, closed, pending, sender,
                   tokens, callers, outcome, lostIn, wire, back, serverVars, mixed,
                   strays>>

Flush ==
    /\ flushing /\ flushing' = FALSE
    /\ outbox' = outbox \o queue /\ queue' = <<>>
    /\ UNCHANGED <<kind, auth, link, conn, broken, closed, pending, sender, tokens,
                   callers, outcome, lostIn, wire, back, serverVars, mixed, strays>>

\* onHello asks for a token; the TypeScript client goes on meanwhile.
OnHello ==
    IF ~auth THEN Ready
    ELSE /\ UNCHANGED <<link, pending, outcome, closed, queue, flushing>>
         /\ IF kind = "ts" THEN tokens' = tokens + 1 /\ UNCHANGED <<wire, outbox>>
            ELSE Sent(<<AUTH>>) /\ UNCHANGED tokens

\* ... and sends it on whatever connection is open when it arrives.
TokenArrives ==
    /\ tokens > 0 /\ tokens' = tokens - 1
    /\ wire' = Wired(<<AUTH>>)
    /\ UNCHANGED <<kind, auth, link, conn, broken, closed, pending, queue, outbox,
                   sender, callers, flushing, outcome, lostIn, back, serverVars,
                   mixed, strays>>

OnResult(c) ==
    /\ pending' = Without(c)
    /\ outcome' = Told({c} \cap Range(pending), "ok")
    /\ UNCHANGED <<link, queue, outbox, tokens, flushing, closed, wire>>

OnErrorNewest ==
    /\ IF kind = "java" \/ pending = <<>> THEN UNCHANGED <<pending, outcome>>
       ELSE /\ pending' = SubSeq(pending, 1, Len(pending) - 1)
            /\ outcome' = Told({pending[Len(pending)]}, "refused")
    /\ closed' = IF kind = "java" /\ link = "open" THEN "gave up" ELSE closed
    /\ UNCHANGED <<link, queue, outbox, tokens, flushing, wire>>

\* onError rejects the oldest pending call.  Java looks for a call_id, which the
\* server does not send, and gives up for good on an error before AUTH_OK.
OnError ==
    /\ IF kind = "java" \/ pending = <<>> THEN UNCHANGED <<pending, outcome>>
       ELSE /\ pending' = Tail(pending)
            /\ outcome' = Told({Head(pending)}, "refused")
    /\ closed' = IF kind = "java" /\ link = "open" /\ closed = "no" THEN "gave up"
                 ELSE closed
    /\ UNCHANGED <<link, queue, outbox, tokens, flushing, wire>>

\* handleFrame
Receive ==
    /\ link # "down" /\ ~broken /\ ~flushing /\ back[conn] # <<>>
    /\ back' = [back EXCEPT ![conn] = Tail(@)]
    /\ LET f == Head(back[conn]) IN
          \/ f = HELLO /\ OnHello
          \/ f = AUTH_OK /\ Ready
          \/ f = ERROR /\ OnError
          \/ \E c \in Calls : f = RESULT(c) /\ OnResult(c)
    /\ UNCHANGED <<kind, auth, conn, broken, sender, callers, lostIn, serverVars,
                   mixed, strays>>

-----------------------------------------------------------------------------
(* The server *)

Answer(g, f) == back' = [back EXCEPT ![g] = Append(@, f)]

\* auth_handshake: the first frame has to be an AUTH with a good token.
Handshake(g, f) ==
    /\ session[g] = "new"
    /\ \/ /\ f = AUTH
          /\ session' = [session EXCEPT ![g] = "in"] /\ Answer(g, AUTH_OK)
          /\ UNCHANGED <<mixed, strays>>
       \/ /\ IF f = AUTH THEN strays < MaxStrayErrors /\ strays' = strays + 1
             ELSE UNCHANGED strays
          /\ session' = [session EXCEPT ![g] = "ended"] /\ Answer(g, ERROR)
          /\ mixed' = TRUE
    /\ UNCHANGED <<handled, performed, refused>>

\* handle_frame: a CALL is performed or refused; a second AUTH is ignored.
HandleFrame(g, f) ==
    /\ session[g] = "in"
    /\ \/ f = AUTH /\ UNCHANGED <<back, handled, performed, refused>>
       \/ /\ f \in Calls /\ handled' = [handled EXCEPT ![g] = Append(@, f)]
          /\ \/ performed' = Append(performed, f) /\ Answer(g, RESULT(f))
                /\ UNCHANGED refused
             \/ refused' = refused \cup {f} /\ Answer(g, ERROR)
                /\ UNCHANGED performed
    /\ UNCHANGED <<session, mixed, strays>>

ServerStep(g) ==
    /\ wire[g] # <<>> /\ wire' = [wire EXCEPT ![g] = Tail(@)]
    /\ Handshake(g, Head(wire[g])) \/ HandleFrame(g, Head(wire[g]))
    /\ UNCHANGED clientVars

\* An ERROR for a WATCH or RESUME, which the client sends once it is ready.
WatchRefused ==
    /\ link = "ready" /\ strays < MaxStrayErrors
    /\ strays' = strays + 1 /\ mixed' = TRUE
    /\ Answer(conn, ERROR)
    /\ UNCHANGED <<clientVars, wire, serverVars>>

-----------------------------------------------------------------------------
Next ==
    \/ \E c \in Calls : Call(c) \/ Timeout(c)
    \/ Enqueue \/ Sender \/ Open \/ OpenFails \/ Lose \/ Close \/ OnDisconnect
    \/ Receive \/ Flush \/ TokenArrives \/ WatchRefused
    \/ \E g \in Conns : ServerStep(g)

Spec == Init /\ [][Next]_vars

\* The timers fire.
FairSpec == Spec /\ \A c \in Calls : WF_vars(Timeout(c))

-----------------------------------------------------------------------------
\* A call is performed at most once however often the client reconnects, and a
\* caller that got a RESULT had its call performed (call, onReady's flush).
CallsOnce ==
    /\ IsInjective(performed)
    /\ \A c \in Calls : outcome[c] = "ok" => c \in Range(performed)

\* An ERROR does not name its call, so onError rejects the oldest pending one.
\* That is the call the server refused, as long as no ERROR answered something
\* else, no call timed out and no frame of a settled call was sent.
RightCallRejected ==
    ~mixed => \A c \in Calls : outcome[c] = "refused" => c \in refused

\* A call reported as "connection lost" is not sent on a later connection, where
\* it would take effect behind its caller's back (onDisconnect clears callQueue).
\* Python's _send_queue outlives the connection, so the claim leaves it out.
LostStaysLost ==
    kind # "py" => \A c \in Calls : outcome[c] = "lost" =>
        \A g \in Conns : g > lostIn[c] => c \notin Range(wire[g] \o handled[g])

\* Every call settles: no path drops an entry of pendingCalls without telling its
\* caller.  Java's close stops the timers and leaves the callers waiting.
EverySettles ==
    \A c \in Calls : (outcome[c] = "pending") ~>
        (outcome[c] # "pending" \/ (kind = "java" /\ closed = "closed"))
=============================================================================
