----------------------------- MODULE Connection -----------------------------
(***************************************************************************)
(* The life of a connection to the Rust server: SodpServer::listen, the    *)
(* handshake and the event loop of handle_connection with its timers, the  *)
(* rate limiters, and shutdown (main).  What a request does once it is let *)
(* through is the subject of Acl and Server.                               *)
(*                                                                         *)
(* Time is counted in ticks, TicksPerSec of them to a second, because the  *)
(* code reads clocks of different grain: Instants, and Unix seconds for    *)
(* the expiry of a token.  A timer that is due is handled at most MaxLag   *)
(* ticks late.  When several arms of a select! are ready it takes any.     *)
(***************************************************************************)
EXTENDS Naturals, Sequences, FiniteSets

CONSTANTS Conns,             \* connections the clients may have open at a time
          Tokens,            \* JWTs: [good, exp (in seconds)]
          MaxConnections,    \* SODP_MAX_CONNECTIONS
          WsPingInterval,    \* SODP_WS_PING_INTERVAL, in seconds
          MaxPerSec,         \* "read" -> SODP_RATE_WATCHES_PER_SEC,
                             \* "write" -> SODP_RATE_WRITES_PER_SEC
          TicksPerSec, MaxLag,
          MaxTime,           \* bound: ticks
          MaxRequests        \* bound: WATCH and CALL frames

Ops == {"read", "write"}

ASSUME ConnectionAssumption ==
    /\ MaxConnections \in Nat /\ WsPingInterval \in Nat
    /\ MaxPerSec \in [Ops -> Nat]
    /\ TicksPerSec \in Nat \ {0} /\ MaxLag \in Nat /\ MaxTime \in Nat
    /\ MaxRequests \in Nat
    /\ Tokens \subseteq [good : BOOLEAN, exp : Nat]

VARIABLES now,
          auth_required, \* is there a JWT configuration?
          connections,   \* the counter of the accept loop
          conn,          \* connection -> its handler (see Fresh)
          shutdown,      \* is the shutdown token cancelled?
          listening,     \* does the accept loop run?
          exited,        \* has main returned?
          requests

serverVars == <<auth_required, connections, shutdown, listening, exited>>
vars == <<now, conn, requests, serverVars>>

Never == MaxTime + MaxLag + 1
Secs(t) == t \div TicksPerSec

-----------------------------------------------------------------------------
(* The rate limiters of session.rs and of sodp-middleware *)

NewLimiter == [count |-> 0, window_start |-> now]

\* window_start.elapsed().as_secs() >= 1
Elapsed(l) == Secs(now - l.window_start) >= 1

RolledKeepsStart(l) == IF Elapsed(l) THEN [l EXCEPT !.count = 0] ELSE l

Rolled(l) == IF Elapsed(l) THEN [count |-> 0, window_start |-> now] ELSE l

Allows(l, max) == Rolled(l).count < max
Counted(l, max) ==
    IF Allows(l, max) THEN [Rolled(l) EXCEPT !.count = @ + 1] ELSE Rolled(l)

\* sodp-middleware counts the requests it rejects as well.
MiddlewareCounted(l) == [Rolled(l) EXCEPT !.count = @ + 1]
MiddlewareAllowsBelow(l, max) == MiddlewareCounted(l).count < max

MiddlewareAllows(l, max) == MiddlewareCounted(l).count <= max

-----------------------------------------------------------------------------
(* Connections *)

\* pc is "free", "hello", "auth", "open", or "ended": handle_connection has
\* left its loop.  The fields after awaiting_pong are history.
Fresh ==
    [pc |-> "hello", limiter |-> [o \in Ops |-> NewLimiter],
     token_expiry |-> Never, ping_tick |-> Never, awaiting_pong |-> FALSE,
     middleware |-> [o \in Ops |-> NewLimiter],
     exp |-> Never, pinged |-> 0, heard |-> now,
     admitted |-> [o \in Ops |-> <<>>]]

Free == [Fresh EXCEPT !.pc = "free", !.heard = 0,
                      !.limiter = [o \in Ops |-> [count |-> 0, window_start |-> 0]],
                      !.middleware = [o \in Ops |-> [count |-> 0, window_start |-> 0]]]

Init ==
    /\ now = 0 /\ requests = 0
    /\ auth_required \in BOOLEAN
    /\ connections = 0 /\ conn = [c \in Conns |-> Free]
    /\ shutdown = FALSE /\ listening = TRUE /\ exited = FALSE

At(c, label) == ~exited /\ conn[c].pc = label
Ends(c) == conn' = [conn EXCEPT ![c].pc = "ended"]

AcceptsOneMore(c) ==
    /\ listening /\ At(c, "free")
    /\ connections <= MaxConnections
    /\ connections' = connections + 1
    /\ conn' = [conn EXCEPT ![c] = Fresh]
    /\ UNCHANGED <<now, requests, auth_required, shutdown, listening, exited>>

\* The accept loop drops a connection above the limit.  It is the only place
\* that increments the counter.
Accept(c) ==
    /\ listening /\ At(c, "free")
    /\ connections < MaxConnections
    /\ connections' = connections + 1
    /\ conn' = [conn EXCEPT ![c] = Fresh]
    /\ UNCHANGED <<now, requests, auth_required, shutdown, listening, exited>>

\* fetch_sub when handle_connection has returned
Release(c) ==
    /\ At(c, "ended")
    /\ connections' = connections - 1
    /\ conn' = [conn EXCEPT ![c] = Free]
    /\ UNCHANGED <<now, requests, auth_required, shutdown, listening, exited>>

PingPeriod == IF WsPingInterval = 0 THEN Never ELSE WsPingInterval * TicksPerSec

ExpRemainingFromEpoch(exp) == exp * TicksPerSec

\* exp_remaining
ExpRemaining(exp) ==
    IF exp > Secs(now) THEN (exp - Secs(now)) * TicksPerSec ELSE 0

\* The event loop starts.
Opened(r) == [r EXCEPT !.pc = "open", !.ping_tick = now + PingPeriod, !.heard = now]

\* The upgrade and HELLO; without a JWT configuration the loop starts at once.
Hello(c) ==
    /\ At(c, "hello")
    /\ conn' = [conn EXCEPT ![c] =
          IF auth_required THEN [@ EXCEPT !.pc = "auth"] ELSE Opened(@)]
    /\ UNCHANGED <<now, requests, serverVars>>

\* validate_jwt, with leeway 0
ValidateJwt(token) == token.good /\ token.exp >= Secs(now)

\* An AUTH frame.  The handshake has neither a timeout nor a shutdown arm.
Auth(c, token) ==
    /\ At(c, "auth")
    /\ conn' = [conn EXCEPT ![c] =
          IF ~ValidateJwt(token) THEN [@ EXCEPT !.pc = "ended"]
          ELSE [Opened(@) EXCEPT !.exp = token.exp,
                   !.token_expiry = now + ExpRemaining(token.exp)]]
    /\ UNCHANGED <<now, requests, serverVars>>

\* Before the loop: the upgrade or a send fails, the client closes, sends a
\* frame that is too large or cannot be decoded, or another one than AUTH
HandshakeFails(c) ==
    /\ At(c, "hello") \/ At(c, "auth")
    /\ Ends(c)
    /\ UNCHANGED <<now, requests, serverVars>>

-----------------------------------------------------------------------------
(* The event loop *)

\* WATCH or RESUME (read) and CALL (write): 429, or handled
Request(c, op) ==
    LET allowed == Allows(conn[c].limiter[op], MaxPerSec[op])
    IN /\ At(c, "open") /\ requests < MaxRequests
       /\ requests' = requests + 1
       /\ conn' = [conn EXCEPT
             ![c].limiter[op] = Counted(@, MaxPerSec[op]),
             ![c].middleware[op] = MiddlewareCounted(@),
             ![c].admitted[op] = IF allowed THEN Append(@, now) ELSE @]
       /\ UNCHANGED <<now, serverVars>>

\* Message::Pong
Pong(c) ==
    /\ At(c, "open") /\ conn[c].awaiting_pong
    /\ conn' = [conn EXCEPT ![c].awaiting_pong = FALSE, ![c].heard = now]
    /\ UNCHANGED <<now, requests, serverVars>>

\* The client closes, sends a frame that is too large, or is evicted as a slow
\* consumer; a frame that cannot be decoded is ignored.
Leave(c) ==
    /\ At(c, "open") /\ Ends(c)
    /\ UNCHANGED <<now, requests, serverVars>>

TokenExpires(c) ==
    /\ At(c, "open") /\ now >= conn[c].token_expiry
    /\ Ends(c)
    /\ UNCHANGED <<now, requests, serverVars>>

Due(c) == At(c, "open") /\ now >= conn[c].ping_tick

SendPingNotRescheduled(c) ==
    /\ Due(c) /\ ~conn[c].awaiting_pong
    /\ conn' = [conn EXCEPT ![c].awaiting_pong = TRUE, ![c].pinged = now]
    /\ UNCHANGED <<now, requests, serverVars>>

\* ping_ticker.tick(), the first time: the interval does not drift
SendPing(c) ==
    /\ Due(c) /\ ~conn[c].awaiting_pong
    /\ conn' = [conn EXCEPT ![c].awaiting_pong = TRUE, ![c].pinged = now,
                            ![c].ping_tick = @ + PingPeriod]
    /\ UNCHANGED <<now, requests, serverVars>>

\* and with a ping still unanswered
PingTimeout(c) ==
    /\ Due(c) /\ conn[c].awaiting_pong
    /\ Ends(c)
    /\ UNCHANGED <<now, requests, serverVars>>

-----------------------------------------------------------------------------
(* Shutdown and time *)

\* Ctrl-C or SIGTERM
Signal ==
    /\ ~exited /\ ~shutdown
    /\ shutdown' = TRUE
    /\ UNCHANGED <<now, conn, requests, auth_required, connections, listening,
                   exited>>

SessionShutdown(c) ==
    /\ At(c, "open") /\ shutdown
    /\ Ends(c)
    /\ UNCHANGED <<now, requests, serverVars>>

\* The accept loop takes its shutdown arm; it waits for nobody.
StopListening ==
    /\ shutdown /\ listening
    /\ listening' = FALSE
    /\ UNCHANGED <<now, conn, requests, auth_required, connections, shutdown,
                   exited>>

\* listen and with it main return: the handlers are dropped wherever they are
Exit ==
    /\ ~listening /\ ~exited
    /\ exited' = TRUE /\ connections' = 0 /\ conn' = [c \in Conns |-> Free]
    /\ UNCHANGED <<now, requests, auth_required, shutdown, listening>>

Tick ==
    /\ ~exited /\ now < MaxTime
    /\ \A c \in Conns : At(c, "open") => /\ now < conn[c].token_expiry + MaxLag
                                         /\ now < conn[c].ping_tick + MaxLag
    /\ now' = now + 1
    /\ UNCHANGED <<conn, requests, serverVars>>

Handler(c) ==
    \/ Hello(c) \/ HandshakeFails(c) \/ \E t \in Tokens : Auth(c, t)
    \/ \E op \in Ops : Request(c, op)
    \/ Pong(c) \/ Leave(c) \/ TokenExpires(c) \/ SendPing(c) \/ PingTimeout(c)
    \/ SessionShutdown(c) \/ Release(c)

Next ==
    \/ \E c \in Conns : Accept(c) \/ Handler(c)
    \/ Signal \/ StopListening \/ Exit \/ Tick

Spec == Init /\ [][Next]_vars

-----------------------------------------------------------------------------
(* Properties *)

Active == {c \in Conns : conn[c].pc # "free"}

\* The counter that admits connections and that the health endpoint reports is
\* the number of handlers that run, and never above the limit, whatever way a
\* connection ends (server.rs:269-287).
ConnectionsExact ==
    connections = Cardinality(Active) /\ connections <= MaxConnections

\* No second sees more than twice the rate let through: a second meets at most
\* two windows (session.rs:33-35).
AtMostTwice ==
    \A c \in Conns, o \in Ops, t \in 0..now :
        LET times == conn[c].admitted[o]
        IN Cardinality({i \in DOMAIN times : times[i] \in t..(t + TicksPerSec - 1)})
             <= 2 * MaxPerSec[o]

\* The limiter of sodp-middleware, which counts what it rejects, gives the
\* answers of the one of the server (sodp-middleware/src/rate.rs:43-50).
LimitersAgree ==
    \A c \in Conns, o \in Ops :
        Allows(conn[c].limiter[o], MaxPerSec[o])
          <=> MiddlewareAllows(conn[c].middleware[o], MaxPerSec[o])

\* An open session has a token that is not expired by a second or more, and a
\* peer that has answered within two ping periods, but for the lag of a timer
\* (server.rs:79-90, 414-431).
OpenIsAlive ==
    \A c \in Conns : At(c, "open") =>
        /\ now < (conn[c].exp + 1) * TicksPerSec + MaxLag
        /\ now <= conn[c].heard + 2 * PingPeriod + MaxLag

\* A session is closed for a ping only if the peer had a full period, but for
\* the lag of the tick that sent it, to answer it (server.rs:423-430).
PingGrace ==
    [][\A c \in Conns : PingTimeout(c) => now - conn[c].pinged >= PingPeriod - MaxLag]_vars
=============================================================================
