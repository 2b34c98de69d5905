-------------------------- MODULE ConnectionProofs --------------------------
(***************************************************************************)
(* Proofs about Connection: the counter of the accept loop, the agreement  *)
(* of the two rate limiters, the requests they let through in a second,    *)
(* and the deadlines that the timers enforce, for any connections, limits, *)
(* periods, tokens and lag.                                                *)
(***************************************************************************)
EXTENDS Connection, FiniteSetTheorems, WellFoundedInduction, TLAPS

Limiter == [count : Nat, window_start : Nat]

State == [pc : {"free", "hello", "auth", "open", "ended"},
          limiter : [Ops -> Limiter], token_expiry : Nat, ping_tick : Nat,
          awaiting_pong : BOOLEAN, middleware : [Ops -> Limiter],
          exp : Nat, pinged : Nat, heard : Nat, admitted : [Ops -> Seq(Nat)]]

\* The counter, with what makes its cardinality meaningful
Counts == IsFiniteSet(Active) /\ ConnectionsExact

\* Both limiters are in the same window; the server's stops at the limit.
SameWindow(l, m, max) ==
    /\ l.window_start = m.window_start
    /\ l.count = IF m.count < max THEN m.count ELSE max

Windows(r) ==
    \A o \in Ops : SameWindow(r.limiter[o], r.middleware[o], MaxPerSec[o])

\* The end of the second in which a token expires
EndOf(exp) == (exp + 1) * TicksPerSec

\* Before the loop no timer is set; in the loop each is due at most MaxLag
\* ticks ago, the expiry timer lies within the second of the expiry, and the
\* next tick of the interval is at most a period after the last sign of life,
\* or after the ping that waits for one.
Deadlines(r) ==
    /\ r.pc \in {"hello", "auth"} =>
          ~r.awaiting_pong /\ r.token_expiry = Never /\ r.exp = Never
    /\ r.pc = "open" =>
          /\ now <= r.token_expiry + MaxLag /\ r.token_expiry < EndOf(r.exp)
          /\ now <= r.ping_tick + MaxLag
          /\ r.heard <= now
          /\ ~r.awaiting_pong => r.ping_tick <= r.heard + PingPeriod
          /\ r.awaiting_pong =>
                /\ r.pinged <= now /\ r.ping_tick <= r.pinged + PingPeriod
                /\ r.pinged + PingPeriod <= r.ping_tick + MaxLag
                /\ r.ping_tick <= r.heard + PingPeriod + PingPeriod

Good(r) == Windows(r) /\ Deadlines(r)

Handled ==
    now \in 0..MaxTime /\ conn \in [Conns -> State] /\ \A c \in Conns : Good(conn[c])

IndInv == Handled /\ Counts

-----------------------------------------------------------------------------
(* Arithmetic and the values of the records *)

LEMMA PeriodType == PingPeriod \in Nat /\ Never \in Nat
BY ConnectionAssumption, SMT, Z3 DEF PingPeriod, Never

LEMMA SecondEnds ==
    ASSUME NEW t \in Nat
    PROVE  Secs(t) \in Nat /\ t < (Secs(t) + 1) * TicksPerSec
BY ConnectionAssumption, SMT, Z3 DEF Secs

LEMMA NeverEnds == Never < EndOf(Never)
<1>1. TicksPerSec \in Nat /\ TicksPerSec >= 1
  BY ConnectionAssumption, SMT, Z3
<1>2. \A n, t \in Nat : t >= 1 => n < (n + 1) * t
  BY SMT, Z3
<1> QED  BY <1>1, <1>2, PeriodType, Zenon DEF EndOf

\* A timer set for a valid token fires within the second of its expiry.
LEMMA ExpiryTimer ==
    ASSUME NEW e \in Nat, now \in Nat, e >= Secs(now)
    PROVE  ExpRemaining(e) \in Nat /\ now + ExpRemaining(e) < EndOf(e)
<1>1. Secs(now) \in Nat /\ now < (Secs(now) + 1) * TicksPerSec /\ TicksPerSec \in Nat
  BY SecondEnds, ConnectionAssumption, Zenon
<1>2. CASE e > Secs(now)
  <2>1. \A a, s, t \in Nat : a > s =>
           (a - s) * t \in Nat /\ (s + 1) * t + (a - s) * t = (a + 1) * t
    BY SMT, Z3
  <2> QED  BY <1>1, <1>2, <2>1, SMT, Z3 DEF ExpRemaining, EndOf
<1>3. CASE e = Secs(now)
  BY <1>1, <1>3, SMT, Z3 DEF ExpRemaining, EndOf
<1> QED  BY <1>1, <1>2, <1>3, SMT, Z3

-----------------------------------------------------------------------------
(* Every step leaves a handler in a good state *)

LEMMA FreshGood ==
    ASSUME now \in 0..MaxTime
    PROVE  Fresh \in State /\ Good(Fresh) /\ Free \in State /\ Good(Free)
<1>1. now \in Nat /\ Never \in Nat /\ MaxPerSec \in [Ops -> Nat]
  BY PeriodType, ConnectionAssumption, SMT, Z3
<1>2. NewLimiter \in Limiter /\ [count |-> 0, window_start |-> 0] \in Limiter
  BY <1>1, Zenon DEF NewLimiter, Limiter
<1>3. Fresh \in State
  BY <1>1, <1>2, SMT, Z3 DEF Fresh, State
<1>4. Free \in State /\ Free.pc = "free"
  BY <1>1, <1>2, <1>3, Zenon DEF Free, Fresh, State
<1>5. Windows(Fresh) /\ Windows(Free)
  BY <1>1, SMT, Z3 DEF Windows, SameWindow, Fresh, Free, NewLimiter
<1>6. Deadlines(Fresh) /\ Deadlines(Free)
  BY <1>4, Zenon DEF Deadlines, Fresh
<1> QED  BY <1>3, <1>4, <1>5, <1>6, Zenon DEF Good

\* Leaving the loop or the handshake
LEMMA EndsGood ==
    ASSUME NEW r \in State, Good(r)
    PROVE  [r EXCEPT !.pc = "ended"] \in State /\ Good([r EXCEPT !.pc = "ended"])
BY Zenon DEF State, Good, Windows, Deadlines

LEMMA OpenedGood ==
    ASSUME now \in 0..MaxTime, NEW r \in State, Good(r), r.pc \in {"hello", "auth"}
    PROVE  Opened(r) \in State /\ Good(Opened(r))
<1>1. /\ now \in Nat /\ now <= MaxTime /\ MaxTime \in Nat /\ MaxLag \in Nat
      /\ PingPeriod \in Nat /\ Never \in Nat /\ now <= Never /\ Never < EndOf(Never)
  BY PeriodType, NeverEnds, ConnectionAssumption, SMT, Z3 DEF Never
<1>2. ~r.awaiting_pong /\ r.token_expiry = Never /\ r.exp = Never
  BY Zenon DEF Good, Deadlines
<1>3. Opened(r) \in State
  <2> DEFINE p == now + PingPeriod
  <2>1. p \in Nat
    BY <1>1, SMT, Z3
  <2> HIDE DEF p
  <2>2. [r EXCEPT !.pc = "open", !.ping_tick = p, !.heard = now] \in State
    BY <1>1, <2>1, Zenon DEF State
  <2> QED  BY <2>2, Zenon DEF Opened, p
<1>4. Windows(Opened(r))
  BY Zenon DEF Good, Windows, Opened, State
<1>5. Deadlines(Opened(r))
  BY <1>1, <1>2, SMT, Z3 DEF Deadlines, Opened, State
<1> QED  BY <1>3, <1>4, <1>5, Zenon DEF Good

LEMMA AuthGood ==
    ASSUME now \in 0..MaxTime, NEW r \in State, Good(r), r.pc = "auth",
           NEW token \in Tokens, ValidateJwt(token)
    PROVE  LET s == [Opened(r) EXCEPT !.exp = token.exp,
                        !.token_expiry = now + ExpRemaining(token.exp)]
           IN s \in State /\ Good(s)
<1> DEFINE e == token.exp
           x == now + ExpRemaining(e)
           s == [Opened(r) EXCEPT !.exp = e, !.token_expiry = x]
<1>1. /\ now \in Nat /\ MaxLag \in Nat /\ e \in Nat /\ e >= Secs(now)
      /\ PingPeriod \in Nat
  BY PeriodType, ConnectionAssumption, SMT, Z3 DEF ValidateJwt
<1>2. x \in Nat /\ now <= x /\ x < EndOf(e)
  BY <1>1, ExpiryTimer, SMT, Z3
<1>3. Opened(r) \in State /\ Good(Opened(r)) /\ Opened(r).pc = "open"
  BY OpenedGood, Zenon DEF Opened, State
<1> HIDE DEF e, x
<1>4. s \in State
  BY <1>1, <1>2, <1>3, Zenon DEF State
<1>5. Windows(s)
  BY <1>3, Zenon DEF Good, Windows, State
<1>6. Deadlines(s)
  <2>1. /\ s.pc = "open" /\ s.exp = e /\ s.token_expiry = x
        /\ s.ping_tick = Opened(r).ping_tick /\ s.heard = Opened(r).heard
        /\ s.pinged = Opened(r).pinged /\ s.awaiting_pong = Opened(r).awaiting_pong
    BY <1>3, Zenon DEF State
  <2>2. x <= x + MaxLag /\ now <= x + MaxLag
    BY <1>1, <1>2, SMT, Z3
  <2> QED  BY <1>2, <1>3, <2>1, <2>2, Zenon DEF Good, Deadlines
<1> QED  BY <1>4, <1>5, <1>6, Zenon DEF Good, e, x

\* Limiters in the same window leave it together.
LEMMA RolledAgree ==
    ASSUME now \in Nat, NEW l \in Limiter, NEW m \in Limiter, NEW max \in Nat,
           SameWindow(l, m, max)
    PROVE  /\ Rolled(l) \in Limiter /\ Rolled(m) \in Limiter
           /\ SameWindow(Rolled(l), Rolled(m), max)
<1>1. Elapsed(l) <=> Elapsed(m)
  BY Zenon DEF SameWindow, Elapsed
<1>2. CASE Elapsed(l)
  BY <1>1, <1>2, SMT, Z3 DEF Rolled, SameWindow, Limiter
<1>3. CASE ~Elapsed(l)
  BY <1>1, <1>3, Zenon DEF Rolled
<1> QED  BY <1>2, <1>3, Zenon

LEMMA RequestGood ==
    ASSUME now \in 0..MaxTime, NEW r \in State, Good(r), NEW op \in Ops
    PROVE  LET s == [r EXCEPT
                  !.limiter[op] = Counted(@, MaxPerSec[op]),
                  !.middleware[op] = MiddlewareCounted(@),
                  !.admitted[op] = IF Allows(r.limiter[op], MaxPerSec[op])
                                   THEN Append(@, now) ELSE @]
           IN s \in State /\ Good(s)
<1> DEFINE l == Counted(r.limiter[op], MaxPerSec[op])
           m == MiddlewareCounted(r.middleware[op])
           a == IF Allows(r.limiter[op], MaxPerSec[op])
                THEN Append(r.admitted[op], now) ELSE r.admitted[op]
           s == [r EXCEPT !.limiter = [r.limiter EXCEPT ![op] = l],
                          !.middleware = [r.middleware EXCEPT ![op] = m],
                          !.admitted = [r.admitted EXCEPT ![op] = a]]
<1>1. /\ now \in Nat /\ MaxPerSec[op] \in Nat
      /\ r.limiter[op] \in Limiter /\ r.middleware[op] \in Limiter
      /\ r.admitted[op] \in Seq(Nat)
      /\ SameWindow(r.limiter[op], r.middleware[op], MaxPerSec[op])
  BY ConnectionAssumption, SMT, Z3 DEF State, Good, Windows
<1>2. l \in Limiter /\ m \in Limiter /\ SameWindow(l, m, MaxPerSec[op])
  <2> DEFINE rl == Rolled(r.limiter[op])
             rm == Rolled(r.middleware[op])
  <2>1. rl \in Limiter /\ rm \in Limiter /\ SameWindow(rl, rm, MaxPerSec[op])
    BY <1>1, RolledAgree, Zenon
  <2> HIDE DEF rl, rm
  <2>2. [rm EXCEPT !.count = rm.count + 1] \in Limiter
    BY <2>1, SMT, Z3 DEF Limiter
  <2>3. CASE rl.count < MaxPerSec[op]
    <3>1. rl.count = rm.count
      BY <1>1, <2>1, <2>3, SMT, Z3 DEF SameWindow, Limiter
    <3>2. [rl EXCEPT !.count = rl.count + 1] = [rm EXCEPT !.count = rm.count + 1]
      BY <2>1, <3>1, Zenon DEF SameWindow, Limiter
    <3>3. rm.count + 1 <= MaxPerSec[op]
      BY <1>1, <2>1, <2>3, <3>1, SMT, Z3 DEF Limiter
    <3> QED  BY <1>1, <2>1, <2>2, <2>3, <3>2, <3>3, SMT, Z3
             DEF Counted, MiddlewareCounted, Allows, SameWindow, Limiter, rl, rm
  <2>4. CASE ~(rl.count < MaxPerSec[op])
    <3>1. rl.count = MaxPerSec[op] /\ ~(rm.count + 1 < MaxPerSec[op])
      BY <1>1, <2>1, <2>4, SMT, Z3 DEF SameWindow, Limiter
    <3> QED  BY <1>1, <2>1, <2>2, <2>4, <3>1, ZenonT(30)
             DEF Counted, MiddlewareCounted, Allows, SameWindow, Limiter, rl, rm
  <2> QED  BY <2>3, <2>4, Zenon
<1>3. a \in Seq(Nat)
  BY <1>1, SMT, Z3
<1> HIDE DEF l, m, a
<1>4. s \in State
  BY <1>2, <1>3, Zenon DEF State
<1>5. Windows(s)
  BY <1>2, Zenon DEF Good, Windows, State
<1>6. Deadlines(s)
  BY Zenon DEF Good, Deadlines, State
<1> QED  BY <1>4, <1>5, <1>6, Zenon DEF Good, l, m, a

LEMMA PongGood ==
    ASSUME now \in 0..MaxTime, NEW r \in State, Good(r), r.pc = "open", r.awaiting_pong
    PROVE  LET s == [r EXCEPT !.awaiting_pong = FALSE, !.heard = now]
           IN s \in State /\ Good(s)
<1> DEFINE s == [r EXCEPT !.awaiting_pong = FALSE, !.heard = now]
<1>1. now \in Nat /\ PingPeriod \in Nat /\ MaxLag \in Nat
  BY PeriodType, ConnectionAssumption, SMT, Z3
<1>2. s \in State
  BY <1>1, Zenon DEF State
<1>3. Windows(s)
  BY Zenon DEF Good, Windows, State
<1>4. Deadlines(s)
  BY <1>1, SMTT(30), Z3T(30) DEF Good, Deadlines, State
<1> QED  BY <1>2, <1>3, <1>4, Zenon DEF Good

LEMMA PingGood ==
    ASSUME now \in 0..MaxTime, NEW r \in State, Good(r), r.pc = "open",
           ~r.awaiting_pong, now >= r.ping_tick
    PROVE  LET s == [r EXCEPT !.awaiting_pong = TRUE, !.pinged = now,
                              !.ping_tick = @ + PingPeriod]
           IN s \in State /\ Good(s)
<1> DEFINE s == [r EXCEPT !.awaiting_pong = TRUE, !.pinged = now,
                          !.ping_tick = r.ping_tick + PingPeriod]
<1>1. now \in Nat /\ PingPeriod \in Nat /\ MaxLag \in Nat
  BY PeriodType, ConnectionAssumption, SMT, Z3
<1>2. s \in State
  <2> DEFINE p == r.ping_tick + PingPeriod
  <2>1. p \in Nat
    BY <1>1, SMT, Z3 DEF State
  <2> HIDE DEF p
  <2>2. [r EXCEPT !.awaiting_pong = TRUE, !.pinged = now, !.ping_tick = p] \in State
    BY <1>1, <2>1, Zenon DEF State
  <2> QED  BY <2>2, Zenon DEF p
<1>3. Windows(s)
  BY Zenon DEF Good, Windows, State
<1>4. Deadlines(s)
  BY <1>1, SMTT(30), Z3T(30) DEF Good, Deadlines, State
<1> QED  BY <1>2, <1>3, <1>4, Zenon DEF Good

-----------------------------------------------------------------------------
(* The steps *)

\* A step of one handler that is neither its start nor its end: one record
\* changes, and it stays active.
Updates(c, r) ==
    /\ now' = now /\ connections' = connections
    /\ r \in State /\ Good(r) /\ conn' = [conn EXCEPT ![c] = r]
    /\ conn[c].pc # "free" /\ r.pc # "free"

LEMMA HandlerUpdates ==
    ASSUME Handled, NEW c \in Conns, Handler(c), ~Release(c)
    PROVE  \E r \in State : Updates(c, r)
<1> DEFINE q == conn[c]
<1>1. q \in State /\ Good(q) /\ now \in 0..MaxTime
  BY Zenon DEF Handled
<1>2. ASSUME NEW r \in State, Good(r), conn' = [conn EXCEPT ![c] = r],
             q.pc # "free", r.pc # "free", UNCHANGED <<now, serverVars>>
      PROVE  \E x \in State : Updates(c, x)
  BY <1>2, Zenon DEF Updates, serverVars
<1>3. ASSUME Ends(c), q.pc # "free", UNCHANGED <<now, serverVars>>
      PROVE  \E x \in State : Updates(c, x)
  <2> DEFINE r == [q EXCEPT !.pc = "ended"]
  <2>1. r \in State /\ Good(r) /\ r.pc # "free"
    BY <1>1, EndsGood, Zenon DEF State
  <2>2. conn' = [conn EXCEPT ![c] = r]
    BY <1>3, Zenon DEF Ends
  <2> QED  BY <1>2, <1>3, <2>1, <2>2, Zenon
<1>4. CASE Hello(c)
  <2>1. CASE auth_required
    <3> DEFINE r == [q EXCEPT !.pc = "auth"]
    <3>1. q.pc = "hello" /\ conn' = [conn EXCEPT ![c] = r] /\ UNCHANGED <<now, serverVars>>
      BY <1>4, <2>1, ZenonT(30) DEF Hello, At
    <3>2. r \in State /\ Good(r) /\ r.pc # "free"
      BY <1>1, <3>1, Zenon DEF State, Good, Windows, Deadlines
    <3> QED  BY <1>2, <3>1, <3>2, Zenon
  <2>2. CASE ~auth_required
    <3> DEFINE r == Opened(q)
    <3>1. q.pc = "hello" /\ conn' = [conn EXCEPT ![c] = r] /\ UNCHANGED <<now, serverVars>>
      BY <1>4, <2>2, ZenonT(30) DEF Hello, At
    <3>2. r \in State /\ Good(r) /\ r.pc # "free"
      BY <1>1, <3>1, OpenedGood, Zenon DEF Opened, State
    <3> QED  BY <1>2, <3>1, <3>2, Zenon
  <2> QED  BY <2>1, <2>2, ZenonT(30)
<1>5. ASSUME NEW token \in Tokens, Auth(c, token)
      PROVE  \E x \in State : Updates(c, x)
  <2>1. CASE ~ValidateJwt(token)
    <3>1. q.pc = "auth" /\ Ends(c) /\ UNCHANGED <<now, serverVars>>
      BY <1>5, <2>1, ZenonT(30) DEF Auth, At, Ends
    <3> QED  BY <1>3, <3>1, ZenonT(30)
  <2>2. CASE ValidateJwt(token)
    <3> DEFINE r == [Opened(q) EXCEPT !.exp = token.exp,
                        !.token_expiry = now + ExpRemaining(token.exp)]
    <3>1. q.pc = "auth" /\ conn' = [conn EXCEPT ![c] = r] /\ UNCHANGED <<now, serverVars>>
      BY <1>5, <2>2, ZenonT(30) DEF Auth, At
    <3>2. r \in State /\ Good(r)
      BY <1>1, <2>2, <3>1, AuthGood, Zenon
    <3>3. r.pc # "free"
      BY <1>1, ZenonT(30) DEF Opened, State
    <3> QED  BY <1>2, <3>1, <3>2, <3>3, Zenon
  <2> QED  BY <2>1, <2>2, ZenonT(30)
<1>6. ASSUME NEW op \in Ops, Request(c, op)
      PROVE  \E x \in State : Updates(c, x)
  <2> DEFINE r == [q EXCEPT
                  !.limiter[op] = Counted(@, MaxPerSec[op]),
                  !.middleware[op] = MiddlewareCounted(@),
                  !.admitted[op] = IF Allows(q.limiter[op], MaxPerSec[op])
                                   THEN Append(@, now) ELSE @]
  <2>1. q.pc = "open" /\ conn' = [conn EXCEPT ![c] = r] /\ UNCHANGED <<now, serverVars>>
    BY <1>6, ZenonT(60) DEF Request, At
  <2>2. r \in State /\ Good(r)
    BY <1>1, RequestGood, Zenon
  <2>3. r.pc # "free"
    BY <1>1, <2>1, ZenonT(30) DEF State
  <2> QED  BY <1>2, <2>1, <2>2, <2>3, Zenon
<1>7. CASE Pong(c)
  <2> DEFINE r == [q EXCEPT !.awaiting_pong = FALSE, !.heard = now]
  <2>1. /\ q.pc = "open" /\ q.awaiting_pong
        /\ conn' = [conn EXCEPT ![c] = r] /\ UNCHANGED <<now, serverVars>>
    BY <1>7, Zenon DEF Pong, At
  <2>2. r \in State /\ Good(r) /\ r.pc # "free"
    BY <1>1, <2>1, PongGood, Zenon DEF State
  <2> QED  BY <1>2, <2>1, <2>2, Zenon
<1>8. CASE SendPing(c)
  <2> DEFINE r == [q EXCEPT !.awaiting_pong = TRUE, !.pinged = now,
                            !.ping_tick = @ + PingPeriod]
  <2>1. /\ q.pc = "open" /\ ~q.awaiting_pong /\ now >= q.ping_tick
        /\ conn' = [conn EXCEPT ![c] = r] /\ UNCHANGED <<now, serverVars>>
    BY <1>8, Zenon DEF SendPing, Due, At
  <2>2. r \in State /\ Good(r)
    BY <1>1, <2>1, PingGood, Zenon
  <2>3. r.pc # "free"
    BY <1>1, <2>1, ZenonT(30) DEF State
  <2> QED  BY <1>2, <2>1, <2>2, <2>3, Zenon
<1>9. CASE \/ HandshakeFails(c) \/ Leave(c) \/ TokenExpires(c) \/ PingTimeout(c)
           \/ SessionShutdown(c)
  <2>1. q.pc # "free" /\ Ends(c) /\ UNCHANGED <<now, serverVars>>
    BY <1>9, Zenon DEF HandshakeFails, Leave, TokenExpires, PingTimeout, SessionShutdown, Due, At
  <2> QED  BY <1>3, <2>1, Zenon
<1> QED  BY <1>4, <1>5, <1>6, <1>7, <1>8, <1>9, Zenon DEF Handler

\* The start of a handler takes a place, its end gives it back.
LEMMA PlaceTaken ==
    ASSUME Handled, Counts, NEW c \in Conns, Accept(c)
    PROVE  Handled' /\ Counts'
<1>1. /\ conn[c].pc = "free" /\ connections < MaxConnections
      /\ connections' = connections + 1 /\ conn' = [conn EXCEPT ![c] = Fresh] /\ now' = now
  BY Zenon DEF Accept, At
<1>2. Fresh \in State /\ Good(Fresh) /\ Fresh.pc # "free"
  BY FreshGood, Zenon DEF Handled, Fresh
<1>3. Handled'
  BY <1>1, <1>2, SMT, Z3 DEF Handled, Good, Windows, Deadlines
<1>4. Active' = Active \cup {c} /\ c \notin Active
  BY <1>1, <1>2, Zenon DEF Handled, Active
<1>5. IsFiniteSet(Active') /\ Cardinality(Active') = Cardinality(Active) + 1
  BY <1>4, FS_AddElement, Zenon DEF Counts
<1>6. Cardinality(Active) \in Nat /\ MaxConnections \in Nat
  BY FS_CardinalityType, ConnectionAssumption, Zenon DEF Counts
<1>7. Counts'
  BY <1>1, <1>5, <1>6, SMT, Z3 DEF Counts, ConnectionsExact
<1> QED  BY <1>3, <1>7, Zenon

LEMMA PlaceReleased ==
    ASSUME Handled, Counts, NEW c \in Conns, Release(c)
    PROVE  Handled' /\ Counts'
<1>1. /\ conn[c].pc = "ended" /\ connections' = connections - 1
      /\ conn' = [conn EXCEPT ![c] = Free] /\ now' = now
  BY Zenon DEF Release, At
<1>2. Free \in State /\ Good(Free) /\ Free.pc = "free"
  BY FreshGood, Zenon DEF Handled, Free, Fresh
<1>3. Handled'
  BY <1>1, <1>2, SMT, Z3 DEF Handled, Good, Windows, Deadlines
<1>4. Active' = Active \ {c} /\ c \in Active
  BY <1>1, <1>2, Zenon DEF Handled, Active
<1>5. IsFiniteSet(Active') /\ Cardinality(Active') = Cardinality(Active) - 1
  BY <1>4, FS_RemoveElement, Zenon DEF Counts
<1>6. Cardinality(Active) \in Nat /\ MaxConnections \in Nat
  BY FS_CardinalityType, ConnectionAssumption, Zenon DEF Counts
<1>7. Counts'
  BY <1>1, <1>5, <1>6, SMT, Z3 DEF Counts, ConnectionsExact
<1> QED  BY <1>3, <1>7, Zenon

LEMMA Invariance == Spec => []IndInv
<1>1. Init => IndInv
  <2> SUFFICES ASSUME Init PROVE IndInv
    BY Zenon
  <2>1. /\ now \in 0..MaxTime /\ connections = 0 /\ conn = [c \in Conns |-> Free]
    BY ConnectionAssumption, SMT, Z3 DEF Init
  <2>2. Free \in State /\ Good(Free) /\ Free.pc = "free"
    BY <2>1, FreshGood, Zenon DEF Free, Fresh
  <2>3. Handled /\ Active = {}
    BY <2>1, <2>2, Zenon DEF Handled, Active
  <2> QED  BY <2>1, <2>3, FS_EmptySet, ConnectionAssumption, SMT, Z3
           DEF IndInv, Counts, ConnectionsExact
<1>2. IndInv /\ [Next]_vars => IndInv'
  <2> SUFFICES ASSUME Handled, Counts, [Next]_vars PROVE Handled' /\ Counts'
    BY Zenon DEF IndInv
  <2>1. ASSUME NEW c \in Conns, Handler(c), ~Release(c) PROVE Handled' /\ Counts'
    <3>1. PICK r \in State : Updates(c, r)
      BY <2>1, HandlerUpdates, Zenon
    <3>2. Handled'
      BY <3>1, SMT, Z3 DEF Updates, Handled, Good, Windows, Deadlines
    <3>3. Active' = Active /\ connections' = connections
      BY <3>1, Zenon DEF Updates, Handled, Active
    <3>4. Counts'
      BY <3>3, Zenon DEF Counts, ConnectionsExact
    <3> QED  BY <3>2, <3>4, ZenonT(30)
  <2>2. CASE Signal \/ StopListening \/ UNCHANGED vars
    <3>1. now' = now /\ conn' = conn /\ connections' = connections
      BY <2>2, ZenonT(30) DEF Signal, StopListening, vars, serverVars
    <3> QED  BY <3>1, ZenonT(30) DEF Handled, Good, Windows, Deadlines, Counts, ConnectionsExact, Active
  <2>3. CASE Exit
    <3>1. now' = now /\ connections' = 0 /\ conn' = [c \in Conns |-> Free]
      BY <2>3, Zenon DEF Exit
    <3>2. Free \in State /\ Good(Free) /\ Free.pc = "free"
      BY FreshGood, Zenon DEF Handled, Free, Fresh
    <3>3. Handled'
      BY <3>1, <3>2, Zenon DEF Handled, Good, Windows, Deadlines
    <3>4. Active' = {}
      BY <3>1, <3>2, ZenonT(30) DEF Active
    <3> QED  BY <3>1, <3>3, <3>4, FS_EmptySet, ConnectionAssumption, SMT, Z3
             DEF Counts, ConnectionsExact
  <2>4. CASE Tick
    <3>1. /\ now' = now + 1 /\ now < MaxTime /\ conn' = conn /\ connections' = connections
          /\ \A c \in Conns : conn[c].pc = "open" =>
                /\ now < conn[c].token_expiry + MaxLag
                /\ now < conn[c].ping_tick + MaxLag
      BY <2>4, ZenonT(30) DEF Tick, At, serverVars
    <3>2. now \in Nat /\ MaxTime \in Nat /\ MaxLag \in Nat
      BY ConnectionAssumption, SMT, Z3 DEF Handled
    <3>3. now' \in 0..MaxTime /\ conn' \in [Conns -> State]
      BY <3>1, <3>2, SMT, Z3 DEF Handled
    <3>4. ASSUME NEW c \in Conns PROVE Good(conn[c])'
      BY <3>1, <3>2, SMT, Z3 DEF Handled, State, Good, Windows, Deadlines
    <3>5. Counts'
      BY <3>1, Zenon DEF Counts, ConnectionsExact, Active
    <3> QED  BY <3>3, <3>4, <3>5, ZenonT(30) DEF Handled
  <2> QED  BY <2>1, <2>2, <2>3, <2>4, PlaceTaken, PlaceReleased, ZenonT(30) DEF Next
<1> QED  BY <1>1, <1>2, PTL DEF Spec

-----------------------------------------------------------------------------
(* What a limiter lets through in a second *)

\* The times let through, in order; the last l.count of them lie in the window
\* of the limiter, which is less than a second long, and all but max of the
\* others at least a second before it.  So 2 * max requests take a second.
Spaced(times, l, max) ==
    /\ l.count <= max /\ l.count <= Len(times) /\ l.window_start <= now
    /\ \A i, j \in DOMAIN times : i <= j => times[i] <= times[j]
    /\ \A i \in DOMAIN times :
          /\ times[i] <= now /\ times[i] < l.window_start + TicksPerSec
          /\ i + l.count <= Len(times) => times[i] < l.window_start
          /\ i + l.count + max <= Len(times) =>
                times[i] + TicksPerSec <= l.window_start
    /\ \A i, j \in DOMAIN times :
          i + max + max <= j => times[i] + TicksPerSec <= times[j]

AllSpaced ==
    \A c \in Conns, o \in Ops :
        Spaced(conn[c].admitted[o], conn[c].limiter[o], MaxPerSec[o])

\* A set of indices has a first one: inclusion is well-founded on the
\* intervals 0..x.
LEMMA FirstIndex ==
    ASSUME NEW S \in SUBSET Nat, S # {}
    PROVE  \E x \in S : \A y \in S : x <= y
<1> DEFINE T == {0..x : x \in S}
           R == StrictSubsetOrdering(Nat)
<1>1. T \subseteq FiniteSubsetsOf(Nat) /\ T # {}
  <2>1. \A x \in S : IsFiniteSet(0..x) /\ 0..x \in SUBSET Nat
    BY FS_Interval, SMT, Z3
  <2> QED  BY <2>1, Zenon DEF FiniteSubsetsOf
<1>2. PICK I \in T : \A J \in T : <<J, I>> \notin R
  <2> HIDE DEF T, R
  <2>1. IsWellFoundedOn(R, FiniteSubsetsOf(Nat))
    BY FS_StrictSubsetOrderingWellFounded, ZenonT(30) DEF R
  <2> QED  BY <1>1, <2>1, WFMin, Zenon
<1>3. PICK m \in S : I = 0..m
  BY ZenonT(30)
<1>4. ASSUME NEW x \in S, x < m PROVE FALSE
  <2>1. 0..x \in T /\ 0..x \subseteq 0..m /\ m \in 0..m /\ m \notin 0..x
    BY <1>4, SMT, Z3
  <2>2. <<0..x, I>> \in R
    BY <1>3, <2>1, SMT, Z3 DEF StrictSubsetOrdering
  <2> QED  BY <1>2, <2>1, <2>2, Zenon
<1> QED  BY <1>4, SMT, Z3

LEMMA ElapsedSecond ==
    ASSUME now \in Nat, NEW l \in Limiter, l.window_start <= now
    PROVE  Elapsed(l) <=> now >= l.window_start + TicksPerSec
<1>1. TicksPerSec \in Nat /\ TicksPerSec >= 1 /\ l.window_start \in Nat
  BY ConnectionAssumption, SMT, Z3 DEF Limiter
<1>2. \A d, t \in Nat : t >= 1 => (d \div t >= 1 <=> d >= t)
  BY SMT, Z3
<1>3. now - l.window_start \in Nat
  BY <1>1, SMT, Z3
<1> QED  BY <1>1, <1>2, <1>3, SMT, Z3 DEF Elapsed, Secs

\* A new window begins a second or more after the last one.
LEMMA RolledSpaced ==
    ASSUME now \in Nat, NEW l \in Limiter, NEW max \in Nat, NEW times \in Seq(Nat),
           Spaced(times, l, max)
    PROVE  /\ Rolled(l) \in Limiter /\ Spaced(times, Rolled(l), max)
           /\ now < Rolled(l).window_start + TicksPerSec
<1>1. /\ TicksPerSec \in Nat /\ TicksPerSec >= 1 /\ l.window_start <= now
      /\ l.count \in Nat /\ l.window_start \in Nat /\ Len(times) \in Nat
      /\ DOMAIN times = 1..Len(times) /\ \A i \in DOMAIN times : times[i] \in Nat
  BY ConnectionAssumption, SMT, Z3 DEF Limiter, Spaced
<1>2. CASE ~Elapsed(l)
  <2>1. now < l.window_start + TicksPerSec
    BY <1>1, <1>2, ElapsedSecond, SMT, Z3
  <2> QED  BY <1>2, <2>1, Zenon DEF Rolled
<1>3. CASE Elapsed(l)
  <2> DEFINE n == [count |-> 0, window_start |-> now]
  <2>1. now >= l.window_start + TicksPerSec
    BY <1>1, <1>3, ElapsedSecond, ZenonT(30)
  <2>2. n \in Limiter /\ n.count = 0 /\ n.window_start = now /\ Rolled(l) = n
    BY <1>3, ZenonT(30) DEF Rolled, Limiter
  <2> HIDE DEF n
  <2>3. ASSUME NEW i \in DOMAIN times
        PROVE  /\ times[i] <= now /\ times[i] < now + TicksPerSec /\ times[i] < now
               /\ i + max <= Len(times) => times[i] + TicksPerSec <= now
    <3>1. times[i] <= now /\ times[i] < l.window_start + TicksPerSec /\ l.count <= max
      BY Zenon DEF Spaced
    <3>2. i + l.count <= Len(times) => times[i] < l.window_start
      BY Zenon DEF Spaced
    <3>3. i \in Nat /\ times[i] \in Nat
      BY <1>1, SMT, Z3
    <3>4. i + max <= Len(times) => i + l.count <= Len(times)
      BY <1>1, <3>1, <3>3, SMT, Z3
    <3>5. \A x, w, s \in Nat : now >= w + s =>
             /\ x < w + s => x < now
             /\ x < w => x + s <= now
      BY SMT, Z3
    <3>6. times[i] < now + TicksPerSec
      BY <1>1, <3>1, <3>3, SMT, Z3
    <3> QED  BY <1>1, <2>1, <3>1, <3>2, <3>3, <3>4, <3>5, <3>6, Zenon
  <2>4. Spaced(times, n, max)
    BY <1>1, <2>2, <2>3, SMT, Z3 DEF Spaced
  <2>5. now < now + TicksPerSec
    BY <1>1, SMT, Z3
  <2> QED  BY <2>2, <2>4, <2>5, Zenon
<1> QED  BY <1>2, <1>3, Zenon

\* One more request is let through.
LEMMA AdmittedSpaced ==
    ASSUME now \in Nat, NEW l \in Limiter, NEW max \in Nat, NEW times \in Seq(Nat),
           Spaced(times, l, max), now < l.window_start + TicksPerSec, l.count < max
    PROVE  Spaced(Append(times, now), [l EXCEPT !.count = @ + 1], max)
<1> DEFINE n == Len(times)
           a == Append(times, now)
           m == [l EXCEPT !.count = @ + 1]
<1>1. /\ TicksPerSec \in Nat /\ l.window_start <= now /\ l.count <= n
      /\ l.count \in Nat /\ l.window_start \in Nat /\ n \in Nat
      /\ DOMAIN times = 1..n /\ \A i \in 1..n : times[i] \in Nat
  BY ConnectionAssumption, SMTT(30), Z3T(30) DEF Limiter, Spaced
<1>2. m.count = l.count + 1 /\ m.window_start = l.window_start
  BY Zenon DEF Limiter
<1>3. /\ Len(a) = n + 1 /\ DOMAIN a = 1..(n + 1) /\ a[n + 1] = now
      /\ \A i \in 1..n : a[i] = times[i]
  BY SMT, Z3
<1>4. ASSUME NEW i \in 1..n
      PROVE  /\ times[i] <= now /\ times[i] < l.window_start + TicksPerSec
             /\ i + l.count <= n => times[i] < l.window_start
             /\ i + l.count + max <= n => times[i] + TicksPerSec <= l.window_start
  BY <1>1, <1>4, Zenon DEF Spaced
<1> HIDE DEF n, a, m
<1>5. ASSUME NEW i \in 1..(n + 1)
      PROVE  /\ a[i] <= now /\ a[i] < m.window_start + TicksPerSec
             /\ i + m.count <= n + 1 => a[i] < m.window_start
             /\ i + m.count + max <= n + 1 => a[i] + TicksPerSec <= m.window_start
  <2>1. CASE i = n + 1
    BY <1>1, <1>2, <1>3, <2>1, SMTT(30), Z3T(30)
  <2>2. CASE i \in 1..n
    <3>1. /\ a[i] <= now /\ a[i] < l.window_start + TicksPerSec
          /\ i + l.count <= n => a[i] < l.window_start
          /\ i + l.count + max <= n => a[i] + TicksPerSec <= l.window_start
      BY <1>3, <1>4, <2>2, Zenon
    <3>2. i \in Nat /\ l.count \in Nat /\ n \in Nat
      BY <1>1, SMT, Z3
    <3>3. /\ i + m.count <= n + 1 => i + l.count <= n
          /\ i + m.count + max <= n + 1 => i + l.count + max <= n
      BY <1>2, <3>2, SMTT(30), Z3T(30)
    <3> QED  BY <1>2, <3>1, <3>3, Zenon
  <2> QED  BY <1>1, <2>1, <2>2, SMT, Z3
<1>6. ASSUME NEW i \in 1..(n + 1), NEW j \in 1..(n + 1)
      PROVE  /\ i <= j => a[i] <= a[j]
             /\ i + max + max <= j => a[i] + TicksPerSec <= a[j]
  <2>1. CASE j = n + 1
    <3>1. CASE i = n + 1
      BY <1>1, <1>3, <2>1, <3>1, SMT, Z3
    <3>2. CASE i \in 1..n
      <4>1. /\ a[i] <= now /\ a[j] = now /\ a[i] \in Nat
            /\ i + l.count + max <= n => a[i] + TicksPerSec <= l.window_start
        BY <1>1, <1>3, <1>4, <2>1, <3>2, Zenon
      <4>2. i + max + max <= j => i + l.count + max <= n
        BY <1>1, <2>1, SMT, Z3
      <4>3. \A x, v, u \in Nat : x + u <= v /\ v <= now => x + u <= now
        BY SMT, Z3
      <4> QED  BY <1>1, <4>1, <4>2, <4>3, Zenon
    <3> QED  BY <1>1, <3>1, <3>2, SMT, Z3
  <2>2. CASE j \in 1..n /\ i \in 1..n
    <3>1. /\ i <= j => times[i] <= times[j]
          /\ i + max + max <= j => times[i] + TicksPerSec <= times[j]
      BY <1>1, <2>2, Zenon DEF Spaced
    <3> QED  BY <1>3, <2>2, <3>1, ZenonT(30)
  <2>3. CASE j \in 1..n /\ i = n + 1
    BY <1>1, <2>3, SMT, Z3
  <2> QED  BY <1>1, <2>1, <2>2, <2>3, SMT, Z3
<1>7. m.count <= max /\ m.count <= n + 1 /\ m.window_start <= now
  BY <1>1, <1>2, SMTT(30), Z3T(30)
<1>8. Spaced(a, m, max)
  BY <1>3, <1>5, <1>6, <1>7, Zenon DEF Spaced
<1> QED  BY <1>8, ZenonT(30) DEF a, m

LEMMA NothingSpaced ==
    ASSUME now \in Nat, NEW max \in Nat, NEW s \in Nat, s <= now
    PROVE  Spaced(<<>>, [count |-> 0, window_start |-> s], max)
BY SMT, Z3 DEF Spaced

LEMMA LaterSpaced ==
    ASSUME now \in Nat, now' \in Nat, now <= now', NEW l \in Limiter,
           NEW max \in Nat, NEW times \in Seq(Nat), Spaced(times, l, max)
    PROVE  /\ l.window_start <= now'
           /\ \A i \in DOMAIN times : times[i] <= now'
<1>1. l.window_start \in Nat /\ \A i \in DOMAIN times : times[i] \in Nat
  BY SMTT(30), Z3T(30) DEF Limiter
<1> QED  BY <1>1, SMT, Z3 DEF Spaced

\* Only a request touches a limiter between the start and the end of a handler.
LEMMA LimiterKept ==
    ASSUME Handled, NEW d \in Conns, Handler(d), ~Release(d), \A op \in Ops : ~Request(d, op)
    PROVE  now' = now /\ \A c \in Conns : /\ conn'[c].limiter = conn[c].limiter
                                         /\ conn'[c].admitted = conn[c].admitted
<1> DEFINE q == conn[d]
           Kept == now' = now /\ \A c \in Conns : /\ conn'[c].limiter = conn[c].limiter
                                                  /\ conn'[c].admitted = conn[c].admitted
<1>1. q \in State /\ conn \in [Conns -> State]
  BY Zenon DEF Handled
<1>2. ASSUME NEW r, conn' = [conn EXCEPT ![d] = r], now' = now,
             r.limiter = q.limiter, r.admitted = q.admitted
      PROVE  Kept
  BY <1>1, <1>2, Zenon
<1>3. \A x \in State : /\ Opened(x).limiter = x.limiter /\ Opened(x).admitted = x.admitted
  BY Zenon DEF Opened, State
<1> SUFFICES Kept
  BY Zenon DEF Kept
<1> HIDE DEF Kept
<1>4. ASSUME Ends(d), now' = now PROVE Kept
  <2> DEFINE r == [q EXCEPT !.pc = "ended"]
  <2>1. r.limiter = q.limiter /\ r.admitted = q.admitted
    BY <1>1, Zenon DEF State
  <2>2. conn' = [conn EXCEPT ![d] = r]
    BY <1>4, Zenon DEF Ends
  <2> QED  BY <1>2, <1>4, <2>1, <2>2, Zenon
<1>5. CASE HandshakeFails(d) \/ Leave(d) \/ TokenExpires(d) \/ PingTimeout(d) \/ SessionShutdown(d)
  <2>1. Ends(d) /\ UNCHANGED <<now, requests, serverVars>>
    BY <1>5, Zenon DEF HandshakeFails, Leave, TokenExpires, PingTimeout, SessionShutdown
  <2>2. now' = now
    BY <2>1, ZenonT(30)
  <2> QED  BY <1>4, <2>1, <2>2, Zenon
<1>6. CASE Hello(d)
  <2> DEFINE r == IF auth_required THEN [q EXCEPT !.pc = "auth"] ELSE Opened(q)
  <2>1. [q EXCEPT !.pc = "auth"].limiter = q.limiter /\ [q EXCEPT !.pc = "auth"].admitted = q.admitted
    BY <1>1, Zenon DEF State
  <2>2. r.limiter = q.limiter /\ r.admitted = q.admitted
    BY <1>1, <1>3, <2>1, Zenon
  <2>3. conn' = [conn EXCEPT ![d] = r] /\ now' = now
    BY <1>6, Zenon DEF Hello
  <2> HIDE DEF r
  <2> QED  BY <1>2, <2>2, <2>3, Zenon
<1>7. ASSUME NEW k \in Tokens, Auth(d, k) PROVE Kept
  <2> DEFINE x == now + ExpRemaining(k.exp)
             o == [Opened(q) EXCEPT !.exp = k.exp, !.token_expiry = x]
             r == IF ~ValidateJwt(k) THEN [q EXCEPT !.pc = "ended"] ELSE o
  <2>1. [q EXCEPT !.pc = "ended"].limiter = q.limiter /\ [q EXCEPT !.pc = "ended"].admitted = q.admitted
    BY <1>1, Zenon DEF State
  <2>2. o.limiter = q.limiter /\ o.admitted = q.admitted
    BY <1>1, Zenon DEF State, Opened
  <2>3. conn' = [conn EXCEPT ![d] = r] /\ now' = now
    BY <1>7, Zenon DEF Auth
  <2> HIDE DEF o
  <2>4. r.limiter = q.limiter /\ r.admitted = q.admitted
    BY <2>1, <2>2, Zenon
  <2> QED  BY <1>2, <2>3, <2>4, Zenon
<1>8. CASE Pong(d)
  <2> DEFINE r == [q EXCEPT !.awaiting_pong = FALSE, !.heard = now]
  <2>1. r.limiter = q.limiter /\ r.admitted = q.admitted
    BY <1>1, Zenon DEF State
  <2>2. now' = now /\ conn' = [conn EXCEPT ![d] = r]
    BY <1>8, Zenon DEF Pong
  <2> HIDE DEF r
  <2> QED  BY <1>2, <2>1, <2>2, Zenon
<1>9. CASE SendPing(d)
  <2> DEFINE r == [q EXCEPT !.awaiting_pong = TRUE, !.pinged = now,
                            !.ping_tick = @ + PingPeriod]
  <2>1. r.limiter = q.limiter /\ r.admitted = q.admitted
    BY <1>1, Zenon DEF State
  <2>2. now' = now /\ conn' = [conn EXCEPT ![d] = r]
    BY <1>9, Zenon DEF SendPing
  <2> HIDE DEF r
  <2> QED  BY <1>2, <2>1, <2>2, Zenon
<1> QED  BY <1>5, <1>6, <1>7, <1>8, <1>9, Zenon DEF Handler

LEMMA LimiterCounts ==
    ASSUME Handled, NEW d \in Conns, NEW op \in Ops, Request(d, op)
    PROVE  /\ now' = now
           /\ conn'[d].limiter = [conn[d].limiter EXCEPT ![op] =
                 Counted(conn[d].limiter[op], MaxPerSec[op])]
           /\ conn'[d].admitted = [conn[d].admitted EXCEPT ![op] =
                 IF Allows(conn[d].limiter[op], MaxPerSec[op])
                 THEN Append(conn[d].admitted[op], now) ELSE conn[d].admitted[op]]
           /\ \A c \in Conns : c # d => conn'[c] = conn[c]
<1> DEFINE q == conn[d]
           L == Counted(q.limiter[op], MaxPerSec[op])
           M == MiddlewareCounted(q.middleware[op])
           A == IF Allows(q.limiter[op], MaxPerSec[op])
                THEN Append(q.admitted[op], now) ELSE q.admitted[op]
           r == [q EXCEPT !.limiter = [q.limiter EXCEPT ![op] = L],
                          !.middleware = [q.middleware EXCEPT ![op] = M],
                          !.admitted = [q.admitted EXCEPT ![op] = A]]
<1>1. q \in State /\ conn \in [Conns -> State]
  BY ZenonT(30) DEF Handled
<1>2. UNCHANGED <<now, serverVars>> /\ conn' = [conn EXCEPT ![d] = r]
  BY ZenonT(60) DEF Request
<1>3. now' = now
  BY <1>2, SMT, Z3
<1> HIDE DEF L, M, A
<1>4. /\ r.limiter = [q.limiter EXCEPT ![op] = L] /\ r.admitted = [q.admitted EXCEPT ![op] = A]
  BY <1>1, Zenon DEF State
<1> HIDE DEF r
<1>5. conn'[d] = r /\ \A c \in Conns : c # d => conn'[c] = conn[c]
  BY <1>1, <1>2, Zenon
<1> QED  BY <1>3, <1>4, <1>5, Zenon DEF L, A

LEMMA SpacedInvariant == Spec => []AllSpaced
<1>1. Init => AllSpaced
  <2> SUFFICES ASSUME Init, NEW c \in Conns, NEW o \in Ops
               PROVE  Spaced(conn[c].admitted[o], conn[c].limiter[o], MaxPerSec[o])
    BY ZenonT(30) DEF AllSpaced
  <2>1. /\ now = 0 /\ conn[c].admitted[o] = <<>> /\ MaxPerSec[o] \in Nat
        /\ conn[c].limiter[o] = [count |-> 0, window_start |-> 0]
    BY ConnectionAssumption, Zenon DEF Init, Free, Fresh
  <2> QED  BY <2>1, NothingSpaced, SMT, Z3
<1>2. IndInv /\ IndInv' /\ AllSpaced /\ [Next]_vars => AllSpaced'
  <2> SUFFICES ASSUME Handled, Handled', AllSpaced, [Next]_vars,
                      NEW c \in Conns, NEW o \in Ops
               PROVE  Spaced(conn[c].admitted[o], conn[c].limiter[o], MaxPerSec[o])'
    BY Zenon DEF IndInv, AllSpaced
  <2> DEFINE l == conn[c].limiter[o]
             a == conn[c].admitted[o]
             max == MaxPerSec[o]
  <2>1. /\ now \in Nat /\ now' \in Nat /\ max \in Nat /\ l \in Limiter
        /\ a \in Seq(Nat) /\ Spaced(a, l, max)
    BY ConnectionAssumption, SMT, Z3 DEF Handled, State, AllSpaced
  <2>t. conn[c].limiter \in [Ops -> Limiter] /\ conn[c].admitted \in [Ops -> Seq(Nat)]
    BY Zenon DEF Handled, State
  <2> HIDE DEF l, a, max
  \* The handler of c begins or is gone.
  <2>2. ASSUME conn'[c] \in {Fresh, Free}, now' = now
        PROVE  Spaced(conn[c].admitted[o], conn[c].limiter[o], MaxPerSec[o])'
    <3> DEFINE z(s) == [count |-> 0, window_start |-> s]
    <3>1. PICK s \in {0, now} : conn'[c].limiter[o] = z(s) /\ conn'[c].admitted[o] = <<>>
      <4>1. Fresh.limiter[o] = z(now) /\ Fresh.admitted[o] = <<>>
        BY Zenon DEF Fresh, NewLimiter
      <4>2. Free.limiter[o] = z(0) /\ Free.admitted[o] = <<>>
        BY <4>1, SMT, Z3 DEF Free, Fresh
      <4> QED  BY <2>2, <4>1, <4>2, Zenon
    <3>3. Spaced(<<>>, [count |-> 0, window_start |-> s], max)
      BY <2>1, <3>1, NothingSpaced, SMT, Z3
    <3> QED  BY <2>2, <3>1, <3>3, Zenon DEF Spaced, max
  \* Its limiter and what it let through stay as they are.
  <2>3. ASSUME conn'[c].limiter[o] = l, conn'[c].admitted[o] = a, now <= now'
        PROVE  Spaced(conn[c].admitted[o], conn[c].limiter[o], MaxPerSec[o])'
    <3>1. l.window_start <= now' /\ \A i \in DOMAIN a : a[i] <= now'
      BY <2>1, <2>3, LaterSpaced, ZenonT(30)
    <3> QED  BY <2>1, <2>3, <3>1, Zenon DEF Spaced, max
  <2>4. ASSUME NEW op \in Ops, Request(c, op), op = o
        PROVE  Spaced(conn[c].admitted[o], conn[c].limiter[o], MaxPerSec[o])'
    <3>1. /\ now' = now /\ conn'[c].limiter[o] = Counted(l, max)
          /\ conn'[c].admitted[o] = IF Allows(l, max) THEN Append(a, now) ELSE a
      <4> DEFINE L == Counted(l, max)
                 A == IF Allows(l, max) THEN Append(a, now) ELSE a
      <4>1. /\ now' = now /\ conn'[c].limiter = [conn[c].limiter EXCEPT ![o] = L]
            /\ conn'[c].admitted = [conn[c].admitted EXCEPT ![o] = A]
        BY <2>4, LimiterCounts, Zenon DEF l, a, max
      <4> HIDE DEF L, A
      <4>2. conn'[c].limiter[o] = L /\ conn'[c].admitted[o] = A
        BY <2>t, <4>1, Zenon
      <4> QED  BY <4>1, <4>2, Zenon DEF L, A
    <3>2. /\ Rolled(l) \in Limiter /\ Spaced(a, Rolled(l), max)
          /\ now < Rolled(l).window_start + TicksPerSec
      BY <2>1, RolledSpaced, Zenon
    <3>3. CASE Allows(l, max)
      <4>1. Spaced(Append(a, now), [Rolled(l) EXCEPT !.count = @ + 1], max)
        BY <2>1, <3>2, <3>3, AdmittedSpaced, Zenon DEF Allows
      <4>2. conn'[c].limiter[o] = [Rolled(l) EXCEPT !.count = @ + 1]
            /\ conn'[c].admitted[o] = Append(a, now)
        BY <3>1, <3>3, Zenon DEF Counted
      <4> QED  BY <3>1, <4>1, <4>2, Zenon DEF Spaced, max
    <3>4. CASE ~Allows(l, max)
      <4>1. conn'[c].limiter[o] = Rolled(l) /\ conn'[c].admitted[o] = a
        BY <3>1, <3>4, Zenon DEF Counted
      <4> QED  BY <3>1, <3>2, <4>1, Zenon DEF Spaced, max
    <3> QED  BY <3>3, <3>4, ZenonT(30)
  <2>5. ASSUME NEW d \in Conns, Accept(d) \/ Handler(d)
        PROVE  Spaced(conn[c].admitted[o], conn[c].limiter[o], MaxPerSec[o])'
    <3>1. CASE Accept(d) \/ Release(d)
      <4>1. now' = now /\ (conn' = [conn EXCEPT ![d] = Fresh] \/ conn' = [conn EXCEPT ![d] = Free])
        BY <3>1, Zenon DEF Accept, Release
      <4>2. CASE d = c
        <5>1. conn'[c] \in {Fresh, Free}
          BY <4>1, <4>2, Zenon DEF Handled
        <5> QED  BY <2>2, <4>1, <5>1, Zenon
      <4>3. CASE d # c
        <5>1. conn'[c] = conn[c] /\ now <= now'
          BY <2>1, <4>1, <4>3, SMT, Z3 DEF Handled
        <5> QED  BY <2>3, <5>1, Zenon DEF l, a
      <4> QED  BY <4>2, <4>3, ZenonT(30)
    <3>2. ASSUME NEW op \in Ops, Request(d, op)
          PROVE  Spaced(conn[c].admitted[o], conn[c].limiter[o], MaxPerSec[o])'
      <4>1. CASE d = c /\ op = o
        BY <2>4, <3>2, <4>1, Zenon
      <4>2. CASE ~(d = c /\ op = o)
        <5>1. now' = now
          BY <3>2, LimiterCounts, Zenon
        <5>2. now <= now'
          BY <2>1, <5>1, SMT, Z3
        <5>3. conn'[c].limiter[o] = l /\ conn'[c].admitted[o] = a
          <6>1. CASE d # c
            BY <3>2, <6>1, LimiterCounts, Zenon DEF l, a
          <6>2. CASE d = c /\ op # o
            <7> DEFINE L == Counted(conn[c].limiter[op], MaxPerSec[op])
                       A == IF Allows(conn[c].limiter[op], MaxPerSec[op])
                            THEN Append(conn[c].admitted[op], now) ELSE conn[c].admitted[op]
            <7>1. /\ conn'[c].limiter = [conn[c].limiter EXCEPT ![op] = L]
                  /\ conn'[c].admitted = [conn[c].admitted EXCEPT ![op] = A]
              BY <3>2, <6>2, LimiterCounts, Zenon
            <7> HIDE DEF L, A
            <7> QED  BY <2>t, <6>2, <7>1, Zenon DEF l, a
          <6> QED  BY <4>2, <6>1, <6>2, ZenonT(30)
        <5> QED  BY <2>3, <5>2, <5>3, Zenon
      <4> QED  BY <4>1, <4>2, Zenon
    <3>3. CASE Handler(d) /\ ~Release(d) /\ \A op \in Ops : ~Request(d, op)
      <4>1. /\ now' = now /\ conn'[c].limiter = conn[c].limiter
            /\ conn'[c].admitted = conn[c].admitted
        BY <3>3, LimiterKept, Zenon
      <4>2. now <= now'
        BY <2>1, <4>1, SMT, Z3
      <4> QED  BY <2>3, <4>1, <4>2, Zenon DEF l, a
    <3> QED  BY <2>5, <3>1, <3>2, <3>3, Zenon
  <2>6. CASE Signal \/ StopListening \/ Tick \/ UNCHANGED vars
    <3>1. conn' = conn /\ now <= now'
      BY <2>1, <2>6, SMT, Z3 DEF Signal, StopListening, Tick, vars, serverVars
    <3> QED  BY <2>3, <3>1, Zenon DEF l, a
  <2>7. CASE Exit
    <3>1. conn'[c] = Free /\ now' = now
      BY <2>7, ZenonT(30) DEF Exit
    <3> QED  BY <2>2, <3>1, ZenonT(30)
  <2> QED  BY <2>5, <2>6, <2>7, ZenonT(30) DEF Next
<1> QED  BY <1>1, <1>2, Invariance, PTL DEF Spec

\* Indices closer than n together are at most n.
LEMMA CloseIndices ==
    ASSUME NEW S \in SUBSET Nat, NEW n \in Nat, \A i, j \in S : j < i + n
    PROVE  Cardinality(S) <= n
<1>1. CASE S = {}
  BY <1>1, FS_EmptySet, SMT, Z3
<1>2. CASE S # {}
  <2>1. PICK m \in S : \A j \in S : m <= j
    BY <1>2, FirstIndex, Zenon
  <2>2. S \subseteq m..(m + n - 1)
    BY <2>1, SMT, Z3
  <2>3. /\ IsFiniteSet(m..(m + n - 1)) /\ Cardinality(m..(m + n - 1)) = n
    BY <2>1, FS_Interval, SMT, Z3
  <2>4. Cardinality(S) <= Cardinality(m..(m + n - 1))
    BY <2>2, <2>3, FS_Subset, Zenon
  <2> QED  BY <2>3, <2>4, Zenon
<1> QED  BY <1>1, <1>2, ZenonT(30)

-----------------------------------------------------------------------------
(* The theorems *)

\* Whatever way connections end, the counter of the accept loop is the number
\* of handlers that run, and stays within the limit (server.rs:269-287).
THEOREM CounterIsExact == Spec => []ConnectionsExact
<1>1. IndInv => ConnectionsExact
  BY ZenonT(30) DEF IndInv, Counts
<1> QED  BY <1>1, Invariance, PTL

\* Counting rejected requests or not makes no difference to the answers of a
\* limiter (session.rs:50-62, sodp-middleware/src/rate.rs:37-51).
THEOREM LimitersAnswerAlike == Spec => []LimitersAgree
<1>1. IndInv => LimitersAgree
  <2> SUFFICES ASSUME Handled, NEW c \in Conns, NEW o \in Ops
               PROVE  Allows(conn[c].limiter[o], MaxPerSec[o])
                        <=> MiddlewareAllows(conn[c].middleware[o], MaxPerSec[o])
    BY Zenon DEF IndInv, LimitersAgree
  <2> DEFINE rl == Rolled(conn[c].limiter[o])
             rm == Rolled(conn[c].middleware[o])
  <2>1. MaxPerSec[o] \in Nat
    BY ConnectionAssumption, ZenonT(30)
  <2>2. rl \in Limiter /\ rm \in Limiter /\ SameWindow(rl, rm, MaxPerSec[o])
    <3>1. /\ conn[c].limiter[o] \in Limiter /\ conn[c].middleware[o] \in Limiter
          /\ now \in Nat
      BY SMT, Z3 DEF Handled, State
    <3>2. SameWindow(conn[c].limiter[o], conn[c].middleware[o], MaxPerSec[o])
      BY Zenon DEF Handled, Good, Windows
    <3> QED  BY <2>1, <3>1, <3>2, RolledAgree, ZenonT(30)
  <2> HIDE DEF rl, rm
  <2>3. [rm EXCEPT !.count = @ + 1].count = rm.count + 1
    BY <2>2, Zenon DEF Limiter
  <2>4. rl.count < MaxPerSec[o] <=> rm.count + 1 <= MaxPerSec[o]
    BY <2>1, <2>2, SMT, Z3 DEF SameWindow, Limiter
  <2> QED  BY <2>3, <2>4, ZenonT(30) DEF Allows, MiddlewareAllows, MiddlewareCounted, rl, rm
<1> QED  BY <1>1, Invariance, PTL

\* Wherever a second is placed, a session gets at most twice its rate through
\* in it (session.rs:33-35, 50-62).
THEOREM TwiceTheRate == Spec => []AtMostTwice
<1>1. IndInv /\ AllSpaced => AtMostTwice
  <2> SUFFICES ASSUME Handled, AllSpaced, NEW c \in Conns, NEW o \in Ops, NEW t \in 0..now
               PROVE  Cardinality({i \in DOMAIN conn[c].admitted[o] :
                          conn[c].admitted[o][i] \in t..(t + TicksPerSec - 1)})
                        <= 2 * MaxPerSec[o]
    BY Zenon DEF IndInv, AtMostTwice
  <2> DEFINE a == conn[c].admitted[o]
             max == MaxPerSec[o]
             S == {i \in DOMAIN a : a[i] \in t..(t + TicksPerSec - 1)}
  <2>1. /\ max \in Nat /\ a \in Seq(Nat) /\ TicksPerSec \in Nat /\ t \in Nat
        /\ Spaced(a, conn[c].limiter[o], max)
    BY ConnectionAssumption, SMT, Z3 DEF Handled, State, AllSpaced
  <2> HIDE DEF a, max
  <2>2. S \subseteq Nat
    BY <2>1, SMT, Z3
  <2>3. ASSUME NEW i \in S, NEW j \in S PROVE j < i + 2 * max
    <3>1. i \in Nat /\ j \in Nat /\ i \in DOMAIN a /\ j \in DOMAIN a
      BY <2>2, ZenonT(30)
    <3>2. i + max + max <= j => a[i] + TicksPerSec <= a[j]
      BY <2>1, <3>1, Zenon DEF Spaced
    <3>3. a[i] >= t /\ a[j] < t + TicksPerSec /\ a[i] \in Nat /\ a[j] \in Nat
      BY <2>1, <3>1, SMT, Z3
    <3> QED  BY <2>1, <3>1, <3>2, <3>3, SMT, Z3
  <2>4. 2 * max \in Nat
    BY <2>1, SMT, Z3
  <2> HIDE DEF S
  <2>5. Cardinality(S) <= 2 * max
    BY <2>2, <2>3, <2>4, CloseIndices, ZenonT(30)
  <2> QED  BY <2>5, ZenonT(30) DEF S, a, max
<1> QED  BY <1>1, Invariance, SpacedInvariant, PTL

\* An open session has an unexpired token and a live peer, up to the lag of
\* the timers (server.rs:79-90, 414-431).
THEOREM SessionsAlive == Spec => []OpenIsAlive
<1>1. IndInv => OpenIsAlive
  <2> SUFFICES ASSUME Handled, NEW c \in Conns, conn[c].pc = "open"
               PROVE  /\ now < (conn[c].exp + 1) * TicksPerSec + MaxLag
                      /\ now <= conn[c].heard + 2 * PingPeriod + MaxLag
    BY Zenon DEF IndInv, OpenIsAlive, At
  <2> DEFINE r == conn[c]
  <2>1. /\ now \in Nat /\ MaxLag \in Nat /\ PingPeriod \in Nat /\ r.heard \in Nat
        /\ r.token_expiry \in Nat /\ r.ping_tick \in Nat /\ r.awaiting_pong \in BOOLEAN
    BY PeriodType, ConnectionAssumption, SMT, Z3 DEF Handled, State
  <2>2. EndOf(r.exp) \in Nat
    BY ConnectionAssumption, SMT, Z3 DEF Handled, State, EndOf
  <2>3. now <= r.token_expiry + MaxLag /\ r.token_expiry < EndOf(r.exp)
    BY ZenonT(30) DEF Handled, Good, Deadlines
  <2>4. now < EndOf(r.exp) + MaxLag
    BY <2>1, <2>2, <2>3, SMT, Z3
  <2>5. /\ now <= r.ping_tick + MaxLag
        /\ \/ r.ping_tick <= r.heard + PingPeriod
           \/ r.ping_tick <= r.heard + PingPeriod + PingPeriod
    BY <2>1, ZenonT(30) DEF Handled, Good, Deadlines
  <2>6. now <= r.heard + 2 * PingPeriod + MaxLag
    BY <2>1, <2>5, SMT, Z3
  <2> QED  BY <2>4, <2>6, ZenonT(30) DEF EndOf
<1> QED  BY <1>1, Invariance, PTL

\* A peer has a ping period, less the lag of the tick that sent the ping, to
\* answer before its session is closed (server.rs:423-430).
THEOREM PeersGetAPeriod == Spec => PingGrace
<1>1. IndInv /\ [Next]_vars =>
         [\A c \in Conns : PingTimeout(c) => now - conn[c].pinged >= PingPeriod - MaxLag]_vars
  <2> SUFFICES ASSUME Handled, NEW c \in Conns, PingTimeout(c)
               PROVE  now - conn[c].pinged >= PingPeriod - MaxLag
    BY ZenonT(30) DEF IndInv
  <2> DEFINE r == conn[c]
  <2>1. /\ now \in Nat /\ MaxLag \in Nat /\ PingPeriod \in Nat
        /\ r.pinged \in Nat /\ r.ping_tick \in Nat
    BY PeriodType, ConnectionAssumption, SMT, Z3 DEF Handled, State
  <2>2. now >= r.ping_tick /\ r.pinged + PingPeriod <= r.ping_tick + MaxLag
    BY Zenon DEF PingTimeout, Due, At, Handled, Good, Deadlines
  <2> QED  BY <2>1, <2>2, SMT, Z3
<1> QED  BY <1>1, Invariance, PTL DEF Spec, PingGrace
=============================================================================
